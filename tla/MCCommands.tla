----------------------------- MODULE MCCommands -----------------------------
(***************************************************************************)
(* Instances of DataDir and of Market for TLC: the commands that share a   *)
(* data directory are either those of lord-storage and lord-ltp or those   *)
(* of lord-market, which touch none of each other's files.                 *)
(***************************************************************************)
EXTENDS DataDir, Market

ASSUME CommandsAssumption ==
  /\ MaxJobs \in Nat /\ MaxFaults \in Nat /\ MaxCrashes \in Nat
  /\ Ttl \in Nat /\ MaxReceived \in Nat /\ MaxClock \in Nat

VARIABLE part   \* which commands are given; never changes

-----------------------------------------------------------------------------
\* Installations of the market.

One(S) == {CHOOSE e \in S : TRUE}

Live == [enabled |-> TRUE, mints |-> "allowed"]

\* One contract whose price crosses the threshold in both directions.
Repriced(procs, prices) ==
  [features |-> {"lightning", "ecash"}, procs |-> procs, roots |-> One(Roots),
   fragile |-> {}, prices |-> prices, repricing |-> TRUE, apps |-> {Live}, serves |-> FALSE]

\* Two contracts of one price on Lightning, with `lord lightning serve`.
Served ==
  [features |-> {"lightning"}, procs |-> Procs, roots |-> Roots, fragile |-> {},
   prices |-> {Threshold}, repricing |-> FALSE, apps |-> {Live}, serves |-> TRUE]

\* Every build, and ecash settings that are edited.
Reconfigured(features) ==
  [features |-> features, procs |-> One(Procs), roots |-> One(Roots),
   fragile |-> Roots, prices |-> {Fee, Threshold}, repricing |-> FALSE,
   apps |-> AppSettings, serves |-> FALSE]

MCSetups ==
  {Repriced(One(Procs), Prices), Repriced(Procs, {1, Threshold}), Served} \cup
  {Reconfigured(f) : f \in SUBSET {"lightning", "ecash"}}
-----------------------------------------------------------------------------
\* Jobs of storage and transport.

First == CHOOSE r \in Roots : TRUE

\* A directory packed for both readers of Casey packs, with the public and the
\* encrypted encoding, one with two files of the same content, and a file alone.
F(path, content) == [path |-> path, content |-> content]
Command(files, format, keySource, isPack, isCompat) ==
  [files |-> files, format |-> format, key |-> keySource, pack |-> isPack, compat |-> isCompat]
PackJobs ==
  LET both == <<F("a", "x"), F("b", "y")>> IN
  {Command(both, "public", "file", TRUE, TRUE),
   Command(both, "encrypted", "file", TRUE, TRUE),
   Command(<<F("a", "y"), F("b", "y")>>, "public", "file", TRUE, FALSE),
   Command(<<F("b", "y")>>, "encrypted", "hex", FALSE, FALSE)}

\* Mempool and gossip commands; only the commitment queue is filled to its
\* limit.
Gossip(type, bound) == [kind |-> "publish", type |-> type, root |-> First, bound |-> bound]
TransportJobs ==
  {[kind |-> "enqueue", queue |-> "commitment", root |-> r, priority |-> 0] : r \in Roots}
  \cup {[kind |-> "remove", queue |-> "commitment", root |-> First],
        [kind |-> "drain", queue |-> "commitment", max |-> 1],
        [kind |-> "prune"], [kind |-> "serve"],
        Gossip("BrecciaTail", TRUE), Gossip("PaymentProof", TRUE)}

\* A frame another node of the chain may send, and one of another chain.
Frames ==
  {[version |-> 1, chain_id |-> c, message_type |-> "BrecciaTail", root |-> First, bound |-> TRUE] : c \in {0, 3}}

-----------------------------------------------------------------------------
allVars == <<part, vars, dirVars>>

AllInit ==
  /\ part \in {"files", "market"}
  /\ DirInit /\ Init
  /\ part = "files" => /\ setup = Served /\ settings = [amount |-> Threshold, app |-> Live]
                       /\ contracted \in {{}, {First}}
  /\ part = "market" => contracted = {}

AllNext ==
  /\ \/ part = "files" /\ DirNext /\ UNCHANGED vars
     \/ part = "market" /\ Next /\ UNCHANGED dirVars
  /\ UNCHANGED part

AllSpec == AllInit /\ [][AllNext]_allVars
=============================================================================
