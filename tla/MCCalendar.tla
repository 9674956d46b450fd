----------------------------- MODULE MCCalendar -----------------------------
(***************************************************************************)
(* Instances of Calendar and of Algorithms for TLC.  The algorithms keep   *)
(* no state of their own: either the calendar moves, or one algorithm is   *)
(* called.                                                                 *)
(***************************************************************************)
EXTENDS Calendar, Algorithms

\* Calendar's abstraction of building a batch's proofs is what Merkle computes,
\* for every leaf of a batch in a block of two transactions.
ASSUME ProofBuildsAsMerkle ==
  \A n \in 1 .. MaxLeaves :
    LET leaves == [k \in 1 .. n |-> Mk!Leaf(k)]
        txids == <<<<"coinbase">>, Mk!Txid(Mk!ots_merkle_root(leaves))>>
    IN ProofBuilds(1 .. n) <=> \A i \in 0 .. n - 1 : Mk!ProofBuilt(leaves, i, txids, 1)

VARIABLE part   \* what moves; never changes

allVars == <<part, vars, callVars>>

\* Every fault with all digests but one, or all of them in one batch, whose
\* proofs cannot be built when it is larger than two.
Considered ==
  LET one == CHOOSE d \in Digests : TRUE IN
  /\ part = "faults" => one \notin mem'.queue \cup ltp'
  /\ part = "batches" => ltp' = {} /\ (wk'.pc # "sleep" => acked = Digests)

AllInit ==
  /\ part \in {"faults", "batches", "algorithms"}
  /\ Init
  /\ IF part = "algorithms" THEN CallInit ELSE call = [alg |-> "none"] /\ result = None

AllNext ==
  /\ \/ part \in {"faults", "batches"} /\ Next /\ Considered /\ UNCHANGED callVars
     \/ part = "algorithms" /\ CallNext /\ UNCHANGED vars
  /\ UNCHANGED part

AllSpec == AllInit /\ [][AllNext]_allVars
=============================================================================
