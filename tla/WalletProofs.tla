---------------------------- MODULE WalletProofs ----------------------------
(***************************************************************************)
(* Two promises of the wallet commands, proved for any number of commands, *)
(* mnemonics and blocks, whatever the node and the index do in between.    *)
(*                                                                         *)
(* OneInitialiser: of the commands that race to create the node's wallet   *)
(* one gets to import its seed, until it does there is no descriptor in    *)
(* it, and a wallet that a command works with is not touched any more.     *)
(*                                                                         *)
(* ReportInv: of the transactions that were confirmed when a command       *)
(* listed the wallet's outputs, its snapshot holds every output that the   *)
(* node can still fund a transaction with.  It rests on the chain: no      *)
(* output of a confirmed transaction becomes unspent again, none becomes   *)
(* the wallet's when addresses are given away, because no transaction pays *)
(* an address before that, and the mempool has no confirmed transaction    *)
(* (ChainTyped, NodeMoves).                                                *)
(***************************************************************************)
EXTENDS Wallet, FiniteSetTheorems, SequenceTheorems, WellFoundedInduction, TLAPS

-----------------------------------------------------------------------------
\* Commands

IsCommand(c) ==
  c = [pc |-> c.pc, kind |-> c.kind, sat |-> c.sat, count |-> c.count, tries |-> c.tries, seen |-> c.seen,
       utxos |-> c.utxos, locked |-> c.locked, info |-> c.info, tx |-> c.tx, swept |-> c.swept, seed |-> c.seed]
Commands == cmd = [p \in Procs |-> cmd[p]] /\ \A p \in Procs : IsCommand(cmd[p])

\* One command moves.
Moves(p, c) == IsCommand(c) /\ cmd' = [cmd EXCEPT ![p] = c]

\* The others stay where they are.
LEMMA MovesAlone ==
  ASSUME Commands, NEW p \in Procs, NEW c, Moves(p, c)
  PROVE  Commands' /\ cmd'[p] = c /\ \A q \in Procs \ {p} : cmd'[q] = cmd[q]
<1>1. cmd' = [q \in Procs |-> IF q = p THEN c ELSE cmd[q]]
  BY DEF Commands, Moves
<1>2. cmd'[p] = c /\ \A q \in Procs \ {p} : cmd'[q] = cmd[q]
  BY <1>1
<1>3. cmd' = [q \in Procs |-> cmd'[q]]
  BY <1>1
<1>4. \A q \in Procs : IsCommand(cmd'[q])
  BY <1>2 DEF Commands, Moves
<1> QED BY <1>2, <1>3, <1>4 DEF Commands

\* Goto only changes where a command is.
LEMMA GotoMoves ==
  ASSUME Commands, NEW p \in Procs, NEW pc, Goto(p, pc)
  PROVE  LET c == [cmd[p] EXCEPT !.pc = pc] IN
         Moves(p, c) /\ c.pc = pc
<1>1. cmd' = [cmd EXCEPT ![p] = [cmd[p] EXCEPT !.pc = pc]]
  BY DEF Goto
<1>2. PICK c : c = cmd[p]
  OBVIOUS
<1>3. IsCommand(c)
  BY <1>2 DEF Commands
<1>4. IsCommand([c EXCEPT !.pc = pc]) /\ [c EXCEPT !.pc = pc].pc = pc
  BY <1>3 DEF IsCommand
<1> QED BY <1>1, <1>2, <1>4 DEF Moves

\* A process without a command.
LEMMA IdleIs == IsCommand(Idle) /\ Idle.pc = "idle"
  BY DEF Idle, IsCommand

\* A command that ends is idle, or has exited for good.
LEMMA ExitMoves ==
  ASSUME NEW p \in Procs, Exit(p)
  PROVE  \E c : Moves(p, c) /\ c.pc \in {"idle", "exited"}
<1>1. IsCommand([Idle EXCEPT !.pc = "exited"]) /\ [Idle EXCEPT !.pc = "exited"].pc = "exited"
  BY IdleIs DEF IsCommand
<1>2. PICK c : c = IF scope = "spend" THEN [Idle EXCEPT !.pc = "exited"] ELSE Idle
  OBVIOUS
<1>3. cmd' = [cmd EXCEPT ![p] = c]
  BY <1>2 DEF Exit
<1>4. IsCommand(c) /\ c.pc \in {"idle", "exited"}
  BY <1>1, <1>2, IdleIs
<1> QED BY <1>3, <1>4 DEF Moves

\* A command that has built its transaction keeps that and the outputs it
\* knows of, to report the fee.
LEMMA BuiltMoves ==
  ASSUME NEW p \in Procs, NEW kind, NEW sat, NEW tx, NEW swept, NEW used, Built(p, kind, sat, tx, swept, used)
  PROVE  \E c : /\ Moves(p, c)
                /\ c.pc = "sign" /\ c.kind = kind /\ c.tx = tx /\ c.utxos = cmd[p].utxos /\ c.seen = cmd[p].seen
<1>1. PICK u, n : u = cmd[p].utxos /\ n = cmd[p].seen
  OBVIOUS
<1>2. PICK c : c = [Idle EXCEPT !.pc = "sign", !.kind = kind, !.sat = sat, !.tx = tx,
                                !.swept = swept, !.utxos = u, !.seen = n]
  OBVIOUS
<1>3. cmd' = [cmd EXCEPT ![p] = c]
  BY <1>1, <1>2 DEF Built
<1>4. IsCommand(c) /\ c.pc = "sign" /\ c.kind = kind /\ c.tx = tx /\ c.utxos = u /\ c.seen = n
  BY <1>2, IdleIs DEF IsCommand
<1> QED BY <1>1, <1>3, <1>4 DEF Moves

\* What the steps that read the node and the index set.
LEMMA LoadMoves ==
  ASSUME Commands, NEW p \in Procs, load_wallet(p), core.exists /\ check_descriptors
  PROVE  \E c : Moves(p, c) /\ c.pc = "sync"
<1>1. PICK d : d = cmd[p] /\ IsCommand(d)
  BY DEF Commands
<1>2. PICK n : n = get_block_count + 1
  OBVIOUS
<1>3. PICK c : c = [d EXCEPT !.pc = "sync", !.count = n]
  OBVIOUS
<1>4. cmd' = [cmd EXCEPT ![p] = c]
  BY <1>1, <1>2, <1>3 DEF load_wallet
<1>5. IsCommand(c) /\ c.pc = "sync"
  BY <1>1, <1>3 DEF IsCommand
<1> QED BY <1>2, <1>4, <1>5 DEF Moves

\* Waiting for the server changes no snapshot.
LEMMA SyncMoves ==
  ASSUME Commands, NEW p \in Procs, Sync(p)
  PROVE  Exit(p) \/ \E c : Moves(p, c) /\ c.pc \in {"sync", "utxos"}
<1>1. PICK d : d = cmd[p] /\ IsCommand(d)
  BY DEF Commands
<1>2. CASE cmd' = [cmd EXCEPT ![p].pc = "utxos", ![p].tries = 0]
  <2>1. PICK c : c = [d EXCEPT !.pc = "utxos", !.tries = 0]
    OBVIOUS
  <2>2. cmd' = [cmd EXCEPT ![p] = c]
    BY <1>1, <1>2, <2>1
  <2>3. IsCommand(c) /\ c.pc = "utxos"
    BY <1>1, <2>1 DEF IsCommand
  <2> QED BY <1>1, <2>2, <2>3 DEF Moves
<1>3. CASE cmd' = [cmd EXCEPT ![p].tries = @ + 1]
  <2>1. PICK n : n = d.tries + 1
    OBVIOUS
  <2>2. PICK c : c = [d EXCEPT !.tries = n]
    OBVIOUS
  <2>3. cmd' = [cmd EXCEPT ![p] = c]
    BY <1>1, <1>3, <2>1, <2>2
  <2>4. IsCommand(c) /\ c.pc = d.pc
    BY <1>1, <2>2 DEF IsCommand
  <2> QED BY <1>1, <2>3, <2>4 DEF Moves, Sync
<1> QED BY <1>2, <1>3 DEF Sync

\* The first snapshot.
LEMMA UtxosMoves ==
  ASSUME Commands, NEW p \in Procs, get_utxos(p)
  PROVE  \E c : Moves(p, c) /\ c.pc = "locked" /\ c.seen = transactions /\ c.utxos = list_unspent
<1>1. PICK d : d = cmd[p] /\ IsCommand(d)
  BY DEF Commands
<1>2. PICK u, n : u = list_unspent /\ n = transactions
  OBVIOUS
<1>3. PICK c : c = [d EXCEPT !.pc = "locked", !.seen = n, !.utxos = u]
  OBVIOUS
<1>4. cmd' = [cmd EXCEPT ![p] = c]
  BY <1>1, <1>2, <1>3 DEF get_utxos
<1>5. IsCommand(c) /\ c.pc = "locked" /\ c.seen = n /\ c.utxos = u
  BY <1>1, <1>3 DEF IsCommand
<1> QED BY <1>1, <1>2, <1>4, <1>5 DEF Moves

\* The second snapshot.
LEMMA LockedMoves ==
  ASSUME Commands, NEW p \in Procs, get_locked_utxos(p)
  PROVE  \E c : Moves(p, c) /\ c.pc = "info" /\ c.seen = cmd[p].seen /\ cmd[p].utxos \subseteq c.utxos
<1>1. PICK d : d = cmd[p] /\ IsCommand(d)
  BY DEF Commands
<1>2. PICK l : l = {op \in list_lock_unspent : get_tx_out(op) # <<>>}
  OBVIOUS
<1>3. PICK u : u = d.utxos \cup l
  OBVIOUS
<1>4. PICK c : c = [d EXCEPT !.pc = "info", !.locked = l, !.utxos = u]
  OBVIOUS
<1>5. cmd' = [cmd EXCEPT ![p] = c]
  BY <1>1, <1>2, <1>3, <1>4 DEF get_locked_utxos
<1>6. IsCommand(c) /\ c.pc = "info" /\ c.seen = d.seen /\ c.utxos = u
  BY <1>1, <1>4 DEF IsCommand
<1> QED BY <1>1, <1>3, <1>5, <1>6 DEF Moves

\* The third snapshot.
LEMMA InfoMoves ==
  ASSUME Commands, NEW p \in Procs, get_output_info(p)
  PROVE  \E c : /\ Moves(p, c)
                /\ c.pc = "build" /\ c.seen = cmd[p].seen /\ c.utxos = cmd[p].utxos /\ DOMAIN c.info = c.utxos
<1>1. PICK d : d = cmd[p] /\ IsCommand(d)
  BY DEF Commands
<1>2. PICK i : i = [op \in d.utxos |-> list(op)]
  OBVIOUS
<1>3. PICK c : c = [d EXCEPT !.pc = "build", !.info = i]
  OBVIOUS
<1>4. cmd' = [cmd EXCEPT ![p] = c]
  BY <1>1, <1>2, <1>3 DEF get_output_info
<1>5. IsCommand(c) /\ c.pc = "build" /\ c.seen = d.seen /\ c.utxos = d.utxos /\ c.info = i
  BY <1>1, <1>3 DEF IsCommand
<1> QED BY <1>1, <1>2, <1>4, <1>5 DEF Moves

-----------------------------------------------------------------------------
\* Mnemonics

\* The steps of a command that has found a wallet it can use.
Working == {"sync", "utxos", "locked", "info", "build", "sign"}

\* Only one command gets to create the node's wallet, no descriptor is in it
\* until that command imports its own, and a wallet in use is not touched.
OneInitialiser ==
  /\ core = [exists |-> core.exists, descriptors |-> core.descriptors]
  /\ ~core.exists => core.descriptors = {} /\ \A p \in Procs : cmd[p].pc # "import"
  /\ \A p \in Procs : cmd[p].pc = "import" => core.descriptors = {} /\ printed = {}
  /\ \A p, q \in Procs : cmd[p].pc = "import" /\ cmd[q].pc = "import" => p = q
  /\ \E seed : core.descriptors \subseteq Descriptors(seed)
  /\ ~core.exists => printed = {}
  /\ \A m \in printed : /\ core.descriptors \subseteq Descriptors(m.seed)
                         /\ m.whole => core.descriptors = Descriptors(m.seed)
  /\ \A p \in Procs : cmd[p].pc \in Working => core.exists /\ check_descriptors

\* A command that leaves the node's wallet alone does not get to import, and
\* goes to work only when the wallet is whole.
KeepsOut(p) ==
  /\ UNCHANGED <<core, printed>>
  /\ \E c : /\ Moves(p, c) /\ c.pc # "import"
            /\ c.pc \in Working => cmd[p].pc \in Working \/ (core.exists /\ check_descriptors)

\* create and restore start like any other command.
LEMMA StartedKeepsOut ==
  ASSUME Commands, NEW p \in Procs, NEW kind, NEW seed, Started(p, kind, seed)
  PROVE  KeepsOut(p)
<1>1. PICK c : c = [Idle EXCEPT !.pc = "open", !.kind = kind, !.seed = seed]
  OBVIOUS
<1>2. IsCommand(c) /\ c.pc = "open"
  BY <1>1, IdleIs DEF IsCommand
<1>3. cmd' = [cmd EXCEPT ![p] = c] /\ UNCHANGED <<core, printed>>
  BY <1>1 DEF Started
<1> QED BY <1>2, <1>3 DEF KeepsOut, Moves, Working

\* A command that ends.
LEMMA ExitKeepsOut ==
  ASSUME NEW p \in Procs, Exit(p), UNCHANGED <<core, printed>>
  PROVE  KeepsOut(p)
BY ExitMoves DEF KeepsOut, Working

\* A command that goes on elsewhere than to the import or to work.
LEMMA GotoKeepsOut ==
  ASSUME Commands, NEW p \in Procs, NEW pc, Goto(p, pc), UNCHANGED <<core, printed>>,
         pc \in {"open", "version", "create_wallet", "load"}
  PROVE  KeepsOut(p)
BY GotoMoves DEF KeepsOut, Working

\* A command that builds a transaction.
LEMMA BuiltKeepsOut ==
  ASSUME NEW p \in Procs, NEW kind, NEW sat, NEW tx, NEW swept, NEW used, Built(p, kind, sat, tx, swept, used),
         cmd[p].pc = "build"
  PROVE  KeepsOut(p)
<1>1. UNCHANGED <<core, printed>>
  BY DEF Built
<1> QED BY <1>1, BuiltMoves DEF KeepsOut, Working

\* A command that is refused.
LEMMA RefusedKeepsOut ==
  ASSUME NEW p \in Procs, Refused(p)
  PROVE  KeepsOut(p)
BY ExitKeepsOut DEF Refused

\* Of the steps of a command only create_wallet and import_descriptors touch
\* the node's wallet.
LEMMA MostKeepOut ==
  ASSUME Commands, NEW p \in Procs, CommandStep(p), ~create_wallet(p), ~import_descriptors(p)
  PROVE  KeepsOut(p)
<1>1. CASE open_store(p)
  BY <1>1, GotoKeepsOut DEF open_store
<1>2. NextStep(p) \in {"create_wallet", "load"}
  BY DEF NextStep
<1>3. CASE validate_schema_version(p)
  BY <1>2, <1>3, GotoKeepsOut, ExitKeepsOut DEF validate_schema_version
<1>4. CASE initialize_schema_version(p)
  BY <1>2, <1>4, GotoKeepsOut DEF initialize_schema_version
<1>5. CASE load_wallet(p)
  <2>1. UNCHANGED <<core, printed>>
    BY <1>5 DEF load_wallet
  <2>2. CASE core.exists /\ check_descriptors
    BY <1>5, <2>1, <2>2, LoadMoves DEF KeepsOut
  <2>3. CASE ~(core.exists /\ check_descriptors)
    BY <1>5, <2>1, <2>3, ExitKeepsOut DEF load_wallet
  <2> QED BY <2>2, <2>3
<1>6. CASE Sync(p)
  <2>1. UNCHANGED <<core, printed>>
    BY <1>6 DEF Sync
  <2>2. cmd[p].pc \in Working
    BY <1>6 DEF Sync, Working
  <2>3. CASE Exit(p)
    BY <2>1, <2>3, ExitKeepsOut
  <2>4. ASSUME NEW c, Moves(p, c), c.pc \in {"sync", "utxos"}
        PROVE  KeepsOut(p)
    BY <2>1, <2>2, <2>4 DEF KeepsOut
  <2> QED BY <1>6, <2>3, <2>4, SyncMoves
<1>7. CASE get_utxos(p)
  <2>1. UNCHANGED <<core, printed>>
    BY <1>7 DEF get_utxos
  <2>2. cmd[p].pc \in Working
    BY <1>7 DEF get_utxos, Working
  <2> QED BY <1>7, <2>1, <2>2, UtxosMoves DEF KeepsOut
<1>8. CASE get_locked_utxos(p)
  <2>1. UNCHANGED <<core, printed>>
    BY <1>8 DEF get_locked_utxos
  <2>2. cmd[p].pc \in Working
    BY <1>8 DEF get_locked_utxos, Working
  <2> QED BY <1>8, <2>1, <2>2, LockedMoves DEF KeepsOut
<1>9. CASE get_output_info(p)
  <2>1. UNCHANGED <<core, printed>>
    BY <1>9 DEF get_output_info
  <2>2. cmd[p].pc \in Working
    BY <1>9 DEF get_output_info, Working
  <2> QED BY <1>9, <2>1, <2>2, InfoMoves DEF KeepsOut
<1>10. CASE SendAmount(p)
  BY <1>10, BuiltKeepsOut, RefusedKeepsOut DEF SendAmount
<1>11. CASE Sweep(p)
  BY <1>11, BuiltKeepsOut, RefusedKeepsOut DEF Sweep
<1>12. ASSUME NEW sat, SendSat(p, sat)
       PROVE  KeepsOut(p)
  BY <1>12, BuiltKeepsOut, RefusedKeepsOut DEF SendSat
<1>13. CASE sign_and_broadcast_transaction(p)
  BY <1>13, ExitKeepsOut DEF sign_and_broadcast_transaction
<1>14. CASE Killed(p)
  BY <1>14, ExitKeepsOut DEF Killed
<1> QED BY <1>1, <1>3, <1>4, <1>5, <1>6, <1>7, <1>8, <1>9, <1>10, <1>11, <1>12, <1>13, <1>14 DEF CommandStep

\* What keeps out of the node's wallet keeps the invariant.
LEMMA KeptOut ==
  ASSUME Commands, OneInitialiser, NEW p \in Procs, KeepsOut(p)
  PROVE  Commands' /\ OneInitialiser'
<1>1. UNCHANGED <<core, printed>>
  BY DEF KeepsOut
<1>2. PICK c : /\ Moves(p, c) /\ c.pc # "import"
               /\ c.pc \in Working => cmd[p].pc \in Working \/ (core.exists /\ check_descriptors)
  BY DEF KeepsOut
<1>3. Commands' /\ cmd'[p] = c /\ \A q \in Procs \ {p} : cmd'[q] = cmd[q]
  BY <1>2, MovesAlone
<1>4. \A q \in Procs : cmd'[q].pc = "import" => cmd[q].pc = "import"
  BY <1>2, <1>3
<1>5. \A q \in Procs : cmd'[q].pc \in Working => core.exists /\ check_descriptors
  BY <1>2, <1>3 DEF OneInitialiser
<1>6. check_descriptors => check_descriptors'
  BY <1>1 DEF check_descriptors
<1>7. \A q \in Procs : cmd'[q].pc \in Working => core'.exists /\ check_descriptors'
  BY <1>1, <1>5, <1>6
<1>8. OneInitialiser'
  BY <1>1, <1>4, <1>7 DEF OneInitialiser
<1> QED BY <1>3, <1>8

\* Every step of a command keeps it.
LEMMA CommandStepKeeps ==
  ASSUME Commands, OneInitialiser, NEW p \in Procs, CommandStep(p)
  PROVE  Commands' /\ OneInitialiser'
<1>1. CASE create_wallet(p)
  <2>1. CASE ~core.exists /\ core' = [core EXCEPT !.exists = TRUE] /\ Goto(p, "import")
    <3>1. UNCHANGED printed
      BY <1>1 DEF create_wallet
    <3>2. PICK c : Moves(p, c) /\ c.pc = "import"
      BY <2>1, GotoMoves
    <3>3. Commands' /\ cmd'[p] = c /\ \A q \in Procs \ {p} : cmd'[q] = cmd[q]
      BY <3>2, MovesAlone
    <3>4. core' = [exists |-> TRUE, descriptors |-> core.descriptors]
      BY <2>1 DEF OneInitialiser
    <3>5. core'.exists = TRUE /\ core'.descriptors = core.descriptors
      BY <3>4
    <3>6. core.descriptors = {} /\ printed = {} /\ \A q \in Procs : cmd[q].pc # "import" /\ cmd[q].pc \notin Working
      BY <2>1 DEF OneInitialiser
    <3>7. \A q \in Procs : (cmd'[q].pc = "import" => q = p) /\ cmd'[q].pc \notin Working
      BY <3>2, <3>3, <3>6 DEF Working
    <3>8. core' = [exists |-> core'.exists, descriptors |-> core'.descriptors]
      BY <3>4, <3>5
    <3>9. printed' = {} /\ core'.descriptors = {} /\ \E seed : core'.descriptors \subseteq Descriptors(seed)
      BY <3>1, <3>5, <3>6
    <3>10. OneInitialiser'
      BY <3>5, <3>7, <3>8, <3>9 DEF OneInitialiser
    <3> QED BY <3>3, <3>10
  <2>2. CASE core.exists /\ UNCHANGED core /\ Exit(p)
    <3>1. UNCHANGED <<core, printed>>
      BY <1>1, <2>2 DEF create_wallet
    <3> QED BY <2>2, <3>1, ExitKeepsOut, KeptOut
  <2> QED BY <1>1, <2>1, <2>2 DEF create_wallet
<1>2. CASE import_descriptors(p)
  <2>1. PICK seed : seed = cmd[p].seed
    OBVIOUS
  <2>2. PICK imported \in SUBSET Descriptors(seed), whole \in BOOLEAN :
          /\ cmd[p].pc = "import" /\ Exit(p)
          /\ core' = [core EXCEPT !.descriptors = @ \cup imported]
          /\ whole = (imported = Descriptors(seed))
          /\ printed' = printed \/ printed' = printed \cup {[seed |-> seed, whole |-> whole]}
    BY <1>2, <2>1 DEF import_descriptors
  <2>3. PICK c : Moves(p, c) /\ c.pc \in {"idle", "exited"}
    BY <2>2, ExitMoves
  <2>4. Commands' /\ cmd'[p] = c /\ \A q \in Procs \ {p} : cmd'[q] = cmd[q]
    BY <2>3, MovesAlone
  <2>5. core.exists /\ core.descriptors = {} /\ printed = {}
    BY <2>2 DEF OneInitialiser
  <2>6. core' = [exists |-> core.exists, descriptors |-> core.descriptors \cup imported]
    BY <2>2 DEF OneInitialiser
  <2>7. core'.exists = core.exists /\ core'.descriptors = imported
    BY <2>5, <2>6
  <2>8. ~check_descriptors
    <3>1. Cardinality({}) = 0
      BY FS_EmptySet
    <3> QED BY <2>5, <3>1 DEF check_descriptors
  <2>9. \A q \in Procs : cmd'[q].pc # "import" /\ cmd'[q].pc \notin Working
    BY <2>2, <2>3, <2>4, <2>8 DEF OneInitialiser, Working
  <2>10. core' = [exists |-> core'.exists, descriptors |-> core'.descriptors]
    BY <2>6
  <2>11. \A m \in printed' : m = [seed |-> seed, whole |-> whole]
    BY <2>2, <2>5
  <2>12. \A m \in printed' : m.seed = seed /\ m.whole = whole
    BY <2>11
  <2>13. \A m \in printed' : /\ core'.descriptors \subseteq Descriptors(m.seed)
                             /\ m.whole => core'.descriptors = Descriptors(m.seed)
    BY <2>2, <2>7, <2>12
  <2>14. OneInitialiser'
    BY <2>2, <2>5, <2>7, <2>9, <2>10, <2>13 DEF OneInitialiser
  <2> QED BY <2>4, <2>14
<1>3. CASE ~create_wallet(p) /\ ~import_descriptors(p)
  BY <1>3, MostKeepOut, KeptOut
<1> QED BY <1>1, <1>2, <1>3

\* The invariant of the wallet commands holds in every state.
THEOREM WalletInitialisedOnce == WalletSpec => [](Commands /\ OneInitialiser)
<1>1. WalletInit => Commands /\ OneInitialiser
  <2> SUFFICES ASSUME WalletInit
               PROVE  Commands /\ OneInitialiser
    OBVIOUS
  <2>1. cmd = [p \in Procs |-> Idle] /\ printed = {}
    BY DEF WalletInit
  <2>2. Commands
    BY <2>1, IdleIs DEF Commands
  <2>3. \A p \in Procs : cmd[p].pc # "import" /\ cmd[p].pc \notin Working
    BY <2>1, IdleIs DEF Working
  <2>4. core = [exists |-> TRUE, descriptors |-> Descriptors("")] \/ core = [exists |-> FALSE, descriptors |-> {}]
    BY DEF WalletInit
  <2>5. CASE core = [exists |-> TRUE, descriptors |-> Descriptors("")]
    <3>1. core.exists = TRUE /\ core.descriptors = Descriptors("")
      BY <2>5
    <3>2. core = [exists |-> core.exists, descriptors |-> core.descriptors]
      BY <2>5
    <3> QED BY <2>1, <2>2, <2>3, <3>1, <3>2 DEF OneInitialiser
  <2>6. CASE core = [exists |-> FALSE, descriptors |-> {}]
    <3>1. core.exists = FALSE /\ core.descriptors = {} /\ core = [exists |-> core.exists, descriptors |-> core.descriptors]
      BY <2>6
    <3> QED BY <2>1, <2>2, <2>3, <3>1 DEF OneInitialiser
  <2> QED BY <2>2, <2>4, <2>5, <2>6
<1>2. ASSUME Commands /\ OneInitialiser, [WalletNext]_<<vars, scope, walletVars>>
      PROVE  Commands' /\ OneInitialiser'
  <2>1. CASE UNCHANGED walletVars
    <3>1. UNCHANGED <<core, printed, cmd>> /\ check_descriptors' = check_descriptors
      BY <2>1 DEF walletVars, check_descriptors
    <3> QED BY <1>2, <3>1 DEF Commands, OneInitialiser
  <2>2. ASSUME NEW p \in Procs, NEW m, Create(p, m) \/ Restore(p, m)
        PROVE  Commands' /\ OneInitialiser'
    BY <1>2, <2>2, StartedKeepsOut, KeptOut DEF Create, Restore
  <2>3. ASSUME NEW p \in Procs, Construct(p)
        PROVE  Commands' /\ OneInitialiser'
    <3>1. Goto(p, "open") /\ UNCHANGED <<core, printed>>
      BY <2>3 DEF Construct, Goto
    <3> QED BY <1>2, <3>1, GotoKeepsOut, KeptOut
  <2>4. ASSUME NEW p \in Procs, CommandStep(p)
        PROVE  Commands' /\ OneInitialiser'
    BY <1>2, <2>4, CommandStepKeeps
  <2>5. CASE UNCHANGED <<vars, scope, walletVars>>
    BY <2>1, <2>5
  <2>6. CASE WalletNext
    BY <2>1, <2>2, <2>3, <2>4, <2>6, WalletAssumption DEF WalletNext
  <2> QED BY <1>2, <2>5, <2>6
<1> QED BY <1>1, <1>2, PTL DEF WalletSpec

\* Two descriptors of one seed are the pair.
LEMMA PairIs ==
  ASSUME NEW seed, NEW D \in SUBSET Descriptors(seed), Cardinality(D) = 2
  PROVE  D = Descriptors(seed)
<1>1. PICK a, b : a = <<seed, "receive">> /\ b = <<seed, "change">>
  OBVIOUS
<1>2. Descriptors(seed) = {a, b}
  BY <1>1 DEF Descriptors
<1>3. IsFiniteSet({a}) /\ Cardinality({a}) = 1
  BY FS_Singleton
<1>4. {a, b} = {a} \cup {b} /\ (b \in {a} \/ b \notin {a})
  OBVIOUS
<1>5. PICK n \in Nat : IsFiniteSet({a, b}) /\ Cardinality({a, b}) = n /\ n <= 2
  BY <1>3, <1>4, FS_AddElement
<1>6. D \in SUBSET {a, b}
  BY <1>2
<1>7. Cardinality(D) <= n
  BY <1>5, <1>6, FS_Subset
<1>8. Cardinality(D) = Cardinality({a, b})
  BY <1>5, <1>7
<1>9. D = {a, b}
  BY <1>5, <1>6, <1>8, FS_Subset
<1> QED BY <1>2, <1>9

\* Commands that race for the name of a wallet, or that are killed on the way,
\* never leave descriptors of two seeds in it; a printed mnemonic is the
\* wallet's unless the node did not import it; and a half-made wallet is not
\* used (Wallet::initialize, check_descriptors).
THEOREM MnemonicsOpenWallet == WalletSpec => []MnemonicOpensWallet
<1>1. OneInitialiser => MnemonicOpensWallet
  <2> SUFFICES ASSUME OneInitialiser
               PROVE  MnemonicOpensWallet
    OBVIOUS
  <2>1. ASSUME NEW p \in Procs, cmd[p].pc \in Working
        PROVE  \E d \in core.descriptors : core.descriptors = Descriptors(d[1])
    <3>1. PICK seed : core.descriptors \subseteq Descriptors(seed)
      BY DEF OneInitialiser
    <3>2. Cardinality(core.descriptors) = 2
      BY <2>1 DEF OneInitialiser, check_descriptors
    <3>3. core.descriptors = Descriptors(seed)
      BY <3>1, <3>2, PairIs
    <3>4. <<seed, "receive">> \in core.descriptors
      BY <3>3 DEF Descriptors
    <3> QED BY <3>3, <3>4
  <2> QED BY <2>1 DEF OneInitialiser, MnemonicOpensWallet, Working
<1> QED BY <1>1, WalletInitialisedOnce, PTL

-----------------------------------------------------------------------------
\* Reports

\* A vector, whatever its elements.
IsVector(s) == \E S : s \in Seq(S)

\* Outputs with no script beyond those of the addresses the node has given away.
IsOutput(o, given) == o = [value |-> o.value, script |-> o.script] /\ o.script \in Int /\ o.script <= given
Outputs(outs, given) == IsVector(outs) /\ \A v \in DOMAIN outs : IsOutput(outs[v], given)

\* Where the unspent outputs are.
OutPoints == {op \in Nat \X Nat : op[1] \in DOMAIN txs /\ op[2] \in DOMAIN txs[op[1]].out}

ChainTyped ==
  /\ addresses \in Nat /\ IsVector(txs)
  /\ \A t \in DOMAIN txs : Outputs(txs[t].out, addresses) /\ \A v \in DOMAIN txs[t].out : txs[t].out[v].value \in Nat
  /\ mempool \in Seq(DOMAIN txs)
  /\ utxos \subseteq OutPoints /\ IsFiniteSet(utxos)
  /\ transactions \subseteq DOMAIN txs /\ transactions \cap ToSet(mempool) = {}

\* Spends an output of a transaction that was not confirmed.
SpendsNew(ins, seen) == \E op \in ToSet(ins) : op[1] \notin seen

\* What a command knows: of the outputs of the transactions that were confirmed
\* when it listed them, all that it can spend.
Knows(c) ==
  /\ c.pc \in {"locked", "info", "build"} => /\ c.seen \subseteq transactions
                                            /\ \A op \in list_unspent : op[1] \in c.seen => op \in c.utxos
  /\ c.pc = "build" => DOMAIN c.info = c.utxos
  /\ c.pc = "sign" => /\ Outputs(c.tx.out, addresses)
                      /\ c.kind # "sweep" => \/ ToSet(c.tx.in) \subseteq c.utxos
                                             \/ c.kind = "amount" /\ SpendsNew(c.tx.in, c.seen)

\* What became of a transaction.
Reported(s) == s.tx \in DOMAIN txs /\ (s.panicked => s.kind = "amount" /\ SpendsNew(txs[s.tx].in, s.seen))
AllReported == \A s \in sent : Reported(s)

ReportInv ==
  /\ scope = "index" => sent = {} /\ \A p \in Procs : cmd[p].pc = "idle"
  /\ scope # "index" => ChainTyped /\ (\A p \in Procs : Knows(cmd[p])) /\ AllReported

-----------------------------------------------------------------------------
\* Vectors

\* An element more.
LEMMA Appended ==
  ASSUME NEW s, IsVector(s), NEW e
  PROVE  /\ IsVector(Append(s, e)) /\ Len(s) \in Nat /\ DOMAIN s = 1 .. Len(s)
         /\ Len(Append(s, e)) = Len(s) + 1 /\ DOMAIN Append(s, e) = 1 .. Len(s) + 1
         /\ \A i \in DOMAIN s : Append(s, e)[i] = s[i]
         /\ Append(s, e)[Len(s) + 1] = e
<1>1. PICK S : s \in Seq(S)
  BY DEF IsVector
<1>2. PICK T : T = S \cup {e}
  OBVIOUS
<1>3. s \in Seq(T)
  <2>1. s \in [1 .. Len(s) -> S] /\ Len(s) \in Nat
    BY <1>1, LenProperties
  <2>2. s \in [1 .. Len(s) -> T]
    BY <1>2, <2>1
  <2> QED BY <2>1, <2>2, SeqDef
<1>4. e \in T
  BY <1>2
<1>5. PICK n \in Nat : n = Len(s) /\ DOMAIN s = 1 .. n
  BY <1>3, LenProperties
<1>6. PICK t : t = Append(s, e)
  OBVIOUS
<1>7. t \in Seq(T) /\ Len(t) = n + 1 /\ (\A i \in 1 .. n : t[i] = s[i]) /\ t[n + 1] = e
  BY <1>3, <1>4, <1>5, <1>6, AppendProperties
<1>8. DOMAIN t = 1 .. n + 1
  BY <1>7, LenProperties
<1>9. IsVector(t)
  BY <1>7 DEF IsVector
<1> QED BY <1>5, <1>6, <1>7, <1>8, <1>9

\* Vectors one after the other have the elements of both.
LEMMA VectorsJoined ==
  ASSUME NEW s, IsVector(s), NEW r, IsVector(r)
  PROVE  /\ IsVector(s \o r)
         /\ \A x \in ToSet(s \o r) : x \in ToSet(s) \/ x \in ToSet(r)
<1>1. PICK S, R : s \in Seq(S) /\ r \in Seq(R)
  BY DEF IsVector
<1>2. PICK T : T = S \cup R
  OBVIOUS
<1>3. PICK m \in Nat, n \in Nat : m = Len(s) /\ n = Len(r) /\ s \in [1 .. m -> S] /\ r \in [1 .. n -> R]
  BY <1>1, LenProperties
<1>4. s \in [1 .. m -> T] /\ r \in [1 .. n -> T]
  BY <1>2, <1>3
<1>5. s \in Seq(T) /\ r \in Seq(T)
  BY <1>4, SeqDef
<1>6. PICK t : t = s \o r
  OBVIOUS
<1>7. t \in Seq(T) /\ Len(t) = m + n /\ \A i \in 1 .. m + n : t[i] = IF i <= m THEN s[i] ELSE r[i - m]
  BY <1>3, <1>5, <1>6, ConcatProperties
<1>8. DOMAIN t = 1 .. m + n
  BY <1>7, LenProperties
<1>9. ASSUME NEW i \in 1 .. m + n
      PROVE  t[i] \in ToSet(s) \/ t[i] \in ToSet(r)
  <2>1. CASE i <= m
    <3>1. i \in DOMAIN s /\ t[i] = s[i]
      BY <1>3, <1>7, <2>1
    <3> QED BY <3>1 DEF ToSet
  <2>2. CASE ~(i <= m)
    <3>1. PICK k \in 1 .. n : k = i - m
      BY <2>2
    <3>2. k \in DOMAIN r /\ t[i] = r[k]
      BY <1>3, <1>7, <2>2, <3>1
    <3> QED BY <3>2 DEF ToSet
  <2> QED BY <2>1, <2>2
<1>10. \A x \in ToSet(t) : x \in ToSet(s) \/ x \in ToSet(r)
  BY <1>8, <1>9 DEF ToSet
<1> QED BY <1>6, <1>7, <1>10 DEF IsVector

\* An output more.
LEMMA OutputAppended ==
  ASSUME NEW n \in Nat, NEW outs, Outputs(outs, n), NEW o, IsOutput(o, n)
  PROVE  Outputs(Append(outs, o), n)
<1>1. PICK l \in Nat : l = Len(outs) /\ DOMAIN outs = 1 .. l
  BY Appended DEF Outputs
<1>2. PICK t : t = Append(outs, o)
  OBVIOUS
<1>3. IsVector(t) /\ DOMAIN t = 1 .. l + 1 /\ (\A i \in 1 .. l : t[i] = outs[i]) /\ t[l + 1] = o
  BY <1>1, <1>2, Appended DEF Outputs
<1>4. \A i \in 1 .. l + 1 : i \in 1 .. l \/ i = l + 1
  OBVIOUS
<1>5. \A i \in 1 .. l + 1 : IsOutput(t[i], n)
  BY <1>1, <1>3, <1>4 DEF Outputs
<1> QED BY <1>2, <1>3, <1>5 DEF Outputs

\* No output.
LEMMA NoOutputs == \A n \in Nat : Outputs(<<>>, n)
<1>1. <<>> \in Seq({})
  OBVIOUS
<1> QED BY <1>1 DEF Outputs, IsVector

\* Outputs one after the other.
LEMMA OutputsJoined ==
  ASSUME NEW n \in Nat, NEW outs, Outputs(outs, n), NEW more, Outputs(more, n)
  PROVE  Outputs(outs \o more, n)
<1>1. PICK t : t = outs \o more
  OBVIOUS
<1>2. IsVector(t) /\ \A x \in ToSet(t) : x \in ToSet(outs) \/ x \in ToSet(more)
  BY <1>1, VectorsJoined DEF Outputs
<1>3. ASSUME NEW i \in DOMAIN t
      PROVE  IsOutput(t[i], n)
  <2>1. t[i] \in ToSet(outs) \/ t[i] \in ToSet(more)
    BY <1>2 DEF ToSet
  <2> QED BY <2>1 DEF ToSet, Outputs
<1> QED BY <1>1, <1>2, <1>3 DEF Outputs

\* An output that pays a script within the bound.
LEMMA OutputIs ==
  ASSUME NEW n \in Nat, NEW value, NEW script \in Int, script <= n
  PROVE  IsOutput(Output(value, script), n) /\ Output(value, script).value = value
BY DEF IsOutput, Output

\* Outputs stay so when addresses are given away.
LEMMA OutputsStay ==
  ASSUME NEW n \in Nat, NEW m \in Nat, n <= m, NEW outs, Outputs(outs, n)
  PROVE  Outputs(outs, m)
<1>1. \A v \in DOMAIN outs : IsOutput(outs[v], m)
  BY DEF Outputs, IsOutput
<1> QED BY <1>1 DEF Outputs

-----------------------------------------------------------------------------
\* Places in an order

\* A total order on a set, as a set of pairs.
Orders(R, S) ==
  /\ \A x \in S : <<x, x>> \in R
  /\ \A x, y \in S : <<x, y>> \in R \/ <<y, x>> \in R
  /\ \A x, y \in S : <<x, y>> \in R /\ <<y, x>> \in R => x = y
  /\ \A x, y, z \in S : <<x, y>> \in R /\ <<y, z>> \in R => <<x, z>> \in R

UpTo(R, S, x) == {y \in S : <<y, x>> \in R}
Place(R, S, x) == Cardinality(UpTo(R, S, x))

\* Places count from one.
LEMMA PlaceType ==
  ASSUME NEW R, NEW S, IsFiniteSet(S), Orders(R, S), NEW x \in S
  PROVE  /\ IsFiniteSet(UpTo(R, S, x))
         /\ Place(R, S, x) \in 1 .. Cardinality(S)
<1>1. UpTo(R, S, x) \in SUBSET S /\ x \in UpTo(R, S, x)
  BY DEF UpTo, Orders
<1>2. PICK T : T = UpTo(R, S, x)
  OBVIOUS
<1>3. IsFiniteSet(T) /\ Cardinality(T) <= Cardinality(S)
  BY <1>1, <1>2, FS_Subset
<1>4. Cardinality(T) \in Nat /\ Cardinality(S) \in Nat /\ (Cardinality(T) = 0 <=> T = {})
  BY <1>3, FS_CardinalityType, FS_EmptySet
<1> QED BY <1>1, <1>2, <1>3, <1>4 DEF Place

\* No two elements have the same place.
LEMMA PlacesDiffer ==
  ASSUME NEW R, NEW S, IsFiniteSet(S), Orders(R, S),
         NEW x \in S, NEW y \in S, Place(R, S, x) = Place(R, S, y)
  PROVE  x = y
<1>1. ASSUME NEW a \in S, NEW b \in S, <<a, b>> \in R, Place(R, S, a) = Place(R, S, b)
      PROVE  a = b
  <2>1. UpTo(R, S, a) \in SUBSET UpTo(R, S, b) /\ b \in UpTo(R, S, b)
    BY <1>1 DEF UpTo, Orders
  <2>2. PICK A, B : A = UpTo(R, S, a) /\ B = UpTo(R, S, b)
    OBVIOUS
  <2>3. IsFiniteSet(B) /\ A \in SUBSET B /\ Cardinality(B) = Cardinality(A)
    BY <1>1, <2>1, <2>2, PlaceType DEF Place
  <2>4. A = B
    BY <2>3, FS_Subset
  <2> QED BY <1>1, <2>1, <2>2, <2>4 DEF UpTo, Orders
<1>2. <<x, y>> \in R \/ <<y, x>> \in R
  BY DEF Orders
<1> QED BY <1>1, <1>2

\* Every place is taken.
LEMMA PlacesTaken ==
  ASSUME NEW R, NEW S, IsFiniteSet(S), Orders(R, S), NEW i \in 1 .. Cardinality(S)
  PROVE  \E x \in S : Place(R, S, x) = i
<1>1. PICK n \in Nat : n = Cardinality(S)
  BY FS_CardinalityType
<1>2. PICK T : T = 1 .. n
  OBVIOUS
<1>3. IsFiniteSet(T) /\ Cardinality(T) = n
  BY <1>2, FS_Interval
<1>4. PICK f : f = [x \in S |-> Place(R, S, x)]
  OBVIOUS
<1>5. f \in [S -> T]
  BY <1>1, <1>2, <1>4, PlaceType
<1>6. \A a, b \in S : f[a] = f[b] => a = b
  BY <1>4, PlacesDiffer
<1>7. f \in Injection(S, T)
  BY <1>5, <1>6 DEF Injection, IsInjective
<1>8. f \in Surjection(S, T)
  BY <1>1, <1>3, <1>7, FS_Injection
<1> QED BY <1>1, <1>2, <1>4, <1>8 DEF Surjection

\* A vector of the elements at each place has elements only.
LEMMA PlacesListed ==
  ASSUME NEW R, NEW S, IsFiniteSet(S), Orders(R, S),
         NEW t, t = [i \in 1 .. Cardinality(S) |-> t[i]],
         \A i \in 1 .. Cardinality(S), x \in S : Place(R, S, x) = i => t[i] \in S
  PROVE  IsVector(t) /\ DOMAIN t = 1 .. Cardinality(S) /\ Cardinality(S) \in Nat /\ ToSet(t) \subseteq S
<1>1. PICK n \in Nat : n = Cardinality(S)
  BY FS_CardinalityType
<1>2. ASSUME NEW i \in 1 .. n
      PROVE  t[i] \in S
  <2>1. PICK x \in S : Place(R, S, x) = i
    BY <1>1, <1>2, PlacesTaken
  <2> QED BY <1>1, <2>1
<1>3. PICK D : D = 1 .. n
  OBVIOUS
<1>4. t = [i \in D |-> t[i]]
  BY <1>1, <1>3
<1>5. t \in [D -> S] /\ DOMAIN t = D
  BY <1>2, <1>3, <1>4
<1>6. t \in Seq(S)
  BY <1>3, <1>5, SeqDef
<1>7. ToSet(t) \subseteq S
  BY <1>5 DEF ToSet
<1> QED BY <1>1, <1>3, <1>5, <1>6, <1>7 DEF IsVector

\* Outputs of the node are ordered by value and place in the chain.
LEMMA LargestFirst ==
  ASSUME ChainTyped, NEW S \in SUBSET utxos
  PROVE  LET t == sorted(S, larger) IN
         IsVector(t) /\ DOMAIN t = 1 .. Cardinality(S) /\ Cardinality(S) \in Nat /\ ToSet(t) \subseteq S
<1>1. IsFiniteSet(S)
  BY FS_Subset DEF ChainTyped
<1>2. PICK a, b, v : a = [x \in S |-> x[1]] /\ b = [x \in S |-> x[2]] /\ v = [x \in S |-> TxOut(x).value]
  OBVIOUS
<1>3. \A x \in S : x = <<a[x], b[x]>> /\ a[x] \in Nat /\ b[x] \in Nat /\ v[x] \in Nat
  <2> SUFFICES ASSUME NEW x \in S
               PROVE  x = <<x[1], x[2]>> /\ x[1] \in Nat /\ x[2] \in Nat /\ TxOut(x).value \in Nat
    BY <1>2
  <2>1. x \in Nat \X Nat /\ x[1] \in DOMAIN txs /\ x[2] \in DOMAIN txs[x[1]].out
    BY DEF ChainTyped, OutPoints
  <2> QED BY <2>1 DEF ChainTyped, TxOut
<1>4. \A x, y \in S : larger(x, y) <=> v[x] > v[y] \/ (v[x] = v[y] /\ (a[x] > a[y] \/ (a[x] = a[y] /\ b[x] > b[y])))
  BY <1>2 DEF larger
<1>5. PICK R : R = {e \in S \X S : ~larger(e[2], e[1])}
  OBVIOUS
<1>6. \A x, y \in S : <<x, y>> \in R <=> ~larger(y, x)
  BY <1>5
<1>7. Orders(R, S)
  <2>1. ASSUME NEW x \in S, NEW y \in S
        PROVE  <<x, y>> \in R <=>
                 v[x] > v[y] \/ (v[x] = v[y] /\ (a[x] > a[y] \/ (a[x] = a[y] /\ b[x] >= b[y])))
    <3>1. PICK xa \in Nat, xb \in Nat, xv \in Nat : xa = a[x] /\ xb = b[x] /\ xv = v[x]
      BY <1>3
    <3>2. PICK ya \in Nat, yb \in Nat, yv \in Nat : ya = a[y] /\ yb = b[y] /\ yv = v[y]
      BY <1>3
    <3>3. ~(yv > xv \/ (yv = xv /\ (ya > xa \/ (ya = xa /\ yb > xb))))
            <=> xv > yv \/ (xv = yv /\ (xa > ya \/ (xa = ya /\ xb >= yb)))
      OBVIOUS
    <3> QED BY <1>4, <1>6, <3>1, <3>2, <3>3
  <2>2. \A x \in S : <<x, x>> \in R
    BY <1>3, <2>1
  <2>3. ASSUME NEW x \in S, NEW y \in S
        PROVE  <<x, y>> \in R \/ <<y, x>> \in R
    <3>1. PICK xa \in Nat, xb \in Nat, xv \in Nat : xa = a[x] /\ xb = b[x] /\ xv = v[x]
      BY <1>3
    <3>2. PICK ya \in Nat, yb \in Nat, yv \in Nat : ya = a[y] /\ yb = b[y] /\ yv = v[y]
      BY <1>3
    <3>3. \/ xv > yv \/ (xv = yv /\ (xa > ya \/ (xa = ya /\ xb >= yb)))
          \/ yv > xv \/ (yv = xv /\ (ya > xa \/ (ya = xa /\ yb >= xb)))
      OBVIOUS
    <3> QED BY <2>1, <3>1, <3>2, <3>3
  <2>4. \A x, y \in S : <<x, y>> \in R /\ <<y, x>> \in R => x = y
    BY <1>3, <2>1
  <2>5. \A x, y, z \in S : <<x, y>> \in R /\ <<y, z>> \in R => <<x, z>> \in R
    BY <1>3, <2>1
  <2> QED BY <2>2, <2>3, <2>4, <2>5 DEF Orders
<1>8. PICK at : at = [x \in S |-> Place(R, S, x)]
  OBVIOUS
<1>9. \A x \in S : Cardinality({y \in S : ~larger(x, y)}) = at[x]
  <2> SUFFICES ASSUME NEW x \in S
               PROVE  {y \in S : ~larger(x, y)} = {y \in S : <<y, x>> \in R}
    BY <1>8 DEF Place, UpTo
  <2> QED BY <1>6
<1>10. PICK t : t = sorted(S, larger)
  OBVIOUS
<1>11. t = [i \in 1 .. Cardinality(S) |-> CHOOSE x \in S : Cardinality({y \in S : ~larger(x, y)}) = i]
  BY <1>10 DEF sorted
<1>12. t = [i \in 1 .. Cardinality(S) |-> t[i]]
  BY <1>11
<1>13. ASSUME NEW i \in 1 .. Cardinality(S), NEW x \in S, at[x] = i
       PROVE  t[i] \in S
  <2>1. t[i] = CHOOSE z \in S : Cardinality({y \in S : ~larger(z, y)}) = i
    BY <1>11
  <2>2. Cardinality({y \in S : ~larger(x, y)}) = i
    BY <1>9, <1>13
  <2> QED BY <2>1, <2>2
<1>14. \A i \in 1 .. Cardinality(S), x \in S : Place(R, S, x) = i => t[i] \in S
  BY <1>8, <1>13
<1>15. IsVector(t) /\ DOMAIN t = 1 .. Cardinality(S) /\ Cardinality(S) \in Nat /\ ToSet(t) \subseteq S
  BY <1>1, <1>7, <1>12, <1>14, PlacesListed
<1> QED BY <1>10, <1>15

\* A vector of outpoints in order is the vector of its elements.
LEMMA InOrder ==
  ASSUME NEW S
  PROVE  LET t == sorted(S, OutPointLess) IN t = [i \in 1 .. Cardinality(S) |-> t[i]]
BY DEF sorted

\* Outpoints are ordered as pairs.
LEMMA OutPointsInOrder ==
  ASSUME ChainTyped, NEW S \in SUBSET utxos
  PROVE  LET t == sorted(S, OutPointLess) IN
         IsVector(t) /\ DOMAIN t = 1 .. Cardinality(S) /\ Cardinality(S) \in Nat /\ ToSet(t) \subseteq S
<1>1. IsFiniteSet(S)
  BY FS_Subset DEF ChainTyped
<1>2. PICK a, b : a = [x \in S |-> x[1]] /\ b = [x \in S |-> x[2]]
  OBVIOUS
<1>3. \A x \in S : x = <<a[x], b[x]>> /\ a[x] \in Nat /\ b[x] \in Nat
  BY <1>2 DEF ChainTyped, OutPoints
<1>4. \A x, y \in S : OutPointLess(x, y) <=> a[x] < a[y] \/ (a[x] = a[y] /\ b[x] < b[y])
  BY <1>2 DEF OutPointLess
<1>5. PICK R : R = {e \in S \X S : ~OutPointLess(e[2], e[1])}
  OBVIOUS
<1>6. \A x, y \in S : <<x, y>> \in R <=> ~OutPointLess(y, x)
  BY <1>5
<1>7. Orders(R, S)
  <2>1. ASSUME NEW x \in S, NEW y \in S
        PROVE  /\ <<x, y>> \in R <=> a[x] < a[y] \/ (a[x] = a[y] /\ b[x] <= b[y])
               /\ <<x, y>> \in R \/ <<y, x>> \in R
    <3>1. PICK xa \in Nat, xb \in Nat, ya \in Nat, yb \in Nat : xa = a[x] /\ xb = b[x] /\ ya = a[y] /\ yb = b[y]
      BY <1>3
    <3>2. /\ ~(ya < xa \/ (ya = xa /\ yb < xb)) <=> xa < ya \/ (xa = ya /\ xb <= yb)
          /\ ~(ya < xa \/ (ya = xa /\ yb < xb)) \/ ~(xa < ya \/ (xa = ya /\ xb < yb))
      OBVIOUS
    <3> QED BY <1>4, <1>6, <3>1, <3>2
  <2>2. \A x \in S : <<x, x>> \in R
    BY <1>3, <2>1
  <2>3. \A x, y \in S : <<x, y>> \in R /\ <<y, x>> \in R => x = y
    BY <1>3, <2>1
  <2>4. ASSUME NEW x \in S, NEW y \in S, NEW z \in S, <<x, y>> \in R, <<y, z>> \in R
        PROVE  <<x, z>> \in R
    <3>1. PICK xa \in Nat, xb \in Nat, ya \in Nat, yb \in Nat, za \in Nat, zb \in Nat :
            xa = a[x] /\ xb = b[x] /\ ya = a[y] /\ yb = b[y] /\ za = a[z] /\ zb = b[z]
      BY <1>3
    <3>2. xa < ya \/ (xa = ya /\ xb <= yb)
      BY <2>1, <2>4, <3>1
    <3>3. ya < za \/ (ya = za /\ yb <= zb)
      BY <2>1, <2>4, <3>1
    <3>4. xa < za \/ (xa = za /\ xb <= zb)
      BY <3>2, <3>3
    <3> QED BY <2>1, <3>1, <3>4
  <2>5. \A x, y \in S : <<x, y>> \in R \/ <<y, x>> \in R
    BY <2>1
  <2> QED BY <2>2, <2>3, <2>4, <2>5 DEF Orders
<1>8. \A x \in S : Cardinality({y \in S : ~OutPointLess(x, y)}) = Place(R, S, x)
  <2> SUFFICES ASSUME NEW x \in S
               PROVE  {y \in S : ~OutPointLess(x, y)} = {y \in S : <<y, x>> \in R}
    BY DEF Place, UpTo
  <2> QED BY <1>6
<1>9. PICK t : t = sorted(S, OutPointLess)
  OBVIOUS
<1>10. t = [i \in 1 .. Cardinality(S) |-> CHOOSE x \in S : Cardinality({y \in S : ~OutPointLess(x, y)}) = i]
  BY <1>9 DEF sorted
<1>11. t = [i \in 1 .. Cardinality(S) |-> t[i]]
  BY <1>9, InOrder
<1>12. ASSUME NEW i \in 1 .. Cardinality(S), NEW x \in S, Place(R, S, x) = i
       PROVE  t[i] \in S
  <2>1. t[i] = CHOOSE z \in S : Cardinality({y \in S : ~OutPointLess(z, y)}) = i
    BY <1>10
  <2>2. Cardinality({y \in S : ~OutPointLess(x, y)}) = i
    BY <1>8, <1>12
  <2> QED BY <2>1, <2>2
<1>13. IsVector(t) /\ DOMAIN t = 1 .. Cardinality(S) /\ Cardinality(S) \in Nat /\ ToSet(t) \subseteq S
  BY <1>1, <1>7, <1>11, <1>12, PlacesListed
<1> QED BY <1>9, <1>13

-----------------------------------------------------------------------------
\* Funding

\* A nonempty set of natural numbers has its minimum.
LEMMA MinIn ==
  ASSUME NEW T \in SUBSET Nat, T # {}
  PROVE  Min(T) \in T
<1>1. PICK t \in T : \A s \in T : ~(<<s, t>> \in OpToRel(<, Nat))
  BY NatLessThanWellFounded, WFMin
<1>2. \A s \in T : ~(s < t)
  BY <1>1 DEF OpToRel
<1>3. \A s \in T : t <= s
  BY <1>2
<1> QED BY <1>3 DEF Min

\* The front of a vector.
LEMMA FrontOf ==
  ASSUME NEW s, IsVector(s), NEW n \in 0 .. Len(s)
  PROVE  IsVector(SubSeq(s, 1, n)) /\ ToSet(SubSeq(s, 1, n)) \subseteq ToSet(s)
<1>1. PICK S : s \in Seq(S)
  BY DEF IsVector
<1>2. PICK l \in Nat : l = Len(s) /\ DOMAIN s = 1 .. l
  BY <1>1, LenProperties
<1>3. PICK t : t = SubSeq(s, 1, n)
  OBVIOUS
<1>4. t \in Seq(S) /\ Len(t) = n /\ \A i \in 1 .. n : t[i] = s[i]
  BY <1>1, <1>2, <1>3, SubSeqProperties
<1>5. DOMAIN t = 1 .. n
  BY <1>4, LenProperties
<1>6. \A i \in 1 .. n : t[i] \in ToSet(s)
  BY <1>2, <1>4 DEF ToSet
<1>7. ToSet(t) \subseteq ToSet(s)
  BY <1>5, <1>6 DEF ToSet
<1> QED BY <1>3, <1>4, <1>7 DEF IsVector

\* A funded transaction spends what it was given and outputs that the node
\* chose from, and its change goes to the node's next address.
LEMMA FundedFrom ==
  ASSUME ChainTyped, NEW own, IsVector(own), NEW ins, IsVector(ins),
         NEW outs, Outputs(outs, addresses + 1), NEW e, NEW fee
  PROVE  LET tx == fund_from(own, ins, outs, e, fee) IN
         tx # NoTx => Outputs(tx.out, addresses + 1) /\ ToSet(tx.in) \subseteq ToSet(ins) \cup ToSet(own)
<1>1. PICK n \in Nat : n = addresses + 1
  BY DEF ChainTyped
<1>2. PICK c \in Nat : c = Len(own) /\ DOMAIN own = 1 .. c
  BY Appended
<1>3. ASSUME NEW k \in 0 .. c
      PROVE  ToSet(ins \o SubSeq(own, 1, k)) \subseteq ToSet(ins) \cup ToSet(own)
  <2>1. IsVector(SubSeq(own, 1, k)) /\ ToSet(SubSeq(own, 1, k)) \subseteq ToSet(own)
    BY <1>2, FrontOf
  <2> QED BY <2>1, VectorsJoined
<1>8. PICK need : need = Values(outs) + e
  OBVIOUS
<1>9. PICK enough : enough = {k \in DOMAIN own : InputValue(ins \o SubSeq(own, 1, k)) > need}
  OBVIOUS
<1>10. PICK k : k = IF enough = {} THEN Len(own) ELSE Min(enough)
  OBVIOUS
<1>11. k \in 0 .. c
  <2>1. enough \in SUBSET Nat /\ enough \subseteq 0 .. c
    BY <1>2, <1>9
  <2>2. CASE enough = {}
    BY <1>2, <1>10, <2>2
  <2>3. CASE enough # {}
    BY <1>10, <2>1, <2>3, MinIn
  <2> QED BY <2>2, <2>3
<1>12. PICK all : all = selected(ins, own, need)
  OBVIOUS
<1>13. all = IF need <= InputValue(ins) THEN ins ELSE ins \o SubSeq(own, 1, k)
  BY <1>9, <1>10, <1>12 DEF selected, Enough
<1>14. ToSet(all) \subseteq ToSet(ins) \cup ToSet(own)
  BY <1>3, <1>11, <1>13
<1>15. PICK change : change = InputValue(all) - Values(outs)
  OBVIOUS
<1>16. PICK funded : funded = IF change > 0 THEN Append(outs, Output(change, addresses + 1)) ELSE outs
  OBVIOUS
<1>17. Outputs(funded, n)
  <2>1. IsOutput(Output(change, n), n)
    BY OutputIs
  <2> QED BY <1>1, <1>16, <2>1, OutputAppended
<1>18. PICK paid : paid = [funded EXCEPT ![Len(funded)].value = @ - fee]
  OBVIOUS
<1>19. Outputs(paid, n)
  <2>1. PICK l \in Nat : l = Len(funded) /\ DOMAIN funded = 1 .. l
    BY <1>17, Appended DEF Outputs
  <2>2. PICK F : funded \in Seq(F)
    BY <1>17 DEF Outputs, IsVector
  <2>3. PICK last : last = [funded[l] EXCEPT !.value = @ - fee]
    OBVIOUS
  <2>4. funded \in [1 .. l -> F]
    BY <2>1, <2>2, LenProperties
  <2>5. paid = [i \in 1 .. l |-> IF i = l THEN last ELSE funded[i]]
    BY <1>18, <2>1, <2>3, <2>4
  <2>6. ASSUME NEW i \in 1 .. l
        PROVE  IsOutput(paid[i], n)
    <3>1. CASE i # l
      BY <1>17, <2>1, <2>5, <3>1 DEF Outputs
    <3>2. CASE i = l
      <4>1. PICK o : o = funded[l] /\ IsOutput(o, n)
        BY <1>17, <2>1, <3>2 DEF Outputs
      <4>2. PICK v : v = o.value - fee
        OBVIOUS
      <4>3. last = [o EXCEPT !.value = v]
        BY <2>3, <4>1, <4>2
      <4>4. IsOutput(last, n)
        BY <4>1, <4>3 DEF IsOutput
      <4> QED BY <2>5, <3>2, <4>4
    <3> QED BY <3>1, <3>2
  <2>7. paid \in [1 .. l -> F \cup {last}]
    BY <2>4, <2>5
  <2>8. paid \in Seq(F \cup {last})
    BY <2>7, SeqDef
  <2> QED BY <2>6, <2>7, <2>8 DEF Outputs, IsVector
<1>20. PICK tx : tx = fund_from(own, ins, outs, e, fee)
  OBVIOUS
<1>21. tx = IF need > InputValue(all) \/ all = <<>> THEN NoTx ELSE [in |-> all, out |-> paid]
  BY <1>8, <1>12, <1>15, <1>16, <1>18, <1>20 DEF fund_from, WithChange
<1>22. tx # NoTx => tx.in = all /\ tx.out = paid
  BY <1>21
<1> QED BY <1>1, <1>19, <1>20, <1>22, <1>14

\* The node's own outputs, in order.
LEMMA OwnIs ==
  ASSUME ChainTyped, NEW ins
  PROVE  IsVector(own_utxos(ins)) /\ ToSet(own_utxos(ins)) \subseteq list_unspent
<1>1. PICK S : S = (list_unspent \cap Spendable) \ ToSet(ins)
  OBVIOUS
<1>2. S \in SUBSET utxos /\ S \subseteq list_unspent
  BY <1>1 DEF list_unspent
<1> QED BY <1>1, <1>2, LargestFirst DEF own_utxos

\* The node chooses from outputs that the wallet lists and from its change.
LEMMA FundedIs ==
  ASSUME ChainTyped, NEW ins, IsVector(ins), NEW outs, Outputs(outs, addresses + 1), NEW fee,
         NEW tx \in Funded(ins, outs, fee), tx # NoTx
  PROVE  /\ Outputs(tx.out, addresses + 1)
         /\ ToSet(tx.in) \subseteq ToSet(ins) \cup list_unspent \cup unconfirmed_change
<1>1. PICK own : own = own_utxos(ins)
  OBVIOUS
<1>2. IsVector(own) /\ ToSet(own) \subseteq list_unspent
  BY <1>1, OwnIs
<1>3. CASE tx = fund_from(own, ins, outs, fee, fee)
  BY <1>2, <1>3, FundedFrom
<1>4. ASSUME NEW op \in unconfirmed_change, tx = fund_from(Append(own, op), ins, outs, fee, fee)
      PROVE  /\ Outputs(tx.out, addresses + 1)
             /\ ToSet(tx.in) \subseteq ToSet(ins) \cup list_unspent \cup unconfirmed_change
  <2>1. PICK all : all = Append(own, op)
    OBVIOUS
  <2>2. PICK n \in Nat : n = Len(own) /\ DOMAIN own = 1 .. n
    BY <1>2, Appended
  <2>3. IsVector(all) /\ DOMAIN all = 1 .. n + 1 /\ (\A i \in 1 .. n : all[i] = own[i]) /\ all[n + 1] = op
    BY <1>2, <2>1, <2>2, Appended
  <2>4. \A i \in 1 .. n + 1 : i \in 1 .. n \/ i = n + 1
    OBVIOUS
  <2>5. \A i \in 1 .. n + 1 : all[i] \in ToSet(own) \/ all[i] = op
    BY <2>2, <2>3, <2>4 DEF ToSet
  <2>6. \A x \in ToSet(all) : x \in ToSet(own) \/ x = op
    BY <2>3, <2>5 DEF ToSet
  <2>7. Outputs(tx.out, addresses + 1) /\ ToSet(tx.in) \subseteq ToSet(ins) \cup ToSet(all)
    BY <1>4, <2>1, <2>3, FundedFrom
  <2> QED BY <1>2, <1>4, <2>6, <2>7
<1> QED BY <1>1, <1>3, <1>4 DEF Funded, fund_raw_transaction

-----------------------------------------------------------------------------
\* The node's steps

\* Transactions stay, addresses are only given away, and no output of a
\* confirmed transaction becomes unspent.
NodeMoves ==
  /\ ChainTyped' /\ addresses <= addresses'
  /\ \A t \in DOMAIN txs : t \in DOMAIN txs' /\ txs'[t] = txs[t]
  /\ transactions \subseteq transactions'
  /\ \A op \in list_unspent' : op[1] \in transactions => op \in list_unspent

\* Images of finite sets are finite.
LEMMA ImageFinite ==
  ASSUME NEW S, IsFiniteSet(S), NEW f, DOMAIN f = S
  PROVE  IsFiniteSet({f[x] : x \in S})
<1>1. PICK T : T = {f[x] : x \in S}
  OBVIOUS
<1>2. PICK g : g = [x \in S |-> f[x]]
  OBVIOUS
<1>3. g \in [S -> T] /\ \A t \in T : \E x \in S : g[x] = t
  BY <1>1, <1>2
<1>4. g \in Surjection(S, T)
  BY <1>3 DEF Surjection
<1>5. IsFiniteSet(T)
  BY <1>4, FS_Surjection
<1> QED BY <1>1, <1>5

\* A vector has finitely many elements.
LEMMA VectorFinite ==
  ASSUME NEW s, IsVector(s)
  PROVE  IsFiniteSet(DOMAIN s) /\ DOMAIN s \subseteq Nat /\ IsFiniteSet(ToSet(s))
<1>1. PICK n \in Nat : n = Len(s) /\ DOMAIN s = 1 .. n
  BY Appended
<1>2. PICK D : D = 1 .. n
  OBVIOUS
<1>3. IsFiniteSet(D)
  BY <1>2, FS_Interval
<1>4. IsFiniteSet({s[x] : x \in D})
  BY <1>1, <1>2, <1>3, ImageFinite
<1>5. DOMAIN s = D /\ D \subseteq Nat
  BY <1>1, <1>2
<1>6. ToSet(s) = {s[x] : x \in D}
  BY <1>5 DEF ToSet
<1> QED BY <1>3, <1>4, <1>5, <1>6

\* A transaction more.
LEMMA TransactionAdded ==
  ASSUME ChainTyped, addresses' \in Nat, addresses <= addresses',
         NEW ins, NEW outs, Outputs(outs, addresses'), \A v \in DOMAIN outs : outs[v].value \in Nat,
         txs' = Append(txs, [in |-> ins, out |-> outs])
  PROVE  /\ IsVector(txs') /\ Len(txs) \in Nat /\ DOMAIN txs = 1 .. Len(txs) /\ DOMAIN txs' = 1 .. Len(txs) + 1
         /\ \A t \in DOMAIN txs : t \in DOMAIN txs' /\ txs'[t] = txs[t]
         /\ \A t \in DOMAIN txs' : /\ Outputs(txs'[t].out, addresses')
                                   /\ \A v \in DOMAIN txs'[t].out : txs'[t].out[v].value \in Nat
<1>1. PICK tx : tx = [in |-> ins, out |-> outs]
  OBVIOUS
<1>2. PICK n \in Nat : n = Len(txs) /\ DOMAIN txs = 1 .. n
  BY Appended DEF ChainTyped
<1>3. PICK all : all = Append(txs, tx) /\ all = txs'
  BY <1>1
<1>4. IsVector(all) /\ DOMAIN all = 1 .. n + 1 /\ (\A t \in DOMAIN txs : all[t] = txs[t]) /\ all[n + 1] = tx
  <2>1. PICK old : old = txs /\ IsVector(old)
    BY DEF ChainTyped
  <2>2. /\ IsVector(Append(old, tx)) /\ DOMAIN Append(old, tx) = 1 .. Len(old) + 1
        /\ (\A t \in DOMAIN old : Append(old, tx)[t] = old[t]) /\ Append(old, tx)[Len(old) + 1] = tx
    BY <2>1, Appended
  <2> QED BY <1>2, <1>3, <2>1, <2>2
<1>5. ASSUME NEW t \in 1 .. n + 1
      PROVE  Outputs(all[t].out, addresses') /\ \A v \in DOMAIN all[t].out : all[t].out[v].value \in Nat
  <2>1. CASE t \in 1 .. n
    <3>1. all[t] = txs[t] /\ t \in DOMAIN txs
      BY <1>2, <1>4, <2>1
    <3>2. Outputs(txs[t].out, addresses) /\ \A v \in DOMAIN txs[t].out : txs[t].out[v].value \in Nat
      BY <3>1 DEF ChainTyped
    <3>3. addresses \in Nat
      BY DEF ChainTyped
    <3>4. Outputs(txs[t].out, addresses')
      BY <3>2, <3>3, OutputsStay
    <3> QED BY <3>1, <3>2, <3>4
  <2>2. CASE t = n + 1
    <3>1. all[t].out = outs
      BY <1>1, <1>4, <2>2
    <3> QED BY <3>1
  <2> QED BY <2>1, <2>2
<1>6. \A t \in 1 .. n : t \in 1 .. n + 1
  OBVIOUS
<1> QED BY <1>2, <1>3, <1>4, <1>5, <1>6

\* No output becomes unspent when none is created or unlocked.
LEMMA NoneUnspent ==
  ASSUME ChainTyped, addresses' \in Nat, addresses <= addresses',
         \A t \in DOMAIN txs : txs'[t] = txs[t], locked \subseteq locked',
         NEW op \in list_unspent', op \in utxos
  PROVE  op \in list_unspent
<1>1. op \in utxos /\ op \notin locked /\ TxOut(op)'.script \in 1 .. addresses'
  BY DEF list_unspent, is_wallet_address
<1>2. op[1] \in DOMAIN txs /\ op[2] \in DOMAIN txs[op[1]].out
  BY <1>1 DEF ChainTyped, OutPoints
<1>3. TxOut(op)' = TxOut(op)
  BY <1>2 DEF TxOut
<1>4. PICK o : o = TxOut(op) /\ IsOutput(o, addresses)
  BY <1>2 DEF ChainTyped, Outputs, TxOut
<1>5. o.script \in 1 .. addresses' /\ o.script <= addresses /\ addresses \in Nat
  BY <1>1, <1>3, <1>4 DEF IsOutput, ChainTyped
<1>6. o.script \in 1 .. addresses
  BY <1>5
<1> QED BY <1>1, <1>4, <1>6 DEF list_unspent, is_wallet_address

\* A step that leaves the chain alone.
LEMMA NodeStays ==
  ASSUME ChainTyped, UNCHANGED <<txs, mempool, transactions, utxos>>, locked \subseteq locked',
         addresses' \in Nat, addresses <= addresses'
  PROVE  NodeMoves
<1>1. \A op \in list_unspent' : op \in utxos
  BY DEF list_unspent
<1>2. list_unspent' \subseteq list_unspent
  BY <1>1, NoneUnspent
<1>3. \A t \in DOMAIN txs : Outputs(txs[t].out, addresses')
  <2>1. addresses \in Nat
    BY DEF ChainTyped
  <2> QED BY <2>1, OutputsStay DEF ChainTyped
<1>4. utxos' \subseteq OutPoints'
  BY DEF ChainTyped, OutPoints
<1>5. ChainTyped'
  BY <1>3, <1>4 DEF ChainTyped
<1> QED BY <1>2, <1>5 DEF NodeMoves

\* A transaction enters the mempool.
LEMMA PushMoves ==
  ASSUME ChainTyped, addresses' \in Nat, addresses <= addresses',
         NEW ins, NEW outs, Outputs(outs, addresses'), \A v \in DOMAIN outs : outs[v].value \in Nat,
         Push(ins, outs)
  PROVE  NodeMoves
<1>1. txs' = Append(txs, [in |-> ins, out |-> outs]) /\ mempool' = Append(mempool, Len(txs) + 1)
      /\ UNCHANGED <<transactions, utxos, locked>>
  BY DEF Push
<1>2. /\ IsVector(txs') /\ Len(txs) \in Nat /\ DOMAIN txs = 1 .. Len(txs) /\ DOMAIN txs' = 1 .. Len(txs) + 1
      /\ \A t \in DOMAIN txs : t \in DOMAIN txs' /\ txs'[t] = txs[t]
      /\ \A t \in DOMAIN txs' : /\ Outputs(txs'[t].out, addresses')
                                /\ \A v \in DOMAIN txs'[t].out : txs'[t].out[v].value \in Nat
  BY <1>1, TransactionAdded
<1>3. \A op \in list_unspent' : op \in utxos
  BY <1>1 DEF list_unspent
<1>4. list_unspent' \subseteq list_unspent
  BY <1>1, <1>2, <1>3, NoneUnspent
<1>5. mempool' \in Seq(DOMAIN txs')
  <2>1. PICK D : D = DOMAIN txs'
    OBVIOUS
  <2>2. PICK m : m = mempool
    OBVIOUS
  <2>3. m \in Seq(DOMAIN txs) /\ DOMAIN txs \subseteq D /\ Len(txs) + 1 \in D
    BY <1>2, <2>1, <2>2 DEF ChainTyped
  <2>4. m \in [1 .. Len(m) -> D] /\ Len(m) \in Nat
    BY <2>3, LenProperties
  <2>5. m \in Seq(D)
    BY <2>4, SeqDef
  <2>6. Append(m, Len(txs) + 1) \in Seq(D)
    BY <2>3, <2>5, AppendProperties
  <2> QED BY <1>1, <2>1, <2>2, <2>6
<1>6. utxos' \subseteq OutPoints'
  BY <1>1, <1>2 DEF ChainTyped, OutPoints
<1>7. transactions' \subseteq DOMAIN txs' /\ transactions' \cap ToSet(mempool') = {}
  <2>1. PICK m, n : m = mempool /\ n = Len(txs) /\ n \in Nat /\ IsVector(m) /\ transactions \cap ToSet(m) = {} /\ transactions \subseteq 1 .. n
    BY <1>2 DEF ChainTyped, IsVector
  <2>2. PICK l \in Nat : l = Len(m) /\ DOMAIN m = 1 .. l
    BY <2>1, Appended
  <2>3. PICK all : all = Append(m, n + 1)
    OBVIOUS
  <2>4. DOMAIN all = 1 .. l + 1 /\ (\A i \in 1 .. l : all[i] = m[i]) /\ all[l + 1] = n + 1
    BY <2>1, <2>2, <2>3, Appended
  <2>5. \A i \in 1 .. l + 1 : i \in 1 .. l \/ i = l + 1
    OBVIOUS
  <2>6. \A i \in 1 .. l + 1 : all[i] \in ToSet(m) \/ all[i] = n + 1
    BY <2>2, <2>4, <2>5 DEF ToSet
  <2>7. \A x \in ToSet(all) : x \in ToSet(m) \/ x = n + 1
    BY <2>4, <2>6 DEF ToSet
  <2>8. n + 1 \notin transactions
    BY <2>1
  <2>9. transactions \cap ToSet(all) = {}
    BY <2>1, <2>7, <2>8
  <2>10. transactions \subseteq DOMAIN txs'
    BY <1>2 DEF ChainTyped
  <2> QED BY <1>1, <2>1, <2>3, <2>9, <2>10
<1>8. ChainTyped'
  BY <1>1, <1>2, <1>5, <1>6, <1>7 DEF ChainTyped
<1> QED BY <1>1, <1>2, <1>4, <1>8 DEF NodeMoves

\* A block: its transactions' outputs come, their inputs go.
LEMMA BlockMoves ==
  ASSUME ChainTyped, NEW subsidy, mine_block(subsidy)
  PROVE  NodeMoves
<1>1. PICK n \in Nat : n = addresses + 1
  BY DEF ChainTyped
<1>2. PICK value, ins : value \in Nat /\ txs' = Append(txs, [in |-> ins, out |-> <<Output(value, n)>>])
  BY <1>1 DEF mine_block
<1>3. PICK outs : outs = <<Output(value, n)>>
  OBVIOUS
<1>4. Outputs(outs, n) /\ \A v \in DOMAIN outs : outs[v].value \in Nat
  <2>1. PICK o : o = Output(value, n)
    OBVIOUS
  <2>2. IsOutput(o, n) /\ o.value = value
    BY <2>1, OutputIs
  <2>3. outs \in Seq({o}) /\ DOMAIN outs = {1} /\ outs[1] = o
    BY <1>3, <2>1
  <2>4. value \in Nat
    BY <1>2
  <2> QED BY <2>2, <2>3, <2>4 DEF Outputs, IsVector
<1>5. addresses' = n /\ addresses <= n
  <2>1. addresses' = addresses + 1
    BY DEF mine_block
  <2> QED BY <1>1, <2>1 DEF ChainTyped
<1>6. /\ IsVector(txs') /\ Len(txs) \in Nat /\ DOMAIN txs = 1 .. Len(txs) /\ DOMAIN txs' = 1 .. Len(txs) + 1
      /\ \A t \in DOMAIN txs : t \in DOMAIN txs' /\ txs'[t] = txs[t]
      /\ \A t \in DOMAIN txs' : /\ Outputs(txs'[t].out, addresses')
                                /\ \A v \in DOMAIN txs'[t].out : txs'[t].out[v].value \in Nat
  BY <1>2, <1>3, <1>4, <1>5, TransactionAdded
<1>7. PICK block : block = <<Len(txs) + 1>> \o mempool
  OBVIOUS
<1>8. transactions' = transactions \cup ToSet(block) /\ mempool' = <<>> /\ UNCHANGED locked
  BY <1>7 DEF mine_block
<1>9. PICK n0 \in Nat : n0 = Len(txs) /\ DOMAIN txs = 1 .. n0
  BY <1>6
<1>10. IsVector(block) /\ ToSet(block) \subseteq DOMAIN txs' /\ transactions \cap ToSet(block) = {}
  <2>1. PICK one, m : one = <<Len(txs) + 1>> /\ m = mempool
    OBVIOUS
  <2>2. one \in Seq({Len(txs) + 1}) /\ ToSet(one) = {Len(txs) + 1}
    BY <2>1 DEF ToSet
  <2>3. m \in Seq(DOMAIN txs)
    BY <2>1 DEF ChainTyped
  <2>4. ToSet(m) \subseteq DOMAIN txs
    BY <2>3 DEF ToSet
  <2>5. IsVector(one) /\ IsVector(m)
    BY <2>2, <2>3 DEF IsVector
  <2>6. IsVector(one \o m) /\ \A x \in ToSet(one \o m) : x \in ToSet(one) \/ x \in ToSet(m)
    BY <2>5, VectorsJoined
  <2>7. \A x \in ToSet(block) : x = Len(txs) + 1 \/ x \in DOMAIN txs
    BY <1>7, <2>1, <2>2, <2>4, <2>6
  <2>8. \A x \in ToSet(block) : x \in DOMAIN txs'
    BY <1>6, <2>7
  <2>9. n0 + 1 \notin transactions
    BY <1>9 DEF ChainTyped
  <2>10. ToSet(m) \cap transactions = {}
    BY <2>1 DEF ChainTyped
  <2>11. \A x \in ToSet(block) : x = n0 + 1 \/ x \in ToSet(m)
    BY <1>7, <1>9, <2>1, <2>2, <2>6
  <2>12. transactions \cap ToSet(block) = {}
    BY <2>9, <2>10, <2>11
  <2> QED BY <1>7, <2>1, <2>6, <2>8, <2>12
<1>11. PICK made : made = [t \in ToSet(block) |-> {op \in {t} \X DOMAIN txs'[t].out : txs'[t].out[op[2]].script # OP_RETURN}]
  OBVIOUS
<1>12. ASSUME NEW t \in ToSet(block)
       PROVE  IsFiniteSet(made[t]) /\ made[t] \subseteq OutPoints' /\ \A op \in made[t] : op[1] \notin transactions
  <2>1. t \in DOMAIN txs' /\ t \in Nat
    BY <1>6, <1>10
  <2>2. PICK outputs : outputs = txs'[t].out /\ IsVector(outputs)
    BY <1>6, <2>1 DEF Outputs
  <2>3. IsFiniteSet(DOMAIN outputs) /\ DOMAIN outputs \subseteq Nat
    BY <2>2, VectorFinite
  <2>4. IsFiniteSet({t} \X DOMAIN outputs)
    BY <2>3, FS_Singleton, FS_Product
  <2>5. made[t] \subseteq {t} \X DOMAIN outputs
    BY <1>11, <2>2
  <2>6. IsFiniteSet(made[t])
    BY <2>4, <2>5, FS_Subset
  <2>7. made[t] \subseteq OutPoints'
    BY <2>1, <2>2, <2>3, <2>5 DEF OutPoints
  <2>8. \A op \in made[t] : op[1] = t
    BY <1>11
  <2>9. t \notin transactions
    BY <1>10
  <2> QED BY <2>6, <2>7, <2>8, <2>9
<1>13. PICK all : all = UNION {made[t] : t \in ToSet(block)}
  OBVIOUS
<1>14. IsFiniteSet(all) /\ all \subseteq OutPoints'
  <2>1. PICK T : T = ToSet(block)
    OBVIOUS
  <2>2. IsFiniteSet(T)
    BY <1>10, <2>1, VectorFinite
  <2>3. DOMAIN made = T
    BY <1>11, <2>1
  <2>4. PICK M : M = {made[t] : t \in T}
    OBVIOUS
  <2>5. IsFiniteSet(M)
    BY <2>2, <2>3, <2>4, ImageFinite
  <2>6. \A x \in M : IsFiniteSet(x) /\ x \subseteq OutPoints'
    BY <1>12, <2>1, <2>4
  <2>7. IsFiniteSet(UNION M) /\ UNION M \subseteq OutPoints'
    BY <2>5, <2>6, FS_UNION
  <2> QED BY <1>13, <2>1, <2>4, <2>7
<1>15. utxos' \subseteq utxos \cup all
  <2> SUFFICES ASSUME NEW op \in utxos', op \notin utxos
               PROVE  op \in all
    OBVIOUS
  <2>1. PICK t \in ToSet(block) : op \in {t} \X DOMAIN txs'[t].out /\ txs'[t].out[op[2]].script # OP_RETURN
    BY <1>7 DEF mine_block
  <2>2. op \in made[t]
    BY <1>11, <2>1
  <2> QED BY <1>13, <2>2
<1>16. utxos \subseteq OutPoints'
  BY <1>6 DEF ChainTyped, OutPoints
<1>17. utxos' \subseteq OutPoints' /\ IsFiniteSet(utxos')
  <2>1. IsFiniteSet(utxos \cup all)
    BY <1>14, FS_Union DEF ChainTyped
  <2>2. utxos \cup all \subseteq OutPoints'
    BY <1>14, <1>16
  <2> QED BY <1>15, <2>1, <2>2, FS_Subset
<1>18. mempool' \in Seq(DOMAIN txs') /\ ToSet(mempool') = {}
  <2>1. DOMAIN mempool' = {}
    BY <1>8
  <2> QED BY <1>8, <2>1 DEF ToSet
<1>19. transactions' \subseteq DOMAIN txs'
  BY <1>6, <1>8, <1>10 DEF ChainTyped
<1>20. ChainTyped'
  BY <1>5, <1>6, <1>17, <1>18, <1>19 DEF ChainTyped
<1>21. ASSUME NEW op \in list_unspent', op[1] \in transactions
       PROVE  op \in list_unspent
  <2>1. op \in utxos'
    BY DEF list_unspent
  <2>2. op \notin all
    BY <1>12, <1>13, <1>21
  <2>3. op \in utxos
    BY <1>15, <2>1, <2>2
  <2> QED BY <1>5, <1>6, <1>8, <2>3, NoneUnspent
<1> QED BY <1>5, <1>6, <1>8, <1>20, <1>21 DEF NodeMoves

-----------------------------------------------------------------------------
\* What commands know

\* What a command knows stays true while others move.
LEMMA KnowsStays ==
  ASSUME ChainTyped, NodeMoves, NEW c, Knows(c)
  PROVE  Knows(c)'
<1>1. addresses \in Nat /\ addresses' \in Nat /\ addresses <= addresses'
  BY DEF ChainTyped, NodeMoves
<1>2. ASSUME c.pc \in {"locked", "info", "build"}
      PROVE  c.seen \subseteq transactions' /\ \A op \in list_unspent' : op[1] \in c.seen => op \in c.utxos
  BY <1>2 DEF Knows, NodeMoves
<1>3. c.pc = "sign" => Outputs(c.tx.out, addresses')
  BY <1>1, OutputsStay DEF Knows
<1> QED BY <1>2, <1>3 DEF Knows

\* What became of a transaction does not change.
LEMMA ReportsStay ==
  ASSUME NodeMoves, NEW s, Reported(s)
  PROVE  Reported(s)'
BY DEF Reported, NodeMoves

\* The commands know what they need in order to report.
AllKnow == ChainTyped /\ \A p \in Procs : Knows(cmd[p])

\* One command and the chain move.
LEMMA OneMoves ==
  ASSUME Commands, AllKnow, NodeMoves, NEW p \in Procs, NEW c, Moves(p, c), Knows(c)'
  PROVE  AllKnow'
<1>1. cmd'[p] = c /\ \A q \in Procs \ {p} : cmd'[q] = cmd[q]
  BY MovesAlone
<1>2. ASSUME NEW q \in Procs
      PROVE  Knows(cmd[q])'
  <2>1. PICK d : d = cmd'[q] /\ Knows(d)'
    <3>1. CASE q = p
      BY <1>1, <3>1
    <3>2. CASE q # p
      <4>1. PICK d : d = cmd[q] /\ d = cmd'[q]
        BY <1>1, <3>2
      <4>2. Knows(d)
        BY <4>1 DEF AllKnow
      <4>3. Knows(d)'
        BY <4>2, KnowsStays DEF AllKnow
      <4> QED BY <4>1, <4>3
    <3> QED BY <3>1, <3>2
  <2> QED BY <2>1 DEF Knows
<1> QED BY <1>2 DEF AllKnow, NodeMoves

\* The chain moves, the commands do not.
LEMMA NoneMoves ==
  ASSUME AllKnow, NodeMoves, UNCHANGED cmd
  PROVE  AllKnow'
<1>1. ASSUME NEW q \in Procs
      PROVE  Knows(cmd[q])'
  <2>1. PICK d : d = cmd[q] /\ Knows(d)
    BY DEF AllKnow
  <2>2. Knows(d)'
    BY <2>1, KnowsStays DEF AllKnow
  <2> QED BY <2>1, <2>2 DEF Knows
<1> QED BY <1>1 DEF AllKnow, NodeMoves

\* A command that is not under way needs to know nothing.
LEMMA NothingToKnow ==
  ASSUME NEW c, c.pc \notin {"locked", "info", "build", "sign"}
  PROVE  Knows(c)'
BY DEF Knows

\* A step that leaves the node alone.
LEMMA ChainAlone ==
  ASSUME AllKnow, UNCHANGED coreVars
  PROVE  NodeMoves
BY NodeStays DEF AllKnow, coreVars, ChainTyped

\* A command starts, or ends.
LEMMA GoesElsewhere ==
  ASSUME Commands, AllKnow, NEW p \in Procs, NEW c, Moves(p, c), UNCHANGED coreVars,
         c.pc \notin {"locked", "info", "build", "sign"}
  PROVE  AllKnow'
BY ChainAlone, NothingToKnow, OneMoves

\* A command ends.
LEMMA Exits ==
  ASSUME Commands, AllKnow, NEW p \in Procs, Exit(p), UNCHANGED coreVars
  PROVE  AllKnow'
<1>1. PICK c : Moves(p, c) /\ c.pc \in {"idle", "exited"}
  BY ExitMoves
<1> QED BY <1>1, GoesElsewhere

\* A command has not come to the node, or only to create its wallet.
LEMMA Goes ==
  ASSUME Commands, AllKnow, NEW p \in Procs, NEW pc, Goto(p, pc), UNCHANGED coreVars,
         pc \in {"open", "version", "create_wallet", "load", "import"}
  PROVE  AllKnow'
<1>1. PICK c : Moves(p, c) /\ c.pc = pc
  BY GotoMoves
<1> QED BY <1>1, GoesElsewhere

\* A command on its way to the snapshots and through them.
LEMMA SnapshotsKnow ==
  ASSUME Commands, AllKnow, NEW p \in Procs,
         \/ load_wallet(p) \/ Sync(p) \/ get_utxos(p) \/ get_locked_utxos(p) \/ get_output_info(p)
  PROVE  AllKnow' /\ UNCHANGED <<sent, txs>>
<1>1. UNCHANGED coreVars /\ UNCHANGED <<sent, txs>>
  BY DEF load_wallet, Sync, get_utxos, get_locked_utxos, get_output_info, coreVars
<1>2. NodeMoves
  BY <1>1, ChainAlone
<1>3. PICK d : d = cmd[p] /\ Knows(d)
  BY DEF AllKnow
<1>4. PICK t : t = transactions /\ t = transactions'
  BY <1>1 DEF coreVars
<1>5. PICK u : u = list_unspent /\ u = list_unspent'
  BY <1>1 DEF coreVars, list_unspent, TxOut, is_wallet_address
<1>6. CASE load_wallet(p)
  <2>1. CASE core.exists /\ check_descriptors
    <3>1. PICK c : Moves(p, c) /\ c.pc = "sync"
      BY <1>6, <2>1, LoadMoves
    <3> QED BY <1>1, <3>1, GoesElsewhere
  <2>2. CASE ~(core.exists /\ check_descriptors)
    BY <1>1, <1>6, <2>2, Exits DEF load_wallet
  <2> QED BY <2>1, <2>2
<1>7. CASE Sync(p)
  <2>1. CASE Exit(p)
    BY <1>1, <2>1, Exits
  <2>2. ASSUME NEW c, Moves(p, c), c.pc \in {"sync", "utxos"}
        PROVE  AllKnow'
    BY <1>1, <2>2, GoesElsewhere
  <2> QED BY <1>1, <1>7, <2>1, <2>2, SyncMoves
<1>8. CASE get_utxos(p)
  <2>1. PICK c : Moves(p, c) /\ c.pc = "locked" /\ c.seen = transactions /\ c.utxos = list_unspent
    BY <1>8, UtxosMoves
  <2>2. Knows(c)'
    BY <1>4, <1>5, <2>1 DEF Knows
  <2> QED BY <1>1, <1>2, <2>1, <2>2, OneMoves
<1>9. CASE get_locked_utxos(p)
  <2>1. d.seen \subseteq t /\ \A op \in u : op[1] \in d.seen => op \in d.utxos
    BY <1>3, <1>4, <1>5, <1>9 DEF get_locked_utxos, Knows
  <2>2. PICK c : Moves(p, c) /\ c.pc = "info" /\ c.seen = d.seen /\ d.utxos \subseteq c.utxos
    BY <1>3, <1>9, LockedMoves
  <2>3. Knows(c)'
    BY <1>4, <1>5, <2>1, <2>2 DEF Knows
  <2> QED BY <1>1, <1>2, <2>2, <2>3, OneMoves
<1>10. CASE get_output_info(p)
  <2>1. d.seen \subseteq t /\ \A op \in u : op[1] \in d.seen => op \in d.utxos
    BY <1>3, <1>4, <1>5, <1>10 DEF get_output_info, Knows
  <2>2. PICK c : /\ Moves(p, c)
                 /\ c.pc = "build" /\ c.seen = d.seen /\ c.utxos = d.utxos /\ DOMAIN c.info = c.utxos
    BY <1>3, <1>10, InfoMoves
  <2>3. Knows(c)'
    BY <1>4, <1>5, <2>1, <2>2 DEF Knows
  <2> QED BY <1>1, <1>2, <2>2, <2>3, OneMoves
<1> QED BY <1>1, <1>6, <1>7, <1>8, <1>9, <1>10

-----------------------------------------------------------------------------
\* Building and sending

\* A command that has built a transaction from outputs it knows of, or had the
\* node choose them.
LEMMA BuiltKnows ==
  ASSUME Commands, AllKnow, NEW p \in Procs, cmd[p].pc = "build",
         NEW kind, NEW sat, NEW tx, NEW swept, NEW used \in Nat, Built(p, kind, sat, tx, swept, used),
         Outputs(tx.out, addresses + used),
         kind # "sweep" => \/ ToSet(tx.in) \subseteq cmd[p].utxos
                           \/ kind = "amount" /\ ToSet(tx.in) \subseteq list_unspent \cup unconfirmed_change
  PROVE  AllKnow' /\ UNCHANGED <<sent, txs>>
<1>1. /\ UNCHANGED <<txs, mempool, transactions, utxos, locked, sent>> /\ addresses' = addresses + used
  BY DEF Built
<1>2. addresses \in Nat
  BY DEF AllKnow, ChainTyped
<1>3. addresses' \in Nat /\ addresses <= addresses'
  BY <1>1, <1>2
<1>4. NodeMoves
  BY <1>1, <1>3, NodeStays DEF AllKnow
<1>5. PICK c : /\ Moves(p, c)
               /\ c.pc = "sign" /\ c.kind = kind /\ c.tx = tx /\ c.utxos = cmd[p].utxos /\ c.seen = cmd[p].seen
  BY BuiltMoves
<1>6. PICK d : d = cmd[p] /\ d.seen \subseteq transactions /\ \A op \in list_unspent : op[1] \in d.seen => op \in d.utxos
  BY DEF AllKnow, Knows
<1>7. \A op \in unconfirmed_change : op[1] \notin d.seen
  <2>1. \A op \in unconfirmed_change : op[1] \in ToSet(mempool)
    BY DEF unconfirmed_change, OutPointsOf
  <2> QED BY <1>6, <2>1 DEF AllKnow, ChainTyped
<1>8. kind # "sweep" => ToSet(tx.in) \subseteq d.utxos \/ (kind = "amount" /\ SpendsNew(tx.in, d.seen))
  BY <1>6, <1>7 DEF SpendsNew
<1>9. Outputs(c.tx.out, addresses')
  BY <1>1, <1>5
<1>10. Knows(c)'
  BY <1>5, <1>6, <1>8, <1>9 DEF Knows
<1> QED BY <1>1, <1>4, <1>5, <1>10, OneMoves

\* A command that is refused sends nothing.
LEMMA RefusedKnows ==
  ASSUME Commands, AllKnow, NEW p \in Procs, Refused(p)
  PROVE  AllKnow' /\ UNCHANGED <<sent, txs>>
BY Exits DEF Refused, coreVars

\* `send <amount>` spends what the node lists.
LEMMA AmountKnows ==
  ASSUME Commands, AllKnow, NEW p \in Procs, SendAmount(p)
  PROVE  AllKnow' /\ UNCHANGED <<sent, txs>>
<1>1. PICK fee, tx : /\ tx \in Funded(<<>>, <<Output(1, Recipient)>>, fee)
                     /\ IF tx = NoTx THEN Refused(p) ELSE Built(p, "amount", -1, tx, <<>>, 1)
  BY DEF SendAmount
<1>2. PICK n \in Nat : n = addresses + 1
  BY DEF AllKnow, ChainTyped
<1>3. PICK outs : outs = <<Output(1, Recipient)>>
  OBVIOUS
<1>4. Outputs(outs, n)
  <2>1. PICK o : o = Output(1, Recipient)
    OBVIOUS
  <2>2. IsOutput(o, n)
    BY <2>1, OutputIs DEF Recipient
  <2>3. outs \in Seq({o}) /\ DOMAIN outs = {1} /\ outs[1] = o
    BY <1>3, <2>1
  <2> QED BY <2>2, <2>3 DEF Outputs, IsVector
<1>5. PICK none : none = <<>>
  OBVIOUS
<1>6. IsVector(none) /\ ToSet(none) = {}
  <2>1. none \in Seq({})
    BY <1>5
  <2>2. DOMAIN none = {}
    BY <1>5
  <2> QED BY <2>1, <2>2 DEF IsVector, ToSet
<1>7. CASE tx = NoTx
  BY <1>1, <1>7, RefusedKnows
<1>8. CASE tx # NoTx
  <2>1. tx \in Funded(none, outs, fee)
    BY <1>1, <1>3, <1>5
  <2>2. Outputs(tx.out, n) /\ ToSet(tx.in) \subseteq list_unspent \cup unconfirmed_change
    BY <1>2, <1>4, <1>6, <1>8, <2>1, FundedIs DEF AllKnow
  <2>3. Built(p, "amount", -1, tx, <<>>, 1) /\ cmd[p].pc = "build"
    BY <1>1, <1>8 DEF SendAmount
  <2> QED BY <1>2, <2>2, <2>3, BuiltKnows
<1> QED BY <1>7, <1>8

\* `sweep` pays the wallet; it does not report a fee.
LEMMA SweepKnows ==
  ASSUME Commands, AllKnow, NEW p \in Procs, Sweep(p)
  PROVE  AllKnow' /\ UNCHANGED <<sent, txs>>
<1>1. PICK S : S = get_address_info(Paper)
  OBVIOUS
<1>2. PICK swept : swept = sorted(S, OutPointLess)
  OBVIOUS
<1>3. PICK outs : outs = [k \in DOMAIN swept |-> Output(TxOut(swept[k]).value, addresses + 1)]
  OBVIOUS
<1>4. PICK n \in Nat : n = addresses + 1
  BY DEF AllKnow, ChainTyped
<1>5. cmd[p].pc = "build"
  BY DEF Sweep
<1>6. Refused(p) \/ (S \subseteq utxos /\ \E fee : \E tx \in Funded(swept, outs, fee) :
                        IF tx = NoTx THEN Refused(p) ELSE Built(p, "sweep", -1, tx, swept, 1))
  BY <1>1, <1>2, <1>3 DEF Sweep
<1>7. ASSUME S \subseteq utxos, NEW fee,
             NEW tx \in Funded(swept, outs, fee),
             IF tx = NoTx THEN Refused(p) ELSE Built(p, "sweep", -1, tx, swept, 1)
      PROVE  AllKnow' /\ UNCHANGED <<sent, txs>>
  <2>1. PICK l \in Nat : IsVector(swept) /\ DOMAIN swept = 1 .. l
    BY <1>2, <1>7, OutPointsInOrder DEF AllKnow
  <2>2. ASSUME NEW k \in DOMAIN outs
        PROVE  IsOutput(outs[k], n)
    BY <1>3, <1>4, OutputIs
  <2>3. IsVector(outs)
    <3>1. PICK T : T = {outs[k] : k \in 1 .. l}
      OBVIOUS
    <3>2. DOMAIN outs = 1 .. l /\ \A k \in 1 .. l : outs[k] \in T
      BY <1>3, <2>1, <3>1
    <3>3. outs = [k \in 1 .. l |-> outs[k]]
      BY <1>3, <2>1
    <3>4. outs \in [1 .. l -> T]
      BY <3>2, <3>3
    <3>5. outs \in Seq(T)
      BY <3>4, SeqDef
    <3> QED BY <3>5 DEF IsVector
  <2>4. Outputs(outs, n)
    BY <2>2, <2>3 DEF Outputs
  <2>5. CASE tx = NoTx
    BY <1>7, <2>5, RefusedKnows
  <2>6. CASE tx # NoTx
    <3>1. Outputs(tx.out, n)
      BY <1>4, <1>7, <2>1, <2>4, <2>6, FundedIs DEF AllKnow
    <3> QED BY <1>4, <1>5, <1>7, <2>6, <3>1, BuiltKnows
  <2> QED BY <2>5, <2>6
<1> QED BY <1>6, <1>7, RefusedKnows

\* The satpoint that a sat is found at is of an output the command looked at.
LEMMA FoundInOutputs ==
  ASSUME NEW info, NEW sat, find_sat_in_outputs(info, sat) # <<>>
  PROVE  find_sat_in_outputs(info, sat)[1][1] \in DOMAIN info
<1>1. PICK H : H = Hits(info, sat)
  OBVIOUS
<1>2. H # {}
  BY <1>1 DEF find_sat_in_outputs
<1>3. PICK h : h = CHOOSE x \in H : TRUE
  OBVIOUS
<1>4. h \in H
  BY <1>2, <1>3
<1>5. h[1] \in DOMAIN info
  BY <1>1, <1>4 DEF Hits
<1>6. PICK at : find_sat_in_outputs(info, sat) = <<<<h[1], at>>>>
  BY <1>1, <1>2, <1>3 DEF find_sat_in_outputs
<1> QED BY <1>5, <1>6

\* The builder spends outputs of the snapshot.
LEMMA BuilderSpends ==
  ASSUME NEW c, NEW point, point[1] \in c.utxos, NEW ins \in BuilderInputs(c, point)
  PROVE  ToSet(ins) \subseteq c.utxos
<1>1. PICK o : o = point[1] /\ o \in c.utxos
  OBVIOUS
<1>2. ins = <<o>> \/ \E u \in c.utxos : ins = <<o, u>> \/ ins = <<u, o>>
  <2>1. CASE point[2] = 0
    BY <1>1, <2>1 DEF BuilderInputs, Cardinals
  <2>2. CASE point[2] # 0
    BY <1>1, <2>2 DEF BuilderInputs, Cardinals
  <2> QED BY <2>1, <2>2
<1>3. CASE ins = <<o>>
  BY <1>1, <1>3 DEF ToSet
<1>4. ASSUME NEW u \in c.utxos, ins = <<o, u>> \/ ins = <<u, o>>
      PROVE  ToSet(ins) \subseteq c.utxos
  <2>1. DOMAIN ins = {1, 2} /\ ins[1] \in c.utxos /\ ins[2] \in c.utxos
    BY <1>1, <1>4
  <2> QED BY <2>1 DEF ToSet
<1> QED BY <1>2, <1>3, <1>4

\* The builder pays the recipient and the two change addresses.
LEMMA BuilderPays ==
  ASSUME addresses \in Nat, NEW ins, NEW point, NEW outs \in BuilderOutputs(ins, point)
  PROVE  Outputs(outs, addresses + 2)
<1>1. PICK n \in Nat : n = addresses + 2
  OBVIOUS
<1>2. addresses + 1 \in Int /\ addresses + 1 <= n /\ addresses + 2 \in Int /\ addresses + 2 <= n
  BY <1>1
<1>3. PICK lead : lead = point[2] + (IF ins[1] = point[1] THEN 0 ELSE TxOut(ins[1]).value)
  OBVIOUS
<1>4. PICK rest : rest = InputValue(ins) - lead
  OBVIOUS
<1>5. PICK aligned : aligned = IF lead = 0 THEN <<>> ELSE <<Output(lead, addresses + 1)>>
  OBVIOUS
<1>6. PICK v, w : \/ outs = Append(aligned, Output(v, Recipient))
                  \/ outs = aligned \o <<Output(v, Recipient), Output(w, addresses + 2)>>
  BY <1>3, <1>4, <1>5 DEF BuilderOutputs
<1>7. PICK sends, keeps, leads : sends = Output(v, Recipient) /\ keeps = Output(w, addresses + 2) /\ leads = Output(lead, addresses + 1)
  OBVIOUS
<1>8. IsOutput(sends, n) /\ IsOutput(keeps, n) /\ IsOutput(leads, n)
  BY <1>1, <1>2, <1>7, OutputIs DEF Recipient
<1>9. Outputs(aligned, n)
  <2>1. CASE lead = 0
    BY <1>5, <2>1, NoOutputs
  <2>2. CASE lead # 0
    <3>1. aligned \in Seq({leads}) /\ DOMAIN aligned = {1} /\ aligned[1] = leads
      BY <1>5, <1>7, <2>2
    <3> QED BY <1>8, <3>1 DEF Outputs, IsVector
  <2> QED BY <2>1, <2>2
<1>10. CASE outs = Append(aligned, sends)
  BY <1>1, <1>8, <1>9, <1>10, OutputAppended
<1>11. CASE outs = aligned \o <<sends, keeps>>
  <2>1. PICK two : two = <<sends, keeps>>
    OBVIOUS
  <2>2. two \in Seq({sends, keeps}) /\ DOMAIN two = {1, 2} /\ two[1] = sends /\ two[2] = keeps
    BY <2>1
  <2>3. Outputs(two, n)
    BY <1>8, <2>2 DEF Outputs, IsVector
  <2> QED BY <1>1, <1>9, <1>11, <2>1, <2>3, OutputsJoined
<1> QED BY <1>6, <1>7, <1>10, <1>11

\* `send <sat>` spends what the command knows of.
LEMMA SatKnows ==
  ASSUME Commands, AllKnow, NEW p \in Procs, NEW sat, SendSat(p, sat)
  PROVE  AllKnow' /\ UNCHANGED <<sent, txs>>
<1>1. PICK c : c = cmd[p] /\ c.pc = "build"
  BY DEF SendSat
<1>2. DOMAIN c.info = c.utxos
  BY <1>1 DEF AllKnow, Knows
<1>3. PICK found : found = find_sat_in_outputs(c.info, sat)
  OBVIOUS
<1>4. CASE found = <<>>
  BY <1>1, <1>3, <1>4, RefusedKnows DEF SendSat
<1>5. CASE found # <<>>
  <2>1. PICK point : point = found[1]
    OBVIOUS
  <2>2. point[1] \in c.utxos
    BY <1>2, <1>3, <1>5, <2>1, FoundInOutputs
  <2>3. PICK ins \in BuilderInputs(c, point) :
          \E outs \in BuilderOutputs(ins, point) : Built(p, "sat", sat, [in |-> ins, out |-> outs], <<>>, 2)
    BY <1>1, <1>3, <1>5, <2>1 DEF SendSat
  <2>4. PICK outs \in BuilderOutputs(ins, point) : Built(p, "sat", sat, [in |-> ins, out |-> outs], <<>>, 2)
    BY <2>3
  <2>5. PICK tx : tx = [in |-> ins, out |-> outs]
    OBVIOUS
  <2>6. tx = [in |-> ins, out |-> outs] /\ tx.in = ins /\ tx.out = outs
    BY <2>5
  <2>7. ToSet(tx.in) \subseteq cmd[p].utxos
    BY <1>1, <2>2, <2>6, BuilderSpends
  <2>8. addresses \in Nat
    BY DEF AllKnow, ChainTyped
  <2>9. Outputs(tx.out, addresses + 2)
    BY <2>6, <2>8, BuilderPays
  <2> QED BY <1>1, <2>6, <2>7, <2>9, <2>4, BuiltKnows
<1> QED BY <1>4, <1>5

\* A command that sends what it built, or not.
LEMMA SendKnows ==
  ASSUME Commands, AllKnow, AllReported, NEW p \in Procs, sign_and_broadcast_transaction(p)
  PROVE  AllKnow' /\ AllReported'
<1>1. PICK d : d = cmd[p] /\ Knows(d) /\ d.pc = "sign"
  BY DEF AllKnow, sign_and_broadcast_transaction
<1>2. Exit(p)
  BY DEF sign_and_broadcast_transaction
<1>3. CASE UNCHANGED <<coreVars, sent>>
  <2>1. AllKnow'
    BY <1>2, <1>3, Exits
  <2> QED BY <1>3, <2>1 DEF AllReported, Reported, coreVars
<1>4. CASE ~UNCHANGED <<coreVars, sent>>
  <2>1. PICK s : s = [tx |-> Len(txs) + 1, kind |-> d.kind, sat |-> d.sat, swept |-> d.swept, seen |-> d.seen,
                      panicked |-> d.kind # "sweep" /\ ~(ToSet(d.tx.in) \subseteq d.utxos)]
    OBVIOUS
  <2>2. send_raw_transaction(d.tx) /\ sent' = sent \cup {s}
    BY <1>1, <1>4, <2>1 DEF sign_and_broadcast_transaction
  <2>3. Outputs(d.tx.out, addresses) /\ addresses \in Nat
    BY <1>1 DEF Knows, AllKnow, ChainTyped
  <2>4. addresses' \in Nat /\ addresses <= addresses' /\ Push(d.tx.in, d.tx.out)
        /\ \A v \in DOMAIN d.tx.out : d.tx.out[v].value \in Nat
    BY <2>2, <2>3 DEF send_raw_transaction
  <2>5. Outputs(d.tx.out, addresses')
    BY <2>3, <2>4, OutputsStay
  <2>6. NodeMoves
    BY <2>4, <2>5, PushMoves DEF AllKnow
  <2>7. PICK c : Moves(p, c) /\ c.pc \in {"idle", "exited"}
    BY <1>2, ExitMoves
  <2>8. Knows(c)'
    BY <2>7, NothingToKnow
  <2>9. AllKnow'
    BY <2>6, <2>7, <2>8, OneMoves
  <2>10. Reported(s)'
    <3>1. s.tx = Len(txs) + 1 /\ s.kind = d.kind /\ s.seen = d.seen
          /\ (s.panicked => d.kind # "sweep" /\ ~(ToSet(d.tx.in) \subseteq d.utxos))
      BY <2>1
    <3>2. PICK tx : tx = [in |-> d.tx.in, out |-> d.tx.out]
      OBVIOUS
    <3>3. tx.in = d.tx.in
      BY <3>2
    <3>4. txs' = Append(txs, tx) /\ IsVector(txs)
      BY <2>4, <3>2 DEF Push, AllKnow, ChainTyped
    <3>5. PICK n \in Nat : n = Len(txs) /\ DOMAIN txs' = 1 .. n + 1 /\ txs'[n + 1] = tx
      BY <3>4, Appended
    <3>6. s.tx = n + 1 /\ n + 1 \in 1 .. n + 1
      BY <3>1, <3>5
    <3>7. s.tx \in DOMAIN txs' /\ txs'[s.tx].in = d.tx.in
      BY <3>3, <3>5, <3>6
    <3>8. s.panicked => d.kind = "amount" /\ SpendsNew(d.tx.in, d.seen)
      BY <1>1, <3>1 DEF Knows
    <3>9. s.panicked => s.kind = "amount" /\ SpendsNew(txs'[s.tx].in, s.seen)
      BY <3>1, <3>7, <3>8
    <3> QED BY <3>7, <3>9 DEF Reported, SpendsNew
  <2>11. \A r \in sent : Reported(r)'
    BY <2>6, ReportsStay DEF AllReported
  <2> QED BY <2>2, <2>9, <2>10, <2>11 DEF AllReported
<1> QED BY <1>3, <1>4

\* The node's steps in scope "spend".
LEMMA EnvironmentMoves ==
  ASSUME AllKnow, SpendEnvironment
  PROVE  NodeMoves
<1>1. ChainTyped /\ addresses \in Nat
  BY DEF AllKnow, ChainTyped
<1>2. CASE mine_block(Subsidy)
  BY <1>1, <1>2, BlockMoves
<1>3. ASSUME NEW op, NEW n \in {0, 2}, broadcast_tx(<<op>>, [k \in 1 .. n |-> Output(1, Paper)])
      PROVE  NodeMoves
  <2>1. PICK outs : outs = [k \in 1 .. n |-> Output(1, Paper)]
    OBVIOUS
  <2>2. PICK o : o = Output(1, Paper)
    OBVIOUS
  <2>3. IsOutput(o, addresses) /\ o.value = 1
    BY <1>1, <2>2, OutputIs DEF Paper
  <2>4. n \in Nat /\ outs \in [1 .. n -> {o}] /\ DOMAIN outs = 1 .. n
    BY <2>1, <2>2
  <2>5. outs \in Seq({o})
    BY <2>4, SeqDef
  <2>6. Outputs(outs, addresses) /\ \A v \in DOMAIN outs : outs[v].value \in Nat
    BY <2>3, <2>4, <2>5 DEF Outputs, IsVector
  <2>7. Push(<<op>>, outs) /\ UNCHANGED addresses
    BY <1>3, <2>1 DEF broadcast_tx
  <2> QED BY <1>1, <2>6, <2>7, PushMoves
<1>4. ASSUME NEW op, lock_unspent({op})
      PROVE  NodeMoves
  BY <1>1, <1>4, NodeStays DEF lock_unspent
<1>5. ASSUME NEW tx, tx = fund_raw_transaction(<<>>, <<Output(1, Recipient)>>, 0, 0), send_raw_transaction(tx)
      PROVE  NodeMoves
  <2>1. PICK n \in Nat : n = addresses + 1
    BY <1>1
  <2>2. PICK o, outs, none : o = Output(1, Recipient) /\ outs = <<o>> /\ none = <<>>
    OBVIOUS
  <2>3. IsOutput(o, n)
    BY <2>1, <2>2, OutputIs DEF Recipient
  <2>4. outs \in Seq({o}) /\ DOMAIN outs = {1} /\ outs[1] = o /\ none \in Seq({})
    BY <2>2
  <2>5. Outputs(outs, n) /\ IsVector(none)
    BY <2>3, <2>4 DEF Outputs, IsVector
  <2>6. PICK own : own = own_utxos(none) /\ IsVector(own)
    BY <1>1, OwnIs
  <2>7. tx = fund_from(own, none, outs, 0, 0)
    BY <1>5, <2>2, <2>6 DEF fund_raw_transaction
  <2>8. tx # NoTx
    BY <1>5 DEF send_raw_transaction
  <2>9. Outputs(tx.out, n)
    BY <1>1, <2>1, <2>5, <2>6, <2>7, <2>8, FundedFrom
  <2>10. /\ Push(tx.in, tx.out) /\ \A v \in DOMAIN tx.out : tx.out[v].value \in Nat
         /\ addresses' = IF \E k \in DOMAIN tx.out : tx.out[k].script = n THEN n ELSE addresses
    BY <1>5, <2>1 DEF send_raw_transaction
  <2>11. addresses' \in Nat /\ addresses <= addresses'
    BY <1>1, <2>1, <2>10
  <2>12. \A v \in DOMAIN tx.out : IsOutput(tx.out[v], addresses')
    BY <1>1, <2>1, <2>9, <2>10 DEF Outputs, IsOutput
  <2>13. Outputs(tx.out, addresses')
    BY <2>9, <2>12 DEF Outputs
  <2> QED BY <1>1, <2>10, <2>11, <2>13, PushMoves
<1> QED BY <1>2, <1>3, <1>4, <1>5 DEF SpendEnvironment

\* Every step of a command.
LEMMA CommandKnows ==
  ASSUME Commands, AllKnow, AllReported, NEW p \in Procs, CommandStep(p)
  PROVE  AllKnow' /\ AllReported'
<1>1. UNCHANGED <<sent, txs>> => AllReported'
  BY DEF AllReported, Reported
<1>2. NextStep(p) \in {"create_wallet", "load"}
  BY DEF NextStep
<1>3. CASE open_store(p)
  BY <1>1, <1>3, Goes DEF open_store, coreVars
<1>4. CASE validate_schema_version(p)
  BY <1>1, <1>2, <1>4, Goes, Exits DEF validate_schema_version, coreVars
<1>5. CASE initialize_schema_version(p)
  BY <1>1, <1>2, <1>5, Goes DEF initialize_schema_version, coreVars
<1>6. CASE create_wallet(p)
  BY <1>1, <1>6, Goes, Exits DEF create_wallet, coreVars
<1>7. CASE import_descriptors(p)
  BY <1>1, <1>7, Exits DEF import_descriptors, coreVars
<1>8. CASE load_wallet(p) \/ Sync(p) \/ get_utxos(p) \/ get_locked_utxos(p) \/ get_output_info(p)
  BY <1>1, <1>8, SnapshotsKnow
<1>9. CASE SendAmount(p)
  BY <1>1, <1>9, AmountKnows
<1>10. CASE Sweep(p)
  BY <1>1, <1>10, SweepKnows
<1>11. ASSUME NEW sat, SendSat(p, sat)
       PROVE  AllKnow' /\ AllReported'
  BY <1>1, <1>11, SatKnows
<1>12. CASE sign_and_broadcast_transaction(p)
  BY <1>12, SendKnows
<1>13. CASE Killed(p)
  BY <1>1, <1>13, Exits DEF Killed, coreVars
<1> QED BY <1>3, <1>4, <1>5, <1>6, <1>7, <1>8, <1>9, <1>10, <1>11, <1>12, <1>13 DEF CommandStep

\* A command starts.
LEMMA StartKnows ==
  ASSUME Commands, AllKnow, NEW p \in Procs,
         Construct(p) \/ \E m : Create(p, m) \/ Restore(p, m)
  PROVE  AllKnow' /\ UNCHANGED <<sent, txs>>
<1>1. CASE Construct(p)
  <2>1. Goto(p, "open") /\ UNCHANGED <<coreVars, sent, txs>>
    BY <1>1 DEF Construct, Goto, coreVars
  <2> QED BY <2>1, Goes
<1>2. ASSUME NEW kind, NEW m, Started(p, kind, m)
      PROVE  AllKnow' /\ UNCHANGED <<sent, txs>>
  <2>1. PICK c : c = [Idle EXCEPT !.pc = "open", !.kind = kind, !.seed = m]
    OBVIOUS
  <2>2. IsCommand(c) /\ c.pc = "open"
    BY <2>1, IdleIs DEF IsCommand
  <2>3. cmd' = [cmd EXCEPT ![p] = c] /\ UNCHANGED <<coreVars, sent, txs>>
    BY <1>2, <2>1 DEF Started, coreVars
  <2>4. Moves(p, c)
    BY <2>2, <2>3 DEF Moves
  <2> QED BY <2>2, <2>3, <2>4, GoesElsewhere
<1> QED BY <1>1, <1>2 DEF Create, Restore

\* The chain that every command starts from.
LEMMA ChainTypedAtFirst ==
  ASSUME CoreInit
  PROVE  ChainTyped
<1>1. PICK o : o = Output(Subsidy, 0) /\ IsOutput(o, 0) /\ o.value \in Nat
  BY OutputIs, MockCoreAssumption
<1>2. PICK outs : outs = <<o>>
  OBVIOUS
<1>3. outs \in Seq({o}) /\ DOMAIN outs = {1} /\ outs[1] = o
  BY <1>2
<1>4. Outputs(outs, 0) /\ \A v \in DOMAIN outs : outs[v].value \in Nat
  BY <1>1, <1>3 DEF Outputs, IsVector
<1>5. PICK tx : tx = [in |-> <<NullOutPoint>>, out |-> outs]
  OBVIOUS
<1>6. txs = <<tx>> /\ mempool = <<>> /\ utxos = {} /\ transactions = {} /\ addresses = 0
  BY <1>1, <1>2, <1>5 DEF CoreInit
<1>7. txs \in Seq({tx}) /\ DOMAIN txs = {1} /\ txs[1].out = outs
  BY <1>5, <1>6
<1>8. mempool \in Seq(DOMAIN txs) /\ IsFiniteSet(utxos)
  BY <1>6, FS_EmptySet
<1> QED BY <1>4, <1>6, <1>7, <1>8 DEF ChainTyped, IsVector

\* The invariant behind the reports holds in every state.
THEOREM ReportsHold == WalletSpec => []ReportInv
<1>1. WalletInit => ReportInv
  <2> SUFFICES ASSUME WalletInit
               PROVE  ReportInv
    OBVIOUS
  <2>1. Init
    BY DEF WalletInit
  <2>2. CoreInit
    BY <2>1 DEF Init
  <2>3. cmd = [p \in Procs |-> Idle] /\ sent = {} /\ CoreInit
    BY <2>2 DEF WalletInit
  <2>4. \A p \in Procs : cmd[p].pc = "idle"
    BY <2>3, IdleIs
  <2>5. \A p \in Procs : Knows(cmd[p])
    BY <2>4 DEF Knows
  <2> QED BY <2>3, <2>4, <2>5, ChainTypedAtFirst DEF ReportInv, AllReported
<1>2. ASSUME Commands, ReportInv, [WalletNext]_<<vars, scope, walletVars>>
      PROVE  ReportInv'
  <2>1. UNCHANGED scope
    BY <1>2 DEF WalletNext
  <2>2. AllReported /\ NodeMoves /\ UNCHANGED sent => AllReported'
    BY ReportsStay DEF AllReported
  <2>3. CASE scope = "index"
    <3>1. UNCHANGED walletVars
      BY <1>2, <2>3 DEF WalletNext
    <3> QED BY <1>2, <2>1, <2>3, <3>1 DEF walletVars, ReportInv
  <2>4. CASE scope # "index"
    <3>1. AllKnow /\ AllReported
      BY <1>2, <2>4 DEF ReportInv, AllKnow
    <3>2. AllKnow' /\ AllReported' => ReportInv'
      BY <2>1, <2>4 DEF ReportInv, AllKnow
    <3>3. CASE UNCHANGED coreVars /\ UNCHANGED walletVars
      BY <2>2, <3>1, <3>2, <3>3, ChainAlone, NoneMoves DEF walletVars
    <3>4. CASE SpendEnvironment /\ UNCHANGED walletVars
      BY <2>2, <3>1, <3>2, <3>4, EnvironmentMoves, NoneMoves DEF walletVars
    <3>5. ASSUME NEW p \in Procs, Construct(p) \/ \E m : Create(p, m) \/ Restore(p, m)
          PROVE  ReportInv'
      <4>1. AllKnow' /\ UNCHANGED <<sent, txs>>
        BY <1>2, <3>1, <3>5, StartKnows
      <4>2. AllReported'
        BY <3>1, <4>1 DEF AllReported, Reported
      <4> QED BY <3>2, <4>1, <4>2
    <3>6. ASSUME NEW p \in Procs, CommandStep(p)
          PROVE  ReportInv'
      BY <1>2, <3>1, <3>2, <3>6, CommandKnows
    <3>7. CASE UNCHANGED <<vars, scope, walletVars>>
      BY <3>3, <3>7 DEF vars
    <3>8. CASE (IndexBlock \/ Commit) /\ UNCHANGED walletVars
      <4>1. UNCHANGED coreVars
        BY <3>8 DEF IndexBlock, Commit
      <4> QED BY <3>3, <3>8, <4>1
    <3>9. CASE WalletNext
      BY <2>4, <3>4, <3>5, <3>6, <3>8, <3>9, WalletAssumption DEF WalletNext
    <3> QED BY <1>2, <3>7, <3>9
  <2> QED BY <2>3, <2>4
<1> QED BY <1>1, <1>2, WalletInitialisedOnce, PTL DEF WalletSpec

\* A command that broadcast a transaction reports it, unless it is an amount
\* that the node funded with an output of a transaction that was not confirmed
\* when the command listed its outputs (get_utxos, get_locked_utxos,
\* sign_and_broadcast_transaction).
THEOREM BroadcastsReported == WalletSpec => []BroadcastIsReported
<1>1. ReportInv => BroadcastIsReported
  BY DEF ReportInv, AllReported, Reported, SpendsNew, BroadcastIsReported
<1> QED BY <1>1, ReportsHold, PTL
=============================================================================
