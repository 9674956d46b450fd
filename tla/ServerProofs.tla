---------------------------- MODULE ServerProofs ----------------------------
(***************************************************************************)
(* The shutdown of "lord server" ends the process under a running update   *)
(* only on a second Ctrl-C, or on one that comes while a failed command    *)
(* waits for the index thread: for any number of requests, any routes and  *)
(* any number of Ctrl-C at any time.                                       *)
(*                                                                         *)
(* NoExitDuringUpdate says nothing of the INDEXER mutex, on which it       *)
(* rests: the inductive invariant ties the thread that holds the mutex,    *)
(* the join handle and the index thread together, and the flag to who has  *)
(* set it.                                                                 *)
(***************************************************************************)
EXTENDS Server, TLAPS

Mains == {"opening", "spawn", "replace", "serve", "finish", "join", "exited", "killed"}

\* Before the index thread is started there is none, and its handle is in
\* INDEXER from the moment the main thread serves (server.rs stores it first).
HandleFollowsMain ==
  /\ main \in Mains
  /\ main \in {"opening", "spawn"} => indexer = "none"
  /\ main \in {"opening", "spawn", "replace"} => INDEXER = "none"
  /\ main \in {"serve", "finish", "join", "exited"} => INDEXER \in {"some", "taken"}

\* The INDEXER mutex is held exactly while its holder joins the index thread.
GuardHeldWhileJoining ==
  /\ guard \in {"free", "main", "handler"}
  /\ main = "join" => guard = "main"
  /\ guard = "main" => main \in {"join", "killed"}
  /\ guard = "handler" <=> handler = "join"

\* A handle that was taken belongs to a thread that still joins, or the index
\* thread has ended; and nothing but its end lets the process end.
TakenIsJoined ==
  /\ INDEXER = "taken" => guard # "free" \/ indexer = "ended"
  /\ main = "exited" => indexer = "ended"

\* A flag that no handled Ctrl-C has set was set by the main thread when it
\* took the handle; and the handler's exit needs the flag set before.
FlagHasCause ==
  /\ handled \in Nat
  /\ handler # "idle" => handled >= 1
  /\ shutting /\ handled = 0 => INDEXER = "taken"
  /\ main = "killed" => handled >= 2 \/ guard = "main" \/ indexer = "ended"

ShutdownInv == HandleFollowsMain /\ GuardHeldWhileJoining /\ TakenIsJoined /\ FlagHasCause

-----------------------------------------------------------------------------

\* The initial states of the process satisfy the invariant.
LEMMA ShutdownInit == Init => ShutdownInv
  BY DEF Init, ShutdownInv, HandleFollowsMain, GuardHeldWhileJoining, TakenIsJoined, FlagHasCause, Mains

\* The steps of the main thread (lib.rs, server.rs) preserve it.
LEMMA MainKeepsInv == ShutdownInv /\ (MainStep \/ BindFails) => ShutdownInv'
<1> SUFFICES ASSUME ShutdownInv, MainStep \/ BindFails
             PROVE  ShutdownInv'
  OBVIOUS
<1> USE DEF ShutdownInv, HandleFollowsMain, GuardHeldWhileJoining, TakenIsJoined, FlagHasCause, Mains, ctrlc
<1>1. CASE RegisterListener
  BY <1>1 DEF RegisterListener
<1>2. CASE SpawnIndexThread
  BY <1>2 DEF SpawnIndexThread
<1>3. CASE ReplaceIndexer
  BY <1>3 DEF ReplaceIndexer
<1>4. CASE BindFails
  BY <1>4 DEF BindFails
<1>5. CASE StopServing
  BY <1>5 DEF StopServing
<1>6. CASE MainTakes
  \* It takes the handle and the mutex, or finds the handle taken and the
  \* mutex free: then the thread that took it has joined.
  <2>1. guard = "free" /\ main = "finish" /\ INDEXER \in {"some", "taken"}
    BY <1>6 DEF MainTakes, TakeIndexer
  <2>2. CASE INDEXER = "some"
    BY <1>6, <2>1, <2>2 DEF MainTakes, TakeIndexer
  <2>3. CASE INDEXER = "taken"
    BY <1>6, <2>1, <2>3 DEF MainTakes, TakeIndexer
  <2> QED BY <2>1, <2>2, <2>3
<1>7. CASE MainJoins
  BY <1>7 DEF MainJoins
<1> QED BY <1>1, <1>2, <1>3, <1>4, <1>5, <1>6, <1>7 DEF MainStep

\* The steps of the Ctrl-C handler's thread preserve it.
LEMMA HandlerKeepsInv == ShutdownInv /\ (HandlerStep \/ PressCtrlC) => ShutdownInv'
<1> SUFFICES ASSUME ShutdownInv, HandlerStep \/ PressCtrlC
             PROVE  ShutdownInv'
  OBVIOUS
<1> USE DEF ShutdownInv, HandleFollowsMain, GuardHeldWhileJoining, TakenIsJoined, FlagHasCause, Mains, ctrlc
<1>1. CASE PressCtrlC
  BY <1>1 DEF PressCtrlC
<1>2. CASE HandlerWakes
  <2>1. CASE shutting
    BY <1>2, <2>1 DEF HandlerWakes, Alive
  <2>2. CASE ~shutting
    BY <1>2, <2>2 DEF HandlerWakes, Alive
  <2> QED BY <2>1, <2>2
<1>3. CASE HandlerDrains
  BY <1>3 DEF HandlerDrains
<1>4. CASE HandlerTakes
  <2>1. guard = "free" /\ handler = "take" /\ Alive
    BY <1>4 DEF HandlerTakes, TakeIndexer
  <2>2. CASE INDEXER = "some"
    BY <1>4, <2>1, <2>2 DEF HandlerTakes, TakeIndexer, Alive
  <2>3. CASE INDEXER # "some"
    BY <1>4, <2>1, <2>3 DEF HandlerTakes, TakeIndexer, Alive
  <2> QED BY <2>2, <2>3
<1>5. CASE HandlerJoins
  BY <1>5 DEF HandlerJoins
<1> QED BY <1>1, <1>3, <1>4, <1>5, <1>2 DEF HandlerStep

\* The index thread only ends by itself, and once it has ended it stays so.
LEMMA IndexerKeepsInv == ShutdownInv /\ IndexerStep => ShutdownInv'
<1> SUFFICES ASSUME ShutdownInv, IndexerStep
             PROVE  ShutdownInv'
  OBVIOUS
<1>1. /\ UNCHANGED <<main, handler, INDEXER, guard, shutting, handled>>
      /\ indexer \notin {"none", "ended"}
      /\ main \notin {"exited", "killed"}
  BY DEF IndexerStep, IndexerChecks, IndexerLocks, IndexerCommits, IndexerUnlocks, IndexerWakes, Alive, ctrlc
<1> QED
  BY <1>1 DEF ShutdownInv, HandleFollowsMain, GuardHeldWhileJoining, TakenIsJoined, FlagHasCause

\* Requests and the node's blocks touch none of the shutdown's state.
LEMMA OthersKeepInv ==
  ASSUME ShutdownInv,
         Mine \/ \E r \in Requests : RequestStep(r) \/ \E route \in Asked : Accept(r, route)
  PROVE  ShutdownInv'
<1>1. UNCHANGED <<main, indexer, handler, INDEXER, guard, shutting, handled>>
  BY DEF Mine, RequestStep, Read, Hold, Call, Answer, Accept, ctrlc
<1> QED
  BY <1>1 DEF ShutdownInv, HandleFollowsMain, GuardHeldWhileJoining, TakenIsJoined, FlagHasCause

\* The invariant that the threads of the server keep through startup and
\* shutdown, in every behaviour of the process.
THEOREM ShutdownInvariant == Spec => []ShutdownInv
<1>1. ShutdownInv /\ [Next]_<<vars, index_sats>> => ShutdownInv'
  <2> SUFFICES ASSUME ShutdownInv, [Next]_<<vars, index_sats>>
               PROVE  ShutdownInv'
    OBVIOUS
  <2>1. CASE Next
    BY <2>1, MainKeepsInv, HandlerKeepsInv, IndexerKeepsInv, OthersKeepInv DEF Next
  <2>2. CASE UNCHANGED <<vars, index_sats>>
    BY <2>2 DEF ShutdownInv, HandleFollowsMain, GuardHeldWhileJoining, TakenIsJoined, FlagHasCause, vars, ctrlc
  <2> QED BY <2>1, <2>2
<1> QED BY ShutdownInit, <1>1, PTL DEF Spec

\* The process ends under a running update only on a second Ctrl-C or on one
\* while a failed command joins: otherwise whichever of the main thread and the
\* Ctrl-C handler takes the join handle (gracefully_shut_down_indexer), the end
\* waits for the index thread.
THEOREM ServerExitsAfterUpdate == Spec => []NoExitDuringUpdate
<1>1. ShutdownInv => NoExitDuringUpdate
  BY DEF ShutdownInv, TakenIsJoined, FlagHasCause, NoExitDuringUpdate
<1> QED BY ShutdownInvariant, <1>1, PTL
=============================================================================
