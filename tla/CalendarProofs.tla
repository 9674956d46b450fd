--------------------------- MODULE CalendarProofs ---------------------------
(***************************************************************************)
(* Proofs about Calendar, for every number of digests, every batch size    *)
(* and every combination of faults.                                        *)
(***************************************************************************)
EXTENDS Calendar, FiniteSetTheorems, TLAPS

-----------------------------------------------------------------------------
\* Where the worker is in a tick constrains its locals and what it left in
\* memory.  Polling works on the recorded anchor; between the drain and the
\* record step no anchor is pending, so that recording overwrites none.
Polling == {"poll", "confirmed", "unconfirmed"}
Holding == {"broadcast", "undo", "ltp", "record"}

WorkerInv ==
  /\ wk.pc \in Polling => wk.pend # NoAnchor
  /\ wk.pc \in Holding => wk.batch # {}
  /\ wk.pc \in {"ltp", "record"} => wk.tx # NoTx

\* What makes AckedDigestsTracked inductive when no submission can land
\* inside a reload: memory and disk both account for every acknowledged
\* digest, disk accounts for what memory has proofs for, and the worker's
\* view of the pending anchor is that of memory and of disk.
Proved(c) == {d \in Digests : c.proofs[d] # NoTx}

Accounted ==
  /\ acked \subseteq Tracked(mem)
  /\ acked \subseteq Tracked(disk)
  /\ Proved(mem) \subseteq Tracked(disk)

TrackedInv ==
  /\ Accounted
  /\ wk.pc = "loaded" => wk.snap = disk
  /\ wk.pc \in Polling => mem.pending = wk.pend /\ disk.pending = wk.pend
  /\ wk.pc \in Holding => mem.pending = NoAnchor

\* What makes ProofsAnchored inductive: a proof or an anchor held anywhere
\* (memory, disk, the worker's copies) agrees with what bitcoind holds.
AnchorKnown(a) ==
  a # NoAnchor => /\ txs[a.tx].batch = a.batch
                  /\ txs[a.tx].status # "none"

Sound(c) ==
  /\ AnchorKnown(c.pending)
  /\ \A d \in Digests :
       c.proofs[d] # NoTx => /\ txs[c.proofs[d]].status = "confirmed"
                             /\ d \in txs[c.proofs[d]].batch

AnchoredInv ==
  /\ Sound(mem)
  /\ Sound(disk)
  /\ Sound(wk.snap)
  /\ AnchorKnown(wk.pend)
  /\ wk.pc = "confirmed" => txs[wk.pend.tx].status = "confirmed"
  /\ wk.pc \in {"ltp", "record"} => /\ txs[wk.tx].batch = wk.batch
                                    /\ txs[wk.tx].status # "none"

-----------------------------------------------------------------------------
\* Every batch a drain may take is a set of 1 to BatchMax digests.
LEMMA BatchesTyped ==
  ASSUME NEW queue \in SUBSET Digests, queue # {}, NEW priority,
         NEW b \in Batches(queue, priority)
  PROVE  b \in BatchSets
<1>1. b \subseteq Digests /\ Cardinality(b) <= BatchMax
  BY DEF Batches
<1>2. b # {}
  <2>1. SUFFICES ASSUME b = {} PROVE FALSE
    OBVIOUS
  <2>2. Cardinality({}) = BatchMax
    BY <2>1 DEF Batches
  <2>3. Cardinality({}) = 0
    BY FS_EmptySet
  <2>4. QED
    BY <2>2, <2>3, BatchMaxAssumption
<1>3. QED
  BY <1>1, <1>2 DEF BatchSets

\* Each critical section turns a calendar state into a calendar state.
LEMMA SectionsTyped ==
  ASSUME NEW c \in CalendarState
  PROVE  /\ \A d \in Digests : Enqueued(c, d) \in CalendarState
         /\ \A a \in Anchors : /\ Finalized(c, a) \in CalendarState
                               /\ Requeued(c, a) \in CalendarState
         /\ \A b \in BatchSets : /\ Drained(c, b) \in CalendarState
                                 /\ Undrained(c, b) \in CalendarState
         /\ \A t \in Txs, b \in BatchSets : Recorded(c, t, b) \in CalendarState
         /\ Skipped(c) \in CalendarState
<1>1. NoAnchor \in Anchors
  BY DEF Anchors
<1>2. \A a \in Anchors : a.tx \in Txs \cup {NoTx} /\ a.batch \in SUBSET Digests
  BY DEF Anchors, NoAnchor, BatchSets
<1>3. \A t \in Txs, b \in BatchSets : [tx |-> t, batch |-> b] \in Anchors
  BY DEF Anchors
<1>4. \A b \in BatchSets : b \in SUBSET Digests
  BY DEF BatchSets
<1>5. ASSUME NEW d \in Digests PROVE Enqueued(c, d) \in CalendarState
  BY DEF Enqueued, CalendarState
<1>6. ASSUME NEW a \in Anchors PROVE Finalized(c, a) \in CalendarState
  BY <1>1, <1>2 DEF Finalized, CalendarState
<1>7. ASSUME NEW a \in Anchors PROVE Requeued(c, a) \in CalendarState
  BY <1>1, <1>2 DEF Requeued, CalendarState
<1>8. ASSUME NEW b \in BatchSets
      PROVE  Drained(c, b) \in CalendarState /\ Undrained(c, b) \in CalendarState
  BY <1>4 DEF Drained, Undrained, CalendarState
<1>9. ASSUME NEW t \in Txs, NEW b \in BatchSets
      PROVE  Recorded(c, t, b) \in CalendarState
  BY <1>3 DEF Recorded, CalendarState
<1>10. Skipped(c) \in CalendarState
  BY DEF Skipped, CalendarState
<1>11. QED
  BY <1>5, <1>6, <1>7, <1>8, <1>9, <1>10

\* A transaction is never the absent one.
LEMMA TxIsSome == ASSUME NEW t \in Txs PROVE t # NoTx
BY CalendarAssumption DEF Txs, NoTx

\* The initial state is well typed.
LEMMA InitTyped == Init => TypeOK /\ WorkerInv
<1> SUFFICES ASSUME Init PROVE TypeOK /\ WorkerInv
  OBVIOUS
<1>1. NoAnchor \in Anchors
  BY DEF Anchors
<1>2. EmptyState \in CalendarState
  BY <1>1 DEF EmptyState, CalendarState
<1>3. wk \in Workers /\ wk.pc = "sleep"
  BY <1>1, <1>2 DEF Init, Idle, Workers, Pcs
<1>4. txs \in [Txs -> [batch : SUBSET Digests, status : Statuses]]
  BY DEF Init, Statuses
<1>5. submits \in 0 .. MaxSubmits
  BY CalendarAssumption DEF Init
<1>6. TypeOK
  BY <1>2, <1>3, <1>4, <1>5 DEF Init, TypeOK
<1>7. WorkerInv
  BY <1>3 DEF WorkerInv, Polling, Holding
<1>8. QED
  BY <1>6, <1>7

\* Saving a calendar state keeps memory and disk typed.
LEMMA SaveTyped ==
  ASSUME TypeOK, NEW c \in CalendarState, NEW ok \in SaveOutcomes, Save(c, ok)
  PROVE  mem' \in CalendarState /\ disk' \in CalendarState
BY DEF Save, TypeOK

\* Moving the worker to another step keeps its locals.
LEMMA GotoTyped ==
  ASSUME TypeOK, NEW pc \in Pcs, Goto(pc)
  PROVE  /\ wk' \in Workers
         /\ wk'.pc = pc /\ wk'.snap = wk.snap /\ wk'.pend = wk.pend
         /\ wk'.batch = wk.batch /\ wk'.ltp = wk.ltp /\ wk'.tx = wk.tx
BY DEF TypeOK, Workers, Goto

\* Ending the tick leaves a well-typed worker without locals.
LEMMA IdleTyped ==
  /\ NoAnchor \in Anchors
  /\ EmptyState \in CalendarState
  /\ Idle \in Workers
  /\ Idle.pc = "sleep"
<1>1. NoAnchor \in Anchors
  BY DEF Anchors
<1>2. EmptyState \in CalendarState
  BY <1>1 DEF EmptyState, CalendarState
<1>3. QED
  BY <1>1, <1>2 DEF Idle, Workers, Pcs

\* Every step keeps the types and the worker's locals in line with its pc.
LEMMA NextTyped == TypeOK /\ WorkerInv /\ [Next]_vars => TypeOK' /\ WorkerInv'
<1> SUFFICES ASSUME TypeOK, WorkerInv, [Next]_vars PROVE TypeOK' /\ WorkerInv'
  OBVIOUS
<1> USE DEF Polling, Holding
<1>1. ASSUME NEW d \in Digests, SubmitDigest(d) PROVE TypeOK' /\ WorkerInv'
  <2>1. mem' \in CalendarState /\ disk' \in CalendarState
    <3>1. CASE mem.proofs[d] # NoTx
      BY <1>1, <3>1 DEF SubmitDigest, TypeOK
    <3>2. CASE mem.proofs[d] = NoTx
      <4>1. PICK ok \in SaveOutcomes : Save(Enqueued(mem, d), ok)
        BY <1>1, <3>2 DEF SubmitDigest
      <4>2. Enqueued(mem, d) \in CalendarState
        BY SectionsTyped DEF TypeOK
      <4>3. QED
        BY <4>1, <4>2, SaveTyped
    <3>3. QED
      BY <3>1, <3>2
  <2>2. acked' \subseteq Digests
    BY <1>1 DEF SubmitDigest, TypeOK
  <2>3. submits' \in 0 .. MaxSubmits
    BY <1>1, CalendarAssumption DEF SubmitDigest, TypeOK
  <2>4. UNCHANGED <<wk, txs, ltp, cool, aged>>
    BY <1>1 DEF SubmitDigest
  <2>5. QED
    BY <2>1, <2>2, <2>3, <2>4 DEF TypeOK, WorkerInv
<1>2. ASSUME NEW d \in Digests, LtpEnqueue(d) PROVE TypeOK' /\ WorkerInv'
  BY <1>2 DEF LtpEnqueue, TypeOK, WorkerInv
<1>3. CASE WorkerLoad
  <2>1. wk' \in Workers /\ wk'.pc = "loaded"
    BY <1>3 DEF WorkerLoad, TypeOK, Workers, Pcs
  <2>2. QED
    BY <1>3, <2>1 DEF WorkerLoad, TypeOK, WorkerInv
<1>4. CASE WorkerInstall
  <2>1. wk.snap \in CalendarState /\ wk.snap.pending \in Anchors
    BY DEF TypeOK, Workers, CalendarState
  <2>2. wk' \in Workers
    BY <1>4, <2>1, IdleTyped DEF WorkerInstall, Workers, Pcs
  <2>3. /\ wk'.pc \in {"preflight", "poll"}
        /\ wk'.pc = "poll" => wk'.pend # NoAnchor
    BY <1>4, IdleTyped DEF WorkerInstall, Workers
  <2>4. QED
    BY <1>4, <2>1, <2>2, <2>3 DEF WorkerInstall, TypeOK, WorkerInv
<1>5. CASE FindConfirmedTx
  <2>1. UNCHANGED <<mem, disk, txs, ltp, cool, aged, acked, submits>>
    BY <1>5 DEF FindConfirmedTx
  <2>2. Goto("confirmed") \/ Goto("unconfirmed") \/ wk' = Idle
    BY <1>5 DEF FindConfirmedTx, EndTick
  <2>3. wk' \in Workers /\ wk'.pc \in {"confirmed", "unconfirmed", "sleep"}
        /\ (wk'.pc # "sleep" => wk'.pend = wk.pend)
    BY <2>2, GotoTyped, IdleTyped DEF Pcs
  <2>4. wk.pend # NoAnchor
    BY <1>5 DEF FindConfirmedTx, WorkerInv
  <2>5. QED
    BY <2>1, <2>3, <2>4 DEF TypeOK, WorkerInv
<1>6. CASE FinalizeAnchor
  <2>1. mem' \in CalendarState /\ disk' \in CalendarState
    <3>1. wk.pend \in Anchors
      BY DEF TypeOK, Workers
    <3>2. Finalized(mem, wk.pend) \in CalendarState
      BY <3>1, SectionsTyped DEF TypeOK
    <3>3. QED
      BY <1>6, <3>2, SaveTyped DEF FinalizeAnchor, TypeOK
  <2>2. wk' = Idle /\ UNCHANGED <<txs, ltp, cool, aged, acked, submits>>
    BY <1>6 DEF FinalizeAnchor, EndTick
  <2>3. QED
    BY <2>1, <2>2, IdleTyped DEF TypeOK, WorkerInv
<1>7. CASE AwaitAnchor
  BY <1>7, IdleTyped DEF AwaitAnchor, EndTick, TypeOK, WorkerInv
<1>8. CASE RestorePendingBatch
  <2>1. PICK ok \in SaveOutcomes :
          /\ Save(Requeued(mem, wk.pend), ok)
          /\ IF ok THEN Goto("preflight") ELSE EndTick
    BY <1>8 DEF RestorePendingBatch
  <2>2. Requeued(mem, wk.pend) \in CalendarState
    BY SectionsTyped DEF TypeOK, Workers
  <2>3. mem' \in CalendarState /\ disk' \in CalendarState
    BY <2>1, <2>2, SaveTyped
  <2>4. wk' \in Workers /\ wk'.pc \in {"preflight", "sleep"}
    BY <2>1, GotoTyped, IdleTyped DEF EndTick, Pcs
  <2>5. QED
    BY <1>8, <2>3, <2>4 DEF RestorePendingBatch, TypeOK, WorkerInv
<1>9. CASE Preflight
  <2>1. mem' \in CalendarState /\ disk' \in CalendarState
    <3>1. Skipped(mem) \in CalendarState
      BY SectionsTyped DEF TypeOK
    <3>2. QED
      BY <1>9, <3>1, SaveTyped DEF Preflight, TypeOK
  <2>2. Goto("drain") \/ wk' = Idle
    BY <1>9 DEF Preflight, EndTick
  <2>3. wk' \in Workers /\ wk'.pc \in {"drain", "sleep"}
    BY <2>2, GotoTyped, IdleTyped DEF Pcs
  <2>4. QED
    BY <1>9, <2>1, <2>3 DEF Preflight, TypeOK, WorkerInv
<1>10. CASE DrainBatch
  <2>1. CASE mem.pending # NoAnchor \/ mem.queue = {}
    BY <1>10, <2>1, IdleTyped DEF DrainBatch, EndTick, TypeOK, WorkerInv
  <2>2. CASE ~(mem.pending # NoAnchor \/ mem.queue = {})
    <3>0. PICK priority \in PriorityLists :
            \E b \in Batches(mem.queue, priority), ok \in SaveOutcomes :
              /\ Save(Drained(mem, b), ok)
              /\ IF ok THEN wk' = [Idle EXCEPT !.pc = "broadcast",
                                               !.batch = b,
                                               !.ltp = LtpDigests(b, priority)]
                 ELSE EndTick
      BY <1>10, <2>2 DEF DrainBatch
    <3>1. PICK b \in Batches(mem.queue, priority), ok \in SaveOutcomes :
            /\ Save(Drained(mem, b), ok)
            /\ IF ok THEN wk' = [Idle EXCEPT !.pc = "broadcast",
                                             !.batch = b,
                                             !.ltp = LtpDigests(b, priority)]
               ELSE EndTick
      BY <3>0
    <3>2. mem.queue \in SUBSET Digests
      BY DEF TypeOK, CalendarState
    <3>3. b \in BatchSets
      BY <2>2, <3>2, BatchesTyped
    <3>4. b # {} /\ b \in SUBSET Digests
      BY <3>3 DEF BatchSets
    <3>5. Drained(mem, b) \in CalendarState
      BY <3>3, SectionsTyped DEF TypeOK
    <3>6. mem' \in CalendarState /\ disk' \in CalendarState
      BY <3>1, <3>5, SaveTyped
    <3>7. LtpDigests(b, priority) \in SUBSET Digests
      BY <3>4 DEF LtpDigests
    <3>8. wk' \in Workers /\ wk'.pc \in {"broadcast", "sleep"}
          /\ (wk'.pc = "broadcast" => wk'.batch # {})
      BY <3>1, <3>3, <3>4, <3>7, IdleTyped DEF EndTick, Workers, Pcs
    <3>9. QED
      BY <1>10, <3>6, <3>8 DEF DrainBatch, TypeOK, WorkerInv
  <2>3. QED
    BY <2>1, <2>2
<1>11. CASE Broadcast
  <2>1. wk.pc = "broadcast" /\ wk.batch # {} /\ wk.batch \in SUBSET Digests
    BY <1>11 DEF Broadcast, WorkerInv, TypeOK, Workers, BatchSets
  <2>2. txs' \in [Txs -> [batch : SUBSET Digests, status : Statuses]]
    <3>1. ASSUME NEW t \in Txs, Accept(t)
          PROVE  txs' \in [Txs -> [batch : SUBSET Digests, status : Statuses]]
      BY <2>1, <3>1 DEF Accept, TypeOK, Statuses
    <3>2. CASE UNCHANGED txs
      BY <3>2 DEF TypeOK
    <3>3. QED
      BY <1>11, <3>1, <3>2 DEF Broadcast
  <2>3. \/ \E t \in Txs : wk' = [wk EXCEPT !.pc = "ltp", !.tx = t]
        \/ Goto("undo")
    BY <1>11 DEF Broadcast
  <2>4. wk' \in Workers /\ wk'.batch # {} /\ wk'.pc \in {"ltp", "undo"}
        /\ (wk'.pc = "ltp" => wk'.tx # NoTx)
    <3>1. ASSUME NEW t \in Txs, wk' = [wk EXCEPT !.pc = "ltp", !.tx = t]
          PROVE  wk' \in Workers /\ wk'.batch # {} /\ wk'.pc = "ltp" /\ wk'.tx # NoTx
      <4>1. wk' \in Workers
        BY <3>1 DEF TypeOK, Workers, Pcs
      <4>2. wk'.pc = "ltp" /\ wk'.batch = wk.batch /\ wk'.tx = t
        BY <3>1 DEF TypeOK, Workers
      <4>3. QED
        BY <2>1, <4>1, <4>2, TxIsSome
    <3>2. CASE Goto("undo")
      BY <2>1, <3>2, GotoTyped DEF Pcs
    <3>3. QED
      BY <2>3, <3>1, <3>2
  <2>5. QED
    BY <1>11, <2>2, <2>4 DEF Broadcast, TypeOK, WorkerInv
<1>12. CASE RestoreDrainedBatch
  <2>1. wk.batch \in BatchSets
    BY <1>12 DEF RestoreDrainedBatch, TypeOK, WorkerInv, Workers
  <2>2. Undrained(mem, wk.batch) \in CalendarState
    BY <2>1, SectionsTyped DEF TypeOK
  <2>3. mem' \in CalendarState /\ disk' \in CalendarState
    BY <1>12, <2>2, SaveTyped DEF RestoreDrainedBatch
  <2>4. QED
    BY <1>12, <2>3, IdleTyped
       DEF RestoreDrainedBatch, EndTick, TypeOK, WorkerInv
<1>13. CASE ClearLtpDigests
  <2>1. wk.pc = "ltp" /\ wk.batch # {} /\ wk.tx # NoTx
    BY <1>13 DEF ClearLtpDigests, WorkerInv
  <2>2. wk' \in Workers /\ wk'.pc = "record" /\ wk'.batch # {} /\ wk'.tx # NoTx
    BY <1>13, <2>1, GotoTyped DEF ClearLtpDigests, Pcs
  <2>3. QED
    BY <1>13, <2>2 DEF ClearLtpDigests, TypeOK, WorkerInv
<1>14. CASE RecordAnchor
  <2>1. wk.batch \in BatchSets /\ wk.tx \in Txs
    BY <1>14 DEF RecordAnchor, TypeOK, WorkerInv, Workers
  <2>2. Recorded(mem, wk.tx, wk.batch) \in CalendarState
    BY <2>1, SectionsTyped DEF TypeOK
  <2>3. mem' \in CalendarState /\ disk' \in CalendarState
    BY <1>14, <2>2, SaveTyped DEF RecordAnchor
  <2>4. QED
    BY <1>14, <2>3, IdleTyped DEF RecordAnchor, EndTick, TypeOK, WorkerInv
<1>15. ASSUME NEW t \in Txs, Confirm(t) \/ Drop(t) PROVE TypeOK' /\ WorkerInv'
  BY <1>15 DEF Confirm, Drop, TypeOK, WorkerInv, Statuses
<1>16. CASE IntervalElapses \/ TimeoutElapses
  BY <1>16 DEF IntervalElapses, TimeoutElapses, TypeOK, WorkerInv
<1>17. CASE CrashRestart
  BY <1>17, IdleTyped DEF CrashRestart, TypeOK, WorkerInv
<1>18. CASE UNCHANGED vars
  BY <1>18 DEF vars, TypeOK, WorkerInv
<1>19. QED
  BY <1>1, <1>2, <1>3, <1>4, <1>5, <1>6, <1>7, <1>8, <1>9, <1>10, <1>11,
     <1>12, <1>13, <1>14, <1>15, <1>16, <1>17, <1>18 DEF Next, WorkerStep

\* Every behaviour of the calendar is well typed: in particular a pending
\* anchor always has a transaction and 1 to BatchMax digests.
THEOREM CalendarTyped == Spec => []TypeOK
<1>1. Spec => [](TypeOK /\ WorkerInv)
  BY InitTyped, NextTyped, PTL DEF Spec
<1>2. QED
  BY <1>1, PTL

-----------------------------------------------------------------------------
\* No critical section loses track of a digest, provided that finalizing and
\* requeueing work on the anchor that is pending and that recording an
\* anchor overwrites none.  Only finalizing adds proofs.
LEMMA SectionsKeepTrack ==
  ASSUME NEW c \in CalendarState
  PROVE  /\ \A d \in Digests : /\ Tracked(c) \cup {d} \subseteq Tracked(Enqueued(c, d))
                               /\ Proved(Enqueued(c, d)) = Proved(c)
         /\ Tracked(c) \subseteq Tracked(Finalized(c, c.pending))
         /\ Proved(Finalized(c, c.pending)) \subseteq Proved(c) \cup c.pending.batch
         /\ Tracked(c) \subseteq Tracked(Requeued(c, c.pending))
         /\ Proved(Requeued(c, c.pending)) = Proved(c)
         /\ \A b \in SUBSET Digests :
              /\ Tracked(c) \subseteq Tracked(Drained(c, b))
              /\ Proved(Drained(c, b)) = Proved(c)
              /\ Tracked(c) \subseteq Tracked(Undrained(c, b))
              /\ Proved(Undrained(c, b)) = Proved(c)
         /\ c.pending = NoAnchor =>
              \A t \in Txs, b \in SUBSET Digests :
                /\ Tracked(c) \subseteq Tracked(Recorded(c, t, b))
                /\ Proved(Recorded(c, t, b)) = Proved(c)
         /\ Tracked(Skipped(c)) = Tracked(c)
         /\ Proved(Skipped(c)) = Proved(c)
<1> USE DEF Tracked, Proved
<1>1. ASSUME NEW d \in Digests
      PROVE  /\ Tracked(c) \cup {d} \subseteq Tracked(Enqueued(c, d))
             /\ Proved(Enqueued(c, d)) = Proved(c)
  BY DEF Enqueued, CalendarState
<1>2. /\ Tracked(c) \subseteq Tracked(Finalized(c, c.pending))
      /\ Proved(Finalized(c, c.pending)) \subseteq Proved(c) \cup c.pending.batch
  <2>1. c.pending.batch # {} => c.pending.tx # NoTx
    <3>1. c.pending \in Anchors
      BY DEF CalendarState
    <3>2. c.pending = NoAnchor \/ c.pending.tx \in Txs
      BY <3>1 DEF Anchors
    <3>3. QED
      BY <3>2, TxIsSome DEF NoAnchor
  <2>2. /\ Finalized(c, c.pending).proofs =
             [d \in Digests |-> IF d \in c.pending.batch THEN c.pending.tx
                                ELSE c.proofs[d]]
        /\ Finalized(c, c.pending).queue = c.queue
        /\ Finalized(c, c.pending).batches = c.batches
    BY DEF Finalized, CalendarState
  <2>3. QED
    BY <2>1, <2>2
<1>3. /\ Tracked(c) \subseteq Tracked(Requeued(c, c.pending))
      /\ Proved(Requeued(c, c.pending)) = Proved(c)
  BY DEF Requeued, CalendarState
<1>4. ASSUME NEW b \in SUBSET Digests
      PROVE  /\ Tracked(c) \subseteq Tracked(Drained(c, b))
             /\ Proved(Drained(c, b)) = Proved(c)
  <2>1. /\ Drained(c, b).queue = c.queue \ b
        /\ Drained(c, b).batches = c.batches \cup {b}
        /\ Drained(c, b).proofs = c.proofs
        /\ Drained(c, b).pending = c.pending
    BY DEF Drained, CalendarState
  <2>2. QED
    BY <2>1
<1>5. ASSUME NEW b \in SUBSET Digests
      PROVE  /\ Tracked(c) \subseteq Tracked(Undrained(c, b))
             /\ Proved(Undrained(c, b)) = Proved(c)
  <2>1. /\ Undrained(c, b).queue = c.queue \cup b
        /\ Undrained(c, b).batches = c.batches \ {b}
        /\ Undrained(c, b).proofs = c.proofs
        /\ Undrained(c, b).pending = c.pending
    BY DEF Undrained, CalendarState
  <2>2. QED
    BY <2>1
<1>6. ASSUME c.pending = NoAnchor, NEW t \in Txs, NEW b \in SUBSET Digests
      PROVE  /\ Tracked(c) \subseteq Tracked(Recorded(c, t, b))
             /\ Proved(Recorded(c, t, b)) = Proved(c)
  <2>1. /\ Recorded(c, t, b).queue = c.queue
        /\ Recorded(c, t, b).batches = c.batches \ {b}
        /\ Recorded(c, t, b).proofs = c.proofs
        /\ Recorded(c, t, b).pending.batch = b
    BY DEF Recorded, CalendarState
  <2>2. c.pending.batch = {}
    BY <1>6 DEF NoAnchor
  <2>3. QED
    BY <2>1, <2>2
<1>7. Tracked(Skipped(c)) = Tracked(c) /\ Proved(Skipped(c)) = Proved(c)
  BY DEF Skipped, CalendarState
<1>8. QED
  BY <1>1, <1>2, <1>3, <1>4, <1>5, <1>6, <1>7

\* Saving a state that keeps track of what memory tracks, and has proofs only
\* for what disk tracks, keeps every acknowledged digest accounted for.
LEMMA SaveAccounts ==
  ASSUME Accounted, NEW c, NEW ok,
         Tracked(mem) \subseteq Tracked(c), Proved(c) \subseteq Tracked(disk),
         Proved(c) \subseteq Tracked(c),
         Save(c, ok), acked' = acked
  PROVE  Accounted'
BY DEF Accounted, Save

\* A digest with a proof is accounted for.
LEMMA ProvedIsTracked == \A c : Proved(c) \subseteq Tracked(c)
BY DEF Proved, Tracked

\* Nothing is acknowledged at first, so everything is accounted for.
LEMMA InitTracked == Init => TrackedInv
BY DEF Init, TrackedInv, Accounted, Tracked, Proved, EmptyState, Idle, Polling,
       Holding

\* Every step keeps TrackedInv, unless a submission may land in a reload.
LEMMA NextTracked ==
  ASSUME "race" \notin Faults, TypeOK, WorkerInv, TrackedInv, [Next]_vars
  PROVE  TrackedInv'
<1> USE DEF Polling, Holding
<1>0. mem \in CalendarState /\ disk \in CalendarState /\ wk \in Workers
  BY DEF TypeOK
<1>1. ASSUME NEW d \in Digests, SubmitDigest(d) PROVE TrackedInv'
  <2>1. wk' = wk /\ wk.pc # "loaded"
    BY <1>1 DEF SubmitDigest
  <2>2. CASE mem.proofs[d] # NoTx
    <3>1. d \in Proved(mem)
      BY <2>2 DEF Proved
    <3>2. d \in Tracked(mem) /\ d \in Tracked(disk)
      BY <3>1, ProvedIsTracked DEF TrackedInv, Accounted
    <3>3. acked' = acked \cup {d} /\ mem' = mem /\ disk' = disk
      BY <1>1, <2>2 DEF SubmitDigest
    <3>4. Accounted'
      BY <3>2, <3>3 DEF TrackedInv, Accounted
    <3>5. QED
      BY <2>1, <3>3, <3>4 DEF TrackedInv
  <2>3. CASE mem.proofs[d] = NoTx
    <3>1. PICK ok \in SaveOutcomes :
            /\ Save(Enqueued(mem, d), ok)
            /\ acked' = IF ok THEN acked \cup {d} ELSE acked
      BY <1>1, <2>3 DEF SubmitDigest
    <3>2. /\ Tracked(mem) \cup {d} \subseteq Tracked(Enqueued(mem, d))
          /\ Proved(Enqueued(mem, d)) = Proved(mem)
      BY <1>0, SectionsKeepTrack
    <3>3. Accounted'
      BY <3>1, <3>2, ProvedIsTracked DEF TrackedInv, Accounted, Save
    <3>4. Enqueued(mem, d).pending = mem.pending
      BY <1>0 DEF Enqueued, CalendarState
    <3>5. QED
      BY <2>1, <3>1, <3>3, <3>4 DEF TrackedInv, Save
  <2>4. QED
    BY <2>2, <2>3
<1>2. ASSUME NEW d \in Digests, LtpEnqueue(d) PROVE TrackedInv'
  BY <1>2 DEF LtpEnqueue, TrackedInv, Accounted
<1>3. CASE WorkerLoad
  <2>1. wk'.pc = "loaded" /\ wk'.snap = disk
    BY <1>0, <1>3 DEF WorkerLoad, Workers
  <2>2. QED
    BY <1>3, <2>1 DEF WorkerLoad, TrackedInv, Accounted
<1>4. CASE WorkerInstall
  <2>1. wk.snap = disk
    BY <1>4 DEF WorkerInstall, TrackedInv
  <2>2. mem' = disk /\ disk' = disk /\ acked' = acked
    BY <1>4, <2>1 DEF WorkerInstall
  <2>3. wk'.pc \in {"preflight", "poll"} /\ wk'.pend = disk.pending
    BY <1>4, <2>1, IdleTyped DEF WorkerInstall, Workers
  <2>4. Accounted'
    BY <2>2, ProvedIsTracked DEF TrackedInv, Accounted
  <2>5. QED
    BY <2>2, <2>3, <2>4 DEF TrackedInv
<1>5. CASE FindConfirmedTx
  <2>1. Goto("confirmed") \/ Goto("unconfirmed") \/ wk' = Idle
    BY <1>5 DEF FindConfirmedTx, EndTick
  <2>2. wk'.pc \in {"confirmed", "unconfirmed", "sleep"}
        /\ (wk'.pc # "sleep" => wk'.pend = wk.pend)
    BY <2>1, GotoTyped, IdleTyped DEF Pcs
  <2>3. QED
    BY <1>5, <2>2 DEF FindConfirmedTx, TrackedInv, Accounted
<1>6. CASE FinalizeAnchor
  <2>1. wk.pend = mem.pending /\ disk.pending = mem.pending
    BY <1>6 DEF FinalizeAnchor, TrackedInv
  <2>2. mem.pending.batch \subseteq Tracked(disk)
    <3>1. disk.pending.batch \subseteq Digests
      BY <1>0 DEF CalendarState, Anchors, NoAnchor, BatchSets
    <3>2. QED
      BY <2>1, <3>1 DEF Tracked
  <2>3. Accounted'
    BY <1>0, <1>6, <2>1, <2>2, SectionsKeepTrack, SaveAccounts, ProvedIsTracked
       DEF FinalizeAnchor, TrackedInv, Accounted
  <2>4. wk'.pc = "sleep"
    BY <1>6, IdleTyped DEF FinalizeAnchor, EndTick
  <2>5. QED
    BY <2>3, <2>4 DEF TrackedInv
<1>7. CASE AwaitAnchor
  BY <1>7, IdleTyped DEF AwaitAnchor, EndTick, TrackedInv, Accounted
<1>8. CASE RestorePendingBatch
  <2>1. wk.pend = mem.pending
    BY <1>8 DEF RestorePendingBatch, TrackedInv
  <2>2. PICK ok \in SaveOutcomes :
          /\ Save(Requeued(mem, wk.pend), ok)
          /\ IF ok THEN Goto("preflight") ELSE EndTick
    BY <1>8 DEF RestorePendingBatch
  <2>3. Accounted'
    BY <1>0, <1>8, <2>1, <2>2, SectionsKeepTrack, SaveAccounts, ProvedIsTracked
       DEF RestorePendingBatch, TrackedInv, Accounted
  <2>4. wk'.pc \in {"preflight", "sleep"}
    BY <2>2, GotoTyped, IdleTyped DEF EndTick, Pcs
  <2>5. QED
    BY <2>3, <2>4 DEF TrackedInv
<1>9. CASE Preflight
  <2>1. Accounted'
    <3>1. CASE UNCHANGED <<mem, disk>>
      BY <1>9, <3>1 DEF Preflight, TrackedInv, Accounted
    <3>2. ASSUME NEW ok \in SaveOutcomes, Save(Skipped(mem), ok)
          PROVE  Accounted'
      BY <1>0, <1>9, <3>2, SectionsKeepTrack, SaveAccounts, ProvedIsTracked
         DEF Preflight, TrackedInv, Accounted
    <3>3. QED
      BY <1>9, <3>1, <3>2 DEF Preflight
  <2>2. Goto("drain") \/ wk' = Idle
    BY <1>9 DEF Preflight, EndTick
  <2>3. wk'.pc \in {"drain", "sleep"}
    BY <2>2, GotoTyped, IdleTyped DEF Pcs
  <2>4. QED
    BY <2>1, <2>3 DEF TrackedInv
<1>10. CASE DrainBatch
  <2>1. CASE mem.pending # NoAnchor \/ mem.queue = {}
    BY <1>10, <2>1, IdleTyped DEF DrainBatch, EndTick, TrackedInv, Accounted
  <2>2. CASE ~(mem.pending # NoAnchor \/ mem.queue = {})
    <3>1. \E b \in SUBSET mem.queue, ok \in SaveOutcomes, p \in SUBSET Digests :
            /\ Save(Drained(mem, b), ok)
            /\ IF ok THEN wk' = [Idle EXCEPT !.pc = "broadcast",
                                             !.batch = b, !.ltp = p]
               ELSE EndTick
      <4>1. PICK priority \in PriorityLists :
              \E b \in Batches(mem.queue, priority), ok \in SaveOutcomes :
                /\ Save(Drained(mem, b), ok)
                /\ IF ok THEN wk' = [Idle EXCEPT !.pc = "broadcast",
                                                 !.batch = b,
                                                 !.ltp = LtpDigests(b, priority)]
                   ELSE EndTick
        BY <1>10, <2>2 DEF DrainBatch
      <4>2. PICK b \in Batches(mem.queue, priority), ok \in SaveOutcomes :
              /\ Save(Drained(mem, b), ok)
              /\ IF ok THEN wk' = [Idle EXCEPT !.pc = "broadcast",
                                               !.batch = b,
                                               !.ltp = LtpDigests(b, priority)]
                 ELSE EndTick
        BY <4>1
      <4>3. b \in SUBSET mem.queue /\ LtpDigests(b, priority) \in SUBSET Digests
        BY <1>0 DEF Batches, LtpDigests, CalendarState
      <4>4. QED
        BY <4>2, <4>3
    <3>2. PICK b \in SUBSET mem.queue, ok \in SaveOutcomes, p \in SUBSET Digests :
            /\ Save(Drained(mem, b), ok)
            /\ IF ok THEN wk' = [Idle EXCEPT !.pc = "broadcast",
                                             !.batch = b, !.ltp = p]
               ELSE EndTick
      BY <3>1
    <3>3. b \in SUBSET Digests
      BY <1>0, <3>2 DEF CalendarState
    <3>4. Accounted'
      BY <1>0, <1>10, <3>2, <3>3, SectionsKeepTrack, SaveAccounts, ProvedIsTracked
         DEF DrainBatch, TrackedInv, Accounted
    <3>5. mem'.pending = NoAnchor
      BY <1>0, <2>2, <3>2 DEF Save, Drained, CalendarState
    <3>6. wk'.pc \in {"broadcast", "sleep"}
      BY <3>2, IdleTyped DEF EndTick, Workers
    <3>7. QED
      BY <3>4, <3>5, <3>6 DEF TrackedInv
  <2>3. QED
    BY <2>1, <2>2
<1>11. CASE Broadcast
  <2>1. wk'.pc \in {"ltp", "undo"}
    BY <1>0, <1>11 DEF Broadcast, Goto, Workers
  <2>2. mem.pending = NoAnchor
    BY <1>11 DEF Broadcast, TrackedInv
  <2>3. QED
    BY <1>11, <2>1, <2>2 DEF Broadcast, TrackedInv, Accounted
<1>12. CASE RestoreDrainedBatch
  <2>1. wk.batch \in SUBSET Digests
    BY <1>0 DEF Workers, BatchSets
  <2>2. Accounted'
    BY <1>0, <1>12, <2>1, SectionsKeepTrack, SaveAccounts, ProvedIsTracked
       DEF RestoreDrainedBatch, TrackedInv, Accounted
  <2>3. QED
    BY <1>12, <2>2, IdleTyped DEF RestoreDrainedBatch, EndTick, TrackedInv
<1>13. CASE ClearLtpDigests
  <2>1. wk'.pc = "record"
    BY <1>13, GotoTyped DEF ClearLtpDigests, Pcs
  <2>2. mem.pending = NoAnchor
    BY <1>13 DEF ClearLtpDigests, TrackedInv
  <2>3. QED
    BY <1>13, <2>1, <2>2 DEF ClearLtpDigests, TrackedInv, Accounted
<1>14. CASE RecordAnchor
  <2>1. wk.batch \in SUBSET Digests /\ wk.tx \in Txs
    BY <1>0, <1>14 DEF RecordAnchor, WorkerInv, Workers, BatchSets
  <2>2. mem.pending = NoAnchor
    BY <1>14 DEF RecordAnchor, TrackedInv
  <2>3. Accounted'
    BY <1>0, <1>14, <2>1, <2>2, SectionsKeepTrack, SaveAccounts, ProvedIsTracked
       DEF RecordAnchor, TrackedInv, Accounted
  <2>4. QED
    BY <1>14, <2>3, IdleTyped DEF RecordAnchor, EndTick, TrackedInv
<1>15. ASSUME NEW t \in Txs, Confirm(t) \/ Drop(t) PROVE TrackedInv'
  BY <1>15 DEF Confirm, Drop, TrackedInv, Accounted
<1>16. CASE IntervalElapses \/ TimeoutElapses
  BY <1>16 DEF IntervalElapses, TimeoutElapses, TrackedInv, Accounted
<1>17. CASE CrashRestart
  BY <1>17, IdleTyped, ProvedIsTracked DEF CrashRestart, TrackedInv, Accounted
<1>18. CASE UNCHANGED vars
  BY <1>18 DEF vars, TrackedInv, Accounted
<1>19. QED
  BY <1>1, <1>2, <1>3, <1>4, <1>5, <1>6, <1>7, <1>8, <1>9, <1>10, <1>11,
     <1>12, <1>13, <1>14, <1>15, <1>16, <1>17, <1>18 DEF Next, WorkerStep

\* If no submission lands between the reading of state.json and its
\* installation, no acknowledged digest is ever lost, whatever saves, RPCs,
\* timeouts and crashes do.
THEOREM AckedNeverLost ==
  ASSUME "race" \notin Faults
  PROVE  Spec => []AckedDigestsTracked
<1>1. Init => TypeOK /\ WorkerInv /\ TrackedInv
  BY InitTyped, InitTracked
<1>2. TypeOK /\ WorkerInv /\ TrackedInv /\ [Next]_vars
        => (TypeOK /\ WorkerInv /\ TrackedInv)'
  BY NextTyped, NextTracked
<1>3. TrackedInv => AckedDigestsTracked
  BY DEF TrackedInv, Accounted, AckedDigestsTracked
<1>4. QED
  BY <1>1, <1>2, <1>3, PTL DEF Spec

-----------------------------------------------------------------------------
\* Each critical section keeps a calendar state in agreement with bitcoind;
\* finalizing needs a known, confirmed anchor, recording a known one.
LEMMA SectionsSound ==
  ASSUME TypeOK, NEW c \in CalendarState, Sound(c)
  PROVE  /\ \A d \in Digests : Sound(Enqueued(c, d))
         /\ \A a \in Anchors :
              (a # NoAnchor /\ AnchorKnown(a) /\ txs[a.tx].status = "confirmed")
                => Sound(Finalized(c, a))
         /\ \A a \in Anchors : Sound(Requeued(c, a))
         /\ \A b : Sound(Drained(c, b)) /\ Sound(Undrained(c, b))
         /\ \A t \in Txs, b \in BatchSets :
              (txs[t].batch = b /\ txs[t].status # "none")
                => Sound(Recorded(c, t, b))
         /\ Sound(Skipped(c))
<1>0. AnchorKnown(NoAnchor)
  BY DEF AnchorKnown
<1>1. ASSUME NEW d \in Digests PROVE Sound(Enqueued(c, d))
  BY DEF Sound, Enqueued, CalendarState
<1>2. ASSUME NEW a \in Anchors, a # NoAnchor, AnchorKnown(a),
             txs[a.tx].status = "confirmed"
      PROVE  Sound(Finalized(c, a))
  <2>1. /\ Finalized(c, a).pending = NoAnchor
        /\ Finalized(c, a).proofs = [d \in Digests |-> IF d \in a.batch THEN a.tx
                                                       ELSE c.proofs[d]]
    BY DEF Finalized, CalendarState
  <2>2. \A d \in a.batch : d \in txs[a.tx].batch
    BY <1>2 DEF AnchorKnown
  <2>3. QED
    BY <1>0, <1>2, <2>1, <2>2 DEF Sound
<1>3. ASSUME NEW a \in Anchors PROVE Sound(Requeued(c, a))
  BY <1>0 DEF Sound, Requeued, CalendarState
<1>4. ASSUME NEW b PROVE Sound(Drained(c, b)) /\ Sound(Undrained(c, b))
  BY DEF Sound, Drained, Undrained, CalendarState
<1>5. ASSUME NEW t \in Txs, NEW b \in BatchSets,
             txs[t].batch = b, txs[t].status # "none"
      PROVE  Sound(Recorded(c, t, b))
  <2>1. /\ Recorded(c, t, b).pending = [tx |-> t, batch |-> b]
        /\ Recorded(c, t, b).proofs = c.proofs
    BY DEF Recorded, CalendarState
  <2>2. AnchorKnown([tx |-> t, batch |-> b])
    BY <1>5 DEF AnchorKnown
  <2>3. QED
    BY <2>1, <2>2 DEF Sound
<1>6. Sound(Skipped(c))
  BY DEF Sound, Skipped, CalendarState
<1>7. QED
  BY <1>1, <1>2, <1>3, <1>4, <1>5, <1>6

\* Saving a sound state while bitcoind stands still keeps all states sound.
LEMMA SaveSound ==
  ASSUME Sound(disk), NEW c, Sound(c), NEW ok, Save(c, ok), txs' = txs
  PROVE  Sound(mem)' /\ Sound(disk)'
BY DEF Save, Sound, AnchorKnown

\* bitcoind forgets nothing: a known anchor stays known and a sound
\* state stays sound when a transaction is accepted, confirmed or dropped.
LEMMA ChainSteps ==
  ASSUME TypeOK,
         \/ \E t \in Txs : FreshTx(t) /\ Accept(t)
         \/ \E t \in Txs : Confirm(t) \/ Drop(t)
  PROVE  /\ \A u \in Txs : txs[u].status # "none" =>
              txs'[u].batch = txs[u].batch /\ txs'[u].status # "none"
         /\ \A u \in Txs : txs[u].status = "confirmed" =>
              txs'[u].status = "confirmed"
<1>0. txs \in [Txs -> [batch : SUBSET Digests, status : Statuses]]
  BY DEF TypeOK
<1>1. ASSUME NEW t \in Txs, FreshTx(t), Accept(t), NEW u \in Txs,
             txs[u].status # "none"
      PROVE  txs'[u] = txs[u]
  BY <1>0, <1>1 DEF FreshTx, Accept
<1>2. ASSUME NEW t \in Txs, Confirm(t) \/ Drop(t), NEW u \in Txs
      PROVE  /\ txs'[u].batch = txs[u].batch
             /\ txs[u].status # "none" => txs'[u].status # "none"
             /\ txs[u].status = "confirmed" => txs'[u].status = "confirmed"
  BY <1>0, <1>2 DEF Confirm, Drop
<1>3. QED
  BY <1>1, <1>2

\* The same for a whole calendar state: bitcoind never takes back what a
\* proof or a pending anchor rests on.
LEMMA ChainStepsSound ==
  ASSUME TypeOK,
         \/ \E t \in Txs : FreshTx(t) /\ Accept(t)
         \/ \E t \in Txs : Confirm(t) \/ Drop(t)
  PROVE  /\ \A a \in Anchors : AnchorKnown(a) => AnchorKnown(a)'
         /\ \A c \in CalendarState : Sound(c) => Sound(c)'
<1>1. ASSUME NEW a \in Anchors, AnchorKnown(a) PROVE AnchorKnown(a)'
  <2>1. a = NoAnchor \/ a.tx \in Txs
    BY DEF Anchors
  <2>2. QED
    BY <1>1, <2>1, ChainSteps DEF AnchorKnown
<1>2. ASSUME NEW c \in CalendarState, Sound(c) PROVE Sound(c)'
  <2>1. AnchorKnown(c.pending)'
    BY <1>1, <1>2 DEF Sound, CalendarState
  <2>2. ASSUME NEW d \in Digests, c.proofs[d] # NoTx
        PROVE  /\ txs'[c.proofs[d]].status = "confirmed"
               /\ d \in txs'[c.proofs[d]].batch
    <3>1. c.proofs[d] \in Txs
      BY <2>2 DEF CalendarState
    <3>2. QED
      BY <1>2, <2>2, <3>1, ChainSteps DEF Sound
  <2>3. QED
    BY <2>1, <2>2 DEF Sound
<1>3. QED
  BY <1>1, <1>2

\* The empty calendar and the idle worker rest on no transaction.
LEMMA IdleSound == Sound(EmptyState) /\ AnchorKnown(Idle.pend)
                   /\ Idle.snap = EmptyState
BY DEF Sound, AnchorKnown, EmptyState, Idle

\* At first there is no proof and no anchor.
LEMMA InitAnchored == Init => AnchoredInv
BY IdleTyped, IdleSound DEF Init, AnchoredInv, Idle

\* Every step keeps AnchoredInv, races included.
LEMMA NextAnchored ==
  ASSUME TypeOK, WorkerInv, AnchoredInv, [Next]_vars
  PROVE  AnchoredInv'
<1>0. /\ mem \in CalendarState /\ disk \in CalendarState /\ wk \in Workers
      /\ wk.snap \in CalendarState /\ wk.pend \in Anchors
  BY DEF TypeOK, Workers
<1>a. ASSUME Sound(mem)', Sound(disk)', wk' = Idle PROVE AnchoredInv'
  <2>1. Sound(wk.snap)' /\ AnchorKnown(wk.pend)' /\ wk'.pc = "sleep"
    BY <1>a, IdleTyped, IdleSound
       DEF Sound, AnchorKnown, EmptyState, Idle
  <2>2. QED
    BY <1>a, <2>1 DEF AnchoredInv
<1>b. ASSUME Sound(mem)', Sound(disk)', txs' = txs, NEW pc \in Pcs, Goto(pc),
             pc \notin {"confirmed", "ltp", "record"}
      PROVE  AnchoredInv'
  <2>1. wk'.snap = wk.snap /\ wk'.pend = wk.pend /\ wk'.pc = pc
    BY <1>b, GotoTyped
  <2>2. QED
    BY <1>b, <2>1 DEF AnchoredInv, Sound, AnchorKnown
<1>1. ASSUME NEW d \in Digests, SubmitDigest(d) PROVE AnchoredInv'
  <2>1. Sound(Enqueued(mem, d))
    BY <1>0, SectionsSound DEF AnchoredInv
  <2>2. Sound(mem)' /\ Sound(disk)'
    BY <1>1, <2>1, SaveSound
       DEF SubmitDigest, AnchoredInv, Sound, AnchorKnown
  <2>3. wk' = wk /\ txs' = txs
    BY <1>1 DEF SubmitDigest
  <2>4. QED
    BY <2>2, <2>3 DEF AnchoredInv, Sound, AnchorKnown
<1>2. CASE (\E d \in Digests : LtpEnqueue(d)) \/ IntervalElapses
             \/ TimeoutElapses \/ UNCHANGED vars
  <2>1. UNCHANGED <<mem, disk, wk, txs>>
    BY <1>2 DEF LtpEnqueue, IntervalElapses, TimeoutElapses, vars
  <2>2. QED
    BY <2>1 DEF AnchoredInv, Sound, AnchorKnown
<1>3. CASE WorkerLoad
  <2>1. wk'.pc = "loaded" /\ wk'.snap = disk /\ wk'.pend = wk.pend
    BY <1>0, <1>3 DEF WorkerLoad, Workers
  <2>2. UNCHANGED <<mem, disk, txs>>
    BY <1>3 DEF WorkerLoad
  <2>3. QED
    BY <2>1, <2>2 DEF AnchoredInv, Sound, AnchorKnown
<1>4. CASE WorkerInstall
  <2>1. mem' = wk.snap /\ UNCHANGED <<disk, txs>>
    BY <1>4 DEF WorkerInstall
  <2>2. /\ wk'.pc \in {"preflight", "poll"} /\ wk'.pend = wk.snap.pending
        /\ wk'.snap = EmptyState
    BY <1>4, IdleTyped, IdleSound DEF WorkerInstall, Workers
  <2>3. Sound(wk.snap)'
    BY <2>1, <2>2, IdleSound DEF Sound, AnchorKnown
  <2>4. Sound(mem)' /\ Sound(disk)' /\ AnchorKnown(wk.pend)'
    BY <2>1, <2>2 DEF AnchoredInv, Sound, AnchorKnown
  <2>5. QED
    BY <2>2, <2>3, <2>4 DEF AnchoredInv
<1>5. CASE FindConfirmedTx
  <2>1. UNCHANGED <<mem, disk, txs>>
    BY <1>5 DEF FindConfirmedTx
  <2>2. Sound(mem)' /\ Sound(disk)'
    BY <2>1 DEF AnchoredInv, Sound, AnchorKnown
  <2>3. CASE HasBlock(wk.pend.tx) /\ Goto("confirmed")
    <3>1. wk'.pc = "confirmed" /\ wk'.snap = wk.snap /\ wk'.pend = wk.pend
      BY <2>3, GotoTyped DEF Pcs
    <3>2. txs[wk.pend.tx].status = "confirmed"
      BY <2>3 DEF HasBlock
    <3>3. QED
      BY <2>1, <2>2, <3>1, <3>2 DEF AnchoredInv, Sound, AnchorKnown
  <2>4. CASE Goto("unconfirmed")
    BY <1>b, <2>1, <2>2, <2>4 DEF Pcs
  <2>5. CASE EndTick
    BY <1>a, <2>2, <2>5 DEF EndTick
  <2>6. QED
    BY <1>5, <2>3, <2>4, <2>5 DEF FindConfirmedTx
<1>6. CASE FinalizeAnchor
  <2>1. Sound(Finalized(mem, wk.pend))
    <3>1. wk.pend # NoAnchor
      BY <1>6 DEF FinalizeAnchor, WorkerInv, Polling
    <3>2. txs[wk.pend.tx].status = "confirmed"
      BY <1>6 DEF FinalizeAnchor, AnchoredInv
    <3>3. QED
      BY <1>0, <3>1, <3>2, SectionsSound DEF AnchoredInv
  <2>2. txs' = txs /\ wk' = Idle
    BY <1>6 DEF FinalizeAnchor, EndTick
  <2>3. Sound(mem)' /\ Sound(disk)'
    <3>1. CASE UNCHANGED <<mem, disk>>
      BY <2>2, <3>1 DEF AnchoredInv, Sound, AnchorKnown
    <3>2. CASE \E ok \in SaveOutcomes : Save(Finalized(mem, wk.pend), ok)
      BY <2>1, <2>2, <3>2, SaveSound DEF AnchoredInv
    <3>3. QED
      BY <1>6, <3>1, <3>2 DEF FinalizeAnchor
  <2>4. QED
    BY <1>a, <2>2, <2>3
<1>7. CASE AwaitAnchor
  <2>1. Sound(mem)' /\ Sound(disk)' /\ wk' = Idle
    BY <1>7 DEF AwaitAnchor, EndTick, AnchoredInv, Sound, AnchorKnown
  <2>2. QED
    BY <1>a, <2>1
<1>8. CASE RestorePendingBatch
  <2>1. Sound(Requeued(mem, wk.pend))
    BY <1>0, SectionsSound DEF AnchoredInv
  <2>2. txs' = txs /\ (Goto("preflight") \/ wk' = Idle)
    BY <1>8 DEF RestorePendingBatch, EndTick
  <2>3. Sound(mem)' /\ Sound(disk)'
    BY <1>8, <2>1, <2>2, SaveSound DEF RestorePendingBatch, AnchoredInv
  <2>4. QED
    BY <1>a, <1>b, <2>2, <2>3 DEF Pcs
<1>9. CASE Preflight
  <2>1. Sound(Skipped(mem))
    BY <1>0, SectionsSound DEF AnchoredInv
  <2>2. txs' = txs /\ (Goto("drain") \/ wk' = Idle)
    BY <1>9 DEF Preflight, EndTick
  <2>3. Sound(mem)' /\ Sound(disk)'
    <3>1. CASE UNCHANGED <<mem, disk>>
      BY <2>2, <3>1 DEF AnchoredInv, Sound, AnchorKnown
    <3>2. CASE \E ok \in SaveOutcomes : Save(Skipped(mem), ok)
      BY <2>1, <2>2, <3>2, SaveSound DEF AnchoredInv
    <3>3. QED
      BY <1>9, <3>1, <3>2 DEF Preflight
  <2>4. QED
    BY <1>a, <1>b, <2>2, <2>3 DEF Pcs
<1>10. CASE DrainBatch
  <2>1. txs' = txs
    BY <1>10 DEF DrainBatch
  <2>2. CASE UNCHANGED <<mem, disk>> /\ wk' = Idle
    BY <1>a, <2>1, <2>2 DEF AnchoredInv, Sound, AnchorKnown
  <2>3. ASSUME NEW b, NEW p, NEW ok, Save(Drained(mem, b), ok),
               IF ok THEN wk' = [Idle EXCEPT !.pc = "broadcast", !.batch = b,
                                             !.ltp = p]
               ELSE EndTick
        PROVE  AnchoredInv'
    <3>1. Sound(mem)' /\ Sound(disk)'
      BY <1>0, <2>1, <2>3, SectionsSound, SaveSound DEF AnchoredInv
    <3>2. CASE wk' = Idle
      BY <1>a, <3>1, <3>2
    <3>3. CASE wk' = [Idle EXCEPT !.pc = "broadcast", !.batch = b, !.ltp = p]
      <4>1. wk'.pc = "broadcast" /\ wk'.snap = EmptyState /\ wk'.pend = NoAnchor
        BY <3>3 DEF Idle
      <4>2. Sound(wk.snap)' /\ AnchorKnown(wk.pend)'
        BY <2>1, <4>1, IdleSound DEF Sound, AnchorKnown
      <4>3. QED
        BY <3>1, <4>1, <4>2 DEF AnchoredInv
    <3>4. QED
      BY <2>3, <3>2, <3>3 DEF EndTick
  <2>4. QED
    BY <1>10, <2>2, <2>3 DEF DrainBatch, EndTick
<1>11. CASE Broadcast
  <2>1. UNCHANGED <<mem, disk>>
    BY <1>11 DEF Broadcast
  <2>2. ASSUME NEW t \in Txs, FreshTx(t), Accept(t),
               \/ wk' = [wk EXCEPT !.pc = "ltp", !.tx = t]
               \/ Goto("undo")
        PROVE  AnchoredInv'
    <3>1. /\ wk'.snap = wk.snap /\ wk'.pend = wk.pend /\ wk'.batch = wk.batch
          /\ wk'.pc \in {"ltp", "undo"} /\ (wk'.pc = "ltp" => wk'.tx = t)
      BY <1>0, <2>2, GotoTyped DEF Workers, Pcs
    <3>2. /\ Sound(mem)' /\ Sound(disk)'
          /\ Sound(wk.snap)' /\ AnchorKnown(wk.pend)'
      <4>1. Sound(mem) /\ Sound(disk) /\ Sound(wk.snap) /\ AnchorKnown(wk.pend)
        BY DEF AnchoredInv
      <4>2. /\ \A a \in Anchors : AnchorKnown(a) => AnchorKnown(a)'
            /\ \A c \in CalendarState : Sound(c) => Sound(c)'
        BY <2>2, ChainStepsSound
      <4>3. QED
        BY <1>0, <2>1, <3>1, <4>1, <4>2 DEF Sound, AnchorKnown
    <3>3. txs'[t] = [batch |-> wk.batch, status |-> "mempool"]
      BY <2>2 DEF Accept, TypeOK
    <3>4. QED
      BY <3>1, <3>2, <3>3 DEF AnchoredInv
  <2>3. CASE Goto("undo") /\ UNCHANGED txs
    <3>1. Sound(mem)' /\ Sound(disk)'
      BY <2>1, <2>3 DEF AnchoredInv, Sound, AnchorKnown
    <3>2. QED
      BY <1>b, <2>3, <3>1 DEF Pcs
  <2>4. QED
    BY <1>11, <2>2, <2>3 DEF Broadcast
<1>12. CASE RestoreDrainedBatch
  <2>1. txs' = txs /\ wk' = Idle
    BY <1>12 DEF RestoreDrainedBatch, EndTick
  <2>2. Sound(mem)' /\ Sound(disk)'
    BY <1>0, <1>12, <2>1, SectionsSound, SaveSound
       DEF RestoreDrainedBatch, AnchoredInv
  <2>3. QED
    BY <1>a, <2>1, <2>2
<1>13. CASE ClearLtpDigests
  <2>1. UNCHANGED <<mem, disk, txs>> /\ wk.pc = "ltp"
    BY <1>13 DEF ClearLtpDigests
  <2>2. /\ wk'.pc = "record" /\ wk'.snap = wk.snap /\ wk'.pend = wk.pend
        /\ wk'.batch = wk.batch /\ wk'.tx = wk.tx
    BY <1>13, GotoTyped DEF ClearLtpDigests, Pcs
  <2>3. QED
    BY <2>1, <2>2 DEF AnchoredInv, Sound, AnchorKnown
<1>14. CASE RecordAnchor
  <2>1. txs' = txs /\ wk' = Idle
    BY <1>14 DEF RecordAnchor, EndTick
  <2>2. wk.batch \in BatchSets /\ wk.tx \in Txs
    BY <1>0, <1>14 DEF RecordAnchor, WorkerInv, Workers, Holding
  <2>3. Sound(Recorded(mem, wk.tx, wk.batch))
    BY <1>0, <1>14, <2>2, SectionsSound DEF RecordAnchor, AnchoredInv
  <2>4. Sound(mem)' /\ Sound(disk)'
    BY <1>14, <2>1, <2>3, SaveSound DEF RecordAnchor, AnchoredInv
  <2>5. QED
    BY <1>a, <2>1, <2>4
<1>15. ASSUME NEW t \in Txs, Confirm(t) \/ Drop(t) PROVE AnchoredInv'
  <2>1. UNCHANGED <<mem, disk, wk>>
    BY <1>15 DEF Confirm, Drop
  <2>2. /\ \A a \in Anchors : AnchorKnown(a) => AnchorKnown(a)'
        /\ \A c \in CalendarState : Sound(c) => Sound(c)'
    BY <1>15, ChainStepsSound
  <2>3. Sound(mem) /\ Sound(disk) /\ Sound(wk.snap) /\ AnchorKnown(wk.pend)
    BY DEF AnchoredInv
  <2>4. Sound(mem)' /\ Sound(disk)' /\ Sound(wk.snap)' /\ AnchorKnown(wk.pend)'
    BY <1>0, <2>1, <2>2, <2>3 DEF Sound, AnchorKnown
  <2>5. wk.pc = "confirmed" => wk.pend.tx \in Txs
    BY <1>0 DEF WorkerInv, Polling, Anchors
  <2>6. wk.pc \in {"ltp", "record"} => wk.tx \in Txs
    BY <1>0 DEF WorkerInv, Workers
  <2>7. QED
    BY <1>15, <2>1, <2>4, <2>5, <2>6, ChainSteps DEF AnchoredInv
<1>16. CASE CrashRestart
  <2>1. Sound(mem)' /\ Sound(disk)' /\ wk' = Idle
    BY <1>16 DEF CrashRestart, AnchoredInv, Sound, AnchorKnown
  <2>2. QED
    BY <1>a, <2>1
<1>17. QED
  BY <1>1, <1>2, <1>3, <1>4, <1>5, <1>6, <1>7, <1>8, <1>9, <1>10, <1>11,
     <1>12, <1>13, <1>14, <1>15, <1>16 DEF Next, WorkerStep

\* A proof the calendar serves always names a confirmed transaction that
\* commits to its digest, also when submissions race with reloads.
THEOREM ServedProofsAnchored == Spec => []ProofsAnchored
<1>1. Init => TypeOK /\ WorkerInv /\ AnchoredInv
  BY InitTyped, InitAnchored
<1>2. TypeOK /\ WorkerInv /\ AnchoredInv /\ [Next]_vars
        => (TypeOK /\ WorkerInv /\ AnchoredInv)'
  BY NextTyped, NextAnchored
<1>3. AnchoredInv => ProofsAnchored
  BY DEF AnchoredInv, Sound, ProofsAnchored
<1>4. QED
  BY <1>1, <1>2, <1>3, PTL DEF Spec

-----------------------------------------------------------------------------
\* A submission that lands in a reload saves the whole of memory, which has
\* proofs that disk has not only after a save has failed.
QuietReload == ~ ({"race", "save"} \subseteq Faults)

\* A proof that reached state.json is in memory too, and stays: no critical
\* section takes one back, and a reload installs what disk has.
ServedInv ==
  /\ Proved(disk) \subseteq Proved(mem)
  /\ (wk.pc = "loaded" => Proved(wk.snap) = Proved(disk))
  /\ ("save" \notin Faults => Proved(mem) \subseteq Proved(disk))

\* No critical section takes a proof back.
LEMMA SectionsKeepProofs ==
  ASSUME NEW c \in CalendarState
  PROVE  /\ \A d \in Digests : Proved(Enqueued(c, d)) = Proved(c)
         /\ \A a \in Anchors : /\ a # NoAnchor => Proved(c) \subseteq Proved(Finalized(c, a))
                               /\ Proved(c) \subseteq Proved(Requeued(c, a))
         /\ \A b : /\ Proved(c) \subseteq Proved(Drained(c, b))
                   /\ Proved(c) \subseteq Proved(Undrained(c, b))
         /\ \A t, b : Proved(c) \subseteq Proved(Recorded(c, t, b))
         /\ Proved(c) \subseteq Proved(Skipped(c))
<1> USE DEF Proved
<1>1. ASSUME NEW a \in Anchors, a # NoAnchor
      PROVE  Proved(c) \subseteq Proved(Finalized(c, a))
  <2>1. a.tx # NoTx
    BY <1>1, TxIsSome DEF Anchors
  <2>2. Finalized(c, a).proofs = [d \in Digests |-> IF d \in a.batch THEN a.tx ELSE c.proofs[d]]
    BY DEF Finalized, CalendarState
  <2>3. QED
    BY <2>1, <2>2
<1>2. \A d \in Digests : Enqueued(c, d).proofs = c.proofs
  BY DEF Enqueued, CalendarState
<1>3. \A a \in Anchors : Requeued(c, a).proofs = c.proofs
  BY DEF Requeued, CalendarState
<1>4. \A b : Drained(c, b).proofs = c.proofs /\ Undrained(c, b).proofs = c.proofs
  BY DEF Drained, Undrained, CalendarState
<1>5. \A t, b : Recorded(c, t, b).proofs = c.proofs
  BY DEF Recorded, CalendarState
<1>6. Skipped(c).proofs = c.proofs
  BY DEF Skipped, CalendarState
<1>7. QED
  BY <1>1, <1>2, <1>3, <1>4, <1>5, <1>6

\* The proofs that disk has stay there.
Serves == ServedInv' /\ Proved(disk) \subseteq Proved(disk)'

\* A critical section of the worker, saved or not.
LEMMA SaveServes ==
  ASSUME ServedInv, NEW c, NEW ok \in SaveOutcomes, Proved(mem) \subseteq Proved(c), Save(c, ok),
         wk'.pc # "loaded"
  PROVE  Serves
<1>1. mem' = c /\ disk' \in {c, disk} /\ ("save" \notin Faults => disk' = c)
  BY DEF Save, SaveOutcomes
<1>2. QED
  BY <1>1 DEF ServedInv, Serves, Proved

\* A step that touches neither memory nor disk, and is not a reload.
LEMMA StaysServed ==
  ASSUME ServedInv, UNCHANGED <<mem, disk>>, wk'.pc # "loaded" \/ wk' = wk
  PROVE  Serves
BY DEF ServedInv, Serves, Proved

\* No step takes back a proof that was saved, unless a submission may land in a
\* reload after a failed save.
LEMMA NextServes ==
  ASSUME QuietReload, TypeOK, WorkerInv, ServedInv, [Next]_vars
  PROVE  Serves
<1>0. mem \in CalendarState /\ wk \in Workers /\ wk.pend \in Anchors
  BY DEF TypeOK, Workers
<1>1. ASSUME NEW pc \in Pcs \ {"loaded"}, Goto(pc)
      PROVE  wk'.pc # "loaded"
  BY <1>1, GotoTyped
<1>2. ASSUME EndTick
      PROVE  wk'.pc # "loaded"
  BY <1>2, IdleTyped DEF EndTick
<1>3. ASSUME NEW d \in Digests, SubmitDigest(d)
      PROVE  Serves
  <2>1. wk' = wk /\ (wk.pc = "loaded" => "save" \notin Faults)
    BY <1>3 DEF SubmitDigest, QuietReload
  <2>2. CASE mem.proofs[d] # NoTx
    BY <1>3, <2>1, <2>2, StaysServed DEF SubmitDigest
  <2>3. CASE mem.proofs[d] = NoTx
    <3>1. PICK ok \in SaveOutcomes : Save(Enqueued(mem, d), ok)
      BY <1>3, <2>3 DEF SubmitDigest
    <3>2. Proved(Enqueued(mem, d)) = Proved(mem)
      BY <1>0, SectionsKeepProofs
    <3>3. CASE wk.pc # "loaded"
      BY <2>1, <3>1, <3>2, <3>3, SaveServes
    <3>4. CASE wk.pc = "loaded"
      <4>1. Proved(mem)' = Proved(mem) /\ Proved(disk)' = Proved(mem) /\ Proved(mem) = Proved(disk)
        BY <2>1, <3>1, <3>2, <3>4 DEF Save, SaveOutcomes, ServedInv, Proved
      <4>2. Proved(wk.snap)' = Proved(wk.snap)
        BY <2>1 DEF Proved
      <4>3. QED
        BY <2>1, <4>1, <4>2 DEF ServedInv, Serves
    <3>5. QED
      BY <3>3, <3>4
  <2>4. QED
    BY <2>2, <2>3
<1>4. CASE WorkerLoad
  <2>1. wk'.snap = disk /\ mem' = mem /\ disk' = disk
    BY <1>0, <1>4 DEF WorkerLoad, Workers
  <2>2. QED
    BY <2>1 DEF ServedInv, Serves, Proved
<1>5. CASE WorkerInstall
  <2>1. mem' = wk.snap /\ disk' = disk /\ wk.pc = "loaded"
    BY <1>5 DEF WorkerInstall
  <2>2. wk'.pc # "loaded"
    BY <1>5, IdleTyped DEF WorkerInstall, Workers
  <2>3. QED
    BY <2>1, <2>2 DEF ServedInv, Serves, Proved
<1>6. CASE FinalizeAnchor
  <2>1. wk.pend # NoAnchor /\ wk'.pc # "loaded"
    BY <1>2, <1>6 DEF FinalizeAnchor, WorkerInv, Polling
  <2>2. Proved(mem) \subseteq Proved(Finalized(mem, wk.pend))
    BY <1>0, <2>1, SectionsKeepProofs
  <2>3. QED
    BY <1>6, <2>1, <2>2, SaveServes, StaysServed DEF FinalizeAnchor
<1>7. CASE RestorePendingBatch
  <2>1. Proved(mem) \subseteq Proved(Requeued(mem, wk.pend))
    BY <1>0, SectionsKeepProofs
  <2>2. wk'.pc # "loaded"
    BY <1>1, <1>2, <1>7 DEF RestorePendingBatch, Pcs
  <2>3. QED
    BY <1>7, <2>1, <2>2, SaveServes DEF RestorePendingBatch
<1>8. CASE Preflight
  <2>1. Proved(mem) \subseteq Proved(Skipped(mem))
    BY <1>0, SectionsKeepProofs
  <2>2. wk'.pc # "loaded"
    BY <1>1, <1>2, <1>8 DEF Preflight, Pcs
  <2>3. QED
    BY <1>8, <2>1, <2>2, SaveServes, StaysServed DEF Preflight
<1>9. CASE DrainBatch
  <2>1. CASE mem.pending # NoAnchor \/ mem.queue = {}
    BY <1>2, <1>9, <2>1, StaysServed DEF DrainBatch
  <2>2. CASE ~ (mem.pending # NoAnchor \/ mem.queue = {})
    <3>1. PICK priority \in PriorityLists :
            \E b \in Batches(mem.queue, priority), ok \in SaveOutcomes :
              /\ Save(Drained(mem, b), ok)
              /\ IF ok THEN wk' = [Idle EXCEPT !.pc = "broadcast",
                                               !.batch = b,
                                               !.ltp = LtpDigests(b, priority)]
                 ELSE EndTick
      BY <1>9, <2>2 DEF DrainBatch
    <3>2. PICK b \in Batches(mem.queue, priority), ok \in SaveOutcomes :
            /\ Save(Drained(mem, b), ok)
            /\ IF ok THEN wk' = [Idle EXCEPT !.pc = "broadcast",
                                             !.batch = b,
                                             !.ltp = LtpDigests(b, priority)]
               ELSE EndTick
      BY <3>1
    <3>3. Proved(mem) \subseteq Proved(Drained(mem, b))
      BY <1>0, SectionsKeepProofs
    <3>4. wk'.pc # "loaded"
      BY <1>2, <3>2, IdleTyped DEF Workers
    <3>5. QED
      BY <3>2, <3>3, <3>4, SaveServes
  <2>3. QED
    BY <2>1, <2>2
<1>10. CASE RestoreDrainedBatch
  <2>1. Proved(mem) \subseteq Proved(Undrained(mem, wk.batch))
    BY <1>0, SectionsKeepProofs
  <2>2. QED
    BY <1>2, <1>10, <2>1, SaveServes DEF RestoreDrainedBatch
<1>11. CASE RecordAnchor
  <2>1. Proved(mem) \subseteq Proved(Recorded(mem, wk.tx, wk.batch))
    BY <1>0, SectionsKeepProofs
  <2>2. QED
    BY <1>2, <1>11, <2>1, SaveServes DEF RecordAnchor
<1>12. CASE CrashRestart
  <2>1. mem' = disk /\ disk' = disk /\ wk'.pc # "loaded"
    BY <1>12, IdleTyped DEF CrashRestart
  <2>2. QED
    BY <2>1 DEF ServedInv, Serves, Proved
<1>13. CASE FindConfirmedTx \/ AwaitAnchor \/ Broadcast \/ ClearLtpDigests
  <2>1. mem' = mem /\ disk' = disk
    BY <1>13 DEF FindConfirmedTx, AwaitAnchor, Broadcast, ClearLtpDigests
  <2>2. wk'.pc # "loaded"
    <3>1. ASSUME NEW t \in Txs, wk' = [wk EXCEPT !.pc = "ltp", !.tx = t]
          PROVE  wk'.pc # "loaded"
      BY <1>0, <3>1 DEF Workers
    <3>2. QED
      BY <1>1, <1>2, <1>13, <3>1 DEF FindConfirmedTx, AwaitAnchor, Broadcast, ClearLtpDigests, Pcs
  <2>3. QED
    BY <2>1, <2>2, StaysServed
<1>14. CASE \/ IntervalElapses \/ TimeoutElapses \/ UNCHANGED vars
            \/ \E d \in Digests : LtpEnqueue(d)
            \/ \E t \in Txs : Confirm(t) \/ Drop(t)
  <2>1. UNCHANGED <<mem, disk>> /\ wk' = wk
    BY <1>14 DEF IntervalElapses, TimeoutElapses, vars, LtpEnqueue, Confirm, Drop
  <2>2. QED
    BY <2>1, StaysServed
<1>15. QED
  BY <1>3, <1>4, <1>5, <1>6, <1>7, <1>8, <1>9, <1>10, <1>11, <1>12, <1>13, <1>14
     DEF Next, WorkerStep

\* A Bitcoin proof that was saved is served forever: neither a reload, nor a
\* failed save, nor a restart takes it back (reload_inner_from_disk,
\* finalize_anchor).  A submission that lands in a reload does, after a failed
\* save only.
THEOREM SavedProofsServed ==
  ASSUME QuietReload
  PROVE  Spec => SavedProofServed
<1> DEFINE Inv == TypeOK /\ WorkerInv /\ ServedInv
<1>1. Init => Inv
  BY InitTyped DEF Init, ServedInv, Idle
<1>2. Inv /\ [Next]_vars => Inv'
  BY NextTyped, NextServes DEF Serves
<1>3. Inv /\ [Next]_vars =>
        [\A d \in Digests :
           disk.proofs[d] # NoTx =>
             disk'.proofs[d] # NoTx /\ UpgradeAnswer(d)' = "confirmed"]_vars
  BY NextServes DEF Serves, ServedInv, Proved, UpgradeAnswer
<1>4. QED
  BY <1>1, <1>2, <1>3, PTL DEF Spec, SavedProofServed
=============================================================================
