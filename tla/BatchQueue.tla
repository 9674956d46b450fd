----------------------------- MODULE BatchQueue -----------------------------
(***************************************************************************)
(* What the calendar's digest queue promises, whatever order it keeps: a   *)
(* set of waiting digests, of which at most one batch is in flight.        *)
(***************************************************************************)
EXTENDS BatchRule

CONSTANT Digests

VARIABLES queue, batch

Init == queue = {} /\ batch = {}

Enqueue(d) == queue' = queue \cup {d} /\ UNCHANGED batch

\* A batch leaves the queue, with or without regard to a priority list.
Drain ==
  /\ batch = {}
  /\ queue # {}
  /\ \E priority \in SUBSET Digests : batch' \in Batches(queue, priority)
  /\ queue' = queue \ batch'

Anchored == batch # {} /\ batch' = {} /\ UNCHANGED queue

\* The whole batch is queued again.
Restore == batch # {} /\ batch' = {} /\ queue' = queue \cup batch

Next == (\E d \in Digests : Enqueue(d)) \/ Drain \/ Anchored \/ Restore

Spec == Init /\ [][Next]_<<queue, batch>>
=============================================================================
