----------------------------- MODULE BatchRule -----------------------------
(***************************************************************************)
(* What a drain of the calendar's digest queue may take, as a set: shared  *)
(* by Calendar, which keeps its queue as a set, and by BatchQueue, which   *)
(* DigestQueue implements with the code's sequences.                       *)
(***************************************************************************)
EXTENDS Naturals, FiniteSets

CONSTANT BatchMax  \* AnchorConfig::batch_max

ASSUME BatchMaxAssumption == BatchMax \in Nat \ {0}

\* drain_batch, or drain_batch_prioritized when there is a priority list: as
\* much of the queue as fits, and nothing else before a queued digest that
\* has priority.
BatchesOrNone(queue, priority) == {b \in SUBSET queue : Cardinality(b) <= BatchMax}
Batches(queue, priority) ==
  { b \in SUBSET queue :
      /\ Cardinality(b) <= BatchMax
      /\ b # queue => Cardinality(b) = BatchMax
      /\ b \cap priority # queue \cap priority => b \subseteq priority }
=============================================================================
