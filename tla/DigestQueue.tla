---------------------------- MODULE DigestQueue ----------------------------
(***************************************************************************)
(* The order of the calendar's digest queue: crates/lord-calendar/queue.rs *)
(* with the priority list of crates/lord-ltp/mempool.rs and the two        *)
(* restore loops of anchor.rs.  Calendar keeps the same queue as a set.    *)
(***************************************************************************)
EXTENDS BatchRule, Vectors, Sequences, SequencesExt

CONSTANTS
  Digests,     \* digests clients may submit
  Priorities,  \* LtpMempoolEntry::priority
  MaxDepth,    \* chain_profile(..).max_depth of the LTP mempool
  MaxSubmits   \* bound on submissions

ASSUME DigestQueueAssumption ==
  /\ IsFiniteSet(Digests)
  /\ Priorities \subseteq Nat
  /\ MaxDepth \in Nat
  /\ MaxSubmits \in Nat

VARIABLES
  pending,  \* DigestQueue::pending
  batch,    \* the batch a tick or a pending anchor holds
  ltp,      \* the commitment queue of ltp/mempool.json, in enqueued_at order
  submits   \* submissions so far (bound)

queueVars == <<pending, batch, ltp, submits>>

QueueInit == pending = <<>> /\ batch = <<>> /\ ltp = <<>> /\ submits = 0

-----------------------------------------------------------------------------
\* DigestQueue::enqueue
enqueue(q, d) == IF d \in Range(q) THEN q ELSE Append(q, d)

\* DigestQueue::drain_batch: the batch and what is left.
drain_batch(q, max) ==
  LET n == IF Len(q) < max THEN Len(q) ELSE max
  IN  [batch |-> SubSeq(q, 1, n), left |-> SubSeq(q, n + 1, Len(q))]

\* drain_batch_prioritized: the first digests of the list that are queued,
\* in the list's order, then the rest of the batch from the front.
Queued(priority, q) == retain(priority, {k \in DOMAIN priority : priority[k] \in Range(q)})
NotTaken(q, first) == retain(q, {k \in DOMAIN q : q[k] \notin Range(first)})

drain_prioritized_overfull(q, priority, max) ==
  LET wanted == Queued(priority, q)
      rest == drain_batch(NotTaken(q, wanted), max)
  IN  [batch |-> wanted \o rest.batch, left |-> rest.left]
drain_batch_prioritized(q, priority, max) ==
  LET first == drain_batch(Queued(priority, q), max).batch
      rest == drain_batch(NotTaken(q, first), max - Len(first))
  IN  [batch |-> first \o rest.batch, left |-> rest.left]

\* LtpMempool::commitment_start_digests: higher priority first, older first
\* among equals.  The sort is stable.
GoesFirst(entries, i, j) ==
  entries[i].priority > entries[j].priority \/ (entries[i].priority = entries[j].priority /\ i < j)
commitment_start_digests(entries) ==
  LET order == sorted(DOMAIN entries, LAMBDA i, j: GoesFirst(entries, i, j))
  IN  [n \in DOMAIN entries |-> entries[order[n]].digest]

\* The loop of restore_pending_batch and of restore_drained_batch: enqueue for
\* every digest of the batch, none of which is in it twice, from the last on.
restored_in_front(q, b) == NotTaken(b, q) \o q
restored(q, b) == q \o NotTaken(Reverse(b), q)

-----------------------------------------------------------------------------
\* submit_digest on a digest without a proof
SubmitDigest(d) ==
  /\ submits < MaxSubmits
  /\ pending' = enqueue(pending, d)
  /\ submits' = submits + 1
  /\ UNCHANGED <<batch, ltp>>

\* LtpMempool::enqueue by another process
LtpEnqueue(d, p) ==
  /\ \A i \in DOMAIN ltp : ltp[i].digest # d
  /\ Len(ltp) < MaxDepth
  /\ ltp' = Append(ltp, [digest |-> d, priority |-> p])
  /\ UNCHANGED <<pending, batch, submits>>

\* The drain of a tick, with the priority list or, without the LTP mempool,
\* first in first out.
Drain(prioritized) ==
  LET drained == IF prioritized
                 THEN drain_batch_prioritized(pending,
                        commitment_start_digests(ltp), BatchMax)
                 ELSE drain_batch(pending, BatchMax)
  IN
  /\ batch = <<>>
  /\ pending # <<>>
  /\ batch' = drained.batch
  /\ pending' = drained.left
  /\ UNCHANGED <<ltp, submits>>

\* The batch is anchored; remove_start_digest for its LTP digests.
Anchored ==
  /\ batch # <<>>
  /\ batch' = <<>>
  /\ ltp' = retain(ltp, {k \in DOMAIN ltp : ltp[k].digest \notin Range(batch)})
  /\ UNCHANGED <<pending, submits>>

\* The broadcast fails, or the anchor times out unconfirmed.
Restore ==
  /\ batch # <<>>
  /\ pending' = restored(pending, batch)
  /\ batch' = <<>>
  /\ UNCHANGED <<ltp, submits>>

QueueNext ==
  \/ \E d \in Digests : SubmitDigest(d) \/ (\E p \in Priorities : LtpEnqueue(d, p))
  \/ \E prioritized \in BOOLEAN : Drain(prioritized)
  \/ Anchored
  \/ Restore

QueueSpec == QueueInit /\ [][QueueNext]_queueVars

\* The anchor worker keeps ticking, with or without LTP priority, and every
\* tick ends, one way or the other.
QueueFairSpec ==
  /\ QueueSpec
  /\ WF_queueVars(\E prioritized \in BOOLEAN : Drain(prioritized))
  /\ WF_queueVars(Anchored \/ Restore)

-----------------------------------------------------------------------------
\* Properties.

Abstract == INSTANCE BatchQueue WITH queue <- Range(pending), batch <- Range(batch)

\* The code's sequences implement the set queue of Calendar: a batch is as
\* full as it can be, prefers what has priority, and comes back whole.
ImplementsBatchQueue == Abstract!Spec

\* However often broadcasts fail, every queued digest gets into a batch, unless
\* the LTP queue puts others before it: restored digests go to the end of the
\* queue, behind those still waiting.
QueuedEventuallyTried ==
  \A d \in Digests :
    d \in Range(pending) ~> d \in Range(batch) \/ ltp # <<>>
=============================================================================
