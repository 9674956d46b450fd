------------------------------ MODULE Calendar ------------------------------
(***************************************************************************)
(* The embedded OpenTimestamps calendar, crates/lord-calendar.             *)
(*                                                                         *)
(* HTTP handlers (submit_digest) and one anchor worker (anchor_once, run   *)
(* in a loop) share CalendarInner behind a read/write lock and persist it  *)
(* as one file, state.json.  The worker releases the lock around every     *)
(* disk read and every bitcoind call, so a tick is a sequence of steps     *)
(* with submissions, confirmations, timeouts and crashes in between; each  *)
(* critical section is one action.                                         *)
(*                                                                         *)
(* The order of digests inside a queue or a batch is abstracted here (see  *)
(* DigestQueue for it): a queue and a batch are sets.                      *)
(***************************************************************************)
EXTENDS Naturals, FiniteSets, BatchRule

CONSTANTS
  Digests,      \* the 32-byte digests clients may submit
  LtpPriority,  \* AnchorConfig::ltp_priority
  MaxSubmits,   \* bound on client submissions
  MaxTx,        \* bound on anchor transactions ever broadcast
  Faults        \* which failures the environment may inject

FaultKinds ==
  { "crash",    \* the process is killed and restarted
    "save",     \* save_state returns an error
    "rpc",      \* a bitcoind call or the LTP mempool fails, or an answer
                \* is lost
    "timeout",  \* an anchor stays unconfirmed past pending_anchor_timeout
    "wallet",   \* fee cap, minimum balance or funding stops a tick
    "race" }    \* a submission lands between reading state.json and
                \* installing what was read

ASSUME CalendarAssumption ==
  /\ IsFiniteSet(Digests)
  /\ LtpPriority \in BOOLEAN
  /\ MaxSubmits \in Nat
  /\ MaxTx \in Nat
  /\ Faults \subseteq FaultKinds

Txs == 1 .. MaxTx
NoTx == 0

\* Option<PendingAnchor>: a transaction and the batch its OP_RETURN commits to.
NoAnchor == [tx |-> NoTx, batch |-> {}]
BatchSets == {b \in SUBSET Digests : b # {} /\ Cardinality(b) <= BatchMax}
Anchors == {NoAnchor} \cup [tx : Txs, batch : BatchSets]

\* DigestQueue and CalendarStore, the pair that state.json holds.  A merkle
\* root determines its batch, so `batches` is the set of its values.
CalendarState ==
  [queue      : SUBSET Digests,
   proofs     : [Digests -> Txs \cup {NoTx}],
   batches    : SUBSET BatchSets,
   pending    : Anchors,
   lastAnchor : Txs \cup {NoTx},
   skipped    : BOOLEAN]

EmptyState ==
  [queue |-> {}, proofs |-> [d \in Digests |-> NoTx], batches |-> {},
   pending |-> NoAnchor, lastAnchor |-> NoTx, skipped |-> FALSE]

VARIABLES
  mem,      \* CalendarInner: the queue and store in memory
  disk,     \* state.json
  wk,       \* the anchor worker: where it is in a tick, and its locals
  txs,      \* bitcoind: what each anchor transaction commits to, its status
  ltp,      \* digests in the commitment queue of ltp/mempool.json
  cool,     \* min_tx_interval has passed since last_tx
  aged,     \* pending_anchor_timeout has passed since broadcast_at
  acked,    \* digests some client got a proof for (history)
  submits   \* submissions so far (bound)

vars == <<mem, disk, wk, txs, ltp, cool, aged, acked, submits>>

Pcs == {"sleep", "loaded", "poll", "confirmed", "unconfirmed", "preflight",
        "drain", "broadcast", "undo", "ltp", "record"}

Statuses == {"none", "mempool", "confirmed", "dropped"}

Workers ==
  [pc : Pcs, snap : CalendarState, pend : Anchors,
   batch : BatchSets \cup {{}}, ltp : SUBSET Digests, tx : Txs \cup {NoTx}]

Idle == [pc |-> "sleep", snap |-> EmptyState, pend |-> NoAnchor,
         batch |-> {}, ltp |-> {}, tx |-> NoTx]

Init ==
  /\ mem = EmptyState
  /\ disk = EmptyState
  /\ wk = Idle
  /\ txs = [t \in Txs |-> [batch |-> {}, status |-> "none"]]
  /\ ltp = {}
  /\ cool = TRUE
  /\ aged = FALSE
  /\ acked = {}
  /\ submits = 0

-----------------------------------------------------------------------------
\* What each critical section makes of a calendar state c.

\* DigestQueue::enqueue ignores a digest that is already queued.
Enqueued(c, d) == [c EXCEPT !.queue = @ \cup {d}]

\* finalize_anchor: a proof for every leaf of the anchored batch.
FinalizedForgets(c, a) ==
  [c EXCEPT !.proofs = [d \in Digests |-> IF d \in a.batch THEN a.tx ELSE NoTx],
            !.lastAnchor = a.tx,
            !.skipped = FALSE,
            !.pending = NoAnchor]
Finalized(c, a) ==
  [c EXCEPT !.proofs = [d \in Digests |-> IF d \in a.batch THEN a.tx
                                          ELSE c.proofs[d]],
            !.lastAnchor = a.tx,
            !.skipped = FALSE,
            !.pending = NoAnchor]

\* restore_pending_batch: the batch of a timed out anchor is queued again.
RequeuedNothing(c, a) == [c EXCEPT !.pending = NoAnchor]
Requeued(c, a) == [c EXCEPT !.queue = @ \cup a.batch, !.pending = NoAnchor]

\* The drain step: a batch moves from the queue into `batches`.
Drained(c, b) == [c EXCEPT !.queue = @ \ b, !.batches = @ \cup {b}]

\* restore_drained_batch
Undrained(c, b) == [c EXCEPT !.queue = @ \cup b, !.batches = @ \ {b}]

\* The last section of a tick: pending_anchor = Some(..), batches.remove.
Recorded(c, t, b) ==
  [c EXCEPT !.pending = [tx |-> t, batch |-> b], !.batches = @ \ {b}]

\* record_anchor_skipped
Skipped(c) == [c EXCEPT !.skipped = TRUE]

-----------------------------------------------------------------------------
\* save_state: the whole of memory replaces state.json, or nothing does.

SaveOutcomes == IF "save" \in Faults THEN BOOLEAN ELSE {TRUE}

Save(m, ok) ==
  /\ mem' = m
  /\ disk' = IF ok THEN m ELSE disk

\* Worker control: go on to another step of the tick, or end the tick.
Goto(pc) == wk' = [wk EXCEPT !.pc = pc]
EndTick == wk' = Idle

-----------------------------------------------------------------------------
\* CalendarService::submit_digest, one critical section.

SubmitDigest(d) ==
  /\ submits < MaxSubmits
  /\ wk.pc = "loaded" => "race" \in Faults
  /\ submits' = submits + 1
  /\ \/ /\ mem.proofs[d] # NoTx
        /\ acked' = acked \cup {d}
        /\ UNCHANGED <<mem, disk>>
     \/ /\ mem.proofs[d] = NoTx
        /\ \E ok \in SaveOutcomes :
             /\ Save(Enqueued(mem, d), ok)
             /\ acked' = IF ok THEN acked \cup {d} ELSE acked
  /\ UNCHANGED <<wk, txs, ltp, cool, aged>>

\* CalendarService::upgrade_digest: what a client is told about d.
UpgradeAnswer(d) ==
  IF mem.proofs[d] # NoTx THEN "confirmed"
  ELSE IF \E b \in mem.batches : d \in b THEN "batched"
  ELSE IF d \in mem.queue THEN "pending"
  ELSE "notfound"

-----------------------------------------------------------------------------
\* reload_inner_from_disk: state.json is read without the lock ...

WorkerLoad ==
  /\ wk.pc = "sleep"
  /\ wk' = [wk EXCEPT !.pc = "loaded", !.snap = disk]
  /\ UNCHANGED <<mem, disk, txs, ltp, cool, aged, acked, submits>>

\* ... and replaces memory under the lock; then pending_anchor is cloned.
WorkerInstall ==
  /\ wk.pc = "loaded"
  /\ mem' = wk.snap
  /\ wk' = [Idle EXCEPT !.pc = IF wk.snap.pending = NoAnchor THEN "preflight"
                               ELSE "poll",
                        !.pend = wk.snap.pending]
  /\ UNCHANGED <<disk, txs, ltp, cool, aged, acked, submits>>

\* At least one confirmation.
HasBlockOrSeen(t) == txs[t].status \in {"mempool", "confirmed"}
HasBlock(t) == txs[t].status = "confirmed"

\* find_confirmed_tx.  A failed gettransaction reads as "not confirmed"; a
\* failed getblockhash or getblock aborts the tick.
FindConfirmedTx ==
  /\ wk.pc = "poll"
  /\ \/ HasBlock(wk.pend.tx) /\ Goto("confirmed")
     \/ ~HasBlock(wk.pend.tx) /\ Goto("unconfirmed")
     \/ "rpc" \in Faults /\ (Goto("unconfirmed") \/ EndTick)
  /\ UNCHANGED <<mem, disk, txs, ltp, cool, aged, acked, submits>>

\* bitcoin_confirmed_proof_bytes succeeds on every leaf of the batch.  The
\* merkle path is replayed from the root down, which reaches the batch root
\* only when the path has at most one step (see Merkle).
ProofBuilds(batch) == Cardinality(batch) <= 2

\* finalize_anchor
FinalizeAnchor ==
  /\ wk.pc = "confirmed"
  /\ \/ /\ ~ProofBuilds(wk.pend.batch)
        /\ UNCHANGED <<mem, disk>>
     \/ /\ ProofBuilds(wk.pend.batch)
        /\ \E ok \in SaveOutcomes : Save(Finalized(mem, wk.pend), ok)
  /\ EndTick
  /\ UNCHANGED <<txs, ltp, cool, aged, acked, submits>>

\* The anchor is unconfirmed: wait for it, or, past the timeout,
\* restore_pending_batch and fall through to a new anchor.
AwaitAnchor ==
  /\ wk.pc = "unconfirmed"
  /\ ~aged
  /\ EndTick
  /\ UNCHANGED <<mem, disk, txs, ltp, cool, aged, acked, submits>>

RestorePendingBatch ==
  /\ wk.pc = "unconfirmed"
  /\ aged
  /\ \E ok \in SaveOutcomes :
       /\ Save(Requeued(mem, wk.pend), ok)
       /\ IF ok THEN Goto("preflight") ELSE EndTick
  /\ UNCHANGED <<txs, ltp, cool, aged, acked, submits>>

\* Bound: a tick that would exceed MaxTx transactions ends early.
TxBudget == \E t \in Txs : txs[t].status = "none"

\* min_tx_interval, fee estimate, fee cap, minimum balance, funding.
Preflight ==
  /\ wk.pc = "preflight"
  /\ \/ /\ ~cool \/ ~TxBudget
        /\ EndTick
        /\ UNCHANGED <<mem, disk>>
     \/ cool /\ TxBudget /\ Goto("drain") /\ UNCHANGED <<mem, disk>>
     \/ cool /\ "rpc" \in Faults /\ EndTick /\ UNCHANGED <<mem, disk>>
     \/ /\ cool
        /\ "wallet" \in Faults
        /\ EndTick
        /\ \/ UNCHANGED <<mem, disk>>       \* ensure_wallet_funded bails
           \/ \E ok \in SaveOutcomes :      \* record_anchor_skipped
                Save(Skipped(mem), ok)
  /\ UNCHANGED <<txs, ltp, cool, aged, acked, submits>>

\* What LtpMempool::open lets the drain prefer: the commitment queue, or
\* nothing when the priority is off or the mempool file is unavailable.
PriorityLists ==
  (IF LtpPriority THEN {ltp} ELSE {{}})
    \cup (IF "rpc" \in Faults THEN {{}} ELSE {})

\* The digests of the batch that came from the LTP commitment queue.
LtpDigests(b, priority) == b \cap priority

\* The drain step (drain_batch, or drain_batch_prioritized: Batches), skipped
\* while an anchor is pending or nothing is queued.
DrainBatch ==
  /\ wk.pc = "drain"
  /\ \/ /\ mem.pending # NoAnchor \/ mem.queue = {}
        /\ EndTick
        /\ UNCHANGED <<mem, disk>>
     \/ /\ mem.pending = NoAnchor
        /\ mem.queue # {}
        /\ \E priority \in PriorityLists :
           \E b \in Batches(mem.queue, priority), ok \in SaveOutcomes :
             /\ Save(Drained(mem, b), ok)
             /\ IF ok THEN wk' = [Idle EXCEPT !.pc = "broadcast",
                                              !.batch = b,
                                              !.ltp = LtpDigests(b, priority)]
                ELSE EndTick
  /\ UNCHANGED <<txs, ltp, cool, aged, acked, submits>>

\* Build, sign and send the anchor transaction.  sendrawtransaction may
\* fail after bitcoind accepted the transaction.
Accept(t) == txs' = [txs EXCEPT ![t] = [batch |-> wk.batch,
                                       status |-> "mempool"]]

FreshTx(t) ==
  /\ txs[t].status = "none"
  /\ \A u \in Txs : u < t => txs[u].status # "none"

Broadcast ==
  /\ wk.pc = "broadcast"
  /\ \/ \E t \in Txs :
          /\ FreshTx(t)
          /\ Accept(t)
          /\ \/ wk' = [wk EXCEPT !.pc = "ltp", !.tx = t]
             \/ "rpc" \in Faults /\ Goto("undo")
     \/ "rpc" \in Faults /\ Goto("undo") /\ UNCHANGED txs
  /\ UNCHANGED <<mem, disk, ltp, cool, aged, acked, submits>>

\* restore_drained_batch
RestoreDrainedBatch ==
  /\ wk.pc = "undo"
  /\ \E ok \in SaveOutcomes : Save(Undrained(mem, wk.batch), ok)
  /\ EndTick
  /\ UNCHANGED <<txs, ltp, cool, aged, acked, submits>>

\* remove_start_digest for every LTP digest of the batch, errors ignored;
\* last_tx = now.
ClearLtpDigests ==
  /\ wk.pc = "ltp"
  /\ \/ ltp' = ltp \ wk.ltp
     \/ "rpc" \in Faults /\ \E removed \in SUBSET wk.ltp : ltp' = ltp \ removed
  /\ cool' = FALSE
  /\ Goto("record")
  /\ UNCHANGED <<mem, disk, txs, aged, acked, submits>>

\* pending_anchor = Some(..), batches.remove(root), save.
RecordAnchor ==
  /\ wk.pc = "record"
  /\ \E ok \in SaveOutcomes : Save(Recorded(mem, wk.tx, wk.batch), ok)
  /\ aged' = FALSE
  /\ EndTick
  /\ UNCHANGED <<txs, ltp, cool, acked, submits>>

-----------------------------------------------------------------------------
\* The environment.

\* A block includes the transaction, or it is evicted or conflicted away.
Confirm(t) ==
  /\ txs[t].status = "mempool"
  /\ txs' = [txs EXCEPT ![t].status = "confirmed"]
  /\ UNCHANGED <<mem, disk, wk, ltp, cool, aged, acked, submits>>

Drop(t) ==
  /\ "timeout" \in Faults
  /\ txs[t].status = "mempool"
  /\ txs' = [txs EXCEPT ![t].status = "dropped"]
  /\ UNCHANGED <<mem, disk, wk, ltp, cool, aged, acked, submits>>

IntervalElapses ==
  /\ ~cool
  /\ cool' = TRUE
  /\ UNCHANGED <<mem, disk, wk, txs, ltp, aged, acked, submits>>

TimeoutElapses ==
  /\ "timeout" \in Faults
  /\ ~aged
  /\ mem.pending # NoAnchor
  /\ aged' = TRUE
  /\ UNCHANGED <<mem, disk, wk, txs, ltp, cool, acked, submits>>

\* Another process queues a commitment for gossip (LtpMempool::enqueue).
LtpEnqueue(d) ==
  /\ LtpPriority
  /\ d \notin ltp
  /\ ltp' = ltp \cup {d}
  /\ UNCHANGED <<mem, disk, wk, txs, cool, aged, acked, submits>>

\* The process dies at any point; open_chain_scoped reloads state.json and
\* a new worker starts with last_tx = UNIX_EPOCH.
CrashRestart ==
  /\ "crash" \in Faults
  /\ mem' = disk
  /\ wk' = Idle
  /\ cool' = TRUE
  /\ UNCHANGED <<disk, txs, ltp, aged, acked, submits>>

-----------------------------------------------------------------------------
\* One anchor_once tick is a path through these steps.
WorkerStep ==
  \/ WorkerLoad \/ WorkerInstall
  \/ FindConfirmedTx \/ FinalizeAnchor \/ AwaitAnchor \/ RestorePendingBatch
  \/ Preflight \/ DrainBatch \/ Broadcast \/ RestoreDrainedBatch
  \/ ClearLtpDigests \/ RecordAnchor

Next ==
  \/ \E d \in Digests : SubmitDigest(d) \/ LtpEnqueue(d)
  \/ WorkerStep
  \/ \E t \in Txs : Confirm(t) \/ Drop(t)
  \/ IntervalElapses \/ TimeoutElapses \/ CrashRestart

Spec == Init /\ [][Next]_vars

\* The tokio task keeps polling, blocks keep coming, time passes.
Fairness ==
  /\ WF_vars(WorkerStep)
  /\ WF_vars(IntervalElapses)
  /\ \A t \in Txs : WF_vars(Confirm(t))

FairSpec == Spec /\ Fairness

-----------------------------------------------------------------------------
\* Properties.

\* Every variable keeps its type.
TypeOK ==
  /\ mem \in CalendarState
  /\ disk \in CalendarState
  /\ wk \in Workers
  /\ txs \in [Txs -> [batch : SUBSET Digests, status : Statuses]]
  /\ ltp \subseteq Digests
  /\ cool \in BOOLEAN
  /\ aged \in BOOLEAN
  /\ acked \subseteq Digests
  /\ submits \in 0 .. MaxSubmits

\* The digests that a calendar state still accounts for.
Tracked(c) ==
  {d \in Digests : \/ d \in c.queue
                   \/ c.proofs[d] # NoTx
                   \/ \E b \in c.batches : d \in b
                   \/ d \in c.pending.batch}

\* A digest for which submit_digest returned a proof is never forgotten:
\* state.json still has it queued, batched, in flight or proved, across
\* failed saves, failed and lost RPCs, timeouts and crashes.
AckedDigestsTracked == acked \subseteq Tracked(disk)

\* A stored proof names a confirmed transaction that commits to the digest:
\* finalize_anchor never attests through a batch the digest was not in.
ProofsAnchored ==
  \A d \in Digests :
    mem.proofs[d] # NoTx =>
      /\ txs[mem.proofs[d]].status = "confirmed"
      /\ d \in txs[mem.proofs[d]].batch

\* Once a Bitcoin proof for d has been saved, upgrade_digest serves one forever,
\* although the worker replaces memory by what it read from disk earlier and
\* failed saves leave the two apart.  (A proof that only reached memory is
\* taken back by the next reload.)
SavedProofServed ==
  [][\A d \in Digests :
       disk.proofs[d] # NoTx =>
         disk'.proofs[d] # NoTx /\ UpgradeAnswer(d)' = "confirmed"]_vars

\* Every acknowledged digest is eventually served with a Bitcoin proof.
AckedEventuallyAnchored ==
  \A d \in Digests : d \in acked ~> UpgradeAnswer(d) = "confirmed"
=============================================================================
