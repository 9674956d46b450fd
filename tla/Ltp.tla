-------------------------------- MODULE Ltp ---------------------------------
(***************************************************************************)
(* crates/lord-ltp and lord-iroh, with `lord ltp` and `lord p2p`: the      *)
(* mempool file, which every command reads whole, changes and writes back, *)
(* the gossip node and its key file, and the files inbound frames are      *)
(* staged in.  Several processes share the directory of one chain.         *)
(*                                                                         *)
(* A frame is [version, chain_id, message_type, root, bound]: bound says   *)
(* that its payload passes the checks that need no state (the digest is    *)
(* that of the root; the reference binds root and purpose; a positive      *)
(* amount or sample rate).  A digest is the root it was taken from.  The   *)
(* gossip network delivers a frame any number of times, or never.          *)
(***************************************************************************)
EXTENDS Processes, Vectors, Integers, Sequences, SequencesExt, FiniteSets, TLC

CONSTANTS LtpJobs, LtpChain,     \* the chain whose directory this is
          PeerFrames,            \* what other nodes may gossip
          MaxDepth, Ttl,         \* the profile's limits, scaled down
          MaxReceived, MaxClock  \* bounds

VARIABLES mempool,    \* ltp/mempool.json: a file as below, None while there is none
          mempoolTmp, \* its temporary file
          irohKey,    \* ltp/iroh.key
          staging,    \* ltp/inbound_*.jsonl: records and line ends, in order
          locks,      \* which process holds the lock of which of these files
          contracted, \* the roots with a storage contract in market/
          sent,       \* frames published by our own processes
          peer,       \* what a process is doing
          clock, received,
          torn,       \* staging files a listener was killed in
          raced       \* two processes have saved the mempool at once

ltpVars == <<mempool, mempoolTmp, irohKey, staging, locks, contracted, sent, peer, clock, received, torn, raced>>

Queues == {"commitment", "storage", "market"}
Staged == {"BrecciaTail", "PaymentProof", "BaoChallenge"}
NL == <<>>   \* in a staging file, beside the records <<frame>>
MempoolKinds == {"enqueue", "drain", "prune", "remove"}
EmptySnapshot == [q \in Queues |-> <<>>]
Resting == [at |-> "idle"]

\* The commands of `lord ltp` and `lord p2p`, and what the calendar does to the
\* mempool file.
ASSUME LtpAssumption ==
  /\ MaxDepth \in Nat
  /\ \A j \in LtpJobs :
       /\ j.kind \in MempoolKinds \cup {"serve", "publish"}
       /\ j.kind \in {"enqueue", "drain", "remove"} => j.queue \in Queues

LtpInit ==
  /\ mempool = None /\ mempoolTmp = None /\ irohKey = None
  /\ staging = [t \in Staged |-> <<>>] /\ locks = [t \in Staged |-> None]
  /\ contracted \in SUBSET Roots
  /\ sent = {} /\ peer = [p \in Procs |-> Resting]
  /\ clock = 0 /\ received = 0 /\ torn = {} /\ raced = FALSE

Is(p, at) == peer[p].at = at
Move(p, at) == peer' = [peer EXCEPT ![p].at = at]
Rest(p) == peer' = [peer EXCEPT ![p] = Resting]

Tick == clock < MaxClock /\ clock' = clock + 1
        /\ UNCHANGED <<mempool, mempoolTmp, irohKey, staging, locks, contracted, sent, peer, received, torn, raced>>

\* chain_profile and breccia_tail_topic: both test networks have one id.
chain_id(chain) ==
  CASE chain = "mainnet" -> 0 [] chain = "signet" -> 1
    [] chain \in {"testnet3", "testnet4"} -> 2 [] chain = "regtest" -> 3

\* A command starts: LtpMempool::open reads the file, if there is one, and
\* fails when it is not one snapshot.  A gossip command opens the node.
LtpStart(p, j) ==
  /\ Is(p, "idle")
  /\ peer' = [peer EXCEPT ![p] =
       IF j.kind \in {"serve", "publish"} THEN [at |-> "open", job |-> j, frame |-> None]
       ELSE IF mempool # None /\ mempool.holds # "snapshot" THEN Resting
       ELSE [at |-> "mempool", job |-> j,
             snapshot |-> IF mempool = None THEN EmptySnapshot ELSE mempool.snapshot]]
  /\ UNCHANGED <<mempool, mempoolTmp, irohKey, staging, locks, contracted, sent, clock, received, torn, raced>>

-----------------------------------------------------------------------------
\* The mempool.  An operation maps a snapshot to the one to save, or to
\* itself when there is nothing to save; None is the error of a full queue.
MempoolEntry(j) == [digest |-> j.root, enqueued_at |-> clock, priority |-> j.priority]
HasDigest(entries, d) == \E k \in DOMAIN entries : entries[k].digest = d

enqueue(snapshot, j) ==
  LET entries == snapshot[j.queue] IN
  IF HasDigest(entries, j.root) THEN snapshot
  ELSE IF Len(entries) >= MaxDepth THEN None
  ELSE [snapshot EXCEPT ![j.queue] = Append(@, MempoolEntry(j))]

drain(snapshot, queue, max) ==
  LET s == snapshot[queue] IN [snapshot EXCEPT ![queue] = retain(s, {k \in DOMAIN s : k > max})]

prune_expired(snapshot) ==
  LET cutoff == IF clock > Ttl THEN clock - Ttl ELSE 0 IN
  [q \in Queues |-> LET s == snapshot[q] IN retain(s, {k \in DOMAIN s : s[k].enqueued_at >= cutoff})]

remove_start_digest(snapshot, queue, digest) ==
  LET s == snapshot[queue]
      found == {k \in DOMAIN s : s[k].digest = digest}
      first == CHOOSE k \in found : \A i \in found : k <= i
  IN  IF found = {} THEN snapshot ELSE [snapshot EXCEPT ![queue] = retain(s, DOMAIN s \ {first})]

\* What the calendar drains first: by priority, then by age.
commitment_start_digests(snapshot) ==
  LET before(a, b) == a.priority > b.priority \/ (a.priority = b.priority /\ a.enqueued_at <= b.enqueued_at)
      ordered == SortSeq(snapshot["commitment"], before)
  IN  [k \in DOMAIN ordered |-> ordered[k].digest]

MempoolOp(snapshot, j) ==
  CASE j.kind = "enqueue" -> enqueue(snapshot, j)
    [] j.kind = "drain" -> drain(snapshot, j.queue, j.max)
    [] j.kind = "prune" -> prune_expired(snapshot)
    [] j.kind = "remove" -> remove_start_digest(snapshot, j.queue, j.root)

ChangeMempool(p) ==
  LET changed == MempoolOp(peer[p].snapshot, peer[p].job) IN
  /\ Is(p, "mempool")
  /\ IF changed \in {peer[p].snapshot, None} THEN Rest(p)
     ELSE peer' = [peer EXCEPT ![p].snapshot = changed, ![p].at = "save"]
  /\ UNCHANGED <<mempool, mempoolTmp, irohKey, staging, locks, contracted, sent, clock, received, torn, raced>>

\* save: atomic_write, through a temporary file whose name all processes
\* share.  A file is [holds, snapshot, by, last]: what it holds, those who
\* have it open, and the one who truncated it last.
Truncated(f, p) ==
  [holds |-> "nothing", snapshot |-> EmptySnapshot, by |-> {p} \cup (IF f = None THEN {} ELSE f.by), last |-> p]
Written(f, p, holds, snapshot) ==
  IF f = None THEN None
  ELSE IF p \in f.by THEN [holds |-> holds, snapshot |-> snapshot, by |-> f.by \ {p}, last |-> f.last]
  ELSE f

Saving == {p \in Procs : Is(p, "writing") \/ Is(p, "rename")}

SaveOpen(p) ==
  /\ Is(p, "save")
  /\ mempoolTmp' = Truncated(mempoolTmp, p)
  /\ raced' = (raced \/ Saving # {})
  /\ Move(p, "writing")
  /\ UNCHANGED <<mempool, irohKey, staging, locks, contracted, sent, clock, received, torn>>

\* The write, wherever the file is by then.  What others wrote or truncated
\* since may be left behind it, or be missing before it.
SaveWrite(p) ==
  LET last(f) == f.last = p /\ f.holds = "nothing"
      snapshot == peer[p].snapshot
  IN  /\ Is(p, "writing")
      /\ \E holds \in {"snapshot", "garbage"} :
           /\ mempoolTmp' = Written(mempoolTmp, p, IF last(mempoolTmp) THEN "snapshot" ELSE holds, snapshot)
           /\ mempool' = Written(mempool, p, IF last(mempool) THEN "snapshot" ELSE holds, snapshot)
      /\ Move(p, "rename")
      /\ UNCHANGED <<irohKey, staging, locks, contracted, sent, clock, received, torn, raced>>

\* The rename moves what is there, and fails when another process has moved
\* it already.
SaveRename(p) ==
  /\ Is(p, "rename")
  /\ IF mempoolTmp = None THEN UNCHANGED mempool ELSE mempool' = mempoolTmp
  /\ mempoolTmp' = None
  /\ Rest(p)
  /\ UNCHANGED <<irohKey, staging, locks, contracted, sent, clock, received, torn, raced>>

-----------------------------------------------------------------------------
\* The gossip node.  load_or_create_secret_key: a process that finds no key
\* makes its own and writes it.
load_or_create_secret_key(p) ==
  /\ Is(p, "open")
  /\ Move(p, IF irohKey = None THEN "new key"
             ELSE IF peer[p].job.kind = "serve" THEN "subscribe" ELSE "broadcast")
  /\ UNCHANGED <<mempool, mempoolTmp, irohKey, staging, locks, contracted, sent, clock, received, torn, raced>>

write_secret_key(p) ==
  /\ Is(p, "new key")
  /\ irohKey' = p
  /\ Move(p, IF peer[p].job.kind = "serve" THEN "subscribe" ELSE "broadcast")
  /\ UNCHANGED <<mempool, mempoolTmp, staging, locks, contracted, sent, clock, received, torn, raced>>

Frame(type, root, bound) ==
  [version |-> 1, chain_id |-> chain_id(LtpChain), message_type |-> type, root |-> root, bound |-> bound]

\* Breccia tails are published as they are.
publish_breccia_tail(j) == sent' = sent \cup {Frame("BrecciaTail", j.root, j.bound)}

\* Challenges and proofs are validated and need a contract.
ensure_storage_contract_for_root(root) == root \in contracted
publish_bound(j) ==
  sent' = IF j.bound /\ ensure_storage_contract_for_root(j.root)
          THEN sent \cup {Frame(j.type, j.root, TRUE)} ELSE sent

Publish(p) ==
  LET j == peer[p].job IN
  /\ Is(p, "broadcast")
  /\ IF j.type = "BrecciaTail" THEN publish_breccia_tail(j) ELSE publish_bound(j)
  /\ Rest(p)
  /\ UNCHANGED <<mempool, mempoolTmp, irohKey, staging, locks, contracted, clock, received, torn, raced>>

\* subscribe_tails: one loop takes the frames one after the other.
subscribe_tails(p) ==
  /\ Is(p, "subscribe")
  /\ Move(p, "listening")
  /\ UNCHANGED <<mempool, mempoolTmp, irohKey, staging, locks, contracted, sent, clock, received, torn, raced>>

\* handle_inbound_message, up to the append: version, chain, kind, payload
\* and contract.
accepts(frame) ==
  /\ frame.version = 1
  /\ frame.chain_id = chain_id(LtpChain)
  /\ frame.message_type \in Staged
  /\ frame.bound
  /\ frame.message_type # "BrecciaTail" => ensure_storage_contract_for_root(frame.root)

handle_inbound_message(p, frame) ==
  /\ Is(p, "listening") /\ received < MaxReceived
  /\ received' = received + 1
  /\ IF accepts(frame) THEN peer' = [peer EXCEPT ![p].frame = frame, ![p].at = "lock"] ELSE UNCHANGED peer
  /\ UNCHANGED <<mempool, mempoolTmp, irohKey, staging, locks, contracted, sent, clock, torn, raced>>

\* append_inbound_*: under an exclusive lock, writeln! writes the record and
\* then the line end.
StagingFile(p) == peer[p].frame.message_type

\* Mutant: no lock is taken.
append_unlocked(p) ==
  /\ Is(p, "lock")
  /\ Move(p, "record")
  /\ UNCHANGED <<mempool, mempoolTmp, irohKey, staging, locks, contracted, sent, clock, received, torn, raced>>

lock_exclusive(p) ==
  /\ Is(p, "lock") /\ locks[StagingFile(p)] = None
  /\ locks' = [locks EXCEPT ![StagingFile(p)] = p]
  /\ Move(p, "record")
  /\ UNCHANGED <<mempool, mempoolTmp, irohKey, staging, contracted, sent, clock, received, torn, raced>>

append_record(p) ==
  /\ Is(p, "record")
  /\ staging' = [staging EXCEPT ![StagingFile(p)] = Append(@, <<peer[p].frame>>)]
  /\ Move(p, "line end")
  /\ UNCHANGED <<mempool, mempoolTmp, irohKey, locks, contracted, sent, clock, received, torn, raced>>

append_line_end(p) ==
  /\ Is(p, "line end")
  /\ staging' = [staging EXCEPT ![StagingFile(p)] = Append(@, NL)]
  /\ locks' = [locks EXCEPT ![StagingFile(p)] = IF @ = p THEN None ELSE @]
  /\ peer' = [peer EXCEPT ![p].frame = None, ![p].at = "listening"]
  /\ UNCHANGED <<mempool, mempoolTmp, irohKey, contracted, sent, clock, received, torn, raced>>

\* Ctrl-C ends the listener between two frames; a kill ends any command, and
\* the operating system drops its locks.
LtpStop(p) ==
  /\ ~Is(p, "idle")
  /\ Rest(p)
  /\ locks' = [t \in Staged |-> IF locks[t] = p THEN None ELSE locks[t]]
  /\ torn' = IF Is(p, "line end") THEN torn \cup {StagingFile(p)} ELSE torn
  /\ \E part \in BOOLEAN :
       /\ mempoolTmp' = Written(mempoolTmp, p, IF part THEN "garbage" ELSE mempoolTmp.holds, mempoolTmp.snapshot)
       /\ mempool' = Written(mempool, p, IF part THEN "garbage" ELSE mempool.holds, mempool.snapshot)
  /\ UNCHANGED <<irohKey, staging, contracted, sent, clock, received, raced>>

shutdown(p) == Is(p, "listening") /\ LtpStop(p)

LtpStep(p) ==
  \/ ChangeMempool(p) \/ SaveOpen(p) \/ SaveWrite(p) \/ SaveRename(p)
  \/ load_or_create_secret_key(p) \/ write_secret_key(p) \/ Publish(p)
  \/ subscribe_tails(p) \/ (\E f \in PeerFrames \cup sent : handle_inbound_message(p, f))
  \/ lock_exclusive(p) \/ append_record(p) \/ append_line_end(p) \/ shutdown(p)

-----------------------------------------------------------------------------
\* read_inbound_*: a line with anything but one record fails the whole file.
Readable(lines) == \A k \in 1 .. Len(lines) - 1 : lines[k] = NL \/ lines[k + 1] = NL
read_inbound(type) ==
  [ok |-> Readable(staging[type]),
   records |-> {staging[type][k][1] : k \in {k \in DOMAIN staging[type] : staging[type][k] # NL}}]

\* Listeners append to one file side by side: as long as none is killed
\* inside a line the file can be read, and holds only frames of this chain.
\* Processes that race for the mempool file may lose entries, and may leave
\* bytes that are no snapshot; without a race it is one, and no snapshot they
\* leave holds a digest twice in a queue, or more than max_depth.
LtpFilesSound ==
  /\ \A t \in Staged \ torn :
       /\ read_inbound(t).ok
       /\ \A frame \in read_inbound(t).records : frame.chain_id = chain_id(LtpChain)
  /\ mempool # None =>
       /\ mempool.holds = "snapshot" \/ raced
       /\ \A q \in Queues :
            LET entries == mempool.snapshot[q] IN
            /\ Len(entries) <= MaxDepth
            /\ \A i, k \in DOMAIN entries : entries[i].digest = entries[k].digest => i = k
=============================================================================
