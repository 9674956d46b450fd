------------------------------- MODULE Commit -------------------------------
(***************************************************************************)
(* Timestamping commitments, crates/lord-commit (ots.rs, breccia_log.rs)   *)
(* over crates/lord-storage (store.rs, encode.rs).                         *)
(*                                                                         *)
(* A command keeps one commitment in four stores: its metadata and its     *)
(* place in COMMITMENT_ORDER (LMDB, transactional), the detached proof     *)
(* file, and the append-only breccia log.  Nothing makes the four change   *)
(* together: a command is a sequence of writes, each of which may fail or  *)
(* be the last before a crash, and commands of different processes only    *)
(* exclude each other inside an LMDB transaction.                          *)
(*                                                                         *)
(* A proof is its order key and its Bitcoin height, 0 while it is pending. *)
(***************************************************************************)
EXTENDS Naturals, Sequences

CONSTANTS
  Procs,      \* concurrent `lord` commands
  Roots,      \* bao roots
  Keys,       \* OTS order keys
  Heights,    \* block heights of Bitcoin attestations
  KeysOf,     \* the order keys that proofs of each root may have
  MaxTime,    \* bound on the clock, in seconds
  MaxLog,     \* bound on breccia records
  Setups,     \* what is given, see SetupKinds
  NoRoot, NoKey

CommandKinds == {"timestamp", "force", "upgrade", "import", "reencode"}
FaultKinds ==
  { "crash",  \* a command is killed between two of its writes
    "io",     \* a write returns an error
    "torn" }  \* a killed or failed append to the breccia log is half done

\* The commands a user gives, the failures that happen, the files that get
\* encoded and until when: a choice that a behaviour makes once.
SetupKinds == [commands : SUBSET CommandKinds, faults : SUBSET FaultKinds, roots : SUBSET Roots, time : 1 .. MaxTime]

ASSUME CommitAssumption ==
  /\ NoRoot \notin Roots
  /\ NoKey \notin Keys
  /\ Heights \subseteq Nat \ {0}
  /\ KeysOf \in [Roots -> SUBSET Keys]
  /\ MaxTime \in Nat \ {0}
  /\ MaxLog \in Nat
  /\ Setups \subseteq SetupKinds

Pending == 0

Proofs == [key : Keys, height : Heights \cup {Pending}]
NoProof == [key |-> NoKey, height |-> Pending]

\* CommitmentMeta: is there a record, ots_proof_path, ots_order_key and
\* timestamped_at (0 for None).
Metas == [known : BOOLEAN, path : BOOLEAN, key : Keys \cup {NoKey},
          at : 0 .. MaxTime]
NoMeta == [known |-> FALSE, path |-> FALSE, key |-> NoKey, at |-> 0]
FreshMeta == [NoMeta EXCEPT !.known = TRUE]

is_timestamped(m) == m.path /\ m.key # NoKey

\* CommitmentEntry (v = 1) and CommitmentEntryV2 (v = 2); whether a peer's tail
\* or a proof of our own gave the record its height is history.
Records ==
  [v : {1}, root : Roots, key : Keys, at : 0 .. MaxTime, height : {Pending}, peer : {FALSE}] \cup
  [v : {2}, root : Roots, key : Keys, at : 0 .. MaxTime, height : Heights, peer : BOOLEAN]

\* What a line of inbound_tails.jsonl may name: a tail is staged when its digest
\* belongs to its root (validate_breccia_tail_payload, see Ltp), and nothing
\* else in it is checked.
Tails == [root : Roots, key : Keys, height : Heights \cup {Pending}]

VARIABLES
  meta,     \* COMMITMENT_META
  order,    \* COMMITMENT_ORDER
  ots,      \* ots/<root>.ots, the published proofs
  pending,  \* roots with a leftover ots/.<root>.ots.pending
  log,      \* the blobs of global.breccia
  torn,     \* "no", "tail": bytes of an unfinished length at the end,
            \* "bad": the log no longer parses
  ltp,      \* roots in the LTP commitment queue
  cal,      \* the calendar's best proof for each root
  clock,    \* system time
  cmd,      \* what each process is doing
  last,     \* the timestamp or upgrade that just returned Ok
  setup     \* what is given, never changes

lmdb == <<meta, order>>
vars == <<meta, order, ots, pending, log, torn, ltp, cal, clock, cmd, last, setup>>

Pcs == {"idle", "submit", "commit", "append", "publish", "rollback", "repair",
        "fetch", "rekey", "upgradeCommit", "upgradePublish", "upgradeRollback",
        "checkV2", "appendV2", "enqueue", "importTail"}

\* Locals of a command: the metadata it read when it started, the metadata
\* it writes, and the proof it got.
Locals == [pc : Pcs, root : Roots \cup {NoRoot}, old : Metas, new : Metas,
           proof : Proofs \cup {NoProof}]
NoResult == [op |-> "none", root |-> NoRoot]
Results == [op : {"timestamp", "upgrade"}, root : Roots] \cup {NoResult}
Idle == [pc |-> "idle", root |-> NoRoot, old |-> NoMeta, new |-> NoMeta,
         proof |-> NoProof]

Init ==
  /\ meta = [r \in Roots |-> NoMeta]
  /\ order = [k \in Keys |-> NoRoot]
  /\ ots = [r \in Roots |-> NoProof]
  /\ pending = {}
  /\ log = <<>>
  /\ torn = "no"
  /\ ltp = {}
  /\ cal = [r \in Roots |-> NoProof]
  /\ clock = 1
  /\ cmd = [p \in Procs |-> Idle]
  /\ last = NoResult
  /\ setup \in Setups

-----------------------------------------------------------------------------
\* Process control.

Step(p, pc) == cmd' = [cmd EXCEPT ![p].pc = pc] /\ last' = NoResult
ReturnOk(p, op) ==
  cmd' = [cmd EXCEPT ![p] = Idle] /\ last' = [op |-> op, root |-> cmd[p].root]
ReturnErr(p) == cmd' = [cmd EXCEPT ![p] = Idle] /\ last' = NoResult
Fails == "io" \in setup.faults

-----------------------------------------------------------------------------
\* LMDB transactions.

\* put_commitment_order refuses a key that another root has.
KeyFree(ord, k, r) == ord[k] \in {r, NoRoot}

Unkeyed(ord, k) == IF k = NoKey THEN ord ELSE [ord EXCEPT ![k] = NoRoot]

\* delete_commitment_order(previous key), put_commitment, put_commitment_order
\* in one transaction: what a command commits.
RekeyedStale(r, old, new) ==
  /\ meta' = [meta EXCEPT ![r] = new]
  /\ order' = [order EXCEPT ![new.key] = r]
Rekeyed(r, old, new) ==
  /\ meta' = [meta EXCEPT ![r] = new]
  /\ order' = [Unkeyed(order, old.key) EXCEPT ![new.key] = r]

RekeyConflicts(r, old, new) == ~KeyFree(Unkeyed(order, old.key), new.key, r)

RolledBackUnlisted(r, old, new) ==
  /\ meta' = [meta EXCEPT ![r] = old]
  /\ order' = Unkeyed(order, new.key)

\* rollback_timestamp_lmdb: put the previous metadata, delete the new key,
\* put the previous key; nothing at all when that key is taken.
RolledBack(r, old, new) ==
  LET ord == Unkeyed(order, new.key) IN
  IF old.key = NoKey
  THEN meta' = [meta EXCEPT ![r] = old] /\ order' = ord
  ELSE IF KeyFree(ord, old.key, r)
  THEN /\ meta' = [meta EXCEPT ![r] = old]
       /\ order' = [ord EXCEPT ![old.key] = r]
  ELSE UNCHANGED lmdb

-----------------------------------------------------------------------------
\* The breccia log.

LogReadable == torn # "bad"
Entry(v, r, key, at, h) ==
  [v |-> v, root |-> r, key |-> key, at |-> at, height |-> h, peer |-> FALSE]
HasRecord(r) == \E i \in DOMAIN log : log[i].root = r
HasV2OrV1(r) == HasRecord(r)
HasV2Last(r) == log # <<>> /\ log[Len(log)].root = r /\ log[Len(log)].v = 2
HasV2(r) == \E i \in DOMAIN log : log[i].root = r /\ log[i].v = 2

\* append_blob seeks to the end of the file, torn or not: a record after torn
\* bytes makes the log unreadable.
append_blob(e) ==
  /\ log' = Append(log, e)
  /\ torn' = IF torn = "no" THEN "no" ELSE "bad"

\* An append that stops half way leaves a short length field ("tail") or a
\* blob that is too short ("bad") behind.
TornBy == IF "torn" \notin setup.faults THEN {}
          ELSE IF torn = "no" THEN {"tail", "bad"} ELSE {"bad"}
append_fails ==
  /\ Fails
  /\ torn' \in {torn} \cup TornBy
  /\ UNCHANGED log

-----------------------------------------------------------------------------
\* encode_file_with_store: the record is written anew, whatever was there.

Encode(r) ==
  /\ r \in setup.roots
  /\ meta[r].known => "reencode" \in setup.commands
  /\ meta' = [meta EXCEPT ![r] = FreshMeta]
  /\ last' = NoResult
  /\ UNCHANGED <<order, ots, pending, log, torn, ltp, cal, clock, cmd>>

-----------------------------------------------------------------------------
\* timestamp_commitment

TimestampUnguarded(p, r, force) ==
  /\ cmd[p].pc = "idle"
  /\ "timestamp" \in setup.commands
  /\ meta[r].known
  /\ cmd' = [cmd EXCEPT ![p] = [Idle EXCEPT !.root = r, !.old = meta[r],
                                            !.new = meta[r], !.pc = "submit"]]
  /\ last' = NoResult
  /\ UNCHANGED <<meta, order, ots, pending, log, torn, ltp, cal, clock>>

\* Read the metadata; what next depends on it, on --force and on the log.
Timestamp(p, r, force) ==
  /\ cmd[p].pc = "idle"
  /\ (IF force THEN "force" ELSE "timestamp") \in setup.commands
  /\ meta[r].known
  /\ is_timestamped(meta[r]) /\ ~force => LogReadable /\ ~HasRecord(r)
  /\ cmd' = [cmd EXCEPT ![p] =
               [Idle EXCEPT !.root = r, !.old = meta[r], !.new = meta[r],
                            !.pc = IF is_timestamped(meta[r]) /\ ~force
                                   THEN "repair" ELSE "submit"]]
  /\ last' = NoResult
  /\ UNCHANGED <<meta, order, ots, pending, log, torn, ltp, cal, clock>>

\* repair_breccia_from_meta
RepairBreccia(p) ==
  LET c == cmd[p] IN
  /\ c.pc = "repair"
  /\ Len(log) < MaxLog
  /\ \/ append_blob(Entry(1, c.root, c.old.key, c.old.at, Pending))
        /\ ReturnOk(p, "timestamp")
     \/ append_fails /\ ReturnErr(p)
  /\ UNCHANGED <<meta, order, ots, pending, ltp, cal, clock>>

\* The calendar's answer to a submission, or the stub of a dry run, which
\* the calendar does not get to know.
SubmitAnswers(r) ==
  IF cal[r] = NoProof
  THEN {[key |-> k, height |-> Pending] : k \in KeysOf[r]}
  ELSE {cal[r]} \cup {[key |-> k, height |-> Pending] : k \in KeysOf[r]}

\* Get a proof and write it to the pending file.
Submit(p) ==
  LET c == cmd[p] IN
  /\ c.pc = "submit"
  /\ \/ \E proof \in SubmitAnswers(c.root) :
          /\ cal' \in {cal, [cal EXCEPT ![c.root] =
                               IF @ = NoProof THEN proof ELSE @]}
          /\ pending' = pending \cup {c.root}
          /\ cmd' = [cmd EXCEPT ![p] =
                       [c EXCEPT !.pc = "commit", !.proof = proof,
                                 !.new = [c.old EXCEPT !.path = TRUE,
                                                       !.key = proof.key,
                                                       !.at = clock]]]
          /\ last' = NoResult
     \/ Fails /\ ReturnErr(p) /\ UNCHANGED <<cal, pending>>
  /\ UNCHANGED <<meta, order, ots, log, torn, ltp, clock>>

CommitTimestamp(p) ==
  LET c == cmd[p] IN
  /\ c.pc = "commit"
  /\ \/ /\ ~RekeyConflicts(c.root, c.old, c.new)
        /\ Rekeyed(c.root, c.old, c.new)
        /\ Step(p, "append")
     \/ /\ RekeyConflicts(c.root, c.old, c.new) \/ Fails
        /\ Step(p, "rollback")
        /\ UNCHANGED lmdb
  /\ UNCHANGED <<ots, pending, log, torn, ltp, cal, clock>>

AppendEntry(p) ==
  LET c == cmd[p] IN
  /\ c.pc = "append"
  /\ Len(log) < MaxLog
  /\ \/ /\ append_blob(Entry(1, c.root, c.new.key, c.new.at, Pending))
        /\ Step(p, "publish")
     \/ append_fails /\ Step(p, "rollback")
  /\ UNCHANGED <<meta, order, ots, pending, ltp, cal, clock>>

Publish(p) ==
  LET c == cmd[p] IN
  /\ c.pc = "publish"
  /\ \/ /\ ots' = [ots EXCEPT ![c.root] = c.proof]
        /\ pending' = pending \ {c.root}
        /\ ReturnOk(p, "timestamp")
     \/ Fails /\ Step(p, "rollback") /\ UNCHANGED <<ots, pending>>
  /\ UNCHANGED <<meta, order, log, torn, ltp, cal, clock>>

\* After a failed commit, append or publish.
Rollback(p) ==
  LET c == cmd[p] IN
  /\ c.pc = "rollback"
  /\ pending' = pending \ {c.root}
  /\ \/ RolledBack(c.root, c.old, c.new)
     \/ Fails /\ UNCHANGED lmdb
  /\ ReturnErr(p)
  /\ UNCHANGED <<ots, log, torn, ltp, cal, clock>>

-----------------------------------------------------------------------------
\* upgrade_commitment

\* Read the metadata and the published proof; without either it fails.
Upgrade(p, r) ==
  /\ cmd[p].pc = "idle"
  /\ "upgrade" \in setup.commands
  /\ meta[r].known /\ meta[r].path /\ ots[r] # NoProof
  /\ cmd' = [cmd EXCEPT ![p] = [Idle EXCEPT !.pc = "fetch", !.root = r,
                                            !.old = meta[r], !.new = meta[r],
                                            !.proof = ots[r]]]
  /\ last' = NoResult
  /\ UNCHANGED <<meta, order, ots, pending, log, torn, ltp, cal, clock>>

\* What a calendar may answer: a proof it has, of any digest, as it is not
\* trusted; or nothing, for a digest it does not know or whose batch is in
\* flight, and when it cannot be reached (fetch_upgraded_proof).
NoAnswer == [root |-> NoRoot, proof |-> NoProof]
fetch_upgraded_proof ==
  {NoAnswer} \cup {[root |-> q, proof |-> cal[q]] : q \in {q \in Roots : cal[q] # NoProof}}

validate_proof_digest_binding(answer, r) == answer.root = r

\* Fetch the best proof: the same proof and key, the same proof with another
\* key, or another proof, which goes to the pending file first.
Fetch(p) == \E answer \in fetch_upgraded_proof :
  LET c == cmd[p]
      proof == answer.proof
      changed == proof # c.proof
      rekey == c.old.key # proof.key
      next == IF changed
              THEN IF rekey THEN "upgradeCommit" ELSE "upgradePublish"
              ELSE IF rekey THEN "rekey" ELSE "checkV2"
  IN
  /\ c.pc = "fetch"
  /\ \/ /\ validate_proof_digest_binding(answer, c.root)
        /\ pending' = IF changed THEN pending \cup {c.root} ELSE pending
        /\ cmd' = [cmd EXCEPT ![p] =
                     [c EXCEPT !.pc = next, !.proof = proof,
                               !.new = [c.old EXCEPT !.key = proof.key]]]
        /\ last' = NoResult
     \/ /\ ~validate_proof_digest_binding(answer, c.root)
        /\ ReturnErr(p)
        /\ UNCHANGED pending
  /\ UNCHANGED <<meta, order, ots, log, torn, ltp, cal, clock>>

\* The proof is the published one but LMDB has another key for it.
Rekey(p) ==
  LET c == cmd[p] IN
  /\ c.pc = "rekey"
  /\ \/ /\ ~RekeyConflicts(c.root, c.old, c.new)
        /\ Rekeyed(c.root, c.old, c.new)
        /\ Step(p, "checkV2")
     \/ /\ RekeyConflicts(c.root, c.old, c.new) \/ Fails
        /\ ReturnErr(p)
        /\ UNCHANGED lmdb
  /\ UNCHANGED <<ots, pending, log, torn, ltp, cal, clock>>

\* commit_upgrade_order_key, with the new proof in the pending file.
CommitUpgrade(p) ==
  LET c == cmd[p] IN
  /\ c.pc = "upgradeCommit"
  /\ \/ /\ ~RekeyConflicts(c.root, c.old, c.new)
        /\ Rekeyed(c.root, c.old, c.new)
        /\ Step(p, "upgradePublish")
        /\ UNCHANGED pending
     \/ /\ RekeyConflicts(c.root, c.old, c.new) \/ Fails
        /\ pending' = pending \ {c.root}
        /\ ReturnErr(p)
        /\ UNCHANGED lmdb
  /\ UNCHANGED <<ots, log, torn, ltp, cal, clock>>

\* publish_upgrade_proof
PublishUpgrade(p) ==
  LET c == cmd[p] IN
  /\ c.pc = "upgradePublish"
  /\ \/ /\ ots' = [ots EXCEPT ![c.root] = c.proof]
        /\ pending' = pending \ {c.root}
        /\ Step(p, "checkV2")
     \/ /\ Fails
        /\ pending' = pending \ {c.root}
        /\ IF c.old.key # c.new.key THEN Step(p, "upgradeRollback")
           ELSE ReturnErr(p)
        /\ UNCHANGED ots
  /\ UNCHANGED <<meta, order, log, torn, ltp, cal, clock>>

RollbackUpgrade(p) ==
  LET c == cmd[p] IN
  /\ c.pc = "upgradeRollback"
  /\ RolledBack(c.root, c.old, c.new) \/ (Fails /\ UNCHANGED lmdb)
  /\ ReturnErr(p)
  /\ UNCHANGED <<ots, pending, log, torn, ltp, cal, clock>>

\* maybe_append_breccia_v2_and_enqueue_ltp: look for a v2 record ...
CheckV2(p) ==
  LET c == cmd[p] IN
  /\ c.pc = "checkV2"
  /\ IF c.proof.height = Pending THEN ReturnOk(p, "upgrade")
     ELSE IF ~LogReadable THEN ReturnErr(p)
     ELSE Step(p, IF HasV2(c.root) THEN "enqueue" ELSE "appendV2")
  /\ UNCHANGED <<meta, order, ots, pending, log, torn, ltp, cal, clock>>

\* ... append one ...
AppendV2(p) ==
  LET c == cmd[p] IN
  /\ c.pc = "appendV2"
  /\ Len(log) < MaxLog
  /\ \/ /\ append_blob(Entry(2, c.root, c.new.key, c.new.at, c.proof.height))
        /\ Step(p, "enqueue")
     \/ append_fails /\ ReturnErr(p)
  /\ UNCHANGED <<meta, order, ots, pending, ltp, cal, clock>>

\* ... and queue the record for gossip.
EnqueueTail(p) ==
  LET c == cmd[p] IN
  /\ c.pc = "enqueue"
  /\ \/ ltp' = ltp \cup {c.root} /\ ReturnOk(p, "upgrade")
     \/ Fails /\ ReturnErr(p) /\ UNCHANGED ltp
  /\ UNCHANGED <<meta, order, ots, pending, log, torn, cal, clock>>

-----------------------------------------------------------------------------
\* import_inbound_tails: the checks on one staged tail, then the append.

ImportTail(p, t) ==
  /\ cmd[p].pc = "idle"
  /\ "import" \in setup.commands
  /\ t.height # Pending
  /\ LogReadable /\ ~HasV2(t.root)
  /\ meta[t.root].known /\ meta[t.root].key = t.key
  /\ ots[t.root].height \in {Pending, t.height}
  /\ cmd' = [cmd EXCEPT ![p] = [Idle EXCEPT !.pc = "importTail", !.root = t.root,
                                            !.old = meta[t.root], !.new = meta[t.root],
                                            !.proof = [key |-> t.key,
                                                       height |-> t.height]]]
  /\ last' = NoResult
  /\ UNCHANGED <<meta, order, ots, pending, log, torn, ltp, cal, clock>>

AppendTail(p) ==
  LET c == cmd[p] IN
  /\ c.pc = "importTail"
  /\ Len(log) < MaxLog
  /\ \/ append_blob([Entry(2, c.root, c.proof.key, c.new.at, c.proof.height) EXCEPT !.peer = TRUE])
     \/ append_fails
  /\ ReturnErr(p)   \* the command reports a count, not a root
  /\ UNCHANGED <<meta, order, ots, pending, ltp, cal, clock>>

-----------------------------------------------------------------------------
\* The environment.

\* The calendar anchors the digest of r (see Calendar).
CalendarAnchors(r) ==
  /\ cal[r] # NoProof /\ cal[r].height = Pending
  /\ \E k \in KeysOf[r], h \in Heights :
       cal' = [cal EXCEPT ![r] = [key |-> k, height |-> h]]
  /\ last' = NoResult
  /\ UNCHANGED <<meta, order, ots, pending, log, torn, ltp, clock, cmd>>

Tick ==
  /\ clock < setup.time
  /\ clock' = clock + 1
  /\ last' = NoResult
  /\ UNCHANGED <<meta, order, ots, pending, log, torn, ltp, cal, cmd>>

\* A command is killed, maybe in the middle of an append.
Crash(p) ==
  /\ cmd[p].pc # "idle"
  /\ "crash" \in setup.faults
  /\ \/ UNCHANGED torn
     \/ /\ cmd[p].pc \in {"append", "repair", "appendV2", "importTail"}
        /\ torn' \in TornBy
  /\ cmd' = [cmd EXCEPT ![p] = Idle]
  /\ last' = NoResult
  /\ UNCHANGED <<meta, order, ots, pending, log, ltp, cal, clock>>

-----------------------------------------------------------------------------
CommandStep(p) ==
  \/ RepairBreccia(p) \/ Submit(p) \/ CommitTimestamp(p) \/ AppendEntry(p)
  \/ Publish(p) \/ Rollback(p)
  \/ Fetch(p) \/ Rekey(p) \/ CommitUpgrade(p) \/ PublishUpgrade(p) \/ RollbackUpgrade(p)
  \/ CheckV2(p) \/ AppendV2(p) \/ EnqueueTail(p) \/ AppendTail(p)

Next ==
  /\ \/ \E r \in Roots : Encode(r) \/ CalendarAnchors(r)
     \/ \E p \in Procs :
          \/ \E r \in Roots : Upgrade(p, r)
          \/ \E r \in Roots, force \in BOOLEAN : Timestamp(p, r, force)
          \/ \E t \in Tails : ImportTail(p, t)
          \/ CommandStep(p)
          \/ Crash(p)
     \/ Tick
  /\ UNCHANGED setup

Spec == Init /\ [][Next]_vars
-----------------------------------------------------------------------------
\* Properties.

\* Every variable keeps its type: in particular a v2 record has a height, and
\* a listed key has a root.
TypeOK ==
  /\ meta \in [Roots -> Metas]
  /\ order \in [Keys -> Roots \cup {NoRoot}]
  /\ ots \in [Roots -> Proofs \cup {NoProof}]
  /\ pending \subseteq Roots
  /\ log \in Seq(Records)
  /\ torn \in {"no", "tail", "bad"}
  /\ ltp \subseteq Roots
  /\ cal \in [Roots -> Proofs \cup {NoProof}]
  /\ clock \in 1 .. MaxTime
  /\ cmd \in [Procs -> Locals]
  /\ last \in Results
  /\ setup \in Setups

\* No file is encoded again, and no timestamp repeated with --force.
Unforced == setup.commands \cap {"force", "reencode"} = {}

\* COMMITMENT_ORDER is the index of the order keys in COMMITMENT_META: a
\* commitment is listed under the key its metadata has, and no other.  Every
\* commit and every rollback has to keep two LMDB databases in step with
\* metadata that was read before the calendar was called.
OrderIndexesMeta ==
  Unforced => \A k \in Keys, r \in Roots : (order[k] = r <=> meta[r].key = k)

\* A timestamped commitment is listed under its key, even when its file was
\* encoded again, which forgets the key but leaves it listed: no rollback of a
\* failed retry may take the entry away.
TimestampedListed ==
  \A r \in Roots : meta[r].key # NoKey => order[meta[r].key] = r

\* verify_cross_store, without the carbonado file: the first record of each
\* version counts, and a log that does not parse counts as an empty one.
FirstRecord(v, r) ==
  LET at == {i \in DOMAIN log : LogReadable /\ log[i].v = v /\ log[i].root = r}
  IN IF at = {} THEN {} ELSE {log[CHOOSE i \in at : \A j \in at : i <= j]}
verify_cross_store(r) ==
  LET v1 == FirstRecord(1, r)
      v2 == FirstRecord(2, r)
  IN
  /\ meta[r].path
  /\ ots[r] # NoProof
  /\ ots[r].key = meta[r].key
  /\ v1 # {} \/ v2 # {}
  /\ IF v2 # {} THEN \A e \in v2 : e.key = meta[r].key
     ELSE \A e \in v1 : e.key = meta[r].key /\ e.at = meta[r].at
  /\ ots[r].height # Pending => v2 # {} /\ \A e \in v2 : e.height = ots[r].height

\* A peer's tail was imported that does not have the height of the proof, or
\* the key: import_inbound_tails compares a tail with what the commitment has
\* at that moment, which may be a pending proof.
Misinformed(r) ==
  \E e \in FirstRecord(2, r) : e.peer /\ <<e.key, e.height>> # <<ots[r].key, ots[r].height>>

\* An upgrade to a confirmed proof leaves the four stores in agreement, whatever
\* crashes and failed writes came before: `commit verify --full` accepts it.
\* Upgrading is how an operator repairs a commitment.  What it cannot repair is
\* a wrong record from a peer, as it appends no second one; then the other
\* stores agree.  (An append behind torn bytes succeeds but makes the log
\* unreadable, and then nothing verifies.)
UpgradeVerifies ==
  Unforced /\ LogReadable /\ last.op = "upgrade" /\ ots[last.root].height # Pending =>
    /\ meta[last.root].path /\ ots[last.root].key = meta[last.root].key
    /\ verify_cross_store(last.root) \/ Misinformed(last.root)

\* At most one v2 record of a root, however often it is upgraded, imported
\* and interrupted: peers and verify_cross_store look at one only.
OneV2PerRoot ==
  \A i, j \in DOMAIN log :
    log[i].v = 2 /\ log[j].v = 2 /\ log[i].root = log[j].root => i = j

\* Without --force a confirmed proof is never replaced by a pending one: a
\* failed command leaves the published proof alone, and a retry does not
\* start from nothing.
ConfirmedProofKept ==
  [][\A r \in Roots : ots[r].height # Pending /\ Unforced => ots'[r] = ots[r]]_vars
=============================================================================
