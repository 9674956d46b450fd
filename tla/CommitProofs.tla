---------------------------- MODULE CommitProofs ----------------------------
(***************************************************************************)
(* Proofs about Commit, for any sets of roots, keys, heights, commands and *)
(* faults, any number of processes and any bounds.                         *)
(*                                                                         *)
(* Types (Typed) hold however many commands race on a commitment.  What    *)
(* the stores say of each other holds as long as no two commands work on   *)
(* one commitment at the same time, DistinctRoots: nothing in the code     *)
(* keeps two such commands apart between their writes.  That a commitment  *)
(* stays listed needs one thing more, Uncontested: no timestamp rolls back *)
(* whose key is another commitment's.                                      *)
(***************************************************************************)
EXTENDS Commit, SequenceTheorems, TLAPS

\* The steps at which a command has the proof it is going to record.
Stamping == {"commit", "append", "publish", "rollback"}
Upgrading == {"rekey", "upgradeCommit", "upgradePublish", "upgradeRollback", "checkV2", "appendV2", "enqueue"}

\* What the locals of a command hold at each of its steps: metadata of a known
\* commitment, a key where one is written to the log, a height where a v2
\* record is.
Shape(c) ==
  /\ c.pc # "idle" => c.root \in Roots /\ c.old.known
  /\ c.pc = "repair" => c.old.key \in Keys
  /\ c.pc \in Stamping \cup Upgrading =>
       c.proof \in Proofs /\ c.new.key = c.proof.key /\ c.new.path /\ c.new.known
  /\ c.pc = "fetch" => c.proof \in Proofs /\ c.old.path
  /\ c.pc \in {"appendV2", "importTail", "enqueue"} => c.proof \in Proofs /\ c.proof.height \in Heights

Typed == TypeOK /\ \A p \in Procs : Shape(cmd[p])

-----------------------------------------------------------------------------
\* Moves of one command

Others(p) == \A q \in Procs \ {p} : cmd'[q] = cmd[q]
SameLocals(d, c) == d.root = c.root /\ d.old = c.old /\ d.new = c.new /\ d.proof = c.proof

\* The empty metadata, the fresh ones and an idle command have their types.
LEMMA ConstantsTyped ==
  /\ NoMeta \in Metas /\ FreshMeta \in Metas /\ NoProof \notin Proofs
  /\ Idle \in Locals /\ NoResult \in Results
<1> USE CommitAssumption
<1>1. NoMeta \in Metas /\ FreshMeta \in Metas
  <2>1. NoMeta \in Metas
    BY DEF NoMeta, Metas
  <2>2. FreshMeta \in Metas
    BY <2>1 DEF FreshMeta, Metas
  <2> QED BY <2>1, <2>2
<1>2. NoProof \notin Proofs
  BY DEF NoProof, Proofs
<1> QED BY <1>1, <1>2 DEF Idle, Locals, Pcs, NoResult, Results

\* A command that goes on keeps its locals.
LEMMA StepMoves ==
  ASSUME TypeOK, NEW p \in Procs, NEW pc \in Pcs, Step(p, pc)
  PROVE  /\ cmd' \in [Procs -> Locals] /\ Others(p)
         /\ cmd'[p].pc = pc /\ SameLocals(cmd'[p], cmd[p])
         /\ last' = NoResult /\ last' \in Results
<1>1. cmd[p] \in Locals
  BY DEF TypeOK
<1> DEFINE d == [cmd[p] EXCEPT !.pc = pc]
<1>2. d \in Locals /\ d.pc = pc /\ SameLocals(d, cmd[p])
  BY <1>1 DEF Locals, SameLocals
<1>3. cmd' = [cmd EXCEPT ![p] = d]
  BY DEF Step
<1> HIDE DEF d
<1> QED BY <1>2, <1>3, ConstantsTyped DEF TypeOK, Others, Step

\* A command that returns or is killed forgets them.
LEMMA IdleMoves ==
  ASSUME TypeOK, NEW p \in Procs, cmd' = [cmd EXCEPT ![p] = Idle]
  PROVE  cmd' \in [Procs -> Locals] /\ Others(p) /\ cmd'[p] = Idle /\ cmd'[p].pc = "idle"
  BY ConstantsTyped DEF TypeOK, Others, Idle

\* A command that starts or gets an answer has new ones.
LEMMA NewMoves ==
  ASSUME TypeOK, NEW p \in Procs, NEW d \in Locals, cmd' = [cmd EXCEPT ![p] = d]
  PROVE  cmd' \in [Procs -> Locals] /\ Others(p) /\ cmd'[p] = d
  BY DEF TypeOK, Others

\* The locals with which a command starts.
LEMMA StartTyped ==
  ASSUME TypeOK, NEW r \in Roots, NEW pc \in Pcs, NEW proof \in Proofs \cup {NoProof}
  PROVE  /\ [Idle EXCEPT !.pc = pc, !.root = r, !.old = meta[r], !.new = meta[r], !.proof = proof] \in Locals
         /\ meta[r] \in Metas
  BY DEF TypeOK, Idle, Locals

\* A record appended to the log.
LEMMA AppendTyped ==
  ASSUME TypeOK, NEW e \in Records, append_blob(e)
  PROVE  /\ log' \in Seq(Records) /\ torn' \in {"no", "tail", "bad"}
         /\ Len(log') = Len(log) + 1
         /\ \A i \in 1 .. Len(log) : log'[i] = log[i]
         /\ log'[Len(log) + 1] = e
  BY AppendProperties DEF TypeOK, append_blob

\* An append that fails or is cut short.
LEMMA AppendFailsTyped ==
  ASSUME TypeOK, append_fails
  PROVE  log' = log /\ torn' \in {"no", "tail", "bad"}
  BY DEF TypeOK, append_fails, TornBy

\* When one command moves to a state of the right shape, all have it.
LEMMA ShapesKept ==
  ASSUME Typed, NEW p \in Procs, Others(p), Shape(cmd'[p])
  PROVE  \A q \in Procs : Shape(cmd'[q])
  BY DEF Typed, Others

\* An idle command has no shape to keep.
LEMMA IdleShape == ASSUME NEW c, c.pc = "idle" PROVE Shape(c)
  BY DEF Shape, Stamping, Upgrading

\* Only p moves, and every command has the type of its locals.
Moves(p) == cmd' \in [Procs -> Locals] /\ Others(p)

\* The locals of a command that has just read the metadata of r.
Started(d, r) == d.root = r /\ d.old = meta[r] /\ d.new = meta[r]

\* `commit upgrade` starts from the metadata and the published proof.
LEMMA UpgradeMoves ==
  ASSUME TypeOK, NEW p \in Procs, NEW r \in Roots, Upgrade(p, r)
  PROVE  /\ Moves(p) /\ Started(cmd'[p], r) /\ cmd'[p].pc = "fetch"
         /\ cmd'[p].proof = ots[r] /\ ots[r] \in Proofs
<1> DEFINE d == [Idle EXCEPT !.pc = "fetch", !.root = r, !.old = meta[r], !.new = meta[r], !.proof = ots[r]]
<1>1. ots[r] \in Proofs
  BY DEF Upgrade, TypeOK
<1>2. d \in Locals
  BY <1>1, StartTyped DEF Pcs
<1>3. d.pc = "fetch" /\ Started(d, r) /\ d.proof = ots[r]
  BY DEF Idle, Started
<1>4. cmd' = [cmd EXCEPT ![p] = d]
  BY DEF Upgrade
<1> HIDE DEF d
<1> QED BY <1>1, <1>2, <1>3, <1>4, NewMoves DEF Moves

\* `commit timestamp` starts from the metadata; without --force it only repairs
\* the log of a timestamped commitment.
LEMMA TimestampMoves ==
  ASSUME TypeOK, NEW p \in Procs, NEW r \in Roots, NEW force \in BOOLEAN, Timestamp(p, r, force)
  PROVE  /\ Moves(p) /\ Started(cmd'[p], r)
         /\ cmd'[p].pc \in {"repair", "submit"}
         /\ cmd'[p].pc = "repair" => is_timestamped(meta[r])
         /\ cmd'[p].pc = "submit" => force \/ ~is_timestamped(meta[r])
<1> DEFINE pc == IF is_timestamped(meta[r]) /\ ~force THEN "repair" ELSE "submit"
           d == [Idle EXCEPT !.root = r, !.old = meta[r], !.new = meta[r], !.pc = pc]
<1>1. meta[r] \in Metas /\ pc \in {"repair", "submit"}
  BY DEF TypeOK
<1>2. d \in Locals
  BY <1>1, ConstantsTyped DEF Locals, Pcs
<1>3. d.pc = pc /\ Started(d, r)
  BY DEF Idle, Started
<1>4. cmd' = [cmd EXCEPT ![p] = d]
  BY DEF Timestamp
<1> HIDE DEF d
<1>5. Moves(p) /\ cmd'[p] = d
  BY <1>2, <1>4, NewMoves DEF Moves
<1> QED BY <1>1, <1>3, <1>5

\* An import starts from a tail that a peer sent.
LEMMA ImportMoves ==
  ASSUME TypeOK, NEW p \in Procs, NEW t \in Tails, ImportTail(p, t)
  PROVE  /\ Moves(p) /\ t.root \in Roots /\ Started(cmd'[p], t.root) /\ cmd'[p].pc = "importTail"
         /\ cmd'[p].proof = [key |-> t.key, height |-> t.height]
         /\ cmd'[p].proof \in Proofs /\ cmd'[p].proof.height \in Heights
<1> DEFINE proof == [key |-> t.key, height |-> t.height]
           d == [Idle EXCEPT !.pc = "importTail", !.root = t.root, !.old = meta[t.root],
                             !.new = meta[t.root], !.proof = proof]
<1>1. proof \in Proofs /\ t.root \in Roots /\ proof.height \in Heights
  BY DEF ImportTail, Tails, Proofs
<1> HIDE DEF proof
<1>2. d \in Locals
  BY <1>1, StartTyped DEF Pcs
<1>3. d.pc = "importTail" /\ Started(d, t.root) /\ d.proof = proof
  BY DEF Idle, Started
<1>4. cmd' = [cmd EXCEPT ![p] = d]
  BY DEF ImportTail, proof
<1> HIDE DEF d
<1>5. Moves(p) /\ cmd'[p] = d
  BY <1>2, <1>4, NewMoves DEF Moves
<1> QED BY <1>1, <1>3, <1>5 DEF proof

\* The submission of p got this proof, which is now in the pending file.
Submitted(p, proof) ==
  /\ cal' \in {cal, [cal EXCEPT ![cmd[p].root] = IF @ = NoProof THEN proof ELSE @]}
  /\ pending' = pending \cup {cmd[p].root}
  /\ cmd' = [cmd EXCEPT ![p] =
               [cmd[p] EXCEPT !.pc = "commit", !.proof = proof,
                              !.new = [cmd[p].old EXCEPT !.path = TRUE, !.key = proof.key, !.at = clock]]]
  /\ last' = NoResult

\* The metadata to commit have the proof's key.
LEMMA SubmitMoves ==
  ASSUME Typed, NEW p \in Procs, cmd[p].pc = "submit",
         NEW proof \in SubmitAnswers(cmd[p].root), Submitted(p, proof)
  PROVE  /\ Moves(p) /\ proof \in Proofs
         /\ proof.height # Pending => proof = cal[cmd[p].root]
         /\ proof.key \in KeysOf[cmd[p].root] \/ proof.key = cal[cmd[p].root].key
         /\ cmd'[p].pc = "commit" /\ cmd'[p].root = cmd[p].root /\ cmd'[p].old = cmd[p].old
         /\ cmd'[p].proof = proof
         /\ cmd'[p].new.key = proof.key /\ cmd'[p].new.path /\ cmd'[p].new.known
<1> DEFINE c == cmd[p]
           new == [c.old EXCEPT !.path = TRUE, !.key = proof.key, !.at = clock]
           d == [c EXCEPT !.pc = "commit", !.proof = proof, !.new = new]
<1> USE CommitAssumption
<1>1. c.root \in Roots /\ c.old.known
  BY DEF Typed, Shape
<1>2. clock \in 0 .. MaxTime
  BY DEF Typed, TypeOK
<1>3. c \in Locals /\ c.old \in Metas
  BY DEF Typed, TypeOK, Locals
<1>4. /\ proof \in Proofs
      /\ proof.height # Pending => proof = cal[c.root]
      /\ proof.key \in KeysOf[c.root] \/ proof.key = cal[c.root].key
  <2>1. \A k \in KeysOf[c.root] : k \in Keys /\ [key |-> k, height |-> Pending] \in Proofs
    BY <1>1 DEF Proofs
  <2>2. cal[c.root] # NoProof => cal[c.root] \in Proofs
    BY <1>1 DEF Typed, TypeOK
  <2> QED BY <2>1, <2>2 DEF SubmitAnswers
<1>5. proof.key \in Keys
  BY <1>4 DEF Proofs
<1>6. new \in Metas /\ new.path /\ new.key = proof.key /\ new.known
  BY <1>1, <1>2, <1>3, <1>5 DEF Metas
<1>7. d \in Locals /\ d.pc = "commit" /\ d.root = c.root /\ d.old = c.old /\ d.new = new /\ d.proof = proof
  <2> HIDE DEF new
  <2> QED BY <1>3, <1>4, <1>6 DEF Locals, Pcs
<1>8. cmd' = [cmd EXCEPT ![p] = d]
  BY DEF Submitted
<1> HIDE DEF d
<1>9. Moves(p) /\ cmd'[p] = d
  BY <1>7, <1>8, NewMoves DEF Moves, Typed
<1> QED BY <1>4, <1>6, <1>7, <1>9

\* The locals of an upgrade that accepted a proof.
Fetched(d, c, proof) ==
  /\ d.root = c.root /\ d.old = c.old /\ d.proof = proof
  /\ d.new.key = proof.key /\ d.new.path /\ d.new.known
  /\ c.old.key = proof.key => d.new = c.old
  /\ d.pc = IF proof # c.proof THEN IF c.old.key # proof.key THEN "upgradeCommit" ELSE "upgradePublish"
            ELSE IF c.old.key # proof.key THEN "rekey" ELSE "checkV2"

\* An upgrade accepts the calendar's proof of its own digest only.
LEMMA FetchMoves ==
  ASSUME Typed, NEW p \in Procs, Fetch(p), ~(ReturnErr(p) /\ UNCHANGED pending)
  PROVE  /\ Moves(p) /\ cal[cmd[p].root] \in Proofs /\ Fetched(cmd'[p], cmd[p], cal[cmd[p].root])
         /\ pending' \in {pending \cup {cmd[p].root}, pending} /\ last' = NoResult
<1> DEFINE c == cmd[p]
           proof == cal[c.root]
           new == [c.old EXCEPT !.key = proof.key]
           pc == IF proof # c.proof THEN IF c.old.key # proof.key THEN "upgradeCommit" ELSE "upgradePublish"
                 ELSE IF c.old.key # proof.key THEN "rekey" ELSE "checkV2"
           d == [c EXCEPT !.pc = pc, !.proof = proof, !.new = new]
<1> USE CommitAssumption
<1>1. c.pc = "fetch" /\ c.root \in Roots /\ c.old.known /\ c.old.path
  BY DEF Typed, Shape, Fetch
<1>2. c \in Locals /\ c.old \in Metas
  BY DEF Typed, TypeOK, Locals
<1>3. PICK answer \in fetch_upgraded_proof :
        /\ validate_proof_digest_binding(answer, c.root)
        /\ pending' \in {pending \cup {c.root}, pending}
        /\ cmd' = [cmd EXCEPT ![p] =
             [c EXCEPT !.pc = IF answer.proof # c.proof
                              THEN IF c.old.key # answer.proof.key THEN "upgradeCommit" ELSE "upgradePublish"
                              ELSE IF c.old.key # answer.proof.key THEN "rekey" ELSE "checkV2",
                       !.proof = answer.proof, !.new = [c.old EXCEPT !.key = answer.proof.key]]]
        /\ last' = NoResult
  BY DEF Fetch
<1>4. answer.proof = proof /\ proof \in Proofs
  BY <1>1, <1>3 DEF fetch_upgraded_proof, validate_proof_digest_binding, NoAnswer, Typed, TypeOK
<1>5. cmd' = [cmd EXCEPT ![p] = d]
  BY <1>3, <1>4
<1> HIDE DEF proof
<1>6. proof.key \in Keys
  BY <1>4 DEF Proofs
<1>7. new \in Metas /\ new.path /\ new.key = proof.key /\ new.known
  BY <1>1, <1>2, <1>6 DEF Metas
<1>8. c.old.key = proof.key => new = c.old
  BY <1>2 DEF Metas
<1>9. d \in Locals /\ d.pc = pc /\ d.root = c.root /\ d.old = c.old /\ d.new = new /\ d.proof = proof
  <2>1. pc \in Pcs
    BY DEF Pcs
  <2> HIDE DEF new, pc
  <2> QED BY <1>2, <1>4, <1>7, <2>1 DEF Locals
<1> HIDE DEF d, new
<1>10. Moves(p) /\ cmd'[p] = d
  BY <1>5, <1>9, NewMoves DEF Moves, Typed
<1> QED BY <1>3, <1>4, <1>7, <1>8, <1>9, <1>10 DEF Fetched, proof

-----------------------------------------------------------------------------
\* Type correctness

\* The stores are empty and every command is idle.
LEMMA TypedInit == Init => Typed
<1> SUFFICES ASSUME Init PROVE Typed
  OBVIOUS
<1> USE CommitAssumption, ConstantsTyped DEF Init
<1>1. TypeOK
  BY DEF TypeOK
<1>2. \A p \in Procs : Shape(cmd[p])
  <2> SUFFICES ASSUME NEW p \in Procs PROVE Shape(cmd[p])
    OBVIOUS
  <2>1. cmd[p].pc = "idle"
    BY DEF Idle
  <2> QED BY <2>1, IdleShape
<1> QED BY <1>1, <1>2 DEF Typed

\* Encoding a file, the calendar and the clock: no command moves.
LEMMA TypedEnvironment ==
  ASSUME Typed, UNCHANGED setup,
         \/ \E r \in Roots : Encode(r) \/ CalendarAnchors(r)
         \/ Tick
  PROVE  Typed'
<1> USE CommitAssumption, ConstantsTyped
<1>1. TypeOK
  BY DEF Typed
<1>2. ASSUME NEW r \in Roots, Encode(r)
      PROVE  TypeOK' /\ cmd' = cmd
  BY <1>1, <1>2 DEF Encode, TypeOK
<1>3. ASSUME NEW r \in Roots, CalendarAnchors(r)
      PROVE  TypeOK' /\ cmd' = cmd
  <2>1. PICK k \in KeysOf[r], h \in Heights : cal' = [cal EXCEPT ![r] = [key |-> k, height |-> h]]
    BY <1>3 DEF CalendarAnchors
  <2>2. [key |-> k, height |-> h] \in Proofs
    BY DEF Proofs
  <2> QED BY <1>1, <1>3, <2>1, <2>2 DEF CalendarAnchors, TypeOK
<1>4. CASE Tick
  <2>1. setup.time \in 1 .. MaxTime
    BY <1>1 DEF TypeOK, SetupKinds
  <2>2. clock' \in 1 .. MaxTime
    BY <1>1, <1>4, <2>1 DEF Tick, TypeOK
  <2>3. TypeOK' /\ cmd' = cmd
    BY <1>1, <1>4, <2>2 DEF Tick, TypeOK
  <2> QED BY <2>3 DEF Typed
<1> QED BY <1>2, <1>3, <1>4 DEF Typed

\* Commands that start (timestamp_commitment, upgrade_commitment,
\* import_inbound_tails) read metadata of a known commitment.
LEMMA TypedStarts ==
  ASSUME Typed, UNCHANGED setup, NEW p \in Procs,
         \/ \E r \in Roots : Upgrade(p, r)
         \/ \E r \in Roots, force \in BOOLEAN : Timestamp(p, r, force)
         \/ \E t \in Tails : ImportTail(p, t)
  PROVE  Typed'
<1> USE ConstantsTyped
<1>1. TypeOK
  BY DEF Typed
<1>2. ASSUME NEW r \in Roots, Upgrade(p, r)
      PROVE  Typed'
  <2>1. Moves(p) /\ Started(cmd'[p], r) /\ cmd'[p].pc = "fetch" /\ cmd'[p].proof = ots[r] /\ ots[r] \in Proofs
    BY <1>1, <1>2, UpgradeMoves
  <2>2. Shape(cmd'[p])
    BY <1>2, <2>1 DEF Shape, Started, Upgrade, Stamping, Upgrading
  <2>3. TypeOK'
    BY <1>1, <1>2, <2>1 DEF Upgrade, TypeOK, Moves
  <2> QED BY <2>1, <2>2, <2>3, ShapesKept DEF Typed, Moves
<1>3. ASSUME NEW r \in Roots, NEW force \in BOOLEAN, Timestamp(p, r, force)
      PROVE  Typed'
  <2>1. Moves(p) /\ Started(cmd'[p], r)
    BY <1>1, <1>3, TimestampMoves
  <2>2. cmd'[p].pc \in {"repair", "submit"} /\ (cmd'[p].pc = "repair" => is_timestamped(meta[r]))
    BY <1>1, <1>3, TimestampMoves
  <2>3. meta[r] \in Metas /\ meta[r].known
    BY <1>1, <1>3 DEF TypeOK, Timestamp
  <2>4. is_timestamped(meta[r]) => meta[r].key \in Keys
    BY <2>3 DEF is_timestamped, Metas
  <2>5. Shape(cmd'[p])
    BY <2>1, <2>2, <2>3, <2>4 DEF Shape, Started, Stamping, Upgrading
  <2>6. TypeOK'
    BY <1>1, <1>3, <2>1 DEF Timestamp, TypeOK, Moves
  <2> QED BY <2>1, <2>5, <2>6, ShapesKept DEF Typed, Moves
<1>4. ASSUME NEW t \in Tails, ImportTail(p, t)
      PROVE  Typed'
  <2>1. /\ Moves(p) /\ t.root \in Roots /\ Started(cmd'[p], t.root) /\ cmd'[p].pc = "importTail"
        /\ cmd'[p].proof \in Proofs /\ cmd'[p].proof.height \in Heights
    BY <1>1, <1>4, ImportMoves
  <2>2. Shape(cmd'[p])
    BY <1>4, <2>1 DEF Shape, Started, ImportTail, Stamping, Upgrading
  <2>3. TypeOK'
    BY <1>1, <1>4, <2>1 DEF ImportTail, TypeOK, Moves
  <2> QED BY <2>1, <2>2, <2>3, ShapesKept DEF Typed, Moves
<1> QED BY <1>2, <1>3, <1>4

\* A step within the timestamp or within the upgrade keeps the shape.
LEMMA ShapeSteps ==
  ASSUME Typed, NEW p \in Procs, NEW pc \in Pcs, Step(p, pc),
         \/ cmd[p].pc \in Stamping /\ pc \in Stamping
         \/ /\ cmd[p].pc \in Upgrading /\ pc \in Upgrading
            /\ pc \in {"appendV2", "enqueue"} => cmd[p].proof.height \in Heights
  PROVE  cmd' \in [Procs -> Locals] /\ last' \in Results /\ \A q \in Procs : Shape(cmd'[q])
<1>1. /\ cmd' \in [Procs -> Locals] /\ Others(p)
      /\ cmd'[p].pc = pc /\ SameLocals(cmd'[p], cmd[p]) /\ last' \in Results
  BY StepMoves DEF Typed
<1>2. Shape(cmd[p])
  BY DEF Typed
<1>3. Shape(cmd'[p])
  BY <1>1, <1>2 DEF Shape, SameLocals, Stamping, Upgrading
<1> QED BY <1>1, <1>3, ShapesKept

\* So does a return.
LEMMA ShapeReturns ==
  ASSUME Typed, NEW p \in Procs,
         \/ ReturnErr(p)
         \/ \E op \in {"timestamp", "upgrade"} : ReturnOk(p, op) /\ cmd[p].root \in Roots
         \/ cmd' = [cmd EXCEPT ![p] = Idle] /\ last' = NoResult
  PROVE  cmd' \in [Procs -> Locals] /\ last' \in Results /\ \A q \in Procs : Shape(cmd'[q])
<1>1. cmd' = [cmd EXCEPT ![p] = Idle] /\ last' \in Results
  BY ConstantsTyped DEF ReturnErr, ReturnOk, Results
<1>2. cmd' \in [Procs -> Locals] /\ Others(p) /\ cmd'[p].pc = "idle"
  BY <1>1, IdleMoves DEF Typed
<1> QED BY <1>1, <1>2, IdleShape, ShapesKept

\* The transactions on COMMITMENT_META and COMMITMENT_ORDER keep their types.
LEMMA LmdbTyped ==
  ASSUME TypeOK, NEW r \in Roots, NEW old \in Metas, NEW new \in Metas,
         Rekeyed(r, old, new) \/ RolledBack(r, old, new) \/ UNCHANGED lmdb
  PROVE  meta' \in [Roots -> Metas] /\ order' \in [Keys -> Roots \cup {NoRoot}]
<1> DEFINE Entries == [Keys -> Roots \cup {NoRoot}]
<1>1. \A k \in Keys \cup {NoKey} : Unkeyed(order, k) \in Entries
  BY DEF TypeOK, Unkeyed
<1>2. old.key \in Keys \cup {NoKey} /\ new.key \in Keys \cup {NoKey}
  BY DEF Metas
<1>3. CASE Rekeyed(r, old, new)
  BY <1>1, <1>2, <1>3 DEF TypeOK, Rekeyed
<1>4. CASE RolledBack(r, old, new)
  BY <1>1, <1>2, <1>4 DEF TypeOK, RolledBack, lmdb
<1>5. CASE UNCHANGED lmdb
  BY <1>5 DEF TypeOK, lmdb
<1> QED BY <1>3, <1>4, <1>5

\* The calendar's answer is a proof, and so are the metadata made from it.
LEMMA SubmitTyped ==
  ASSUME Typed, UNCHANGED setup, NEW p \in Procs, Submit(p)
  PROVE  Typed'
<1> DEFINE c == cmd[p]
<1>1. TypeOK /\ c.pc = "submit" /\ c.root \in Roots /\ c.old.known
  BY DEF Typed, Shape, Submit
<1>2. CASE ReturnErr(p) /\ UNCHANGED <<cal, pending>>
  <2>1. TypeOK'
    BY <1>1, <1>2, ShapeReturns DEF Submit, TypeOK
  <2> QED BY <1>2, <2>1, ShapeReturns DEF Typed
<1>3. ASSUME NEW proof \in SubmitAnswers(c.root), Submitted(p, proof)
      PROVE  Typed'
  <2>1. /\ Moves(p) /\ proof \in Proofs
        /\ cmd'[p].pc = "commit" /\ cmd'[p].root = c.root /\ cmd'[p].old = c.old /\ cmd'[p].proof = proof
        /\ cmd'[p].new.key = proof.key /\ cmd'[p].new.path /\ cmd'[p].new.known
    BY <1>1, <1>3, SubmitMoves
  <2>2. Shape(cmd'[p])
    BY <1>1, <2>1 DEF Shape, Stamping, Upgrading
  <2>3. cal' \in [Roots -> Proofs \cup {NoProof}] /\ pending' \subseteq Roots /\ last' \in Results
    BY <1>1, <1>3, <2>1, ConstantsTyped DEF TypeOK, Submitted
  <2>4. TypeOK'
    BY <1>1, <1>3, <2>1, <2>3 DEF Submit, TypeOK, Moves
  <2> QED BY <2>1, <2>2, <2>4, ShapesKept DEF Typed, Moves
<1> QED BY <1>2, <1>3 DEF Submit, Submitted

\* So is a proof that an upgrade fetched and accepted.
LEMMA FetchTyped ==
  ASSUME Typed, UNCHANGED setup, NEW p \in Procs, Fetch(p)
  PROVE  Typed'
<1> DEFINE c == cmd[p]
<1>1. TypeOK /\ c.root \in Roots /\ c.old.known
  BY DEF Typed, Shape, Fetch
<1>2. CASE ReturnErr(p) /\ UNCHANGED pending
  <2>1. TypeOK'
    BY <1>1, <1>2, ShapeReturns DEF Fetch, TypeOK
  <2> QED BY <1>2, <2>1, ShapeReturns DEF Typed
<1>3. CASE ~(ReturnErr(p) /\ UNCHANGED pending)
  <2>1. /\ Moves(p) /\ cal[c.root] \in Proofs /\ Fetched(cmd'[p], c, cal[c.root])
        /\ pending' \in {pending \cup {c.root}, pending} /\ last' = NoResult
    BY <1>3, FetchMoves
  <2>2. Shape(cmd'[p])
    BY <1>1, <2>1 DEF Shape, Fetched, Stamping, Upgrading
  <2>3. TypeOK'
    BY <1>1, <2>1, ConstantsTyped DEF Fetch, TypeOK, Moves
  <2> QED BY <2>1, <2>2, <2>3, ShapesKept DEF Typed, Moves
<1> QED BY <1>2, <1>3

\* The log gets records of known roots with a key, v2 records with a height.
LEMMA LogTyped ==
  ASSUME Typed, UNCHANGED setup, NEW p \in Procs,
         RepairBreccia(p) \/ AppendEntry(p) \/ AppendV2(p) \/ AppendTail(p)
  PROVE  Typed'
<1> DEFINE c == cmd[p]
<1> USE CommitAssumption
<1>1. TypeOK /\ Shape(c) /\ c \in Locals
  BY DEF Typed, TypeOK
<1>2. c.old \in Metas /\ c.new \in Metas /\ c.old.at \in 0 .. MaxTime /\ c.new.at \in 0 .. MaxTime
  BY <1>1 DEF Locals, Metas
<1>3. CASE RepairBreccia(p)
  <2> DEFINE e == Entry(1, c.root, c.old.key, c.old.at, Pending)
  <2>1. c.root \in Roots /\ c.old.key \in Keys
    BY <1>1, <1>3 DEF Shape, RepairBreccia
  <2>2. e \in Records
    BY <1>2, <2>1 DEF Entry, Records
  <2> HIDE DEF e
  <2>3. log' \in Seq(Records) /\ torn' \in {"no", "tail", "bad"}
    BY <1>1, <1>3, <2>2, AppendTyped, AppendFailsTyped DEF RepairBreccia, TypeOK, e
  <2>4. cmd' \in [Procs -> Locals] /\ last' \in Results /\ \A q \in Procs : Shape(cmd'[q])
    BY <1>3, <2>1, ShapeReturns DEF RepairBreccia
  <2>5. TypeOK'
    BY <1>1, <1>3, <2>3, <2>4 DEF RepairBreccia, TypeOK
  <2> QED BY <2>4, <2>5 DEF Typed
<1>4. CASE AppendEntry(p)
  <2> DEFINE e == Entry(1, c.root, c.new.key, c.new.at, Pending)
  <2>1. c.pc = "append" /\ c.root \in Roots /\ c.new.key \in Keys
    BY <1>1, <1>4 DEF Shape, AppendEntry, Stamping, Proofs
  <2>2. e \in Records
    BY <1>2, <2>1 DEF Entry, Records
  <2> HIDE DEF e
  <2>3. log' \in Seq(Records) /\ torn' \in {"no", "tail", "bad"}
    BY <1>1, <1>4, <2>2, AppendTyped, AppendFailsTyped DEF AppendEntry, TypeOK, e
  <2>4. cmd' \in [Procs -> Locals] /\ last' \in Results /\ \A q \in Procs : Shape(cmd'[q])
    BY <1>4, <2>1, ShapeSteps DEF AppendEntry, Stamping, Pcs
  <2>5. TypeOK'
    BY <1>1, <1>4, <2>3, <2>4 DEF AppendEntry, TypeOK
  <2> QED BY <2>4, <2>5 DEF Typed
<1>5. CASE AppendV2(p)
  <2> DEFINE e == Entry(2, c.root, c.new.key, c.new.at, c.proof.height)
  <2>1. c.pc = "appendV2" /\ c.root \in Roots /\ c.new.key \in Keys /\ c.proof.height \in Heights
    BY <1>1, <1>5 DEF Shape, AppendV2, Upgrading, Proofs
  <2>2. e \in Records
    BY <1>2, <2>1 DEF Entry, Records
  <2> HIDE DEF e
  <2>3. log' \in Seq(Records) /\ torn' \in {"no", "tail", "bad"}
    BY <1>1, <1>5, <2>2, AppendTyped, AppendFailsTyped DEF AppendV2, TypeOK, e
  <2>4. cmd' \in [Procs -> Locals] /\ last' \in Results /\ \A q \in Procs : Shape(cmd'[q])
    BY <1>5, <2>1, ShapeSteps, ShapeReturns DEF AppendV2, Upgrading, Pcs
  <2>5. TypeOK'
    BY <1>1, <1>5, <2>3, <2>4 DEF AppendV2, TypeOK
  <2> QED BY <2>4, <2>5 DEF Typed
<1>6. CASE AppendTail(p)
  <2> DEFINE e == [Entry(2, c.root, c.proof.key, c.new.at, c.proof.height) EXCEPT !.peer = TRUE]
  <2>1. c.root \in Roots /\ c.proof.key \in Keys /\ c.proof.height \in Heights
    BY <1>1, <1>6 DEF Shape, AppendTail, Proofs
  <2>2. e \in Records
    BY <1>2, <2>1 DEF Entry, Records
  <2> HIDE DEF e
  <2>3. log' \in Seq(Records) /\ torn' \in {"no", "tail", "bad"}
    BY <1>1, <1>6, <2>2, AppendTyped, AppendFailsTyped DEF AppendTail, TypeOK, e
  <2>4. cmd' \in [Procs -> Locals] /\ last' \in Results /\ \A q \in Procs : Shape(cmd'[q])
    BY <1>6, ShapeReturns DEF AppendTail
  <2>5. TypeOK'
    BY <1>1, <1>6, <2>3, <2>4 DEF AppendTail, TypeOK
  <2> QED BY <2>4, <2>5 DEF Typed
<1> QED BY <1>3, <1>4, <1>5, <1>6

\* The commits, the rollbacks, the published proofs, the queue and a crash.
LEMMA StepsTyped ==
  ASSUME Typed, UNCHANGED setup, NEW p \in Procs,
         \/ CommitTimestamp(p) \/ Publish(p) \/ Rollback(p) \/ Rekey(p) \/ CommitUpgrade(p)
         \/ PublishUpgrade(p) \/ RollbackUpgrade(p) \/ CheckV2(p) \/ EnqueueTail(p) \/ Crash(p)
  PROVE  Typed'
<1> DEFINE c == cmd[p]
<1> USE CommitAssumption
<1>1. TypeOK /\ Shape(c) /\ c \in Locals /\ c.old \in Metas /\ c.new \in Metas
  BY DEF Typed, TypeOK, Locals
<1>2. c.pc # "idle" => c.root \in Roots
  BY <1>1 DEF Shape
<1> DEFINE Moved == cmd' \in [Procs -> Locals] /\ last' \in Results /\ \A q \in Procs : Shape(cmd'[q])
           Lmdb == meta' \in [Roots -> Metas] /\ order' \in [Keys -> Roots \cup {NoRoot}]
<1>3. CASE CommitTimestamp(p)
  <2>1. Moved
    BY <1>3, ShapeSteps DEF CommitTimestamp, Stamping, Pcs
  <2>2. Lmdb
    BY <1>1, <1>2, <1>3, LmdbTyped DEF CommitTimestamp
  <2> HIDE DEF Moved
  <2>3. TypeOK'
    BY <1>1, <1>3, <2>1, <2>2 DEF CommitTimestamp, TypeOK, Moved
  <2> QED BY <2>1, <2>3 DEF Typed, Moved
<1>4. CASE Publish(p)
  <2>1. Moved /\ c.proof \in Proofs /\ c.root \in Roots
    BY <1>1, <1>4, ShapeSteps, ShapeReturns DEF Publish, Stamping, Pcs, Shape
  <2> HIDE DEF Moved
  <2>2. TypeOK'
    BY <1>1, <1>4, <2>1 DEF Publish, TypeOK, Moved
  <2> QED BY <2>1, <2>2 DEF Typed, Moved
<1>5. CASE Rollback(p)
  <2>1. Moved
    BY <1>5, ShapeReturns DEF Rollback
  <2>2. Lmdb
    BY <1>1, <1>2, <1>5, LmdbTyped DEF Rollback
  <2> HIDE DEF Moved
  <2>3. TypeOK'
    BY <1>1, <1>5, <2>1, <2>2 DEF Rollback, TypeOK, Moved
  <2> QED BY <2>1, <2>3 DEF Typed, Moved
<1>6. CASE Rekey(p)
  <2>1. Moved
    BY <1>6, ShapeSteps, ShapeReturns DEF Rekey, Upgrading, Pcs
  <2>2. Lmdb
    BY <1>1, <1>2, <1>6, LmdbTyped DEF Rekey
  <2> HIDE DEF Moved
  <2>3. TypeOK'
    BY <1>1, <1>6, <2>1, <2>2 DEF Rekey, TypeOK, Moved
  <2> QED BY <2>1, <2>3 DEF Typed, Moved
<1>7. CASE CommitUpgrade(p)
  <2>1. Moved
    BY <1>7, ShapeSteps, ShapeReturns DEF CommitUpgrade, Upgrading, Pcs
  <2>2. Lmdb
    BY <1>1, <1>2, <1>7, LmdbTyped DEF CommitUpgrade
  <2> HIDE DEF Moved
  <2>3. TypeOK'
    BY <1>1, <1>7, <2>1, <2>2 DEF CommitUpgrade, TypeOK, Moved
  <2> QED BY <2>1, <2>3 DEF Typed, Moved
<1>8. CASE PublishUpgrade(p)
  <2>1. Moved /\ c.proof \in Proofs /\ c.root \in Roots
    BY <1>1, <1>8, ShapeSteps, ShapeReturns DEF PublishUpgrade, Upgrading, Pcs, Shape
  <2> HIDE DEF Moved
  <2>2. TypeOK'
    BY <1>1, <1>8, <2>1 DEF PublishUpgrade, TypeOK, Moved
  <2> QED BY <2>1, <2>2 DEF Typed, Moved
<1>9. CASE RollbackUpgrade(p)
  <2>1. Moved
    BY <1>9, ShapeReturns DEF RollbackUpgrade
  <2>2. Lmdb
    BY <1>1, <1>2, <1>9, LmdbTyped DEF RollbackUpgrade
  <2> HIDE DEF Moved
  <2>3. TypeOK'
    BY <1>1, <1>9, <2>1, <2>2 DEF RollbackUpgrade, TypeOK, Moved
  <2> QED BY <2>1, <2>3 DEF Typed, Moved
<1>10. CASE CheckV2(p)
  <2>1. c.pc = "checkV2" /\ c.proof \in Proofs /\ c.root \in Roots
    BY <1>1, <1>10 DEF CheckV2, Shape, Upgrading
  <2>2. c.proof.height # Pending => c.proof.height \in Heights
    BY <2>1 DEF Proofs
  <2>3. Moved
    BY <1>10, <2>1, <2>2, ShapeSteps, ShapeReturns DEF CheckV2, Upgrading, Pcs
  <2> HIDE DEF Moved
  <2>4. TypeOK'
    BY <1>1, <1>10, <2>3 DEF CheckV2, TypeOK, Moved
  <2> QED BY <2>3, <2>4 DEF Typed, Moved
<1>11. CASE EnqueueTail(p)
  <2>1. c.root \in Roots
    BY <1>2, <1>11 DEF EnqueueTail
  <2>2. Moved
    BY <1>11, <2>1, ShapeReturns DEF EnqueueTail
  <2> HIDE DEF Moved
  <2>3. TypeOK'
    BY <1>1, <1>11, <2>1, <2>2 DEF EnqueueTail, TypeOK, Moved
  <2> QED BY <2>2, <2>3 DEF Typed, Moved
<1>12. CASE Crash(p)
  <2>1. Moved
    BY <1>12, ShapeReturns DEF Crash
  <2>2. torn' \in {"no", "tail", "bad"}
    BY <1>1, <1>12 DEF Crash, TornBy, TypeOK
  <2> HIDE DEF Moved
  <2>3. TypeOK'
    BY <1>1, <1>12, <2>1, <2>2 DEF Crash, TypeOK, Moved
  <2> QED BY <2>1, <2>3 DEF Typed, Moved
<1> QED BY <1>3, <1>4, <1>5, <1>6, <1>7, <1>8, <1>9, <1>10, <1>11, <1>12

-----------------------------------------------------------------------------
\* The other steps of a command keep its locals until it ends.
Goes(p, pcs) ==
  /\ Moves(p) /\ cmd[p].pc # "idle"
  /\ cmd'[p].pc = "idle" \/ (SameLocals(cmd'[p], cmd[p]) /\ cmd'[p].pc \in pcs)

\* A step, or the end, of a command is a move of it.
LEMMA StepGoes ==
  ASSUME Typed, NEW p \in Procs, cmd[p].pc # "idle", NEW pcs \in SUBSET Pcs,
         \/ \E pc \in pcs : Step(p, pc)
         \/ \E op \in {"timestamp", "upgrade"} : ReturnOk(p, op)
         \/ ReturnErr(p) \/ cmd' = [cmd EXCEPT ![p] = Idle]
  PROVE  Goes(p, pcs)
<1>1. TypeOK
  BY DEF Typed
<1>2. ASSUME NEW pc \in pcs, Step(p, pc)
      PROVE  Goes(p, pcs)
  BY <1>1, <1>2, StepMoves DEF Goes, Moves
<1>3. CASE cmd' = [cmd EXCEPT ![p] = Idle]
  BY <1>1, <1>3, IdleMoves DEF Goes, Moves
<1> QED BY <1>2, <1>3 DEF ReturnOk, ReturnErr

\* Where each step of a command leads.
LEMMA StepsGo ==
  ASSUME Typed, NEW p \in Procs
  PROVE  /\ CommitTimestamp(p) => Goes(p, {"append", "rollback"})
         /\ AppendEntry(p) => Goes(p, {"publish", "rollback"})
         /\ Publish(p) => Goes(p, {"rollback"})
         /\ Rekey(p) => Goes(p, {"checkV2"})
         /\ CommitUpgrade(p) => Goes(p, {"upgradePublish"})
         /\ PublishUpgrade(p) => Goes(p, {"checkV2", "upgradeRollback"})
         /\ CheckV2(p) => Goes(p, {"appendV2", "enqueue"})
         /\ AppendV2(p) => Goes(p, {"enqueue"})
         /\ RepairBreccia(p) \/ Rollback(p) \/ RollbackUpgrade(p) \/ EnqueueTail(p) \/ AppendTail(p) \/ Crash(p)
              => Goes(p, {})
<1> USE StepGoes DEF Pcs
<1>1. CommitTimestamp(p) => Goes(p, {"append", "rollback"})
  BY DEF CommitTimestamp
<1>2. AppendEntry(p) => Goes(p, {"publish", "rollback"})
  BY DEF AppendEntry
<1>3. Publish(p) => Goes(p, {"rollback"})
  BY DEF Publish
<1>4. Rekey(p) => Goes(p, {"checkV2"})
  BY DEF Rekey
<1>5. CommitUpgrade(p) => Goes(p, {"upgradePublish"})
  BY DEF CommitUpgrade
<1>6. PublishUpgrade(p) => Goes(p, {"checkV2", "upgradeRollback"})
  BY DEF PublishUpgrade
<1>7. CheckV2(p) => Goes(p, {"appendV2", "enqueue"})
  BY DEF CheckV2
<1>8. AppendV2(p) => Goes(p, {"enqueue"})
  BY DEF AppendV2
<1>9. RepairBreccia(p) \/ Rollback(p) \/ RollbackUpgrade(p) => Goes(p, {})
  BY DEF RepairBreccia, Rollback, RollbackUpgrade
<1>10. EnqueueTail(p) \/ AppendTail(p) \/ Crash(p) => Goes(p, {})
  BY DEF EnqueueTail, AppendTail, Crash
<1> QED BY <1>1, <1>2, <1>3, <1>4, <1>5, <1>6, <1>7, <1>8, <1>9, <1>10

\* Every store and every command keeps its type, whatever commands run side by
\* side, fail and are killed: every v2 record has a height, every record a key.
THEOREM CommitTyped == Spec => []Typed
<1>1. Typed /\ [Next]_vars => Typed'
  <2> SUFFICES ASSUME Typed, [Next]_vars
               PROVE  Typed'
    OBVIOUS
  <2>1. CASE UNCHANGED vars
    BY <2>1 DEF vars, Typed, TypeOK
  <2>2. CASE Next
    BY <2>2, TypedEnvironment, TypedStarts, SubmitTyped, FetchTyped, LogTyped, StepsTyped
       DEF Next, CommandStep
  <2> QED BY <2>1, <2>2
<1> QED BY TypedInit, <1>1, PTL DEF Spec

-----------------------------------------------------------------------------
\* The four stores, while commands of different roots run side by side

\* No two commands work on the same commitment at the same time.
DistinctRoots ==
  \A p, q \in Procs : p # q /\ cmd[p].pc # "idle" /\ cmd[q].pc # "idle" => cmd[p].root # cmd[q].root

\* A command that has not looked for a v2 record in vain is not going to append
\* one, and nobody else appends one for its root.
OneV2Inv ==
  /\ Typed /\ OneV2PerRoot
  /\ \A p \in Procs : cmd[p].pc \in {"appendV2", "importTail"} => ~HasV2(cmd[p].root)

\* Steps that do not append.
LEMMA OneV2Quiet ==
  ASSUME OneV2Inv, Typed', NEW p \in Procs, Moves(p), UNCHANGED log,
         cmd'[p].pc \in {"appendV2", "importTail"} => ~HasV2(cmd'[p].root)
  PROVE  OneV2Inv'
<1>1. OneV2PerRoot'
  BY DEF OneV2Inv, OneV2PerRoot
<1>2. ASSUME NEW q \in Procs, cmd'[q].pc \in {"appendV2", "importTail"}
      PROVE  ~HasV2(cmd[q].root)'
  <2>1. ~HasV2(cmd'[q].root)
    BY <1>2 DEF OneV2Inv, Moves, Others
  <2> QED BY <2>1 DEF HasV2
<1> QED BY <1>1, <1>2 DEF OneV2Inv

\* An append of a v1 record, or of the first v2 record of a root on which no
\* other command works.
LEMMA OneV2Appends ==
  ASSUME OneV2Inv, DistinctRoots, Typed', NEW p \in Procs, Goes(p, Pcs \ {"appendV2", "importTail"}),
         NEW e \in Records, append_blob(e),
         e.v = 2 => e.root = cmd[p].root /\ ~HasV2(e.root)
  PROVE  OneV2Inv'
<1>1. TypeOK /\ log \in Seq(Records) /\ Len(log) \in Nat
  BY LenProperties DEF OneV2Inv, Typed, TypeOK
<1>2. /\ log' \in Seq(Records) /\ Len(log') = Len(log) + 1
      /\ \A i \in 1 .. Len(log) : log'[i] = log[i]
      /\ log'[Len(log) + 1] = e
  BY <1>1, AppendTyped
<1>3. DOMAIN log = 1 .. Len(log) /\ DOMAIN log' = 1 .. Len(log) + 1
  BY <1>1, <1>2
<1>4. OneV2PerRoot'
  <2> SUFFICES ASSUME NEW i \in 1 .. Len(log) + 1, NEW j \in 1 .. Len(log) + 1,
                      log'[i].v = 2, log'[j].v = 2, log'[i].root = log'[j].root
               PROVE  i = j
    BY <1>3 DEF OneV2PerRoot
  <2>1. CASE i \in 1 .. Len(log) /\ j \in 1 .. Len(log)
    BY <1>2, <1>3, <2>1 DEF OneV2Inv, OneV2PerRoot
  <2>2. CASE i \in 1 .. Len(log) /\ j = Len(log) + 1
    BY <1>2, <1>3, <2>2 DEF HasV2
  <2>3. CASE i = Len(log) + 1 /\ j \in 1 .. Len(log)
    BY <1>2, <1>3, <2>3 DEF HasV2
  <2> QED BY <1>1, <2>1, <2>2, <2>3
<1>5. ASSUME NEW q \in Procs, cmd'[q].pc \in {"appendV2", "importTail"}
      PROVE  ~HasV2(cmd[q].root)'
  <2>1. q # p /\ cmd'[q] = cmd[q]
    BY <1>5 DEF Goes, Moves, Others
  <2>2. ~HasV2(cmd[q].root) /\ cmd[q].root # cmd[p].root
    BY <1>5, <2>1 DEF OneV2Inv, DistinctRoots, Goes
  <2> QED BY <1>1, <1>2, <1>3, <2>1, <2>2 DEF HasV2
<1> QED BY <1>4, <1>5 DEF OneV2Inv

\* The appends of a command.
LEMMA OneV2Logs ==
  ASSUME OneV2Inv, DistinctRoots, Typed', NEW p \in Procs,
         RepairBreccia(p) \/ AppendEntry(p) \/ AppendV2(p) \/ AppendTail(p)
  PROVE  OneV2Inv'
<1> DEFINE c == cmd[p]
<1> USE CommitAssumption
<1>1. Typed /\ TypeOK /\ Shape(c) /\ c \in Locals
  BY DEF OneV2Inv, Typed, TypeOK
<1>2. c.old \in Metas /\ c.new \in Metas /\ c.old.at \in 0 .. MaxTime /\ c.new.at \in 0 .. MaxTime
  BY <1>1 DEF Locals, Metas
<1>3. Goes(p, {"publish", "rollback", "enqueue"})
  BY <1>1, StepsGo DEF Goes
<1>4. Goes(p, Pcs \ {"appendV2", "importTail"}) /\ cmd'[p].pc \notin {"appendV2", "importTail"} /\ Moves(p)
  BY <1>3 DEF Goes, Pcs
<1>5. CASE append_fails
  BY <1>4, <1>5, OneV2Quiet DEF append_fails
<1>6. CASE /\ c.pc \in {"repair", "append"}
           /\ \E key \in {c.old.key, c.new.key}, at \in {c.old.at, c.new.at} :
                key \in Keys /\ append_blob(Entry(1, c.root, key, at, Pending))
  <2>1. PICK key \in {c.old.key, c.new.key}, at \in {c.old.at, c.new.at} :
          key \in Keys /\ append_blob(Entry(1, c.root, key, at, Pending))
    BY <1>6
  <2>2. c.root \in Roots
    BY <1>1, <1>6 DEF Shape
  <2> DEFINE e == Entry(1, c.root, key, at, Pending)
  <2>3. e \in Records /\ e.v # 2
    BY <1>2, <2>1, <2>2 DEF Entry, Records
  <2> HIDE DEF e
  <2> QED BY <1>4, <2>1, <2>3, OneV2Appends DEF e
<1>7. CASE c.pc \in {"appendV2", "importTail"} /\ \E e \in Records : e.root = c.root /\ append_blob(e)
  <2>1. PICK e \in Records : e.root = c.root /\ append_blob(e)
    BY <1>7
  <2>2. ~HasV2(c.root)
    BY <1>7 DEF OneV2Inv
  <2> QED BY <1>4, <2>1, <2>2, OneV2Appends
<1>8. CASE RepairBreccia(p)
  <2>1. c.pc = "repair" /\ c.old.key \in Keys
    BY <1>1, <1>8 DEF RepairBreccia, Shape
  <2> QED BY <1>5, <1>6, <1>8, <2>1 DEF RepairBreccia
<1>9. CASE AppendEntry(p)
  <2>1. c.pc = "append" /\ c.new.key \in Keys
    BY <1>1, <1>9 DEF AppendEntry, Shape, Stamping, Proofs
  <2> QED BY <1>5, <1>6, <1>9, <2>1 DEF AppendEntry
<1>10. CASE AppendV2(p)
  <2> DEFINE e == Entry(2, c.root, c.new.key, c.new.at, c.proof.height)
  <2>1. c.pc = "appendV2" /\ c.root \in Roots /\ c.new.key \in Keys /\ c.proof.height \in Heights
    BY <1>1, <1>10 DEF AppendV2, Shape, Upgrading, Proofs
  <2>2. e \in Records /\ e.root = c.root
    BY <1>2, <2>1 DEF Entry, Records
  <2>3. append_blob(e) \/ append_fails
    BY <1>10 DEF AppendV2
  <2> HIDE DEF e
  <2> QED BY <1>5, <1>7, <2>1, <2>2, <2>3
<1>11. CASE AppendTail(p)
  <2> DEFINE e == [Entry(2, c.root, c.proof.key, c.new.at, c.proof.height) EXCEPT !.peer = TRUE]
  <2>1. c.pc = "importTail" /\ c.root \in Roots /\ c.proof.key \in Keys /\ c.proof.height \in Heights
    BY <1>1, <1>11 DEF AppendTail, Shape, Proofs
  <2>2. e \in Records /\ e.root = c.root
    BY <1>2, <2>1 DEF Entry, Records
  <2>3. append_blob(e) \/ append_fails
    BY <1>11 DEF AppendTail
  <2> HIDE DEF e
  <2> QED BY <1>5, <1>7, <2>1, <2>2, <2>3
<1> QED BY <1>8, <1>9, <1>10, <1>11

\* Every step keeps it while commands work on different roots.
LEMMA OneV2Next ==
  ASSUME OneV2Inv, DistinctRoots, Typed', Next
  PROVE  OneV2Inv'
<1>1. Typed /\ TypeOK
  BY DEF OneV2Inv, Typed
<1>2. ASSUME NEW p \in Procs, NEW r \in Roots, NEW force \in BOOLEAN, Upgrade(p, r) \/ Timestamp(p, r, force)
      PROVE  OneV2Inv'
  <2>1. Moves(p) /\ cmd'[p].pc \in {"fetch", "repair", "submit"} /\ UNCHANGED log
    BY <1>1, <1>2, UpgradeMoves, TimestampMoves DEF Upgrade, Timestamp
  <2> QED BY <2>1, OneV2Quiet
<1>3. ASSUME NEW p \in Procs, NEW t \in Tails, ImportTail(p, t)
      PROVE  OneV2Inv'
  <2>1. Moves(p) /\ Started(cmd'[p], t.root) /\ ~HasV2(t.root) /\ UNCHANGED log
    BY <1>1, <1>3, ImportMoves DEF ImportTail
  <2> QED BY <2>1, OneV2Quiet DEF Started
<1>4. ASSUME NEW p \in Procs, Submit(p)
      PROVE  OneV2Inv'
  <2>1. cmd[p].pc = "submit" /\ UNCHANGED log
    BY <1>4 DEF Submit
  <2>2. CASE ReturnErr(p)
    <3>1. Goes(p, {})
      BY <1>1, <2>1, <2>2, StepGoes
    <3> QED BY <2>1, <3>1, OneV2Quiet DEF Goes
  <2>3. ASSUME NEW proof \in SubmitAnswers(cmd[p].root), Submitted(p, proof)
        PROVE  OneV2Inv'
    BY <1>1, <2>1, <2>3, SubmitMoves, OneV2Quiet
  <2> QED BY <1>4, <2>2, <2>3 DEF Submit, Submitted
<1>5. ASSUME NEW p \in Procs, Fetch(p)
      PROVE  OneV2Inv'
  <2>1. cmd[p].pc = "fetch" /\ UNCHANGED log
    BY <1>5 DEF Fetch
  <2>2. CASE ReturnErr(p)
    <3>1. Goes(p, {})
      BY <1>1, <2>1, <2>2, StepGoes
    <3> QED BY <2>1, <3>1, OneV2Quiet DEF Goes
  <2>3. CASE ~ReturnErr(p)
    <3>1. Moves(p) /\ Fetched(cmd'[p], cmd[p], cal[cmd[p].root])
      BY <1>1, <1>5, <2>3, FetchMoves
    <3>2. cmd'[p].pc \notin {"appendV2", "importTail"}
      BY <3>1 DEF Fetched
    <3> QED BY <2>1, <3>1, <3>2, OneV2Quiet
  <2> QED BY <2>2, <2>3
<1>6. ASSUME NEW p \in Procs, CheckV2(p)
      PROVE  OneV2Inv'
  <2>1. Goes(p, {"appendV2", "enqueue"}) /\ UNCHANGED log
    BY <1>1, <1>6, StepsGo DEF CheckV2
  <2>2. cmd'[p].pc = "appendV2" => ~HasV2(cmd'[p].root)
    <3>1. CASE ReturnOk(p, "upgrade") \/ ReturnErr(p)
      BY <1>1, <3>1, IdleMoves DEF ReturnOk, ReturnErr
    <3>2. CASE Step(p, IF HasV2(cmd[p].root) THEN "enqueue" ELSE "appendV2")
      BY <1>1, <2>1, <3>2, StepMoves DEF Goes, SameLocals, Pcs
    <3> QED BY <1>6, <3>1, <3>2 DEF CheckV2
  <2> QED BY <2>1, <2>2, OneV2Quiet DEF Goes
<1>7. ASSUME NEW p \in Procs,
             \/ CommitTimestamp(p) \/ Publish(p) \/ Rollback(p) \/ Rekey(p) \/ CommitUpgrade(p)
             \/ PublishUpgrade(p) \/ RollbackUpgrade(p) \/ EnqueueTail(p) \/ Crash(p)
      PROVE  OneV2Inv'
  <2>1. Moves(p) /\ cmd'[p].pc \notin {"appendV2", "importTail"}
    BY <1>1, <1>7, StepsGo DEF Goes
  <2>2. UNCHANGED log
    BY <1>7 DEF CommitTimestamp, Publish, Rollback, Rekey, CommitUpgrade, PublishUpgrade, RollbackUpgrade,
                EnqueueTail, Crash
  <2> QED BY <2>1, <2>2, OneV2Quiet
<1>8. ASSUME UNCHANGED <<log, cmd>>
      PROVE  OneV2Inv'
  BY <1>8 DEF OneV2Inv, OneV2PerRoot, HasV2
<1> QED
  BY <1>2, <1>3, <1>4, <1>5, <1>6, <1>7, <1>8, OneV2Logs
     DEF Next, CommandStep, Encode, CalendarAnchors, Tick

\* A root has at most one v2 record, however often it is upgraded, imported and
\* interrupted, as long as no two commands work on one root at the same time:
\* the look into the log and the append are two steps.
THEOREM AtMostOneV2 == Spec /\ []DistinctRoots => []OneV2PerRoot
<1>1. Init => OneV2Inv
  <2> SUFFICES ASSUME Init PROVE OneV2Inv
    OBVIOUS
  <2>1. log = <<>> /\ \A p \in Procs : cmd[p].pc = "idle"
    BY DEF Init, Idle
  <2>2. DOMAIN log = {}
    BY <2>1
  <2>3. OneV2PerRoot
    BY <2>2 DEF OneV2PerRoot
  <2> QED BY <2>1, <2>3, TypedInit DEF OneV2Inv
<1>2. OneV2Inv /\ DistinctRoots /\ Typed' /\ [Next]_vars => OneV2Inv'
  <2> SUFFICES ASSUME OneV2Inv, DistinctRoots, Typed', [Next]_vars
               PROVE  OneV2Inv'
    OBVIOUS
  <2>1. CASE UNCHANGED vars
    BY <2>1 DEF vars, OneV2Inv, OneV2PerRoot, HasV2
  <2>2. CASE Next
    BY <2>2, OneV2Next
  <2> QED BY <2>1, <2>2
<1>3. OneV2Inv => OneV2PerRoot
  BY DEF OneV2Inv
<1> QED BY CommitTyped, <1>1, <1>2, <1>3, PTL DEF Spec

-----------------------------------------------------------------------------
\* The four stores, without --force and without encoding a file again

\* The metadata a command read, or wrote, are still those in the store.
Unwritten == {"submit", "repair", "commit", "fetch", "rekey", "upgradeCommit", "importTail"}
Written == {"append", "publish", "upgradePublish", "upgradeRollback", "checkV2", "appendV2", "enqueue"}
Synced(c) ==
  /\ c.pc \in Unwritten => meta[c.root] = c.old
  /\ c.pc \in Written => meta[c.root] = c.new
  /\ c.pc = "rollback" => meta[c.root] \in {c.old, c.new}

\* A timestamp finds no published proof, an upgrade replaces only a pending one,
\* and queues a tail only for a root that has a v2 record.
PublishedAt(c) ==
  /\ c.pc \in Stamping \cup {"submit"} => ots[c.root] = NoProof
  /\ c.pc \in Upgrading \cup {"fetch"} => is_timestamped(c.old)
  /\ c.pc \in {"fetch", "rekey", "checkV2", "appendV2", "enqueue"} => ots[c.root] = c.proof
  /\ c.pc \in {"upgradeCommit", "upgradePublish", "upgradeRollback"} => ots[c.root].height = Pending
  /\ c.pc = "enqueue" => HasV2(c.root)

\* A confirmed proof, and a v2 record made from one, is the calendar's proof of
\* its root, which never changes again.
Confirmed(r, key, height) == height # Pending => cal[r] = [key |-> key, height |-> height]

Agrees(c) ==
  /\ Synced(c) /\ PublishedAt(c)
  /\ c.pc \in Stamping \cup Upgrading => Confirmed(c.root, c.proof.key, c.proof.height)

CommandsAgree == \A p \in Procs : Agrees(cmd[p])

MetaAgrees ==
  \A r \in Roots :
    /\ ~meta[r].known => meta[r].key = NoKey
    /\ ots[r] # NoProof => is_timestamped(meta[r])

CalendarAgrees ==
  /\ \A r \in Roots : Confirmed(r, ots[r].key, ots[r].height)
  /\ \A i \in 1 .. Len(log) : log[i].v = 2 /\ ~log[i].peer => Confirmed(log[i].root, log[i].key, log[i].height)

StoresInv == Typed /\ (Unforced => CommandsAgree /\ MetaAgrees /\ CalendarAgrees)

-----------------------------------------------------------------------------

\* No step unsettles a confirmed proof of the calendar.
CalendarKept == \A r \in Roots : cal[r].height # Pending => cal'[r] = cal[r]

\* The calendar changes a proof only by confirming it (CalendarAnchors), or by
\* taking a digest it did not know (Submit).
LEMMA CalendarKeeps ==
  ASSUME Typed, Next
  PROVE  CalendarKept
<1>1. cal \in [Roots -> Proofs \cup {NoProof}]
  BY DEF Typed, TypeOK
<1>2. ASSUME NEW r \in Roots, CalendarAnchors(r)
      PROVE  CalendarKept
  BY <1>1, <1>2 DEF CalendarAnchors, CalendarKept
<1>3. ASSUME NEW p \in Procs, Submit(p)
      PROVE  CalendarKept
  <2>1. NoProof.height = Pending
    BY DEF NoProof
  <2>2. PICK proof : cal' \in {cal, [cal EXCEPT ![cmd[p].root] = IF @ = NoProof THEN proof ELSE @]}
    BY <1>3 DEF Submit
  <2> QED BY <1>1, <2>1, <2>2 DEF CalendarKept
<1>4. CASE UNCHANGED cal
  BY <1>4 DEF CalendarKept
<1> QED
  BY <1>2, <1>3, <1>4
     DEF Next, CommandStep, Encode, Tick, Crash, Upgrade, Timestamp, ImportTail,
         RepairBreccia, CommitTimestamp, AppendEntry, Publish, Rollback, Fetch, Rekey, CommitUpgrade,
         PublishUpgrade, RollbackUpgrade, CheckV2, AppendV2, EnqueueTail, AppendTail

\* What is confirmed stays so.
LEMMA ConfirmedKept ==
  ASSUME CalendarKept, NEW r \in Roots, NEW key, NEW height, Confirmed(r, key, height)
  PROVE  Confirmed(r, key, height)'
  BY DEF CalendarKept, Confirmed

\* The stores of a root on which a step does not work.
Untouched(r) == meta'[r] = meta[r] /\ ots'[r] = ots[r] /\ (HasV2(r) => HasV2(r)')

\* A command that does not move still agrees with stores nobody touched.
LEMMA AgreesKept ==
  ASSUME Typed, CalendarKept, NEW q \in Procs, Agrees(cmd[q]), cmd'[q] = cmd[q],
         cmd[q].pc # "idle" => Untouched(cmd[q].root)
  PROVE  Agrees(cmd[q])'
<1>1. CASE cmd[q].pc = "idle"
  BY <1>1 DEF Agrees, Synced, PublishedAt, Unwritten, Written, Stamping, Upgrading
<1>2. CASE cmd[q].pc # "idle"
  <2>1. cmd[q].root \in Roots /\ Untouched(cmd[q].root)
    BY <1>2 DEF Typed, Shape
  <2>2. Synced(cmd[q])' /\ PublishedAt(cmd[q])'
    BY <2>1 DEF Agrees, Synced, PublishedAt, Untouched
  <2>3. cmd[q].pc \in Stamping \cup Upgrading =>
          Confirmed(cmd[q].root, cmd[q].proof.key, cmd[q].proof.height)'
    BY <2>1, ConfirmedKept DEF Agrees
  <2> QED BY <2>2, <2>3 DEF Agrees
<1> QED BY <1>1, <1>2

\* Under DistinctRoots a step of one command does not touch the stores of the
\* root of another.
LEMMA CommandsKept ==
  ASSUME Typed, CommandsAgree, DistinctRoots, CalendarKept, NEW p \in Procs, Moves(p),
         \A r \in Roots : r # cmd[p].root \/ cmd[p].pc = "idle" => Untouched(r),
         Agrees(cmd[p])'
  PROVE  CommandsAgree'
<1> SUFFICES ASSUME NEW q \in Procs PROVE Agrees(cmd[q])'
  BY DEF CommandsAgree
<1>1. CASE q = p
  BY <1>1
<1>2. CASE q # p
  <2>1. cmd'[q] = cmd[q] /\ Agrees(cmd[q])
    BY <1>2 DEF Moves, Others, CommandsAgree
  <2>2. cmd[q].pc # "idle" => cmd[q].root \in Roots /\ (cmd[q].root # cmd[p].root \/ cmd[p].pc = "idle")
    BY <1>2 DEF Typed, Shape, DistinctRoots
  <2> QED BY <2>1, <2>2, AgreesKept
<1> QED BY <1>1, <1>2

\* A command that ends agrees with anything.
LEMMA IdleAgrees == ASSUME NEW p \in Procs, cmd'[p].pc = "idle" PROVE Agrees(cmd[p])'
  BY DEF Agrees, Synced, PublishedAt, Unwritten, Written, Stamping, Upgrading

\* The log keeps agreeing with the calendar.
LEMMA CalendarAgreesKept ==
  ASSUME Typed, CalendarAgrees, CalendarKept, UNCHANGED log,
         \A r \in Roots : Confirmed(r, ots[r].key, ots[r].height)'
  PROVE  CalendarAgrees'
<1>1. ASSUME NEW i \in 1 .. Len(log), log[i].v = 2, ~log[i].peer
      PROVE  Confirmed(log[i].root, log[i].key, log[i].height)'
  <2>1. log[i] \in Records
    BY ElementOfSeq DEF Typed, TypeOK
  <2>2. log[i].root \in Roots
    BY <2>1 DEF Records
  <2>3. Confirmed(log[i].root, log[i].key, log[i].height)
    BY <1>1 DEF CalendarAgrees
  <2> DEFINE r == log[i].root  k == log[i].key  h == log[i].height
  <2> HIDE DEF r, k, h
  <2>4. (h # Pending => cal'[r] = [key |-> k, height |-> h])
    BY <2>2, <2>3 DEF Confirmed, CalendarKept, r, k, h
  <2> QED BY <2>4 DEF Confirmed, r, k, h
<1> QED BY <1>1 DEF CalendarAgrees, Confirmed

\* Published proofs that are not replaced keep agreeing.
LEMMA OtsConfirmedKept ==
  ASSUME Typed, CalendarAgrees, CalendarKept, NEW r \in Roots, ots'[r] = ots[r]
  PROVE  Confirmed(r, ots[r].key, ots[r].height)'
  BY DEF CalendarAgrees, Confirmed, CalendarKept

Agreement == CommandsAgree /\ MetaAgrees /\ CalendarAgrees

\* A step of p that writes at most the metadata of its root, to metadata of a
\* known commitment, timestamped if it has a proof.
LEMMA MetaSteps ==
  ASSUME Typed, Agreement, DistinctRoots, CalendarKept, NEW p \in Procs, Moves(p), cmd[p].pc # "idle",
         UNCHANGED <<ots, log>>, NEW m,
         \A r \in Roots : meta'[r] = IF r = cmd[p].root THEN m ELSE meta[r],
         m = meta[cmd[p].root] \/ (m.known /\ (ots[cmd[p].root] # NoProof => is_timestamped(m))),
         Agrees(cmd[p])'
  PROVE  Agreement'
<1>1. \A r \in Roots : r # cmd[p].root => Untouched(r)
  BY DEF Untouched, HasV2
<1>2. CommandsAgree'
  BY <1>1, CommandsKept DEF Agreement
<1>3. MetaAgrees'
  BY DEF Agreement, MetaAgrees, is_timestamped
<1>4. CalendarAgrees'
  BY CalendarAgreesKept, OtsConfirmedKept DEF Agreement
<1> QED BY <1>2, <1>3, <1>4 DEF Agreement

\* What the transactions do to the metadata.
LEMMA LmdbMeta ==
  ASSUME TypeOK, NEW r \in Roots, NEW old, NEW new
  PROVE  /\ Rekeyed(r, old, new) => \A s \in Roots : meta'[s] = IF s = r THEN new ELSE meta[s]
         /\ RolledBack(r, old, new) =>
              \E m \in {old, meta[r]} : \A s \in Roots : meta'[s] = IF s = r THEN m ELSE meta[s]
         /\ UNCHANGED lmdb => \A s \in Roots : meta'[s] = IF s = r THEN meta[r] ELSE meta[s]
<1>1. meta \in [Roots -> Metas]
  BY DEF TypeOK
<1>2. Rekeyed(r, old, new) => \A s \in Roots : meta'[s] = IF s = r THEN new ELSE meta[s]
  BY <1>1 DEF Rekeyed
<1>3. UNCHANGED lmdb => \A s \in Roots : meta'[s] = IF s = r THEN meta[r] ELSE meta[s]
  BY DEF lmdb
<1>4. ASSUME RolledBack(r, old, new)
      PROVE  \E m \in {old, meta[r]} : \A s \in Roots : meta'[s] = IF s = r THEN m ELSE meta[s]
  <2>1. meta' = [meta EXCEPT ![r] = old] \/ UNCHANGED lmdb
    BY <1>4 DEF RolledBack
  <2>2. CASE meta' = [meta EXCEPT ![r] = old]
    BY <1>1, <2>2
  <2> QED BY <1>3, <2>1, <2>2
<1> QED BY <1>2, <1>3, <1>4

\* The commits of a timestamp and of an upgrade: the metadata that were read
\* are replaced by those that were made from them, or stay.
LEMMA CommitsAgree ==
  ASSUME Typed, Agreement, DistinctRoots, CalendarKept, NEW p \in Procs,
         CommitTimestamp(p) \/ Rekey(p) \/ CommitUpgrade(p)
  PROVE  Agreement'
<1> DEFINE c == cmd[p]
<1>1. /\ c.root \in Roots /\ c.old.known /\ c.new.known /\ is_timestamped(c.new)
      /\ meta[c.root] = c.old /\ Agrees(c) /\ c.pc \in {"commit", "rekey", "upgradeCommit"}
  <2>1. c.pc \in {"commit", "rekey", "upgradeCommit"} /\ Agrees(c) /\ Shape(c)
    BY DEF CommitTimestamp, Rekey, CommitUpgrade, Agreement, CommandsAgree, Typed
  <2>2. c.proof.key \in Keys /\ c.proof.key # NoKey
    BY <2>1, CommitAssumption DEF Shape, Stamping, Upgrading, Proofs
  <2> QED BY <2>1, <2>2 DEF Shape, Stamping, Upgrading, Agrees, Synced, Unwritten, is_timestamped
<1>2. UNCHANGED <<ots, log>>
  BY DEF CommitTimestamp, Rekey, CommitUpgrade
<1>3. CASE Rekeyed(c.root, c.old, c.new) /\ \E pc \in {"append", "checkV2", "upgradePublish"} :
             Step(p, pc) /\ (pc = "append" <=> c.pc = "commit") /\ (pc = "checkV2" <=> c.pc = "rekey")
  <2>1. PICK pc \in {"append", "checkV2", "upgradePublish"} :
          Step(p, pc) /\ (pc = "append" <=> c.pc = "commit") /\ (pc = "checkV2" <=> c.pc = "rekey")
    BY <1>3
  <2>2. Moves(p) /\ cmd'[p].pc = pc /\ SameLocals(cmd'[p], c)
    BY <2>1, StepMoves DEF Typed, Moves, Pcs
  <2>3. \A r \in Roots : meta'[r] = IF r = c.root THEN c.new ELSE meta[r]
    BY <1>1, <1>3, LmdbMeta DEF Typed
  <2>4. Synced(cmd[p])'
    BY <1>1, <2>2, <2>3 DEF Synced, SameLocals, Unwritten, Written
  <2>5. PublishedAt(cmd[p])'
    BY <1>1, <1>2, <2>1, <2>2 DEF Agrees, PublishedAt, SameLocals, Stamping, Upgrading
  <2>6. Confirmed(c.root, c.proof.key, c.proof.height)
    BY <1>1 DEF Agrees, Stamping, Upgrading
  <2>7. Confirmed(cmd[p].root, cmd[p].proof.key, cmd[p].proof.height)'
    BY <1>1, <2>2, <2>6 DEF Confirmed, CalendarKept, SameLocals
  <2>8. Agrees(cmd[p])'
    BY <2>4, <2>5, <2>7 DEF Agrees
  <2> QED BY <1>1, <1>2, <2>2, <2>3, <2>8, MetaSteps
<1>4. CASE UNCHANGED lmdb /\ (ReturnErr(p) \/ (Step(p, "rollback") /\ c.pc = "commit"))
  <2>1. \A r \in Roots : meta'[r] = IF r = c.root THEN meta[c.root] ELSE meta[r]
    BY <1>4 DEF lmdb
  <2>2. CASE ReturnErr(p)
    <3>1. Moves(p) /\ cmd'[p].pc = "idle"
      BY <2>2, IdleMoves DEF ReturnErr, Typed, Moves
    <3> QED BY <1>1, <1>2, <2>1, <3>1, IdleAgrees, MetaSteps
  <2>3. CASE Step(p, "rollback") /\ c.pc = "commit"
    <3>1. Moves(p) /\ cmd'[p].pc = "rollback" /\ SameLocals(cmd'[p], c)
      BY <2>3, StepMoves DEF Typed, Moves, Pcs
    <3>2. Synced(cmd[p])' /\ PublishedAt(cmd[p])'
      BY <1>1, <1>2, <2>1, <2>3, <3>1
         DEF Agrees, Synced, PublishedAt, SameLocals, Unwritten, Written, Stamping, Upgrading
    <3>3. Confirmed(c.root, c.proof.key, c.proof.height)
      BY <1>1 DEF Agrees, Stamping, Upgrading
    <3>4. Confirmed(cmd[p].root, cmd[p].proof.key, cmd[p].proof.height)'
      BY <1>1, <3>1, <3>3 DEF Confirmed, CalendarKept, SameLocals
    <3>5. Agrees(cmd[p])'
      BY <3>2, <3>4 DEF Agrees
    <3> QED BY <1>1, <1>2, <2>1, <3>1, <3>5, MetaSteps
  <2> QED BY <1>4, <2>2, <2>3
<1>5. CASE CommitTimestamp(p)
  BY <1>3, <1>4, <1>5 DEF CommitTimestamp
<1>6. CASE Rekey(p)
  BY <1>3, <1>4, <1>6 DEF Rekey
<1>7. CASE CommitUpgrade(p)
  BY <1>3, <1>4, <1>7 DEF CommitUpgrade
<1> QED BY <1>5, <1>6, <1>7

\* A rollback puts back what the command read: metadata of a known commitment,
\* and with a published proof timestamped ones.
LEMMA RollbacksAgree ==
  ASSUME Typed, Agreement, DistinctRoots, CalendarKept, NEW p \in Procs,
         Rollback(p) \/ RollbackUpgrade(p)
  PROVE  Agreement'
<1> DEFINE c == cmd[p]
<1>1. c.pc \in {"rollback", "upgradeRollback"} /\ Agrees(c) /\ Shape(c)
  BY DEF Rollback, RollbackUpgrade, Agreement, CommandsAgree, Typed
<1>2. c.root \in Roots /\ c.old.known /\ (ots[c.root] # NoProof => is_timestamped(c.old))
  BY <1>1 DEF Shape, Agrees, PublishedAt, Stamping, Upgrading
<1>3. UNCHANGED <<ots, log>> /\ ReturnErr(p)
  BY DEF Rollback, RollbackUpgrade
<1>4. Moves(p) /\ cmd'[p].pc = "idle"
  BY <1>3, IdleMoves DEF ReturnErr, Typed, Moves
<1>5. RolledBack(c.root, c.old, c.new) \/ UNCHANGED lmdb
  BY DEF Rollback, RollbackUpgrade
<1>6. PICK m \in {c.old, meta[c.root]} : \A r \in Roots : meta'[r] = IF r = c.root THEN m ELSE meta[r]
  BY <1>2, <1>5, LmdbMeta DEF Typed
<1> QED BY <1>1, <1>2, <1>3, <1>4, <1>6, IdleAgrees, MetaSteps

\* A step of p that leaves metadata, proofs and log alone.
LEMMA QuietAgrees ==
  ASSUME Typed, Agreement, DistinctRoots, CalendarKept, NEW p \in Procs, Moves(p),
         UNCHANGED <<meta, ots, log>>, Agrees(cmd[p])'
  PROVE  Agreement'
<1>1. \A r \in Roots : Untouched(r)
  BY DEF Untouched, HasV2
<1>2. CommandsAgree'
  BY <1>1, CommandsKept DEF Agreement
<1>3. MetaAgrees'
  BY DEF Agreement, MetaAgrees, is_timestamped
<1>4. CalendarAgrees'
  BY CalendarAgreesKept, OtsConfirmedKept DEF Agreement
<1> QED BY <1>2, <1>3, <1>4 DEF Agreement

\* Publishing replaces the proof of a root by the one its metadata name, and
\* only where none or a pending one was.
LEMMA PublishesAgree ==
  ASSUME Typed, Agreement, DistinctRoots, CalendarKept, NEW p \in Procs,
         Publish(p) \/ PublishUpgrade(p)
  PROVE  /\ Agreement'
         /\ \A r \in Roots : ots[r].height # Pending => ots'[r] = ots[r]
<1> DEFINE c == cmd[p]
<1>1. c.pc \in {"publish", "upgradePublish"} /\ Agrees(c) /\ Shape(c)
  BY DEF Publish, PublishUpgrade, Agreement, CommandsAgree, Typed
<1>2. /\ c.root \in Roots /\ c.proof \in Proofs /\ is_timestamped(c.new) /\ meta[c.root] = c.new
      /\ ots[c.root].height = Pending /\ Confirmed(c.root, c.proof.key, c.proof.height)
  <2>1. c.proof \in Proofs /\ c.root \in Roots /\ c.new.key = c.proof.key /\ c.new.path
    BY <1>1 DEF Shape, Stamping, Upgrading
  <2>2. c.proof.key # NoKey
    BY <2>1, CommitAssumption DEF Proofs
  <2>3. ots[c.root].height = Pending
    BY <1>1 DEF Agrees, PublishedAt, Stamping, NoProof
  <2> QED BY <1>1, <2>1, <2>2, <2>3 DEF Agrees, Synced, Written, Stamping, Upgrading, is_timestamped
<1>3. UNCHANGED <<meta, log>> /\ ots \in [Roots -> Proofs \cup {NoProof}]
  BY DEF Publish, PublishUpgrade, Typed, TypeOK
<1>4. Goes(p, {"rollback", "checkV2", "upgradeRollback"})
  BY StepsGo DEF Goes
<1>5. CASE UNCHANGED ots /\ (cmd'[p].pc = "idle" \/ (c.pc = "publish" /\ cmd'[p].pc = "rollback")
                                               \/ (c.pc = "upgradePublish" /\ cmd'[p].pc = "upgradeRollback"))
  <2>1. CASE cmd'[p].pc = "idle"
    BY <1>3, <1>4, <1>5, <2>1, IdleAgrees, QuietAgrees DEF Goes
  <2>2. CASE cmd'[p].pc # "idle"
    <3>1. SameLocals(cmd'[p], c)
      BY <1>4, <2>2 DEF Goes
    <3>2. Synced(cmd[p])'
      BY <1>1, <1>3, <1>5, <2>2, <3>1 DEF Agrees, Synced, SameLocals, Unwritten, Written
    <3>3. PublishedAt(cmd[p])'
      BY <1>1, <1>5, <2>2, <3>1 DEF Agrees, PublishedAt, SameLocals, Stamping, Upgrading
    <3>4. Confirmed(cmd[p].root, cmd[p].proof.key, cmd[p].proof.height)'
      BY <1>2, <3>1 DEF Confirmed, CalendarKept, SameLocals
    <3>5. Agrees(cmd[p])'
      BY <3>2, <3>3, <3>4 DEF Agrees
    <3> QED BY <1>3, <1>4, <1>5, <3>5, QuietAgrees DEF Goes
  <2> QED BY <2>1, <2>2
<1>6. CASE /\ ots' = [ots EXCEPT ![c.root] = c.proof]
           /\ cmd'[p].pc = "idle" \/ (c.pc = "upgradePublish" /\ cmd'[p].pc = "checkV2")
  <2>1. \A r \in Roots : ots'[r] = IF r = c.root THEN c.proof ELSE ots[r]
    BY <1>3, <1>6
  <2>2. \A r \in Roots : r # c.root => Untouched(r)
    BY <1>3, <2>1 DEF Untouched, HasV2
  <2>3. Agrees(cmd[p])'
    <3>1. CASE cmd'[p].pc = "idle"
      BY <3>1, IdleAgrees
    <3>2. CASE c.pc = "upgradePublish" /\ cmd'[p].pc = "checkV2"
      <4>1. SameLocals(cmd'[p], c)
        BY <1>4, <3>2 DEF Goes
      <4>2. Synced(cmd[p])' /\ PublishedAt(cmd[p])'
        BY <1>1, <1>2, <1>3, <2>1, <3>2, <4>1
           DEF Agrees, Synced, PublishedAt, SameLocals, Unwritten, Written, Stamping, Upgrading
      <4>3. Confirmed(cmd[p].root, cmd[p].proof.key, cmd[p].proof.height)'
        BY <1>2, <4>1 DEF Confirmed, CalendarKept, SameLocals
      <4> QED BY <4>2, <4>3 DEF Agrees
    <3> QED BY <1>6, <3>1, <3>2
  <2>4. CommandsAgree'
    BY <1>1, <1>4, <2>2, <2>3, CommandsKept DEF Agreement, Goes
  <2>5. MetaAgrees'
    BY <1>2, <1>3, <2>1 DEF Agreement, MetaAgrees, is_timestamped
  <2>6. \A r \in Roots : Confirmed(r, ots[r].key, ots[r].height)'
    BY <1>2, <2>1 DEF Agreement, CalendarAgrees, Confirmed, CalendarKept
  <2>7. CalendarAgrees'
    BY <1>3, <2>6, CalendarAgreesKept DEF Agreement
  <2> QED BY <1>2, <2>1, <2>4, <2>5, <2>7 DEF Agreement
<1>7. CASE Publish(p)
  <2>1. c.pc = "publish"
    BY <1>7 DEF Publish
  <2>2. CASE ots' = [ots EXCEPT ![c.root] = c.proof] /\ ReturnOk(p, "timestamp")
    <3>1. cmd'[p].pc = "idle"
      BY <2>2, IdleMoves DEF ReturnOk, Typed
    <3> QED BY <1>6, <2>2, <3>1
  <2>3. CASE UNCHANGED ots /\ Step(p, "rollback")
    <3>1. cmd'[p].pc = "rollback"
      BY <2>3, StepMoves DEF Typed, Pcs
    <3> QED BY <1>5, <2>1, <2>3, <3>1
  <2> QED BY <1>7, <2>2, <2>3 DEF Publish
<1>8. CASE PublishUpgrade(p)
  <2>1. c.pc = "upgradePublish"
    BY <1>8 DEF PublishUpgrade
  <2>2. CASE ots' = [ots EXCEPT ![c.root] = c.proof] /\ Step(p, "checkV2")
    <3>1. cmd'[p].pc = "checkV2"
      BY <2>2, StepMoves DEF Typed, Pcs
    <3> QED BY <1>6, <2>1, <2>2, <3>1
  <2>3. CASE UNCHANGED ots /\ (Step(p, "upgradeRollback") \/ ReturnErr(p))
    <3>1. cmd'[p].pc = "upgradeRollback" \/ cmd'[p].pc = "idle"
      BY <2>3, StepMoves, IdleMoves DEF Typed, Pcs, ReturnErr
    <3> QED BY <1>5, <2>1, <2>3, <3>1
  <2> QED BY <1>8, <2>2, <2>3 DEF PublishUpgrade
<1> QED BY <1>7, <1>8

\* Records are only added, a v2 record of our own with what the calendar
\* confirmed.
LEMMA LogGrows ==
  ASSUME Typed, Agreement, DistinctRoots, CalendarKept, NEW p \in Procs, Moves(p),
         UNCHANGED <<meta, ots>>, NEW e \in Records, append_blob(e),
         e.v = 2 /\ ~e.peer => Confirmed(e.root, e.key, e.height),
         Agrees(cmd[p])'
  PROVE  Agreement'
<1>1. log \in Seq(Records) /\ Len(log) \in Nat
  BY LenProperties DEF Typed, TypeOK
<1>2. /\ log' \in Seq(Records) /\ Len(log') = Len(log) + 1
      /\ \A i \in 1 .. Len(log) : log'[i] = log[i]
      /\ log'[Len(log) + 1] = e
  BY AppendTyped DEF Typed
<1>3. DOMAIN log = 1 .. Len(log) /\ DOMAIN log' = 1 .. Len(log) + 1
  BY <1>1, <1>2
<1>4. \A r \in Roots : Untouched(r)
  BY <1>1, <1>2, <1>3 DEF Untouched, HasV2
<1>5. CommandsAgree'
  BY <1>4, CommandsKept DEF Agreement
<1>6. MetaAgrees'
  BY DEF Agreement, MetaAgrees, is_timestamped
<1>7. CalendarAgrees'
  <2>1. \A r \in Roots : Confirmed(r, ots[r].key, ots[r].height)'
    BY OtsConfirmedKept DEF Agreement
  <2>2. ASSUME NEW i \in 1 .. Len(log'), log'[i].v = 2, ~log'[i].peer
        PROVE  log'[i].height # Pending => cal'[log'[i].root] = [key |-> log'[i].key, height |-> log'[i].height]
    <3>1. \A x \in Records : x.root \in Roots
      BY DEF Records
    <3>2. CASE i \in 1 .. Len(log)
      <4>1. log'[i] = log[i] /\ log[i] \in Records
        BY <1>1, <1>2, <3>2, ElementOfSeq
      <4>2. Confirmed(log[i].root, log[i].key, log[i].height)
        BY <2>2, <3>2, <4>1 DEF Agreement, CalendarAgrees
      <4> QED BY <3>1, <4>1, <4>2 DEF Confirmed, CalendarKept
    <3>3. CASE i = Len(log) + 1
      BY <1>2, <2>2, <3>1, <3>3 DEF Confirmed, CalendarKept
    <3> QED BY <1>1, <1>2, <3>2, <3>3
  <2> QED BY <2>1, <2>2 DEF CalendarAgrees, Confirmed
<1> QED BY <1>5, <1>6, <1>7 DEF Agreement

\* The appends of a command, whole or failed.
LEMMA LogsAgree ==
  ASSUME Typed, Agreement, DistinctRoots, CalendarKept, NEW p \in Procs,
         RepairBreccia(p) \/ AppendEntry(p) \/ AppendV2(p) \/ AppendTail(p)
  PROVE  Agreement'
<1> DEFINE c == cmd[p]
<1> USE CommitAssumption
<1>1. TypeOK /\ Shape(c) /\ Agrees(c) /\ c \in Locals
  BY DEF Agreement, CommandsAgree, Typed, TypeOK
<1>2. c.old.at \in 0 .. MaxTime /\ c.new.at \in 0 .. MaxTime
  BY <1>1 DEF Locals, Metas
<1>3. UNCHANGED <<meta, ots>>
  BY DEF RepairBreccia, AppendEntry, AppendV2, AppendTail
<1>4. Goes(p, {"publish", "rollback", "enqueue"})
  BY StepsGo DEF Goes
<1>5. Moves(p)
  BY <1>4 DEF Goes
<1>6. CASE RepairBreccia(p)
  <2> DEFINE e == Entry(1, c.root, c.old.key, c.old.at, Pending)
  <2>1. c.root \in Roots /\ c.old.key \in Keys
    BY <1>1, <1>6 DEF Shape, RepairBreccia
  <2>2. e \in Records /\ e.v # 2
    BY <1>2, <2>1 DEF Entry, Records
  <2>3. Agrees(cmd[p])'
    BY <1>6, StepsGo, IdleAgrees DEF Goes
  <2> HIDE DEF e
  <2>4. CASE append_blob(e)
    BY <1>3, <1>5, <2>2, <2>3, <2>4, LogGrows
  <2>5. CASE append_fails
    BY <1>3, <1>5, <2>3, <2>5, QuietAgrees DEF append_fails
  <2> QED BY <1>6, <2>4, <2>5 DEF RepairBreccia, e
<1>7. CASE AppendEntry(p)
  <2> DEFINE e == Entry(1, c.root, c.new.key, c.new.at, Pending)
  <2>1. c.pc = "append" /\ c.root \in Roots /\ c.new.key \in Keys
    BY <1>1, <1>7 DEF Shape, AppendEntry, Stamping, Proofs
  <2>2. e \in Records /\ e.v # 2
    BY <1>2, <2>1 DEF Entry, Records
  <2>3. Agrees(cmd[p])'
    <3>1. CASE cmd'[p].pc = "idle"
      BY <3>1, IdleAgrees
    <3>2. CASE SameLocals(cmd'[p], c) /\ cmd'[p].pc \in {"publish", "rollback"}
      <4>1. Synced(cmd[p])' /\ PublishedAt(cmd[p])'
        BY <1>1, <1>3, <2>1, <3>2
           DEF Agrees, Synced, PublishedAt, SameLocals, Unwritten, Written, Stamping, Upgrading
      <4>2. Confirmed(c.root, c.proof.key, c.proof.height)
        BY <1>1, <2>1 DEF Agrees, Stamping
      <4>3. Confirmed(cmd[p].root, cmd[p].proof.key, cmd[p].proof.height)'
        BY <2>1, <3>2, <4>2 DEF Confirmed, CalendarKept, SameLocals
      <4> QED BY <4>1, <4>3 DEF Agrees
    <3> QED BY <1>7, <3>1, <3>2, StepsGo DEF Goes
  <2> HIDE DEF e
  <2>4. CASE append_blob(e)
    BY <1>3, <1>5, <2>2, <2>3, <2>4, LogGrows
  <2>5. CASE append_fails
    BY <1>3, <1>5, <2>3, <2>5, QuietAgrees DEF append_fails
  <2> QED BY <1>7, <2>4, <2>5 DEF AppendEntry, e
<1>8. CASE AppendV2(p)
  <2> DEFINE e == Entry(2, c.root, c.new.key, c.new.at, c.proof.height)
  <2>1. /\ c.pc = "appendV2" /\ c.root \in Roots /\ c.new.key = c.proof.key /\ c.new.key \in Keys
        /\ c.proof.height \in Heights
    BY <1>1, <1>8 DEF Shape, AppendV2, Upgrading, Proofs
  <2>2. e \in Records /\ e.root = c.root /\ e.key = c.proof.key /\ e.height = c.proof.height /\ e.v = 2
    BY <1>2, <2>1 DEF Entry, Records
  <2>3. Confirmed(c.root, c.proof.key, c.proof.height)
    BY <1>1, <2>1 DEF Agrees, Upgrading
  <2> HIDE DEF e
  <2>4. CASE append_blob(e) /\ Step(p, "enqueue")
    <3>1. Moves(p) /\ cmd'[p].pc = "enqueue" /\ SameLocals(cmd'[p], c)
      BY <1>1, <2>4, StepMoves DEF Moves, Pcs
    <3>2. HasV2(cmd[p].root)'
      <4>1. log' \in Seq(Records) /\ Len(log') = Len(log) + 1 /\ log'[Len(log) + 1] = e
        BY <1>1, <2>2, <2>4, AppendTyped
      <4>2. Len(log) + 1 \in DOMAIN log'
        BY <1>1, <4>1, LenProperties DEF TypeOK
      <4> QED BY <2>2, <3>1, <4>1, <4>2 DEF HasV2, SameLocals
    <3>3. Synced(cmd[p])'
      BY <1>1, <1>3, <2>1, <3>1 DEF Agrees, Synced, SameLocals, Unwritten, Written
    <3>4. PublishedAt(cmd[p])'
      BY <1>1, <1>3, <2>1, <3>1, <3>2 DEF Agrees, PublishedAt, SameLocals, Stamping, Upgrading
    <3>5. Confirmed(cmd[p].root, cmd[p].proof.key, cmd[p].proof.height)'
      BY <2>1, <2>3, <3>1 DEF Confirmed, CalendarKept, SameLocals
    <3>6. Agrees(cmd[p])'
      BY <3>3, <3>4, <3>5 DEF Agrees
    <3> QED BY <1>3, <2>2, <2>3, <2>4, <3>1, <3>6, LogGrows
  <2>5. CASE append_fails /\ ReturnErr(p)
    <3>1. Agrees(cmd[p])'
      BY <1>1, <2>5, IdleMoves, IdleAgrees DEF ReturnErr
    <3> QED BY <1>3, <1>5, <2>5, <3>1, QuietAgrees DEF append_fails
  <2> QED BY <1>8, <2>4, <2>5 DEF AppendV2, e
<1>9. CASE AppendTail(p)
  <2> DEFINE e == [Entry(2, c.root, c.proof.key, c.new.at, c.proof.height) EXCEPT !.peer = TRUE]
  <2>1. c.pc = "importTail" /\ c.root \in Roots /\ c.proof.key \in Keys /\ c.proof.height \in Heights
    BY <1>1, <1>9 DEF Shape, AppendTail, Proofs
  <2>2. e \in Records /\ e.peer
    BY <1>2, <2>1 DEF Entry, Records
  <2>3. Agrees(cmd[p])'
    BY <1>9, StepsGo, IdleAgrees DEF Goes
  <2> HIDE DEF e
  <2>4. CASE append_blob(e)
    BY <1>3, <1>5, <2>2, <2>3, <2>4, LogGrows
  <2>5. CASE append_fails
    BY <1>3, <1>5, <2>3, <2>5, QuietAgrees DEF append_fails
  <2> QED BY <1>9, <2>4, <2>5 DEF AppendTail, e
<1> QED BY <1>6, <1>7, <1>8, <1>9

\* The look for a v2 record, the queue and a crash.
LEMMA TailsAgree ==
  ASSUME Typed, Agreement, DistinctRoots, CalendarKept, NEW p \in Procs,
         CheckV2(p) \/ EnqueueTail(p) \/ Crash(p)
  PROVE  Agreement'
<1> DEFINE c == cmd[p]
<1>1. UNCHANGED <<meta, ots, log>> /\ Goes(p, {"appendV2", "enqueue"})
  BY StepsGo DEF CheckV2, EnqueueTail, Crash, Goes
<1>2. CASE cmd'[p].pc = "idle"
  BY <1>1, <1>2, IdleAgrees, QuietAgrees DEF Goes
<1>3. CASE cmd'[p].pc # "idle"
  <2>1. CheckV2(p) /\ c.pc = "checkV2" /\ SameLocals(cmd'[p], c)
    BY <1>1, <1>3, StepsGo DEF Goes, CheckV2
  <2>2. Step(p, IF HasV2(c.root) THEN "enqueue" ELSE "appendV2")
    BY <1>3, <2>1, IdleMoves DEF CheckV2, ReturnOk, ReturnErr, Typed
  <2>3. cmd'[p].pc = IF HasV2(c.root) THEN "enqueue" ELSE "appendV2"
    BY <2>2, StepMoves DEF Typed, Pcs
  <2>4. Agrees(c) /\ c.root \in Roots
    BY <2>1 DEF Agreement, CommandsAgree, Typed, Shape
  <2>5. Synced(cmd[p])'
    BY <1>1, <2>1, <2>3, <2>4 DEF Agrees, Synced, SameLocals, Unwritten, Written
  <2>6. PublishedAt(cmd[p])'
    BY <1>1, <2>1, <2>3, <2>4 DEF Agrees, PublishedAt, SameLocals, Stamping, Upgrading, HasV2
  <2>7. Confirmed(c.root, c.proof.key, c.proof.height)
    BY <2>1, <2>4 DEF Agrees, Upgrading
  <2>8. Confirmed(cmd[p].root, cmd[p].proof.key, cmd[p].proof.height)'
    BY <2>1, <2>4, <2>7 DEF Confirmed, CalendarKept, SameLocals
  <2>9. Agrees(cmd[p])'
    BY <2>5, <2>6, <2>8 DEF Agrees
  <2> QED BY <1>1, <2>9, QuietAgrees DEF Goes
<1> QED BY <1>2, <1>3

\* A submission is answered with the calendar's proof or with a pending one.
LEMMA SubmitAgrees ==
  ASSUME Typed, Agreement, DistinctRoots, CalendarKept, NEW p \in Procs, Submit(p)
  PROVE  Agreement'
<1> DEFINE c == cmd[p]
<1>1. /\ UNCHANGED <<meta, ots, log>> /\ c.pc = "submit" /\ Agrees(c)
      /\ c.root \in Roots
  BY DEF Submit, Agreement, CommandsAgree, Typed, Shape
<1>2. CASE ReturnErr(p)
  <2>1. Moves(p) /\ cmd'[p].pc = "idle"
    BY <1>2, IdleMoves DEF ReturnErr, Typed, Moves
  <2> QED BY <1>1, <2>1, IdleAgrees, QuietAgrees
<1>3. ASSUME NEW proof \in SubmitAnswers(c.root), Submitted(p, proof)
      PROVE  Agreement'
  <2>1. /\ Moves(p) /\ proof \in Proofs /\ (proof.height # Pending => proof = cal[c.root])
        /\ cmd'[p].pc = "commit" /\ cmd'[p].root = c.root /\ cmd'[p].old = c.old
        /\ cmd'[p].proof = proof
    BY <1>1, <1>3, SubmitMoves
  <2>2. Synced(cmd[p])' /\ PublishedAt(cmd[p])'
    BY <1>1, <2>1 DEF Agrees, Synced, PublishedAt, Unwritten, Written, Stamping, Upgrading
  <2>3. Confirmed(cmd[p].root, cmd[p].proof.key, cmd[p].proof.height)'
    BY <1>1, <2>1 DEF Confirmed, CalendarKept, Proofs
  <2>4. Agrees(cmd[p])'
    BY <2>2, <2>3 DEF Agrees
  <2> QED BY <1>1, <2>1, <2>4, QuietAgrees
<1> QED BY <1>2, <1>3 DEF Submit, Submitted

\* An upgrade fetches the calendar's proof: where the published one is already
\* confirmed it is the same, so only a pending one is going to be replaced.
LEMMA FetchAgrees ==
  ASSUME Typed, Agreement, DistinctRoots, CalendarKept, NEW p \in Procs, Fetch(p)
  PROVE  Agreement'
<1> DEFINE c == cmd[p]
           proof == cal[c.root]
           d == cmd'[p]
<1>1. /\ UNCHANGED <<meta, ots, log, cal>> /\ c.pc = "fetch" /\ Agrees(c)
      /\ c.root \in Roots /\ c.proof \in Proofs
  BY DEF Fetch, Agreement, CommandsAgree, Typed, Shape
<1>2. CASE ReturnErr(p)
  <2>1. Moves(p) /\ cmd'[p].pc = "idle"
    BY <1>2, IdleMoves DEF ReturnErr, Typed, Moves
  <2> QED BY <1>1, <2>1, IdleAgrees, QuietAgrees
<1>3. CASE ~ReturnErr(p)
  <2>1. Moves(p) /\ proof \in Proofs /\ Fetched(d, c, proof)
    BY <1>3, FetchMoves
  <2>2. meta[c.root] = c.old /\ ots[c.root] = c.proof /\ is_timestamped(c.old)
    BY <1>1 DEF Agrees, Synced, PublishedAt, Unwritten, Upgrading
  <2>3. d.pc \in {"upgradeCommit", "upgradePublish"} => ots[c.root].height = Pending
    <3>1. ots[c.root].height # Pending => proof = ots[c.root]
      BY <1>1, <2>2 DEF Agreement, CalendarAgrees, Confirmed, Proofs
    <3> QED BY <2>1, <2>2, <3>1 DEF Fetched
  <2>4. d.pc \in {"rekey", "checkV2"} => ots[c.root] = proof
    BY <2>1, <2>2 DEF Fetched
  <2>5. d.pc \in {"upgradePublish", "checkV2"} => d.new = c.old
    BY <2>1 DEF Fetched
  <2>6. d.pc \in {"upgradeCommit", "upgradePublish", "rekey", "checkV2"} /\ d.root = c.root /\ d.old = c.old
        /\ d.proof = proof
    BY <2>1 DEF Fetched
  <2>7. Synced(cmd[p])'
    BY <1>1, <2>2, <2>5, <2>6 DEF Synced, Unwritten, Written
  <2>8. PublishedAt(cmd[p])'
    BY <1>1, <2>2, <2>3, <2>4, <2>6 DEF PublishedAt, Stamping, Upgrading
  <2>9. Confirmed(cmd[p].root, cmd[p].proof.key, cmd[p].proof.height)'
    BY <1>1, <2>1, <2>6 DEF Confirmed, Proofs
  <2>10. Agrees(cmd[p])'
    BY <2>7, <2>8, <2>9 DEF Agrees
  <2> QED BY <1>1, <2>1, <2>10, QuietAgrees
<1> QED BY <1>2, <1>3

\* Commands that start agree with the stores they have just read.
LEMMA StartsAgree ==
  ASSUME Typed, Unforced, Agreement, DistinctRoots, CalendarKept, NEW p \in Procs,
         \/ \E r \in Roots : Upgrade(p, r)
         \/ \E r \in Roots, force \in BOOLEAN : Timestamp(p, r, force)
         \/ \E t \in Tails : ImportTail(p, t)
  PROVE  Agreement'
<1>1. TypeOK
  BY DEF Typed
<1>2. ASSUME NEW r \in Roots, Upgrade(p, r)
      PROVE  Agreement'
  <2>1. Moves(p) /\ Started(cmd'[p], r) /\ cmd'[p].pc = "fetch" /\ cmd'[p].proof = ots[r]
    BY <1>1, <1>2, UpgradeMoves
  <2>2. UNCHANGED <<meta, ots, log>> /\ is_timestamped(meta[r])
    BY <1>2 DEF Upgrade, Agreement, MetaAgrees
  <2>3. Agrees(cmd[p])'
    BY <2>1, <2>2 DEF Agrees, Synced, PublishedAt, Started, Unwritten, Written, Stamping, Upgrading
  <2> QED BY <2>1, <2>2, <2>3, QuietAgrees
<1>3. ASSUME NEW r \in Roots, NEW force \in BOOLEAN, Timestamp(p, r, force)
      PROVE  Agreement'
  <2>1. Moves(p) /\ Started(cmd'[p], r) /\ cmd'[p].pc \in {"repair", "submit"}
    BY <1>1, <1>3, TimestampMoves
  <2>2. ~force
    BY <1>3 DEF Timestamp, Unforced
  <2>3. cmd'[p].pc = "submit" => ots[r] = NoProof
    BY <1>1, <1>3, <2>2, TimestampMoves DEF Agreement, MetaAgrees
  <2>4. UNCHANGED <<meta, ots, log>>
    BY <1>3 DEF Timestamp
  <2>5. Agrees(cmd[p])'
    BY <2>1, <2>3, <2>4 DEF Agrees, Synced, PublishedAt, Started, Unwritten, Written, Stamping, Upgrading
  <2> QED BY <2>1, <2>4, <2>5, QuietAgrees
<1>4. ASSUME NEW t \in Tails, ImportTail(p, t)
      PROVE  Agreement'
  <2>1. /\ Moves(p) /\ t.root \in Roots /\ Started(cmd'[p], t.root) /\ cmd'[p].pc = "importTail"
        /\ cmd'[p].proof = [key |-> t.key, height |-> t.height]
    BY <1>1, <1>4, ImportMoves
  <2>2. UNCHANGED <<meta, ots, log, cal>>
    BY <1>4 DEF ImportTail
  <2>3. Agrees(cmd[p])'
    BY <2>1, <2>2 DEF Agrees, Synced, PublishedAt, Started, Unwritten, Written, Stamping, Upgrading
  <2> QED BY <2>1, <2>2, <2>3, QuietAgrees
<1> QED BY <1>2, <1>3, <1>4

\* A command at work knows a commitment, so encoding another file does not
\* touch its stores; the calendar changes nothing that is confirmed.
LEMMA EnvironmentAgrees ==
  ASSUME Typed, Unforced, Agreement, CalendarKept,
         \/ \E r \in Roots : Encode(r) \/ CalendarAnchors(r)
         \/ Tick
  PROVE  Agreement'
<1>1. \A q \in Procs : cmd[q].pc # "idle" => cmd[q].root \in Roots /\ meta[cmd[q].root].known
  <2> SUFFICES ASSUME NEW q \in Procs, cmd[q].pc # "idle"
               PROVE  cmd[q].root \in Roots /\ meta[cmd[q].root].known
    OBVIOUS
  <2>1. Shape(cmd[q]) /\ Synced(cmd[q])
    BY DEF Typed, Agreement, CommandsAgree, Agrees
  <2>2. cmd[q].pc \in Unwritten \cup Written \cup {"rollback"}
    BY DEF Typed, TypeOK, Locals, Pcs, Unwritten, Written
  <2> QED BY <2>1, <2>2 DEF Shape, Synced, Unwritten, Written, Stamping, Upgrading
<1>2. CASE /\ UNCHANGED <<ots, log, cmd>> /\ (UNCHANGED meta \/ \E r \in Roots : Encode(r))
  <2> DEFINE Encoded == \A r \in Roots : meta'[r] = meta[r] \/ (~meta[r].known /\ meta'[r].key = NoKey)
  <2>1. Encoded
    <3>1. CASE UNCHANGED meta
      BY <3>1
    <3>2. ASSUME NEW r \in Roots, Encode(r)
          PROVE  Encoded
      <4>1. ~meta[r].known
        BY <3>2 DEF Encode, Unforced
      <4>2. \A s \in Roots : meta'[s] = IF s = r THEN FreshMeta ELSE meta[s]
        BY <3>2 DEF Encode, Typed, TypeOK
      <4>3. FreshMeta.key = NoKey
        BY DEF FreshMeta, NoMeta
      <4> QED BY <4>1, <4>2, <4>3
    <3> QED BY <1>2, <3>1, <3>2
  <2>2. CommandsAgree'
    <3> SUFFICES ASSUME NEW q \in Procs PROVE Agrees(cmd[q])'
      BY DEF CommandsAgree
    <3>1. cmd[q].pc # "idle" => Untouched(cmd[q].root)
      BY <1>1, <1>2, <2>1 DEF Untouched, HasV2
    <3> QED BY <1>2, <3>1, AgreesKept DEF Agreement, CommandsAgree
  <2>3. MetaAgrees'
    BY <1>2, <2>1 DEF Agreement, MetaAgrees, is_timestamped
  <2>4. \A r \in Roots : Confirmed(r, ots[r].key, ots[r].height)'
    BY <1>2, OtsConfirmedKept DEF Agreement
  <2>5. ASSUME NEW i \in 1 .. Len(log), log[i].v = 2, ~log[i].peer
        PROVE  log[i].height # Pending => cal'[log[i].root] = [key |-> log[i].key, height |-> log[i].height]
    <3>1. log[i] \in Records
      BY ElementOfSeq DEF Typed, TypeOK
    <3>2. log[i].root \in Roots
      BY <3>1 DEF Records
    <3> QED BY <2>5, <3>2 DEF Agreement, CalendarAgrees, Confirmed, CalendarKept
  <2>6. CalendarAgrees'
    BY <1>2, <2>4, <2>5 DEF CalendarAgrees, Confirmed
  <2> QED BY <2>2, <2>3, <2>6 DEF Agreement
<1>3. ASSUME NEW r \in Roots, Encode(r) \/ CalendarAnchors(r)
      PROVE  Agreement'
  BY <1>2, <1>3 DEF Encode, CalendarAnchors
<1>4. CASE Tick
  BY <1>2, <1>4 DEF Tick
<1> QED BY <1>3, <1>4

\* Every step keeps the stores and the commands in agreement.
LEMMA AgreementNext ==
  ASSUME Typed, Unforced, Agreement, DistinctRoots, Next
  PROVE  Agreement'
<1>1. CalendarKept
  BY CalendarKeeps
<1> QED
  BY <1>1, EnvironmentAgrees, StartsAgree, SubmitAgrees, FetchAgrees, CommitsAgree, RollbacksAgree,
     PublishesAgree, LogsAgree, TailsAgree
     DEF Next, CommandStep

\* Metadata, proof files, log and calendar agree at every step of every command,
\* whatever commands of other roots do and whatever fails: what a command read
\* before it called the calendar is still true when it writes.
THEOREM StoresInvariant == Spec /\ []DistinctRoots => []StoresInv
<1>1. Init => StoresInv
  <2> SUFFICES ASSUME Init PROVE StoresInv
    OBVIOUS
  <2>1. \A p \in Procs : cmd[p].pc = "idle"
    BY DEF Init, Idle
  <2>2. CommandsAgree
    BY <2>1 DEF CommandsAgree, Agrees, Synced, PublishedAt, Unwritten, Written, Stamping, Upgrading
  <2>3. MetaAgrees
    BY DEF Init, MetaAgrees, NoMeta
  <2>4. CalendarAgrees
    <3>1. Len(log) = 0 /\ \A r \in Roots : ots[r] = NoProof
      BY DEF Init
    <3> QED BY <3>1 DEF CalendarAgrees, Confirmed, NoProof
  <2> QED BY <2>2, <2>3, <2>4, TypedInit DEF StoresInv
<1>2. StoresInv /\ DistinctRoots /\ Typed' /\ [Next]_vars => StoresInv'
  <2> SUFFICES ASSUME StoresInv, DistinctRoots, Typed', [Next]_vars
               PROVE  StoresInv'
    OBVIOUS
  <2>1. CASE UNCHANGED vars
    BY <2>1 DEF vars, StoresInv, Unforced, CommandsAgree, Agrees, Synced, PublishedAt, HasV2, MetaAgrees,
                CalendarAgrees, Confirmed
  <2>2. CASE Next
    <3>1. Unforced' = Unforced
      BY <2>2 DEF Next, Unforced
    <3>2. Unforced => Agreement'
      BY <2>2, AgreementNext DEF StoresInv, Agreement
    <3> QED BY <3>1, <3>2 DEF StoresInv, Agreement
  <2> QED BY <2>1, <2>2
<1> QED BY CommitTyped, <1>1, <1>2, PTL DEF Spec

\* A confirmed proof that is published is never replaced, neither by a retried
\* timestamp nor by a failed or repeated upgrade.
THEOREM ConfirmedProofsStay == Spec /\ []DistinctRoots => ConfirmedProofKept
<1>1. StoresInv /\ DistinctRoots /\ [Next]_vars
        => [\A r \in Roots : ots[r].height # Pending /\ Unforced => ots'[r] = ots[r]]_vars
  <2> SUFFICES ASSUME StoresInv, DistinctRoots, Next, Unforced
               PROVE  \A r \in Roots : ots[r].height # Pending => ots'[r] = ots[r]
    OBVIOUS
  <2>1. Typed /\ Agreement /\ CalendarKept
    BY CalendarKeeps DEF StoresInv, Agreement
  <2>2. ASSUME NEW p \in Procs, Publish(p) \/ PublishUpgrade(p)
        PROVE  \A r \in Roots : ots[r].height # Pending => ots'[r] = ots[r]
    BY <2>1, <2>2, PublishesAgree
  <2>3. CASE UNCHANGED ots
    BY <2>3
  <2> QED
    BY <2>2, <2>3
       DEF Next, CommandStep, Encode, CalendarAnchors, Tick, Crash, Upgrade, Timestamp, ImportTail,
           RepairBreccia, Submit, CommitTimestamp, AppendEntry, Rollback, Fetch, Rekey, CommitUpgrade,
           RollbackUpgrade, CheckV2, AppendV2, EnqueueTail, AppendTail
<1> QED BY StoresInvariant, <1>1, PTL DEF Spec, ConfirmedProofKept

-----------------------------------------------------------------------------
\* The listing, with --force and with files that are encoded again

\* No timestamp that rolls back has a key under which another commitment is
\* listed: rollback_timestamp_lmdb would take that entry away.  A timestamp that
\* was refused for its key is in that state, see the run commit_same_key.
Uncontested == \A p \in Procs : cmd[p].pc = "rollback" => KeyFree(order, cmd[p].new.key, cmd[p].root)

\* A command's root is listed under the key it read until it commits, and under
\* the key it committed until it ends, whatever its metadata are by then.
Holds(c) ==
  /\ c.pc \in Unwritten /\ c.old.key # NoKey => order[c.old.key] = c.root
  /\ c.pc \in Written => order[c.new.key] = c.root

ListedInv == Typed /\ TimestampedListed /\ \A p \in Procs : Holds(cmd[p])

\* Entries of roots other than r stay.
OthersListed(r) == \A k \in Keys : order[k] \notin {r, NoRoot} => order'[k] = order[k]

\* The keys of a command's metadata.
LEMMA KeysTyped ==
  ASSUME Typed, NEW p \in Procs, cmd[p].pc # "idle"
  PROVE  /\ cmd[p].root \in Roots /\ cmd[p].root # NoRoot
         /\ cmd[p].old \in Metas /\ cmd[p].new \in Metas
         /\ cmd[p].old.key \in Keys \cup {NoKey} /\ cmd[p].new.key \in Keys \cup {NoKey}
         /\ cmd[p].pc \in Stamping \cup Upgrading => cmd[p].new.key \in Keys
<1>1. cmd[p] \in Locals /\ Shape(cmd[p])
  BY DEF Typed, TypeOK
<1>2. cmd[p].root \in Roots /\ cmd[p].old \in Metas /\ cmd[p].new \in Metas
  BY <1>1 DEF Shape, Locals
<1>3. cmd[p].pc \in Stamping \cup Upgrading => cmd[p].new.key \in Keys
  BY <1>1 DEF Shape, Proofs
<1> QED BY <1>2, <1>3, CommitAssumption DEF Metas

\* When the entries of other roots stay and p holds its own, all commands do.
LEMMA HoldsKept ==
  ASSUME ListedInv, DistinctRoots, NEW p \in Procs, Moves(p), cmd[p].pc # "idle",
         OthersListed(cmd[p].root), Holds(cmd[p])'
  PROVE  \A q \in Procs : Holds(cmd[q])'
<1> SUFFICES ASSUME NEW q \in Procs, q # p, cmd[q].pc # "idle" PROVE Holds(cmd[q])'
  BY DEF Moves, Others, Holds, Unwritten, Written
<1>1. cmd'[q] = cmd[q] /\ Holds(cmd[q]) /\ cmd[q].root # cmd[p].root
  BY DEF Moves, Others, ListedInv, DistinctRoots
<1>2. /\ cmd[q].root # NoRoot
      /\ cmd[q].old.key \in Keys \cup {NoKey}
      /\ cmd[q].pc \in Stamping \cup Upgrading => cmd[q].new.key \in Keys
  BY KeysTyped DEF ListedInv
<1>3. cmd[q].pc \in Written => cmd[q].pc \in Stamping \cup Upgrading
  BY DEF Written, Stamping, Upgrading
<1> QED BY <1>1, <1>2, <1>3 DEF Holds, OthersListed

\* Steps that write neither LMDB database.
LEMMA ListedQuiet ==
  ASSUME ListedInv, Typed', NEW p \in Procs, Moves(p), UNCHANGED <<meta, order>>, Holds(cmd[p])'
  PROVE  ListedInv'
<1>1. \A q \in Procs : Holds(cmd[q])'
  BY DEF ListedInv, Moves, Others, Holds
<1>2. TimestampedListed'
  BY DEF ListedInv, TimestampedListed
<1> QED BY <1>1, <1>2 DEF ListedInv

\* A transaction that lists a root under the key it gives it.
LEMMA ListedWrites ==
  ASSUME ListedInv, DistinctRoots, Typed', NEW p \in Procs, Moves(p), cmd[p].pc # "idle",
         OthersListed(cmd[p].root), Holds(cmd[p])', NEW m,
         \A r \in Roots : meta'[r] = IF r = cmd[p].root THEN m ELSE meta[r],
         m.key # NoKey => order'[m.key] = cmd[p].root
  PROVE  ListedInv'
<1>1. TimestampedListed'
  <2> SUFFICES ASSUME NEW s \in Roots, meta'[s].key # NoKey PROVE order'[meta'[s].key] = s
    BY DEF TimestampedListed
  <2>1. CASE s = cmd[p].root
    BY <2>1
  <2>2. CASE s # cmd[p].root
    <3>1. meta'[s] = meta[s] /\ order[meta[s].key] = s
      BY <2>2 DEF ListedInv, TimestampedListed
    <3>2. meta[s].key \in Keys /\ s # NoRoot
      BY <3>1, CommitAssumption DEF ListedInv, Typed, TypeOK, Metas
    <3> QED BY <2>2, <3>1, <3>2 DEF OthersListed
  <2> QED BY <2>1, <2>2
<1> QED BY <1>1, HoldsKept DEF ListedInv

\* The commits: the key that goes is the root's own, the key that comes is free.
LEMMA ListedCommits ==
  ASSUME ListedInv, DistinctRoots, Typed', NEW p \in Procs,
         CommitTimestamp(p) \/ Rekey(p) \/ CommitUpgrade(p)
  PROVE  ListedInv'
<1> DEFINE c == cmd[p]
           r == cmd[p].root
           old == cmd[p].old
           new == cmd[p].new
<1>1. Typed /\ TypeOK /\ c.pc \in {"commit", "rekey", "upgradeCommit"}
  BY DEF ListedInv, Typed, CommitTimestamp, Rekey, CommitUpgrade
<1>2. /\ r \in Roots /\ r # NoRoot /\ old.key \in Keys \cup {NoKey} /\ new.key \in Keys /\ NoKey \notin Keys
  BY <1>1, KeysTyped, CommitAssumption DEF Stamping, Upgrading
<1>3. Goes(p, {"append", "rollback", "checkV2", "upgradePublish"})
  BY <1>1, StepsGo DEF Goes
<1>4. /\ meta \in [Roots -> Metas] /\ order \in [Keys -> Roots \cup {NoRoot}]
      /\ old.key # NoKey => order[old.key] = r
  BY <1>1 DEF TypeOK, ListedInv, Holds, Unwritten
<1>5. CASE ~RekeyConflicts(r, old, new) /\ Rekeyed(r, old, new)
  <2>1. (cmd'[p].pc \notin Unwritten /\ cmd'[p].root = r /\ cmd'[p].new = new) \/ cmd'[p].pc = "idle"
    BY <1>3 DEF Goes, SameLocals, Unwritten
  <2> HIDE DEF r, old, new
  <2>2. \A k \in Keys : order'[k] = IF k = new.key THEN r ELSE IF k = old.key THEN NoRoot ELSE order[k]
    BY <1>2, <1>4, <1>5 DEF Rekeyed, Unkeyed
  <2>3. OthersListed(r)
    BY <1>2, <1>4, <1>5, <2>2 DEF OthersListed, RekeyConflicts, KeyFree, Unkeyed
  <2>4. Holds(cmd[p])'
    BY <1>2, <2>1, <2>2 DEF Holds, Unwritten, Written
  <2>5. \A s \in Roots : meta'[s] = IF s = r THEN new ELSE meta[s]
    BY <1>2, <1>4, <1>5 DEF Rekeyed
  <2> QED BY <1>1, <1>2, <1>3, <2>2, <2>3, <2>4, <2>5, ListedWrites DEF Goes, r
<1>6. CASE UNCHANGED lmdb /\ cmd'[p].pc \in {"idle", "rollback"}
  <2>1. Holds(cmd[p])'
    BY <1>6 DEF Holds, Unwritten, Written
  <2> QED BY <1>3, <1>6, <2>1, ListedQuiet DEF lmdb, Goes
<1>7. CASE UNCHANGED lmdb /\ (ReturnErr(p) \/ Step(p, "rollback"))
  <2>1. cmd'[p].pc \in {"idle", "rollback"}
    BY <1>1, <1>7, IdleMoves, StepMoves DEF ReturnErr, Pcs
  <2> QED BY <1>6, <1>7, <2>1
<1> QED BY <1>5, <1>7 DEF CommitTimestamp, Rekey, CommitUpgrade

\* The rollbacks: of a timestamp whose key is not another's, and of an upgrade,
\* which committed its key.
LEMMA ListedRollbacks ==
  ASSUME ListedInv, DistinctRoots, Uncontested, Typed', NEW p \in Procs,
         Rollback(p) \/ RollbackUpgrade(p)
  PROVE  ListedInv'
<1> DEFINE c == cmd[p]
           r == cmd[p].root
           old == cmd[p].old
           new == cmd[p].new
<1>1. Typed /\ TypeOK /\ c.pc \in {"rollback", "upgradeRollback"}
  BY DEF ListedInv, Typed, Rollback, RollbackUpgrade
<1>2. /\ r \in Roots /\ r # NoRoot /\ old.key \in Keys \cup {NoKey} /\ new.key \in Keys /\ NoKey \notin Keys
  BY <1>1, KeysTyped, CommitAssumption DEF Stamping, Upgrading
<1>3. Moves(p) /\ cmd'[p].pc = "idle" /\ c.pc # "idle"
  BY <1>1, StepsGo DEF Goes
<1>4. Holds(cmd[p])'
  BY <1>3 DEF Holds, Unwritten, Written
<1>5. order[new.key] \in {r, NoRoot}
  BY <1>1 DEF Uncontested, KeyFree, ListedInv, Holds, Written
<1>6. meta \in [Roots -> Metas] /\ order \in [Keys -> Roots \cup {NoRoot}]
  BY <1>1 DEF TypeOK
<1>7. CASE UNCHANGED lmdb
  BY <1>3, <1>4, <1>7, ListedQuiet DEF lmdb
<1>8. CASE RolledBack(r, old, new) /\ ~UNCHANGED lmdb
  <2> HIDE DEF r, old, new
  <2>1. \A s \in Roots : meta'[s] = IF s = r THEN old ELSE meta[s]
    BY <1>2, <1>6, <1>8 DEF RolledBack
  <2>2. \A k \in Keys : order'[k] = IF k = old.key THEN r ELSE IF k = new.key THEN NoRoot ELSE order[k]
    BY <1>2, <1>6, <1>8 DEF RolledBack, Unkeyed
  <2>3. old.key \in Keys /\ old.key # new.key => order[old.key] \in {r, NoRoot}
    BY <1>2, <1>6, <1>8 DEF RolledBack, Unkeyed, KeyFree
  <2>4. OthersListed(r)
    BY <1>2, <1>5, <2>2, <2>3 DEF OthersListed
  <2>5. old.key # NoKey => order'[old.key] = r
    BY <1>2, <2>2
  <2> QED BY <1>3, <1>4, <2>1, <2>4, <2>5, ListedWrites DEF r
<1> QED BY <1>7, <1>8 DEF Rollback, RollbackUpgrade

\* Every step of a command and of its surroundings.
LEMMA ListedNext ==
  ASSUME ListedInv, DistinctRoots, Uncontested, Typed', Next
  PROVE  ListedInv'
<1>1. Typed /\ TypeOK /\ TimestampedListed
  BY DEF ListedInv, Typed
<1>2. ASSUME NEW p \in Procs, NEW r \in Roots, Started(cmd'[p], r), Moves(p), UNCHANGED <<meta, order>>,
             cmd'[p].pc \in {"fetch", "repair", "submit", "importTail"}
      PROVE  ListedInv'
  <2>1. Holds(cmd[p])'
    BY <1>1, <1>2 DEF Holds, Started, TimestampedListed, Written
  <2> QED BY <1>2, <2>1, ListedQuiet
<1>3. ASSUME NEW p \in Procs, NEW r \in Roots, NEW force \in BOOLEAN, Upgrade(p, r) \/ Timestamp(p, r, force)
      PROVE  ListedInv'
  BY <1>1, <1>2, <1>3, UpgradeMoves, TimestampMoves DEF Upgrade, Timestamp
<1>4. ASSUME NEW p \in Procs, NEW t \in Tails, ImportTail(p, t)
      PROVE  ListedInv'
  BY <1>1, <1>2, <1>4, ImportMoves DEF ImportTail
<1>5. ASSUME NEW p \in Procs, Moves(p), cmd'[p].pc = "idle", UNCHANGED <<meta, order>>
      PROVE  ListedInv'
  <2>1. Holds(cmd[p])'
    BY <1>5 DEF Holds, Unwritten, Written
  <2> QED BY <1>5, <2>1, ListedQuiet
<1>6. ASSUME NEW p \in Procs, Submit(p)
      PROVE  ListedInv'
  <2>1. cmd[p].pc = "submit" /\ Holds(cmd[p]) /\ UNCHANGED <<meta, order>>
    BY <1>6 DEF Submit, ListedInv
  <2>2. CASE ReturnErr(p)
    BY <1>1, <1>5, <2>1, <2>2, IdleMoves DEF ReturnErr, Moves
  <2>3. ASSUME NEW proof \in SubmitAnswers(cmd[p].root), Submitted(p, proof)
        PROVE  ListedInv'
    <3>1. Moves(p) /\ cmd'[p].pc = "commit" /\ cmd'[p].root = cmd[p].root /\ cmd'[p].old = cmd[p].old
      BY <1>1, <2>1, <2>3, SubmitMoves
    <3>2. Holds(cmd[p])'
      BY <2>1, <3>1 DEF Holds, Unwritten, Written
    <3> QED BY <2>1, <3>1, <3>2, ListedQuiet
  <2> QED BY <1>6, <2>2, <2>3 DEF Submit, Submitted
<1>7. ASSUME NEW p \in Procs, Fetch(p)
      PROVE  ListedInv'
  <2>1. cmd[p].pc = "fetch" /\ Holds(cmd[p]) /\ UNCHANGED <<meta, order>>
    BY <1>7 DEF Fetch, ListedInv
  <2>2. CASE ReturnErr(p)
    BY <1>1, <1>5, <2>1, <2>2, IdleMoves DEF ReturnErr, Moves
  <2>3. CASE ~ReturnErr(p)
    <3>1. Moves(p) /\ cal[cmd[p].root] \in Proofs /\ Fetched(cmd'[p], cmd[p], cal[cmd[p].root])
      BY <1>1, <1>7, <2>3, FetchMoves
    <3>2. cal[cmd[p].root].key # NoKey
      BY <3>1, CommitAssumption DEF Proofs
    <3>3. Holds(cmd[p])'
      BY <2>1, <3>1, <3>2 DEF Holds, Fetched, Unwritten, Written
    <3> QED BY <2>1, <3>1, <3>3, ListedQuiet
  <2> QED BY <2>2, <2>3
<1>8. ASSUME NEW p \in Procs,
             \/ RepairBreccia(p) \/ AppendEntry(p) \/ Publish(p) \/ PublishUpgrade(p)
             \/ CheckV2(p) \/ AppendV2(p) \/ EnqueueTail(p) \/ AppendTail(p) \/ Crash(p)
      PROVE  ListedInv'
  <2>1. UNCHANGED <<meta, order>> /\ Holds(cmd[p])
    BY <1>8 DEF RepairBreccia, AppendEntry, Publish, PublishUpgrade, CheckV2, AppendV2, EnqueueTail, AppendTail,
                Crash, ListedInv
  <2>2. \/ Goes(p, {}) \/ Goes(p, {"rollback"})
        \/ cmd[p].pc \in Written /\ Goes(p, {"publish", "rollback", "checkV2", "upgradeRollback", "appendV2", "enqueue"})
    <3>1. AppendEntry(p) \/ PublishUpgrade(p) \/ CheckV2(p) \/ AppendV2(p) => cmd[p].pc \in Written
      BY DEF AppendEntry, PublishUpgrade, CheckV2, AppendV2, Written
    <3> QED BY <1>1, <1>8, <3>1, StepsGo DEF Goes
  <2>3. CASE cmd'[p].pc = "idle"
    BY <1>5, <2>1, <2>2, <2>3 DEF Goes
  <2>4. CASE cmd'[p].pc # "idle"
    <3>1. Holds(cmd[p])'
      BY <2>1, <2>2, <2>4 DEF Goes, SameLocals, Holds, Unwritten, Written
    <3> QED BY <2>1, <2>2, <3>1, ListedQuiet DEF Goes
  <2> QED BY <2>3, <2>4
<1>9. ASSUME NEW r \in Roots, Encode(r)
      PROVE  ListedInv'
  <2>1. FreshMeta.key = NoKey /\ UNCHANGED <<order, cmd>>
    BY <1>9 DEF FreshMeta, NoMeta, Encode
  <2>2. \A s \in Roots : meta'[s] = IF s = r THEN FreshMeta ELSE meta[s]
    BY <1>1, <1>9 DEF Encode, TypeOK
  <2> QED BY <2>1, <2>2 DEF ListedInv, TimestampedListed, Holds
<1>10. CASE UNCHANGED <<meta, order, cmd>>
  BY <1>10 DEF ListedInv, TimestampedListed, Holds
<1> QED
  BY <1>3, <1>4, <1>6, <1>7, <1>8, <1>9, <1>10, ListedCommits, ListedRollbacks
     DEF Next, CommandStep, CalendarAnchors, Tick

\* A timestamped commitment stays listed under its key through crashes, failed
\* writes, --force and files that are encoded again, unless a timestamp is rolled
\* back whose key is another commitment's: no other step takes an entry away.
THEOREM TimestampedAreListed == Spec /\ []DistinctRoots /\ []Uncontested => []TimestampedListed
<1>1. Init => ListedInv
  <2> SUFFICES ASSUME Init PROVE ListedInv
    OBVIOUS
  <2>1. \A p \in Procs : cmd[p].pc = "idle"
    BY DEF Init, Idle
  <2>2. TimestampedListed
    BY DEF Init, TimestampedListed, NoMeta
  <2> QED BY <2>1, <2>2, TypedInit DEF ListedInv, Holds, Unwritten, Written
<1>2. ListedInv /\ DistinctRoots /\ Uncontested /\ Typed' /\ [Next]_vars => ListedInv'
  <2> SUFFICES ASSUME ListedInv, DistinctRoots, Uncontested, Typed', [Next]_vars
               PROVE  ListedInv'
    OBVIOUS
  <2>1. CASE UNCHANGED vars
    BY <2>1 DEF vars, ListedInv, TimestampedListed, Holds
  <2>2. CASE Next
    BY <2>2, ListedNext
  <2> QED BY <2>1, <2>2
<1>3. ListedInv => TimestampedListed
  BY DEF ListedInv
<1> QED BY CommitTyped, <1>1, <1>2, <1>3, PTL DEF Spec

-----------------------------------------------------------------------------
\* The index of the order keys

\* A root is listed under no other key than the one its metadata have.
OnlyOwnListed == \A k \in Keys, r \in Roots : order[k] = r => meta[r].key = k

IndexInv == Unforced => OnlyOwnListed

\* A commit starts from the listed key and removes it, a rollback removes the
\* key that was committed; encoding a new file finds it listed nowhere.
LEMMA OnlyOwnNext ==
  ASSUME Typed, Unforced, Agreement, OnlyOwnListed, Next
  PROVE  OnlyOwnListed'
<1> USE CommitAssumption
<1>1. TypeOK /\ meta \in [Roots -> Metas] /\ order \in [Keys -> Roots \cup {NoRoot}]
  BY DEF Typed, TypeOK
<1>2. ASSUME NEW r \in Roots, Encode(r)
      PROVE  OnlyOwnListed'
  <2>1. ~meta[r].known /\ UNCHANGED order
    BY <1>2 DEF Encode, Unforced
  <2>2. \A k \in Keys : order[k] # r
    BY <2>1 DEF Agreement, MetaAgrees, OnlyOwnListed
  <2>3. \A s \in Roots : s # r => meta'[s] = meta[s]
    BY <1>1, <1>2 DEF Encode
  <2> QED BY <2>1, <2>2, <2>3 DEF OnlyOwnListed
<1>3. ASSUME NEW p \in Procs, CommitTimestamp(p) \/ Rekey(p) \/ CommitUpgrade(p) \/ Rollback(p) \/ RollbackUpgrade(p)
      PROVE  OnlyOwnListed'
  <2> DEFINE r == cmd[p].root
             old == cmd[p].old
             new == cmd[p].new
  <2>1. cmd[p].pc \in {"commit", "rekey", "upgradeCommit", "rollback", "upgradeRollback"}
    BY <1>3 DEF CommitTimestamp, Rekey, CommitUpgrade, Rollback, RollbackUpgrade
  <2>2. Shape(cmd[p]) /\ Synced(cmd[p]) /\ cmd[p] \in Locals
    BY <1>1 DEF Typed, TypeOK, Agreement, CommandsAgree, Agrees
  <2>3. /\ r \in Roots /\ old.key \in Keys \cup {NoKey} /\ new.key \in Keys
    BY <2>1, <2>2 DEF Shape, Locals, Metas, Stamping, Upgrading, Proofs
  <2>4. cmd[p].pc \in {"commit", "rekey", "upgradeCommit"} => meta[r] = old
    BY <2>2 DEF Synced, Unwritten
  <2>5. meta[r] \in {old, new}
    BY <2>1, <2>2 DEF Synced, Unwritten, Written
  <2>6. \/ Rekeyed(r, old, new) /\ meta[r] = old
        \/ RolledBack(r, old, new)
        \/ UNCHANGED lmdb
    BY <1>3, <2>4 DEF CommitTimestamp, Rekey, CommitUpgrade, Rollback, RollbackUpgrade
  <2> HIDE DEF r, old, new
  <2>7. CASE UNCHANGED lmdb
    BY <2>7 DEF lmdb, OnlyOwnListed
  <2>8. CASE Rekeyed(r, old, new) /\ meta[r] = old
    <3>1. \A s \in Roots : meta'[s] = IF s = r THEN new ELSE meta[s]
      BY <1>1, <2>3, <2>8 DEF Rekeyed
    <3>2. \A k \in Keys : order'[k] = IF k = new.key THEN r ELSE IF k = old.key THEN NoRoot ELSE order[k]
      BY <1>1, <2>3, <2>8 DEF Rekeyed, Unkeyed
    <3> QED BY <2>3, <2>8, <3>1, <3>2 DEF OnlyOwnListed
  <2>9. CASE RolledBack(r, old, new) /\ ~UNCHANGED lmdb
    <3>1. \A s \in Roots : meta'[s] = IF s = r THEN old ELSE meta[s]
      BY <1>1, <2>3, <2>9 DEF RolledBack
    <3>2. \A k \in Keys : order'[k] = IF k = old.key THEN r ELSE IF k = new.key THEN NoRoot ELSE order[k]
      BY <1>1, <2>3, <2>9 DEF RolledBack, Unkeyed
    <3> QED BY <2>3, <2>5, <3>1, <3>2 DEF OnlyOwnListed
  <2> QED BY <2>6, <2>7, <2>8, <2>9
<1>4. CASE UNCHANGED <<meta, order>>
  BY <1>4 DEF OnlyOwnListed
<1> QED
  BY <1>2, <1>3, <1>4
     DEF Next, CommandStep, CalendarAnchors, Tick, Crash, Upgrade, Timestamp, ImportTail,
         RepairBreccia, Submit, AppendEntry, Publish, Fetch, PublishUpgrade, CheckV2, AppendV2, EnqueueTail, AppendTail

\* Commitments that share an order key, as all proofs without a fork do, may lose
\* their place in the listing but are never listed wrongly: an entry names the
\* commitment whose metadata have that key.
THEOREM ListedUnderOwnKey == Spec /\ []DistinctRoots => [](Unforced => OnlyOwnListed)
<1>1. Init => IndexInv
  BY CommitAssumption DEF Init, IndexInv, OnlyOwnListed
<1>2. IndexInv /\ StoresInv /\ [Next]_vars => IndexInv'
  <2> SUFFICES ASSUME IndexInv, StoresInv, [Next]_vars
               PROVE  IndexInv'
    OBVIOUS
  <2>1. CASE UNCHANGED vars
    BY <2>1 DEF vars, IndexInv, Unforced, OnlyOwnListed
  <2>2. CASE Next
    <3>1. Unforced' = Unforced
      BY <2>2 DEF Next, Unforced
    <3>2. Unforced => OnlyOwnListed'
      BY <2>2, OnlyOwnNext DEF IndexInv, StoresInv, Agreement
    <3> QED BY <3>1, <3>2 DEF IndexInv
  <2> QED BY <2>1, <2>2
<1>3. IndexInv => (Unforced => OnlyOwnListed)
  BY DEF IndexInv
<1> QED BY StoresInvariant, <1>1, <1>2, <1>3, PTL DEF Spec

\* COMMITMENT_ORDER is the index of the order keys in COMMITMENT_META: the two
\* databases agree in both directions after every commit, rollback and crash, and
\* the rollback of a timestamp whose key is another's is the only step that can
\* part them.
THEOREM OrderIsIndex == Spec /\ []DistinctRoots /\ []Uncontested => []OrderIndexesMeta
<1>1. (Unforced => OnlyOwnListed) /\ TimestampedListed => OrderIndexesMeta
  BY CommitAssumption DEF OnlyOwnListed, TimestampedListed, OrderIndexesMeta
<1> QED BY ListedUnderOwnKey, TimestampedAreListed, <1>1, PTL

-----------------------------------------------------------------------------
\* What an upgrade leaves behind

\* A root whose upgrade has just returned Ok has a proof file with the key of
\* its metadata, and when that proof is confirmed a v2 record.
Upgraded(r) ==
  /\ meta[r].path /\ ots[r] # NoProof /\ ots[r].key = meta[r].key
  /\ ots[r].height # Pending => HasV2(r)

UpgradedInv == Unforced /\ last.op = "upgrade" => last.root \in Roots /\ Upgraded(last.root)

\* An upgrade returns Ok from two steps: with a pending proof there is no more
\* to record, with a confirmed one the v2 record was found or appended.
LEMMA UpgradedNext ==
  ASSUME Typed, Unforced, Agreement, Next
  PROVE  last'.op = "upgrade" => (last.root \in Roots /\ Upgraded(last.root))'
<1>1. ASSUME NEW p \in Procs, CheckV2(p) \/ EnqueueTail(p), ReturnOk(p, "upgrade")
      PROVE  (last.root \in Roots /\ Upgraded(last.root))'
  <2> DEFINE c == cmd[p]
  <2>1. c.pc \in {"checkV2", "enqueue"} /\ (c.pc = "checkV2" => c.proof.height = Pending)
    BY <1>1, IdleMoves DEF CheckV2, EnqueueTail, ReturnOk, ReturnErr, Step, NoResult
  <2>2. Shape(c) /\ Agrees(c)
    BY DEF Typed, Agreement, CommandsAgree
  <2>3. /\ c.root \in Roots /\ meta[c.root] = c.new /\ c.new.path /\ c.new.key = c.proof.key
        /\ ots[c.root] = c.proof /\ c.proof \in Proofs /\ (c.pc = "enqueue" => HasV2(c.root))
    BY <2>1, <2>2 DEF Shape, Agrees, Synced, PublishedAt, Written, Upgrading
  <2>4. UNCHANGED <<meta, ots, log>> /\ last'.root = c.root
    BY <1>1 DEF CheckV2, EnqueueTail, ReturnOk
  <2>5. c.root \in Roots /\ Upgraded(c.root)
    BY <2>1, <2>3, ConstantsTyped DEF Upgraded
  <2> QED BY <2>4, <2>5 DEF Upgraded, HasV2
<1>2. CASE last' = NoResult
  BY <1>2 DEF NoResult
<1>3. ASSUME NEW p \in Procs, ReturnOk(p, "timestamp")
      PROVE  last'.op # "upgrade"
  BY <1>3 DEF ReturnOk
<1>4. ASSUME NEW p \in Procs, CheckV2(p) \/ EnqueueTail(p)
      PROVE  last'.op = "upgrade" => (last.root \in Roots /\ Upgraded(last.root))'
  BY <1>1, <1>2, <1>4 DEF CheckV2, EnqueueTail, ReturnErr, Step
<1>5. ASSUME NEW p \in Procs, RepairBreccia(p) \/ Publish(p)
      PROVE  last'.op = "upgrade" => (last.root \in Roots /\ Upgraded(last.root))'
  BY <1>2, <1>3, <1>5 DEF RepairBreccia, Publish, ReturnErr, Step
<1>6. ASSUME NEW p \in Procs,
             \/ Submit(p) \/ CommitTimestamp(p) \/ AppendEntry(p) \/ Rollback(p) \/ Fetch(p) \/ Rekey(p)
             \/ CommitUpgrade(p) \/ PublishUpgrade(p) \/ RollbackUpgrade(p) \/ AppendV2(p) \/ AppendTail(p)
      PROVE  last' = NoResult
  BY <1>6 DEF Submit, CommitTimestamp, AppendEntry, Rollback, Fetch, Rekey, CommitUpgrade, PublishUpgrade,
              RollbackUpgrade, AppendV2, AppendTail, ReturnErr, Step
<1> QED
  BY <1>2, <1>4, <1>5, <1>6
     DEF Next, CommandStep, Encode, CalendarAnchors, Tick, Crash, Upgrade, Timestamp, ImportTail

\* The one v2 record of a root is the first, and has what the calendar confirmed
\* unless it came from a peer.
LEMMA FirstV2 ==
  ASSUME Typed, CalendarAgrees, OneV2PerRoot, LogReadable, NEW r \in Roots, HasV2(r)
  PROVE  \E e : /\ FirstRecord(2, r) = {e} /\ e.height # Pending
                /\ e.peer \/ cal[r] = [key |-> e.key, height |-> e.height]
<1> DEFINE at == {i \in DOMAIN log : LogReadable /\ log[i].v = 2 /\ log[i].root = r}
<1>1. log \in Seq(Records) /\ DOMAIN log = 1 .. Len(log) /\ Len(log) \in Nat
  BY LenProperties DEF Typed, TypeOK
<1>2. PICK i \in DOMAIN log : log[i].root = r /\ log[i].v = 2
  BY DEF HasV2
<1>3. at = {i}
  BY <1>2 DEF OneV2PerRoot
<1>4. (CHOOSE j \in at : \A k \in at : j <= k) = i
  <2>1. i <= i
    BY <1>1, <1>2
  <2> HIDE DEF at
  <2> QED BY <1>3, <2>1
<1>5. FirstRecord(2, r) = {log[i]}
  BY <1>3, <1>4 DEF FirstRecord
<1>6. log[i] \in Records
  BY <1>1, <1>2, ElementOfSeq
<1>7. log[i].height \in Heights
  <2> DEFINE V1 == [v : {1}, root : Roots, key : Keys, at : 0 .. MaxTime, height : {Pending}, peer : {FALSE}]
             V2 == [v : {2}, root : Roots, key : Keys, at : 0 .. MaxTime, height : Heights, peer : BOOLEAN]
  <2>1. \A x \in V1 : x.v = 1
    OBVIOUS
  <2>2. \A x \in V2 : x.height \in Heights
    OBVIOUS
  <2>3. log[i] \in V1 \cup V2
    BY <1>6 DEF Records
  <2> HIDE DEF V1, V2
  <2> QED BY <1>2, <2>1, <2>2, <2>3
<1>8. log[i].height # Pending
  BY <1>7, CommitAssumption DEF Pending
<1>9. ~log[i].peer => Confirmed(log[i].root, log[i].key, log[i].height)
  BY <1>1, <1>2 DEF CalendarAgrees
<1> QED BY <1>2, <1>5, <1>8, <1>9 DEF Confirmed

\* An upgrade to a confirmed proof leaves the four stores in agreement, whatever
\* crashes, failed writes, half-done commands and imports came before it; only a
\* wrong record that came from a peer it cannot put right.
THEOREM UpgradeRepairs == Spec /\ []DistinctRoots => []UpgradeVerifies
<1>1. Init => UpgradedInv
  BY DEF Init, UpgradedInv, NoResult
<1>2. UpgradedInv /\ StoresInv /\ [Next]_vars => UpgradedInv'
  <2> SUFFICES ASSUME UpgradedInv, StoresInv, [Next]_vars
               PROVE  UpgradedInv'
    OBVIOUS
  <2>1. CASE UNCHANGED vars
    BY <2>1 DEF vars, UpgradedInv, Unforced, Upgraded, HasV2
  <2>2. CASE Next
    <3>1. Unforced' = Unforced
      BY <2>2 DEF Next, Unforced
    <3> QED BY <2>2, <3>1, UpgradedNext DEF UpgradedInv, StoresInv, Agreement
  <2> QED BY <2>1, <2>2
<1>3. UpgradedInv /\ StoresInv /\ OneV2PerRoot => UpgradeVerifies
  <2> SUFFICES ASSUME UpgradedInv, StoresInv, OneV2PerRoot, Unforced, LogReadable,
                      last.op = "upgrade", ots[last.root].height # Pending
               PROVE  /\ meta[last.root].path /\ ots[last.root].key = meta[last.root].key
                      /\ verify_cross_store(last.root) \/ Misinformed(last.root)
    BY DEF UpgradeVerifies
  <2> DEFINE r == last.root
  <2>1. r \in Roots /\ Upgraded(r) /\ HasV2(r)
    BY DEF UpgradedInv, Upgraded
  <2>2. Typed /\ CalendarAgrees
    BY DEF StoresInv
  <2>3. PICK e : /\ FirstRecord(2, r) = {e} /\ e.height # Pending
                 /\ e.peer \/ cal[r] = [key |-> e.key, height |-> e.height]
    BY <2>1, <2>2, FirstV2
  <2>4. Confirmed(r, ots[r].key, ots[r].height)
    BY <2>1, <2>2 DEF CalendarAgrees
  <2> HIDE DEF r
  <2>5. CASE ots[r].key = e.key /\ ots[r].height = e.height
    <3>1. verify_cross_store(r)
      BY <2>1, <2>3, <2>5 DEF verify_cross_store, Upgraded
    <3> QED BY <2>1, <3>1 DEF r, Upgraded
  <2>6. CASE ~(ots[r].key = e.key /\ ots[r].height = e.height)
    <3>1. e.peer
      BY <2>3, <2>4, <2>6 DEF Confirmed, r
    <3>2. Misinformed(r)
      BY <2>3, <2>6, <3>1 DEF Misinformed
    <3> QED BY <2>1, <3>2 DEF r, Upgraded
  <2> QED BY <2>5, <2>6
<1> QED BY StoresInvariant, AtMostOneV2, <1>1, <1>2, <1>3, PTL DEF Spec
=============================================================================
