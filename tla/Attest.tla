------------------------------- MODULE Attest -------------------------------
(***************************************************************************)
(* Verifying an OpenTimestamps proof against the block headers of a node:  *)
(* crates/lord-commit/src/ots_attest.rs, the verify functions of ots.rs    *)
(* and `lord commit verify`.                                               *)
(*                                                                         *)
(* A step is [kind, height, output, next] with kind "fork", "op" or that   *)
(* of an attestation: "bitcoin" (which has a height), "pending",           *)
(* "unknown".  A digest is the sequence of the operations executed on the  *)
(* start digest <<>>.  A header source is [roots, tip]: what a lookup of   *)
(* each height answers (a merkle root, None, or Err) and the tip.          *)
(***************************************************************************)
LOCAL INSTANCE Integers
LOCAL INSTANCE Sequences
LOCAL INSTANCE SequencesExt

CONSTANTS MaxU32,      \* u32::MAX
          None, Err    \* Option::None and any Result::Err

-----------------------------------------------------------------------------
\* AttestationVerifyStatus
Status(s) == [status |-> s, height |-> None]
Confirmed(h) == [status |-> "confirmed", height |-> h]
allows_valid_digest_only(st) == st.status \in {"none", "pending", "unavailable"}

execute(digest) == Append(digest, "op")

merkle_root_at_height(source, h) ==
  IF h \in DOMAIN source.roots THEN source.roots[h] ELSE None

verify_attestation(digest, step, source) ==
  IF step.kind # "bitcoin" THEN Status(step.kind)
  ELSE LET merkle == merkle_root_at_height(source, step.height) IN
       IF step.height > MaxU32 THEN Err
       ELSE IF merkle \in {None, Err} THEN Status("unavailable")
       ELSE IF digest # merkle THEN Err ELSE Confirmed(step.height)

\* The first status of the strongest kind, Confirmed before all others.
FirstOf(statuses, ranks) ==
  LET found == SelectSeq([i \in DOMAIN ranks |-> SelectInSeq(statuses, LAMBDA st : st.status = ranks[i])],
                         LAMBDA i : i # 0)
  IN IF found = <<>> THEN Status("none") ELSE statuses[Head(found)]
aggregate_pending_first(statuses) ==
  FirstOf(statuses, <<"unknown", "pending", "confirmed", "failed", "unavailable">>)
aggregate_fork_statuses(statuses) ==
  FirstOf(statuses, <<"confirmed", "unknown", "pending", "failed", "unavailable">>)

OrFailed(st) == IF st = Err THEN Status("failed") ELSE st

RECURSIVE verify_step(_, _, _)
verify_step(step, digest, source) ==
  CASE step.kind = "op" ->
         IF step.output # execute(digest) \/ step.next = <<>> THEN Err
         ELSE verify_step(step.next[1], step.output, source)
    [] step.kind = "fork" ->
         IF step.output # digest THEN Err
         ELSE aggregate_fork_statuses(
                [i \in DOMAIN step.next |-> OrFailed(verify_step(step.next[i], digest, source))])
    [] OTHER -> IF step.output # digest THEN Err ELSE verify_attestation(digest, step, source)

verify_timestamp_attestations(first_step, source) == OrFailed(verify_step(first_step, <<>>, source))

-----------------------------------------------------------------------------
\* A proof file is Err when it does not parse, or [bound, step]: does it have
\* the commitment's digest, and its first step.

overall_valid(digest_valid, st) ==
  digest_valid /\ (st.status = "confirmed" \/ allows_valid_digest_only(st))

attestation_to_json(st, source) ==
  [status |-> st.status, height |-> st.height,
   confirmations |->
     IF st.status # "confirmed" \/ source = None THEN None
     ELSE IF source.tip \in {None, Err} THEN None
     ELSE IF source.tip < st.height THEN 1 ELSE source.tip - st.height + 1]

CheckAttestations(step, source) ==
  IF source = None THEN Status("unavailable") ELSE verify_timestamp_attestations(step, source)

verify_ots_proof_file(file, source) ==
  IF file \in {Err, None} THEN Err
  ELSE attestation_to_json(IF file.bound THEN CheckAttestations(file.step, source) ELSE Status("failed"), source)

verify_ots_commitment(file, source) ==
  IF file \in {Err, None} THEN Err
  ELSE LET st == CheckAttestations(file.step, source) IN
       [valid |-> overall_valid(file.bound, st), digest_valid |-> file.bound,
        attestation |-> attestation_to_json(st, source)]

\* cross_store is the verdict of verify_cross_store, see module Commit.
verify_commitment_full(file, source, cross_store) ==
  IF file = None
  THEN [valid |-> FALSE, digest_valid |-> FALSE, attestation |-> attestation_to_json(Status("none"), source)]
  ELSE LET ots == verify_ots_commitment(file, source) IN
       IF ots = Err THEN Err ELSE [ots EXCEPT !.valid = @ /\ cross_store]

\* `lord commit verify`: rpc is None when no client can be made.
Verify(file, rpc, digest_only, full, cross_store) ==
  LET source == IF digest_only THEN None ELSE rpc
      result == IF full THEN verify_commitment_full(file, source, cross_store)
                ELSE verify_ots_commitment(file, source)
  IN IF (rpc = None /\ ~digest_only) \/ result = Err THEN Err
     ELSE IF ~result.valid THEN Err ELSE result

\* The height that an upgrade logs in its v2 record.
RECURSIVE attestation_height_from_step(_)
attestation_height_from_step(step) ==
  IF step.kind = "bitcoin" THEN step.height % (MaxU32 + 1)
  ELSE LET heights == [i \in DOMAIN step.next |-> attestation_height_from_step(step.next[i])]
           found == SelectInSeq(heights, LAMBDA h : h # None)
       IN IF found = 0 THEN None ELSE heights[found]
=============================================================================
