------------------------------ MODULE Storage ------------------------------
(***************************************************************************)
(* The algorithms of lord-storage that keep no state between calls: order  *)
(* keys and their LMDB form, the migrations of the commitment store, Casey *)
(* archives, and the checks made before a stored payload is served or      *)
(* accepted.                                                               *)
(*                                                                         *)
(* Bytes are 0 .. MaxByte; a hash is the value it is the hash of, so that  *)
(* distinct values have distinct hashes.                                   *)
(***************************************************************************)
EXTENDS Integers, Sequences, FiniteSets, SequencesExt, FiniteSetsExt

CONSTANTS MaxByte,                 \* u8::MAX
          SentinelLen,             \* bytes of NO_ATTESTATION_SENTINEL
          MAX_OTS_ORDER_PATH_LEN,
          SCHEMA_VERSION,
          None, Err                \* Option::None and any Result::Err

-----------------------------------------------------------------------------
(***************************************************************************)
(* Order keys: the fork choices on the way to the first attestation.       *)
(***************************************************************************)
NO_ATTESTATION_SENTINEL == [i \in 1 .. SentinelLen |-> MaxByte]

\* A step of a proof is [data, next] with data "fork", "op" or "attestation".
At(step, path) == [step |-> step, path |-> path]

Children(step, path) ==
  IF step.data = "fork"
  THEN [i \in DOMAIN step.next |-> At(step.next[i], Append(path, i - 1))]
  ELSE [i \in 1 .. Min({1, Len(step.next)}) |-> At(step.next[1], path)]

RECURSIVE FirstAttestation(_)
FirstAttestation(queue) ==
  IF queue = <<>> THEN NO_ATTESTATION_SENTINEL
  ELSE LET entry == Head(queue) IN
       IF entry.step.data = "attestation" THEN entry.path
       ELSE FirstAttestation(Tail(queue) \o Children(entry.step, entry.path))

order_key_from_timestamp(first_step) ==
  FirstAttestation(<<At(first_step, <<>>)>>)

\* A proof file that is missing or does not parse (Err) has no key.
order_key_from_proof_bytes(proof) ==
  IF proof = Err THEN Err ELSE order_key_from_timestamp(proof)

encode_without_shift(key) ==       \* bytes stored as they are
  IF key = NO_ATTESTATION_SENTINEL THEN key ELSE Append(key, 0)

encode_order_key_for_lmdb(key) ==
  IF key = NO_ATTESTATION_SENTINEL THEN key
  ELSE IF Len(key) > MAX_OTS_ORDER_PATH_LEN \/ \E i \in DOMAIN key : key[i] = MaxByte THEN Err
  ELSE Append([i \in DOMAIN key |-> key[i] + 1], 0)

decode_order_key_from_lmdb(encoded) ==
  IF encoded = NO_ATTESTATION_SENTINEL THEN encoded
  ELSE IF encoded = <<>> THEN Err
  ELSE IF Last(encoded) # 0 \/ \E i \in 1 .. Len(encoded) - 1 : encoded[i] = 0 THEN Err
  ELSE [i \in 1 .. Len(encoded) - 1 |-> encoded[i] - 1]

\* The order of byte strings, in LMDB and in compare_order_keys.
compare_order_keys(a, b) ==
  \/ IsStrictPrefix(a, b)
  \/ \E i \in 1 .. Min({Len(a), Len(b)}) :
       a[i] < b[i] /\ \A j \in 1 .. i - 1 : a[j] = b[j]

-----------------------------------------------------------------------------
(***************************************************************************)
(* The store: [schema, meta, order], where meta is a function from the     *)
(* known roots to [proof, key, created_at, timestamped_at] and order a     *)
(* function from stored keys to roots.  Roots are visited in their order.  *)
(***************************************************************************)
Without(order, keys) == [k \in DOMAIN order \ keys |-> order[k]]
With(order, key, root) == [k \in DOMAIN order \cup {key} |-> IF k = key THEN root ELSE order[k]]

put_commitment_order(store, key, root) ==
  LET encoded == encode_order_key_for_lmdb(key) IN
  IF encoded = Err THEN Err
  ELSE IF encoded \in DOMAIN store.order /\ store.order[encoded] # root THEN Err
  ELSE [store EXCEPT !.order = With(@, encoded, root)]

\* The key in today's form, with a length prefix, and raw.
StoredForms(key) ==
  IF key = <<>> THEN {} ELSE {encode_order_key_for_lmdb(key), <<Len(key)>> \o key, key}

delete_stored_commitment_order_keys(store, key) ==
  [store EXCEPT !.order = Without(@, StoredForms(key))]

list_commitments_by_order(store) ==
  IF \E k \in DOMAIN store.order : decode_order_key_from_lmdb(k) = Err THEN Err
  ELSE LET keys == SetToSortSeq(DOMAIN store.order, compare_order_keys) IN
       [i \in DOMAIN keys |-> [key |-> decode_order_key_from_lmdb(keys[i]), root |-> store.order[keys[i]]]]

OldKey(meta) == IF meta.key = None THEN <<>> ELSE meta.key

RekeyKeepsOld(store, root, new_key) ==     \* the old entry stays behind
  put_commitment_order([store EXCEPT !.meta[root].key = new_key], new_key, root)

Rekey(store, root, new_key) ==
  put_commitment_order(
    delete_stored_commitment_order_keys(
      [store EXCEPT !.meta[root].key = new_key], OldKey(store.meta[root])),
    new_key, root)

ClearStale(store, root) ==
  delete_stored_commitment_order_keys(
    [store EXCEPT !.meta[root].key = None], OldKey(store.meta[root]))

\* One root after the other, in one transaction: an error leaves no trace.
V4MigrationAction(store, root) ==
  IF store = Err \/ store.meta[root].proof = None THEN store
  ELSE LET new_key == order_key_from_proof_bytes(store.meta[root].proof) IN
       IF new_key = Err THEN ClearStale(store, root) ELSE Rekey(store, root, new_key)

migrate_v3_to_v4(store, roots) ==
  LET migrated == FoldLeft(V4MigrationAction, store, roots) IN
  IF migrated = Err THEN Err ELSE [migrated EXCEPT !.schema = SCHEMA_VERSION]

\* Both older migrations write the newest version.
migrate_v1_to_v2(store) ==
  [store EXCEPT !.schema = SCHEMA_VERSION,
     !.meta = [r \in DOMAIN @ |-> [@[r] EXCEPT !.proof = None, !.key = None, !.timestamped_at = None]]]

migrate_v2_to_v3(store, breccia_timestamps) ==
  [store EXCEPT !.schema = SCHEMA_VERSION,
     !.meta = [r \in DOMAIN @ |->
       LET m == store.meta[r] IN
       [m EXCEPT !.timestamped_at =
          IF m.key = None THEN None
          ELSE IF r \in DOMAIN breccia_timestamps THEN breccia_timestamps[r] ELSE m.created_at]]]

\* Later entries of the log replace earlier ones; what does not parse is skipped.
load_breccia_timestamps(log) ==
  LET parsed == SelectSeq(log, LAMBDA b : b # Err) IN
  [r \in {parsed[i].root : i \in DOMAIN parsed} |->
     parsed[Max({i \in DOMAIN parsed : parsed[i].root = r})].timestamped_at]

RECURSIVE ensure_schema_version(_, _, _)
ensure_schema_version(store, roots, log) ==
  IF store = Err THEN Err
  ELSE CASE store.schema = SCHEMA_VERSION -> store
         [] store.schema = 1 -> ensure_schema_version(migrate_v1_to_v2(store), roots, log)
         [] store.schema = 2 -> ensure_schema_version(
                                  migrate_v2_to_v3(store, load_breccia_timestamps(log)), roots, log)
         [] store.schema = 3 -> ensure_schema_version(migrate_v3_to_v4(store, roots), roots, log)
         [] OTHER -> Err

-----------------------------------------------------------------------------
(***************************************************************************)
(* Casey archives.  A source file has a path (a sequence of names) and a   *)
(* content; a directory's blob is the set of its entries.  An archive is   *)
(* [root, files] with the blobs it carries, keyed by their hash.           *)
(***************************************************************************)
FileHash(content) == <<"file", content>>
DirHash(entries) == <<"directory", entries>>
Entry(name, ty, hash) == [name |-> name, ty |-> ty, hash |-> hash]
Named(entries, name) == {e \in entries : e.name = name}

\* insert_file: no path may be a proper prefix of another one, or be given twice.
PackageTree(files) ==
  IF \E p, q \in DOMAIN files : IsStrictPrefix(p, q) THEN Err ELSE files

Below(files, name) ==
  [p \in {Tail(q) : q \in {q \in DOMAIN files : Len(q) > 1 /\ q[1] = name}} |-> files[<<name>> \o p]]

\* ArchiveBuilder::directory: the entry of a tree and the blobs it adds.
RECURSIVE directory(_)
directory(files) ==
  LET names == {p[1] : p \in DOMAIN files}
      child == [n \in {m \in names : <<m>> \notin DOMAIN files} |-> directory(Below(files, n))]
      blob == DirHash({IF n \in DOMAIN child THEN Entry(n, "directory", child[n].hash)
                       ELSE Entry(n, "file", FileHash(files[<<n>>])) : n \in names})
  IN [hash |-> blob, blobs |-> {blob} \cup UNION {child[n].blobs : n \in DOMAIN child}]

build_package(package) ==
  LET signatures == DirHash({})
      root == DirHash({Entry("package", "directory", package.hash),
                       Entry("signatures", "directory", signatures)})
  IN [root |-> root, files |-> package.blobs \cup {signatures, root}]

pack_compat_manifest(files) ==
  IF PackageTree(files) = Err THEN Err ELSE build_package(directory(files))

\* The blobs absorb_referenced_hashes takes off the list of loose ones.
RECURSIVE Absorbed(_, _)
Absorbed(archive, hash) ==
  {hash} \cup (IF hash \notin archive.files THEN {}
               ELSE UNION {IF e.ty = "file" THEN {e.hash} ELSE Absorbed(archive, e.hash) : e \in hash[2]})

AbsorbedShallow(archive, hash) == archive.files    \* every blob counts as referenced

absorb_referenced_hashes(archive, hash) == Absorbed(archive, hash)

\* Every file below a directory with its path, or Err when a blob is missing.
RECURSIVE collect_package_files(_, _, _)
collect_package_files(archive, hash, prefix) ==
  IF hash \notin archive.files THEN Err
  ELSE LET below == {IF e.ty = "file" THEN {<<Append(prefix, e.name), e.hash[2]>>}
                     ELSE collect_package_files(archive, e.hash, Append(prefix, e.name)) : e \in hash[2]}
       IN IF Err \in below THEN Err ELSE UNION below

verify_casey_archive(archive) ==
  LET entries == archive.root[2]
      package == CHOOSE e \in entries : e.name = "package"
      signatures == CHOOSE e \in entries : e.name = "signatures"
      absorbed == absorb_referenced_hashes(archive, archive.root)
                    \cup absorb_referenced_hashes(archive, signatures.hash)
      files == collect_package_files(archive, package.hash, <<>>)
  IN IF \/ archive.root \notin archive.files
        \/ \E n \in {"package", "signatures"} :
             \A e \in Named(entries, n) : e.ty # "directory"
        \/ ~(archive.files \subseteq absorbed)
     THEN Err ELSE files

fingerprint_for_archive(archive) ==
  IF archive.root \notin archive.files \/ Named(archive.root[2], "package") = {} THEN Err
  ELSE (CHOOSE e \in archive.root[2] : e.name = "package").hash

ensure_casey_bindings_match_sidecar(files, bindings) ==
  Cardinality(files) = Cardinality(DOMAIN bindings) /\ {f[1] : f \in files} = DOMAIN bindings

-----------------------------------------------------------------------------
(***************************************************************************)
(* Carbonado files: [header, hash, format, mac, prefix, payload, size],    *)
(* where mac is the key the header was authenticated with, prefix the      *)
(* first eight bytes of the body read as a number (None in a shorter body) *)
(* and payload the content, or Err.  A file that is absent is None, one    *)
(* that cannot be read Err.  A payload is [root, len].                     *)
(***************************************************************************)
PublicKey == "zero"
IsPublic(format) == format % 2 = 0
Verifiable(format) == (format \div 4) % 2 = 1      \* the Bao bit

master_key_for_verify(format, key_file, hex) ==
  CASE IsPublic(format) -> PublicKey
    [] ~IsPublic(format) /\ hex # None -> hex
    [] ~IsPublic(format) /\ hex = None -> key_file

authenticate_header(key, file) == key # Err /\ key = file.mac

\* carbonado's file::decode, which checks a payload with Bao data against the
\* hash in the header.
FileDecode(key, file) ==
  IF file.mac # key \/ file.payload = Err THEN Err
  ELSE IF Verifiable(file.format) /\ file.payload.root # file.hash THEN Err
  ELSE file.payload

HeaderBound(file, root, format) == file.header /\ file.hash = root /\ file.format = format

verify_carbonado_header_binding(file, root, meta, key_file) ==
  /\ meta.path_ok /\ file \notin {None, Err}
  /\ HeaderBound(file, root, meta.format)
  /\ authenticate_header(master_key_for_verify(meta.format, key_file, None), file)

\* Every sampled slice is one the decode has covered, whatever the sample.
verify_commitment(file, root, meta, key_file, sample_rate) ==
  /\ sample_rate > 0
  /\ meta # None
  /\ verify_carbonado_header_binding(file, root, meta, key_file)
  /\ Verifiable(meta.format)
  /\ \/ file.size = 0
     \/ FileDecode(master_key_for_verify(meta.format, key_file, None), file) # Err

max_encoded_bytes_for_decode(header_len, max_decoded, slack) == header_len + 2 * max_decoded + slack

read_carbonado_file(file, max_encoded) ==
  IF file = None THEN "CarbonadoNotFound"
  ELSE IF file = Err THEN "CarbonadoIo"
  ELSE IF file.size > max_encoded THEN "EncodedFileTooLarge" ELSE "read"

\* The answer of /content: the payload, or the first check that fails.
decode_public_commitment_content(file, root, meta, max_decoded, max_encoded) ==
  LET read == read_carbonado_file(file, max_encoded)
      payload == FileDecode(PublicKey, file)
      error(e) == [error |-> e]
  IN IF ~meta.path_ok THEN error("InvalidPath")
     ELSE IF ~IsPublic(meta.format) THEN error("PrivateFormat")
     ELSE IF read # "read" THEN error(read)
     ELSE IF ~file.header THEN error("InvalidHeader")
     ELSE IF file.hash # root THEN error("HeaderBindingMismatch")
     ELSE IF file.format # meta.format THEN error("FormatMismatch")
     ELSE IF ~authenticate_header(PublicKey, file) THEN error("HeaderAuthFailed")
     ELSE IF file.prefix = None THEN error("CorruptPayload")
     ELSE IF file.prefix > max_decoded THEN error("Oversized")
     ELSE IF payload = Err THEN error("CorruptPayload")
     ELSE IF payload.len > max_decoded THEN error("Oversized")
     ELSE [payload |-> payload]
=============================================================================
