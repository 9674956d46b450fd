------------------------------ MODULE Filepack ------------------------------
(***************************************************************************)
(* crates/lord-storage: encode.rs, filepack.rs and master_key.rs, as run   *)
(* by several lord processes over one data directory.  Nothing but the     *)
(* LMDB transactions is locked, and the names of temporary files depend on *)
(* their target only, so that two processes at work on the same blob or    *)
(* the same pack share them.                                               *)
(*                                                                         *)
(* A job is one command: [files, format, key, pack, compat] with the files *)
(* in path order as [path, content], pack = FALSE for a single encode, and *)
(* key = "hex" when --master-key-hex is given.  A bao root is the content, *)
(* the format and the key it was encoded with.  The fingerprint of a JSON  *)
(* pack covers paths, roots and formats, that of a Casey pack the sources' *)
(* paths and hashes only.  Every step that touches a file or the store may *)
(* fail, and a process may be killed between any two steps.                *)
(***************************************************************************)
EXTENDS Processes, Integers, Sequences, SequencesExt, FiniteSets, TLC

CONSTANTS Jobs,
          MaxJobs, MaxFaults, MaxCrashes  \* bounds

\* A command encodes one file or packs a directory, which may not be empty.
ASSUME JobsAssumption == \A j \in Jobs : j.files \in Seq(ToSet(j.files)) /\ j.files # <<>>

\* A file that processes may have open: is its content complete, who is writing
\* it, and who has truncated it last?  None is no file.
OpenFile == [whole : BOOLEAN, by : SUBSET Procs, last : Procs]
ASSUME OpenFileAssumption == None \notin OpenFile

VARIABLES key,       \* storage/master.key: [exists, value, private]
          blobs,     \* carbonado/: root |-> the three names its blob may have, see below
          meta,      \* commitment_meta: root |-> [format, fp]
          published, \* filepack/<fp>/: fp |-> [manifest, sidecar]
          tmp,       \* and the temporary files beside them
          proc,      \* what a process is doing
          budget,    \* jobs, faults and crashes still allowed
          quiet,     \* packs created while nobody else worked on their files
          failed,    \* packs some creator of which failed to publish
          spoiled    \* roots whose blob was being written by a command that was stopped,
                     \* while or after another one worked on the same files

packVars == <<key, blobs, meta, published, tmp, proc, budget, quiet, failed, spoiled>>

NoFiles == [manifest |-> None, sidecar |-> None]
FilesOf(dir, fp) == IF fp \in DOMAIN dir THEN dir[fp] ELSE NoFiles
SetFiles(dir, fp, files) == [x \in DOMAIN dir \cup {fp} |-> IF x = fp THEN files ELSE dir[x]]
SetFile(dir, fp, name, content) == SetFiles(dir, fp, [FilesOf(dir, fp) EXCEPT ![name] = content])
NoJob == [pc |-> "idle"]

FilepackInit ==
  /\ key = [exists |-> FALSE, value |-> None, private |-> FALSE]
  /\ blobs = <<>> /\ meta = <<>> /\ published = <<>> /\ tmp = <<>>
  /\ proc = [p \in Procs |-> NoJob]
  /\ budget = [jobs |-> MaxJobs, faults |-> MaxFaults, crashes |-> MaxCrashes]
  /\ quiet = {} /\ failed = {} /\ spoiled = {}

At(p, pc) == proc[p].pc = pc
Goto(p, pc) == proc' = [proc EXCEPT ![p].pc = pc]
EndJob(p) == proc' = [proc EXCEPT ![p] = NoJob]
Job(p) == proc[p].job
Active == {p \in Procs : proc[p].pc # "idle"}

\* Two jobs that may write the same file or the same row.
Package(j) == {<<j.files[k].path, j.files[k].content>> : k \in DOMAIN j.files}
Shares(i, j) ==
  \/ /\ i.format = j.format
     /\ \E a \in DOMAIN i.files, b \in DOMAIN j.files : i.files[a].content = j.files[b].content
  \/ i.pack /\ j.pack /\ i.compat /\ j.compat /\ Package(i) = Package(j)

\* A command starts.  The packs it may disturb are no longer quiet, and
\* neither is it when another process is at work on what it shares.
StartJob(p, j) ==
  LET rivals == {q \in Active : Shares(proc[q].job, j)} IN
  /\ At(p, "idle") /\ budget.jobs > 0
  /\ budget' = [budget EXCEPT !.jobs = @ - 1]
  /\ proc' = [q \in Procs |->
       IF q = p THEN [pc |-> "encode", job |-> j, alone |-> rivals = {}, entries |-> <<>>,
                      held |-> None, previous |-> <<>>, publishing |-> 1]
       ELSE IF q \in rivals THEN [proc[q] EXCEPT !.alone = FALSE]
       ELSE proc[q]]
  /\ quiet' = {c \in quiet : ~Shares(c.job, j)}
  /\ UNCHANGED <<key, blobs, meta, published, tmp, failed, spoiled>>

-----------------------------------------------------------------------------
\* The master key (master_key_for_format, load_or_create_master_key)
Public == "zero key"
NewKey(p) == p

KeyHeld(p, k) == proc' = [proc EXCEPT ![p].held = k, ![p].pc = "publish"]

master_key_for_format(p) ==
  /\ At(p, "encode")
  /\ \/ Job(p).format = "public" /\ KeyHeld(p, Public)
     \/ Job(p).format = "encrypted" /\ Job(p).key = "hex" /\ KeyHeld(p, "hex key")
     \/ /\ Job(p).format = "encrypted" /\ Job(p).key = "file"
        /\ Goto(p, IF key.exists THEN "permissions" ELSE "create")
  /\ UNCHANGED <<key, blobs, meta, published, tmp, budget, quiet, failed, spoiled>>

\* read_master_key_file: the mode is checked, then the file is read, and its
\* content must be a whole key.
validate_master_key_permissions(p) ==
  /\ At(p, "permissions")
  /\ IF key.private THEN Goto(p, "read") ELSE EndJob(p)
  /\ UNCHANGED <<key, blobs, meta, published, tmp, budget, quiet, failed, spoiled>>

read_master_key_file(p) ==
  /\ At(p, "read")
  /\ IF key.value = None THEN EndJob(p) ELSE KeyHeld(p, key.value)
  /\ UNCHANGED <<key, blobs, meta, published, tmp, budget, quiet, failed, spoiled>>

\* create_new: the umask decides whether the new, empty file is private.
create_master_key(p) ==
  /\ At(p, "create")
  /\ IF key.exists THEN Goto(p, "permissions") /\ UNCHANGED key
     ELSE /\ \E private \in BOOLEAN : key' = [exists |-> TRUE, value |-> None, private |-> private]
          /\ Goto(p, "write")
  /\ UNCHANGED <<blobs, meta, published, tmp, budget, quiet, failed, spoiled>>

write_master_key(p) ==
  /\ At(p, "write")
  /\ key' = [key EXCEPT !.value = NewKey(p)]
  /\ Goto(p, "chmod")
  /\ UNCHANGED <<blobs, meta, published, tmp, budget, quiet, failed, spoiled>>

chmod_master_key(p) ==
  /\ At(p, "chmod")
  /\ key' = [key EXCEPT !.private = TRUE]
  /\ KeyHeld(p, NewKey(p))
  /\ UNCHANGED <<blobs, meta, published, tmp, budget, quiet, failed, spoiled>>

-----------------------------------------------------------------------------
\* encode_file_with_store, for the next file of the job: the blob, and the
\* outboard plaintext with it, are written under a temporary name, which
\* atomic_write does through a temporary name of its own, and renamed into
\* place; then a new CommitmentMeta, bound to no pack, replaces the one of the
\* same root.
File(p) == Job(p).files[Len(proc[p].entries) + 1]
bao_root(p) == [content |-> File(p).content, format |-> Job(p).format, key |-> proc[p].held]
Entry(p) == [path |-> File(p).path, root |-> bao_root(p), format |-> Job(p).format]

\* A blob has the names draft (atomic_write's), tmp and file, each of which
\* stands for an OpenFile or None.  A file keeps its writers when it is renamed.
BlobNames == {"draft", "tmp", "file"}
NoBlob == [n \in BlobNames |-> None]
BlobOf(r) == IF r \in DOMAIN blobs THEN blobs[r] ELSE NoBlob
SetBlob(r, b) == [x \in DOMAIN blobs \cup {r} |-> IF x = r THEN b ELSE blobs[x]]

Opened(f, p) == [whole |-> FALSE, by |-> {p} \cup (IF f = None THEN {} ELSE f.by), last |-> p]
Closed(f, p, whole) ==
  IF f = None THEN None
  ELSE IF p \in f.by THEN [whole |-> whole, by |-> f.by \ {p}, last |-> f.last]
  ELSE f

\* A file nobody is going to write whole.
Torn(f) == f # None /\ ~f.whole /\ f.last \notin f.by

\* std::fs::write truncates the file,
open_draft(p) ==
  LET b == BlobOf(bao_root(p)) IN
  /\ At(p, "publish")
  /\ blobs' = SetBlob(bao_root(p), [b EXCEPT !["draft"] = Opened(@, p)])
  /\ Goto(p, "writing")
  /\ UNCHANGED <<key, meta, published, tmp, budget, quiet, failed, spoiled>>

\* and writes it, wherever it is by then.  All its writers write the same, but
\* one that has truncated it since may have cut off what this one wrote.
write_draft(p) ==
  LET b == BlobOf(bao_root(p)) IN
  /\ At(p, "writing")
  /\ \E cut \in BOOLEAN :
       blobs' = SetBlob(bao_root(p),
         [n \in BlobNames |-> Closed(b[n], p, b[n].whole \/ b[n].last = p \/ ~cut)])
  /\ Goto(p, "drafted")
  /\ UNCHANGED <<key, meta, published, tmp, budget, quiet, failed, spoiled>>

\* A rename fails when another process has moved the file.
rename_blob(p, from, to, next) ==
  LET b == BlobOf(bao_root(p)) IN
  /\ IF b[from] = None THEN EndJob(p) /\ UNCHANGED blobs
     ELSE /\ blobs' = SetBlob(bao_root(p), [b EXCEPT ![to] = b[from], ![from] = None])
          /\ Goto(p, next)
  /\ UNCHANGED <<key, meta, published, tmp, budget, quiet, failed, spoiled>>

rename_draft(p) == At(p, "drafted") /\ rename_blob(p, "draft", "tmp", "blob")

\* Mutant: a rename that fails is not noticed.
publish_unchecked(p) ==
  /\ At(p, "blob")
  /\ \/ rename_blob(p, "tmp", "file", "put")
     \/ Goto(p, "put") /\ UNCHANGED <<key, blobs, meta, published, tmp, budget, quiet, failed, spoiled>>
publish_blob(p) == At(p, "blob") /\ rename_blob(p, "tmp", "file", "put")

store_blob(p) == open_draft(p) \/ write_draft(p) \/ rename_draft(p) \/ publish_blob(p)

put_commitment(p) ==
  LET entries == Append(proc[p].entries, Entry(p)) IN
  /\ At(p, "put")
  /\ meta' = [r \in DOMAIN meta \cup {bao_root(p)} |->
               IF r = bao_root(p) THEN [format |-> Job(p).format, fp |-> None] ELSE meta[r]]
  /\ \/ /\ Len(entries) < Len(Job(p).files)
        /\ proc' = [proc EXCEPT ![p].entries = entries, ![p].pc = "encode"]
     \/ /\ Len(entries) = Len(Job(p).files) /\ Job(p).pack
        /\ proc' = [proc EXCEPT ![p].entries = entries, ![p].pc = "manifest_tmp"]
     \/ ~Job(p).pack /\ EndJob(p)
  /\ UNCHANGED <<key, blobs, published, tmp, budget, quiet, failed, spoiled>>

-----------------------------------------------------------------------------
\* create_filepack, once every file is encoded
fingerprint(p) ==
  IF Job(p).compat THEN [kind |-> "casey", of |-> Package(Job(p))]
  ELSE [kind |-> "json", of |-> ToSet(proc[p].entries)]
manifest_bytes(p) == IF Job(p).compat THEN Package(Job(p)) ELSE ToSet(proc[p].entries)
sidecar_bytes(p) == ToSet(proc[p].entries)

\* Mutant: the manifest is published first.
manifest_first(compat) == IF compat THEN <<"manifest", "sidecar">> ELSE <<"manifest">>
\* "publish sidecar before manifest so `manifest.filepack` is the ready marker"
publish_order(compat) == IF compat THEN <<"sidecar", "manifest">> ELSE <<"manifest">>
Publishing(p) == publish_order(Job(p).compat)[proc[p].publishing]

write_manifest_tmp(p) ==
  /\ At(p, "manifest_tmp")
  /\ tmp' = SetFile(tmp, fingerprint(p), "manifest", manifest_bytes(p))
  /\ Goto(p, IF Job(p).compat THEN "sidecar_tmp" ELSE "commit")
  /\ UNCHANGED <<key, blobs, meta, published, budget, quiet, failed, spoiled>>

write_sidecar_tmp(p) ==
  /\ At(p, "sidecar_tmp")
  /\ tmp' = SetFile(tmp, fingerprint(p), "sidecar", sidecar_bytes(p))
  /\ Goto(p, "commit")
  /\ UNCHANGED <<key, blobs, meta, published, budget, quiet, failed, spoiled>>

RootsOf(p) == {e.root : e \in ToSet(proc[p].entries)}

\* The metadata once each of these roots is bound to its pack.
Bound(roots, packs) ==
  [r \in DOMAIN meta |-> IF r \in roots THEN [meta[r] EXCEPT !.fp = packs[r]] ELSE meta[r]]

\* What each root was bound to, once per file: where two files have one root
\* the second record, and the one that counts in a rollback, is the new pack.
previous_fps(p) ==
  LET twice(r) == \E i, k \in DOMAIN proc[p].entries :
                    i # k /\ proc[p].entries[i].root = r /\ proc[p].entries[k].root = r
  IN  [r \in RootsOf(p) |-> IF twice(r) THEN fingerprint(p) ELSE meta[r].fp]

\* Mutant: the first file is left out.
commit_but_first(p) ==
  /\ At(p, "commit")
  /\ meta' = Bound(RootsOf(p) \ {proc[p].entries[1].root}, [r \in RootsOf(p) |-> fingerprint(p)])
  /\ proc' = [proc EXCEPT ![p].previous = previous_fps(p), ![p].pc = "rename"]
  /\ UNCHANGED <<key, blobs, published, tmp, budget, quiet, failed, spoiled>>

\* One transaction binds every root and remembers what it was bound to.
commit_filepack_metadata(p) ==
  /\ At(p, "commit")
  /\ meta' = Bound(RootsOf(p), [r \in RootsOf(p) |-> fingerprint(p)])
  /\ proc' = [proc EXCEPT ![p].previous = previous_fps(p), ![p].pc = "rename"]
  /\ UNCHANGED <<key, blobs, published, tmp, budget, quiet, failed, spoiled>>

\* A rename moves whatever the temporary file holds; it fails when another
\* process has moved or removed it.
rename(p) ==
  LET fp == fingerprint(p)
      name == Publishing(p)
  IN  /\ At(p, "rename") /\ FilesOf(tmp, fp)[name] # None
      /\ published' = SetFile(published, fp, name, tmp[fp][name])
      /\ tmp' = SetFile(tmp, fp, name, None)
      /\ IF proc[p].publishing < Len(publish_order(Job(p).compat))
         THEN proc' = [proc EXCEPT ![p].publishing = @ + 1] /\ UNCHANGED quiet
         ELSE /\ EndJob(p)
              /\ quiet' = IF proc[p].alone THEN quiet \cup {[fp |-> fp, job |-> Job(p)]} ELSE quiet
      /\ UNCHANGED <<key, blobs, meta, budget, failed, spoiled>>

rename_fails(p) ==
  /\ At(p, "rename")
  /\ \/ FilesOf(tmp, fingerprint(p))[Publishing(p)] = None /\ UNCHANGED budget
     \/ budget.faults > 0 /\ budget' = [budget EXCEPT !.faults = @ - 1]
  /\ failed' = failed \cup {fingerprint(p)}
  /\ Goto(p, "rollback")
  /\ UNCHANGED <<key, blobs, meta, published, tmp, quiet, spoiled>>

rollback_filepack_metadata(p) ==
  /\ At(p, "rollback")
  /\ meta' = Bound(RootsOf(p), proc[p].previous)
  /\ Goto(p, "cleanup")
  /\ UNCHANGED <<key, blobs, published, tmp, budget, quiet, failed, spoiled>>

\* The temporary files left are removed, and the sidecar when it was the
\* manifest that could not be published.
cleanup(p) ==
  LET fp == fingerprint(p)
      sidecar == Publishing(p) = "manifest" /\ Job(p).compat
  IN  /\ At(p, "cleanup")
      /\ tmp' = IF sidecar \/ ~Job(p).compat THEN SetFile(tmp, fp, "manifest", None)
                ELSE SetFiles(tmp, fp, NoFiles)
      /\ published' = IF sidecar THEN SetFile(published, fp, "sidecar", None) ELSE published
      /\ EndJob(p)
      /\ UNCHANGED <<key, blobs, meta, budget, quiet, failed, spoiled>>

\* A command ends where it is: what it has written stays, and the file it
\* is writing is left as it is.
Stopped(p) ==
  LET b == BlobOf(bao_root(p)) IN
  /\ IF At(p, "writing")
     THEN /\ blobs' = SetBlob(bao_root(p), [n \in BlobNames |-> Closed(b[n], p, b[n].whole)])
          /\ spoiled' = IF proc[p].alone THEN spoiled ELSE spoiled \cup {bao_root(p)}
     ELSE UNCHANGED <<blobs, spoiled>>
  /\ EndJob(p)

\* Any other step fails, and the command ends with an error.
Fail(p) ==
  /\ proc[p].pc \notin {"idle", "rename", "cleanup"} /\ budget.faults > 0
  /\ budget' = [budget EXCEPT !.faults = @ - 1]
  /\ failed' = IF At(p, "rollback") THEN failed \cup {fingerprint(p)} ELSE failed
  /\ Stopped(p)
  /\ UNCHANGED <<key, meta, published, tmp, quiet>>

Kill(p) ==
  /\ ~At(p, "idle") /\ budget.crashes > 0
  /\ budget' = [budget EXCEPT !.crashes = @ - 1]
  /\ Stopped(p)
  /\ UNCHANGED <<key, meta, published, tmp, quiet, failed>>

FilepackStep(p) ==
  \/ master_key_for_format(p) \/ validate_master_key_permissions(p) \/ read_master_key_file(p)
  \/ create_master_key(p) \/ write_master_key(p) \/ chmod_master_key(p)
  \/ store_blob(p) \/ put_commitment(p)
  \/ write_manifest_tmp(p) \/ write_sidecar_tmp(p) \/ commit_filepack_metadata(p)
  \/ rename(p) \/ rename_fails(p) \/ rollback_filepack_metadata(p) \/ cleanup(p)
  \/ Fail(p) \/ Kill(p)

-----------------------------------------------------------------------------
\* verify_filepack: the manifest's entries, or the sidecar's bindings when
\* they cover the archive's paths, are bound to the pack with their format.
ensure_casey_bindings_match_sidecar(archive, bindings) ==
  {f[1] : f \in archive} = {b.path : b \in bindings}

EntriesOf(fp) == IF fp.kind = "json" THEN published[fp].manifest ELSE published[fp].sidecar

verify_filepack(fp) ==
  /\ FilesOf(published, fp).manifest # None
  /\ fp.kind = "casey" =>
       /\ published[fp].sidecar # None
       /\ ensure_casey_bindings_match_sidecar(published[fp].manifest, published[fp].sidecar)
  /\ \A e \in EntriesOf(fp) :
       e.root \in DOMAIN meta /\ meta[e.root].fp = fp /\ meta[e.root].format = e.format

\* A pack created by a process that was the only one at work on its files,
\* and left alone since, verifies, whatever failed or crashed before.
UndisturbedPackVerifies == \A c \in quiet : verify_filepack(c.fp)

\* A pack that verifies can be read: its blobs are in place and whole, or are
\* just being written again, and the key its encrypted ones need is the one in
\* the key file, which is fit to be read.  Only a command stopped inside the
\* write of a blob that another one was publishing leaves it torn.
VerifiedPackDecodes ==
  \A fp \in DOMAIN published : verify_filepack(fp) =>
    \A e \in EntriesOf(fp) :
      /\ BlobOf(e.root)["file"] # None
      /\ ~Torn(BlobOf(e.root)["file"]) \/ e.root \in spoiled
      /\ e.root.key \notin {Public, "hex key"} => key.private /\ key.value = e.root.key

\* The manifest of a Casey pack is its ready marker: consumers find the
\* sidecar beside it.  A failed publication of the same pack removes it.
ManifestIsReadyMarker ==
  \A fp \in DOMAIN published :
    fp.kind = "casey" /\ published[fp].manifest # None /\ fp \notin failed =>
      published[fp].sidecar # None
=============================================================================
