---------------------------- MODULE DataDirProofs ----------------------------
(***************************************************************************)
(* What is in a data directory, proved for any number of processes,        *)
(* commands and frames, wherever steps fail and processes are killed.  The *)
(* first part is about what commands publish, the second about a pack      *)
(* whose files no other command touches, the third about lord-ltp.         *)
(*                                                                         *)
(* KeyInv: one process creates the master key file, no key is held before  *)
(* it is written and protected, and every root in the metadata has its     *)
(* blob in place and the key it was encoded with in that file.             *)
(*                                                                         *)
(* WholeInv: an open file is held by a process that is writing that blob;  *)
(* its writer is not alone once the file has another name than the draft;  *)
(* and only a draft that nobody is about to rename is torn, unless two     *)
(* writers met and the root is spoiled.                                    *)
(*                                                                         *)
(* ReadyInv: a process that is about to publish the manifest of a Casey    *)
(* pack finds the sidecar beside it, unless some creator of the same pack  *)
(* failed to publish it and removed the sidecar.                           *)
(*                                                                         *)
(* EntryInv: the entries a command has made are those of its first files,  *)
(* or of all of them once it packs, and their roots are in the metadata.   *)
(*                                                                         *)
(* RivalInv: a command that is alone shares nothing with another one that  *)
(* runs, nor does a pack that is quiet, and a manifest, wherever it is,    *)
(* is what its fingerprint is taken of.                                    *)
(*                                                                         *)
(* QuietInv: a command that is alone finds what it wrote, and a pack that  *)
(* is quiet verifies and holds the entries of its own job.                 *)
(*                                                                         *)
(* StagingInv: a listener between a record and its line end holds the lock *)
(* of the file, so that every other line of a file nobody was killed in    *)
(* has ended.                                                              *)
(*                                                                         *)
(* MempoolInv: the mempool file, the temporary file beside it and every    *)
(* copy a command has read or is about to write keep the limits, so that   *)
(* it does not matter which of them a rename moves into place.             *)
(*                                                                         *)
(* Calm: until two writers met, the temporary file was last opened by the  *)
(* process that is writing it, and only a whole snapshot is renamed.       *)
(***************************************************************************)
EXTENDS DataDir, FiniteSetTheorems, SequenceTheorems, WellFoundedInduction, TLAPS

-----------------------------------------------------------------------------
\* What a process is doing, and how a step changes it

\* A command has all its fields, and one or two files to publish.
IsCommand(c) ==
  /\ c = [pc |-> c.pc, job |-> c.job, alone |-> c.alone, entries |-> c.entries,
          held |-> c.held, previous |-> c.previous, publishing |-> c.publishing]
  /\ c.pc # "idle"
  /\ c.publishing = 1 \/ (c.publishing = 2 /\ c.job.compat)

ProcOK ==
  /\ proc = [p \in Procs |-> proc[p]]
  /\ \A p \in Procs : proc[p] = NoJob \/ IsCommand(proc[p])

\* Only the program counter, or also the key, the entries or the count of
\* published files is changed.
SameCommand(c, d) == d.job = c.job /\ d.alone = c.alone
SameEntries(c, d) == SameCommand(c, d) /\ d.entries = c.entries
SameKey(c, d) == SameEntries(c, d) /\ d.held = c.held
SameFiles(c, d) == SameKey(c, d) /\ d.publishing = c.publishing

Others(p) == \A q \in Procs \ {p} : proc'[q] = proc[q]

\* A process that is not idle runs a command.
LEMMA Running ==
  ASSUME ProcOK, NEW p \in Procs, proc[p].pc # "idle"
  PROVE  IsCommand(proc[p])
BY DEF ProcOK, NoJob

\* Goto
LEMMA GotoEffect ==
  ASSUME ProcOK, NEW p \in Procs, IsCommand(proc[p]), NEW pc, pc # "idle", Goto(p, pc)
  PROVE  ProcOK' /\ Others(p) /\ proc'[p].pc = pc /\ SameFiles(proc[p], proc'[p])
BY DEF ProcOK, Goto, IsCommand, Others, SameFiles, SameKey, SameEntries, SameCommand

\* KeyHeld
LEMMA HeldEffect ==
  ASSUME ProcOK, NEW p \in Procs, IsCommand(proc[p]), NEW k, KeyHeld(p, k)
  PROVE  ProcOK' /\ Others(p) /\ proc'[p].pc = "publish" /\ SameEntries(proc[p], proc'[p]) /\ proc'[p].held = k
BY DEF ProcOK, KeyHeld, IsCommand, Others, SameEntries, SameCommand

\* EndJob
LEMMA ReturnEffect ==
  ASSUME ProcOK, NEW p \in Procs, EndJob(p)
  PROVE  ProcOK' /\ Others(p) /\ proc'[p] = NoJob /\ proc'[p].pc = "idle"
BY DEF ProcOK, EndJob, Others, NoJob

\* put_commitment on a file that is not the last, or is
LEMMA EntriesEffect ==
  ASSUME ProcOK, NEW p \in Procs, IsCommand(proc[p]), NEW es, NEW pc, pc # "idle",
         proc' = [proc EXCEPT ![p].entries = es, ![p].pc = pc]
  PROVE  /\ ProcOK' /\ Others(p) /\ proc'[p].pc = pc /\ SameCommand(proc[p], proc'[p])
         /\ proc'[p].entries = es /\ proc'[p].held = proc[p].held
         /\ proc'[p].publishing = proc[p].publishing
BY DEF ProcOK, IsCommand, Others, SameCommand

\* commit_filepack_metadata
LEMMA CommitEffect ==
  ASSUME ProcOK, NEW p \in Procs, IsCommand(proc[p]), commit_filepack_metadata(p)
  PROVE  ProcOK' /\ Others(p) /\ proc'[p].pc = "rename" /\ SameFiles(proc[p], proc'[p])
BY DEF ProcOK, IsCommand, Others, SameFiles, SameKey, SameEntries, SameCommand, commit_filepack_metadata

\* The first of two files is published.
LEMMA PublishedEffect ==
  ASSUME ProcOK, NEW p \in Procs, IsCommand(proc[p]), Job(p).compat, proc[p].publishing = 1,
         proc' = [proc EXCEPT ![p].publishing = @ + 1]
  PROVE  /\ ProcOK' /\ Others(p) /\ proc'[p].pc = proc[p].pc /\ SameKey(proc[p], proc'[p])
         /\ proc'[p].publishing = 2
BY DEF ProcOK, IsCommand, Others, SameKey, SameEntries, SameCommand, Job

\* A command starts, and those that share files with it are no longer alone.
LEMMA StartEffect ==
  ASSUME ProcOK, NEW p \in Procs, NEW j, StartJob(p, j)
  PROVE  /\ ProcOK'
         /\ /\ proc'[p].pc = "encode" /\ proc'[p].job = j /\ proc'[p].entries = <<>>
            /\ proc'[p].publishing = 1
            /\ proc'[p].alone = ({q \in Active : Shares(proc[q].job, j)} = {})
         /\ \A q \in Procs \ {p} :
              IF q \in Active /\ Shares(proc[q].job, j)
              THEN /\ proc'[q].pc = proc[q].pc /\ proc'[q].job = proc[q].job /\ proc'[q].alone = FALSE
                   /\ proc'[q].entries = proc[q].entries /\ proc'[q].held = proc[q].held
                   /\ proc'[q].publishing = proc[q].publishing
              ELSE proc'[q] = proc[q]
<1> DEFINE rivals == {q \in Active : Shares(proc[q].job, j)}
<1>1. \A q \in rivals : q \in Procs /\ IsCommand(proc[q])
  BY Running DEF Active
<1> HIDE DEF rivals
<1>2. proc' = [q \in Procs |->
        IF q = p THEN [pc |-> "encode", job |-> j, alone |-> rivals = {}, entries |-> <<>>,
                       held |-> None, previous |-> <<>>, publishing |-> 1]
        ELSE IF q \in rivals THEN [proc[q] EXCEPT !.alone = FALSE]
        ELSE proc[q]]
  BY DEF StartJob, rivals
<1>3. /\ IsCommand(proc'[p]) /\ proc'[p].pc = "encode" /\ proc'[p].job = j /\ proc'[p].entries = <<>>
      /\ proc'[p].publishing = 1 /\ proc'[p].alone = (rivals = {})
  BY <1>2 DEF IsCommand
<1>4. ASSUME NEW q \in Procs \ {p}, q \in rivals
      PROVE  /\ IsCommand(proc'[q])
             /\ proc'[q].pc = proc[q].pc /\ proc'[q].job = proc[q].job /\ proc'[q].alone = FALSE
             /\ proc'[q].entries = proc[q].entries /\ proc'[q].held = proc[q].held
             /\ proc'[q].publishing = proc[q].publishing
  <2>1. proc'[q] = [proc[q] EXCEPT !.alone = FALSE]
    BY <1>2, <1>4
  <2> DEFINE c == proc[q]
             d == proc'[q]
  <2>2. IsCommand(c) /\ d = [c EXCEPT !.alone = FALSE]
    BY <1>1, <1>4, <2>1
  <2> HIDE DEF c, d
  <2>3. /\ d.pc = c.pc /\ d.job = c.job /\ d.alone = FALSE /\ d.entries = c.entries /\ d.held = c.held
        /\ d.publishing = c.publishing /\ d.previous = c.previous
    BY <2>2 DEF IsCommand
  <2>4. d = [pc |-> d.pc, job |-> d.job, alone |-> d.alone, entries |-> d.entries,
             held |-> d.held, previous |-> d.previous, publishing |-> d.publishing]
    BY <2>2 DEF IsCommand
  <2>5. IsCommand(d)
    BY <2>2, <2>3, <2>4 DEF IsCommand
  <2> QED BY <2>3, <2>5 DEF c, d
<1>5. \A q \in Procs \ {p} : q \notin rivals => proc'[q] = proc[q]
  BY <1>2
<1>6. ProcOK'
  BY <1>2, <1>3, <1>4, <1>5 DEF ProcOK
<1> QED BY <1>3, <1>4, <1>5, <1>6 DEF rivals

\* Where a step of a command may leave it.
LEMMA StepEffect ==
  ASSUME ProcOK, NEW p \in Procs, FilepackStep(p)
  PROVE  /\ ProcOK' /\ Others(p) /\ IsCommand(proc[p])
         /\ proc'[p] = NoJob \/ SameCommand(proc[p], proc'[p])
<1>1. IsCommand(proc[p])
  <2>1. proc[p].pc # "idle"
    BY DEF FilepackStep, master_key_for_format, validate_master_key_permissions, read_master_key_file,
           create_master_key, write_master_key, chmod_master_key, store_blob, open_draft, write_draft, rename_draft, publish_blob, rename_blob, put_commitment,
           write_manifest_tmp, write_sidecar_tmp, commit_filepack_metadata, rename, rename_fails,
           rollback_filepack_metadata, cleanup, Fail, Kill, Stopped, At
  <2> QED BY <2>1, Running
<1>2. ASSUME NEW pc, pc # "idle", Goto(p, pc)
      PROVE  ProcOK' /\ Others(p) /\ SameCommand(proc[p], proc'[p])
  BY <1>1, <1>2, GotoEffect DEF SameFiles, SameKey, SameEntries
<1>3. ASSUME NEW k, KeyHeld(p, k)
      PROVE  ProcOK' /\ Others(p) /\ SameCommand(proc[p], proc'[p])
  BY <1>1, <1>3, HeldEffect DEF SameEntries
<1>4. ASSUME EndJob(p)
      PROVE  ProcOK' /\ Others(p) /\ proc'[p] = NoJob
  BY <1>4, ReturnEffect
<1>5. CASE \/ master_key_for_format(p) \/ validate_master_key_permissions(p) \/ read_master_key_file(p)
           \/ create_master_key(p) \/ write_master_key(p) \/ chmod_master_key(p)
  BY <1>1, <1>2, <1>3, <1>4, <1>5 DEF master_key_for_format, validate_master_key_permissions,
     read_master_key_file, create_master_key, write_master_key, chmod_master_key
<1>6. CASE store_blob(p) \/ write_manifest_tmp(p) \/ write_sidecar_tmp(p) \/ rename_fails(p)
           \/ rollback_filepack_metadata(p) \/ cleanup(p) \/ Fail(p) \/ Kill(p)
  BY <1>1, <1>2, <1>4, <1>6 DEF store_blob, open_draft, write_draft, rename_draft, publish_blob, rename_blob, write_manifest_tmp, write_sidecar_tmp, rename_fails,
     rollback_filepack_metadata, cleanup, Fail, Kill, Stopped
<1>7. CASE put_commitment(p)
  <2>1. PICK es : \/ proc' = [proc EXCEPT ![p].entries = es, ![p].pc = "encode"]
                  \/ proc' = [proc EXCEPT ![p].entries = es, ![p].pc = "manifest_tmp"]
                  \/ EndJob(p)
    BY <1>7 DEF put_commitment
  <2> QED BY <1>1, <1>4, <2>1, EntriesEffect
<1>8. CASE commit_filepack_metadata(p)
  BY <1>1, <1>8, CommitEffect DEF SameFiles, SameKey, SameEntries
<1>9. CASE rename(p)
  <2>1. CASE EndJob(p)
    BY <1>1, <1>4, <2>1
  <2>2. CASE /\ proc[p].publishing < Len(publish_order(Job(p).compat))
             /\ proc' = [proc EXCEPT ![p].publishing = @ + 1]
    <3>1. Job(p).compat /\ proc[p].publishing = 1
      BY <1>1, <2>2 DEF publish_order, IsCommand, Job
    <3> QED BY <1>1, <2>2, <3>1, PublishedEffect DEF SameKey, SameEntries
  <2> QED BY <1>9, <2>1, <2>2 DEF rename
<1> QED BY <1>1, <1>5, <1>6, <1>7, <1>8, <1>9 DEF FilepackStep

\* What the commands of lord-storage read and write.
storeVars == <<key, blobs, meta, published, tmp, proc, quiet, failed, spoiled>>

\* A step is the start of a command of lord-storage, a step of one, or does
\* not touch its files.
LEMMA StepCases ==
  ASSUME [DirNext]_dirVars
  PROVE  \/ \E p \in Procs, j \in Jobs : StartJob(p, j)
         \/ \E p \in Procs : FilepackStep(p)
         \/ UNCHANGED storeVars
BY DEF DirNext, dirVars, packVars, storeVars, Begin, BeginLtp, KillLtp

\* The processes and their commands.
LEMMA ProcStep ==
  ASSUME ProcOK, [DirNext]_dirVars
  PROVE  ProcOK'
<1>1. ASSUME UNCHANGED storeVars
      PROVE  ProcOK'
  BY <1>1 DEF storeVars, ProcOK
<1> QED BY <1>1, StepCases, StartEffect, StepEffect

-----------------------------------------------------------------------------
\* The blobs under carbonado/

BlobsOK == \A r : BlobOf(r) \in [BlobNames -> OpenFile \cup {None}]
InPlace(r) == BlobOf(r)["file"] # None

\* SetBlob
LEMMA BlobSet ==
  ASSUME NEW r, NEW b, blobs' = SetBlob(r, b)
  PROVE  \A x : BlobOf(x)' = IF x = r THEN b ELSE BlobOf(x)
BY DEF SetBlob, BlobOf

\* Nothing is written.
LEMMA BlobsSame ==
  ASSUME blobs' = blobs
  PROVE  \A x : BlobOf(x)' = BlobOf(x)
BY DEF BlobOf

\* Truncating a file, and closing it.
LEMMA FileOps ==
  ASSUME NEW f \in OpenFile \cup {None}, NEW p \in Procs, NEW w \in BOOLEAN
  PROVE  /\ Opened(f, p) \in OpenFile /\ Opened(f, p) # None
         /\ Closed(f, p, w) \in OpenFile \cup {None}
         /\ f # None => Closed(f, p, w) # None
<1>1. f # None => f \in OpenFile /\ f.by \subseteq Procs /\ f.last \in Procs
  BY DEF OpenFile
<1>2. Opened(f, p) \in OpenFile
  BY <1>1 DEF Opened, OpenFile
<1>3. f # None /\ p \in f.by => Closed(f, p, w) \in OpenFile
  BY <1>1 DEF Closed, OpenFile
<1>4. f = None => Closed(f, p, w) = None
  BY DEF Closed
<1>5. f # None /\ p \notin f.by => Closed(f, p, w) = f
  BY DEF Closed
<1> QED BY <1>1, <1>2, <1>3, <1>4, <1>5, OpenFileAssumption

\* What the steps of a command make of the blob it is at.
Renamed(p, from, to) ==
  /\ BlobOf(bao_root(p))[from] # None
  /\ blobs' = SetBlob(bao_root(p), [BlobOf(bao_root(p)) EXCEPT ![to] = BlobOf(bao_root(p))[from], ![from] = None])

BlobWritten(p) ==
  \/ /\ At(p, "publish") /\ Goto(p, "writing") /\ spoiled' = spoiled
     /\ blobs' = SetBlob(bao_root(p), [BlobOf(bao_root(p)) EXCEPT !["draft"] = Opened(@, p)])
  \/ /\ At(p, "writing") /\ Goto(p, "drafted") /\ spoiled' = spoiled
     /\ \E cut \in BOOLEAN : blobs' = SetBlob(bao_root(p),
          [n \in BlobNames |-> LET f == BlobOf(bao_root(p))[n] IN Closed(f, p, f.whole \/ f.last = p \/ ~cut)])
  \/ At(p, "drafted") /\ Goto(p, "blob") /\ spoiled' = spoiled /\ Renamed(p, "draft", "tmp")
  \/ At(p, "blob") /\ Goto(p, "put") /\ spoiled' = spoiled /\ Renamed(p, "tmp", "file")
  \/ /\ At(p, "writing") /\ EndJob(p)
     /\ spoiled' = IF proc[p].alone THEN spoiled ELSE spoiled \cup {bao_root(p)}
     /\ blobs' = SetBlob(bao_root(p),
          [n \in BlobNames |-> LET f == BlobOf(bao_root(p))[n] IN Closed(f, p, f.whole)])

\* A step writes a blob in one of these ways, or none.
LEMMA BlobSteps ==
  ASSUME NEW p \in Procs, FilepackStep(p)
  PROVE  \/ blobs' = blobs /\ spoiled' = spoiled
         \/ BlobWritten(p) /\ (store_blob(p) \/ Fail(p) \/ Kill(p))
<1>1. CASE store_blob(p)
  BY <1>1 DEF store_blob, open_draft, write_draft, rename_draft, publish_blob, rename_blob, BlobWritten, Renamed
<1>2. CASE Fail(p) \/ Kill(p)
  BY <1>2 DEF Fail, Kill, Stopped, BlobWritten
<1>3. CASE ~(store_blob(p) \/ Fail(p) \/ Kill(p))
  BY <1>3 DEF FilepackStep, master_key_for_format, validate_master_key_permissions, read_master_key_file,
     create_master_key, write_master_key, chmod_master_key, put_commitment, write_manifest_tmp,
     write_sidecar_tmp, commit_filepack_metadata, rename, rename_fails, rollback_filepack_metadata, cleanup
<1> QED BY <1>1, <1>2, <1>3

\* A blob in place stays, and publish_blob puts one there.
LEMMA BlobEffect ==
  ASSUME BlobsOK, NEW p \in Procs, FilepackStep(p)
  PROVE  /\ BlobsOK'
         /\ \A r : InPlace(r) => InPlace(r)'
         /\ BlobWritten(p) /\ At(p, "blob") => \A r : r = bao_root(p) => InPlace(r)'
<1> DEFINE r == bao_root(p)
           b == BlobOf(r)
<1>1. CASE blobs' = blobs /\ ~BlobWritten(p)
  <2>1. \A x : BlobOf(x)' = BlobOf(x)
    BY <1>1, BlobsSame
  <2> QED BY <1>1, <2>1 DEF BlobsOK, InPlace
<1>2. CASE BlobWritten(p)
  <2>1. b \in [BlobNames -> OpenFile \cup {None}]
    BY DEF BlobsOK
  <2>2. ASSUME NEW c \in [BlobNames -> OpenFile \cup {None}], blobs' = SetBlob(r, c),
               b["file"] # None \/ At(p, "blob") => c["file"] # None
        PROVE  /\ BlobsOK'
               /\ \A x : InPlace(x) => InPlace(x)'
               /\ At(p, "blob") => \A x : x = r => InPlace(x)'
    <3>1. \A x : BlobOf(x)' = IF x = r THEN c ELSE BlobOf(x)
      BY <2>2, BlobSet
    <3> HIDE DEF r
    <3>2. BlobsOK'
      BY <2>2, <3>1 DEF BlobsOK
    <3>3. ASSUME NEW x, InPlace(x)
          PROVE  InPlace(x)'
      BY <2>2, <3>1, <3>3 DEF InPlace
    <3>4. At(p, "blob") => \A x : x = r => InPlace(x)'
      BY <2>2, <3>1 DEF InPlace
    <3> QED BY <3>2, <3>3, <3>4
  <2>3. CASE At(p, "publish") /\ blobs' = SetBlob(r, [b EXCEPT !["draft"] = Opened(@, p)])
    <3> DEFINE c == [b EXCEPT !["draft"] = Opened(@, p)]
    <3>1. Opened(b["draft"], p) \in OpenFile
      BY <2>1, FileOps DEF BlobNames
    <3>2. c \in [BlobNames -> OpenFile \cup {None}] /\ c["file"] = b["file"]
      BY <2>1, <3>1 DEF BlobNames
    <3>3. ~At(p, "blob")
      BY <2>3 DEF At
    <3> HIDE DEF r, b, c
    <3> QED BY <2>2, <2>3, <3>2, <3>3 DEF c
  <2>4. ASSUME At(p, "writing"), NEW w, \A n \in BlobNames : w[n] \in BOOLEAN,
               blobs' = SetBlob(r, [n \in BlobNames |-> Closed(b[n], p, w[n])])
        PROVE  /\ BlobsOK'
               /\ \A x : InPlace(x) => InPlace(x)'
               /\ At(p, "blob") => \A x : x = r => InPlace(x)'
    <3> DEFINE c == [n \in BlobNames |-> Closed(b[n], p, w[n])]
    <3>1. \A n \in BlobNames : b[n] \in OpenFile \cup {None} /\ w[n] \in BOOLEAN
      BY <2>1, <2>4
    <3>2. \A n \in BlobNames : Closed(b[n], p, w[n]) \in OpenFile \cup {None}
      BY <3>1, FileOps
    <3>3. \A n \in BlobNames : b[n] # None => Closed(b[n], p, w[n]) # None
      BY <3>1, FileOps
    <3> HIDE DEF r, b
    <3>4. c \in [BlobNames -> OpenFile \cup {None}]
      BY <3>2
    <3>5. b["file"] # None => c["file"] # None
      BY <3>3 DEF BlobNames
    <3>6. ~At(p, "blob")
      BY <2>4 DEF At
    <3> HIDE DEF c
    <3> QED BY <2>2, <2>4, <3>4, <3>5, <3>6 DEF c
  <2>5. ASSUME At(p, "writing"),
               NEW cut \in BOOLEAN, blobs' = SetBlob(r,
                 [n \in BlobNames |-> LET f == b[n] IN Closed(f, p, f.whole \/ f.last = p \/ ~cut)])
        PROVE  /\ BlobsOK'
               /\ \A x : InPlace(x) => InPlace(x)'
               /\ At(p, "blob") => \A x : x = r => InPlace(x)'
    <3> DEFINE w == [n \in BlobNames |-> b[n].whole \/ b[n].last = p \/ ~cut]
    <3>1. \A n \in BlobNames : w[n] \in BOOLEAN
      OBVIOUS
    <3>2. [n \in BlobNames |-> LET f == b[n] IN Closed(f, p, f.whole \/ f.last = p \/ ~cut)] =
            [n \in BlobNames |-> Closed(b[n], p, w[n])]
      OBVIOUS
    <3> QED BY <2>4, <2>5, <3>1, <3>2
  <2>6. ASSUME At(p, "writing"),
               blobs' = SetBlob(r, [n \in BlobNames |-> LET f == b[n] IN Closed(f, p, f.whole)])
        PROVE  /\ BlobsOK'
               /\ \A x : InPlace(x) => InPlace(x)'
               /\ At(p, "blob") => \A x : x = r => InPlace(x)'
    <3> DEFINE w == [n \in BlobNames |-> b[n].whole = TRUE]
    <3>1. \A n \in BlobNames : w[n] \in BOOLEAN
      OBVIOUS
    <3>2. \A n \in BlobNames : b[n] # None => b[n].whole \in BOOLEAN
      BY <2>1 DEF OpenFile
    <3>3. ASSUME NEW n \in BlobNames
          PROVE  Closed(b[n], p, b[n].whole) = Closed(b[n], p, w[n])
      <4>1. CASE b[n] = None
        BY <4>1 DEF Closed
      <4>2. CASE b[n] # None
        <5>1. b[n].whole = w[n]
          BY <3>2, <4>2
        <5> QED BY <5>1
      <4> QED BY <4>1, <4>2
    <3> QED BY <2>4, <2>6, <3>1, <3>3
  <2>7. ASSUME NEW from \in BlobNames, NEW to \in BlobNames, from # to, Renamed(p, from, to),
               from # "file", At(p, "blob") => to = "file"
        PROVE  /\ BlobsOK'
               /\ \A x : InPlace(x) => InPlace(x)'
               /\ At(p, "blob") => \A x : x = r => InPlace(x)'
    <3> DEFINE c == [b EXCEPT ![to] = b[from], ![from] = None]
    <3>1. blobs' = SetBlob(r, c) /\ b[from] # None
      BY <2>7 DEF Renamed
    <3>2. /\ c \in [BlobNames -> OpenFile \cup {None}]
          /\ c["file"] = IF to = "file" THEN b[from] ELSE b["file"]
      BY <2>1, <2>7 DEF BlobNames
    <3> HIDE DEF c, r, b
    <3> QED BY <2>2, <2>7, <3>1, <3>2
  <2> QED BY <1>2, <2>3, <2>5, <2>6, <2>7 DEF BlobWritten, At, BlobNames
<1> QED BY <1>1, <1>2, BlobSteps

-----------------------------------------------------------------------------
\* A pack that verifies can be decoded

\* The master key file holds this key for good.
KeyFits(k) ==
  k \notin {Public, "hex key"} =>
    /\ key.exists /\ key.private /\ key.value = k
    /\ \A q \in Procs : proc[q].pc # "write"

\* Where a command has the key and is at a blob.
Storing == {"publish", "writing", "drafted", "blob", "put"}

\* One process at most writes the key file, and the others read what it wrote.
KeyOf(p) ==
  /\ (proc[p].pc \in {"permissions", "read", "write", "chmod"} => key.exists)
  /\ (proc[p].pc = "read" => key.private)
  /\ (proc[p].pc = "write" => key.value = None)
  /\ (proc[p].pc = "chmod" => key.value = NewKey(p) /\ \A q \in Procs : proc[q].pc # "write")
  /\ (proc[p].pc \in {"write", "chmod"} => \A q \in Procs \ {p} : proc[q].pc \notin {"write", "chmod"})
  /\ (proc[p].pc \in Storing => KeyFits(proc[p].held))
  /\ (proc[p].pc = "put" => \A r : r = bao_root(p) => InPlace(r))

KeyInv ==
  /\ ProcOK
  /\ key = [exists |-> key.exists, value |-> key.value, private |-> key.private]
  /\ key.exists \in BOOLEAN /\ key.private \in BOOLEAN
  /\ \A p \in Procs : KeyOf(p)
  /\ BlobsOK
  /\ \A r \in DOMAIN meta : InPlace(r) /\ KeyFits(r.key)

\* A step that does not touch the key file, nor lets a process write it, keeps
\* what others and the stored blobs rely on.
LEMMA KeyKept ==
  ASSUME KeyInv, key' = key, BlobsOK', \A r : InPlace(r) => InPlace(r)', DOMAIN meta' = DOMAIN meta, ProcOK',
         NEW p \in Procs, Others(p), proc'[p].pc # "write", KeyOf(p)'
  PROVE  KeyInv'
<1>1. \A k : KeyFits(k) => KeyFits(k)'
  BY DEF KeyFits, Others
<1>2. ASSUME NEW q \in Procs \ {p}
      PROVE  KeyOf(q)'
  <2>1. KeyOf(q) /\ proc'[q] = proc[q]
    BY DEF KeyInv, Others
  <2>2. bao_root(q)' = bao_root(q)
    BY <2>1 DEF bao_root, File, Job
  <2>3. \A x \in Procs \ {q} : proc[q].pc \in {"write", "chmod"} => proc'[x].pc \notin {"write", "chmod"}
    BY <2>1 DEF KeyOf, Storing, Others, KeyInv
  <2> QED BY <1>1, <2>1, <2>2, <2>3 DEF KeyOf, Storing, Others
<1> QED BY <1>1, <1>2 DEF KeyInv

\* Steps that end a command, or take it where the key does not matter.
Elsewhere == {"idle", "encode", "create", "manifest_tmp", "sidecar_tmp", "commit", "rename", "rollback", "cleanup"}

LEMMA KeyElsewhere ==
  ASSUME KeyInv, key' = key, BlobsOK', \A r : InPlace(r) => InPlace(r)', DOMAIN meta' = DOMAIN meta, ProcOK',
         NEW p \in Procs, Others(p), proc'[p].pc \in Elsewhere
  PROVE  KeyInv'
<1>1. KeyOf(p)' /\ proc'[p].pc # "write"
  BY DEF KeyOf, Storing, Elsewhere
<1> QED BY <1>1, KeyKept

\* Loading or creating the master key.
LEMMA KeyLoaded ==
  ASSUME KeyInv, NEW p \in Procs,
         \/ master_key_for_format(p) \/ validate_master_key_permissions(p) \/ read_master_key_file(p)
         \/ create_master_key(p) \/ write_master_key(p) \/ chmod_master_key(p)
  PROVE  KeyInv'
<1>1. ProcOK /\ IsCommand(proc[p]) /\ ProcOK' /\ Others(p) /\ KeyOf(p)
  BY StepEffect DEF KeyInv, FilepackStep
<1>2. meta' = meta /\ DOMAIN meta' = DOMAIN meta /\ BlobsOK' /\ \A r : InPlace(r) => InPlace(r)'
  <2>1. meta' = meta
    BY DEF master_key_for_format, validate_master_key_permissions, read_master_key_file,
           create_master_key, write_master_key, chmod_master_key
  <2> QED BY <2>1, BlobEffect DEF KeyInv, FilepackStep
<1>3. ASSUME key' = key, EndJob(p)
      PROVE  KeyInv'
  <2>1. proc'[p].pc = "idle"
    BY <1>1, <1>3, ReturnEffect
  <2> QED BY <1>1, <1>2, <1>3, <2>1, KeyElsewhere DEF Elsewhere
<1>4. CASE master_key_for_format(p)
  <2>1. key' = key
    BY <1>4 DEF master_key_for_format
  <2>2. ASSUME NEW k, KeyHeld(p, k), k \in {Public, "hex key"}
        PROVE  KeyInv'
    <3>1. proc'[p].pc = "publish" /\ proc'[p].held = k
      BY <1>1, <2>2, HeldEffect
    <3>2. KeyOf(p)'
      BY <2>2, <3>1 DEF KeyOf, Storing, KeyFits
    <3> QED BY <1>1, <1>2, <2>1, <3>1, <3>2, KeyKept
  <2>3. CASE key.exists /\ Goto(p, "permissions")
    <3>1. proc'[p].pc = "permissions"
      BY <1>1, <2>3, GotoEffect
    <3>2. KeyOf(p)'
      BY <2>1, <2>3, <3>1 DEF KeyOf, Storing
    <3> QED BY <1>1, <1>2, <2>1, <3>1, <3>2, KeyKept
  <2>4. CASE Goto(p, "create")
    <3>1. proc'[p].pc = "create"
      BY <1>1, <2>4, GotoEffect
    <3> QED BY <1>1, <1>2, <2>1, <3>1, KeyElsewhere DEF Elsewhere
  <2> QED BY <1>4, <2>2, <2>3, <2>4 DEF master_key_for_format
<1>5. CASE validate_master_key_permissions(p)
  <2>1. key' = key
    BY <1>5 DEF validate_master_key_permissions
  <2>2. CASE key.private /\ Goto(p, "read")
    <3>1. proc'[p].pc = "read" /\ proc[p].pc = "permissions"
      BY <1>1, <1>5, <2>2, GotoEffect DEF validate_master_key_permissions, At
    <3>2. KeyOf(p)'
      BY <1>1, <2>1, <2>2, <3>1 DEF KeyOf, Storing
    <3> QED BY <1>1, <1>2, <2>1, <3>1, <3>2, KeyKept
  <2> QED BY <1>3, <1>5, <2>1, <2>2 DEF validate_master_key_permissions
<1>6. CASE read_master_key_file(p)
  <2>1. key' = key
    BY <1>6 DEF read_master_key_file
  <2>2. CASE key.value # None /\ KeyHeld(p, key.value)
    <3>1. proc[p].pc = "read" /\ proc'[p].pc = "publish" /\ proc'[p].held = key.value
      BY <1>1, <1>6, <2>2, HeldEffect DEF read_master_key_file, At
    <3>2. \A q \in Procs : proc[q].pc # "write"
      BY <2>2 DEF KeyInv, KeyOf, Storing
    <3>3. KeyFits(proc[p].held)'
      BY <1>1, <2>1, <3>1, <3>2 DEF KeyFits, KeyOf, Storing, Others
    <3>4. KeyOf(p)'
      BY <3>1, <3>3 DEF KeyOf, Storing
    <3> QED BY <1>1, <1>2, <2>1, <3>1, <3>4, KeyKept
  <2> QED BY <1>3, <1>6, <2>1, <2>2 DEF read_master_key_file
<1>7. CASE create_master_key(p)
  <2>1. CASE key.exists
    <3>1. key' = key /\ Goto(p, "permissions")
      BY <1>7, <2>1 DEF create_master_key
    <3>2. proc'[p].pc = "permissions"
      BY <1>1, <3>1, GotoEffect
    <3>3. KeyOf(p)'
      BY <2>1, <3>1, <3>2 DEF KeyOf, Storing
    <3> QED BY <1>1, <1>2, <3>1, <3>2, <3>3, KeyKept
  <2>2. CASE ~key.exists
    <3>1. PICK private \in BOOLEAN : key' = [exists |-> TRUE, value |-> None, private |-> private]
      BY <1>7, <2>2 DEF create_master_key
    <3>2. Goto(p, "write")
      BY <1>7, <2>2 DEF create_master_key
    <3>3. proc'[p].pc = "write"
      BY <1>1, <3>2, GotoEffect
    <3>4. \A k : KeyFits(k) => KeyFits(k)'
      BY <2>2 DEF KeyFits
    <3>5. \A q \in Procs : proc[q].pc \notin {"permissions", "read", "write", "chmod"}
      BY <2>2 DEF KeyInv, KeyOf, Storing
    <3>6. KeyOf(p)'
      BY <1>1, <3>1, <3>3, <3>5 DEF KeyOf, Storing, Others
    <3>7. ASSUME NEW q \in Procs \ {p}
          PROVE  KeyOf(q)'
      <4>1. KeyOf(q) /\ proc'[q] = proc[q]
        BY <1>1 DEF KeyInv, Others
      <4>2. bao_root(q)' = bao_root(q)
        BY <4>1 DEF bao_root, File, Job
      <4> QED BY <1>2, <3>4, <3>5, <4>1, <4>2 DEF KeyOf, Storing
    <3>8. /\ key' = [exists |-> key'.exists, value |-> key'.value, private |-> key'.private]
          /\ key'.exists \in BOOLEAN /\ key'.private \in BOOLEAN
      BY <3>1
    <3> QED BY <1>1, <1>2, <3>4, <3>6, <3>7, <3>8 DEF KeyInv
  <2> QED BY <2>1, <2>2
<1>8. CASE write_master_key(p)
  <2>1. proc[p].pc = "write" /\ key' = [key EXCEPT !.value = NewKey(p)] /\ Goto(p, "chmod")
    BY <1>8 DEF write_master_key, At
  <2>2. key'.exists = key.exists /\ key'.value = NewKey(p) /\ key'.private = key.private
    BY <2>1 DEF KeyInv
  <2>3. proc'[p].pc = "chmod"
    BY <1>1, <2>1, GotoEffect
  <2>4. \A k : KeyFits(k) => KeyFits(k)'
    BY <2>1 DEF KeyFits
  <2>5. \A q \in Procs \ {p} : proc[q].pc \notin {"write", "chmod"}
    BY <1>1, <2>1 DEF KeyOf, Storing
  <2>6. \A q \in Procs : proc'[q].pc # "write"
    BY <1>1, <2>3, <2>5 DEF Others
  <2>7. KeyOf(p)'
    BY <1>1, <2>1, <2>2, <2>3, <2>5, <2>6 DEF KeyOf, Storing, Others
  <2>8. ASSUME NEW q \in Procs \ {p}
        PROVE  KeyOf(q)'
    <3>1. KeyOf(q) /\ proc'[q] = proc[q]
      BY <1>1 DEF KeyInv, Others
    <3>2. bao_root(q)' = bao_root(q)
      BY <3>1 DEF bao_root, File, Job
    <3> QED BY <1>2, <2>2, <2>4, <2>5, <3>1, <3>2 DEF KeyOf, Storing
  <2>9. key' = [exists |-> key'.exists, value |-> key'.value, private |-> key'.private]
    BY <2>1 DEF KeyInv
  <2> QED BY <1>1, <1>2, <2>2, <2>4, <2>7, <2>8, <2>9 DEF KeyInv
<1>9. CASE chmod_master_key(p)
  <2>1. proc[p].pc = "chmod" /\ key' = [key EXCEPT !.private = TRUE] /\ KeyHeld(p, NewKey(p))
    BY <1>9 DEF chmod_master_key, At
  <2>2. key'.exists = key.exists /\ key'.value = key.value /\ key'.private = TRUE
    BY <2>1 DEF KeyInv
  <2>3. proc'[p].pc = "publish" /\ proc'[p].held = NewKey(p)
    BY <1>1, <2>1, HeldEffect
  <2>4. key.exists /\ key.value = NewKey(p) /\ \A q \in Procs : proc[q].pc # "write"
    BY <1>1, <2>1 DEF KeyOf, Storing
  <2>5. \A q \in Procs : proc'[q].pc # "write"
    BY <1>1, <2>3, <2>4 DEF Others
  <2>6. \A k : KeyFits(k) => KeyFits(k)'
    BY <2>2, <2>5 DEF KeyFits
  <2>7. KeyFits(proc[p].held)'
    BY <2>2, <2>3, <2>4, <2>5 DEF KeyFits
  <2>8. KeyOf(p)'
    BY <2>3, <2>7 DEF KeyOf, Storing
  <2>9. ASSUME NEW q \in Procs \ {p}
        PROVE  KeyOf(q)'
    <3>1. KeyOf(q) /\ proc'[q] = proc[q]
      BY <1>1 DEF KeyInv, Others
    <3>2. bao_root(q)' = bao_root(q)
      BY <3>1 DEF bao_root, File, Job
    <3>3. \A x \in Procs \ {q} : proc[q].pc \in {"write", "chmod"} => proc'[x].pc \notin {"write", "chmod"}
      BY <1>1, <2>3, <3>1 DEF KeyOf, Storing, Others
    <3> QED BY <1>2, <2>2, <2>5, <2>6, <3>1, <3>2, <3>3 DEF KeyOf, Storing
  <2>10. key' = [exists |-> key'.exists, value |-> key'.value, private |-> key'.private]
    BY <2>1 DEF KeyInv
  <2>11. key'.exists \in BOOLEAN /\ key'.private \in BOOLEAN
    BY <2>2 DEF KeyInv
  <2> QED BY <1>1, <1>2, <2>6, <2>8, <2>9, <2>10, <2>11 DEF KeyInv
<1> QED BY <1>4, <1>5, <1>6, <1>7, <1>8, <1>9

\* Encoding, publishing, failing and being killed.
LEMMA KeyUsed ==
  ASSUME KeyInv, NEW p \in Procs, FilepackStep(p),
         ~(\/ master_key_for_format(p) \/ validate_master_key_permissions(p) \/ read_master_key_file(p)
           \/ create_master_key(p) \/ write_master_key(p) \/ chmod_master_key(p))
  PROVE  KeyInv'
<1>1. ProcOK /\ IsCommand(proc[p]) /\ ProcOK' /\ Others(p) /\ KeyOf(p)
  BY StepEffect DEF KeyInv
<1>2. BlobsOK' /\ \A r : InPlace(r) => InPlace(r)'
  BY BlobEffect DEF KeyInv
<1>3. CASE store_blob(p)
  <2>1. key' = key /\ meta' = meta /\ proc[p].pc \in Storing
    BY <1>3 DEF store_blob, open_draft, write_draft, rename_draft, publish_blob, rename_blob, At, Storing
  <2>2. CASE EndJob(p)
    <3>1. proc'[p].pc \in Elsewhere
      BY <1>1, <2>2, ReturnEffect DEF Elsewhere
    <3> QED BY <1>2, <1>1, <2>1, <3>1, KeyElsewhere
  <2>3. ASSUME NEW pc \in Storing, Goto(p, pc),
               pc = "put" => \A r : r = bao_root(p) => InPlace(r)'
        PROVE  KeyInv'
    <3>1. proc'[p].pc = pc /\ SameFiles(proc[p], proc'[p])
      BY <1>1, <2>3, GotoEffect DEF Storing
    <3>2. bao_root(p)' = bao_root(p) /\ proc'[p].held = proc[p].held
      BY <3>1 DEF bao_root, File, Job, SameFiles, SameKey, SameEntries, SameCommand
    <3>3. KeyFits(proc[p].held)'
      BY <1>1, <2>1, <3>1, <3>2 DEF KeyOf, KeyFits, Others, Storing
    <3>4. KeyOf(p)'
      BY <2>3, <3>1, <3>2, <3>3 DEF KeyOf, Storing
    <3> QED BY <1>2, <1>1, <2>1, <3>1, <3>4, KeyKept DEF Storing
  <2>4. CASE publish_blob(p) /\ ~EndJob(p)
    <3>1. BlobWritten(p) /\ At(p, "blob") /\ Goto(p, "put")
      BY <2>4 DEF publish_blob, rename_blob, BlobWritten, Renamed
    <3>2. \A r : r = bao_root(p) => InPlace(r)'
      BY <3>1, BlobEffect DEF KeyInv
    <3> QED BY <2>3, <3>1, <3>2 DEF Storing
  <2>5. CASE open_draft(p) \/ write_draft(p) \/ (rename_draft(p) /\ ~EndJob(p))
    <3>1. Goto(p, "writing") \/ Goto(p, "drafted") \/ Goto(p, "blob")
      BY <2>5 DEF open_draft, write_draft, rename_draft, rename_blob
    <3> QED BY <2>3, <3>1 DEF Storing
  <2> QED BY <1>3, <2>2, <2>4, <2>5 DEF store_blob
<1>4. CASE put_commitment(p)
  <2>1. proc[p].pc = "put" /\ key' = key /\ DOMAIN meta' = DOMAIN meta \cup {bao_root(p)}
    BY <1>4 DEF put_commitment, At
  <2>2. PICK es : \/ proc' = [proc EXCEPT ![p].entries = es, ![p].pc = "encode"]
                  \/ proc' = [proc EXCEPT ![p].entries = es, ![p].pc = "manifest_tmp"]
                  \/ EndJob(p)
    BY <1>4 DEF put_commitment
  <2>3. proc'[p].pc \in {"encode", "manifest_tmp", "idle"}
    <3>1. CASE EndJob(p)
      BY <1>1, <3>1, ReturnEffect
    <3>2. ASSUME NEW pc \in {"encode", "manifest_tmp"}, proc' = [proc EXCEPT ![p].entries = es, ![p].pc = pc]
          PROVE  proc'[p].pc = pc
      BY <1>1, <3>2 DEF ProcOK, IsCommand
    <3> QED BY <2>2, <3>1, <3>2
  <2>4. InPlace(bao_root(p)) /\ KeyFits(bao_root(p).key)
    BY <1>1, <2>1 DEF KeyOf, bao_root, Storing
  <2>5. \A k : KeyFits(k) => KeyFits(k)'
    BY <1>1, <2>1, <2>3 DEF KeyFits, Others
  <2>6. \A r \in DOMAIN meta' : InPlace(r)' /\ KeyFits(r.key)'
    BY <1>2, <2>1, <2>4, <2>5 DEF KeyInv
  <2>7. KeyOf(p)'
    BY <2>3 DEF KeyOf, Storing
  <2>8. ASSUME NEW q \in Procs \ {p}
        PROVE  KeyOf(q)'
    <3>1. KeyOf(q) /\ proc'[q] = proc[q]
      BY <1>1 DEF KeyInv, Others
    <3>2. bao_root(q)' = bao_root(q)
      BY <3>1 DEF bao_root, File, Job
    <3>3. \A x \in Procs \ {q} : proc[q].pc \in {"write", "chmod"} => proc'[x].pc \notin {"write", "chmod"}
      BY <1>1, <2>3, <3>1 DEF KeyOf, Storing, Others
    <3> QED BY <1>2, <1>1, <2>1, <2>3, <2>5, <3>1, <3>2, <3>3 DEF KeyOf, Storing, Others
  <2> QED BY <1>2, <1>1, <2>1, <2>6, <2>7, <2>8 DEF KeyInv
<1>5. CASE write_manifest_tmp(p) \/ write_sidecar_tmp(p) \/ rename_fails(p)
           \/ rollback_filepack_metadata(p) \/ cleanup(p) \/ Fail(p) \/ Kill(p)
  <2>1. key' = key /\ DOMAIN meta' = DOMAIN meta
    BY <1>5 DEF write_manifest_tmp, write_sidecar_tmp, rename_fails, rollback_filepack_metadata, Bound,
                cleanup, Fail, Kill, Stopped
  <2>2. EndJob(p) \/ \E pc \in {"sidecar_tmp", "commit", "rollback", "cleanup"} : Goto(p, pc)
    BY <1>5 DEF write_manifest_tmp, write_sidecar_tmp, rename_fails, rollback_filepack_metadata,
                cleanup, Fail, Kill, Stopped
  <2>3. proc'[p].pc \in Elsewhere
    BY <1>1, <2>2, GotoEffect, ReturnEffect DEF Elsewhere
  <2> QED BY <1>2, <1>1, <2>1, <2>3, KeyElsewhere
<1>6. CASE commit_filepack_metadata(p)
  <2>1. key' = key /\ DOMAIN meta' = DOMAIN meta
    BY <1>6 DEF commit_filepack_metadata, Bound
  <2>2. proc'[p].pc \in Elsewhere
    BY <1>1, <1>6, CommitEffect DEF Elsewhere
  <2> QED BY <1>2, <1>1, <2>1, <2>2, KeyElsewhere
<1>7. CASE rename(p)
  <2>1. proc[p].pc = "rename" /\ key' = key /\ meta' = meta
    BY <1>7 DEF rename, At
  <2>2. proc'[p].pc \in Elsewhere
    <3>1. CASE EndJob(p)
      BY <1>1, <3>1, ReturnEffect DEF Elsewhere
    <3>2. CASE /\ proc[p].publishing < Len(publish_order(Job(p).compat))
               /\ proc' = [proc EXCEPT ![p].publishing = @ + 1]
      <4>1. Job(p).compat /\ proc[p].publishing = 1
        BY <1>1, <3>2 DEF publish_order, IsCommand, Job
      <4> QED BY <1>1, <2>1, <3>2, <4>1, PublishedEffect DEF Elsewhere
    <3> QED BY <1>7, <3>1, <3>2 DEF rename
  <2> QED BY <1>2, <1>1, <2>1, <2>2, KeyElsewhere
<1> QED BY <1>3, <1>4, <1>5, <1>6, <1>7 DEF FilepackStep

\* The key invariant.
LEMMA KeyInvariant == DirSpec => []KeyInv
<1>1. DirInit => KeyInv
  <2> SUFFICES ASSUME DirInit
               PROVE  KeyInv
    OBVIOUS
  <2>1. /\ key = [exists |-> FALSE, value |-> None, private |-> FALSE]
        /\ meta = <<>> /\ proc = [p \in Procs |-> NoJob]
    BY DEF DirInit, FilepackInit
  <2>2. \A p \in Procs : proc[p] = NoJob /\ proc[p].pc = "idle"
    BY <2>1 DEF NoJob
  <2>3. ProcOK
    BY <2>1, <2>2 DEF ProcOK
  <2>4. \A p \in Procs : KeyOf(p)
    BY <2>2 DEF KeyOf, Storing
  <2>5. DOMAIN meta = {}
    BY <2>1
  <2>6. BlobsOK
    BY DEF DirInit, FilepackInit, BlobsOK, BlobOf, NoBlob
  <2> QED BY <2>1, <2>3, <2>4, <2>5, <2>6 DEF KeyInv
<1>2. KeyInv /\ [DirNext]_dirVars => KeyInv'
  <2> SUFFICES ASSUME KeyInv, [DirNext]_dirVars
               PROVE  KeyInv'
    OBVIOUS
  <2>1. ASSUME NEW p \in Procs, NEW j \in Jobs, StartJob(p, j)
        PROVE  KeyInv'
    <3>1. /\ key' = key /\ blobs' = blobs /\ meta' = meta
      BY <2>1 DEF StartJob
    <3>2. BlobsOK' /\ \A r : InPlace(r) => InPlace(r)'
      BY <3>1, BlobsSame DEF KeyInv, BlobsOK, InPlace
    <3>3. ProcOK
      BY DEF KeyInv
    <3>4. ProcOK' /\ proc'[p].pc = "encode"
      BY <2>1, <3>3, StartEffect
    <3>5. ASSUME NEW q \in Procs \ {p}
          PROVE  /\ proc'[q].pc = proc[q].pc
                 /\ proc[q].pc \in Storing =>
                      proc'[q].held = proc[q].held /\ bao_root(q)' = bao_root(q)
      <4>1. \/ proc'[q] = proc[q]
            \/ /\ proc'[q].pc = proc[q].pc /\ proc'[q].job = proc[q].job
               /\ proc'[q].entries = proc[q].entries /\ proc'[q].held = proc[q].held
        BY <2>1, <3>3, StartEffect
      <4> QED BY <4>1 DEF bao_root, File, Job
    <3>6. \A k : KeyFits(k) => KeyFits(k)'
      BY <3>1, <3>4, <3>5 DEF KeyFits
    <3>7. KeyOf(p)'
      BY <3>4 DEF KeyOf, Storing
    <3>8. ASSUME NEW q \in Procs \ {p}
          PROVE  KeyOf(q)'
      <4>1. KeyOf(q)
        BY DEF KeyInv
      <4>2. \A x \in Procs : proc[x].pc # "write" => proc'[x].pc # "write"
        BY <3>4, <3>5
      <4>3. \A x \in Procs : proc[x].pc \notin {"write", "chmod"} => proc'[x].pc \notin {"write", "chmod"}
        BY <3>4, <3>5
      <4> QED BY <3>2, <3>1, <3>5, <3>6, <4>1, <4>2, <4>3 DEF KeyOf, Storing
    <3> QED BY <3>2, <3>1, <3>4, <3>6, <3>7, <3>8 DEF KeyInv
  <2>2. ASSUME UNCHANGED storeVars
        PROVE  KeyInv'
    <3>1. key' = key /\ blobs' = blobs /\ meta' = meta /\ proc' = proc
      BY <2>2 DEF storeVars
    <3>2. BlobsOK' /\ \A r : InPlace(r) => InPlace(r)'
      BY <3>1, BlobsSame DEF KeyInv, BlobsOK, InPlace
    <3>3. \A k : KeyFits(k)' <=> KeyFits(k)
      BY <3>1 DEF KeyFits
    <3>4. \A p \in Procs : KeyOf(p)'
      BY <3>2, <3>1, <3>3 DEF KeyInv, KeyOf, Storing, bao_root, File, Job
    <3> QED BY <3>2, <3>1, <3>3, <3>4 DEF KeyInv, ProcOK
  <2> QED BY <2>1, <2>2, StepCases, KeyLoaded, KeyUsed
<1> QED BY <1>1, <1>2, PTL DEF DirSpec

-----------------------------------------------------------------------------
\* The manifest is the ready marker

\* A directory has packs of two files.
Names == {"manifest", "sidecar"}
DirOK(dir) == \A fp \in DOMAIN dir : Names \subseteq DOMAIN dir[fp]

\* Replacing the files of a pack leaves the other packs.
LEMMA FilesAfter ==
  ASSUME NEW dir, NEW fp, NEW files, NEW x
  PROVE  FilesOf(SetFiles(dir, fp, files), x) = IF x = fp THEN files ELSE FilesOf(dir, x)
BY DEF SetFiles, FilesOf

\* It is still a directory of packs.
LEMMA FilesStayOK ==
  ASSUME NEW dir, DirOK(dir), NEW fp, NEW files, Names \subseteq DOMAIN files
  PROVE  DirOK(SetFiles(dir, fp, files))
BY DEF SetFiles, DirOK

\* A pack has two files.
LEMMA PackNames ==
  ASSUME NEW dir, DirOK(dir), NEW fp
  PROVE  Names \subseteq DOMAIN FilesOf(dir, fp)
BY DEF DirOK, FilesOf, NoFiles, Names

\* Setting one file of a pack: the two files.
LEMMA SetFileSets ==
  ASSUME NEW dir, DirOK(dir), NEW fp, NEW name \in Names, NEW content, NEW n \in Names
  PROVE  FilesOf(SetFile(dir, fp, name, content), fp)[n] =
           IF n = name THEN content ELSE FilesOf(dir, fp)[n]
<1> DEFINE files == FilesOf(dir, fp)
           set == [files EXCEPT ![name] = content]
<1>1. Names \subseteq DOMAIN files
  BY PackNames
<1>2. SetFile(dir, fp, name, content) = SetFiles(dir, fp, set)
  BY DEF SetFile
<1> HIDE DEF files
<1>3. set[n] = IF n = name THEN content ELSE files[n]
  BY <1>1
<1> HIDE DEF set
<1>4. FilesOf(SetFiles(dir, fp, set), fp) = set
  BY FilesAfter
<1> QED BY <1>2, <1>3, <1>4 DEF files

\* The other packs.
LEMMA SetFileElsewhere ==
  ASSUME NEW dir, NEW fp, NEW name, NEW content, NEW x, x # fp
  PROVE  FilesOf(SetFile(dir, fp, name, content), x) = FilesOf(dir, x)
BY FilesAfter DEF SetFile

\* It is still a directory of packs.
LEMMA SetFileOK ==
  ASSUME NEW dir, DirOK(dir), NEW fp, NEW name \in Names, NEW content
  PROVE  DirOK(SetFile(dir, fp, name, content))
<1> DEFINE files == FilesOf(dir, fp)
           set == [files EXCEPT ![name] = content]
<1>1. Names \subseteq DOMAIN files
  BY PackNames
<1>2. SetFile(dir, fp, name, content) = SetFiles(dir, fp, set)
  BY DEF SetFile
<1> HIDE DEF files
<1>3. Names \subseteq DOMAIN set
  BY <1>1
<1> HIDE DEF set
<1> QED BY <1>2, <1>3, FilesStayOK

\* What Publishing(p) is.
LEMMA PublishingIs ==
  ASSUME NEW p \in Procs, IsCommand(proc[p])
  PROVE  /\ Publishing(p) \in Names
         /\ Publishing(p) = "sidecar" <=> Job(p).compat /\ proc[p].publishing = 1
         /\ proc[p].publishing < Len(publish_order(Job(p).compat)) <=> Publishing(p) = "sidecar"
BY DEF Publishing, publish_order, IsCommand, Job, Names

\* A pack whose publication may have failed, or that has a sidecar.
SidecarOf(fp) == fp \in failed \/ FilesOf(published, fp).sidecar # None

\* A process about to publish the manifest of a Casey pack has published the
\* sidecar; one that removes files has failed to publish the pack.
ReadyOf(p) ==
  /\ (proc[p].pc \notin {"rename", "rollback", "cleanup"} => proc[p].publishing = 1)
  /\ (proc[p].pc = "rename" /\ proc[p].publishing = 2 => SidecarOf(fingerprint(p)))
  /\ (proc[p].pc \in {"rollback", "cleanup"} => fingerprint(p) \in failed)

\* A Casey pack with a manifest has a sidecar.
Complete(fp) == fp.kind = "casey" /\ FilesOf(published, fp).manifest # None => SidecarOf(fp)

ReadyInv ==
  /\ ProcOK /\ DirOK(published) /\ DirOK(tmp)
  /\ \A p \in Procs : proc[p].pc # "idle" => ReadyOf(p)
  /\ \A fp : Complete(fp)

\* A step that keeps sidecars, of all packs but those that failed, keeps what
\* the other processes rely on.
LEMMA ReadyKept ==
  ASSUME ReadyInv, ProcOK', DirOK(published'), DirOK(tmp'), failed \subseteq failed',
         \A fp : SidecarOf(fp) => SidecarOf(fp)',
         \A fp : Complete(fp)',
         NEW p \in Procs, Others(p), proc'[p].pc # "idle" => ReadyOf(p)'
  PROVE  ReadyInv'
<1>1. ASSUME NEW q \in Procs \ {p}, proc'[q].pc # "idle"
      PROVE  ReadyOf(q)'
  <2>1. proc'[q] = proc[q] /\ ReadyOf(q)
    BY <1>1 DEF Others, ReadyInv
  <2>2. fingerprint(q)' = fingerprint(q)
    BY <2>1 DEF fingerprint, Job
  <2> QED BY <2>1, <2>2 DEF ReadyOf
<1> QED BY <1>1 DEF ReadyInv

\* Nothing is published or removed.
LEMMA ReadySame ==
  ASSUME ReadyInv, ProcOK', published' = published, DirOK(tmp'), failed \subseteq failed',
         NEW p \in Procs, Others(p), proc'[p].pc # "idle" => ReadyOf(p)'
  PROVE  ReadyInv'
<1>1. \A fp : SidecarOf(fp) => SidecarOf(fp)'
  BY DEF SidecarOf
<1>2. \A fp : Complete(fp)'
  BY <1>1 DEF ReadyInv, Complete
<1>3. DirOK(published')
  BY DEF ReadyInv
<1> QED BY <1>1, <1>2, <1>3, ReadyKept

\* A command goes on without publishing anything.
LEMMA ReadyGoto ==
  ASSUME ReadyInv, NEW p \in Procs, proc[p].pc \notin {"idle", "rename", "rollback", "cleanup"},
         published' = published, DirOK(tmp'), failed \subseteq failed', FilepackStep(p),
         proc'[p].pc # "idle" =>
           /\ proc'[p].pc \notin {"rollback", "cleanup"}
           /\ proc'[p].publishing = proc[p].publishing
  PROVE  ReadyInv'
<1>1. ProcOK' /\ Others(p)
  BY StepEffect DEF ReadyInv
<1>2. proc'[p].pc # "idle" => ReadyOf(p)'
  BY DEF ReadyInv, ReadyOf
<1> QED BY <1>1, <1>2, ReadySame

\* Every step of a command before the publication.
LEMMA ReadyBefore ==
  ASSUME ReadyInv, NEW p \in Procs,
         \/ master_key_for_format(p) \/ validate_master_key_permissions(p) \/ read_master_key_file(p)
         \/ create_master_key(p) \/ write_master_key(p) \/ chmod_master_key(p)
         \/ store_blob(p) \/ put_commitment(p)
         \/ write_manifest_tmp(p) \/ write_sidecar_tmp(p) \/ commit_filepack_metadata(p)
  PROVE  ReadyInv'
<1>1. FilepackStep(p) /\ ProcOK /\ IsCommand(proc[p])
  BY StepEffect DEF FilepackStep, ReadyInv
<1>2. ASSUME NEW pc, pc \notin {"idle", "rollback", "cleanup"}, Goto(p, pc)
      PROVE  proc'[p].pc \notin {"rollback", "cleanup"} /\ proc'[p].publishing = proc[p].publishing
  BY <1>1, <1>2, GotoEffect DEF SameFiles
<1>3. ASSUME NEW k, KeyHeld(p, k)
      PROVE  proc'[p].pc \notin {"rollback", "cleanup"} /\ proc'[p].publishing = proc[p].publishing
  BY <1>1, <1>3 DEF KeyHeld, ProcOK, IsCommand
<1>4. ASSUME EndJob(p)
      PROVE  proc'[p].pc = "idle"
  BY <1>1, <1>4, ReturnEffect
<1>5. CASE \/ master_key_for_format(p) \/ validate_master_key_permissions(p) \/ read_master_key_file(p)
           \/ create_master_key(p) \/ write_master_key(p) \/ chmod_master_key(p) \/ store_blob(p)
  <2>1. published' = published /\ tmp' = tmp /\ failed' = failed /\ DirOK(tmp')
    BY <1>5 DEF master_key_for_format, validate_master_key_permissions, read_master_key_file,
         create_master_key, write_master_key, chmod_master_key, store_blob, open_draft, write_draft, rename_draft, publish_blob, rename_blob, ReadyInv
  <2>2. proc[p].pc \notin {"idle", "rename", "rollback", "cleanup"}
    BY <1>5 DEF master_key_for_format, validate_master_key_permissions, read_master_key_file,
         create_master_key, write_master_key, chmod_master_key, store_blob, open_draft, write_draft, rename_draft, publish_blob, rename_blob, At
  <2>3. \/ EndJob(p)
        \/ \E pc \in {"permissions", "create", "read", "write", "chmod", "writing", "drafted", "blob", "put"} : Goto(p, pc)
        \/ \E k : KeyHeld(p, k)
    BY <1>5 DEF master_key_for_format, validate_master_key_permissions, read_master_key_file,
         create_master_key, write_master_key, chmod_master_key, store_blob, open_draft, write_draft, rename_draft, publish_blob, rename_blob
  <2>4. proc'[p].pc # "idle" => proc'[p].pc \notin {"rollback", "cleanup"} /\ proc'[p].publishing = proc[p].publishing
    BY <1>2, <1>3, <1>4, <2>3
  <2> QED BY <1>1, <2>1, <2>2, <2>4, ReadyGoto
<1>6. CASE put_commitment(p)
  <2>1. published' = published /\ failed' = failed /\ tmp' = tmp /\ DirOK(tmp')
    BY <1>6 DEF put_commitment, ReadyInv
  <2>2. proc[p].pc \notin {"idle", "rename", "rollback", "cleanup"}
    BY <1>6 DEF put_commitment, At
  <2>3. PICK es : \/ proc' = [proc EXCEPT ![p].entries = es, ![p].pc = "encode"]
                  \/ proc' = [proc EXCEPT ![p].entries = es, ![p].pc = "manifest_tmp"]
                  \/ EndJob(p)
    BY <1>6 DEF put_commitment
  <2>4. proc'[p].pc # "idle" => proc'[p].pc \notin {"rollback", "cleanup"} /\ proc'[p].publishing = proc[p].publishing
    BY <1>1, <1>4, <2>3, EntriesEffect
  <2> QED BY <1>1, <2>1, <2>2, <2>4, ReadyGoto
<1>7. CASE write_manifest_tmp(p) \/ write_sidecar_tmp(p)
  <2>1. published' = published /\ failed' = failed
    BY <1>7 DEF write_manifest_tmp, write_sidecar_tmp
  <2>2. DirOK(tmp')
    <3>1. \E name \in Names : \E content : tmp' = SetFile(tmp, fingerprint(p), name, content)
      BY <1>7 DEF write_manifest_tmp, write_sidecar_tmp, Names
    <3>2. PICK name \in Names : \E content : tmp' = SetFile(tmp, fingerprint(p), name, content)
      BY <3>1
    <3>3. DirOK(tmp)
      BY DEF ReadyInv
    <3> QED BY <3>2, <3>3, SetFileOK
  <2>3. proc[p].pc \notin {"idle", "rename", "rollback", "cleanup"}
    BY <1>7 DEF write_manifest_tmp, write_sidecar_tmp, At
  <2>4. \E pc \in {"sidecar_tmp", "commit"} : Goto(p, pc)
    BY <1>7 DEF write_manifest_tmp, write_sidecar_tmp
  <2>5. proc'[p].pc # "idle" => proc'[p].pc \notin {"rollback", "cleanup"} /\ proc'[p].publishing = proc[p].publishing
    BY <1>2, <2>4
  <2> QED BY <1>1, <2>1, <2>2, <2>3, <2>5, ReadyGoto
<1>8. CASE commit_filepack_metadata(p)
  <2>1. published' = published /\ failed' = failed /\ tmp' = tmp /\ DirOK(tmp')
    BY <1>8 DEF commit_filepack_metadata, ReadyInv
  <2>2. proc[p].pc \notin {"idle", "rename", "rollback", "cleanup"}
    BY <1>8 DEF commit_filepack_metadata, At
  <2>3. proc'[p].pc \notin {"rollback", "cleanup"} /\ proc'[p].publishing = proc[p].publishing
    BY <1>1, <1>8, CommitEffect DEF SameFiles
  <2> QED BY <1>1, <2>1, <2>2, <2>3, ReadyGoto
<1> QED BY <1>5, <1>6, <1>7, <1>8

\* A file of a pack is published, the sidecar of a Casey pack before its manifest.
LEMMA ReadyRename ==
  ASSUME ReadyInv, NEW p \in Procs, rename(p)
  PROVE  ReadyInv'
<1> DEFINE fp == fingerprint(p)
           name == Publishing(p)
<1>1. ProcOK /\ ProcOK' /\ Others(p) /\ IsCommand(proc[p]) /\ DirOK(published) /\ DirOK(tmp)
  BY StepEffect DEF FilepackStep, ReadyInv
<1>2. name \in Names
  BY <1>1, PublishingIs
<1>3. proc[p].pc = "rename" /\ failed' = failed /\ ReadyOf(p) /\ Complete(fp)
  BY DEF rename, At, ReadyInv
<1>4. /\ FilesOf(tmp, fp)[name] # None /\ published' = SetFile(published, fp, name, tmp[fp][name])
      /\ tmp' = SetFile(tmp, fp, name, None)
  BY DEF rename
<1>5. tmp[fp][name] # None
  BY <1>2, <1>4 DEF FilesOf, NoFiles, Names
<1>6. /\ DirOK(published') /\ DirOK(tmp')
      /\ FilesOf(published', fp)[name] # None
      /\ \A n \in Names \ {name} : FilesOf(published', fp)[n] = FilesOf(published, fp)[n]
      /\ \A x : x # fp => FilesOf(published', x) = FilesOf(published, x)
  <2> HIDE DEF fp, name
  <2>1. DirOK(tmp')
    BY <1>1, <1>2, <1>4, SetFileOK
  <2>2. PICK v : v # None /\ published' = SetFile(published, fp, name, v)
    BY <1>4, <1>5
  <2>3. FilesOf(published', fp)[name] = v
    <3>1. \A n \in Names : FilesOf(SetFile(published, fp, name, v), fp)[n] =
                             IF n = name THEN v ELSE FilesOf(published, fp)[n]
      BY <1>1, <1>2, SetFileSets
    <3> QED BY <1>2, <2>2, <3>1
  <2>4. DirOK(published')
    BY <1>1, <1>2, <2>2, SetFileOK
  <2>5. \A n \in Names \ {name} : FilesOf(published', fp)[n] = FilesOf(published, fp)[n]
    BY <1>1, <1>2, <2>2, SetFileSets
  <2>6. \A x : x # fp => FilesOf(published', x) = FilesOf(published, x)
    BY <1>1, <1>2, <2>2, SetFileElsewhere
  <2> QED BY <2>1, <2>2, <2>3, <2>4, <2>5, <2>6
<1>7. \A x : SidecarOf(x) => SidecarOf(x)'
  BY <1>2, <1>3, <1>6 DEF SidecarOf, Names
<1>8. CASE proc[p].publishing < Len(publish_order(Job(p).compat))
  <2>1. Job(p).compat /\ proc[p].publishing = 1 /\ name = "sidecar"
    BY <1>1, <1>8, PublishingIs
  <2>2. proc' = [proc EXCEPT ![p].publishing = @ + 1]
    BY <1>8 DEF rename
  <2>3. proc'[p].pc = "rename" /\ proc'[p].publishing = 2 /\ SameKey(proc[p], proc'[p])
    BY <1>1, <1>3, <2>1, <2>2, PublishedEffect
  <2>4. fingerprint(p)' = fp
    BY <2>3 DEF fingerprint, Job, SameKey, SameEntries, SameCommand
  <2>5. \A x : x = fp => SidecarOf(x)'
    BY <1>6, <2>1 DEF SidecarOf
  <2>6. \A x : Complete(x)'
    BY <1>6, <1>7, <2>5 DEF ReadyInv, Complete
  <2>7. ReadyOf(p)'
    BY <2>3, <2>4, <2>5 DEF ReadyOf
  <2> QED BY <1>1, <1>3, <1>6, <1>7, <2>6, <2>7, ReadyKept
<1>9. CASE ~ (proc[p].publishing < Len(publish_order(Job(p).compat)))
  <2>1. EndJob(p) /\ name # "sidecar"
    BY <1>1, <1>9, PublishingIs DEF rename
  <2>2. proc'[p].pc = "idle"
    BY <1>1, <2>1, ReturnEffect
  <2>3. fp.kind = "casey" => SidecarOf(fp)
    <3>1. ASSUME fp.kind = "casey"
          PROVE  proc[p].publishing = 2
      <4>1. Job(p).compat
        BY <3>1 DEF fingerprint
      <4> QED BY <1>1, <2>1, <4>1, PublishingIs DEF IsCommand
    <3> QED BY <1>3, <3>1 DEF ReadyOf
  <2>4. \A x : Complete(x)'
    BY <1>6, <1>7, <2>3 DEF ReadyInv, Complete
  <2> QED BY <1>1, <1>3, <1>6, <1>7, <2>2, <2>4, ReadyKept
<1> QED BY <1>8, <1>9

\* A publication fails, is rolled back and cleaned up, or a command is stopped.
LEMMA ReadyAfter ==
  ASSUME ReadyInv, NEW p \in Procs,
         rename_fails(p) \/ rollback_filepack_metadata(p) \/ cleanup(p) \/ Fail(p) \/ Kill(p)
  PROVE  ReadyInv'
<1> DEFINE fp == fingerprint(p)
<1>1. ProcOK /\ ProcOK' /\ Others(p) /\ IsCommand(proc[p]) /\ DirOK(published) /\ DirOK(tmp)
  BY StepEffect DEF FilepackStep, ReadyInv
<1>2. proc[p].pc # "idle" /\ ReadyOf(p)
  BY <1>1 DEF ReadyInv, IsCommand
<1>3. ASSUME NEW pc \in {"rollback", "cleanup"}, Goto(p, pc), fp \in failed'
      PROVE  ReadyOf(p)'
  <2>1. proc'[p].pc = pc /\ SameFiles(proc[p], proc'[p])
    BY <1>1, <1>3, GotoEffect
  <2>2. fingerprint(p)' = fp
    BY <2>1 DEF fingerprint, Job, SameFiles, SameKey, SameEntries, SameCommand
  <2> QED BY <1>3, <2>1, <2>2 DEF ReadyOf
<1>4. CASE rename_fails(p)
  <2>1. published' = published /\ tmp' = tmp /\ failed' = failed \cup {fp} /\ Goto(p, "rollback")
    BY <1>4 DEF rename_fails
  <2>2. ReadyOf(p)'
    BY <1>3, <2>1
  <2>3. DirOK(tmp') /\ failed \subseteq failed'
    BY <1>1, <2>1
  <2> QED BY <1>1, <2>1, <2>2, <2>3, ReadySame
<1>5. CASE rollback_filepack_metadata(p)
  <2>1. published' = published /\ tmp' = tmp /\ failed' = failed /\ Goto(p, "cleanup") /\ proc[p].pc = "rollback"
    BY <1>5 DEF rollback_filepack_metadata, At
  <2>2. ReadyOf(p)'
    BY <1>2, <1>3, <2>1 DEF ReadyOf
  <2>3. DirOK(tmp') /\ failed \subseteq failed'
    BY <1>1, <2>1
  <2> QED BY <1>1, <2>1, <2>2, <2>3, ReadySame
<1>6. CASE Fail(p) \/ Kill(p)
  <2>1. published' = published /\ tmp' = tmp /\ failed \subseteq failed' /\ EndJob(p)
    BY <1>6 DEF Fail, Kill, Stopped
  <2>2. proc'[p].pc = "idle" /\ DirOK(tmp')
    BY <1>1, <2>1, ReturnEffect
  <2> QED BY <1>1, <2>1, <2>2, ReadySame
<1>7. CASE cleanup(p)
  <2> DEFINE sidecar == Publishing(p) = "manifest" /\ Job(p).compat
  <2>1. fp \in failed /\ failed' = failed /\ EndJob(p)
    BY <1>2, <1>7 DEF cleanup, ReadyOf, At
  <2>2. proc'[p].pc = "idle"
    BY <1>1, <2>1, ReturnEffect
  <2>3. DirOK(tmp')
    <3>1. \/ tmp' = SetFile(tmp, fp, "manifest", None)
          \/ tmp' = SetFiles(tmp, fp, NoFiles)
      BY <1>7 DEF cleanup
    <3>2. Names \subseteq DOMAIN NoFiles /\ "manifest" \in Names
      BY DEF Names, NoFiles
    <3> HIDE DEF fp
    <3>3. CASE tmp' = SetFile(tmp, fp, "manifest", None)
      BY <1>1, <3>2, <3>3, SetFileOK
    <3>4. CASE tmp' = SetFiles(tmp, fp, NoFiles)
      BY <1>1, <3>2, <3>4, FilesStayOK
    <3> QED BY <3>1, <3>3, <3>4
  <2>4. DirOK(published') /\ \A x : x # fp => FilesOf(published', x) = FilesOf(published, x)
    <3>1. \/ published' = SetFile(published, fp, "sidecar", None)
          \/ published' = published
      BY <1>7 DEF cleanup
    <3>2. "sidecar" \in Names
      BY DEF Names
    <3> HIDE DEF fp
    <3>3. CASE published' = SetFile(published, fp, "sidecar", None)
      <4>1. DirOK(published')
        BY <1>1, <3>2, <3>3, SetFileOK
      <4>2. \A x : x # fp => FilesOf(published', x) = FilesOf(published, x)
        BY <1>1, <3>2, <3>3, SetFileElsewhere
      <4> QED BY <4>1, <4>2
    <3> QED BY <1>1, <3>1, <3>3
  <2>5. \A x : SidecarOf(x) => SidecarOf(x)'
    BY <2>1, <2>4 DEF SidecarOf
  <2>6. \A x : Complete(x)'
    BY <2>1, <2>4, <2>5 DEF ReadyInv, Complete, SidecarOf
  <2> QED BY <1>1, <2>1, <2>2, <2>3, <2>4, <2>5, <2>6, ReadyKept
<1> QED BY <1>4, <1>5, <1>6, <1>7

\* The ready markers, in every reachable state.
LEMMA ReadyInvariant == DirSpec => []ReadyInv
<1>1. DirInit => ReadyInv
  BY DEF DirInit, FilepackInit, ReadyInv, ProcOK, DirOK, Complete, FilesOf, NoFiles, NoJob, IsCommand
<1>2. ASSUME ReadyInv, [DirNext]_dirVars
      PROVE  ReadyInv'
  <2>1. ASSUME NEW p \in Procs, NEW j \in Jobs, StartJob(p, j)
        PROVE  ReadyInv'
    <3>1. published' = published /\ tmp' = tmp /\ failed' = failed
      BY <2>1 DEF StartJob
    <3>2. ProcOK
      BY <1>2 DEF ReadyInv
    <3>3. ProcOK' /\ ReadyOf(p)'
      BY <2>1, <3>2, StartEffect DEF ReadyOf
    <3>4. \A q \in Procs \ {p} : ~ (q \in Active /\ Shares(proc[q].job, j)) => proc'[q] = proc[q]
      <4>1. SUFFICES ASSUME NEW q \in Procs \ {p}, ~ (q \in Active /\ Shares(proc[q].job, j))
                     PROVE  proc'[q] = proc[q]
        OBVIOUS
      <4> QED BY <2>1, <4>1 DEF StartJob
    <3>5. ASSUME NEW q \in Procs \ {p}, proc'[q].pc # "idle"
          PROVE  ReadyOf(q)'
      <4>1. /\ proc'[q].pc = proc[q].pc /\ proc'[q].job = proc[q].job
            /\ proc'[q].entries = proc[q].entries /\ proc'[q].publishing = proc[q].publishing
        <5>1. CASE q \in Active /\ Shares(proc[q].job, j)
          BY <2>1, <3>2, <5>1, StartEffect
        <5>2. CASE ~ (q \in Active /\ Shares(proc[q].job, j))
          <6>1. proc'[q] = proc[q]
            BY <3>4, <5>2
          <6> QED BY <6>1
        <5> QED BY <5>1, <5>2
      <4>2. ReadyOf(q)
        BY <1>2, <3>5, <4>1 DEF ReadyInv
      <4>3. fingerprint(q)' = fingerprint(q)
        BY <4>1 DEF fingerprint, Job
      <4> QED BY <3>1, <4>1, <4>2, <4>3 DEF ReadyOf, SidecarOf
    <3>6. \A fp : Complete(fp)'
      BY <1>2, <3>1 DEF ReadyInv, Complete, SidecarOf
    <3> QED BY <1>2, <3>1, <3>3, <3>5, <3>6 DEF ReadyInv
  <2>2. ASSUME NEW p \in Procs, FilepackStep(p)
        PROVE  ReadyInv'
    BY <1>2, <2>2, ReadyBefore, ReadyRename, ReadyAfter DEF FilepackStep
  <2>3. ASSUME UNCHANGED storeVars
        PROVE  ReadyInv'
    BY <1>2, <2>3 DEF storeVars, ReadyInv, ProcOK, ReadyOf, Complete, SidecarOf, fingerprint, Job
  <2> QED BY <1>2, <2>1, <2>2, <2>3, StepCases
<1> QED BY <1>1, <1>2, PTL DEF DirSpec

\* The manifest of a Casey pack that no creator failed to publish has its
\* sidecar beside it: create_filepack renames the sidecar first, and only a
\* failed publication of the same pack removes it.
THEOREM ManifestsAreReadyMarkers == DirSpec => []ManifestIsReadyMarker
<1>1. ReadyInv => ManifestIsReadyMarker
  BY DEF ReadyInv, Complete, SidecarOf, FilesOf, ManifestIsReadyMarker
<1> QED BY <1>1, ReadyInvariant, PTL

-----------------------------------------------------------------------------
\* The entries of a command

\* The steps of create_filepack once every file is encoded.
Packing == {"manifest_tmp", "sidecar_tmp", "commit", "rename", "rollback", "cleanup"}

\* The entry of the k-th file of a job, encoded with some key.
EntryFor(j, k, e) ==
  /\ e.path = j.files[k].path /\ e.format = j.format
  /\ e.root.content = j.files[k].content /\ e.root.format = j.format

EntryOf(p) ==
  /\ Job(p) \in Jobs
  /\ proc[p].entries \in Seq(ToSet(proc[p].entries))
  /\ \A k \in 1 .. Len(proc[p].entries) :
       EntryFor(Job(p), k, proc[p].entries[k]) /\ proc[p].entries[k].root \in DOMAIN meta
  /\ (proc[p].pc \in Packing => Job(p).pack /\ Len(proc[p].entries) = Len(Job(p).files))
  /\ (proc[p].pc \notin Packing => Len(proc[p].entries) < Len(Job(p).files))

EntryInv ==
  /\ ProcOK
  /\ \A p \in Procs : proc[p].pc # "idle" => EntryOf(p)
  /\ \A r \in DOMAIN meta : meta[r] = [format |-> r.format, fp |-> meta[r].fp]

\* A step of a command keeps its entries and what is left to do.
SameEntriesHere(p) ==
  /\ SameEntries(proc[p], proc'[p])
  /\ (proc'[p].pc \in Packing <=> proc[p].pc \in Packing)

\* put_commitment appends the entry of the next file.
Appends(p) ==
  LET entries == Append(proc[p].entries, Entry(p)) IN
  /\ SameCommand(proc[p], proc'[p]) /\ proc'[p].entries = entries
  /\ proc[p].pc = "put"
  /\ \/ proc'[p].pc = "encode" /\ Len(entries) < Len(Job(p).files)
     \/ proc'[p].pc = "manifest_tmp" /\ Len(entries) = Len(Job(p).files) /\ Job(p).pack

\* Every step does one of these, or ends the command.
LEMMA EntryEffect ==
  ASSUME ProcOK, NEW p \in Procs, FilepackStep(p)
  PROVE  \/ proc'[p] = NoJob
         \/ SameEntriesHere(p)
         \/ put_commitment(p) /\ Appends(p)
<1>1. IsCommand(proc[p])
  BY StepEffect
<1>2. ASSUME NEW pc, pc # "idle", Goto(p, pc), pc \in Packing <=> proc[p].pc \in Packing
      PROVE  SameEntriesHere(p)
  BY <1>1, <1>2, GotoEffect DEF SameFiles, SameKey, SameEntriesHere
<1>3. ASSUME NEW k, KeyHeld(p, k), proc[p].pc \notin Packing
      PROVE  SameEntriesHere(p)
  <2>1. SameEntries(proc[p], proc'[p]) /\ proc'[p].pc = "publish"
    BY <1>1, <1>3, HeldEffect
  <2> QED BY <1>3, <2>1 DEF SameEntriesHere, Packing
<1>4. ASSUME EndJob(p)
      PROVE  proc'[p] = NoJob
  BY <1>4, ReturnEffect
<1>5. CASE \/ master_key_for_format(p) \/ validate_master_key_permissions(p) \/ read_master_key_file(p)
           \/ create_master_key(p) \/ write_master_key(p) \/ chmod_master_key(p) \/ store_blob(p)
  <2>1. proc[p].pc \notin Packing
    BY <1>5 DEF master_key_for_format, validate_master_key_permissions, read_master_key_file,
         create_master_key, write_master_key, chmod_master_key, store_blob, open_draft, write_draft, rename_draft, publish_blob, rename_blob, At, Packing
  <2>2. \/ EndJob(p)
        \/ \E pc \in {"permissions", "create", "read", "write", "chmod", "writing", "drafted", "blob", "put"} : Goto(p, pc)
        \/ \E k : KeyHeld(p, k)
    BY <1>5 DEF master_key_for_format, validate_master_key_permissions, read_master_key_file,
         create_master_key, write_master_key, chmod_master_key, store_blob, open_draft, write_draft, rename_draft, publish_blob, rename_blob
  <2>3. \A pc \in {"permissions", "create", "read", "write", "chmod", "writing", "drafted", "blob", "put"} : pc \notin Packing /\ pc # "idle"
    BY DEF Packing
  <2> QED BY <1>2, <1>3, <1>4, <2>1, <2>2, <2>3
<1>6. CASE write_manifest_tmp(p) \/ write_sidecar_tmp(p) \/ rename_fails(p)
           \/ rollback_filepack_metadata(p) \/ cleanup(p)
  <2>1. proc[p].pc \in Packing
    BY <1>6 DEF write_manifest_tmp, write_sidecar_tmp, rename_fails, rollback_filepack_metadata,
         cleanup, At, Packing
  <2>2. EndJob(p) \/ \E pc \in {"sidecar_tmp", "commit", "rollback", "cleanup"} : Goto(p, pc)
    BY <1>6 DEF write_manifest_tmp, write_sidecar_tmp, rename_fails, rollback_filepack_metadata, cleanup
  <2>3. \A pc \in {"sidecar_tmp", "commit", "rollback", "cleanup"} : pc \in Packing /\ pc # "idle"
    BY DEF Packing
  <2> QED BY <1>2, <1>4, <2>1, <2>2, <2>3
<1>7. CASE Fail(p) \/ Kill(p)
  BY <1>4, <1>7 DEF Fail, Kill, Stopped
<1>8. CASE commit_filepack_metadata(p)
  <2>1. proc[p].pc = "commit" /\ proc'[p].pc = "rename" /\ SameFiles(proc[p], proc'[p])
    BY <1>1, <1>8, CommitEffect DEF commit_filepack_metadata, At
  <2> QED BY <2>1 DEF SameEntriesHere, SameFiles, SameKey, Packing
<1>9. CASE rename(p)
  <2>1. CASE ~EndJob(p)
    <3>1. /\ proc[p].publishing < Len(publish_order(Job(p).compat))
          /\ proc' = [proc EXCEPT ![p].publishing = @ + 1]
      BY <1>9, <2>1 DEF rename
    <3>2. Job(p).compat /\ proc[p].publishing = 1
      BY <1>1, <3>1 DEF publish_order, IsCommand, Job
    <3> QED BY <1>1, <3>1, <3>2, PublishedEffect DEF SameKey, SameEntriesHere
  <2> QED BY <1>4, <2>1
<1>10. CASE put_commitment(p)
  <2> DEFINE entries == Append(proc[p].entries, Entry(p))
  <2> HIDE DEF entries
  <2>1. \/ EndJob(p)
        \/ /\ Len(entries) < Len(Job(p).files)
           /\ proc' = [proc EXCEPT ![p].entries = entries, ![p].pc = "encode"]
        \/ /\ Len(entries) = Len(Job(p).files) /\ Job(p).pack
           /\ proc' = [proc EXCEPT ![p].entries = entries, ![p].pc = "manifest_tmp"]
    BY <1>10 DEF put_commitment, entries
  <2>2. proc[p].pc = "put"
    BY <1>10 DEF put_commitment, At
  <2>3. \/ EndJob(p)
        \/ /\ SameCommand(proc[p], proc'[p]) /\ proc'[p].entries = entries
           /\ \/ proc'[p].pc = "encode" /\ Len(entries) < Len(Job(p).files)
              \/ proc'[p].pc = "manifest_tmp" /\ Len(entries) = Len(Job(p).files) /\ Job(p).pack
    <3>1. ASSUME NEW pc \in {"encode", "manifest_tmp"}, proc' = [proc EXCEPT ![p].entries = entries, ![p].pc = pc]
          PROVE  SameCommand(proc[p], proc'[p]) /\ proc'[p].entries = entries /\ proc'[p].pc = pc
      BY <1>1, <3>1 DEF ProcOK, IsCommand, SameCommand
    <3> QED BY <2>1, <3>1
  <2> QED BY <1>4, <1>10, <2>2, <2>3 DEF Appends, entries
<1> QED BY <1>5, <1>6, <1>7, <1>8, <1>9, <1>10 DEF FilepackStep

\* A job has files.
LEMMA JobFiles ==
  ASSUME NEW j \in Jobs
  PROVE  Len(j.files) \in Nat /\ Len(j.files) > 0 /\ DOMAIN j.files = 1 .. Len(j.files)
<1>1. j.files \in Seq(ToSet(j.files)) /\ j.files # <<>>
  BY JobsAssumption
<1> QED BY <1>1

\* A root that a job may encode.
Of(r, j) == r.format = j.format /\ \E k \in DOMAIN j.files : r.content = j.files[k].content

\* The entries of a command are those of its files.
LEMMA EntriesAre ==
  ASSUME NEW p \in Procs, EntryOf(p), NEW e \in ToSet(proc[p].entries)
  PROVE  \E k \in 1 .. Len(proc[p].entries) : e = proc[p].entries[k] /\ EntryFor(Job(p), k, e)
<1>1. proc[p].entries \in Seq(ToSet(proc[p].entries))
  BY DEF EntryOf
<1>2. DOMAIN proc[p].entries = 1 .. Len(proc[p].entries)
  BY <1>1
<1>3. PICK k \in 1 .. Len(proc[p].entries) : e = proc[p].entries[k]
  BY <1>2 DEF ToSet
<1> QED BY <1>3 DEF EntryOf

\* Their roots are roots of the job, and in the metadata.
LEMMA EntryRoots ==
  ASSUME NEW p \in Procs, EntryOf(p), NEW e \in ToSet(proc[p].entries)
  PROVE  Of(e.root, Job(p)) /\ e.root \in DOMAIN meta /\ e.format = Job(p).format /\ e.root.format = Job(p).format
<1>1. PICK k \in 1 .. Len(proc[p].entries) : e = proc[p].entries[k] /\ EntryFor(Job(p), k, e)
  BY EntriesAre
<1>2. Job(p) \in Jobs
  BY DEF EntryOf
<1>3. /\ Len(Job(p).files) \in Nat /\ Len(proc[p].entries) \in Nat
      /\ DOMAIN Job(p).files = 1 .. Len(Job(p).files)
  <2>1. proc[p].entries \in Seq(ToSet(proc[p].entries))
    BY DEF EntryOf
  <2> QED BY <1>2, <2>1, JobFiles
<1> DEFINE n == Len(proc[p].entries)
           m == Len(Job(p).files)
<1>4. n = m \/ n < m
  BY DEF EntryOf
<1>5. n \in Nat /\ m \in Nat /\ k \in 1 .. n
  BY <1>3
<1> HIDE DEF n, m
<1>6. k \in 1 .. m
  BY <1>4, <1>5
<1>7. k \in DOMAIN Job(p).files
  BY <1>3, <1>6 DEF m
<1> QED BY <1>1, <1>7 DEF Of, EntryFor, EntryOf

\* The next file of a command is one of its job.
LEMMA NextRoot ==
  ASSUME NEW p \in Procs, EntryOf(p), proc[p].pc \notin Packing
  PROVE  Of(bao_root(p), Job(p)) /\ bao_root(p).format = Job(p).format
<1>1. Job(p) \in Jobs /\ proc[p].entries \in Seq(ToSet(proc[p].entries))
  BY DEF EntryOf
<1> DEFINE n == Len(proc[p].entries)
           m == Len(Job(p).files)
<1>2. n \in Nat /\ m \in Nat /\ n < m /\ DOMAIN Job(p).files = 1 .. m
  BY <1>1, JobFiles DEF EntryOf
<1> HIDE DEF n, m
<1>3. n + 1 \in DOMAIN Job(p).files
  BY <1>2
<1>4. bao_root(p).content = Job(p).files[n + 1].content /\ bao_root(p).format = Job(p).format
  BY DEF bao_root, File, n
<1> QED BY <1>3, <1>4 DEF Of

\* A step of a command changes the metadata of its own roots only.
LEMMA MetaFrame ==
  ASSUME EntryInv, NEW p \in Procs, FilepackStep(p)
  PROVE  /\ DOMAIN meta \subseteq DOMAIN meta'
         /\ \A r \in DOMAIN meta : ~Of(r, Job(p)) => meta'[r] = meta[r]
         /\ \A r \in DOMAIN meta' : meta'[r] = [format |-> r.format, fp |-> meta'[r].fp]
<1>1. EntryOf(p) /\ \A r \in DOMAIN meta : meta[r] = [format |-> r.format, fp |-> meta[r].fp]
  BY StepEffect DEF EntryInv, IsCommand
<1>2. ASSUME NEW packs, meta' = Bound(RootsOf(p), packs)
      PROVE  /\ DOMAIN meta' = DOMAIN meta
             /\ \A r \in DOMAIN meta : ~Of(r, Job(p)) => meta'[r] = meta[r]
             /\ \A r \in DOMAIN meta' : meta'[r] = [format |-> r.format, fp |-> meta'[r].fp]
  <2>1. \A r \in RootsOf(p) : Of(r, Job(p))
    BY <1>1, EntryRoots DEF RootsOf
  <2>2. /\ DOMAIN meta' = DOMAIN meta
        /\ \A r \in DOMAIN meta : meta'[r] = IF r \in RootsOf(p) THEN [meta[r] EXCEPT !.fp = packs[r]] ELSE meta[r]
    BY <1>2 DEF Bound
  <2>3. ASSUME NEW r \in DOMAIN meta
        PROVE  meta'[r] = [format |-> r.format, fp |-> meta'[r].fp]
    <3>1. CASE r \in RootsOf(p)
      BY <1>1, <2>2, <3>1
    <3>2. CASE r \notin RootsOf(p)
      <4>1. meta'[r] = meta[r]
        BY <2>2, <3>2
      <4> QED BY <1>1, <4>1
    <3> QED BY <3>1, <3>2
  <2> QED BY <2>1, <2>2, <2>3
<1>3. CASE commit_filepack_metadata(p) \/ rollback_filepack_metadata(p)
  BY <1>2, <1>3 DEF commit_filepack_metadata, rollback_filepack_metadata
<1>4. CASE put_commitment(p)
  <2>1. proc[p].pc \notin Packing
    BY <1>4 DEF put_commitment, At, Packing
  <2>2. Of(bao_root(p), Job(p)) /\ bao_root(p).format = Job(p).format
    BY <1>1, <2>1, NextRoot
  <2> DEFINE root == bao_root(p)
  <2> HIDE DEF root
  <2>3. meta' = [r \in DOMAIN meta \cup {root} |->
                   IF r = root THEN [format |-> Job(p).format, fp |-> None] ELSE meta[r]]
    BY <1>4 DEF put_commitment, root
  <2>4. DOMAIN meta' = DOMAIN meta \cup {root}
    BY <2>3
  <2>5. ASSUME NEW r \in DOMAIN meta'
        PROVE  meta'[r] = [format |-> r.format, fp |-> meta'[r].fp]
    <3>1. CASE r = root
      <4>1. meta'[r] = [format |-> Job(p).format, fp |-> None]
        BY <2>3, <2>4, <3>1
      <4> QED BY <2>2, <3>1, <4>1 DEF root
    <3>2. CASE r # root
      <4>1. r \in DOMAIN meta /\ meta'[r] = meta[r]
        BY <2>3, <2>4, <3>2
      <4> QED BY <1>1, <4>1
    <3> QED BY <3>1, <3>2
  <2> QED BY <2>2, <2>3, <2>4, <2>5 DEF root
<1>5. CASE ~(commit_filepack_metadata(p) \/ rollback_filepack_metadata(p) \/ put_commitment(p))
  <2>1. meta' = meta
    BY <1>5 DEF FilepackStep, master_key_for_format, validate_master_key_permissions, read_master_key_file,
         create_master_key, write_master_key, chmod_master_key, store_blob, open_draft, write_draft, rename_draft, publish_blob, rename_blob, write_manifest_tmp,
         write_sidecar_tmp, rename, rename_fails, cleanup, Fail, Kill, Stopped
  <2> QED BY <1>1, <2>1
<1> QED BY <1>2, <1>3, <1>4, <1>5

\* A command appends the entry of its next file.
LEMMA EntryAppended ==
  ASSUME EntryInv, NEW p \in Procs, put_commitment(p), Appends(p)
  PROVE  EntryOf(p)'
<1>1. ProcOK /\ IsCommand(proc[p]) /\ FilepackStep(p)
  BY StepEffect DEF EntryInv, FilepackStep
<1>2. EntryOf(p) /\ proc[p].pc = "put" /\ proc[p].pc \notin Packing
  BY <1>1 DEF EntryInv, IsCommand, Appends, Packing
<1> DEFINE old == proc[p].entries
           e == Entry(p)
           new == Append(old, e)
           j == Job(p)
<1>3. /\ proc'[p].entries = new /\ Job(p)' = j
      /\ \/ proc'[p].pc = "encode" /\ Len(new) < Len(j.files)
         \/ proc'[p].pc = "manifest_tmp" /\ Len(new) = Len(j.files) /\ j.pack
  BY DEF Appends, SameCommand, Job
<1>4. /\ e.path = j.files[Len(old) + 1].path /\ e.format = j.format /\ e.root = bao_root(p)
      /\ e.root.content = j.files[Len(old) + 1].content /\ e.root.format = j.format
  BY DEF Entry, bao_root, File
<1>5. bao_root(p) \in DOMAIN meta'
  BY DEF put_commitment
<1>6. DOMAIN meta \subseteq DOMAIN meta'
  BY <1>1, MetaFrame
<1>7. j \in Jobs /\ old \in Seq(ToSet(old))
      /\ \A k \in 1 .. Len(old) : EntryFor(j, k, old[k]) /\ old[k].root \in DOMAIN meta
  BY <1>2 DEF EntryOf
<1> HIDE DEF old, e, j
<1>8. PICK S : S = ToSet(old) \cup {e}
  OBVIOUS
<1>9. old \in Seq(S) /\ e \in S
  BY <1>7, <1>8
<1>10. new \in Seq(S) /\ Len(new) = Len(old) + 1 /\ Len(old) \in Nat
       /\ new[Len(old) + 1] = e /\ \A k \in 1 .. Len(old) : new[k] = old[k]
  BY <1>9
<1> HIDE DEF new
<1>11. new \in Seq(ToSet(new))
  BY <1>10 DEF ToSet
<1>12. ASSUME NEW k \in 1 .. Len(new)
       PROVE  EntryFor(j, k, new[k]) /\ new[k].root \in DOMAIN meta'
  <2>1. CASE k \in 1 .. Len(old)
    BY <1>6, <1>7, <1>10, <2>1
  <2>2. CASE k = Len(old) + 1
    BY <1>4, <1>5, <1>10, <2>2 DEF EntryFor
  <2> QED BY <1>10, <2>1, <2>2
<1> QED BY <1>3, <1>7, <1>11, <1>12 DEF EntryOf, Packing

\* A command keeps its entries.
LEMMA EntryKept ==
  ASSUME NEW p \in Procs, EntryOf(p), DOMAIN meta \subseteq DOMAIN meta',
         proc'[p].job = proc[p].job, proc'[p].entries = proc[p].entries,
         proc'[p].pc \in Packing <=> proc[p].pc \in Packing
  PROVE  EntryOf(p)'
BY DEF EntryOf, Job

\* The entries, in every reachable state.
LEMMA EntryInvariant == DirSpec => []EntryInv
<1>1. DirInit => EntryInv
  BY DEF DirInit, FilepackInit, EntryInv, ProcOK, NoJob
<1>2. ASSUME EntryInv, [DirNext]_dirVars
      PROVE  EntryInv'
  <2>1. ProcOK /\ ProcOK'
    BY <1>2, ProcStep DEF EntryInv
  <2>2. ASSUME NEW p \in Procs, NEW j \in Jobs, StartJob(p, j)
        PROVE  EntryInv'
    <3>1. meta' = meta
      BY <2>2 DEF StartJob
    <3>2. EntryOf(p)'
      <4>1. proc'[p].pc = "encode" /\ proc'[p].job = j /\ proc'[p].entries = <<>>
        BY <2>1, <2>2, StartEffect
      <4>2. Len(j.files) \in Nat /\ Len(j.files) > 0
        BY <2>2, JobFiles
      <4>3. <<>> \in Seq(ToSet(<<>>)) /\ Len(<<>>) = 0
        OBVIOUS
      <4> QED BY <2>2, <4>1, <4>2, <4>3 DEF EntryOf, Job, Packing
    <3>3. ASSUME NEW q \in Procs \ {p}, proc'[q].pc # "idle"
          PROVE  EntryOf(q)'
      <4>1. proc'[q].pc = proc[q].pc /\ proc'[q].job = proc[q].job /\ proc'[q].entries = proc[q].entries
        <5>1. CASE q \in Active /\ Shares(proc[q].job, j)
          BY <2>1, <2>2, <5>1, StartEffect
        <5>2. CASE ~ (q \in Active /\ Shares(proc[q].job, j))
          BY <2>1, <2>2, <5>2, StartEffect
        <5> QED BY <5>1, <5>2
      <4>2. EntryOf(q)
        BY <1>2, <3>3, <4>1 DEF EntryInv
      <4> QED BY <3>1, <4>1, <4>2, EntryKept
    <3> QED BY <1>2, <2>1, <3>1, <3>2, <3>3 DEF EntryInv
  <2>3. ASSUME NEW p \in Procs, FilepackStep(p)
        PROVE  EntryInv'
    <3>1. /\ DOMAIN meta \subseteq DOMAIN meta'
          /\ \A r \in DOMAIN meta' : meta'[r] = [format |-> r.format, fp |-> meta'[r].fp]
      BY <1>2, <2>3, MetaFrame
    <3>2. Others(p) /\ IsCommand(proc[p])
      BY <2>1, <2>3, StepEffect
    <3>3. ASSUME NEW q \in Procs \ {p}, proc'[q].pc # "idle"
          PROVE  EntryOf(q)'
      <4>1. proc'[q] = proc[q]
        BY <3>2 DEF Others
      <4>2. EntryOf(q)
        BY <1>2, <3>3, <4>1 DEF EntryInv
      <4> QED BY <3>1, <4>1, <4>2, EntryKept
    <3>4. ASSUME proc'[p].pc # "idle"
          PROVE  EntryOf(p)'
      <4>1. EntryOf(p)
        BY <1>2, <3>2 DEF EntryInv, IsCommand
      <4>2. SameEntriesHere(p) \/ (put_commitment(p) /\ Appends(p))
        BY <2>1, <2>3, <3>4, EntryEffect DEF NoJob
      <4>3. CASE SameEntriesHere(p)
        BY <3>1, <4>1, <4>3, EntryKept DEF SameEntriesHere, SameEntries, SameCommand
      <4> QED BY <1>2, <4>2, <4>3, EntryAppended
    <3> QED BY <2>1, <3>1, <3>3, <3>4 DEF EntryInv
  <2>4. ASSUME UNCHANGED storeVars
        PROVE  EntryInv'
    BY <1>2, <2>4 DEF storeVars, EntryInv, ProcOK, EntryOf, Job
  <2> QED BY <1>2, <2>2, <2>3, <2>4, StepCases
<1> QED BY <1>1, <1>2, PTL DEF DirSpec

-----------------------------------------------------------------------------
\* Commands that share nothing

\* Sharing is symmetric.
LEMMA SharesSymmetric ==
  ASSUME NEW i, NEW j, Shares(i, j)
  PROVE  Shares(j, i)
BY DEF Shares

\* Jobs that share nothing have no root in common.
LEMMA RootsApart ==
  ASSUME NEW i, NEW j, ~Shares(i, j), NEW r, Of(r, i)
  PROVE  ~Of(r, j)
BY DEF Shares, Of

\* What create_filepack publishes for a job with these entries.
PackOf(j, E) ==
  IF j.compat THEN [kind |-> "casey", of |-> Package(j)] ELSE [kind |-> "json", of |-> E]
Made(j, E) == j.pack /\ E # {} /\ \A e \in E : Of(e.root, j) /\ e.format = j.format

\* Nor do they make the same pack.
LEMMA PacksApart ==
  ASSUME NEW i, NEW j, ~Shares(i, j), NEW E, Made(i, E), NEW D, Made(j, D)
  PROVE  PackOf(i, E) # PackOf(j, D)
<1> SUFFICES ASSUME PackOf(i, E) = PackOf(j, D)
             PROVE  FALSE
  OBVIOUS
<1>1. CASE i.compat /\ j.compat
  <2>1. Package(i) = Package(j)
    BY <1>1 DEF PackOf
  <2> QED BY <1>1, <2>1 DEF Shares, Made
<1>2. CASE ~i.compat /\ ~j.compat
  <2>1. E = D
    BY <1>2 DEF PackOf
  <2>2. PICK e : e \in E
    BY DEF Made
  <2>3. Of(e.root, i) /\ Of(e.root, j)
    BY <2>1, <2>2 DEF Made
  <2> QED BY <2>3, RootsApart
<1>3. CASE (i.compat /\ ~j.compat) \/ (~i.compat /\ j.compat)
  BY <1>3 DEF PackOf
<1> QED BY <1>1, <1>2, <1>3

\* A command that packs makes the pack of its entries.
LEMMA PackingMade ==
  ASSUME NEW p \in Procs, EntryOf(p), proc[p].pc \in Packing
  PROVE  /\ Made(Job(p), ToSet(proc[p].entries))
         /\ fingerprint(p) = PackOf(Job(p), ToSet(proc[p].entries))
         /\ manifest_bytes(p) = fingerprint(p).of
<1>1. /\ Job(p) \in Jobs /\ Job(p).pack /\ proc[p].entries \in Seq(ToSet(proc[p].entries))
      /\ Len(proc[p].entries) = Len(Job(p).files)
  BY DEF EntryOf
<1>2. Len(proc[p].entries) \in Nat /\ Len(proc[p].entries) > 0
  BY <1>1, JobFiles
<1>3. proc[p].entries[1] \in ToSet(proc[p].entries)
  BY <1>1, <1>2 DEF ToSet
<1>4. Made(Job(p), ToSet(proc[p].entries))
  BY <1>1, <1>3, EntryRoots DEF Made
<1>5. fingerprint(p) = PackOf(Job(p), ToSet(proc[p].entries))
  BY DEF fingerprint, PackOf
<1>6. manifest_bytes(p) = fingerprint(p).of
  BY DEF fingerprint, manifest_bytes
<1> QED BY <1>4, <1>5, <1>6

\* A step of a command touches the files of its own pack only.
LEMMA FileFrame ==
  ASSUME NEW p \in Procs, FilepackStep(p), NEW x, x # fingerprint(p) \/ proc[p].pc \notin Packing
  PROVE  FilesOf(tmp', x) = FilesOf(tmp, x) /\ FilesOf(published', x) = FilesOf(published, x)
<1> DEFINE fp == fingerprint(p)
<1>1. CASE \/ write_manifest_tmp(p) \/ write_sidecar_tmp(p) \/ rename(p) \/ cleanup(p)
  <2>1. x # fp
    BY <1>1 DEF write_manifest_tmp, write_sidecar_tmp, rename, cleanup, At, Packing
  <2>2. /\ \/ \E n, v : tmp' = SetFile(tmp, fp, n, v)
           \/ tmp' = SetFiles(tmp, fp, NoFiles)
        /\ published' = published \/ \E n, v : published' = SetFile(published, fp, n, v)
    BY <1>1 DEF write_manifest_tmp, write_sidecar_tmp, rename, cleanup
  <2> HIDE DEF fp
  <2>3. FilesOf(tmp', x) = FilesOf(tmp, x)
    <3>1. CASE \E n, v : tmp' = SetFile(tmp, fp, n, v)
      <4>1. PICK n, v : tmp' = SetFile(tmp, fp, n, v)
        BY <3>1
      <4> QED BY <2>1, <4>1, SetFileElsewhere
    <3>2. CASE tmp' = SetFiles(tmp, fp, NoFiles)
      BY <2>1, <3>2, FilesAfter
    <3> QED BY <2>2, <3>1, <3>2
  <2>4. FilesOf(published', x) = FilesOf(published, x)
    <3>1. CASE \E n, v : published' = SetFile(published, fp, n, v)
      <4>1. PICK n, v : published' = SetFile(published, fp, n, v)
        BY <3>1
      <4> QED BY <2>1, <4>1, SetFileElsewhere
    <3> QED BY <2>2, <3>1
  <2> QED BY <2>3, <2>4
<1>2. CASE ~(write_manifest_tmp(p) \/ write_sidecar_tmp(p) \/ rename(p) \/ cleanup(p))
  <2>1. tmp' = tmp /\ published' = published
    BY <1>2 DEF FilepackStep, master_key_for_format, validate_master_key_permissions, read_master_key_file,
         create_master_key, write_master_key, chmod_master_key, store_blob, open_draft, write_draft, rename_draft, publish_blob, rename_blob, put_commitment,
         commit_filepack_metadata, rename_fails, rollback_filepack_metadata, Fail, Kill, Stopped
  <2> QED BY <2>1
<1> QED BY <1>1, <1>2

\* A pack becomes quiet when a command that is alone ends with its last rename.
LEMMA QuietEffect ==
  ASSUME NEW p \in Procs, FilepackStep(p)
  PROVE  \/ quiet' = quiet
         \/ /\ rename(p) /\ proc[p].alone /\ EndJob(p)
            /\ ~(proc[p].publishing < Len(publish_order(Job(p).compat)))
            /\ quiet' = quiet \cup {[fp |-> fingerprint(p), job |-> Job(p)]}
<1>1. CASE rename(p)
  BY <1>1 DEF rename
<1>2. CASE ~rename(p)
  BY <1>2 DEF FilepackStep, master_key_for_format, validate_master_key_permissions, read_master_key_file,
         create_master_key, write_master_key, chmod_master_key, store_blob, open_draft, write_draft, rename_draft, publish_blob, rename_blob, put_commitment,
         write_manifest_tmp, write_sidecar_tmp, cleanup,
         commit_filepack_metadata, rename_fails, rollback_filepack_metadata, Fail, Kill, Stopped
<1> QED BY <1>1, <1>2

\* A command that is alone has no rival, and neither has a pack that is quiet.
RivalInv ==
  /\ ProcOK
  /\ \A p, q \in Procs :
       p # q /\ proc[p].pc # "idle" /\ proc[q].pc # "idle" /\ proc[p].alone => ~Shares(proc[q].job, proc[p].job)
  /\ \A c \in quiet : \A q \in Procs : proc[q].pc # "idle" => ~Shares(c.job, proc[q].job)

\* No rivals, in every reachable state.
LEMMA RivalInvariant == DirSpec => []RivalInv
<1>1. DirInit => RivalInv
  BY DEF DirInit, FilepackInit, RivalInv, ProcOK, NoJob
<1>2. ASSUME RivalInv, [DirNext]_dirVars
      PROVE  RivalInv'
  <2>1. ProcOK /\ ProcOK'
    BY <1>2, ProcStep DEF RivalInv
  <2>2. ASSUME NEW p \in Procs, NEW j \in Jobs, StartJob(p, j)
        PROVE  RivalInv'
    <3>1. proc'[p].job = j /\ proc'[p].alone = ({q \in Active : Shares(proc[q].job, j)} = {})
      BY <2>1, <2>2, StartEffect
    <3>2. quiet' = {c \in quiet : ~Shares(c.job, j)}
      BY <2>2 DEF StartJob
    <3>3. ASSUME NEW q \in Procs \ {p}, proc'[q].pc # "idle"
          PROVE  /\ proc[q].pc # "idle" /\ proc'[q].job = proc[q].job
                 /\ proc'[q].alone => proc[q].alone /\ ~Shares(proc[q].job, j)
                 /\ proc'[p].alone => ~Shares(proc[q].job, j)
      <4>1. CASE q \in Active /\ Shares(proc[q].job, j)
        <5>1. proc'[q].pc = proc[q].pc /\ proc'[q].job = proc[q].job /\ proc'[q].alone = FALSE
          BY <2>1, <2>2, <4>1, StartEffect
        <5>2. ~proc'[p].alone
          BY <3>1, <4>1
        <5> QED BY <3>3, <5>1, <5>2
      <4>2. CASE ~ (q \in Active /\ Shares(proc[q].job, j))
        <5>1. proc'[q] = proc[q]
          BY <2>2, <4>2 DEF StartJob
        <5>2. proc[q].pc # "idle"
          BY <3>3, <5>1
        <5>3. ~Shares(proc[q].job, j)
          BY <4>2, <5>2 DEF Active
        <5> QED BY <5>1, <5>2, <5>3
      <4> QED BY <4>1, <4>2
    <3>4. ASSUME NEW a \in Procs, NEW b \in Procs, a # b, proc'[a].pc # "idle", proc'[b].pc # "idle", proc'[a].alone
          PROVE  ~Shares(proc'[b].job, proc'[a].job)
      <4>1. CASE a = p
        BY <3>1, <3>3, <3>4, <4>1
      <4>2. CASE b = p
        BY <3>1, <3>3, <3>4, <4>2, SharesSymmetric
      <4>3. CASE a # p /\ b # p
        BY <1>2, <3>3, <3>4, <4>3 DEF RivalInv
      <4> QED BY <4>1, <4>2, <4>3
    <3>5. ASSUME NEW c \in quiet', NEW q \in Procs, proc'[q].pc # "idle"
          PROVE  ~Shares(c.job, proc'[q].job)
      <4>1. CASE q = p
        BY <3>1, <3>2, <3>5, <4>1
      <4>2. CASE q # p
        BY <1>2, <3>2, <3>3, <3>5, <4>2 DEF RivalInv
      <4> QED BY <4>1, <4>2
    <3> QED BY <2>1, <3>4, <3>5 DEF RivalInv
  <2>3. ASSUME NEW p \in Procs, FilepackStep(p)
        PROVE  RivalInv'
    <3>1. /\ Others(p) /\ proc[p].pc # "idle"
          /\ proc'[p].pc = "idle" \/ (proc'[p].job = proc[p].job /\ proc'[p].alone = proc[p].alone)
      <4>1. /\ Others(p) /\ IsCommand(proc[p])
            /\ proc'[p] = NoJob \/ SameCommand(proc[p], proc'[p])
        BY <2>1, <2>3, StepEffect
      <4>2. proc'[p] = NoJob => proc'[p].pc = "idle"
        BY DEF NoJob
      <4> QED BY <4>1, <4>2 DEF IsCommand, SameCommand
    <3>2. \A q \in Procs : proc'[q].pc # "idle" =>
            proc[q].pc # "idle" /\ proc'[q].job = proc[q].job /\ proc'[q].alone = proc[q].alone
      BY <3>1 DEF Others
    <3>3. ASSUME NEW c \in quiet', NEW q \in Procs, proc'[q].pc # "idle"
          PROVE  ~Shares(c.job, proc'[q].job)
      <4>1. CASE c \in quiet
        BY <1>2, <3>2, <3>3, <4>1 DEF RivalInv
      <4>2. CASE c \notin quiet
        <5>1. proc[p].alone /\ EndJob(p) /\ c = [fp |-> fingerprint(p), job |-> Job(p)]
          BY <2>3, <3>3, <4>2, QuietEffect
        <5>2. proc'[p].pc = "idle"
          BY <2>1, <5>1, ReturnEffect
        <5>3. q # p /\ c.job = proc[p].job
          BY <3>3, <5>1, <5>2 DEF Job
        <5>4. ~Shares(proc[q].job, proc[p].job)
          BY <1>2, <3>1, <3>2, <3>3, <5>1, <5>3 DEF RivalInv
        <5> QED BY <3>2, <3>3, <5>3, <5>4, SharesSymmetric
      <4> QED BY <4>1, <4>2
    <3> QED BY <1>2, <2>1, <3>2, <3>3 DEF RivalInv
  <2>4. ASSUME UNCHANGED storeVars
        PROVE  RivalInv'
    BY <1>2, <2>4 DEF storeVars, RivalInv, ProcOK
  <2> QED BY <1>2, <2>2, <2>3, <2>4, StepCases
<1> QED BY <1>1, <1>2, PTL DEF DirSpec

-----------------------------------------------------------------------------
\* Blobs are whole

\* A process that has a file open is writing that blob, and is not alone once
\* the file was renamed.
WritersOf(r, n) ==
  LET f == BlobOf(r)[n] IN
  f # None => \A p \in f.by :
    /\ p \in Procs /\ proc[p].pc = "writing" /\ r = bao_root(p)
    /\ n # "draft" => ~proc[p].alone

\* What is torn is a temporary file that nobody is about to rename.
WholeAt(r) ==
  /\ ~Torn(BlobOf(r)["tmp"]) /\ ~Torn(BlobOf(r)["file"])
  /\ \A q \in Procs : proc[q].pc \in {"writing", "drafted"} /\ r = bao_root(q) => ~Torn(BlobOf(r)["draft"])

WholeInv ==
  /\ \A r : \A n \in BlobNames : WritersOf(r, n)
  /\ \A r : r \notin spoiled => WholeAt(r)

\* Processes at one blob are rivals.
LEMMA BlobRivals ==
  ASSUME EntryInv, RivalInv, NEW p \in Procs, NEW q \in Procs, p # q,
         proc[p].pc \in Storing, proc[q].pc \in Storing, bao_root(p) = bao_root(q)
  PROVE  ~proc[p].alone
<1>1. EntryOf(p) /\ EntryOf(q) /\ proc[p].pc # "idle" /\ proc[q].pc # "idle"
  BY DEF EntryInv, Storing
<1>2. Of(bao_root(p), Job(p)) /\ Of(bao_root(p), Job(q))
  BY <1>1, NextRoot DEF Storing, Packing
<1>3. Shares(proc[q].job, proc[p].job)
  BY <1>2, RootsApart DEF Job
<1> QED BY <1>1, <1>3 DEF RivalInv

\* Where a command may enter or leave the write of a blob.
LEMMA WriteEntered ==
  ASSUME ProcOK, NEW p \in Procs, FilepackStep(p), ~BlobWritten(p)
  PROVE  /\ blobs' = blobs /\ spoiled' = spoiled
         /\ proc[p].pc # "writing" /\ proc'[p].pc \notin {"writing", "drafted"}
<1>1. blobs' = blobs /\ spoiled' = spoiled
  BY BlobSteps
<1>2. ProcOK /\ IsCommand(proc[p])
  BY StepEffect
<1>3. ASSUME EndJob(p)
      PROVE  proc'[p].pc \notin {"writing", "drafted"}
  BY <1>2, <1>3, ReturnEffect
<1>4. ASSUME NEW pc, pc \notin {"idle", "writing", "drafted"}, Goto(p, pc)
      PROVE  proc'[p].pc \notin {"writing", "drafted"}
  BY <1>2, <1>4, GotoEffect
<1>5. CASE store_blob(p)
  BY <1>3, <1>5 DEF store_blob, open_draft, write_draft, rename_draft, publish_blob, rename_blob, BlobWritten,
     Renamed, At
<1>6. CASE Fail(p) \/ Kill(p)
  BY <1>3, <1>6 DEF Fail, Kill, Stopped, BlobWritten, At
<1>7. CASE \/ master_key_for_format(p) \/ validate_master_key_permissions(p) \/ read_master_key_file(p)
           \/ create_master_key(p) \/ write_master_key(p) \/ chmod_master_key(p)
  <2>1. ASSUME NEW k, KeyHeld(p, k)
        PROVE  proc'[p].pc \notin {"writing", "drafted"}
    BY <1>2, <2>1, HeldEffect
  <2> QED BY <1>3, <1>4, <1>7, <2>1 DEF master_key_for_format, validate_master_key_permissions,
     read_master_key_file, create_master_key, write_master_key, chmod_master_key, At
<1>8. CASE put_commitment(p)
  <2>1. proc[p].pc = "put"
    BY <1>8 DEF put_commitment, At
  <2>2. ASSUME NEW es, NEW pc \in {"encode", "manifest_tmp"}, proc' = [proc EXCEPT ![p].entries = es, ![p].pc = pc]
        PROVE  proc'[p].pc \notin {"writing", "drafted"}
    <3>1. proc'[p].pc = pc
      BY <1>2, <2>2 DEF ProcOK, IsCommand
    <3> QED BY <2>2, <3>1
  <2>3. PICK es : \/ proc' = [proc EXCEPT ![p].entries = es, ![p].pc = "encode"]
                  \/ proc' = [proc EXCEPT ![p].entries = es, ![p].pc = "manifest_tmp"]
                  \/ EndJob(p)
    BY <1>8 DEF put_commitment
  <2> QED BY <1>1, <1>3, <2>1, <2>2, <2>3
<1>9. CASE write_manifest_tmp(p) \/ write_sidecar_tmp(p) \/ rename_fails(p)
           \/ rollback_filepack_metadata(p) \/ cleanup(p)
  BY <1>1, <1>3, <1>4, <1>9 DEF write_manifest_tmp, write_sidecar_tmp, rename_fails, rollback_filepack_metadata,
     cleanup, At
<1>10. CASE commit_filepack_metadata(p)
  BY <1>1, <1>2, <1>10, CommitEffect DEF commit_filepack_metadata, At
<1>11. CASE rename(p)
  <2>1. proc[p].pc = "rename"
    BY <1>11 DEF rename, At
  <2>2. CASE /\ proc[p].publishing < Len(publish_order(Job(p).compat))
             /\ proc' = [proc EXCEPT ![p].publishing = @ + 1]
    <3>1. Job(p).compat /\ proc[p].publishing = 1
      BY <1>2, <2>2 DEF publish_order, IsCommand, Job
    <3> QED BY <1>1, <1>2, <2>1, <2>2, <3>1, PublishedEffect
  <2> QED BY <1>1, <1>3, <1>11, <2>1, <2>2 DEF rename
<1> QED BY <1>1, <1>5, <1>6, <1>7, <1>8, <1>9, <1>10, <1>11 DEF FilepackStep

\* A step that writes no blob.
LEMMA WholeFrame ==
  ASSUME WholeInv, blobs' = blobs, spoiled' = spoiled,
         \A q \in Procs : proc[q].pc = "writing" =>
           proc'[q].pc = "writing" /\ bao_root(q)' = bao_root(q) /\ (~proc[q].alone => ~proc'[q].alone),
         \A q \in Procs : proc'[q].pc \in {"writing", "drafted"} =>
           proc[q].pc \in {"writing", "drafted"} /\ bao_root(q)' = bao_root(q)
  PROVE  WholeInv'
<1>1. \A x : BlobOf(x)' = BlobOf(x)
  BY BlobsSame
<1>2. ASSUME NEW r, NEW n \in BlobNames
      PROVE  WritersOf(r, n)'
  <2>1. WritersOf(r, n)
    BY DEF WholeInv
  <2> QED BY <1>1, <2>1 DEF WritersOf
<1>3. ASSUME NEW r, r \notin spoiled'
      PROVE  WholeAt(r)'
  <2>1. WholeAt(r)
    BY <1>3 DEF WholeInv
  <2> QED BY <1>1, <2>1 DEF WholeAt
<1> QED BY <1>2, <1>3 DEF WholeInv

\* A step that makes c of the blob it is at: the other blobs are as they were.
LEMMA WholeOthers ==
  ASSUME WholeInv, NEW p \in Procs, ProcOK, Others(p), NEW c, blobs' = SetBlob(bao_root(p), c),
         proc'[p].pc \in {"writing", "drafted"} => bao_root(p)' = bao_root(p),
         spoiled \subseteq spoiled', NEW x, x # bao_root(p)
  PROVE  /\ \A n \in BlobNames : WritersOf(x, n)'
         /\ x \notin spoiled' => WholeAt(x)'
<1>1. BlobOf(x)' = BlobOf(x)
  BY BlobSet
<1>2. \A q \in Procs \ {p} : proc'[q] = proc[q] /\ bao_root(q)' = bao_root(q)
  BY DEF Others, bao_root, File, Job
<1>3. ASSUME NEW n \in BlobNames
      PROVE  WritersOf(x, n)'
  <2>1. WritersOf(x, n)
    BY DEF WholeInv
  <2>2. BlobOf(x)[n] # None => p \notin BlobOf(x)[n].by
    BY <2>1 DEF WritersOf
  <2> QED BY <1>1, <1>2, <2>1, <2>2 DEF WritersOf
<1>4. ASSUME x \notin spoiled'
      PROVE  WholeAt(x)'
  <2>1. WholeAt(x)
    BY <1>4 DEF WholeInv
  <2> QED BY <1>1, <1>2, <2>1 DEF WholeAt
<1> QED BY <1>3, <1>4

\* Opening, closing and stopping: who writes the file, and whether it is torn.
LEMMA TornOps ==
  ASSUME NEW f \in OpenFile \cup {None}, NEW p \in Procs
  PROVE  /\ ~Torn(Opened(f, p)) /\ Opened(f, p) # None
         /\ Opened(f, p).by = {p} \cup (IF f = None THEN {} ELSE f.by)
         /\ \A w \in BOOLEAN :
              /\ Closed(f, p, w) = None <=> f = None
              /\ f # None => Closed(f, p, w).by = f.by \ {p}
              /\ f # None /\ p \notin f.by => Closed(f, p, w) = f
              /\ (f # None /\ (f.whole \/ f.last = p => w)) /\ Torn(Closed(f, p, w)) => Torn(f)
<1>1. f # None => f \in OpenFile /\ f.by \subseteq Procs /\ f.last \in Procs /\ f.whole \in BOOLEAN
  BY DEF OpenFile
<1>2. Opened(f, p) # None
  BY FileOps
<1>3. /\ ~Torn(Opened(f, p))
      /\ Opened(f, p).by = {p} \cup (IF f = None THEN {} ELSE f.by)
  BY DEF Opened, Torn
<1>4. ASSUME NEW w \in BOOLEAN
      PROVE  /\ Closed(f, p, w) = None <=> f = None
             /\ f # None => Closed(f, p, w).by = f.by \ {p}
             /\ f # None /\ p \notin f.by => Closed(f, p, w) = f
             /\ (f # None /\ (f.whole \/ f.last = p => w)) /\ Torn(Closed(f, p, w)) => Torn(f)
  <2>1. CASE f = None
    BY <2>1 DEF Closed
  <2>2. CASE f # None /\ p \notin f.by
    BY <2>2 DEF Closed
  <2>3. CASE f # None /\ p \in f.by
    <3>1. Closed(f, p, w) = [whole |-> w, by |-> f.by \ {p}, last |-> f.last]
      BY <2>3 DEF Closed
    <3>2. Closed(f, p, w) # None
      BY <2>3, FileOps
    <3> QED BY <2>3, <3>1, <3>2 DEF Torn
  <2> QED BY <2>1, <2>2, <2>3
<1> QED BY <1>2, <1>3, <1>4

\* A step that writes a blob.
LEMMA WholeWritten ==
  ASSUME BlobsOK, EntryInv, RivalInv, WholeInv, NEW p \in Procs, FilepackStep(p), BlobWritten(p)
  PROVE  WholeInv'
<1> DEFINE r == bao_root(p)
           b == BlobOf(r)
<1>1. ProcOK /\ IsCommand(proc[p]) /\ Others(p)
  BY StepEffect DEF EntryInv
<1>2. \A n \in BlobNames : b[n] \in OpenFile \cup {None} /\ WritersOf(r, n)
  BY DEF BlobsOK, WholeInv
<1>3. \A q \in Procs \ {p} : proc'[q] = proc[q] /\ bao_root(q)' = bao_root(q)
  BY <1>1 DEF Others, bao_root, File, Job
<1>4. ASSUME NEW pc \in {"writing", "drafted", "blob", "put"}, Goto(p, pc)
      PROVE  proc'[p].pc = pc /\ bao_root(p)' = bao_root(p) /\ proc'[p].alone = proc[p].alone
  <2>1. proc'[p].pc = pc /\ SameFiles(proc[p], proc'[p])
    BY <1>1, <1>4, GotoEffect
  <2> QED BY <2>1 DEF bao_root, File, Job, SameFiles, SameKey, SameEntries, SameCommand
<1>5. ASSUME NEW c, blobs' = SetBlob(r, c), spoiled \subseteq spoiled',
             proc'[p].pc \in {"writing", "drafted"} => bao_root(p)' = bao_root(p),
             \A n \in BlobNames : c[n] # None => \A q \in c[n].by :
               /\ q \in Procs /\ proc'[q].pc = "writing" /\ bao_root(q)' = r
               /\ n # "draft" => ~proc'[q].alone,
             r \notin spoiled' =>
               /\ ~Torn(c["tmp"]) /\ ~Torn(c["file"])
               /\ Torn(c["draft"]) => \A q \in Procs : ~(proc'[q].pc \in {"writing", "drafted"} /\ bao_root(q)' = r)
      PROVE  WholeInv'
  <2>1. \A x : BlobOf(x)' = IF x = r THEN c ELSE BlobOf(x)
    BY <1>5, BlobSet
  <2>2. ASSUME NEW x, x # r
        PROVE  (\A n \in BlobNames : WritersOf(x, n)') /\ (x \notin spoiled' => WholeAt(x)')
    BY <1>1, <1>5, <2>2, WholeOthers
  <2> HIDE DEF r
  <2>3. ASSUME NEW x, x = r
        PROVE  (\A n \in BlobNames : WritersOf(x, n)') /\ (x \notin spoiled' => WholeAt(x)')
    <3>1. BlobOf(x)' = c
      BY <2>1, <2>3
    <3>2. ASSUME NEW n \in BlobNames
          PROVE  WritersOf(x, n)'
      BY <1>5, <2>3, <3>1, <3>2 DEF WritersOf
    <3>3. ASSUME x \notin spoiled'
          PROVE  WholeAt(x)'
      BY <1>5, <2>3, <3>1, <3>3 DEF WholeAt
    <3> QED BY <3>2, <3>3
  <2> QED BY <2>2, <2>3 DEF WholeInv
<1>6. r \notin spoiled => WholeAt(r)
  BY DEF WholeInv
<1>7. \A n \in BlobNames : b[n] # None => \A q \in b[n].by :
        q \in Procs /\ proc[q].pc = "writing" /\ bao_root(q) = r /\ (n # "draft" => ~proc[q].alone)
  BY <1>2 DEF WritersOf
<1>8. CASE /\ At(p, "publish") /\ Goto(p, "writing") /\ spoiled' = spoiled
           /\ blobs' = SetBlob(r, [b EXCEPT !["draft"] = Opened(@, p)])
  <2> DEFINE c == [b EXCEPT !["draft"] = Opened(@, p)]
  <2>1. /\ proc[p].pc = "publish" /\ proc'[p].pc = "writing" /\ bao_root(p)' = r
    BY <1>4, <1>8 DEF At
  <2>2. b["draft"] \in OpenFile \cup {None}
    BY <1>2 DEF BlobNames
  <2>3. c["draft"] = Opened(b["draft"], p) /\ c["tmp"] = b["tmp"] /\ c["file"] = b["file"]
    BY DEF BlobsOK, BlobNames
  <2>4. /\ ~Torn(c["draft"])
        /\ c["draft"].by = {p} \cup (IF b["draft"] = None THEN {} ELSE b["draft"].by)
    BY <2>2, <2>3, TornOps
  <2>5. blobs' = SetBlob(r, c) /\ spoiled \subseteq spoiled'
    BY <1>8
  <2> HIDE DEF c
  <2>6. ASSUME NEW n \in BlobNames, c[n] # None, NEW q \in c[n].by
        PROVE  q \in Procs /\ proc'[q].pc = "writing" /\ bao_root(q)' = r /\ (n # "draft" => ~proc'[q].alone)
    <3>1. CASE q = p
      <4>1. n = "draft"
        BY <1>7, <2>1, <2>3, <2>6, <3>1 DEF BlobNames
      <4> QED BY <2>1, <3>1, <4>1
    <3>2. CASE q # p
      <4>1. b[n] # None /\ q \in b[n].by
        BY <2>3, <2>4, <2>6, <3>2 DEF BlobNames
      <4> QED BY <1>3, <1>7, <3>2, <4>1
    <3> QED BY <3>1, <3>2
  <2>7. r \notin spoiled' => ~Torn(c["tmp"]) /\ ~Torn(c["file"])
    BY <1>6, <1>8, <2>3 DEF WholeAt
  <2> QED BY <1>5, <2>1, <2>4, <2>6, <2>7, <2>5
<1>9. ASSUME At(p, "writing"), NEW w \in [BlobNames -> BOOLEAN], spoiled \subseteq spoiled',
             blobs' = SetBlob(r, [n \in BlobNames |-> Closed(b[n], p, w[n])]),
             proc'[p].pc # "writing", proc'[p].pc = "drafted" => bao_root(p)' = r,
             r \notin spoiled' =>
               /\ \A n \in {"tmp", "file"} : b[n] # None => p \notin b[n].by \/ (b[n].whole \/ b[n].last = p => w[n])
               /\ \/ b["draft"] # None => (b["draft"].whole \/ b["draft"].last = p => w["draft"])
                  \/ \A q \in Procs : ~(proc'[q].pc \in {"writing", "drafted"} /\ bao_root(q)' = r)
      PROVE  WholeInv'
  <2> DEFINE c == [n \in BlobNames |-> Closed(b[n], p, w[n])]
  <2>1. ASSUME NEW n \in BlobNames
        PROVE  /\ c[n] = None <=> b[n] = None
               /\ b[n] # None => c[n].by = b[n].by \ {p}
               /\ b[n] # None /\ p \notin b[n].by => c[n] = b[n]
               /\ (b[n] # None => (b[n].whole \/ b[n].last = p => w[n])) /\ Torn(c[n]) => Torn(b[n])
    <3>1. b[n] \in OpenFile \cup {None} /\ w[n] \in BOOLEAN /\ c[n] = Closed(b[n], p, w[n])
      BY <1>2, <1>9
    <3>2. b[n] = None => ~Torn(c[n])
      BY <3>1 DEF Closed, Torn
    <3> HIDE DEF c, b
    <3> QED BY <3>1, <3>2, TornOps
  <2>2. ASSUME NEW n \in BlobNames, c[n] # None, NEW q \in c[n].by
        PROVE  q \in Procs /\ proc'[q].pc = "writing" /\ bao_root(q)' = r /\ (n # "draft" => ~proc'[q].alone)
    <3>1. b[n] # None /\ q \in b[n].by /\ q # p
      BY <2>1, <2>2
    <3> QED BY <1>3, <1>7, <3>1
  <2>3. ASSUME r \notin spoiled'
        PROVE  ~Torn(c["tmp"]) /\ ~Torn(c["file"])
    <3>1. ~Torn(b["tmp"]) /\ ~Torn(b["file"])
      BY <1>6, <1>9, <2>3 DEF WholeAt
    <3>2. ASSUME NEW n \in {"tmp", "file"}
          PROVE  ~Torn(c[n])
      BY <1>9, <2>1, <2>3, <3>1, <3>2 DEF BlobNames
    <3> QED BY <3>2
  <2>4. r \notin spoiled' /\ Torn(c["draft"]) =>
          \A q \in Procs : ~(proc'[q].pc \in {"writing", "drafted"} /\ bao_root(q)' = r)
    <3>1. r \notin spoiled' => ~Torn(b["draft"])
      BY <1>6, <1>9 DEF WholeAt, At
    <3> QED BY <1>9, <2>1, <3>1 DEF BlobNames
  <2> HIDE DEF c
  <2> QED BY <1>5, <1>9, <2>2, <2>3, <2>4 DEF c
<1>10. CASE /\ At(p, "writing") /\ Goto(p, "drafted") /\ spoiled' = spoiled
            /\ \E cut \in BOOLEAN : blobs' = SetBlob(r,
                 [n \in BlobNames |-> LET f == b[n] IN Closed(f, p, f.whole \/ f.last = p \/ ~cut)])
  <2>1. PICK cut \in BOOLEAN : blobs' = SetBlob(r,
                 [n \in BlobNames |-> LET f == b[n] IN Closed(f, p, f.whole \/ f.last = p \/ ~cut)])
    BY <1>10
  <2> DEFINE w == [n \in BlobNames |-> b[n].whole \/ b[n].last = p \/ ~cut]
  <2>2. w \in [BlobNames -> BOOLEAN] /\ \A n \in BlobNames : (b[n].whole \/ b[n].last = p) => w[n]
    OBVIOUS
  <2>3. [n \in BlobNames |-> LET f == b[n] IN Closed(f, p, f.whole \/ f.last = p \/ ~cut)] =
          [n \in BlobNames |-> Closed(b[n], p, w[n])]
    OBVIOUS
  <2>4. proc'[p].pc = "drafted" /\ bao_root(p)' = r
    BY <1>4, <1>10
  <2> HIDE DEF w
  <2> QED BY <1>9, <1>10, <2>1, <2>2, <2>3, <2>4 DEF BlobNames
<1>11. CASE /\ At(p, "writing") /\ EndJob(p)
            /\ spoiled' = IF proc[p].alone THEN spoiled ELSE spoiled \cup {r}
            /\ blobs' = SetBlob(r, [n \in BlobNames |-> LET f == b[n] IN Closed(f, p, f.whole)])
  <2> DEFINE w == [n \in BlobNames |-> b[n].whole = TRUE]
  <2>1. w \in [BlobNames -> BOOLEAN]
    OBVIOUS
  <2>2. \A n \in BlobNames : b[n] # None => b[n].whole \in BOOLEAN
    BY <1>2 DEF OpenFile
  <2>3. ASSUME NEW n \in BlobNames
        PROVE  Closed(b[n], p, b[n].whole) = Closed(b[n], p, w[n])
    <3>1. CASE b[n] = None
      BY <3>1 DEF Closed
    <3>2. CASE b[n] # None
      <4>1. b[n].whole = w[n]
        BY <2>2, <3>2
      <4> QED BY <4>1
    <3> QED BY <3>1, <3>2
  <2>4. blobs' = SetBlob(r, [n \in BlobNames |-> Closed(b[n], p, w[n])])
    BY <1>11, <2>3
  <2>5. proc'[p].pc = "idle"
    BY <1>1, <1>11, ReturnEffect
  <2> HIDE DEF w
  <2>6. ASSUME r \notin spoiled'
        PROVE  /\ \A n \in {"tmp", "file"} : b[n] # None => p \notin b[n].by
               /\ \A q \in Procs : ~(proc'[q].pc \in {"writing", "drafted"} /\ bao_root(q)' = r)
    <3>1. proc[p].alone /\ proc[p].pc = "writing"
      BY <1>11, <2>6 DEF At
    <3>2. \A n \in {"tmp", "file"} : b[n] # None => p \notin b[n].by
      BY <1>7, <3>1 DEF BlobNames
    <3>3. ASSUME NEW q \in Procs, proc'[q].pc \in {"writing", "drafted"}, bao_root(q)' = r
          PROVE  FALSE
      <4>1. q # p /\ proc[q].pc \in Storing /\ bao_root(q) = r /\ proc[p].pc \in Storing
        BY <1>3, <2>5, <3>1, <3>3 DEF Storing
      <4> QED BY <3>1, <4>1, BlobRivals
    <3> QED BY <3>2, <3>3
  <2> QED BY <1>9, <1>11, <2>1, <2>4, <2>5, <2>6
<1>12. ASSUME NEW from \in {"draft", "tmp"}, NEW to \in BlobNames, to = IF from = "draft" THEN "tmp" ELSE "file",
              At(p, IF from = "draft" THEN "drafted" ELSE "blob"), Renamed(p, from, to), spoiled' = spoiled,
              Goto(p, IF from = "draft" THEN "blob" ELSE "put")
       PROVE  WholeInv'
  <2> DEFINE c == [b EXCEPT ![to] = b[from], ![from] = None]
  <2>1. blobs' = SetBlob(r, c) /\ b[from] # None
    BY <1>12 DEF Renamed
  <2>2. /\ proc'[p].pc \in {"blob", "put"} /\ proc[p].pc \in {"drafted", "blob"}
        /\ from = "draft" => proc[p].pc = "drafted"
    BY <1>4, <1>12 DEF At
  <2>3. /\ c[from] = None /\ c[to] = b[from]
        /\ \A n \in BlobNames \ {from, to} : c[n] = b[n]
    BY <1>12 DEF BlobsOK, BlobNames
  <2> HIDE DEF c
  <2>4. ASSUME NEW n \in BlobNames, c[n] # None, NEW q \in c[n].by
        PROVE  q \in Procs /\ proc'[q].pc = "writing" /\ bao_root(q)' = r /\ (n # "draft" => ~proc'[q].alone)
    <3>1. PICK m \in BlobNames : b[m] = c[n] /\ (n # m => n = to /\ m = from)
      BY <1>12, <2>3, <2>4 DEF BlobNames
    <3>2. q \in Procs /\ proc[q].pc = "writing" /\ bao_root(q) = r /\ (m # "draft" => ~proc[q].alone)
      BY <1>7, <2>4, <3>1
    <3>3. q # p
      BY <2>2, <3>2
    <3>4. ~proc[q].alone \/ n = "draft"
      <4>1. CASE m # "draft"
        BY <3>2, <4>1
      <4>2. CASE m = "draft" /\ n # "draft"
        BY <2>2, <3>2, <3>3, BlobRivals DEF Storing
      <4> QED BY <4>1, <4>2
    <3> QED BY <1>3, <3>2, <3>3, <3>4
  <2>5. ASSUME r \notin spoiled'
        PROVE  /\ ~Torn(c["tmp"]) /\ ~Torn(c["file"])
               /\ Torn(c["draft"]) => \A q \in Procs : ~(proc'[q].pc \in {"writing", "drafted"} /\ bao_root(q)' = r)
    <3>1. WholeAt(r)
      BY <1>6, <1>12, <2>5
    <3>2. ~Torn(b[from])
      BY <1>12, <2>2, <3>1 DEF WholeAt
    <3>3. ~Torn(None)
      BY DEF Torn
    <3>4. ~Torn(c["tmp"]) /\ ~Torn(c["file"])
      BY <1>12, <2>3, <3>1, <3>2, <3>3 DEF WholeAt, BlobNames
    <3>5. Torn(c["draft"]) => Torn(b["draft"])
      BY <1>12, <2>3, <3>3 DEF BlobNames
    <3>6. ASSUME Torn(b["draft"]), NEW q \in Procs, proc'[q].pc \in {"writing", "drafted"}, bao_root(q)' = r
          PROVE  FALSE
      <4>1. q # p
        BY <2>2, <3>6
      <4> QED BY <1>3, <3>1, <3>6, <4>1 DEF WholeAt
    <3> QED BY <3>4, <3>5, <3>6
  <2> QED BY <1>5, <1>12, <2>1, <2>2, <2>4, <2>5
<1> QED BY <1>8, <1>10, <1>11, <1>12 DEF BlobWritten, BlobNames

\* No blob that a command may have published is torn.
LEMMA WholeInvariant == DirSpec => []WholeInv
<1>1. DirInit => WholeInv
  <2> SUFFICES ASSUME DirInit
               PROVE  WholeInv
    OBVIOUS
  <2>1. \A r : \A n \in BlobNames : BlobOf(r)[n] = None
    BY DEF DirInit, FilepackInit, BlobOf, NoBlob
  <2>2. \A r : WholeAt(r)
    BY <2>1 DEF WholeAt, Torn, BlobNames
  <2>3. \A r : \A n \in BlobNames : WritersOf(r, n)
    BY <2>1 DEF WritersOf
  <2> QED BY <2>2, <2>3 DEF WholeInv
<1>2. KeyInv /\ EntryInv /\ RivalInv /\ WholeInv /\ [DirNext]_dirVars => WholeInv'
  <2> SUFFICES ASSUME KeyInv, EntryInv, RivalInv, WholeInv, [DirNext]_dirVars
               PROVE  WholeInv'
    OBVIOUS
  <2>1. ProcOK /\ BlobsOK
    BY DEF KeyInv
  <2>2. ASSUME NEW p \in Procs, NEW j \in Jobs, StartJob(p, j)
        PROVE  WholeInv'
    <3>1. blobs' = blobs /\ spoiled' = spoiled /\ proc[p].pc = "idle" /\ proc'[p].pc = "encode"
      BY <2>1, <2>2, StartEffect DEF StartJob, At
    <3>2. ASSUME NEW q \in Procs \ {p}
          PROVE  /\ proc'[q].pc = proc[q].pc /\ (~proc[q].alone => ~proc'[q].alone)
                 /\ proc[q].pc \in {"writing", "drafted"} => bao_root(q)' = bao_root(q)
      <4>1. \/ proc'[q] = proc[q]
            \/ /\ proc'[q].pc = proc[q].pc /\ proc'[q].job = proc[q].job /\ proc'[q].alone = FALSE
               /\ proc'[q].entries = proc[q].entries /\ proc'[q].held = proc[q].held
        BY <2>1, <2>2, StartEffect
      <4> QED BY <4>1 DEF bao_root, File, Job
    <3> QED BY <3>1, <3>2, WholeFrame
  <2>3. ASSUME NEW p \in Procs, FilepackStep(p)
        PROVE  WholeInv'
    <3>1. CASE BlobWritten(p)
      BY <2>1, <2>3, <3>1, WholeWritten
    <3>2. CASE ~BlobWritten(p)
      <4>1. /\ blobs' = blobs /\ spoiled' = spoiled
            /\ proc[p].pc # "writing" /\ proc'[p].pc \notin {"writing", "drafted"}
        BY <2>1, <2>3, <3>2, WriteEntered
      <4>2. \A q \in Procs \ {p} : proc'[q] = proc[q] /\ bao_root(q)' = bao_root(q)
        BY <2>1, <2>3, StepEffect DEF Others, bao_root, File, Job
      <4> QED BY <4>1, <4>2, WholeFrame
    <3> QED BY <3>1, <3>2
  <2>4. ASSUME UNCHANGED storeVars
        PROVE  WholeInv'
    <3>1. blobs' = blobs /\ spoiled' = spoiled /\ proc' = proc
      BY <2>4 DEF storeVars
    <3>2. \A q \in Procs : bao_root(q)' = bao_root(q)
      BY <3>1 DEF bao_root, File, Job
    <3> QED BY <3>1, <3>2, WholeFrame
  <2> QED BY <2>2, <2>3, <2>4, StepCases
<1> QED BY <1>1, <1>2, KeyInvariant, EntryInvariant, RivalInvariant, PTL DEF DirSpec

\* A pack that verify_filepack accepts can be read: its blobs are in place and
\* whole or being written again, and the key of its encrypted ones is in the
\* key file, however many processes raced to create that file or to encode the
\* same content, and wherever they were killed; only a root whose write was cut
\* short by the end of a command that was not alone is excepted.
THEOREM VerifiedPacksDecode == DirSpec => []VerifiedPackDecodes
<1>1. KeyInv /\ WholeInv => VerifiedPackDecodes
  <2> SUFFICES ASSUME KeyInv, WholeInv, NEW fp \in DOMAIN published, verify_filepack(fp), NEW e \in EntriesOf(fp)
               PROVE  /\ BlobOf(e.root)["file"] # None
                      /\ ~Torn(BlobOf(e.root)["file"]) \/ e.root \in spoiled
                      /\ e.root.key \notin {Public, "hex key"} => key.private /\ key.value = e.root.key
    BY DEF VerifiedPackDecodes
  <2>1. e.root \in DOMAIN meta
    BY DEF verify_filepack
  <2>2. InPlace(e.root) /\ KeyFits(e.root.key)
    BY <2>1 DEF KeyInv
  <2>3. e.root \notin spoiled => WholeAt(e.root)
    BY DEF WholeInv
  <2> QED BY <2>2, <2>3 DEF InPlace, KeyFits, WholeAt
<1> QED BY <1>1, KeyInvariant, WholeInvariant, PTL

-----------------------------------------------------------------------------
\* The files of a pack

\* A manifest is what the fingerprint of its pack is taken of.
ManifestIn(dir, x) == FilesOf(dir, x).manifest \in {None, x.of}
ManifestInv == \A x : ManifestIn(tmp, x) /\ ManifestIn(published, x)

\* Setting one file of a pack.
LEMMA ManifestSet ==
  ASSUME NEW dir, DirOK(dir), NEW fp, NEW name \in Names, NEW v,
         ManifestIn(dir, fp), name = "manifest" => v \in {None, fp.of}
  PROVE  ManifestIn(SetFile(dir, fp, name, v), fp)
<1>1. "manifest" \in Names
  BY DEF Names
<1>2. FilesOf(SetFile(dir, fp, name, v), fp)["manifest"] =
        IF "manifest" = name THEN v ELSE FilesOf(dir, fp)["manifest"]
  BY <1>1, SetFileSets
<1> QED BY <1>2 DEF ManifestIn

\* The manifests, after any step of a command.
LEMMA ManifestStep ==
  ASSUME ReadyInv, ManifestInv, NEW p \in Procs, FilepackStep(p)
  PROVE  ManifestInv'
<1>1. /\ DirOK(tmp) /\ DirOK(published) /\ "manifest" \in Names /\ "sidecar" \in Names
      /\ IsCommand(proc[p])
  BY StepEffect DEF ReadyInv, Names
<1>2. PICK fp : fp = fingerprint(p)
  OBVIOUS
<1>3. ManifestIn(tmp, fp) /\ ManifestIn(published, fp)
  BY DEF ManifestInv
<1>4. \A x : x # fp => ManifestIn(tmp, x)' /\ ManifestIn(published, x)'
  BY <1>2, FileFrame DEF ManifestInv, ManifestIn
<1>5. SUFFICES ManifestIn(tmp', fp) /\ ManifestIn(published', fp)
  BY <1>4 DEF ManifestInv
<1>6. CASE write_manifest_tmp(p) \/ write_sidecar_tmp(p)
  <2>1. /\ published' = published
        /\ \/ tmp' = SetFile(tmp, fp, "manifest", manifest_bytes(p))
           \/ tmp' = SetFile(tmp, fp, "sidecar", sidecar_bytes(p))
    BY <1>2, <1>6 DEF write_manifest_tmp, write_sidecar_tmp
  <2>2. manifest_bytes(p) = fp.of
    BY <1>2 DEF manifest_bytes, fingerprint
  <2>3. ManifestIn(SetFile(tmp, fp, "manifest", manifest_bytes(p)), fp)
    BY <1>1, <1>3, <2>2, ManifestSet
  <2>4. ManifestIn(SetFile(tmp, fp, "sidecar", sidecar_bytes(p)), fp)
    BY <1>1, <1>3, ManifestSet
  <2> QED BY <1>3, <2>1, <2>3, <2>4
<1>7. CASE rename(p)
  <2>1. PICK name \in Names : name = Publishing(p)
    BY <1>1, PublishingIs
  <2>2. /\ FilesOf(tmp, fp)[name] # None /\ published' = SetFile(published, fp, name, tmp[fp][name])
        /\ tmp' = SetFile(tmp, fp, name, None)
    BY <1>2, <1>7, <2>1 DEF rename
  <2>3. PICK v : v = tmp[fp][name]
    OBVIOUS
  <2>4. name = "manifest" => v \in {None, fp.of}
    BY <1>3, <2>2, <2>3 DEF ManifestIn, FilesOf, NoFiles
  <2>5. ManifestIn(SetFile(published, fp, name, v), fp)
    BY <1>1, <1>3, <2>1, <2>4, ManifestSet
  <2>6. ManifestIn(SetFile(tmp, fp, name, None), fp)
    BY <1>1, <1>3, <2>1, ManifestSet
  <2> QED BY <2>2, <2>3, <2>5, <2>6
<1>8. CASE cleanup(p)
  <2>1. /\ \/ tmp' = SetFile(tmp, fp, "manifest", None)
           \/ tmp' = SetFiles(tmp, fp, NoFiles)
        /\ \/ published' = SetFile(published, fp, "sidecar", None)
           \/ published' = published
    BY <1>2, <1>8 DEF cleanup
  <2>2. ManifestIn(SetFile(tmp, fp, "manifest", None), fp)
    BY <1>1, <1>3, ManifestSet
  <2>3. ManifestIn(SetFiles(tmp, fp, NoFiles), fp)
    <3>1. FilesOf(SetFiles(tmp, fp, NoFiles), fp) = NoFiles
      BY FilesAfter
    <3> QED BY <3>1 DEF ManifestIn, NoFiles
  <2>4. ManifestIn(SetFile(published, fp, "sidecar", None), fp)
    BY <1>1, <1>3, ManifestSet
  <2> QED BY <1>3, <2>1, <2>2, <2>3, <2>4
<1>9. CASE ~(write_manifest_tmp(p) \/ write_sidecar_tmp(p) \/ rename(p) \/ cleanup(p))
  <2>1. tmp' = tmp /\ published' = published
    BY <1>9 DEF FilepackStep, master_key_for_format, validate_master_key_permissions, read_master_key_file,
         create_master_key, write_master_key, chmod_master_key, store_blob, open_draft, write_draft, rename_draft, publish_blob, rename_blob, put_commitment,
         commit_filepack_metadata, rename_fails, rollback_filepack_metadata, Fail, Kill, Stopped
  <2> QED BY <1>3, <2>1
<1> QED BY <1>6, <1>7, <1>8, <1>9

\* The manifests, in every reachable state.
LEMMA ManifestInvariant == DirSpec => []ManifestInv
<1>1. DirInit => ManifestInv
  BY DEF DirInit, FilepackInit, ManifestInv, ManifestIn, FilesOf, NoFiles
<1>2. ASSUME ReadyInv, ManifestInv, [DirNext]_dirVars
      PROVE  ManifestInv'
  <2>1. ASSUME NEW p \in Procs, NEW j \in Jobs, StartJob(p, j)
        PROVE  ManifestInv'
    BY <1>2, <2>1 DEF StartJob, ManifestInv, ManifestIn
  <2>2. ASSUME UNCHANGED storeVars
        PROVE  ManifestInv'
    BY <1>2, <2>2 DEF storeVars, ManifestInv, ManifestIn
  <2> QED BY <1>2, <2>1, <2>2, StepCases, ManifestStep
<1> QED BY <1>1, <1>2, ReadyInvariant, PTL DEF DirSpec

\* One file of a pack is set, the other one is kept.
LEMMA FileSet ==
  ASSUME NEW dir, DirOK(dir), NEW fp, NEW v
  PROVE  /\ FilesOf(SetFile(dir, fp, "sidecar", v), fp).sidecar = v
         /\ FilesOf(SetFile(dir, fp, "manifest", v), fp).manifest = v
         /\ FilesOf(SetFile(dir, fp, "manifest", v), fp).sidecar = FilesOf(dir, fp).sidecar
<1>1. ASSUME NEW name \in Names, NEW n \in Names
      PROVE  FilesOf(SetFile(dir, fp, name, v), fp)[n] = IF n = name THEN v ELSE FilesOf(dir, fp)[n]
  BY <1>1, SetFileSets
<1> QED BY <1>1 DEF Names

-----------------------------------------------------------------------------
\* Alone and quiet

\* A command that is alone finds the sidecar it wrote, in the temporary file
\* and then published, and the metadata bound to its pack.
AloneOf(p) ==
  proc[p].alone =>
    /\ (proc[p].pc \in {"commit", "rename"} /\ Job(p).compat /\ proc[p].publishing = 1 =>
          FilesOf(tmp, fingerprint(p)).sidecar = ToSet(proc[p].entries))
    /\ (proc[p].pc = "rename" /\ proc[p].publishing = 2 =>
          /\ FilesOf(published, fingerprint(p)).sidecar = ToSet(proc[p].entries)
          /\ ToSet(proc[p].entries) # None)
    /\ (proc[p].pc = "rename" => \A e \in ToSet(proc[p].entries) : meta[e.root].fp = fingerprint(p))

\* A quiet pack verifies, and holds entries of its own job.
QuietOf(c) ==
  /\ verify_filepack(c.fp)
  /\ Made(c.job, EntriesOf(c.fp))
  /\ c.fp = PackOf(c.job, EntriesOf(c.fp))

QuietInv ==
  /\ \A p \in Procs : proc[p].pc # "idle" => AloneOf(p)
  /\ \A c \in quiet : QuietOf(c)

\* What a command relies on is left as it is.
LEMMA AloneKept ==
  ASSUME NEW q \in Procs, AloneOf(q),
         proc'[q].pc = proc[q].pc, proc'[q].job = proc[q].job, proc'[q].entries = proc[q].entries,
         proc'[q].publishing = proc[q].publishing, proc'[q].alone => proc[q].alone,
         proc'[q].alone /\ proc[q].pc \in Packing =>
           /\ FilesOf(tmp', fingerprint(q)) = FilesOf(tmp, fingerprint(q))
           /\ FilesOf(published', fingerprint(q)) = FilesOf(published, fingerprint(q))
           /\ \A e \in ToSet(proc[q].entries) : meta'[e.root] = meta[e.root]
  PROVE  AloneOf(q)'
<1>1. fingerprint(q)' = fingerprint(q) /\ Job(q)' = Job(q)
  BY DEF fingerprint, Job
<1> QED BY <1>1 DEF AloneOf, Packing

\* What a quiet pack relies on is left as it is.
LEMMA QuietKept ==
  ASSUME NEW c, QuietOf(c), FilesOf(published', c.fp) = FilesOf(published, c.fp),
         \A e \in EntriesOf(c.fp) : e.root \in DOMAIN meta => e.root \in DOMAIN meta' /\ meta'[e.root] = meta[e.root]
  PROVE  QuietOf(c)'
<1> DEFINE fp == c.fp
<1>1. FilesOf(published, fp).manifest # None /\ FilesOf(published', fp).manifest # None
  BY DEF QuietOf, verify_filepack
<1>2. fp \in DOMAIN published /\ fp \in DOMAIN published'
  BY <1>1 DEF FilesOf, NoFiles
<1>3. published'[fp] = published[fp]
  BY <1>2 DEF FilesOf
<1>4. EntriesOf(fp)' = EntriesOf(fp)
  BY <1>3 DEF EntriesOf
<1>5. verify_filepack(fp)'
  BY <1>1, <1>3, <1>4 DEF QuietOf, verify_filepack
<1> QED BY <1>4, <1>5 DEF QuietOf

\* A step of one command leaves alone the others that are.
LEMMA AloneOther ==
  ASSUME EntryInv, RivalInv, QuietInv, NEW p \in Procs, FilepackStep(p),
         NEW q \in Procs \ {p}, proc[q].pc # "idle"
  PROVE  AloneOf(q)'
<1>1. proc'[q] = proc[q] /\ IsCommand(proc[p]) /\ AloneOf(q)
  BY StepEffect DEF EntryInv, Others, QuietInv
<1>2. EntryOf(p) /\ EntryOf(q) /\ proc[p].pc # "idle"
  BY <1>1 DEF EntryInv, IsCommand
<1>3. ASSUME proc[q].alone, proc[q].pc \in Packing
      PROVE  /\ FilesOf(tmp', fingerprint(q)) = FilesOf(tmp, fingerprint(q))
             /\ FilesOf(published', fingerprint(q)) = FilesOf(published, fingerprint(q))
             /\ \A e \in ToSet(proc[q].entries) : meta'[e.root] = meta[e.root]
  <2>1. ~Shares(Job(p), Job(q)) /\ ~Shares(Job(q), Job(p))
    BY <1>2, <1>3, SharesSymmetric DEF RivalInv, Job
  <2>2. fingerprint(q) # fingerprint(p) \/ proc[p].pc \notin Packing
    <3>1. SUFFICES ASSUME proc[p].pc \in Packing
                   PROVE  fingerprint(q) # fingerprint(p)
      OBVIOUS
    <3> QED BY <1>2, <1>3, <2>1, <3>1, PackingMade, PacksApart
  <2>3. \A e \in ToSet(proc[q].entries) : e.root \in DOMAIN meta /\ ~Of(e.root, Job(p))
    BY <1>2, <2>1, EntryRoots, RootsApart
  <2> QED BY <2>2, <2>3, FileFrame, MetaFrame
<1> QED BY <1>1, <1>3, AloneKept

\* And the packs that are quiet.
LEMMA QuietOther ==
  ASSUME EntryInv, RivalInv, QuietInv, NEW p \in Procs, FilepackStep(p), NEW c \in quiet
  PROVE  QuietOf(c)'
<1>1. IsCommand(proc[p]) /\ QuietOf(c)
  BY StepEffect DEF EntryInv, QuietInv
<1>2. EntryOf(p) /\ proc[p].pc # "idle"
  BY <1>1 DEF EntryInv, IsCommand
<1>3. ~Shares(c.job, Job(p))
  BY <1>2 DEF RivalInv, Job
<1>4. Made(c.job, EntriesOf(c.fp)) /\ c.fp = PackOf(c.job, EntriesOf(c.fp))
  BY <1>1 DEF QuietOf
<1>5. c.fp # fingerprint(p) \/ proc[p].pc \notin Packing
  <2>1. SUFFICES ASSUME proc[p].pc \in Packing
                 PROVE  c.fp # fingerprint(p)
    OBVIOUS
  <2>2. PICK E : E = EntriesOf(c.fp)
    OBVIOUS
  <2>3. Made(c.job, E) /\ c.fp = PackOf(c.job, E)
    BY <1>4, <2>2
  <2> QED BY <1>2, <1>3, <2>1, <2>3, PackingMade, PacksApart
<1>6. \A e \in EntriesOf(c.fp) : ~Of(e.root, Job(p))
  BY <1>3, <1>4, RootsApart DEF Made
<1>7. FilesOf(published', c.fp) = FilesOf(published, c.fp)
  BY <1>5, FileFrame
<1>8. \A e \in EntriesOf(c.fp) : e.root \in DOMAIN meta => e.root \in DOMAIN meta' /\ meta'[e.root] = meta[e.root]
  BY <1>6, MetaFrame
<1> QED BY <1>1, <1>7, <1>8, QuietKept

\* The steps that lead to the publication.
LEMMA PublicationSteps ==
  ASSUME ProcOK, NEW p \in Procs, FilepackStep(p), proc'[p].pc \in {"commit", "rename"}
  PROVE  \/ write_manifest_tmp(p) /\ ~Job(p).compat
         \/ write_sidecar_tmp(p) \/ commit_filepack_metadata(p)
         \/ rename(p)
<1>1. IsCommand(proc[p])
  BY StepEffect
<1>2. ASSUME NEW pc, pc \notin {"idle", "commit", "rename"}, Goto(p, pc)
      PROVE  FALSE
  <2>1. proc'[p].pc = pc
    BY <1>1, <1>2, GotoEffect
  <2> QED BY <1>2, <2>1
<1>3. ~EndJob(p)
  BY ReturnEffect
<1>4. \A k : ~KeyHeld(p, k)
  <2>1. SUFFICES ASSUME NEW k, KeyHeld(p, k)
                 PROVE  FALSE
    OBVIOUS
  <2>2. proc'[p].pc = "publish"
    BY <1>1, <2>1, HeldEffect
  <2> QED BY <2>2
<1>5. CASE \/ master_key_for_format(p) \/ validate_master_key_permissions(p) \/ read_master_key_file(p)
           \/ create_master_key(p) \/ write_master_key(p) \/ chmod_master_key(p) \/ store_blob(p)
  <2>1. \/ EndJob(p)
        \/ \E pc \in {"permissions", "create", "read", "write", "chmod", "writing", "drafted", "blob", "put"} : Goto(p, pc)
        \/ \E k : KeyHeld(p, k)
    BY <1>5 DEF master_key_for_format, validate_master_key_permissions, read_master_key_file,
         create_master_key, write_master_key, chmod_master_key, store_blob, open_draft, write_draft, rename_draft, publish_blob, rename_blob
  <2> QED BY <1>2, <1>3, <1>4, <2>1
<1>6. CASE rename_fails(p) \/ rollback_filepack_metadata(p) \/ cleanup(p) \/ Fail(p) \/ Kill(p)
  <2>1. EndJob(p) \/ Goto(p, "rollback") \/ Goto(p, "cleanup")
    BY <1>6 DEF rename_fails, rollback_filepack_metadata, cleanup, Fail, Kill, Stopped
  <2> QED BY <1>2, <1>3, <2>1
<1>7. CASE put_commitment(p)
  <2>1. PICK es : \/ proc' = [proc EXCEPT ![p].entries = es, ![p].pc = "encode"]
                  \/ proc' = [proc EXCEPT ![p].entries = es, ![p].pc = "manifest_tmp"]
    BY <1>3, <1>7 DEF put_commitment
  <2>2. proc'[p].pc \in {"encode", "manifest_tmp"}
    BY <1>1, <2>1 DEF ProcOK, IsCommand
  <2> QED BY <2>2
<1>8. CASE write_manifest_tmp(p)
  <2>1. Job(p).compat => Goto(p, "sidecar_tmp")
    BY <1>8 DEF write_manifest_tmp
  <2> QED BY <1>2, <1>8, <2>1
<1> QED BY <1>5, <1>6, <1>7, <1>8 DEF FilepackStep

\* A command that is alone, on its own steps.
LEMMA AloneOwn ==
  ASSUME ReadyInv, EntryInv, QuietInv, NEW p \in Procs, FilepackStep(p), proc'[p].pc # "idle"
  PROVE  AloneOf(p)'
<1>1. CASE proc'[p].pc \notin {"commit", "rename"}
  BY <1>1 DEF AloneOf
<1>2. CASE proc'[p].pc \in {"commit", "rename"}
  <2>1. ProcOK /\ IsCommand(proc[p]) /\ DirOK(tmp) /\ DirOK(published)
    BY StepEffect DEF EntryInv, ReadyInv
  <2>2. AloneOf(p) /\ ReadyOf(p) /\ EntryOf(p)
    BY <2>1 DEF IsCommand, QuietInv, ReadyInv, EntryInv
  <2>3. "sidecar" \in Names /\ "manifest" \in Names
    BY DEF Names
  <2>4. CASE write_manifest_tmp(p) /\ ~Job(p).compat
    <3>1. proc[p].pc = "manifest_tmp" /\ Goto(p, "commit")
      BY <2>4 DEF write_manifest_tmp, At
    <3>2. proc'[p].pc = "commit" /\ proc'[p].job = proc[p].job
      BY <2>1, <3>1, GotoEffect DEF SameFiles, SameKey, SameEntries, SameCommand
    <3> QED BY <2>4, <3>2 DEF AloneOf, Job
  <2>5. CASE write_sidecar_tmp(p)
    <3>1. proc[p].pc = "sidecar_tmp" /\ Goto(p, "commit")
      BY <2>5 DEF write_sidecar_tmp, At
    <3>2. /\ proc'[p].pc = "commit" /\ proc'[p].job = proc[p].job /\ proc'[p].entries = proc[p].entries
          /\ fingerprint(p)' = fingerprint(p)
      BY <2>1, <3>1, GotoEffect DEF SameFiles, SameKey, SameEntries, SameCommand, fingerprint, Job
    <3>3. PICK fp, v : fp = fingerprint(p) /\ v = ToSet(proc[p].entries)
      OBVIOUS
    <3>4. tmp' = SetFile(tmp, fp, "sidecar", v)
      BY <2>5, <3>3 DEF write_sidecar_tmp, sidecar_bytes
    <3>5. FilesOf(tmp', fp).sidecar = v
      BY <2>1, <3>4, FileSet
    <3> QED BY <3>2, <3>3, <3>4, <3>5 DEF AloneOf
  <2>6. CASE commit_filepack_metadata(p)
    <3>1. /\ proc[p].pc = "commit" /\ tmp' = tmp
          /\ meta' = Bound(RootsOf(p), [r \in RootsOf(p) |-> fingerprint(p)])
      BY <2>6 DEF commit_filepack_metadata, At
    <3>2. /\ proc'[p].pc = "rename" /\ proc'[p].job = proc[p].job /\ proc'[p].alone = proc[p].alone
          /\ proc'[p].entries = proc[p].entries /\ proc'[p].publishing = proc[p].publishing
          /\ fingerprint(p)' = fingerprint(p)
      BY <2>1, <2>6, CommitEffect DEF SameFiles, SameKey, SameEntries, SameCommand, fingerprint, Job
    <3>3. proc[p].publishing = 1
      BY <2>2, <3>1 DEF ReadyOf
    <3>4. ASSUME NEW e \in ToSet(proc[p].entries)
          PROVE  meta'[e.root].fp = fingerprint(p)
      <4>1. e.root \in DOMAIN meta /\ e.root \in RootsOf(p)
        BY <2>2, EntryRoots DEF RootsOf
      <4>2. meta'[e.root] = [meta[e.root] EXCEPT !.fp = fingerprint(p)]
        BY <3>1, <4>1 DEF Bound
      <4>3. meta[e.root] = [format |-> e.root.format, fp |-> meta[e.root].fp]
        BY <4>1 DEF EntryInv
      <4> QED BY <4>2, <4>3
    <3> QED BY <2>2, <3>1, <3>2, <3>3, <3>4 DEF AloneOf, Job
  <2>7. CASE rename(p)
    <3>1. ~EndJob(p)
      BY <1>2, <2>1, ReturnEffect
    <3>2. /\ proc[p].pc = "rename" /\ meta' = meta
          /\ proc[p].publishing < Len(publish_order(Job(p).compat))
          /\ proc' = [proc EXCEPT ![p].publishing = @ + 1]
      BY <2>7, <3>1 DEF rename, At
    <3>3. Job(p).compat /\ proc[p].publishing = 1 /\ Publishing(p) = "sidecar"
      BY <2>1, <3>2, PublishingIs
    <3>4. /\ proc'[p].pc = "rename" /\ proc'[p].job = proc[p].job /\ proc'[p].alone = proc[p].alone
          /\ proc'[p].entries = proc[p].entries /\ proc'[p].publishing = 2
          /\ fingerprint(p)' = fingerprint(p)
      BY <2>1, <3>2, <3>3, PublishedEffect DEF SameKey, SameEntries, SameCommand, fingerprint, Job
    <3>5. PICK fp, v : fp = fingerprint(p) /\ v = tmp[fp].sidecar
      OBVIOUS
    <3>6. FilesOf(tmp, fp).sidecar # None /\ published' = SetFile(published, fp, "sidecar", v)
      BY <2>7, <3>3, <3>5 DEF rename
    <3>7. FilesOf(tmp, fp).sidecar = v
      BY <3>5, <3>6 DEF FilesOf, NoFiles
    <3>8. FilesOf(published', fp).sidecar = v
      BY <2>1, <3>6, FileSet
    <3>9. proc[p].alone =>
            /\ v = ToSet(proc[p].entries)
            /\ \A e \in ToSet(proc[p].entries) : meta[e.root].fp = fp
      BY <2>2, <3>2, <3>3, <3>5, <3>7 DEF AloneOf
    <3>10. FilesOf(published', fp).sidecar = v /\ v # None
      BY <3>6, <3>7, <3>8
    <3> QED BY <3>2, <3>4, <3>5, <3>9, <3>10 DEF AloneOf
  <2> QED BY <1>2, <2>1, <2>4, <2>5, <2>6, <2>7, PublicationSteps
<1> QED BY <1>1, <1>2

\* A pack that becomes quiet verifies.
LEMMA QuietNew ==
  ASSUME ReadyInv, EntryInv, ManifestInv, QuietInv, NEW p \in Procs, rename(p), proc[p].alone,
         ~(proc[p].publishing < Len(publish_order(Job(p).compat))),
         NEW c, c = [fp |-> fingerprint(p), job |-> Job(p)]
  PROVE  QuietOf(c)'
<1>1. ProcOK /\ IsCommand(proc[p]) /\ DirOK(tmp) /\ DirOK(published)
  BY StepEffect DEF EntryInv, ReadyInv, FilepackStep
<1>2. proc[p].pc = "rename" /\ meta' = meta /\ proc[p].pc \in Packing
  BY DEF rename, At, Packing
<1>3. AloneOf(p) /\ EntryOf(p)
  BY <1>1 DEF IsCommand, QuietInv, EntryInv
<1>4. PICK fp, E, j : fp = fingerprint(p) /\ E = ToSet(proc[p].entries) /\ j = Job(p)
  OBVIOUS
<1>5. Made(j, E) /\ fp = PackOf(j, E) /\ c.fp = fp /\ c.job = j
  BY <1>2, <1>3, <1>4, PackingMade
<1>6. Publishing(p) = "manifest" /\ (j.compat => proc[p].publishing = 2)
  BY <1>1, <1>4, PublishingIs DEF IsCommand, Names
<1>7. PICK v : v = tmp[fp].manifest
  OBVIOUS
<1>8. FilesOf(tmp, fp).manifest # None /\ published' = SetFile(published, fp, "manifest", v)
  BY <1>4, <1>6, <1>7 DEF rename
<1>9. v = fp.of /\ v # None
  BY <1>7, <1>8 DEF FilesOf, NoFiles, ManifestInv, ManifestIn
<1>10. FilesOf(published', fp).manifest = fp.of /\ FilesOf(published', fp).sidecar = FilesOf(published, fp).sidecar
  BY <1>1, <1>8, <1>9, FileSet
<1>11. fp \in DOMAIN published' /\ FilesOf(published', fp) = published'[fp]
  BY <1>9, <1>10 DEF FilesOf, NoFiles
<1>12. j.compat => FilesOf(published, fp).sidecar = E /\ E # None
  BY <1>2, <1>3, <1>4, <1>6 DEF AloneOf
<1>13. fp.kind = "casey" <=> j.compat
  BY <1>5 DEF PackOf
<1>14. fp.kind = "json" <=> ~j.compat
  BY <1>5 DEF PackOf
<1>15. \A x : x = fp => EntriesOf(x)' = E
  <2>1. ~j.compat => fp.of = E
    BY <1>5 DEF PackOf
  <2> QED BY <1>10, <1>11, <1>12, <1>14, <2>1 DEF EntriesOf
<1>16. \A e \in E : e.root \in DOMAIN meta' /\ meta'[e.root].fp = fp /\ meta'[e.root].format = e.format
  <2>1. SUFFICES ASSUME NEW e \in E
                 PROVE  e.root \in DOMAIN meta /\ meta[e.root].fp = fp /\ meta[e.root].format = e.format
    BY <1>2
  <2>2. e.root \in DOMAIN meta /\ e.format = e.root.format
    BY <1>3, <1>4, EntryRoots
  <2>3. meta[e.root].fp = fp
    BY <1>2, <1>3, <1>4 DEF AloneOf
  <2>4. meta[e.root] = [format |-> e.root.format, fp |-> meta[e.root].fp]
    BY <2>2 DEF EntryInv
  <2> QED BY <2>2, <2>3, <2>4
<1>17. j.compat => ensure_casey_bindings_match_sidecar(fp.of, E)
  <2>1. j.compat => fp.of = Package(j)
    BY <1>5 DEF PackOf
  <2>2. SUFFICES {f[1] : f \in Package(j)} = {b.path : b \in E}
    BY <2>1 DEF ensure_casey_bindings_match_sidecar
  <2>3. /\ j \in Jobs /\ proc[p].entries \in Seq(ToSet(proc[p].entries))
        /\ Len(proc[p].entries) = Len(j.files)
        /\ \A k \in 1 .. Len(proc[p].entries) : EntryFor(j, k, proc[p].entries[k])
    BY <1>2, <1>3, <1>4 DEF EntryOf
  <2>4. PICK es : es = proc[p].entries
    OBVIOUS
  <2>5. DOMAIN es = DOMAIN j.files /\ DOMAIN es = 1 .. Len(es)
    BY <2>3, <2>4, JobFiles
  <2>6. \A k \in DOMAIN es : es[k].path = j.files[k].path
    BY <2>3, <2>4, <2>5 DEF EntryFor
  <2>7. {b.path : b \in E} = {es[k].path : k \in DOMAIN es}
    BY <1>4, <2>4 DEF ToSet
  <2>8. {f[1] : f \in Package(j)} = {j.files[k].path : k \in DOMAIN j.files}
    <3>1. \A k \in DOMAIN j.files : <<j.files[k].path, j.files[k].content>> \in Package(j)
      BY DEF Package
    <3>2. \A k \in DOMAIN j.files : <<j.files[k].path, j.files[k].content>>[1] = j.files[k].path
      OBVIOUS
    <3>3. \A f \in Package(j) : \E k \in DOMAIN j.files : f = <<j.files[k].path, j.files[k].content>>
      BY DEF Package
    <3>4. \A f \in Package(j) : \E k \in DOMAIN j.files : f[1] = j.files[k].path
      BY <3>2, <3>3
    <3>5. \A k \in DOMAIN j.files : \E f \in Package(j) : f[1] = j.files[k].path
      BY <3>1, <3>2
    <3> QED BY <3>4, <3>5
  <2> QED BY <2>5, <2>6, <2>7, <2>8
<1>18. \A x : x = fp => verify_filepack(x)'
  BY <1>9, <1>10, <1>11, <1>12, <1>13, <1>15, <1>16, <1>17 DEF verify_filepack
<1> QED BY <1>5, <1>15, <1>18 DEF QuietOf

\* Alone and quiet, in every reachable state.
LEMMA QuietInvariant == DirSpec => []QuietInv
<1>1. DirInit => QuietInv
  BY DEF DirInit, FilepackInit, QuietInv, NoJob
<1>2. ASSUME ReadyInv, EntryInv, RivalInv, ManifestInv, QuietInv, [DirNext]_dirVars
      PROVE  QuietInv'
  <2>1. ProcOK
    BY <1>2 DEF EntryInv
  <2>2. ASSUME NEW p \in Procs, NEW j \in Jobs, StartJob(p, j)
        PROVE  QuietInv'
    <3>1. meta' = meta /\ tmp' = tmp /\ published' = published /\ quiet' \subseteq quiet
      BY <2>2 DEF StartJob
    <3>2. AloneOf(p)'
      BY <2>1, <2>2, StartEffect DEF AloneOf
    <3>3. ASSUME NEW q \in Procs \ {p}, proc'[q].pc # "idle"
          PROVE  AloneOf(q)'
      <4>1. CASE q \in Active /\ Shares(proc[q].job, j)
        <5>1. proc'[q].alone = FALSE
          BY <2>1, <2>2, <4>1, StartEffect
        <5> QED BY <5>1 DEF AloneOf
      <4>2. CASE ~ (q \in Active /\ Shares(proc[q].job, j))
        <5>1. proc'[q] = proc[q]
          BY <2>2, <4>2 DEF StartJob
        <5>2. AloneOf(q)
          BY <1>2, <3>3, <5>1 DEF QuietInv
        <5> QED BY <3>1, <5>1, <5>2, AloneKept
      <4> QED BY <4>1, <4>2
    <3>4. ASSUME NEW c \in quiet'
          PROVE  QuietOf(c)'
      <4>1. QuietOf(c)
        BY <1>2, <3>1 DEF QuietInv
      <4> QED BY <3>1, <4>1, QuietKept
    <3> QED BY <3>2, <3>3, <3>4 DEF QuietInv
  <2>3. ASSUME NEW p \in Procs, FilepackStep(p)
        PROVE  QuietInv'
    <3>1. ASSUME NEW q \in Procs, proc'[q].pc # "idle"
          PROVE  AloneOf(q)'
      <4>1. CASE q = p
        BY <1>2, <2>3, <3>1, <4>1, AloneOwn
      <4>2. CASE q # p
        <5>1. proc'[q] = proc[q]
          BY <2>1, <2>3, <4>2, StepEffect DEF Others
        <5>2. proc[q].pc # "idle"
          BY <3>1, <5>1
        <5> QED BY <1>2, <2>3, <4>2, <5>2, AloneOther
      <4> QED BY <4>1, <4>2
    <3>2. ASSUME NEW c \in quiet'
          PROVE  QuietOf(c)'
      <4>1. CASE c \in quiet
        BY <1>2, <2>3, <4>1, QuietOther
      <4>2. CASE c \notin quiet
        <5>1. /\ rename(p) /\ proc[p].alone
              /\ ~(proc[p].publishing < Len(publish_order(Job(p).compat)))
              /\ c = [fp |-> fingerprint(p), job |-> Job(p)]
          BY <2>3, <3>2, <4>2, QuietEffect
        <5> QED BY <1>2, <5>1, QuietNew
      <4> QED BY <4>1, <4>2
    <3> QED BY <3>1, <3>2 DEF QuietInv
  <2>4. ASSUME UNCHANGED storeVars
        PROVE  QuietInv'
    <3>1. meta' = meta /\ tmp' = tmp /\ published' = published /\ quiet' = quiet /\ proc' = proc
      BY <2>4 DEF storeVars
    <3>2. \A q \in Procs : AloneOf(q) => AloneOf(q)'
      BY <3>1, AloneKept
    <3>3. \A c \in quiet : QuietOf(c) => QuietOf(c)'
      BY <3>1, QuietKept
    <3> QED BY <1>2, <3>1, <3>2, <3>3 DEF QuietInv
  <2> QED BY <1>2, <2>2, <2>3, <2>4, StepCases
<1> QED BY <1>1, <1>2, ReadyInvariant, EntryInvariant, RivalInvariant, ManifestInvariant, PTL DEF DirSpec

\* A pack made by a command that had no rival from its start to its last
\* rename, and left alone since, passes verify_filepack, whatever other
\* commands do at the same time and whatever failed or was killed before.
THEOREM UndisturbedPacksVerify == DirSpec => []UndisturbedPackVerifies
<1>1. QuietInv => UndisturbedPackVerifies
  BY DEF QuietInv, QuietOf, UndisturbedPackVerifies
<1> QED BY <1>1, QuietInvariant, PTL

-----------------------------------------------------------------------------
\* The entries at some positions, in order

Rank(S, k) == Cardinality({x \in S : x <= k})

\* Positions are finitely many.
LEMMA PositionsFinite ==
  ASSUME NEW n \in Nat, NEW S \in SUBSET (1 .. n)
  PROVE  /\ IsFiniteSet(S) /\ Cardinality(S) \in Nat /\ Cardinality(S) <= n
         /\ \A x \in S : x \in Nat /\ 1 <= x /\ x <= n
<1>1. IsFiniteSet(1 .. n) /\ Cardinality(1 .. n) = n
  BY FS_Interval
<1>2. PICK T : T = 1 .. n
  OBVIOUS
<1>3. IsFiniteSet(T) /\ S \in SUBSET T
  BY <1>1, <1>2
<1>4. IsFiniteSet(S) /\ Cardinality(S) <= Cardinality(T)
  BY <1>3, FS_Subset
<1>5. Cardinality(S) \in Nat
  BY <1>4, FS_CardinalityType
<1> QED BY <1>1, <1>2, <1>4, <1>5

\* Going up by one meets at most one more position.
LEMMA RankUp ==
  ASSUME NEW n \in Nat, NEW S \in SUBSET (1 .. n), NEW k \in 0 .. n
  PROVE  /\ Rank(S, k) \in Nat /\ Rank(S, 0) = 0 /\ Rank(S, n) = Cardinality(S)
         /\ k # 0 => Rank(S, k) = IF k \in S THEN Rank(S, k - 1) + 1 ELSE Rank(S, k - 1)
<1>1. IsFiniteSet(S) /\ \A x \in S : x \in Nat /\ 1 <= x /\ x <= n
  BY PositionsFinite
<1>2. \A m : IsFiniteSet({x \in S : x <= m})
  BY <1>1, FS_Subset
<1>3. Rank(S, k) \in Nat
  BY <1>2, FS_CardinalityType DEF Rank
<1>4. Rank(S, 0) = 0
  <2>1. \A x \in S : ~(x <= 0)
    BY <1>1
  <2>2. {x \in S : x <= 0} = {}
    BY <2>1
  <2> QED BY <2>2, FS_EmptySet DEF Rank
<1>5. Rank(S, n) = Cardinality(S)
  <2>1. {x \in S : x <= n} = S
    BY <1>1
  <2> QED BY <2>1 DEF Rank
<1>6. ASSUME k # 0
      PROVE  Rank(S, k) = IF k \in S THEN Rank(S, k - 1) + 1 ELSE Rank(S, k - 1)
  <2> DEFINE T == {x \in S : x <= k - 1}
  <2>1. IsFiniteSet(T)
    BY <1>2
  <2>2. k \notin T
    OBVIOUS
  <2>3. CASE k \in S
    <3>1. {x \in S : x <= k} = T \cup {k}
      <4>1. \A x \in S : x <= k <=> x <= k - 1 \/ x = k
        BY <1>1, <1>6
      <4> QED BY <2>3, <4>1
    <3> HIDE DEF T
    <3>2. Cardinality(T \cup {k}) = Cardinality(T) + 1
      BY <2>2, <2>1, FS_AddElement
    <3>3. Rank(S, k) = Cardinality(T) + 1
      BY <3>1, <3>2 DEF Rank
    <3> QED BY <2>3, <3>3 DEF Rank, T
  <2>4. CASE k \notin S
    <3>1. {x \in S : x <= k} = T
      <4>1. \A x \in S : x <= k <=> x <= k - 1
        BY <1>1, <1>6, <2>4
      <4> QED BY <4>1
    <3> QED BY <2>4, <3>1 DEF Rank
  <2> QED BY <2>3, <2>4
<1> QED BY <1>3, <1>4, <1>5, <1>6

\* There is an i-th position.
LEMMA NthIs ==
  ASSUME NEW n \in Nat, NEW S \in SUBSET (1 .. n), NEW i \in 1 .. Cardinality(S)
  PROVE  Nth(S, i) \in S /\ Rank(S, Nth(S, i)) = i
<1> DEFINE T == {k \in 0 .. n : Rank(S, k) >= i}
<1>1. Cardinality(S) \in Nat
  BY PositionsFinite
<1>2. n \in T
  BY <1>1, RankUp
<1>3. T \subseteq Nat /\ T # {}
  BY <1>2
<1>4. PICK k \in T : \A m \in T : ~(<<m, k>> \in OpToRel(<, Nat))
  BY <1>3, NatLessThanWellFounded, WFMin
<1>5. k \in 0 .. n /\ Rank(S, k) >= i
  OBVIOUS
<1>6. k # 0
  BY <1>5, RankUp
<1>7. k - 1 \in 0 .. n
  BY <1>5, <1>6
<1>8. k - 1 \notin T
  <2>1. <<k - 1, k>> \in OpToRel(<, Nat)
    BY <1>5, <1>6, <1>7 DEF OpToRel
  <2> QED BY <1>4, <2>1
<1>9. ~(Rank(S, k - 1) >= i) /\ Rank(S, k - 1) \in Nat /\ Rank(S, k) \in Nat
  BY <1>5, <1>7, <1>8, RankUp
<1>10. k \in S /\ Rank(S, k) = i
  <2>1. k \in 1 .. n
    BY <1>5, <1>6
  <2>2. Rank(S, k) = IF k \in S THEN Rank(S, k - 1) + 1 ELSE Rank(S, k - 1)
    BY <2>1, RankUp
  <2> QED BY <1>5, <1>9, <2>2
<1>11. \E m \in S : Rank(S, m) = i
  BY <1>10
<1> QED BY <1>11 DEF Nth, Rank

-----------------------------------------------------------------------------
\* The mempool

\* A queue within its limit, with no digest twice.
QueueOK(s) ==
  /\ s \in Seq(ToSet(s)) /\ Len(s) <= MaxDepth
  /\ \A i, k \in DOMAIN s : s[i].digest = s[k].digest => i = k

\* Some entries of such a queue are one too.
LEMMA RetainOK ==
  ASSUME NEW s, QueueOK(s), NEW keep \in SUBSET DOMAIN s
  PROVE  QueueOK(retain(s, keep))
<1>1. PICK n \in Nat : n = Len(s) /\ DOMAIN s = 1 .. n
  BY DEF QueueOK
<1>2. keep \in SUBSET (1 .. n)
  BY <1>1
<1>3. PICK m : m = Cardinality(keep)
  OBVIOUS
<1>4. m \in Nat /\ m <= n
  BY <1>2, <1>3, PositionsFinite
<1>5. PICK t : t = retain(s, keep)
  OBVIOUS
<1>6. t = [i \in 1 .. m |-> s[Nth(keep, i)]]
  BY <1>3, <1>5 DEF retain
<1>7. \A i \in 1 .. m : t[i] = s[Nth(keep, i)] /\ Nth(keep, i) \in DOMAIN s /\ Rank(keep, Nth(keep, i)) = i
  BY <1>2, <1>3, <1>6, NthIs
<1>8. DOMAIN t = 1 .. m /\ t \in [1 .. m -> ToSet(t)]
  BY <1>6 DEF ToSet
<1>9. t \in Seq(ToSet(t)) /\ Len(t) = m
  BY <1>4, <1>8, SeqDef
<1>10. Len(t) <= MaxDepth
  BY <1>1, <1>4, <1>9, LtpAssumption DEF QueueOK
<1>11. ASSUME NEW i \in DOMAIN t, NEW k \in DOMAIN t, t[i].digest = t[k].digest
       PROVE  i = k
  <2>1. Nth(keep, i) = Nth(keep, k)
    BY <1>7, <1>8, <1>11 DEF QueueOK
  <2> QED BY <1>7, <1>8, <2>1
<1> QED BY <1>5, <1>9, <1>10, <1>11 DEF QueueOK

\* A mempool file, or a copy of it.
SnapshotOK(m) == m = [q \in Queues |-> m[q]] /\ \A q \in Queues : QueueOK(m[q])

\* Replacing one queue.
LEMMA QueueReplaced ==
  ASSUME NEW m, SnapshotOK(m), NEW queue \in Queues, NEW s, QueueOK(s),
         NEW new, new = [m EXCEPT ![queue] = s]
  PROVE  SnapshotOK(new)
<1>1. new = [q \in Queues |-> new[q]] /\ \A q \in Queues : new[q] = IF q = queue THEN s ELSE m[q]
  BY DEF SnapshotOK
<1> QED BY <1>1 DEF SnapshotOK

\* No operation on a mempool breaks its limits.
LEMMA MempoolOpOK ==
  ASSUME NEW m, SnapshotOK(m), NEW j \in LtpJobs, j.kind \in MempoolKinds
  PROVE  MempoolOp(m, j) = None \/ SnapshotOK(MempoolOp(m, j))
<1>1. CASE j.kind = "enqueue"
  <2>1. j.queue \in Queues
    BY <1>1, LtpAssumption
  <2>2. PICK s : s = m[j.queue]
    OBVIOUS
  <2>3. QueueOK(s)
    BY <2>1, <2>2 DEF SnapshotOK
  <2>4. MempoolOp(m, j) = enqueue(m, j)
    BY <1>1 DEF MempoolOp
  <2>5. CASE HasDigest(s, j.root) \/ Len(s) >= MaxDepth
    BY <2>2, <2>4, <2>5 DEF enqueue
  <2>6. CASE ~HasDigest(s, j.root) /\ ~(Len(s) >= MaxDepth)
    <3>1. PICK e : e = MempoolEntry(j)
      OBVIOUS
    <3>2. enqueue(m, j) = [m EXCEPT ![j.queue] = Append(s, e)]
      BY <2>2, <2>6, <3>1 DEF enqueue
    <3>3. e.digest = j.root
      BY <3>1 DEF MempoolEntry
    <3>4. PICK S : S = ToSet(s) \cup {e}
      OBVIOUS
    <3>5. s \in Seq(S) /\ e \in S
      BY <2>3, <3>4 DEF QueueOK
    <3>6. PICK t : t = Append(s, e)
      OBVIOUS
    <3>7. /\ t \in Seq(S) /\ Len(s) \in Nat /\ Len(t) = Len(s) + 1 /\ t[Len(s) + 1] = e
          /\ \A k \in 1 .. Len(s) : t[k] = s[k]
      BY <3>5, <3>6
    <3>8. t \in Seq(ToSet(t)) /\ DOMAIN t = 1 .. Len(t) /\ DOMAIN s = 1 .. Len(s)
      BY <3>5, <3>7 DEF ToSet
    <3>9. Len(t) <= MaxDepth
      BY <2>6, <3>7, LtpAssumption
    <3>10. \A k \in 1 .. Len(s) : t[k].digest # e.digest
      BY <2>6, <3>3, <3>7, <3>8 DEF HasDigest
    <3>11. ASSUME NEW i \in DOMAIN t, NEW k \in DOMAIN t, t[i].digest = t[k].digest
           PROVE  i = k
      <4>1. CASE i \in 1 .. Len(s) /\ k \in 1 .. Len(s)
        BY <2>3, <3>7, <3>8, <3>11, <4>1 DEF QueueOK
      <4>2. CASE i = Len(s) + 1 \/ k = Len(s) + 1
        BY <3>7, <3>8, <3>10, <3>11, <4>2
      <4> QED BY <3>7, <3>8, <4>1, <4>2
    <3>12. QueueOK(t)
      BY <3>8, <3>9, <3>11 DEF QueueOK
    <3>13. PICK new : new = MempoolOp(m, j) /\ new = [m EXCEPT ![j.queue] = t]
      BY <2>4, <3>2, <3>6
    <3> QED BY <2>1, <3>12, <3>13, QueueReplaced
  <2> QED BY <2>5, <2>6
<1>2. CASE j.kind = "drain"
  <2>1. j.queue \in Queues
    BY <1>2, LtpAssumption
  <2>2. PICK s : s = m[j.queue]
    OBVIOUS
  <2>3. QueueOK(s)
    BY <2>1, <2>2 DEF SnapshotOK
  <2>4. PICK keep \in SUBSET DOMAIN s : keep = {k \in DOMAIN s : k > j.max}
    OBVIOUS
  <2>5. MempoolOp(m, j) = [m EXCEPT ![j.queue] = retain(s, keep)]
    BY <1>2, <2>2, <2>4 DEF MempoolOp, drain
  <2>6. PICK t : t = retain(s, keep) /\ QueueOK(t)
    BY <2>3, RetainOK
  <2>7. PICK new : new = MempoolOp(m, j) /\ new = [m EXCEPT ![j.queue] = t]
    BY <2>5, <2>6
  <2> QED BY <2>1, <2>6, <2>7, QueueReplaced
<1>3. CASE j.kind = "prune"
  <2>1. PICK cutoff : cutoff = IF clock > Ttl THEN clock - Ttl ELSE 0
    OBVIOUS
  <2>2. PICK pruned : pruned =
          [q \in Queues |-> retain(m[q], {k \in DOMAIN m[q] : m[q][k].enqueued_at >= cutoff})]
    OBVIOUS
  <2>3. MempoolOp(m, j) = pruned
    BY <1>3, <2>1, <2>2 DEF MempoolOp, prune_expired
  <2>4. ASSUME NEW q \in Queues
        PROVE  QueueOK(pruned[q])
    <3>1. PICK keep \in SUBSET DOMAIN m[q] : keep = {k \in DOMAIN m[q] : m[q][k].enqueued_at >= cutoff}
      OBVIOUS
    <3>2. pruned[q] = retain(m[q], keep)
      BY <2>2, <3>1
    <3>3. QueueOK(m[q])
      BY DEF SnapshotOK
    <3> QED BY <3>2, <3>3, RetainOK
  <2>5. pruned = [q \in Queues |-> pruned[q]]
    BY <2>2
  <2> QED BY <2>3, <2>4, <2>5 DEF SnapshotOK
<1>4. CASE j.kind = "remove"
  <2>1. j.queue \in Queues
    BY <1>4, LtpAssumption
  <2>2. PICK s : s = m[j.queue]
    OBVIOUS
  <2>3. QueueOK(s)
    BY <2>1, <2>2 DEF SnapshotOK
  <2>4. \/ MempoolOp(m, j) = m
        \/ \E keep \in SUBSET DOMAIN s : MempoolOp(m, j) = [m EXCEPT ![j.queue] = retain(s, keep)]
    BY <1>4, <2>2 DEF MempoolOp, remove_start_digest
  <2>5. ASSUME NEW keep \in SUBSET DOMAIN s, MempoolOp(m, j) = [m EXCEPT ![j.queue] = retain(s, keep)]
        PROVE  SnapshotOK(MempoolOp(m, j))
    <3>1. PICK t : t = retain(s, keep) /\ QueueOK(t)
      BY <2>3, RetainOK
    <3>2. PICK new : new = MempoolOp(m, j) /\ new = [m EXCEPT ![j.queue] = t]
      BY <2>5, <3>1
    <3> QED BY <2>1, <3>1, <3>2, QueueReplaced
  <2> QED BY <2>4, <2>5
<1> QED BY <1>1, <1>2, <1>3, <1>4 DEF MempoolKinds

-----------------------------------------------------------------------------
\* What a process is doing, and how a step changes it

Gossiping == {"open", "new key", "subscribe", "broadcast", "listening", "lock", "record", "line end"}
Changing == {"mempool", "save", "writing", "rename"}

PeerOf(c) ==
  \/ c = Resting
  \/ c = [at |-> c.at, job |-> c.job, frame |-> c.frame] /\ c.at \in Gossiping
  \/ c = [at |-> c.at, job |-> c.job, snapshot |-> c.snapshot] /\ c.at \in Changing

PeerOK == peer = [p \in Procs |-> peer[p]] /\ \A p \in Procs : PeerOf(peer[p])

Apart(p) == \A q \in Procs \ {p} : peer'[q] = peer[q]

\* Move, within a command of either kind
LEMMA MoveEffect ==
  ASSUME PeerOK, NEW p \in Procs, NEW at, Move(p, at),
         (peer[p].at \in Gossiping /\ at \in Gossiping) \/ (peer[p].at \in Changing /\ at \in Changing)
  PROVE  /\ PeerOK' /\ Apart(p) /\ peer'[p].at = at /\ peer'[p].job = peer[p].job
         /\ (at \in Gossiping => peer'[p].frame = peer[p].frame)
         /\ (at \in Changing => peer'[p].snapshot = peer[p].snapshot)
<1>1. peer' = [peer EXCEPT ![p].at = at] /\ peer = [q \in Procs |-> peer[q]]
  BY DEF Move, PeerOK
<1>2. peer' = [q \in Procs |-> peer'[q]] /\ Apart(p) /\ peer'[p] = [peer[p] EXCEPT !.at = at]
  BY <1>1 DEF Apart
<1>3. PICK c, d : c = peer[p] /\ d = peer'[p]
  OBVIOUS
<1>4. PeerOf(c) /\ d = [c EXCEPT !.at = at]
  BY <1>2, <1>3 DEF PeerOK
<1>5. ASSUME c.at \in Gossiping, at \in Gossiping
      PROVE  PeerOf(d) /\ d.at = at /\ d.job = c.job /\ d.frame = c.frame
  <2>1. c = [at |-> c.at, job |-> c.job, frame |-> c.frame]
    <3>1. c.at # "idle" /\ c.at \notin Changing
      BY <1>5 DEF Gossiping, Changing
    <3>2. c # Resting
      BY <3>1 DEF Resting
    <3> QED BY <1>4, <3>1, <3>2 DEF PeerOf
  <2> QED BY <1>4, <1>5, <2>1 DEF PeerOf
<1>6. ASSUME c.at \in Changing, at \in Changing
      PROVE  PeerOf(d) /\ d.at = at /\ d.job = c.job /\ d.snapshot = c.snapshot
  <2>1. c = [at |-> c.at, job |-> c.job, snapshot |-> c.snapshot]
    <3>1. c.at # "idle" /\ c.at \notin Gossiping
      BY <1>6 DEF Gossiping, Changing
    <3>2. c # Resting
      BY <3>1 DEF Resting
    <3> QED BY <1>4, <3>1, <3>2 DEF PeerOf
  <2> QED BY <1>4, <1>6, <2>1 DEF PeerOf
<1>7. Gossiping \cap Changing = {}
  BY DEF Gossiping, Changing
<1>8. PeerOf(d)
  BY <1>3, <1>5, <1>6
<1>9. PeerOK'
  BY <1>2, <1>3, <1>8 DEF PeerOK, Apart
<1> QED BY <1>2, <1>3, <1>5, <1>6, <1>7, <1>9

\* Rest
LEMMA RestEffect ==
  ASSUME PeerOK, NEW p \in Procs, Rest(p)
  PROVE  PeerOK' /\ Apart(p) /\ peer'[p] = Resting /\ peer'[p].at = "idle"
BY DEF PeerOK, PeerOf, Rest, Apart, Resting

\* A step starts a command of lord-ltp, is one of its steps, ends it, or
\* touches none of its files.
LEMMA LtpCases ==
  ASSUME [DirNext]_dirVars
  PROVE  \/ \E p \in Procs, j \in LtpJobs : LtpStart(p, j)
         \/ \E p \in Procs : LtpStep(p)
         \/ \E p \in Procs : LtpStop(p)
         \/ UNCHANGED <<mempool, mempoolTmp, staging, locks, peer, torn, raced>>
BY DEF DirNext, dirVars, ltpVars, Begin, BeginLtp, KillLtp, Tick

\* A command of lord-ltp starts.
LEMMA LtpStartEffect ==
  ASSUME PeerOK, NEW p \in Procs, NEW j \in LtpJobs, LtpStart(p, j)
  PROVE  /\ PeerOK' /\ Apart(p)
         /\ \/ peer'[p].at = "open" \/ peer'[p].at = "idle"
            \/ /\ peer'[p].at = "mempool" /\ peer'[p].job = j /\ j.kind \in MempoolKinds
               /\ peer'[p].snapshot = IF mempool = None THEN EmptySnapshot ELSE mempool.snapshot
<1>1. CASE j.kind \in {"serve", "publish"}
  <2>1. peer' = [peer EXCEPT ![p] = [at |-> "open", job |-> j, frame |-> None]]
    BY <1>1 DEF LtpStart
  <2>2. Apart(p) /\ peer' = [q \in Procs |-> peer'[q]] /\ peer'[p] = [at |-> "open", job |-> j, frame |-> None]
    BY <2>1 DEF PeerOK, Apart
  <2>3. PeerOf(peer'[p]) /\ peer'[p].at = "open"
    BY <2>2 DEF PeerOf, Gossiping
  <2> QED BY <2>2, <2>3 DEF PeerOK, Apart
<1>2. CASE j.kind \notin {"serve", "publish"} /\ mempool # None /\ mempool.holds # "snapshot"
  <2>1. Rest(p)
    BY <1>2 DEF LtpStart, Rest
  <2> QED BY <2>1, RestEffect
<1>3. CASE j.kind \notin {"serve", "publish"} /\ ~(mempool # None /\ mempool.holds # "snapshot")
  <2>1. PICK m : m = IF mempool = None THEN EmptySnapshot ELSE mempool.snapshot
    OBVIOUS
  <2>2. peer' = [peer EXCEPT ![p] = [at |-> "mempool", job |-> j, snapshot |-> m]]
    BY <1>3, <2>1 DEF LtpStart
  <2>3. Apart(p) /\ peer' = [q \in Procs |-> peer'[q]] /\ peer'[p] = [at |-> "mempool", job |-> j, snapshot |-> m]
    BY <2>2 DEF PeerOK, Apart
  <2>4. PeerOf(peer'[p]) /\ peer'[p].at = "mempool" /\ peer'[p].job = j /\ peer'[p].snapshot = m
    BY <2>3 DEF PeerOf, Changing
  <2>5. j.kind \in MempoolKinds
    BY <1>3, LtpAssumption
  <2> QED BY <2>1, <2>3, <2>4, <2>5 DEF PeerOK, Apart
<1> QED BY <1>1, <1>3, <1>2

\* A process changes the mempool, or has written it.
LEMMA ChangeEffect ==
  ASSUME PeerOK, NEW p \in Procs, ChangeMempool(p)
  PROVE  /\ PeerOK' /\ Apart(p) /\ peer[p].at = "mempool"
         /\ \/ peer'[p].at = "idle"
            \/ /\ peer'[p].at = "save"
               /\ peer'[p].snapshot = MempoolOp(peer[p].snapshot, peer[p].job)
               /\ MempoolOp(peer[p].snapshot, peer[p].job) # None
<1>1. peer[p].at = "mempool"
  BY DEF ChangeMempool, Is
<1>2. CASE Rest(p)
  BY <1>1, <1>2, RestEffect
<1>3. CASE ~Rest(p)
  <2>1. PICK m : m = MempoolOp(peer[p].snapshot, peer[p].job)
    OBVIOUS
  <2>2. m # None /\ peer' = [peer EXCEPT ![p].snapshot = m, ![p].at = "save"]
    BY <1>3, <2>1 DEF ChangeMempool
  <2>3. PICK c : c = peer[p]
    OBVIOUS
  <2>4. c = [at |-> c.at, job |-> c.job, snapshot |-> c.snapshot]
    <3>1. c.at = "mempool" /\ c.at \notin Gossiping /\ PeerOf(c)
      BY <1>1, <2>3 DEF PeerOK, Gossiping
    <3>2. c # Resting
      BY <3>1 DEF Resting
    <3> QED BY <3>1, <3>2 DEF PeerOf
  <2>5. /\ Apart(p) /\ peer' = [q \in Procs |-> peer'[q]]
        /\ peer'[p] = [at |-> "save", job |-> c.job, snapshot |-> m]
    BY <2>2, <2>3, <2>4 DEF PeerOK, Apart
  <2>6. PeerOf(peer'[p]) /\ peer'[p].at = "save" /\ peer'[p].snapshot = m
    BY <2>5 DEF PeerOf, Changing
  <2> QED BY <1>1, <2>1, <2>2, <2>5, <2>6 DEF PeerOK, Apart
<1> QED BY <1>2, <1>3

\* A frame is taken, to be appended.
LEMMA TakeEffect ==
  ASSUME PeerOK, NEW p \in Procs, peer[p].at = "listening" \/ peer[p].at = "line end", NEW f,
         NEW at \in {"lock", "listening"}, peer' = [peer EXCEPT ![p].frame = f, ![p].at = at]
  PROVE  PeerOK' /\ Apart(p) /\ peer'[p].at = at /\ peer'[p].frame = f
<1>1. PICK c : c = peer[p]
  OBVIOUS
<1>2. c = [at |-> c.at, job |-> c.job, frame |-> c.frame]
  <2>1. c.at # "idle" /\ c.at \notin Changing /\ PeerOf(c)
    BY <1>1 DEF PeerOK, Changing
  <2>2. c # Resting
    <3>1. Resting.at = "idle"
      BY DEF Resting
    <3> QED BY <2>1, <3>1
  <2> QED BY <2>1, <2>2 DEF PeerOf
<1>3. /\ Apart(p) /\ peer' = [q \in Procs |-> peer'[q]]
      /\ peer'[p] = [at |-> at, job |-> c.job, frame |-> f]
  BY <1>1, <1>2 DEF PeerOK, Apart
<1>4. PeerOf(peer'[p]) /\ peer'[p].at = at /\ peer'[p].frame = f
  BY <1>3 DEF PeerOf, Gossiping
<1> QED BY <1>3, <1>4 DEF PeerOK, Apart

\* The other steps of the gossip node, outside of a line.
LEMMA NodeEffect ==
  ASSUME PeerOK, NEW p \in Procs,
         \/ load_or_create_secret_key(p) \/ write_secret_key(p) \/ Publish(p) \/ subscribe_tails(p)
         \/ \E f \in PeerFrames \cup sent : handle_inbound_message(p, f)
  PROVE  /\ PeerOK' /\ Apart(p) /\ peer[p].at \in {"open", "new key", "broadcast", "subscribe", "listening"}
         /\ \/ peer'[p].at \in {"idle", "new key", "subscribe", "broadcast", "listening"}
            \/ peer'[p].at = "lock" /\ accepts(peer'[p].frame)
         /\ UNCHANGED <<mempool, mempoolTmp, staging, locks, torn, raced, contracted>>
<1>1. /\ peer[p].at \in {"open", "new key", "broadcast", "subscribe", "listening"}
      /\ UNCHANGED <<mempool, mempoolTmp, staging, locks, torn, raced, contracted>>
  BY DEF load_or_create_secret_key, write_secret_key, Publish, subscribe_tails, handle_inbound_message, Is
<1>2. ASSUME NEW at \in {"new key", "subscribe", "broadcast", "listening"}, Move(p, at)
      PROVE  PeerOK' /\ Apart(p) /\ peer'[p].at = at
  <2>1. peer[p].at \in Gossiping /\ at \in Gossiping
    BY <1>1 DEF Gossiping
  <2> QED BY <1>2, <2>1, MoveEffect
<1>3. CASE load_or_create_secret_key(p) \/ write_secret_key(p) \/ subscribe_tails(p)
  <2>1. \E at \in {"new key", "subscribe", "broadcast", "listening"} : Move(p, at)
    BY <1>3 DEF load_or_create_secret_key, write_secret_key, subscribe_tails
  <2> QED BY <1>1, <1>2, <2>1
<1>4. CASE Publish(p)
  BY <1>1, <1>4, RestEffect DEF Publish
<1>5. CASE \E f \in PeerFrames \cup sent : handle_inbound_message(p, f)
  <2>1. PICK f : handle_inbound_message(p, f)
    BY <1>5
  <2>2. CASE accepts(f)
    <3>1. peer[p].at = "listening" /\ peer' = [peer EXCEPT ![p].frame = f, ![p].at = "lock"]
      BY <2>1, <2>2 DEF handle_inbound_message, Is
    <3>2. PeerOK' /\ Apart(p) /\ peer'[p].at = "lock" /\ peer'[p].frame = f
      BY <3>1, TakeEffect
    <3>3. accepts(peer'[p].frame)
      BY <2>2, <3>2
    <3> QED BY <1>1, <3>2, <3>3
  <2>3. CASE ~accepts(f)
    <3>1. peer' = peer /\ peer[p].at = "listening"
      BY <2>1, <2>3 DEF handle_inbound_message, Is
    <3> QED BY <1>1, <3>1 DEF PeerOK, Apart
  <2> QED BY <2>2, <2>3
<1> QED BY <1>3, <1>4, <1>5

\* A listener appends a record: the lock, the record, the line end.
LEMMA AppendEffect ==
  ASSUME PeerOK, NEW p \in Procs, lock_exclusive(p) \/ append_record(p) \/ append_line_end(p)
  PROVE  /\ PeerOK' /\ Apart(p) /\ UNCHANGED <<mempool, mempoolTmp, torn, raced, contracted>>
         /\ \/ peer[p].at = "lock" /\ peer'[p].at = "record" /\ peer'[p].frame = peer[p].frame
            \/ peer[p].at = "record" /\ peer'[p].at = "line end" /\ peer'[p].frame = peer[p].frame
            \/ peer[p].at = "line end" /\ peer'[p].at = "listening"
<1>1. UNCHANGED <<mempool, mempoolTmp, torn, raced, contracted>>
  BY DEF lock_exclusive, append_record, append_line_end
<1>2. ASSUME NEW at \in Gossiping, peer[p].at \in Gossiping, Move(p, at)
      PROVE  PeerOK' /\ Apart(p) /\ peer'[p].at = at /\ peer'[p].frame = peer[p].frame
  BY <1>2, MoveEffect
<1>3. CASE lock_exclusive(p)
  <2>1. peer[p].at = "lock" /\ Move(p, "record")
    BY <1>3 DEF lock_exclusive, Is
  <2>2. "record" \in Gossiping /\ peer[p].at \in Gossiping
    BY <2>1 DEF Gossiping
  <2> QED BY <1>1, <1>2, <2>1, <2>2
<1>4. CASE append_record(p)
  <2>1. peer[p].at = "record" /\ Move(p, "line end")
    BY <1>4 DEF append_record, Is
  <2>2. "line end" \in Gossiping /\ peer[p].at \in Gossiping
    BY <2>1 DEF Gossiping
  <2> QED BY <1>1, <1>2, <2>1, <2>2
<1>5. CASE append_line_end(p)
  <2>1. peer[p].at = "line end" /\ peer' = [peer EXCEPT ![p].frame = None, ![p].at = "listening"]
    BY <1>5 DEF append_line_end, Is
  <2> QED BY <1>1, <2>1, TakeEffect
<1> QED BY <1>3, <1>4, <1>5

-----------------------------------------------------------------------------
\* The mempool file keeps its limits

FileOrNone(m) == m = None \/ SnapshotOK(m.snapshot)

MempoolOf(p) ==
  /\ (peer[p].at \in {"mempool", "save", "writing"} => SnapshotOK(peer[p].snapshot))
  /\ (peer[p].at = "mempool" => peer[p].job \in LtpJobs /\ peer[p].job.kind \in MempoolKinds)

\* While no two processes save at once the mempool file is a snapshot nobody
\* has open, and the temporary file is that of the process that saves.
Writing == {"writing", "rename"}
Calm ==
  /\ \A p, q \in Procs : peer[p].at \in Writing /\ peer[q].at \in Writing => p = q
  /\ mempool # None => mempool.by = {} /\ mempool.holds = "snapshot"
  /\ mempoolTmp # None =>
       /\ \A q \in mempoolTmp.by : q \in Procs /\ peer[q].at = "writing"
       /\ \A p \in Procs :
            /\ (peer[p].at = "writing" =>
                  mempoolTmp.holds = "nothing" /\ mempoolTmp.last = p /\ p \in mempoolTmp.by)
            /\ (peer[p].at = "rename" => mempoolTmp.holds = "snapshot")

MempoolInv ==
  /\ PeerOK /\ FileOrNone(mempool) /\ FileOrNone(mempoolTmp)
  /\ \A p \in Procs : MempoolOf(p)
  /\ ~raced => Calm

\* What a write makes of a file.
LEMMA WrittenIs ==
  ASSUME NEW f, NEW p, NEW h, NEW s
  PROVE  /\ f = None => Written(f, p, h, s) = None
         /\ f # None /\ p \notin f.by => Written(f, p, h, s) = f
         /\ f # None /\ p \in f.by =>
              Written(f, p, h, s) = [holds |-> h, snapshot |-> s, by |-> f.by \ {p}, last |-> f.last]
BY DEF Written

\* It is one of the snapshots.
LEMMA WrittenOK ==
  ASSUME NEW f, FileOrNone(f), NEW p, NEW h, NEW s, f # None => SnapshotOK(s)
  PROVE  FileOrNone(Written(f, p, h, s))
<1>1. CASE f = None \/ p \notin f.by
  BY <1>1, WrittenIs
<1>2. CASE f # None /\ p \in f.by
  <2>1. PICK g : g = Written(f, p, h, s) /\ g.snapshot = s
    BY <1>2, WrittenIs
  <2> QED BY <1>2, <2>1 DEF FileOrNone
<1> QED BY <1>1, <1>2

\* An empty mempool is within its limits.
LEMMA EmptyOK == SnapshotOK(EmptySnapshot)
<1>1. QueueOK(<<>>)
  <2>1. <<>> \in Seq(ToSet(<<>>)) /\ Len(<<>>) = 0 /\ DOMAIN <<>> = {}
    OBVIOUS
  <2> QED BY <2>1, LtpAssumption DEF QueueOK
<1>2. PICK e : e = <<>> /\ QueueOK(e)
  BY <1>1
<1>3. EmptySnapshot = [q \in Queues |-> e]
  BY <1>2 DEF EmptySnapshot
<1> QED BY <1>2, <1>3 DEF SnapshotOK

\* What the other processes hold is not touched.
LEMMA MempoolKept ==
  ASSUME MempoolInv, PeerOK', NEW p \in Procs, Apart(p), MempoolOf(p)',
         FileOrNone(mempool'), FileOrNone(mempoolTmp'), ~raced' => Calm'
  PROVE  MempoolInv'
<1>1. ASSUME NEW q \in Procs \ {p}
      PROVE  MempoolOf(q)'
  <2>1. peer'[q] = peer[q] /\ MempoolOf(q)
    BY DEF Apart, MempoolInv
  <2> QED BY <2>1 DEF MempoolOf
<1> QED BY <1>1 DEF MempoolInv

\* A step that is not part of a save.
LEMMA CalmKept ==
  ASSUME MempoolInv, NEW p \in Procs, Apart(p), UNCHANGED <<mempool, mempoolTmp, raced>>,
         peer[p].at \notin Writing, peer'[p].at \notin Writing, ~raced'
  PROVE  Calm'
<1>1. Calm
  BY DEF MempoolInv
<1>2. \A q \in Procs \ {p} : peer'[q] = peer[q]
  BY DEF Apart
<1>3. mempoolTmp # None => p \notin mempoolTmp.by
  BY <1>1 DEF Calm, Writing
<1>4. \A q \in Procs : peer'[q].at \in Writing => q # p /\ peer[q].at = peer'[q].at
  BY <1>2
<1>5. mempoolTmp # None => \A q \in mempoolTmp.by : q \in Procs /\ peer'[q].at = "writing"
  BY <1>1, <1>2, <1>3 DEF Calm
<1> QED BY <1>1, <1>4, <1>5 DEF Calm, Writing

\* The mempool, in every reachable state.
LEMMA MempoolInvariant == DirSpec => []MempoolInv
<1>1. DirInit => MempoolInv
  <2> SUFFICES ASSUME DirInit
               PROVE  MempoolInv
    OBVIOUS
  <2>1. mempool = None /\ mempoolTmp = None /\ peer = [p \in Procs |-> Resting]
    BY DEF DirInit, LtpInit
  <2>2. \A p \in Procs : peer[p] = Resting /\ peer[p].at = "idle"
    BY <2>1 DEF Resting
  <2>3. PeerOK
    BY <2>1, <2>2 DEF PeerOK, PeerOf
  <2>4. Calm
    BY <2>1, <2>2 DEF Calm, Writing
  <2> QED BY <2>1, <2>2, <2>3, <2>4 DEF MempoolInv, MempoolOf, FileOrNone
<1>2. ASSUME MempoolInv, [DirNext]_dirVars
      PROVE  MempoolInv'
  <2>1. PeerOK /\ FileOrNone(mempool) /\ FileOrNone(mempoolTmp)
    BY <1>2 DEF MempoolInv
  <2>2. ASSUME NEW p \in Procs, PeerOK', Apart(p), peer[p].at \notin Writing,
               peer'[p].at \notin {"mempool", "save"} \cup Writing, UNCHANGED <<mempool, mempoolTmp, raced>>
        PROVE  MempoolInv'
    <3>1. MempoolOf(p)'
      BY <2>2 DEF MempoolOf, Writing
    <3> QED BY <1>2, <2>1, <2>2, <3>1, MempoolKept, CalmKept
  <2>3. ASSUME NEW p \in Procs, NEW j \in LtpJobs, LtpStart(p, j)
        PROVE  MempoolInv'
    <3>1. UNCHANGED <<mempool, mempoolTmp, raced>> /\ peer[p].at = "idle"
      BY <2>3 DEF LtpStart, Is
    <3>2. PeerOK' /\ Apart(p) /\ peer'[p].at \in {"open", "idle", "mempool"}
      BY <2>1, <2>3, LtpStartEffect
    <3>3. MempoolOf(p)'
      <4>1. CASE peer'[p].at \in {"open", "idle"}
        BY <4>1 DEF MempoolOf
      <4>2. CASE /\ peer'[p].at = "mempool" /\ peer'[p].job = j /\ j.kind \in MempoolKinds
                 /\ peer'[p].snapshot = IF mempool = None THEN EmptySnapshot ELSE mempool.snapshot
        <5>1. SnapshotOK(peer'[p].snapshot)
          BY <2>1, <4>2, EmptyOK DEF FileOrNone
        <5> QED BY <2>3, <4>2, <5>1 DEF MempoolOf
      <4> QED BY <2>1, <2>3, <4>1, <4>2, LtpStartEffect
    <3>4. ~raced' => Calm'
      BY <1>2, <3>1, <3>2, CalmKept DEF Writing
    <3> QED BY <1>2, <2>1, <3>1, <3>2, <3>3, <3>4, MempoolKept
  <2>4. ASSUME NEW p \in Procs, ChangeMempool(p)
        PROVE  MempoolInv'
    <3>1. UNCHANGED <<mempool, mempoolTmp, raced>>
      BY <2>4 DEF ChangeMempool
    <3>2. PeerOK' /\ Apart(p) /\ peer[p].at = "mempool"
      BY <2>1, <2>4, ChangeEffect
    <3>3. SnapshotOK(peer[p].snapshot) /\ peer[p].job \in LtpJobs /\ peer[p].job.kind \in MempoolKinds
      BY <1>2, <3>2 DEF MempoolInv, MempoolOf
    <3>4. PICK m : m = MempoolOp(peer[p].snapshot, peer[p].job) /\ (m = None \/ SnapshotOK(m))
      BY <3>3, MempoolOpOK
    <3>5. peer'[p].at = "idle" \/ (peer'[p].at = "save" /\ peer'[p].snapshot = m /\ m # None)
      BY <2>1, <2>4, <3>4, ChangeEffect
    <3>6. MempoolOf(p)'
      BY <3>4, <3>5 DEF MempoolOf
    <3>7. ~raced' => Calm'
      BY <1>2, <3>1, <3>2, <3>5, CalmKept DEF Writing
    <3> QED BY <1>2, <2>1, <3>1, <3>2, <3>6, <3>7, MempoolKept
  <2>5. ASSUME NEW p \in Procs, SaveOpen(p)
        PROVE  MempoolInv'
    <3>1. /\ peer[p].at = "save" /\ mempool' = mempool /\ mempoolTmp' = Truncated(mempoolTmp, p)
          /\ raced' = (raced \/ Saving # {}) /\ Move(p, "writing")
      BY <2>5 DEF SaveOpen, Is
    <3>2. PeerOK' /\ Apart(p) /\ peer'[p].at = "writing" /\ peer'[p].snapshot = peer[p].snapshot
      <4>1. peer[p].at \in Changing /\ "writing" \in Changing
        BY <3>1 DEF Changing
      <4> QED BY <2>1, <3>1, <4>1, MoveEffect
    <3>3. MempoolOf(p)'
      BY <1>2, <3>1, <3>2 DEF MempoolOf, MempoolInv
    <3>4. PICK g : /\ mempoolTmp' = g /\ g.snapshot = EmptySnapshot /\ g.holds = "nothing" /\ g.last = p
                   /\ g.by = {p} \cup (IF mempoolTmp = None THEN {} ELSE mempoolTmp.by)
      BY <3>1 DEF Truncated
    <3>5. FileOrNone(mempoolTmp')
      BY <3>4, EmptyOK DEF FileOrNone
    <3>6. ASSUME ~raced'
          PROVE  Calm'
      <4>1. Calm /\ Saving = {}
        BY <1>2, <3>1, <3>6 DEF MempoolInv
      <4>2. \A q \in Procs : peer[q].at \notin Writing
        BY <4>1 DEF Saving, Is, Writing
      <4>3. g.by = {p}
        BY <3>4, <4>1, <4>2 DEF Calm, Writing
      <4>4. \A q \in Procs : peer'[q].at \in Writing => q = p
        BY <3>2, <4>2 DEF Apart
      <4> QED BY <3>1, <3>2, <3>4, <4>1, <4>3, <4>4 DEF Calm, Writing
    <3> QED BY <1>2, <2>1, <3>1, <3>2, <3>3, <3>5, <3>6, MempoolKept
  <2>6. ASSUME NEW p \in Procs, SaveWrite(p)
        PROVE  MempoolInv'
    <3>1. peer[p].at = "writing" /\ Move(p, "rename") /\ raced' = raced
      BY <2>6 DEF SaveWrite, Is
    <3>2. PICK h, k :
            /\ mempoolTmp' = Written(mempoolTmp, p, h, peer[p].snapshot)
            /\ mempool' = Written(mempool, p, k, peer[p].snapshot)
            /\ mempoolTmp.last = p /\ mempoolTmp.holds = "nothing" => h = "snapshot"
      BY <2>6 DEF SaveWrite
    <3>3. PeerOK' /\ Apart(p) /\ peer'[p].at = "rename"
      <4>1. peer[p].at \in Changing /\ "rename" \in Changing
        BY <3>1 DEF Changing
      <4> QED BY <2>1, <3>1, <4>1, MoveEffect
    <3>4. SnapshotOK(peer[p].snapshot)
      BY <1>2, <3>1 DEF MempoolInv, MempoolOf
    <3>5. FileOrNone(mempool') /\ FileOrNone(mempoolTmp')
      BY <2>1, <3>2, <3>4, WrittenOK
    <3>6. ASSUME ~raced'
          PROVE  Calm'
      <4>1. Calm
        BY <1>2, <3>1, <3>6 DEF MempoolInv
      <4>2. \A q \in Procs \ {p} : peer'[q].at = peer[q].at /\ peer[q].at \notin Writing
        BY <3>1, <3>3, <4>1 DEF Calm, Writing, Apart
      <4>3. mempool' = mempool
        BY <3>2, <4>1, WrittenIs DEF Calm
      <4>4. mempoolTmp = None => mempoolTmp' = None
        BY <3>2, WrittenIs
      <4>5. ASSUME mempoolTmp # None
            PROVE  mempoolTmp'.by = {} /\ mempoolTmp'.holds = "snapshot"
        <5>1. h = "snapshot" /\ p \in mempoolTmp.by /\ mempoolTmp.by \subseteq {p}
          BY <3>1, <3>2, <4>1, <4>2, <4>5 DEF Calm, Writing
        <5>2. mempoolTmp' = [holds |-> h, snapshot |-> peer[p].snapshot, by |-> mempoolTmp.by \ {p}, last |-> mempoolTmp.last]
          BY <3>2, <4>5, <5>1, WrittenIs
        <5> QED BY <5>1, <5>2
      <4> QED BY <3>3, <4>1, <4>2, <4>3, <4>4, <4>5 DEF Calm, Writing
    <3>7. MempoolOf(p)'
      BY <3>3 DEF MempoolOf
    <3> QED BY <1>2, <3>3, <3>5, <3>6, <3>7, MempoolKept
  <2>7. ASSUME NEW p \in Procs, SaveRename(p)
         PROVE  MempoolInv'
    <3>1. /\ peer[p].at = "rename" /\ Rest(p) /\ raced' = raced /\ mempoolTmp' = None
          /\ mempool' = IF mempoolTmp = None THEN mempool ELSE mempoolTmp
      BY <2>7 DEF SaveRename, Is
    <3>2. FileOrNone(mempool') /\ FileOrNone(mempoolTmp')
      BY <2>1, <3>1 DEF FileOrNone
    <3>3. PeerOK' /\ Apart(p) /\ peer'[p].at = "idle"
      BY <2>1, <3>1, RestEffect
    <3>4. MempoolOf(p)'
      BY <3>3 DEF MempoolOf
    <3>5. ASSUME ~raced'
          PROVE  Calm'
      <4>1. Calm
        BY <1>2, <3>1, <3>5 DEF MempoolInv
      <4>2. \A q \in Procs : peer[q].at # "writing" /\ peer'[q].at \notin Writing
        BY <3>1, <3>3, <4>1 DEF Calm, Writing, Apart
      <4>3. mempoolTmp # None => mempoolTmp.by = {} /\ mempoolTmp.holds = "snapshot"
        BY <3>1, <4>1, <4>2 DEF Calm
      <4> QED BY <3>1, <4>1, <4>2, <4>3 DEF Calm
    <3> QED BY <1>2, <3>2, <3>3, <3>4, <3>5, MempoolKept
  <2>8. ASSUME NEW p \in Procs, LtpStop(p)
        PROVE  MempoolInv'
    <3>1. PeerOK' /\ Apart(p) /\ peer'[p].at = "idle" /\ raced' = raced
      BY <2>1, <2>8, RestEffect DEF LtpStop
    <3>2. PICK h, k :
            /\ mempoolTmp' = Written(mempoolTmp, p, h, mempoolTmp.snapshot)
            /\ mempool' = Written(mempool, p, k, mempool.snapshot)
      BY <2>8 DEF LtpStop
    <3>3. FileOrNone(mempool') /\ FileOrNone(mempoolTmp')
      BY <2>1, <3>2, WrittenOK DEF FileOrNone
    <3>4. MempoolOf(p)'
      BY <3>1 DEF MempoolOf
    <3>5. ASSUME ~raced'
          PROVE  Calm'
      <4>1. Calm
        BY <1>2, <3>1, <3>5 DEF MempoolInv
      <4>2. mempool' = mempool
        BY <3>2, <4>1, WrittenIs DEF Calm
      <4>3. mempoolTmp = None => mempoolTmp' = None
        BY <3>2, WrittenIs
      <4>4. CASE peer[p].at \notin Writing
        <5>1. mempoolTmp # None => p \notin mempoolTmp.by
          BY <4>1, <4>4 DEF Calm, Writing
        <5>2. mempoolTmp' = mempoolTmp
          BY <3>2, <4>3, <5>1, WrittenIs
        <5> QED BY <1>2, <3>1, <3>5, <4>2, <4>4, <5>2, CalmKept DEF Writing
      <4>5. CASE peer[p].at \in Writing
        <5>1. \A q \in Procs : peer'[q].at \notin Writing
          BY <3>1, <4>1, <4>5 DEF Calm, Writing, Apart
        <5>2. mempoolTmp # None => mempoolTmp.by \subseteq {p}
          BY <4>1, <4>5 DEF Calm, Writing
        <5>3. mempoolTmp # None => mempoolTmp'.by = {}
          <6>1. CASE mempoolTmp # None /\ p \in mempoolTmp.by
            <7>1. mempoolTmp' = [holds |-> h, snapshot |-> mempoolTmp.snapshot, by |-> mempoolTmp.by \ {p}, last |-> mempoolTmp.last]
              BY <3>2, <6>1, WrittenIs
            <7> QED BY <5>2, <6>1, <7>1
          <6>2. CASE mempoolTmp # None /\ p \notin mempoolTmp.by
            BY <3>2, <5>2, <6>2, WrittenIs
          <6> QED BY <6>1, <6>2
        <5> QED BY <4>1, <4>2, <4>3, <5>1, <5>3 DEF Calm, Writing
      <4> QED BY <4>4, <4>5
    <3> QED BY <1>2, <3>1, <3>3, <3>4, <3>5, MempoolKept
  <2>9. ASSUME NEW p \in Procs, lock_exclusive(p) \/ append_record(p) \/ append_line_end(p)
        PROVE  MempoolInv'
    <3>1. /\ PeerOK' /\ Apart(p) /\ UNCHANGED <<mempool, mempoolTmp, raced>>
          /\ peer[p].at \notin Writing /\ peer'[p].at \notin {"mempool", "save"} \cup Writing
      BY <2>1, <2>9, AppendEffect DEF Writing
    <3> QED BY <2>2, <3>1
  <2>10. ASSUME NEW p \in Procs,
               \/ load_or_create_secret_key(p) \/ write_secret_key(p) \/ Publish(p) \/ subscribe_tails(p)
               \/ \E f \in PeerFrames \cup sent : handle_inbound_message(p, f)
        PROVE  MempoolInv'
    <3>1. /\ PeerOK' /\ Apart(p) /\ UNCHANGED <<mempool, mempoolTmp, raced>>
          /\ peer[p].at \notin Writing /\ peer'[p].at \notin {"mempool", "save"} \cup Writing
      BY <2>1, <2>10, NodeEffect DEF Writing
    <3> QED BY <2>2, <3>1
  <2>11. ASSUME UNCHANGED <<mempool, mempoolTmp, staging, locks, peer, torn, raced>>
         PROVE  MempoolInv'
    BY <1>2, <2>11 DEF MempoolInv, PeerOK, FileOrNone, MempoolOf, Calm
  <2>12. ASSUME NEW p \in Procs, LtpStep(p)
         PROVE  MempoolInv'
    BY <2>4, <2>5, <2>6, <2>8, <2>9, <2>10, <2>12, <2>7 DEF LtpStep, shutdown
  <2> QED BY <1>2, <2>3, <2>8, <2>11, <2>12, LtpCases
<1> QED BY <1>1, <1>2, PTL DEF DirSpec

-----------------------------------------------------------------------------
\* The staging files can be read

\* Every record is a frame of this chain.
LinesOK(s) ==
  /\ s \in Seq(ToSet(s))
  /\ \A k \in DOMAIN s : s[k] # NL => s[k][1].chain_id = chain_id(LtpChain)

\* The last line has its end, or a process is about to write it.
Ended(s) == Len(s) = 0 \/ s[Len(s)] = NL
LineOpen(t) == \E p \in Procs : peer[p].at = "line end" /\ StagingFile(p) = t

FileOK(t) ==
  /\ LinesOK(staging[t])
  /\ t \notin torn => Readable(staging[t]) /\ (Ended(staging[t]) \/ LineOpen(t))

\* A process inside of a line holds the lock of the file.
LineOf(p) ==
  /\ (peer[p].at \in {"lock", "record", "line end"} =>
        StagingFile(p) \in Staged /\ peer[p].frame.chain_id = chain_id(LtpChain))
  /\ (peer[p].at \in {"record", "line end"} => locks[StagingFile(p)] = p)

StagingInv ==
  /\ PeerOK
  /\ staging = [t \in Staged |-> staging[t]] /\ locks = [t \in Staged |-> locks[t]]
  /\ \A p \in Procs : LineOf(p)
  /\ \A t \in Staged : FileOK(t)

\* Something is appended to a file.
LEMMA LinesAppended ==
  ASSUME NEW s, LinesOK(s), NEW x, x # NL => x[1].chain_id = chain_id(LtpChain)
  PROVE  /\ LinesOK(Append(s, x))
         /\ Readable(s) /\ (x = NL \/ Ended(s)) => Readable(Append(s, x))
         /\ x = NL => Ended(Append(s, x))
<1>1. PICK S : S = ToSet(s) \cup {x}
  OBVIOUS
<1>2. s \in Seq(S) /\ x \in S
  BY <1>1 DEF LinesOK
<1>3. PICK t : t = Append(s, x)
  OBVIOUS
<1>4. PICK n : n = Len(s)
  OBVIOUS
<1>5. /\ t \in Seq(S) /\ n \in Nat /\ Len(t) = n + 1 /\ t[n + 1] = x
      /\ \A k \in 1 .. n : t[k] = s[k]
  BY <1>2, <1>3, <1>4
<1>6. t \in Seq(ToSet(t)) /\ DOMAIN t = 1 .. n + 1 /\ DOMAIN s = 1 .. n
  BY <1>2, <1>4, <1>5 DEF ToSet
<1>7. LinesOK(t)
  <2>1. ASSUME NEW k \in 1 .. n + 1, t[k] # NL
        PROVE  t[k][1].chain_id = chain_id(LtpChain)
    <3>1. CASE k \in 1 .. n
      BY <1>5, <1>6, <2>1, <3>1 DEF LinesOK
    <3>2. CASE k = n + 1
      BY <1>5, <2>1, <3>2
    <3> QED BY <1>5, <3>1, <3>2
  <2> QED BY <1>6, <2>1 DEF LinesOK
<1>8. ASSUME Readable(s), x = NL \/ Ended(s)
      PROVE  Readable(t)
  <2>1. ASSUME NEW k \in 1 .. n
        PROVE  t[k] = NL \/ t[k + 1] = NL
    <3>1. CASE k \in 1 .. n - 1
      BY <1>4, <1>5, <1>8, <3>1 DEF Readable
    <3>2. CASE k = n
      BY <1>4, <1>5, <1>8, <3>2 DEF Ended
    <3> QED BY <1>5, <3>1, <3>2
  <2>2. 1 .. Len(t) - 1 = 1 .. n
    BY <1>5
  <2> QED BY <2>1, <2>2 DEF Readable
<1>9. x = NL => Ended(t)
  BY <1>5 DEF Ended
<1> QED BY <1>3, <1>7, <1>8, <1>9

\* A step of one process, outside of a line before and after it.
LEMMA StagingKept ==
  ASSUME StagingInv, PeerOK', NEW p \in Procs, Apart(p), UNCHANGED <<staging, locks, torn>>,
         peer[p].at # "line end", peer'[p].at \notin {"record", "line end"},
         peer'[p].at = "lock" => accepts(peer'[p].frame)
  PROVE  StagingInv'
<1>1. LineOf(p)'
  BY DEF LineOf, accepts, StagingFile
<1>2. ASSUME NEW q \in Procs \ {p}
      PROVE  LineOf(q)'
  <2>1. peer'[q] = peer[q] /\ LineOf(q)
    BY DEF Apart, StagingInv
  <2> QED BY <2>1 DEF LineOf, StagingFile
<1>3. ASSUME NEW t \in Staged
      PROVE  FileOK(t)'
  <2>1. LineOpen(t) => LineOpen(t)'
    BY DEF LineOpen, Apart, StagingFile
  <2>2. FileOK(t)
    BY DEF StagingInv
  <2> QED BY <2>1, <2>2 DEF FileOK
<1>4. staging' = [t \in Staged |-> staging'[t]] /\ locks' = [t \in Staged |-> locks'[t]]
  BY DEF StagingInv
<1> QED BY <1>1, <1>2, <1>3, <1>4 DEF StagingInv

\* A process takes the lock of a file.
LEMMA StagingLock ==
  ASSUME StagingInv, NEW p \in Procs, lock_exclusive(p)
  PROVE  StagingInv'
<1>1. PeerOK' /\ Apart(p) /\ torn' = torn /\ peer[p].at = "lock" /\ peer'[p].at = "record" /\ peer'[p].frame = peer[p].frame
  <2>1. PeerOK /\ peer[p].at = "lock"
    BY DEF StagingInv, lock_exclusive, Is
  <2> QED BY <2>1, AppendEffect
<1>2. PICK t : t = StagingFile(p)
  OBVIOUS
<1>3. locks[t] = None /\ locks' = [locks EXCEPT ![t] = p] /\ staging' = staging
  BY <1>2 DEF lock_exclusive
<1>4. t \in Staged /\ peer[p].frame.chain_id = chain_id(LtpChain)
  BY <1>1, <1>2 DEF StagingInv, LineOf
<1>5. locks' = [x \in Staged |-> locks'[x]] /\ locks'[t] = p /\ \A x \in Staged \ {t} : locks'[x] = locks[x]
  BY <1>3, <1>4 DEF StagingInv
<1>6. LineOf(p)'
  BY <1>1, <1>2, <1>4, <1>5 DEF LineOf, StagingFile
<1>7. ASSUME NEW q \in Procs \ {p}
      PROVE  LineOf(q)'
  <2>1. peer'[q] = peer[q] /\ LineOf(q) /\ q # None
    BY <1>1, ProcessesAssumption DEF Apart, StagingInv
  <2>2. peer[q].at \in {"record", "line end"} => StagingFile(q) # t
    BY <1>3, <2>1 DEF LineOf
  <2> QED BY <1>5, <2>1, <2>2 DEF LineOf, StagingFile
<1>8. ASSUME NEW x \in Staged
      PROVE  FileOK(x)'
  <2>1. LineOpen(x) => LineOpen(x)'
    BY <1>1 DEF LineOpen, Apart, StagingFile
  <2>2. FileOK(x)
    BY DEF StagingInv
  <2> QED BY <1>1, <1>3, <2>1, <2>2 DEF FileOK
<1>9. staging' = [x \in Staged |-> staging'[x]]
  BY <1>3 DEF StagingInv
<1> QED BY <1>1, <1>5, <1>6, <1>7, <1>8, <1>9 DEF StagingInv

\* Nobody else is inside of a line of a file whose lock is taken.
LEMMA LineAlone ==
  ASSUME StagingInv, NEW p \in Procs, peer[p].at \in {"record", "line end"},
         NEW q \in Procs \ {p}, peer[q].at \in {"record", "line end"}
  PROVE  StagingFile(q) # StagingFile(p)
BY DEF StagingInv, LineOf

\* A process writes its record.
LEMMA StagingRecord ==
  ASSUME StagingInv, NEW p \in Procs, append_record(p)
  PROVE  StagingInv'
<1>1. /\ PeerOK' /\ Apart(p) /\ torn' = torn /\ peer[p].at = "record" /\ peer'[p].at = "line end"
      /\ peer'[p].frame = peer[p].frame
  <2>1. PeerOK /\ peer[p].at = "record"
    BY DEF StagingInv, append_record, Is
  <2> QED BY <2>1, AppendEffect
<1>2. PICK t, x : t = StagingFile(p) /\ x = <<peer[p].frame>>
  OBVIOUS
<1>3. staging' = [staging EXCEPT ![t] = Append(staging[t], x)] /\ locks' = locks
  BY <1>2 DEF append_record
<1>4. t \in Staged /\ x # NL /\ x[1].chain_id = chain_id(LtpChain)
  BY <1>1, <1>2 DEF StagingInv, LineOf, NL
<1>5. /\ staging' = [y \in Staged |-> staging'[y]] /\ staging'[t] = Append(staging[t], x)
      /\ \A y \in Staged \ {t} : staging'[y] = staging[y]
  BY <1>3, <1>4 DEF StagingInv
<1>6. LineOf(p)'
  BY <1>1, <1>3 DEF StagingInv, LineOf, StagingFile
<1>7. ASSUME NEW q \in Procs \ {p}
      PROVE  LineOf(q)'
  <2>1. peer'[q] = peer[q] /\ LineOf(q)
    BY <1>1 DEF Apart, StagingInv
  <2> QED BY <1>3, <2>1 DEF LineOf, StagingFile
<1>8. ASSUME NEW y \in Staged \ {t}
      PROVE  FileOK(y)'
  <2>1. LineOpen(y) => LineOpen(y)'
    BY <1>1 DEF LineOpen, Apart, StagingFile
  <2>2. FileOK(y)
    BY DEF StagingInv
  <2> QED BY <1>1, <1>5, <2>1, <2>2 DEF FileOK
<1>9. \A y : y = t => FileOK(y)'
  <2>1. FileOK(t)
    BY <1>4 DEF StagingInv
  <2>2. PICK s : s = staging[t]
    OBVIOUS
  <2>3. LinesOK(s) /\ (t \notin torn => Readable(s) /\ (Ended(s) \/ LineOpen(t)))
    BY <2>1, <2>2 DEF FileOK
  <2>4. ~LineOpen(t)
    BY <1>1, <1>2, LineAlone DEF LineOpen
  <2>5. LinesOK(Append(s, x)) /\ (Readable(s) /\ Ended(s) => Readable(Append(s, x)))
    BY <1>4, <2>3, LinesAppended
  <2>6. \A y : y = t => LineOpen(y)'
    BY <1>1, <1>2 DEF LineOpen, StagingFile
  <2> QED BY <1>1, <1>5, <2>2, <2>3, <2>4, <2>5, <2>6 DEF FileOK
<1>10. locks' = [y \in Staged |-> locks'[y]]
  BY <1>3 DEF StagingInv
<1> QED BY <1>1, <1>5, <1>6, <1>7, <1>8, <1>9, <1>10 DEF StagingInv

\* And its line end.
LEMMA StagingLineEnd ==
  ASSUME StagingInv, NEW p \in Procs, append_line_end(p)
  PROVE  StagingInv'
<1>1. PeerOK' /\ Apart(p) /\ torn' = torn /\ peer[p].at = "line end" /\ peer'[p].at = "listening"
  <2>1. PeerOK /\ peer[p].at = "line end"
    BY DEF StagingInv, append_line_end, Is
  <2> QED BY <2>1, AppendEffect
<1>2. PICK t : t = StagingFile(p)
  OBVIOUS
<1>3. /\ staging' = [staging EXCEPT ![t] = Append(staging[t], NL)]
      /\ locks' = [locks EXCEPT ![t] = IF locks[t] = p THEN None ELSE locks[t]]
  BY <1>2 DEF append_line_end
<1>4. t \in Staged
  BY <1>1, <1>2 DEF StagingInv, LineOf
<1>5. /\ staging' = [y \in Staged |-> staging'[y]] /\ staging'[t] = Append(staging[t], NL)
      /\ \A y \in Staged \ {t} : staging'[y] = staging[y]
  BY <1>3, <1>4 DEF StagingInv
<1>6. locks' = [y \in Staged |-> locks'[y]] /\ \A y \in Staged \ {t} : locks'[y] = locks[y]
  BY <1>3, <1>4 DEF StagingInv
<1>7. LineOf(p)'
  BY <1>1 DEF LineOf
<1>8. ASSUME NEW q \in Procs \ {p}
      PROVE  LineOf(q)'
  <2>1. peer'[q] = peer[q] /\ LineOf(q)
    BY <1>1 DEF Apart, StagingInv
  <2>2. peer[q].at \in {"record", "line end"} => StagingFile(q) # t
    BY <1>1, <1>2, LineAlone
  <2> QED BY <1>6, <2>1, <2>2 DEF LineOf, StagingFile
<1>9. ASSUME NEW y \in Staged \ {t}
      PROVE  FileOK(y)'
  <2>1. LineOpen(y) => LineOpen(y)'
    BY <1>1, <1>2 DEF LineOpen, Apart, StagingFile
  <2>2. FileOK(y)
    BY DEF StagingInv
  <2> QED BY <1>1, <1>5, <2>1, <2>2 DEF FileOK
<1>10. \A y : y = t => FileOK(y)'
  <2>1. FileOK(t)
    BY <1>4 DEF StagingInv
  <2>2. PICK s, x : s = staging[t] /\ x = NL
    OBVIOUS
  <2>3. LinesOK(s) /\ (t \notin torn => Readable(s))
    BY <2>1, <2>2 DEF FileOK
  <2>4. /\ LinesOK(Append(s, x)) /\ (Readable(s) => Readable(Append(s, x)))
        /\ Ended(Append(s, x))
    BY <2>2, <2>3, LinesAppended
  <2> QED BY <1>1, <1>5, <2>2, <2>3, <2>4 DEF FileOK
<1> QED BY <1>1, <1>5, <1>6, <1>7, <1>8, <1>9, <1>10 DEF StagingInv

\* A process is stopped, wherever it is.
LEMMA StagingStop ==
  ASSUME StagingInv, NEW p \in Procs, LtpStop(p)
  PROVE  StagingInv'
<1>1. PeerOK' /\ Apart(p) /\ peer'[p].at = "idle"
  BY RestEffect DEF LtpStop, StagingInv
<1>2. /\ staging' = staging /\ locks' = [t \in Staged |-> IF locks[t] = p THEN None ELSE locks[t]]
      /\ torn' = IF peer[p].at = "line end" THEN torn \cup {StagingFile(p)} ELSE torn
  BY DEF LtpStop, Is
<1>3. LineOf(p)'
  BY <1>1 DEF LineOf
<1>4. ASSUME NEW q \in Procs \ {p}
      PROVE  LineOf(q)'
  <2>1. peer'[q] = peer[q] /\ LineOf(q)
    BY <1>1 DEF Apart, StagingInv
  <2> QED BY <1>2, <2>1 DEF LineOf, StagingFile
<1>5. ASSUME NEW t \in Staged
      PROVE  FileOK(t)'
  <2>1. t \notin torn' => t \notin torn /\ (LineOpen(t) => LineOpen(t)')
    BY <1>1, <1>2 DEF LineOpen, Apart, StagingFile
  <2>2. FileOK(t)
    BY DEF StagingInv
  <2> QED BY <1>2, <2>1, <2>2 DEF FileOK
<1>6. staging' = [t \in Staged |-> staging'[t]] /\ locks' = [t \in Staged |-> locks'[t]]
  BY <1>2 DEF StagingInv
<1> QED BY <1>1, <1>3, <1>4, <1>5, <1>6 DEF StagingInv

\* The staging files, in every reachable state.
LEMMA StagingInvariant == DirSpec => []StagingInv
<1>1. DirInit => StagingInv
  <2> SUFFICES ASSUME DirInit
               PROVE  StagingInv
    OBVIOUS
  <2>1. /\ staging = [t \in Staged |-> <<>>] /\ locks = [t \in Staged |-> None]
        /\ peer = [p \in Procs |-> Resting]
    BY DEF DirInit, LtpInit
  <2>2. \A p \in Procs : peer[p] = Resting /\ peer[p].at = "idle"
    BY <2>1 DEF Resting
  <2>3. PeerOK /\ \A p \in Procs : LineOf(p)
    BY <2>1, <2>2 DEF PeerOK, PeerOf, LineOf
  <2>4. ASSUME NEW s, s = <<>>
        PROVE  LinesOK(s) /\ Readable(s) /\ Ended(s)
    <3>1. s \in Seq(ToSet(s)) /\ Len(s) = 0 /\ DOMAIN s = {}
      BY <2>4
    <3> QED BY <3>1 DEF LinesOK, Readable, Ended
  <2>5. \A t \in Staged : FileOK(t)
    BY <2>1, <2>4 DEF FileOK
  <2> QED BY <2>1, <2>3, <2>5 DEF StagingInv
<1>2. ASSUME StagingInv, [DirNext]_dirVars
      PROVE  StagingInv'
  <2>1. PeerOK
    BY <1>2 DEF StagingInv
  <2>2. ASSUME NEW p \in Procs, NEW j \in LtpJobs, LtpStart(p, j)
        PROVE  StagingInv'
    <3>1. peer[p].at = "idle" /\ UNCHANGED <<staging, locks, torn>>
      BY <2>2 DEF LtpStart, Is
    <3>2. PeerOK' /\ Apart(p) /\ peer'[p].at \in {"open", "idle", "mempool"}
      BY <2>1, <2>2, LtpStartEffect
    <3> QED BY <1>2, <3>1, <3>2, StagingKept
  <2>3. ASSUME NEW p \in Procs, ChangeMempool(p) \/ SaveOpen(p) \/ SaveWrite(p) \/ SaveRename(p)
        PROVE  StagingInv'
    <3>1. UNCHANGED <<staging, locks, torn>> /\ peer[p].at \in Changing
      BY <2>3 DEF ChangeMempool, SaveOpen, SaveWrite, SaveRename, Is, Changing
    <3>2. PeerOK' /\ Apart(p) /\ peer'[p].at \in {"idle", "save", "writing", "rename"}
      <4>1. CASE ChangeMempool(p)
        BY <2>1, <4>1, ChangeEffect
      <4>2. CASE SaveOpen(p) \/ SaveWrite(p)
        <5>1. \E at \in {"writing", "rename"} : Move(p, at) /\ at \in Changing
          BY <4>2 DEF SaveOpen, SaveWrite, Changing
        <5> QED BY <2>1, <3>1, <5>1, MoveEffect
      <4>3. CASE SaveRename(p)
        BY <2>1, <4>3, RestEffect DEF SaveRename
      <4> QED BY <2>3, <4>1, <4>2, <4>3
    <3>3. peer[p].at # "line end"
      BY <3>1 DEF Changing
    <3> QED BY <1>2, <3>1, <3>2, <3>3, StagingKept
  <2>4. ASSUME NEW p \in Procs,
               \/ load_or_create_secret_key(p) \/ write_secret_key(p) \/ Publish(p) \/ subscribe_tails(p)
               \/ \E f \in PeerFrames \cup sent : handle_inbound_message(p, f)
        PROVE  StagingInv'
    <3>1. /\ PeerOK' /\ Apart(p) /\ UNCHANGED <<staging, locks, torn, contracted>>
          /\ peer[p].at \in {"open", "new key", "broadcast", "subscribe", "listening"}
          /\ \/ peer'[p].at \in {"idle", "new key", "subscribe", "broadcast", "listening"}
             \/ peer'[p].at = "lock" /\ accepts(peer'[p].frame)
      BY <2>1, <2>4, NodeEffect
    <3>2. /\ peer[p].at # "line end" /\ peer'[p].at \notin {"record", "line end"}
          /\ peer'[p].at = "lock" => accepts(peer'[p].frame)
      BY <3>1
    <3> QED BY <1>2, <3>1, <3>2, StagingKept
  <2>5. ASSUME UNCHANGED <<mempool, mempoolTmp, staging, locks, peer, torn, raced>>
        PROVE  StagingInv'
    BY <1>2, <2>5 DEF StagingInv, PeerOK, LineOf, StagingFile, FileOK, LineOpen
  <2>6. ASSUME NEW p \in Procs, LtpStep(p)
        PROVE  StagingInv'
    BY <1>2, <2>3, <2>4, <2>6, StagingLock, StagingRecord, StagingLineEnd, StagingStop DEF LtpStep, shutdown
  <2> QED BY <1>2, <2>2, <2>5, <2>6, LtpCases, StagingStop
<1> QED BY <1>1, <1>2, PTL DEF DirSpec

\* A staging file no listener was killed in can be read and holds frames of
\* this chain only, however many listeners append to it; and the mempool file
\* is a snapshot unless two processes saved it at once, and keeps its limit and
\* no digest twice, whichever of them comes last.
THEOREM LtpFilesStaySound == DirSpec => []LtpFilesSound
<1>1. StagingInv /\ MempoolInv => LtpFilesSound
  <2> SUFFICES ASSUME StagingInv, MempoolInv
               PROVE  LtpFilesSound
    OBVIOUS
  <2>1. ASSUME NEW t \in Staged \ torn
        PROVE  /\ read_inbound(t).ok
               /\ \A frame \in read_inbound(t).records : frame.chain_id = chain_id(LtpChain)
    <3>1. LinesOK(staging[t]) /\ Readable(staging[t])
      BY DEF StagingInv, FileOK
    <3> QED BY <3>1 DEF read_inbound, LinesOK
  <2>2. ASSUME mempool # None, NEW q \in Queues
        PROVE  /\ Len(mempool.snapshot[q]) <= MaxDepth
               /\ \A i, k \in DOMAIN mempool.snapshot[q] :
                    mempool.snapshot[q][i].digest = mempool.snapshot[q][k].digest => i = k
    BY <2>2 DEF MempoolInv, FileOrNone, SnapshotOK, QueueOK
  <2>3. mempool # None => mempool.holds = "snapshot" \/ raced
    BY DEF MempoolInv, Calm
  <2> QED BY <2>1, <2>2, <2>3 DEF LtpFilesSound
<1> QED BY <1>1, StagingInvariant, MempoolInvariant, PTL
=============================================================================
