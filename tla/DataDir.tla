------------------------------ MODULE DataDir -------------------------------
(***************************************************************************)
(* One data directory: commands of lord-storage (Filepack) and lord-ltp    *)
(* (Ltp) run by several processes at once, each at one command at a time.  *)
(***************************************************************************)
EXTENDS Filepack, Ltp

dirVars == <<packVars, ltpVars>>

DirInit == FilepackInit /\ LtpInit

Begin(p, j) == Is(p, "idle") /\ StartJob(p, j) /\ UNCHANGED ltpVars

BeginLtp(p, j) ==
  /\ At(p, "idle") /\ budget.jobs > 0
  /\ LtpStart(p, j)
  /\ budget' = [budget EXCEPT !.jobs = @ - 1]
  /\ UNCHANGED <<key, blobs, meta, published, tmp, proc, quiet, failed, spoiled>>

KillLtp(p) ==
  /\ budget.crashes > 0
  /\ LtpStop(p)
  /\ budget' = [budget EXCEPT !.crashes = @ - 1]
  /\ UNCHANGED <<key, blobs, meta, published, tmp, proc, quiet, failed, spoiled>>

DirNext ==
  \/ \E p \in Procs :
       \/ \E j \in Jobs : Begin(p, j)
       \/ \E j \in LtpJobs : BeginLtp(p, j)
       \/ FilepackStep(p) /\ UNCHANGED ltpVars
       \/ LtpStep(p) /\ UNCHANGED packVars
       \/ KillLtp(p)
  \/ Tick /\ UNCHANGED packVars

DirSpec == DirInit /\ [][DirNext]_dirVars
=============================================================================
