------------------------------ MODULE MCServer ------------------------------
(***************************************************************************)
(* Instances of Server and of DigestQueue for TLC.  The digest queue is    *)
(* the calendar worker's, which shares no lock with the requests: either   *)
(* the server's threads move or the queue's do.                            *)
(***************************************************************************)
EXTENDS Server, DigestQueue

VARIABLE part   \* what moves; never changes

allVars == <<part, vars, index_sats, queueVars>>

Serving == part \in {"requests", "shutdown"}

\* Either one Ctrl-C and two clients, the second with a request of one step, or two
\* and one client.
Considered ==
  LET others == Requests \ {CHOOSE r \in Requests : TRUE} IN
  /\ part = "requests" => pressed' <= 1 /\ \A r \in others : Len(requests'[r].steps) <= 1
  /\ part = "shutdown" => \A r \in others : requests'[r] = Idle

AllInit ==
  /\ part \in {"requests", "shutdown", "queue"}
  /\ Init /\ QueueInit
  /\ part = "queue" => index_sats

AllNext ==
  /\ \/ Serving /\ Next /\ Considered /\ UNCHANGED queueVars
     \/ part = "queue" /\ QueueNext /\ UNCHANGED <<vars, index_sats>>
  /\ UNCHANGED part

\* The fairness of FairSpec and of QueueFairSpec, each for its own part.
AllSpec ==
  /\ AllInit /\ [][AllNext]_allVars
  /\ WF_vars(Serving /\ MainStep) /\ WF_vars(Serving /\ HandlerStep)
  /\ WF_vars(Serving /\ IndexerStep) /\ SF_vars(Serving /\ IndexerLocks)
  /\ \A r \in Requests :
       /\ WF_vars(Serving /\ Call(r)) /\ WF_vars(Serving /\ Answer(r))
       /\ SF_vars(Serving /\ Read(r)) /\ SF_vars(Serving /\ Hold(r))
  /\ WF_queueVars(part = "queue" /\ \E prioritized \in BOOLEAN : Drain(prioritized))
  /\ WF_queueVars(part = "queue" /\ (Anchored \/ Restore))
=============================================================================
