----------------------------- MODULE WorkflowRace -----------------------------
(***************************************************************************)
(* The approval engine with requests that overlap.  Fiber serves every     *)
(* request on its own goroutine and Engine.act reads the instance and task *)
(* rows with a plain SELECT (no UPDLOCK, no version check), so a request   *)
(* may write from rows another request has changed since.  A request is    *)
(* therefore two steps: what it loads before its first write, and its      *)
(* writes with the queries made among them, which SQL Server's write locks *)
(* order after the other request's commit.  The handler that submits a     *)
(* loading request reads its status before it writes it, too.              *)
(*                                                                         *)
(* A user has one request out at a time, as the busy flags of the pages    *)
(* see to: what overlaps here are the requests of different people.        *)
(***************************************************************************)
EXTENDS Workflow

VARIABLES
  req   (* what the request each user has out has in hand                  *)

raceVars == <<vars, req>>

Idle    == [op |-> "idle"]
Checked == [op |-> "submit"]
Acting  == [op : {"act"}, in : Instances, owner : Users]

(* act: load the instance, check it runs, resolve the actor's task.        *)
LoadForAct(u, w) ==
  /\ req[u] = Idle
  /\ Actable(inst, u, w)
  /\ req' = [req EXCEPT ![u] = [op |-> "act", in |-> inst, owner |-> w]]
  /\ UNCHANGED vars

(* act: the handler's writes, from the loaded row.                         *)
CommitAct(u) ==
  /\ req[u].op = "act"
  /\ Act(req[u].in, req[u].owner)
  /\ req' = [req EXCEPT ![u] = Idle]

(* submitGLRValidated reads the request and looks at its status; the other *)
(* submit handlers go straight on.                                         *)
CheckSubmittable(u) ==
  /\ req[u] = Idle
  /\ u \notin asking
  /\ SubmitGuarded => doc = "draft"
  /\ req' = [req EXCEPT ![u] = Checked]
  /\ UNCHANGED vars

(* submitDoc: the status is written, whatever it has become.               *)
MarkChecked(u) ==
  /\ req[u] = Checked
  /\ WriteSubmitted(u)
  /\ req' = [req EXCEPT ![u] = Idle]

Submission(u) == InitiateSubmitted(u) \/ SubmissionFails(u)

RaceInit == Init /\ req = [u \in Users |-> Idle]

RaceNext ==
  /\ \/ \E u, w \in Users : LoadForAct(u, w)
     \/ \E u \in Users : CommitAct(u) \/ CheckSubmittable(u) \/ MarkChecked(u)
     \/ \E u \in Users : req[u] = Idle /\ Submission(u) /\ UNCHANGED req
  /\ UNCHANGED family

RaceSpec == RaceInit /\ [][RaceNext]_raceVars

-------------------------------------------------------------------------------
(* What a request may hold.                                                *)
RaceTypeOK ==
  /\ TypeOK
  /\ req \in [Users -> {Idle, Checked} \cup Acting]

(* Each submission applies the effect of an approval at most once.         *)
PostedOncePerSubmission == approvals <= submitted
===============================================================================
