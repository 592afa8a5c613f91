------------------------------- MODULE Approval -------------------------------
(***************************************************************************)
(* What the approval engine promises a document module (receipt, loading  *)
(* request, fee batch ...), with no steps, tasks or people in it: a        *)
(* document is put up for a decision, at most one decision is open at a    *)
(* time, every decision is taken once, and the effect of an approval (the  *)
(* OnComplete hook: post stock, reserve, freeze prices) happens once, in   *)
(* the step that approves.  Workflow.tla is shown to implement this.       *)
(***************************************************************************)
EXTENDS Naturals

VARIABLES
  phase,        (* of the last submission                                  *)
  submissions,  (* how many times the document was put up for approval     *)
  posted        (* how many times the effect of an approval was applied    *)

vars == <<phase, submissions, posted>>

Phases == {"idle", "open", "approved", "rejected"}

Init ==
  /\ phase = "idle"
  /\ submissions = 0
  /\ posted = 0

(* A submission opens a decision, or is approved at once when no step of   *)
(* the process has an approver.                                            *)
Submit ==
  /\ phase # "open"
  /\ submissions' = submissions + 1
  /\ \/ phase' = "open" /\ UNCHANGED posted
     \/ phase' = "approved" /\ posted' = posted + 1

Approve ==
  /\ phase = "open"
  /\ phase' = "approved"
  /\ posted' = posted + 1
  /\ UNCHANGED submissions

Reject ==
  /\ phase = "open"
  /\ phase' = "rejected"
  /\ UNCHANGED <<submissions, posted>>

Next == Submit \/ Approve \/ Reject

Spec == Init /\ [][Next]_vars
===============================================================================
