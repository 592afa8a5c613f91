------------------------------- MODULE Workflow -------------------------------
(***************************************************************************)
(* The approval engine (internal/workflow) governing one document of one   *)
(* process: the process definition an administrator may edit while         *)
(* documents are in flight, the instance, its tasks, the substitutes, and  *)
(* the document status the domain hooks write.  A submission is two        *)
(* transactions here, between which anything may happen and after the      *)
(* first of which it may fail; every other request runs alone, and         *)
(* WorkflowRace interleaves those too.                                     *)
(*                                                                         *)
(* Of the Task rows only the pending ones are kept, as the set of their    *)
(* assignees per node: the engine never reads a completed or skipped one.  *)
(* Rows belong to one instance, so a new submission starts with none.      *)
(***************************************************************************)
EXTENDS Naturals, FiniteSets

CONSTANTS
  Users,           (* people: approvers, initiators, delegates             *)
  Steps,           (* approval steps that may be part of the process       *)
  Families,        (* the kinds of document to look at, by their hooks     *)
  Bounds           (* bounds: how many instances of the document there may *)
                   (* be together with how many administrative changes     *)

ASSUME WorkflowAssumption ==
  /\ Families \subseteq [guarded : BOOLEAN, soft : {"returned", "rejected"}, marks : BOOLEAN]
  /\ Bounds \subseteq [submissions : Nat, edits : Nat]
  /\ IsFiniteSet(Steps)
  /\ {"draft", "completed", "rejected", "none", "any"} \cap Steps = {}

VARIABLES
  family,     (* the kind of the document, fixed with it                   *)
  seq,        (* Node.Sequence of each step, 0 when not in the process     *)
  quorum,     (* Node.QuorumMode of each step                              *)
  ops,        (* users holding the operator role of each step              *)
  active,     (* users with IsActive = 1                                   *)
  pool,       (* initiator pool in force: {} in creator mode               *)
  sub,        (* ApprovalSubstitute row of each principal, if in window    *)
  inst,       (* the document's latest ProcessInstance                     *)
  pending,    (* assignees of its pending Task rows, per node              *)
  used,       (* steps some instance, task or event refers to              *)
  doc,        (* status column of the document                             *)
  via,        (* ActType of the last event that moved the instance         *)
  submitted,  (* instances created for the document                        *)
  approvals,  (* OnComplete calls for the document                         *)
  asking,     (* submitters between the status update and Initiate         *)
  renewed,    (* a submission wrote the status after the last decision     *)
  crossed,    (* one was asking when the document was approved             *)
  edits       (* administrative changes so far                             *)

config == <<seq, quorum, ops, active, pool, sub, edits>>
entry  == <<asking, renewed, crossed>>
run    == <<inst, pending, used, doc, via, submitted, approvals, entry>>
vars   == <<family, config, run>>

SubmitGuarded == family.guarded   (* submitting insists on a draft (ILR only)  *)
SoftStatus    == family.soft      (* what OnReject(total=false) writes         *)
ResubmitMarks == family.marks     (* OnResubmit writes submitted               *)

TaskNodes == Steps \cup {"draft"}
Nodes     == TaskNodes \cup {"completed", "rejected"}
InChain   == {s \in Steps : seq[s] > 0}

NoInst  == [status |-> "none", cur |-> "none", resume |-> "none", creator |-> "none"]
NoSub   == [delegate |-> "none", node |-> "none"]
SubRows == [delegate : Users, node : Steps \cup {"any"}]
NoTasks == [n \in TaskNodes |-> {}]

-------------------------------------------------------------------------------
(* Queries. *)

(* resolveOperators: active users holding the step's role.                 *)
Operators(s) == ops[s] \cap active

(* resolveAmenders: the pool if it has an active member, else the creator  *)
(* while active, else nobody.                                              *)
Amenders(in) ==
  IF pool \cap active # {} THEN pool \cap active ELSE {in.creator} \cap active

(* An in-window substitute row lets u act on p's task at node n.           *)
Covers(u, p, n) == sub[p].delegate = u /\ sub[p].node \in {"any", n}

(* resolveActableTask: w owns the pending task u completes; u's own task   *)
(* comes first.                                                            *)
Actable(in, u, w) ==
  /\ in.status = "running"
  /\ w \in pending[in.cur]
  /\ w = u \/ (u \notin pending[in.cur] /\ Covers(u, w, in.cur))

(* MUTANT of Lands: the next step is opened whether it is staffed or not.  *)
LandsUnstaffed(p, m) ==
  LET ahead == {s \in InChain : seq[s] >= p} IN
  \/ m = "completed" /\ ahead = {}
  \/ m \in ahead /\ \A s \in ahead : seq[m] <= seq[s]

(* openOrSkip: opened at chain position p, the instance lands on the first *)
(* step from there that has an operator, or completes when there is none.  *)
Lands(p, m) ==
  LET staffed == {s \in InChain : seq[s] >= p /\ Operators(s) # {}} IN
  \/ m = "completed" /\ staffed = {}
  \/ m \in staffed /\ \A s \in staffed : seq[m] <= seq[s]

(* Steps whose events or tasks that walk leaves behind.                    *)
Walked(p, m) == {s \in InChain : seq[s] >= p /\ (m \in Steps => seq[s] <= seq[m])}

-------------------------------------------------------------------------------
(* Task updates. *)

(* MUTANT of Closed: tasks of the other operators stay in their inboxes.   *)
LeftOpen(n) == pending

(* skipPendingAtNode, with the actor's own task saved completed.           *)
Closed(n) == [pending EXCEPT ![n] = {}]

(* genTasks: close what is left at the node, then one task per user.       *)
Opened(t, n, us) == [t EXCEPT ![n] = us]

(* openOrSkip from position p with the instance row loaded as in: land,    *)
(* save the row, generate tasks; on Complete run the OnComplete hook.      *)
OpenOrSkip(in, p, closed, status) ==
  \E m \in Steps \cup {"completed"} :
    /\ Lands(p, m)
    /\ used' = used \cup Walked(p, m)
    /\ IF m = "completed"
       THEN /\ inst' = [in EXCEPT !.cur = m, !.status = "completed"]
            /\ pending' = closed
            /\ doc' = "approved"
            /\ approvals' = approvals + 1
            /\ renewed' = FALSE
            /\ crossed' = (crossed \/ asking' # {})
       ELSE /\ inst' = [in EXCEPT !.cur = m]
            /\ pending' = Opened(closed, m, Operators(m))
            /\ doc' = status
            /\ UNCHANGED <<approvals, renewed, crossed>>

-------------------------------------------------------------------------------
(* Requests on the document.  in is the instance row as the request        *)
(* loaded it, w the owner of the task the request completes.               *)

Within(n, e) == \E b \in Bounds : n <= b.submissions /\ e <= b.edits

(* MUTANT of Initiate: a running instance is not looked for.               *)
InitiateUnchecked(u) ==
  /\ Within(submitted + 1, edits)
  /\ submitted' = submitted + 1
  /\ asking' = asking \ {u}
  /\ OpenOrSkip([status |-> "running", cur |-> "none", resume |-> "none", creator |-> u],
                1, NoTasks, doc)
  /\ via' = "agree"
  /\ UNCHANGED config

(* Engine.initiate: a fresh instance, opened at the first step.            *)
Initiate(u) ==
  /\ inst.status # "running"
  /\ Within(submitted + 1, edits)
  /\ submitted' = submitted + 1
  /\ asking' = asking \ {u}
  /\ OpenOrSkip([status |-> "running", cur |-> "none", resume |-> "none", creator |-> u],
                1, NoTasks, doc)
  /\ via' = "agree"
  /\ UNCHANGED config

(* The submit handlers write the status in a transaction of its own ...    *)
WriteSubmitted(u) ==
  /\ u \notin asking
  /\ asking' = asking \cup {u}
  /\ doc' = "submitted"
  /\ renewed' = TRUE
  /\ UNCHANGED <<config, inst, pending, used, via, submitted, approvals, crossed>>

(* MUTANT of MarkSubmitted: the request is not required to be a draft.     *)
MarkAnyStatus(u) == WriteSubmitted(u)

MarkSubmitted(u) ==
  /\ SubmitGuarded => doc = "draft"
  /\ WriteSubmitted(u)

(* ... and ask for the approval in another.  While an instance runs, or    *)
(* when the process cannot be used, or the database or the server fails,   *)
(* nothing comes of it and the status stays as written.                    *)
InitiateSubmitted(u) == u \in asking /\ Initiate(u)

SubmissionFails(u) ==
  /\ u \in asking
  /\ asking' = asking \ {u}
  /\ UNCHANGED <<config, inst, pending, used, doc, via, submitted, approvals, renewed, crossed>>

(* MUTANT of OthersPending: one pending colleague is taken for oneself.    *)
SeveralPending(in, w) ==
  /\ in.cur \in Steps
  /\ quorum[in.cur] = "all"
  /\ Cardinality(pending[in.cur] \ {w}) > 1

(* handleAgree, quorum all, other operators still pending: count it.       *)
OthersPending(in, w) ==
  /\ in.cur \in Steps
  /\ quorum[in.cur] = "all"
  /\ pending[in.cur] \ {w} # {}

CountAgree(in, w) ==
  /\ OthersPending(in, w)
  /\ pending' = [pending EXCEPT ![in.cur] = @ \ {w}]
  /\ UNCHANGED <<config, inst, used, doc, via, submitted, approvals, entry>>

(* handleAgree at a step that is thereby decided.                          *)
Agree(in, w) ==
  /\ in.cur \in Steps
  /\ ~OthersPending(in, w)
  /\ UNCHANGED asking
  /\ OpenOrSkip(in, seq[in.cur] + 1, Closed(in.cur), doc)
  /\ via' = "agree"
  /\ UNCHANGED <<config, submitted>>

(* MUTANT of ResubmittedDoc: OnResubmit does nothing.                      *)
UnmarkedDoc == doc

(* MUTANT of Resubmit: the node to resume at is forgotten.                 *)
ResubmitFromStart(in) ==
  /\ in.cur = "draft"
  /\ in.resume # "draft"
  /\ UNCHANGED asking
  /\ OpenOrSkip([in EXCEPT !.resume = "none"], 1, Closed("draft"),
                IF ResubmitMarks THEN "submitted" ELSE doc)
  /\ via' = "agree"
  /\ UNCHANGED <<config, submitted>>

(* handleAgree on the draft node: the amender resubmits; the instance      *)
(* resumes at the step that returned it.                                   *)
ResubmittedDoc == IF ResubmitMarks THEN "submitted" ELSE doc

Resubmit(in) ==
  /\ in.cur = "draft"
  /\ in.resume # "draft"
  /\ UNCHANGED asking
  /\ OpenOrSkip([in EXCEPT !.resume = "none"],
                IF in.resume \in InChain THEN seq[in.resume] ELSE 1,
                Closed("draft"), ResubmittedDoc)
  /\ via' = "agree"
  /\ UNCHANGED <<config, submitted>>

(* The draft node itself may be the node to resume at (an amender returned *)
(* the document): openOrSkip then leaves it on the draft without a task.   *)
ResubmitToDraft(in) ==
  /\ in.cur = "draft"
  /\ in.resume = "draft"
  /\ inst' = [in EXCEPT !.resume = "none"]
  /\ pending' = Closed("draft")
  /\ doc' = ResubmittedDoc
  /\ via' = "agree"
  /\ UNCHANGED <<config, used, submitted, approvals, entry>>

(* MUTANT of RejectTotal: the hook is told the reject was soft.            *)
RejectTotalAsSoft(in) ==
  /\ inst' = [in EXCEPT !.status = "rejected", !.cur = "rejected"]
  /\ pending' = Closed(in.cur)
  /\ doc' = SoftStatus
  /\ renewed' = FALSE
  /\ via' = "reject"
  /\ UNCHANGED <<config, used, submitted, approvals, asking, crossed>>

(* MUTANT of RejectTotal: the document goes back to draft.                 *)
RejectTotalToDraft(in) ==
  /\ inst' = [in EXCEPT !.status = "rejected", !.cur = "rejected"]
  /\ pending' = Closed(in.cur)
  /\ doc' = "draft"
  /\ renewed' = FALSE
  /\ via' = "reject"
  /\ UNCHANGED <<config, used, submitted, approvals, asking, crossed>>

(* handleReject, total.                                                    *)
RejectTotal(in) ==
  /\ inst' = [in EXCEPT !.status = "rejected", !.cur = "rejected"]
  /\ pending' = Closed(in.cur)
  /\ doc' = "rejected"
  /\ renewed' = FALSE
  /\ via' = "reject"
  /\ UNCHANGED <<config, used, submitted, approvals, asking, crossed>>

(* handleReject, soft: back to the draft node, remembering the step.       *)
RejectSoft(in) ==
  /\ inst' = [in EXCEPT !.cur = "draft", !.resume = in.cur]
  /\ pending' = Opened(Closed(in.cur), "draft", Amenders(in))
  /\ doc' = SoftStatus
  /\ via' = "reject"
  /\ UNCHANGED <<config, used, submitted, approvals, entry>>

(* handleMove (transfer or back): any node of the process but the current  *)
(* one and the two terminal ones; the draft node has no operators.         *)
MoveTargets(in) == (InChain \cup {"draft"}) \ {in.cur}

MoveTo(in, n) ==
  /\ n \in MoveTargets(in)
  /\ inst' = [in EXCEPT !.cur = n]
  /\ pending' = Opened(Closed(in.cur), n, IF n = "draft" THEN {} ELSE Operators(n))
  /\ used' = used \cup ({n} \cap Steps)
  /\ via' = "move"
  /\ UNCHANGED <<config, doc, submitted, approvals, entry>>

(* Engine.act, after the task was resolved.                                *)
Act(in, w) ==
  \/ CountAgree(in, w)
  \/ Agree(in, w)
  \/ Resubmit(in)
  \/ ResubmitToDraft(in)
  \/ RejectTotal(in)
  \/ RejectSoft(in)
  \/ \E n \in TaskNodes : MoveTo(in, n)

-------------------------------------------------------------------------------
(* Administration. *)

Edit ==
  /\ Within(submitted, edits + 1)
  /\ edits' = edits + 1
  /\ UNCHANGED run

(* A chain is 1..k over k >= 1 steps, each once.                           *)
Chains ==
  {f \in [Steps -> 0 .. Cardinality(Steps)] :
     LET on == {s \in Steps : f[s] > 0} IN
     on # {} /\ {f[s] : s \in on} = 1 .. Cardinality(on)}

(* MUTANT of ReplaceApprovalSteps: referenced steps may be dropped.        *)
ReplaceAnySteps(f, s, q, us) ==
  /\ Edit
  /\ f[s] > 0
  /\ seq' = f
  /\ quorum' = [quorum EXCEPT ![s] = q]
  /\ ops' = [ops EXCEPT ![s] = us]
  /\ UNCHANGED <<active, pool, sub>>

(* ReplaceApprovalSteps: reorder, insert and drop steps (never one that is *)
(* referenced) and set the quorum and operator role of one of them.        *)
ReplaceApprovalSteps(f, s, q, us) ==
  /\ Edit
  /\ \A t \in InChain \cap used : f[t] > 0
  /\ f[s] > 0
  /\ seq' = f
  /\ quorum' = [quorum EXCEPT ![s] = q]
  /\ ops' = [ops EXCEPT ![s] = us]
  /\ UNCHANGED <<active, pool, sub>>

(* UpdateAmendmentMode and SetInitiatorPool, by the pool they leave in     *)
(* force; members are active when they are put in.                         *)
SetInitiatorPool(us) ==
  /\ Edit
  /\ us \subseteq active
  /\ pool' = us
  /\ UNCHANGED <<seq, quorum, ops, active, sub>>

(* The user form's IsActive switch.  Nothing touches the user's tasks.     *)
SetActive(u) ==
  /\ Edit
  /\ active' = IF u \in active THEN active \ {u} ELSE active \cup {u}
  /\ UNCHANGED <<seq, quorum, ops, pool, sub>>

(* SetSubstitute: the principal operates the step, or some running step.   *)
SetSubstitute(p, d, n) ==
  /\ Edit
  /\ d \in active \ {p}
  /\ \E s \in InChain : p \in ops[s] /\ n \in {"any", s}
  /\ sub' = [sub EXCEPT ![p] = [delegate |-> d, node |-> n]]
  /\ UNCHANGED <<seq, quorum, ops, active, pool>>

(* ClearSubstitute, or the row's window ends: once for every row set, so   *)
(* it needs no bound of its own.                                           *)
ClearSubstitute(p) ==
  /\ sub[p] # NoSub
  /\ sub' = [sub EXCEPT ![p] = NoSub]
  /\ UNCHANGED <<seq, quorum, ops, active, pool, edits, run>>

-------------------------------------------------------------------------------
Init ==
  /\ family \in Families
  /\ seq \in Chains
  /\ quorum \in [Steps -> {"any", "all"}]
  /\ ops \in [Steps -> SUBSET Users]
  /\ active = Users
  /\ pool \in SUBSET Users
  /\ sub = [u \in Users |-> NoSub]
  /\ inst = NoInst
  /\ pending = NoTasks
  /\ used = {}
  /\ doc = "draft"
  /\ via = "none"
  /\ submitted = 0
  /\ approvals = 0
  /\ asking = {}
  /\ renewed = FALSE
  /\ crossed = FALSE
  /\ edits = 0

Requests ==
  \/ \E u \in Users : MarkSubmitted(u) \/ InitiateSubmitted(u) \/ SubmissionFails(u)
  \/ \E u, w \in Users : Actable(inst, u, w) /\ Act(inst, w)

Administration ==
  \/ \E f \in Chains, s \in Steps, q \in {"any", "all"}, us \in SUBSET Users :
       ReplaceApprovalSteps(f, s, q, us)
  \/ \E us \in SUBSET Users : SetInitiatorPool(us)
  \/ \E u \in Users : SetActive(u)
  \/ \E p, d \in Users, n \in Steps \cup {"any"} : SetSubstitute(p, d, n)
  \/ \E p \in Users : ClearSubstitute(p)

Next == (Requests \/ Administration) /\ UNCHANGED family

Spec == Init /\ [][Next]_vars

-------------------------------------------------------------------------------
(* Correctness. *)

Instances ==
  [status  : {"none", "running", "completed", "rejected"},
   cur     : Nodes \cup {"none"},
   resume  : TaskNodes \cup {"none"},
   creator : Users \cup {"none"}]

(* The types of the tables and columns the engine works on.                *)
TypeOK ==
  /\ family \in Families
  /\ seq \in [Steps -> Nat]
  /\ quorum \in [Steps -> {"any", "all"}]
  /\ ops \in [Steps -> SUBSET Users]
  /\ active \in SUBSET Users
  /\ pool \in SUBSET Users
  /\ sub \in [Users -> SubRows \cup {NoSub}]
  /\ inst \in Instances
  /\ pending \in [TaskNodes -> SUBSET Users]
  /\ used \in SUBSET Steps
  /\ doc \in {"draft", "submitted", "approved", "returned", "rejected"}
  /\ via \in {"none", "agree", "reject", "move"}
  /\ submitted \in Nat
  /\ approvals \in Nat
  /\ asking \in SUBSET Users
  /\ renewed \in BOOLEAN
  /\ crossed \in BOOLEAN
  /\ edits \in Nat

(* Nobody holds an inbox item for a document that has moved on: a pending  *)
(* task sits at the current node of a running instance.  Every handler     *)
(* that moves the instance must close the node it leaves.                  *)
PendingOnlyWhereOpen ==
  \A n \in TaskNodes : pending[n] # {} => inst.status = "running" /\ inst.cur = n

(* Editing the steps never pulls the step out from under a document: where *)
(* it stands, and where it would resume, are still in the process.         *)
CurrentStepInProcess ==
  inst.status = "running" =>
    /\ inst.cur \in InChain \cup {"draft"}
    /\ inst.resume \in InChain \cup {"draft", "none"}

(* openOrSkip opens only staffed steps and an all-quorum step keeps its    *)
(* remaining operators, so a running instance without a pending task got   *)
(* there by a transfer or back, or sits on the draft node.                 *)
StrandedOnlyByMoveOrDraft ==
  inst.status = "running" /\ pending[inst.cur] = {} =>
    via = "move" \/ inst.cur = "draft"

(* Quorum all: an agree takes the document off the step only when no other *)
(* operator is still pending; nobody's vote is skipped.                    *)
QuorumAllHeard ==
  [][(inst.status = "running" /\ inst.cur \in Steps /\ quorum[inst.cur] = "all"
      /\ via' = "agree" /\ inst'.cur # inst.cur) =>
        \E w \in Users : pending[inst.cur] = {w}]_vars

(* A resubmitted document resumes at the step that returned it or, when    *)
(* that step has lost its operators, after it: never earlier.              *)
ResumesAtReturningStep ==
  [][(inst.status = "running" /\ inst.cur = "draft" /\ inst.resume \in Steps
      /\ via' = "agree" /\ inst'.cur # "draft") =>
        inst'.cur = "completed" \/ seq[inst'.cur] >= seq[inst.resume]]_vars

(* The document shows its decision: approved or rejected as long as nobody *)
(* submits it again (whatever comes of that), and approved only while its  *)
(* last instance is completed, unless a submission that had written its    *)
(* status was overtaken by the approval.                                   *)
DocumentShowsDecision ==
  /\ ~renewed => /\ inst.status = "completed" => doc = "approved"
                 /\ inst.status = "rejected" => doc = "rejected"
  /\ doc = "approved" => inst.status = "completed" \/ crossed

(* The engine implements Approval: one decision open at a time, each taken *)
(* once, OnComplete called exactly when an instance completes.             *)
Phase ==
  CASE inst.status = "none"      -> "idle"
    [] inst.status = "running"   -> "open"
    [] inst.status = "completed" -> "approved"
    [] inst.status = "rejected"  -> "rejected"

Abstract == INSTANCE Approval WITH phase <- Phase, submissions <- submitted, posted <- approvals

ImplementsApproval == Abstract!Spec

(* Where the submit handler insists on a draft (ILR), a document is        *)
(* approved at most once, whoever resubmits what.                          *)
ApprovedAtMostOnce == SubmitGuarded => approvals <= 1

(* docs/user-guide.md: a rejected document is stopped for good; so it is   *)
(* where the submit handler insists on a draft.                            *)
RejectedStopsForGood == [][SubmitGuarded /\ inst.status = "rejected" => inst'.status = "rejected"]_vars

(* docs/architecture.md: resubmitting makes it read submitted again.       *)
ResubmittedReadsSubmitted ==
  [][(ResubmitMarks /\ inst.status = "running" /\ inst.cur = "draft"
      /\ via' = "agree" /\ inst' # inst) =>
       doc' \in {"submitted", "approved"}]_vars
===============================================================================
