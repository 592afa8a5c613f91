---------------------------- MODULE WorkflowProofs ----------------------------
(***************************************************************************)
(* Proofs about Workflow for any set of users, any finite set of steps and *)
(* every hook family.  The inductive invariant IInv joins the checked      *)
(* invariants with StepsInUse, the reason CurrentStepInProcess survives an *)
(* edit of the chain: whatever an instance stands on or resumes at is      *)
(* referenced, and ReplaceApprovalSteps keeps referenced steps; and with   *)
(* Overtaken, the reason an instance may start under an approved document. *)
(***************************************************************************)
EXTENDS Workflow, FiniteSetTheorems, TLAPS

(* Where a running instance stands and resumes is in the process and used. *)
StepsInUse ==
  inst.status = "running" =>
    /\ inst.cur \in (InChain \cap used) \cup {"draft"}
    /\ inst.resume \in (InChain \cap used) \cup {"draft", "none"}

(* A document approved while a submission is on its way was crossed by it. *)
Overtaken == doc = "approved" /\ asking # {} => crossed

IInv ==
  /\ TypeOK
  /\ PendingOnlyWhereOpen
  /\ StepsInUse
  /\ DocumentShowsDecision
  /\ Overtaken
  /\ StrandedOnlyByMoveOrDraft

-------------------------------------------------------------------------------
(* Types of the queries. *)

(* The users a query returns exist.                                        *)
LEMMA QueryTypes ==
  ASSUME TypeOK, NEW s \in Steps, NEW in
  PROVE  Operators(s) \in SUBSET Users /\ Amenders(in) \in SUBSET Users
BY DEF TypeOK, Operators, Amenders

(* Every kind of document has hooks of the right types.                    *)
LEMMA FamilyTypes ==
  ASSUME TypeOK
  PROVE  SubmitGuarded \in BOOLEAN /\ ResubmitMarks \in BOOLEAN
         /\ SoftStatus \in {"returned", "rejected"}
BY WorkflowAssumption DEF TypeOK, SubmitGuarded, ResubmitMarks, SoftStatus

(* A chain gives every step a natural position.                            *)
LEMMA ChainType ==
  ASSUME NEW f \in Chains
  PROVE  f \in [Steps -> Nat]
<1>1. Cardinality(Steps) \in Nat
  BY FS_CardinalityType, WorkflowAssumption
<1>2. 0 .. Cardinality(Steps) \subseteq Nat
  BY <1>1
<1>3. f \in [Steps -> 0 .. Cardinality(Steps)]
  BY DEF Chains
<1> QED BY <1>2, <1>3

(* At the current node of an instance nothing is left after closing it.    *)
LEMMA ClosedIsNoTasks ==
  ASSUME TypeOK, PendingOnlyWhereOpen, inst.status = "running", inst.cur \in TaskNodes
  PROVE  Closed(inst.cur) = NoTasks
BY DEF TypeOK, PendingOnlyWhereOpen, Closed, NoTasks

(* openOrSkip, started with no open task, re-establishes the invariant for *)
(* an instance it leaves running or completed.                             *)
LEMMA OpenOrSkipKeeps ==
  ASSUME TypeOK, NEW in \in Instances, in.status = "running",
         in.resume \in (InChain \cap used) \cup {"draft", "none"},
         NEW p, NEW status \in {"draft", "submitted", "approved", "returned", "rejected"},
         status = "approved" => crossed,
         OpenOrSkip(in, p, NoTasks, status), asking' \in SUBSET asking,
         UNCHANGED <<family, config>>, submitted' \in Nat, via' = "agree"
  PROVE  IInv'
<1>1. PICK m \in Steps \cup {"completed"} :
        /\ Lands(p, m)
        /\ used' = used \cup Walked(p, m)
        /\ IF m = "completed"
           THEN /\ inst' = [in EXCEPT !.cur = m, !.status = "completed"]
                /\ pending' = NoTasks
                /\ doc' = "approved"
                /\ approvals' = approvals + 1
                /\ renewed' = FALSE
                /\ crossed' = (crossed \/ asking' # {})
           ELSE /\ inst' = [in EXCEPT !.cur = m]
                /\ pending' = Opened(NoTasks, m, Operators(m))
                /\ doc' = status
                /\ UNCHANGED <<approvals, renewed, crossed>>
  BY DEF OpenOrSkip
<1>2. used' \in SUBSET Steps
  BY <1>1 DEF TypeOK, Walked, InChain
<1>3. UNCHANGED <<seq, quorum, ops, active, pool, sub, edits>> /\ InChain' = InChain
  BY DEF config, InChain
<1>4. CASE m = "completed"
  <2>1. inst' \in Instances /\ inst'.status = "completed"
    BY <1>1, <1>4 DEF Instances, Nodes
  <2>2. pending' = NoTasks /\ NoTasks \in [TaskNodes -> SUBSET Users]
    BY <1>1, <1>4 DEF NoTasks
  <2>3. renewed' \in BOOLEAN /\ crossed' \in BOOLEAN
    BY <1>1, <1>4 DEF TypeOK
  <2>4. TypeOK'
    BY <1>1, <1>2, <1>3, <1>4, <2>1, <2>2, <2>3 DEF TypeOK, SubRows, NoSub
  <2> QED
    BY <1>1, <1>4, <2>1, <2>2, <2>4
    DEF IInv, PendingOnlyWhereOpen, StepsInUse, DocumentShowsDecision, Overtaken,
        StrandedOnlyByMoveOrDraft, NoTasks
<1>5. CASE m # "completed"
  <2>1. m \in InChain /\ Operators(m) # {} /\ m \in Walked(p, m)
    BY <1>1, <1>5 DEF Lands, Walked, InChain, TypeOK
  <2>2. inst' \in Instances /\ inst'.status = "running" /\ inst'.cur = m
        /\ inst'.resume = in.resume
    BY <1>1, <1>5, <2>1 DEF Instances, Nodes, TaskNodes, InChain
  <2>3. m \in Steps /\ m \in TaskNodes /\ Operators(m) \in SUBSET Users
    BY <2>1, QueryTypes DEF InChain, TaskNodes
  <2>4. pending' = [n \in TaskNodes |-> IF n = m THEN Operators(m) ELSE {}]
    BY <1>1, <1>5, <2>3 DEF Opened, NoTasks
  <2>5. pending' \in [TaskNodes -> SUBSET Users]
    BY <2>3, <2>4
  <2>6. TypeOK'
    BY <1>1, <1>2, <1>3, <1>5, <2>2, <2>5 DEF TypeOK, SubRows, NoSub
  <2>7. PendingOnlyWhereOpen'
    BY <2>2, <2>4 DEF PendingOnlyWhereOpen
  <2>8. StepsInUse'
    BY <1>1, <1>3, <2>1, <2>2 DEF StepsInUse
  <2>9. DocumentShowsDecision' /\ Overtaken'
    BY <1>1, <1>5, <2>2 DEF DocumentShowsDecision, Overtaken
  <2>10. StrandedOnlyByMoveOrDraft'
    BY <2>1, <2>2, <2>3, <2>4 DEF StrandedOnlyByMoveOrDraft
  <2> QED BY <2>6, <2>7, <2>8, <2>9, <2>10 DEF IInv
<1> QED BY <1>4, <1>5

-------------------------------------------------------------------------------
(* The invariant, action by action. *)

(* A submission: the status it writes, the approval it asks for, or its    *)
(* failure between the two.                                                *)
LEMMA SubmissionKeeps ==
  ASSUME IInv, UNCHANGED family, NEW u \in Users,
         MarkSubmitted(u) \/ InitiateSubmitted(u) \/ SubmissionFails(u)
  PROVE  IInv'
<1>1. CASE MarkSubmitted(u)
  <2> USE <1>1 DEF MarkSubmitted, WriteSubmitted
  <2>1. TypeOK'
    BY DEF IInv, TypeOK, config
  <2>2. InChain' = InChain
    BY DEF config, InChain
  <2> QED
    BY <2>1, <2>2
    DEF IInv, PendingOnlyWhereOpen, StepsInUse, DocumentShowsDecision, Overtaken,
        StrandedOnlyByMoveOrDraft
<1>2. CASE SubmissionFails(u)
  <2> USE <1>2 DEF SubmissionFails
  <2>1. TypeOK'
    BY DEF IInv, TypeOK, config
  <2>2. InChain' = InChain
    BY DEF config, InChain
  <2> QED
    BY <2>1, <2>2
    DEF IInv, PendingOnlyWhereOpen, StepsInUse, DocumentShowsDecision, Overtaken,
        StrandedOnlyByMoveOrDraft
<1>3. CASE InitiateSubmitted(u)
  <2> DEFINE in == [status |-> "running", cur |-> "none", resume |-> "none", creator |-> u]
  <2>1. in \in Instances
    BY DEF Instances
  <2>2. OpenOrSkip(in, 1, NoTasks, doc) /\ UNCHANGED config /\ via' = "agree"
        /\ submitted' = submitted + 1 /\ asking' = asking \ {u} /\ u \in asking
    BY <1>3 DEF InitiateSubmitted, Initiate
  <2>3. submitted' \in Nat /\ asking' \in SUBSET asking
    BY <2>2 DEF IInv, TypeOK
  <2>4. TypeOK /\ in.status = "running" /\ in.resume = "none"
        /\ doc \in {"draft", "submitted", "approved", "returned", "rejected"}
        /\ (doc = "approved" => crossed)
    BY <2>2 DEF IInv, TypeOK, Overtaken
  <2> HIDE DEF in
  <2> QED BY <2>1, <2>2, <2>3, <2>4, OpenOrSkipKeeps
<1> QED BY <1>1, <1>2, <1>3

(* A resolved task is a task of a user at the current node of a running    *)
(* instance.                                                               *)
LEMMA ActableLoaded ==
  ASSUME IInv, NEW u \in Users, NEW w \in Users, Actable(inst, u, w)
  PROVE  /\ inst \in Instances
         /\ inst.status = "running"
         /\ inst.cur \in (InChain \cap used) \cup {"draft"}
         /\ inst.cur \in TaskNodes
         /\ inst.resume \in (InChain \cap used) \cup {"draft", "none"}
         /\ Closed(inst.cur) = NoTasks
         /\ doc \in {"draft", "submitted", "approved", "returned", "rejected"}
         /\ doc = "approved" => crossed
<1>1. inst \in Instances /\ inst.status = "running" /\ StepsInUse
  BY DEF IInv, TypeOK, Actable
<1>2. inst.cur \in TaskNodes
  BY <1>1 DEF StepsInUse, TaskNodes, InChain
<1>3. Closed(inst.cur) = NoTasks
  BY <1>1, <1>2, ClosedIsNoTasks DEF IInv
<1> QED
  BY <1>1, <1>2, <1>3 DEF StepsInUse, IInv, TypeOK, DocumentShowsDecision

(* Every action on a task.                                                 *)
LEMMA ActKeeps ==
  ASSUME IInv, NEW u \in Users, NEW w \in Users, Actable(inst, u, w), Act(inst, w),
         UNCHANGED family
  PROVE  IInv'
<1>1. /\ inst \in Instances
      /\ inst.status = "running"
      /\ inst.cur \in (InChain \cap used) \cup {"draft"}
      /\ inst.cur \in TaskNodes
      /\ inst.resume \in (InChain \cap used) \cup {"draft", "none"}
      /\ Closed(inst.cur) = NoTasks
      /\ doc \in {"draft", "submitted", "approved", "returned", "rejected"}
      /\ doc = "approved" => crossed
  BY ActableLoaded
<1>2. TypeOK /\ PendingOnlyWhereOpen /\ StepsInUse /\ DocumentShowsDecision
      /\ Overtaken /\ StrandedOnlyByMoveOrDraft
  BY DEF IInv
<1>3. CASE CountAgree(inst, w)
  <2>1. pending' \in [TaskNodes -> SUBSET Users]
    BY <1>1, <1>2, <1>3 DEF CountAgree, TypeOK
  <2>2. pending'[inst.cur] # {} /\ \A n \in TaskNodes \ {inst.cur} : pending'[n] = pending[n]
    BY <1>1, <1>2, <1>3 DEF CountAgree, OthersPending, TypeOK
  <2>3. InChain' = InChain
    BY <1>3 DEF CountAgree, config, InChain
  <2>4. TypeOK'
    BY <1>2, <1>3, <2>1 DEF CountAgree, TypeOK, config, entry
  <2> QED
    BY <1>1, <1>2, <1>3, <2>2, <2>3, <2>4
    DEF CountAgree, entry, IInv, PendingOnlyWhereOpen, StepsInUse, DocumentShowsDecision,
        Overtaken,
        StrandedOnlyByMoveOrDraft
<1>4. CASE Agree(inst, w)
  <2>1. OpenOrSkip(inst, seq[inst.cur] + 1, NoTasks, doc) /\ UNCHANGED config
        /\ via' = "agree" /\ submitted' \in Nat /\ asking' \in SUBSET asking
    BY <1>1, <1>2, <1>4 DEF Agree, TypeOK
  <2> QED BY <1>1, <1>2, <2>1, OpenOrSkipKeeps
<1>5. CASE Resubmit(inst)
  <2> DEFINE in == [inst EXCEPT !.resume = "none"]
             p  == IF inst.resume \in InChain THEN seq[inst.resume] ELSE 1
  <2>1. in \in Instances /\ in.status = "running" /\ in.resume = "none"
    BY <1>1 DEF Instances
  <2>2. OpenOrSkip(in, p, NoTasks, ResubmittedDoc) /\ UNCHANGED config
        /\ via' = "agree" /\ submitted' \in Nat /\ asking' \in SUBSET asking
    BY <1>1, <1>2, <1>5 DEF Resubmit, TypeOK
  <2>3. ResubmittedDoc \in {"draft", "submitted", "approved", "returned", "rejected"}
        /\ (ResubmittedDoc = "approved" => crossed)
    BY <1>1 DEF ResubmittedDoc
  <2> HIDE DEF in, p
  <2> QED BY <1>2, <2>1, <2>2, <2>3, OpenOrSkipKeeps
<1>6. CASE ResubmitToDraft(inst)
  <2>1. inst' \in Instances /\ inst'.status = "running" /\ inst'.cur = "draft"
        /\ inst'.resume = "none"
    BY <1>1, <1>6 DEF ResubmitToDraft, Instances
  <2>2. pending' = NoTasks /\ UNCHANGED entry /\ doc' \in {doc, "submitted"}
    BY <1>1, <1>6 DEF ResubmitToDraft, ResubmittedDoc
  <2>3. TypeOK'
    BY <1>2, <1>6, <2>1, <2>2 DEF ResubmitToDraft, TypeOK, config, entry, NoTasks
  <2> QED
    BY <1>1, <1>2, <2>1, <2>2, <2>3
    DEF IInv, PendingOnlyWhereOpen, StepsInUse, DocumentShowsDecision, Overtaken,
        StrandedOnlyByMoveOrDraft, NoTasks, entry
<1>7. CASE RejectTotal(inst)
  <2>1. inst' \in Instances /\ inst'.status = "rejected"
    BY <1>1, <1>7 DEF RejectTotal, Instances, Nodes
  <2>2. pending' = NoTasks /\ doc' = "rejected"
    BY <1>1, <1>7 DEF RejectTotal
  <2>3. TypeOK'
    BY <1>2, <1>7, <2>1, <2>2 DEF RejectTotal, TypeOK, config, NoTasks
  <2> QED
    BY <2>1, <2>2, <2>3
    DEF IInv, PendingOnlyWhereOpen, StepsInUse, DocumentShowsDecision, Overtaken,
        StrandedOnlyByMoveOrDraft, NoTasks
<1>8. CASE RejectSoft(inst)
  <2>1. inst' \in Instances /\ inst'.status = "running" /\ inst'.cur = "draft"
        /\ inst'.resume = inst.cur
    BY <1>1, <1>8 DEF RejectSoft, Instances, Nodes, TaskNodes
  <2>2. Amenders(inst) \in SUBSET Users
    BY <1>2 DEF TypeOK, Amenders
  <2>3. pending' = [n \in TaskNodes |-> IF n = "draft" THEN Amenders(inst) ELSE {}]
    BY <1>1, <1>8 DEF RejectSoft, Opened, NoTasks, TaskNodes
  <2>4. pending' \in [TaskNodes -> SUBSET Users]
    BY <2>2, <2>3
  <2>5. TypeOK'
    BY <1>2, <1>8, <2>1, <2>4, FamilyTypes DEF RejectSoft, TypeOK, config, entry
  <2>6. InChain' = InChain /\ used' = used /\ doc' \in {"returned", "rejected"}
        /\ UNCHANGED entry
    BY <1>2, <1>8, FamilyTypes DEF RejectSoft, config, InChain
  <2> QED
    BY <1>1, <2>1, <2>3, <2>5, <2>6
    DEF IInv, PendingOnlyWhereOpen, StepsInUse, DocumentShowsDecision, Overtaken,
        StrandedOnlyByMoveOrDraft, entry
<1>9. ASSUME NEW n \in TaskNodes, MoveTo(inst, n)
      PROVE  IInv'
  <2> DEFINE us == IF n = "draft" THEN {} ELSE Operators(n)
  <2>1. n \in InChain \cup {"draft"}
    BY <1>9 DEF MoveTo, MoveTargets
  <2>2. inst' \in Instances /\ inst'.status = "running" /\ inst'.cur = n
        /\ inst'.resume = inst.resume
    BY <1>1, <1>9 DEF MoveTo, Instances, Nodes
  <2>3. us \in SUBSET Users
    BY <1>2, <2>1, QueryTypes DEF InChain
  <2>4. pending' = [k \in TaskNodes |-> IF k = n THEN us ELSE {}]
    BY <1>1, <1>9 DEF MoveTo, Opened, NoTasks
  <2>5. pending' \in [TaskNodes -> SUBSET Users]
    BY <2>3, <2>4
  <2>6. InChain' = InChain /\ used' = used \cup ({n} \cap Steps) /\ via' = "move"
        /\ doc' = doc /\ used' \in SUBSET Steps /\ UNCHANGED entry
    BY <1>2, <1>9 DEF MoveTo, config, InChain, TypeOK
  <2>7. TypeOK'
    BY <1>2, <1>9, <2>2, <2>5, <2>6 DEF MoveTo, TypeOK, config, entry
  <2>8. StepsInUse'
    BY <1>1, <2>1, <2>2, <2>6 DEF StepsInUse, InChain
  <2>9. PendingOnlyWhereOpen'
    BY <2>2, <2>4 DEF PendingOnlyWhereOpen
  <2> QED
    BY <1>1, <1>2, <2>2, <2>6, <2>7, <2>8, <2>9
    DEF IInv, DocumentShowsDecision, Overtaken, StrandedOnlyByMoveOrDraft, entry
<1> QED BY <1>3, <1>4, <1>5, <1>6, <1>7, <1>8, <1>9 DEF Act

(* An administrative change.  Only replacing the steps touches the chain,  *)
(* and it keeps the steps in use.                                          *)
LEMMA AdministrationKeeps ==
  ASSUME IInv, Administration, UNCHANGED family
  PROVE  IInv'
<1>1. UNCHANGED run /\ edits' \in {edits, edits + 1}
  BY DEF Administration, ReplaceApprovalSteps, SetInitiatorPool, SetActive,
         SetSubstitute, ClearSubstitute, Edit
<1>2. edits' \in Nat
  BY <1>1 DEF IInv, TypeOK
<1>3. /\ seq' \in [Steps -> Nat]
      /\ quorum' \in [Steps -> {"any", "all"}]
      /\ ops' \in [Steps -> SUBSET Users]
      /\ active' \in SUBSET Users
      /\ pool' \in SUBSET Users
      /\ sub' \in [Users -> SubRows \cup {NoSub}]
      /\ InChain \cap used \subseteq InChain'
  <2> USE DEF IInv, TypeOK
  <2>1. CASE \E f \in Chains, s \in Steps, q \in {"any", "all"}, us \in SUBSET Users :
               ReplaceApprovalSteps(f, s, q, us)
    BY <2>1, ChainType DEF ReplaceApprovalSteps, InChain
  <2>2. CASE \E us \in SUBSET Users : SetInitiatorPool(us)
    BY <2>2 DEF SetInitiatorPool, InChain
  <2>3. CASE \E u \in Users : SetActive(u)
    BY <2>3 DEF SetActive, InChain
  <2>4. CASE \E p, d \in Users, n \in Steps \cup {"any"} : SetSubstitute(p, d, n)
    <3>1. PICK p, d \in Users, n \in Steps \cup {"any"} : SetSubstitute(p, d, n)
      BY <2>4
    <3>2. [delegate |-> d, node |-> n] \in SubRows
      BY <3>1 DEF SubRows
    <3>3. sub' \in [Users -> SubRows \cup {NoSub}]
      BY <3>1, <3>2 DEF SetSubstitute
    <3> QED BY <3>1, <3>3 DEF SetSubstitute, InChain
  <2>5. CASE \E p \in Users : ClearSubstitute(p)
    BY <2>5 DEF ClearSubstitute, InChain
  <2> QED BY <2>1, <2>2, <2>3, <2>4, <2>5 DEF Administration
<1>4. TypeOK'
  BY <1>1, <1>2, <1>3 DEF IInv, TypeOK, run, entry
<1> QED
  BY <1>1, <1>3, <1>4
  DEF IInv, run, entry, PendingOnlyWhereOpen, StepsInUse, DocumentShowsDecision, Overtaken,
      StrandedOnlyByMoveOrDraft

(* No step of the engine breaks the invariant.                             *)
LEMMA NextKeeps ==
  ASSUME IInv, [Next]_vars
  PROVE  IInv'
<1>1. CASE Next
  <2> family' = family
    BY <1>1 DEF Next
  <2>1. CASE Requests
    BY <2>1, SubmissionKeeps, ActKeeps DEF Requests
  <2>2. CASE Administration
    BY <2>2, AdministrationKeeps
  <2> QED BY <1>1, <2>1, <2>2 DEF Next
<1>2. CASE UNCHANGED vars
  BY <1>2
  DEF vars, config, run, entry, IInv, TypeOK, PendingOnlyWhereOpen, StepsInUse, DocumentShowsDecision, Overtaken,
      StrandedOnlyByMoveOrDraft, InChain
<1> QED BY <1>1, <1>2

-------------------------------------------------------------------------------
(* Theorems. *)

(* The invariant holds of every reachable state.                           *)
THEOREM Invariance == Spec => []IInv
<1>1. Init => IInv
  <2> SUFFICES ASSUME Init PROVE IInv
    OBVIOUS
  <2>1. seq \in [Steps -> Nat]
    BY ChainType DEF Init
  <2>2. TypeOK
    BY <2>1 DEF Init, TypeOK, NoInst, Instances, NoTasks, NoSub
  <2> QED
    BY <2>2
    DEF Init, IInv, PendingOnlyWhereOpen, StepsInUse, DocumentShowsDecision, Overtaken,
        StrandedOnlyByMoveOrDraft, NoInst, NoTasks
<1>2. IInv /\ [Next]_vars => IInv'
  BY NextKeeps
<1> QED BY <1>1, <1>2, PTL DEF Spec

(* Tables keep their types, whatever the processes, roles and substitutes. *)
THEOREM TypeCorrect == Spec => []TypeOK
<1>1. IInv => TypeOK
  BY DEF IInv
<1> QED BY <1>1, Invariance, PTL

(* No inbox shows a document that has moved on: every handler closes the   *)
(* node it leaves.                                                         *)
THEOREM NoTaskLeftBehind == Spec => []PendingOnlyWhereOpen
<1>1. IInv => PendingOnlyWhereOpen
  BY DEF IInv
<1> QED BY <1>1, Invariance, PTL

(* Administrators may rearrange the chain under running documents: the     *)
(* current step and the step to resume at stay in the process.             *)
THEOREM StepsOutliveEdits == Spec => []CurrentStepInProcess
<1>1. IInv => CurrentStepInProcess
  BY DEF IInv, StepsInUse, CurrentStepInProcess
<1> QED BY <1>1, Invariance, PTL

(* A document reads as it was decided until somebody submits it again, and *)
(* approved only while its instance is completed or when a submission that *)
(* had written its status was overtaken by the approval.                   *)
THEOREM StatusFollowsDecision == Spec => []DocumentShowsDecision
<1>1. IInv => DocumentShowsDecision
  BY DEF IInv
<1> QED BY <1>1, Invariance, PTL

(* Agreeing and submitting never strand a document on an unstaffed step.   *)
THEOREM OpenedStepsAreStaffed == Spec => []StrandedOnlyByMoveOrDraft
<1>1. IInv => StrandedOnlyByMoveOrDraft
  BY DEF IInv
<1> QED BY <1>1, Invariance, PTL

(* What any step does to the decision, the document status, the people on  *)
(* their way to submit, and the counts.                                    *)
LEMMA StepEffect ==
  ASSUME IInv, Next
  PROVE  \/ \E u \in Users : /\ SubmitGuarded => doc = "draft"
                             /\ doc' = "submitted" /\ asking' = asking \cup {u}
                             /\ UNCHANGED <<inst, submitted, approvals>>
         \/ \E u \in asking : /\ inst.status # "running" /\ asking' = asking \ {u}
                              /\ submitted' = submitted + 1
                              /\ \/ inst'.status = "running" /\ approvals' = approvals
                                    /\ doc' = doc
                                 \/ inst'.status = "completed" /\ approvals' = approvals + 1
                                    /\ doc' = "approved"
         \/ \E u \in asking : /\ asking' = asking \ {u}
                              /\ UNCHANGED <<inst, doc, submitted, approvals>>
         \/ /\ inst.status = "running"
            /\ submitted' = submitted /\ asking' = asking
            /\ \/ inst'.status = "completed" /\ approvals' = approvals + 1
                  /\ doc' = "approved"
               \/ inst'.status \in {"running", "rejected"} /\ approvals' = approvals
                  /\ doc' \in {doc, "submitted", "returned", "rejected"}
         \/ UNCHANGED <<inst, doc, submitted, approvals, asking>>
<1>1. ASSUME NEW u \in Users, MarkSubmitted(u)
      PROVE  /\ SubmitGuarded => doc = "draft"
             /\ doc' = "submitted" /\ asking' = asking \cup {u}
             /\ UNCHANGED <<inst, submitted, approvals>>
  BY <1>1 DEF MarkSubmitted, WriteSubmitted
<1>2. ASSUME NEW u \in Users, InitiateSubmitted(u)
      PROVE  /\ u \in asking /\ inst.status # "running" /\ asking' = asking \ {u}
             /\ submitted' = submitted + 1
             /\ \/ inst'.status = "running" /\ approvals' = approvals /\ doc' = doc
                \/ inst'.status = "completed" /\ approvals' = approvals + 1
                   /\ doc' = "approved"
  BY <1>2 DEF InitiateSubmitted, Initiate, OpenOrSkip
<1>3. ASSUME NEW u \in Users, NEW w \in Users, Actable(inst, u, w), Act(inst, w)
      PROVE  /\ inst.status = "running"
             /\ submitted' = submitted /\ asking' = asking
             /\ \/ inst'.status = "completed" /\ approvals' = approvals + 1
                   /\ doc' = "approved"
                \/ inst'.status \in {"running", "rejected"} /\ approvals' = approvals
                   /\ doc' \in {doc, "submitted", "returned", "rejected"}
  <2>1. inst \in Instances /\ inst.status = "running"
    BY <1>3 DEF IInv, TypeOK, Actable
  <2>2. CASE CountAgree(inst, w)
    BY <2>1, <2>2 DEF CountAgree, entry
  <2>3. CASE Agree(inst, w)
    BY <2>1, <2>3 DEF Agree, OpenOrSkip, Instances
  <2>4. CASE Resubmit(inst)
    <3> DEFINE in == [inst EXCEPT !.resume = "none"]
    <3>1. in \in Instances /\ in.status = "running"
      BY <2>1 DEF Instances
    <3>2. PICK p : OpenOrSkip(in, p, Closed("draft"), ResubmittedDoc)
      BY <2>4 DEF Resubmit
    <3> HIDE DEF in
    <3>3. \/ inst'.status = "completed" /\ approvals' = approvals + 1 /\ doc' = "approved"
          \/ inst'.status = "running" /\ approvals' = approvals /\ doc' = ResubmittedDoc
      BY <3>1, <3>2 DEF OpenOrSkip, Instances
    <3> QED BY <2>1, <2>4, <3>3 DEF Resubmit, ResubmittedDoc
  <2>5. CASE ResubmitToDraft(inst)
    BY <2>1, <2>5 DEF ResubmitToDraft, ResubmittedDoc, Instances, entry
  <2>6. CASE RejectTotal(inst)
    BY <2>1, <2>6 DEF RejectTotal, Instances
  <2>7. CASE RejectSoft(inst)
    BY <2>1, <2>7, FamilyTypes DEF IInv, RejectSoft, Instances, entry
  <2>8. ASSUME NEW n \in TaskNodes, MoveTo(inst, n)
        PROVE  /\ inst'.status = "running" /\ approvals' = approvals
               /\ submitted' = submitted /\ doc' = doc /\ asking' = asking
    BY <2>1, <2>8 DEF MoveTo, Instances, entry
  <2> QED BY <1>3, <2>1, <2>2, <2>3, <2>4, <2>5, <2>6, <2>7, <2>8 DEF Act
<1>4. ASSUME NEW u \in Users, SubmissionFails(u)
      PROVE  u \in asking /\ asking' = asking \ {u}
             /\ UNCHANGED <<inst, doc, submitted, approvals>>
  BY <1>4 DEF SubmissionFails
<1>5. CASE Administration
  BY <1>5
  DEF Administration, ReplaceApprovalSteps, SetInitiatorPool, SetActive,
      SetSubstitute, ClearSubstitute, Edit, run, entry
<1> QED BY <1>1, <1>2, <1>3, <1>4, <1>5 DEF Next, Requests

(* The engine implements the abstract approval: one decision open at a     *)
(* time, taken once, its effect applied in the step that approves.         *)
THEOREM Refinement == Spec => ImplementsApproval
<1>1. Init => Abstract!Init
  BY DEF Init, Abstract!Init, Phase, NoInst
<1>2. IInv /\ [Next]_vars => [Abstract!Next]_(Abstract!vars)
  <2> SUFFICES ASSUME IInv, [Next]_vars PROVE [Abstract!Next]_(Abstract!vars)
    OBVIOUS
  <2>1. CASE Next
    <3>1. inst.status \in {"none", "running", "completed", "rejected"}
      BY DEF IInv, TypeOK, Instances
    <3> QED
      BY <2>1, <3>1, StepEffect
      DEF Abstract!Next, Abstract!Submit, Abstract!Approve, Abstract!Reject, Abstract!vars, Phase
  <2>2. CASE UNCHANGED vars
    BY <2>2 DEF vars, run, Abstract!vars, Phase
  <2> QED BY <2>1, <2>2
<1> QED BY <1>1, <1>2, Invariance, PTL DEF Spec, ImplementsApproval, Abstract!Spec

(* A guarded document leaves draft with its only submission.               *)
DraftIsFresh ==
  /\ doc = "draft" => inst.status = "none" /\ asking = {}
  /\ asking # {} => inst.status = "none" /\ \E u \in Users : asking = {u}
  /\ inst.status # "completed" => approvals = 0
  /\ inst.status = "completed" => approvals = 1

GuardedIsFresh == SubmitGuarded => DraftIsFresh

LEMMA GuardKeepsFresh ==
  ASSUME IInv, GuardedIsFresh, [Next]_vars
  PROVE  GuardedIsFresh'
         /\ (SubmitGuarded /\ inst.status = "rejected" => inst'.status = "rejected")
<1>1. SubmitGuarded' = SubmitGuarded
  BY DEF Next, vars, SubmitGuarded
<1>2. SUFFICES ASSUME SubmitGuarded, DraftIsFresh
               PROVE  DraftIsFresh' /\ (inst.status = "rejected" => inst'.status = "rejected")
  BY <1>1 DEF GuardedIsFresh
<1>3. CASE Next
  BY <1>2, <1>3, StepEffect DEF DraftIsFresh
<1>4. CASE UNCHANGED vars
  BY <1>2, <1>4 DEF vars, run, entry, DraftIsFresh
<1> QED BY <1>3, <1>4

(* Loading requests (submitted only from draft) are approved at most once. *)
THEOREM GuardedApprovedOnce == Spec => []ApprovedAtMostOnce
<1>1. Init => GuardedIsFresh
  BY DEF Init, GuardedIsFresh, DraftIsFresh, NoInst
<1>2. IInv /\ GuardedIsFresh /\ [Next]_vars => GuardedIsFresh'
  BY GuardKeepsFresh
<1>3. GuardedIsFresh => ApprovedAtMostOnce
  BY DEF GuardedIsFresh, DraftIsFresh, ApprovedAtMostOnce
<1> QED BY <1>1, <1>2, <1>3, Invariance, PTL DEF Spec

(* And a rejected one is never taken up again.                             *)
THEOREM GuardedRejectionIsFinal == Spec => RejectedStopsForGood
<1>1. Init => GuardedIsFresh
  BY DEF Init, GuardedIsFresh, DraftIsFresh, NoInst
<1>2. IInv /\ GuardedIsFresh /\ [Next]_vars => GuardedIsFresh'
  BY GuardKeepsFresh
<1>3. IInv /\ GuardedIsFresh /\ [Next]_vars
        => [SubmitGuarded /\ inst.status = "rejected" => inst'.status = "rejected"]_vars
  BY GuardKeepsFresh
<1> QED BY <1>1, <1>2, <1>3, Invariance, PTL DEF Spec, RejectedStopsForGood

-------------------------------------------------------------------------------
(* Administration moves no document. *)
LEMMA AdministrationMovesNothing ==
  ASSUME Administration
  PROVE  UNCHANGED inst
BY DEF Administration, ReplaceApprovalSteps, SetInitiatorPool, SetActive,
       SetSubstitute, ClearSubstitute, Edit, run

(* Quorum all: the agree that takes the document off the step was the last *)
(* one outstanding.                                                        *)
THEOREM QuorumRespected == Spec => QuorumAllHeard
<1> DEFINE Last == (inst.status = "running" /\ inst.cur \in Steps /\ quorum[inst.cur] = "all"
                    /\ via' = "agree" /\ inst'.cur # inst.cur)
                      => \E w \in Users : pending[inst.cur] = {w}
<1>1. IInv /\ [Next]_vars => [Last]_vars
  <2> SUFFICES ASSUME IInv, Next PROVE Last
    OBVIOUS
  <2>1. ASSUME NEW u \in Users, MarkSubmitted(u) \/ InitiateSubmitted(u) \/ SubmissionFails(u)
        PROVE  UNCHANGED inst \/ inst.status # "running"
    BY <2>1 DEF MarkSubmitted, WriteSubmitted, SubmissionFails, InitiateSubmitted, Initiate
  <2>2. ASSUME NEW u \in Users, NEW w \in Users, Actable(inst, u, w), Act(inst, w)
        PROVE  Last
    <3>1. inst \in Instances /\ w \in pending[inst.cur]
      BY <2>2 DEF IInv, TypeOK, Actable
    <3>2. CASE CountAgree(inst, w)
      BY <3>2 DEF CountAgree
    <3>3. CASE Agree(inst, w)
      <4>1. quorum[inst.cur] = "all" => pending[inst.cur] \ {w} = {}
        BY <3>3 DEF Agree, OthersPending
      <4> QED BY <3>1, <4>1
    <3>4. CASE Resubmit(inst) \/ ResubmitToDraft(inst)
      BY <3>4, WorkflowAssumption DEF Resubmit, ResubmitToDraft
    <3>5. CASE RejectTotal(inst) \/ RejectSoft(inst) \/ \E n \in TaskNodes : MoveTo(inst, n)
      BY <3>5 DEF RejectTotal, RejectSoft, MoveTo
    <3> QED BY <2>2, <3>2, <3>3, <3>4, <3>5 DEF Act
  <2>3. CASE Administration
    BY <2>3, AdministrationMovesNothing
  <2> QED BY <2>1, <2>2, <2>3 DEF Next, Requests
<1>2. QuorumAllHeard <=> [][Last]_vars
  BY DEF QuorumAllHeard
<1> QED BY <1>1, <1>2, Invariance, PTL DEF Spec

(* An amended document resumes at the step that returned it, or further    *)
(* on when nobody operates that step: earlier approvals are not repeated.  *)
THEOREM ResumptionNeverGoesBack == Spec => ResumesAtReturningStep
<1> DEFINE Resumed == (inst.status = "running" /\ inst.cur = "draft" /\ inst.resume \in Steps
                       /\ via' = "agree" /\ inst'.cur # "draft")
                         => inst'.cur = "completed" \/ seq[inst'.cur] >= seq[inst.resume]
<1>1. IInv /\ [Next]_vars => [Resumed]_vars
  <2> SUFFICES ASSUME IInv, Next PROVE Resumed
    OBVIOUS
  <2>1. ASSUME NEW u \in Users, MarkSubmitted(u) \/ InitiateSubmitted(u) \/ SubmissionFails(u)
        PROVE  UNCHANGED inst \/ inst.status # "running"
    BY <2>1 DEF MarkSubmitted, WriteSubmitted, SubmissionFails, InitiateSubmitted, Initiate
  <2>2. ASSUME NEW u \in Users, NEW w \in Users, Actable(inst, u, w), Act(inst, w)
        PROVE  Resumed
    <3>1. inst \in Instances
      BY DEF IInv, TypeOK
    <3>2. CASE CountAgree(inst, w) \/ ResubmitToDraft(inst)
      BY <3>1, <3>2 DEF CountAgree, ResubmitToDraft, Instances
    <3>3. CASE Agree(inst, w)
      BY <3>3, WorkflowAssumption DEF Agree
    <3>4. CASE Resubmit(inst)
      <4> SUFFICES ASSUME inst.status = "running", inst.resume \in Steps
                   PROVE  inst'.cur = "completed" \/ seq[inst'.cur] >= seq[inst.resume]
        OBVIOUS
      <4> DEFINE in == [inst EXCEPT !.resume = "none"]
      <4>1. inst.resume \in InChain
        BY WorkflowAssumption DEF IInv, StepsInUse
      <4>2. OpenOrSkip(in, seq[inst.resume], Closed("draft"), ResubmittedDoc)
        BY <3>4, <4>1 DEF Resubmit
      <4>3. in \in Instances
        BY <3>1 DEF Instances
      <4> HIDE DEF in
      <4>4. PICK m \in Steps \cup {"completed"} :
              Lands(seq[inst.resume], m) /\ inst'.cur = m
        BY <4>2, <4>3 DEF OpenOrSkip, Instances
      <4> QED BY <4>4 DEF Lands
    <3>5. CASE RejectTotal(inst) \/ RejectSoft(inst) \/ \E n \in TaskNodes : MoveTo(inst, n)
      BY <3>5 DEF RejectTotal, RejectSoft, MoveTo
    <3> QED BY <2>2, <3>2, <3>3, <3>4, <3>5 DEF Act
  <2>3. CASE Administration
    BY <2>3, AdministrationMovesNothing
  <2> QED BY <2>1, <2>2, <2>3 DEF Next, Requests
<1>2. ResumesAtReturningStep <=> [][Resumed]_vars
  BY DEF ResumesAtReturningStep
<1> QED BY <1>1, <1>2, Invariance, PTL DEF Spec

(* An amender's resubmission shows: the document reads submitted again, or *)
(* approved when no step was left to decide, and never as it was returned. *)
THEOREM ResubmissionShows == Spec => ResubmittedReadsSubmitted
<1> DEFINE Shown == (ResubmitMarks /\ inst.status = "running" /\ inst.cur = "draft"
                     /\ via' = "agree" /\ inst' # inst)
                       => doc' \in {"submitted", "approved"}
<1>1. IInv /\ [Next]_vars => [Shown]_vars
  <2> SUFFICES ASSUME IInv, Next PROVE Shown
    OBVIOUS
  <2>1. ASSUME NEW u \in Users, MarkSubmitted(u) \/ InitiateSubmitted(u) \/ SubmissionFails(u)
        PROVE  UNCHANGED inst \/ inst.status # "running"
    BY <2>1 DEF MarkSubmitted, WriteSubmitted, SubmissionFails, InitiateSubmitted, Initiate
  <2>2. ASSUME NEW u \in Users, NEW w \in Users, Actable(inst, u, w), Act(inst, w)
        PROVE  Shown
    <3>1. CASE CountAgree(inst, w) \/ Agree(inst, w)
      BY <3>1, WorkflowAssumption DEF CountAgree, Agree
    <3>2. CASE Resubmit(inst)
      BY <3>2 DEF Resubmit, ResubmittedDoc, OpenOrSkip
    <3>3. CASE ResubmitToDraft(inst)
      BY <3>3 DEF ResubmitToDraft, ResubmittedDoc
    <3>4. CASE RejectTotal(inst) \/ RejectSoft(inst) \/ \E n \in TaskNodes : MoveTo(inst, n)
      BY <3>4 DEF RejectTotal, RejectSoft, MoveTo
    <3> QED BY <2>2, <3>1, <3>2, <3>3, <3>4 DEF Act
  <2>3. CASE Administration
    BY <2>3, AdministrationMovesNothing
  <2> QED BY <2>1, <2>2, <2>3 DEF Next, Requests
<1>2. ResubmittedReadsSubmitted <=> [][Shown]_vars
  BY DEF ResubmittedReadsSubmitted
<1> QED BY <1>1, <1>2, Invariance, PTL DEF Spec
===============================================================================
