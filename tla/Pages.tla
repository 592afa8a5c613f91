-------------------------------- MODULE Pages --------------------------------
(***************************************************************************)
(* One page of the console in front of one document.  The catalogue says   *)
(* what each page does (PageCatalogue); this module says what a browser, a *)
(* network and the other users do with it: loads and requests are answered *)
(* in any order or not at all, the user types and clicks while they are    *)
(* out, colleagues edit and approvers decide behind the page's back.       *)
(*                                                                         *)
(* The contents of a part are a version number: 0 is an empty part, 1 what *)
(* the document held when the page was opened, and every keystroke or      *)
(* recomputation makes a version nobody has seen before.                   *)
(***************************************************************************)
EXTENDS PageCatalogue, Naturals, FiniteSets

CONSTANTS Plans,       \* the pages of the catalogue to look at
          MaxClicks,   \* how many clicks are made on the page
          MaxVersion,  \* how many versions are ever made
          MaxVisits,   \* how often a dialog is opened
          MaxTurns,    \* how many versions and visits there are together
          MaxTrouble   \* how many messages are lost and documents touched by others

ASSUME BoundsAssumption ==
    /\ MaxClicks \in Nat \ {0} /\ MaxVersion \in Nat \ {0}
    /\ MaxVisits \in Nat /\ MaxTurns \in Nat /\ MaxTrouble \in Nat

VARIABLES
    plan,     \* the page that is open
    doc,      \* the document on the server
    seen,     \* what the last load, or adopted answer, showed
    load,     \* the load under way: useAsync keeps the newest one only
    form,     \* what the fields on the screen hold
    known,    \* the form holds the id of a row on the server
    dialog,   \* "closed", or opened on an "old" row or a "new" one
    flags,    \* the busy flags that are raised
    jobs,     \* the clicks, and the request each has out
    leaving,  \* a router.push is under way
    gone,     \* the page has been left
    past      \* what happened: see below

screen == <<seen, form, known, dialog, flags, leaving, gone>>
vars == <<plan, doc, load, jobs, past, screen>>

Empty == [p \in Parts |-> 0]
(* flow: the approval that is running, if any: with the approvers, or back *)
(* with whoever is to amend the document.                                  *)
Flows == {"none", "open", "amend"}
NoDoc == [status |-> "none", flow |-> "none", body |-> Empty]

NotMade == [phase |-> "not made"]
Over == [phase |-> "over"]

(* past.  newest: the last version made; owed: the parts that hold what    *)
(* was typed while nothing under way would replace them, and what the      *)
(* server never held; made: how often the form on the screen created a     *)
(* row, two standing for more; visit: how often a dialog was opened; lost  *)
(* and others: the messages lost and the times somebody else touched the   *)
(* document; eager: a click after the page began to leave; marked: a       *)
(* submission was turned down after it had set the status of the document; *)
(* unsure: the answer to a creation was lost.                              *)
Trouble == past.lost + past.others < MaxTrouble
Stale == past.others > 0

FlowsAt(st) ==
    CASE st = "submitted" -> {"open"}
      [] st = "returned" -> {"amend"}
      [] st = "rejected" -> {"none", "amend"}
      [] OTHER -> {"none"}

Init ==
    /\ plan \in Plans
    /\ doc \in IF plan.opens = "blank" THEN {NoDoc}
               ELSE [status : plan.server.starts \cup plan.server.met, flow : Flows,
                     body : {[p \in Parts |-> 1]}]
    /\ doc.flow \in FlowsAt(doc.status)
    /\ seen = NoDoc /\ form = Empty
    /\ load = [phase |-> IF plan.opens = "blank" THEN "none" ELSE "asked", doc |-> NoDoc]
    /\ known = (plan.opens # "blank") /\ dialog = "closed"
    /\ flags = {} /\ jobs = [s \in 1..MaxClicks |-> NotMade]
    /\ leaving = FALSE /\ gone = FALSE
    /\ past = [newest |-> 1, owed |-> {}, made |-> 0, visit |-> 0,
               lost |-> 0, others |-> 0, eager |-> FALSE, marked |-> FALSE, unsure |-> FALSE]

-----------------------------------------------------------------------------
(* Loads: useAsync drops the answer of every load but the newest, keeps    *)
(* the data it has while it loads and when it fails.                       *)

(* MUTANT of Ask: no second load while one is under way.                   *)
AskOnce ==
    IF load.phase = "none" THEN load' = [phase |-> "asked", doc |-> NoDoc] ELSE UNCHANGED load

Ask == load' = [phase |-> "asked", doc |-> NoDoc]

ServeLoad ==
    /\ ~gone /\ load.phase = "asked"
    /\ load' = [phase |-> "answered", doc |-> doc]
    /\ UNCHANGED <<plan, doc, jobs, past, screen>>

ShowLoad ==
    /\ ~gone /\ load.phase = "answered"
    /\ seen' = load.doc
    /\ form' = [p \in Parts |-> IF p \in plan.parts THEN load.doc.body[p] ELSE form[p]]
    /\ load' = [phase |-> "none", doc |-> NoDoc]
    /\ UNCHANGED <<plan, doc, known, dialog, flags, jobs, leaving, gone, past>>

FailLoad ==
    /\ ~gone /\ load.phase # "none" /\ Trouble
    /\ load' = [phase |-> "none", doc |-> NoDoc]
    /\ past' = [past EXCEPT !.lost = @ + 1]
    /\ UNCHANGED <<plan, doc, jobs, screen>>

-----------------------------------------------------------------------------
(* The user.                                                               *)

(* What the controls go by: a row not saved yet, one the open dialog has    *)
(* just created, or the row the last load showed.                          *)
Shown == IF ~known THEN "new" ELSE IF dialog = "new" THEN "active" ELSE seen.status
Out == {s \in DOMAIN jobs : jobs[s].phase \in {"sent", "ok", "bad"}}
Quiet == Out = {} /\ load.phase = "none"
InReach(b) == b.place = IF dialog = "closed" THEN "page" ELSE "dialog"
Fields == IF dialog = "closed" THEN plan.fields ELSE plan.dialogParts

(* The next version, typed or computed. *)
Fresh == past.newest + 1
Turn == past.newest + past.visit < MaxTurns
CanMake == Fresh <= MaxVersion /\ Turn

(* Typing goes on until somebody takes what the field holds.               *)
Taken(p) == form[p] \in {0, doc.body[p], seen.body[p]} \cup {jobs[s].sent[p] : s \in Out}

(* What a button throws away of the form when it is done with, by a load   *)
(* it asks for, an answer it takes in or a dialog it closes.               *)
ThrowsAway(q, b, p) ==
    \/ p \in q.parts /\ {"reload", "reloadAnyway"} \cap b.after # {}
    \/ p \in q.parts \cup q.dialogParts /\ "adopt" \in b.after
    \/ p \in q.dialogParts /\ "close" \in b.after
    \/ {"clear", "revert"} \cap b.after # {}

(* A load, or a click, is under way whose answer replaces the part.        *)
BeingReplaced(p) ==
    \/ p \in plan.parts /\ load.phase # "none"
    \/ \E s \in Out : ThrowsAway(plan, jobs[s].button, p)

Type(p) ==
    /\ ~gone /\ p \in Fields /\ Shown \in plan.types /\ CanMake /\ Taken(p)
    /\ form' = [form EXCEPT ![p] = Fresh]
    /\ past' = [past EXCEPT !.newest = Fresh, 
                            !.owed = IF BeingReplaced(p) THEN @ \ {p} ELSE @ \cup {p}]
    /\ UNCHANGED <<plan, doc, seen, load, known, dialog, flags, jobs, leaving, gone>>

(* A dialog starts from the row it is opened on, or empty; and without the *)
(* flags of its last visit where it is a component of its own.             *)
OpenDialog(kind) ==
    /\ ~gone /\ dialog = "closed" /\ kind \in plan.dialogs
    /\ kind = "old" \/ plan.opens = "row" => seen.status \in plan.types
    /\ past.visit < MaxVisits /\ Turn
    /\ dialog' = kind /\ known' = (kind = "old")
    /\ form' = [p \in Parts |-> IF p \notin plan.dialogParts THEN form[p]
                                ELSE IF kind = "old" THEN seen.body[p] ELSE 0]
    /\ flags' = flags \ plan.dialogFlags
    /\ past' = [past EXCEPT !.visit = @ + 1, !.made = 0, !.unsure = FALSE,
                            !.owed = @ \ plan.dialogParts]
    /\ UNCHANGED <<plan, doc, seen, load, jobs, leaving, gone>>

Closed == [p \in Parts |-> IF p \notin plan.dialogParts THEN form[p]
                           ELSE IF p \in plan.parts THEN seen.body[p] ELSE 0]

(* Dismissing a new row that was saved already reports it (dismiss). *)
CancelDialog ==
    /\ ~gone /\ dialog # "closed"
    /\ plan.locked => \A b \in plan.buttons : b.place = "dialog" => b.waits \notin flags
    /\ dialog' = "closed" /\ known' = TRUE /\ form' = Closed
    /\ IF dialog = "new" /\ known THEN Ask ELSE UNCHANGED load
    /\ past' = [past EXCEPT !.owed = @ \ plan.dialogParts]
    /\ UNCHANGED <<plan, doc, seen, flags, jobs, leaving, gone>>

(* MUTANT of Offered: the flag is not looked at.                           *)
OfferedAnyway(b) == InReach(b) /\ Shown \in b.at

(* A click takes what the form holds; a button without a flag may be       *)
(* clicked again while its request is out.                                 *)
Offered(b) == InReach(b) /\ Shown \in b.at /\ b.waits \notin flags

Click(b) ==
    /\ ~gone /\ b \in plan.buttons /\ Offered(b)
    /\ \E s \in DOMAIN jobs :
          /\ jobs[s] = NotMade /\ \A t \in DOMAIN jobs : t < s => jobs[t] # NotMade
          /\ jobs' = [t \in DOMAIN jobs |->
                IF t = s
                THEN [phase |-> "sent", button |-> b, step |-> 1, sent |-> form, known |-> known,
                      visit |-> past.visit, alone |-> Out = {}, answer |-> Empty]
                ELSE IF t \in Out THEN [jobs[t] EXCEPT !.alone = FALSE] ELSE jobs[t]]
    /\ flags' = b.raises \cup IF plan.oneBusy THEN {} ELSE flags
    /\ past' = [past EXCEPT !.eager = @ \/ leaving]
    /\ UNCHANGED <<plan, doc, seen, load, form, known, dialog, leaving, gone>>

(* A form the handler itself refuses sends nothing.  The settings pages    *)
(* have a lock of their own in front of the handler, which only the end of *)
(* a request takes off.                                                    *)
Refuse(b) ==
    /\ ~gone /\ b \in plan.buttons /\ Offered(b) /\ "locksOnRefusal" \in b.after
    /\ flags' = flags \cup b.raises
    /\ UNCHANGED <<plan, doc, seen, load, form, known, dialog, jobs, leaving, gone, past>>

Navigate ==
    /\ leaving /\ ~gone
    /\ gone' = TRUE
    /\ UNCHANGED <<plan, doc, seen, load, form, known, dialog, flags, jobs, leaving, past>>

-----------------------------------------------------------------------------
(* The server answers a request, in any order among those that are out.    *)

StepOf(j) == j.button.steps[j.step]

(* MUTANT of Saved: the lines are not stored.                              *)
SavedHeader(j) == [p \in Parts |-> IF p \in StepOf(j).parts \ {"rows"} THEN j.sent[p] ELSE doc.body[p]]

Stored(j) == {p \in StepOf(j).parts : j.sent[p] = form[p]}
Saved(j) == [p \in Parts |-> IF p \in StepOf(j).parts THEN j.sent[p] ELSE doc.body[p]]
Answered(s, ok, body) ==
    jobs' = [jobs EXCEPT ![s].phase = IF ok THEN "ok" ELSE "bad",
                         ![s].answer = IF ok /\ "adopt" \in jobs[s].button.after THEN body ELSE Empty]

Asked(s, op) == jobs[s].phase = "sent" /\ StepOf(jobs[s]).op = op
Editable == doc.status \in plan.server.edits

(* A save: PUT of a row the page knows, POST of a new one. *)
ServeUpdate(s) ==
    /\ Asked(s, "store") /\ jobs[s].known
    /\ doc' = IF Editable THEN [doc EXCEPT !.body = Saved(jobs[s])] ELSE doc
    /\ past' = IF Editable THEN [past EXCEPT !.owed = @ \ Stored(jobs[s])] ELSE past
    /\ Answered(s, Editable, Saved(jobs[s]))
    /\ UNCHANGED <<plan, load, screen>>

Started(st, body) ==
    [status |-> st, flow |-> IF st = "submitted" THEN "open" ELSE "none", body |-> body]

(* A row of its own, or one more line of the document of the page. *)
ServeCreate(s) ==
    /\ Asked(s, "store") /\ ~jobs[s].known
    /\ LET line == plan.opens = "row"
           ok == line => Editable
           body == IF line THEN Saved(jobs[s])
                   ELSE [p \in Parts |-> IF p \in StepOf(jobs[s]).parts THEN jobs[s].sent[p] ELSE 0]
       IN /\ doc' \in IF ~ok THEN {doc} ELSE IF line THEN {[doc EXCEPT !.body = body]}
                       ELSE {Started(st, body) : st \in plan.server.starts}
          /\ past' = IF ok
                     THEN [past EXCEPT
                             !.made = IF jobs[s].visit = past.visit /\ @ < 2 THEN @ + 1 ELSE @,
                             !.owed = @ \ Stored(jobs[s])]
                     ELSE past
          /\ Answered(s, ok, body)
    /\ UNCHANGED <<plan, load, screen>>

(* Submit handlers write the status first and start the approval second: a *)
(* document whose approval is running, with the approvers or with whoever  *)
(* is to amend it, reads submitted and the page gets an error.             *)
Submittable == doc.status \in plan.server.submits
Submitted == [doc EXCEPT !.status = "submitted", !.flow = IF @ = "none" THEN "open" ELSE @]

ServeSubmit(s) ==
    /\ Asked(s, "submit")
    /\ LET ok == Submittable /\ doc.flow = "none"
       IN /\ doc' = IF Submittable THEN Submitted ELSE doc
          /\ past' = [past EXCEPT !.marked = @ \/ (~ok /\ doc' # doc)]
          /\ Answered(s, ok, doc.body)
    /\ UNCHANGED <<plan, load, screen>>

(* Approved, rejected for good, or sent back, with a status that differs   *)
(* between the modules; who amends it resubmits it or gives it up.         *)
Decisions ==
    {[doc EXCEPT !.status = "rejected", !.flow = "none"],
     [doc EXCEPT !.status = plan.server.soft, !.flow = "amend"],
     IF doc.flow = "open" THEN [doc EXCEPT !.status = "approved", !.flow = "none"]
     ELSE [doc EXCEPT !.status = "submitted", !.flow = "open"]}

(* The server works something out and writes it over some of the parts.    *)
ServeDerive(s) ==
    /\ Asked(s, "derive")
    /\ Editable => CanMake
    /\ LET made == [p \in Parts |-> IF p \in StepOf(jobs[s]).parts THEN Fresh ELSE doc.body[p]]
       IN /\ doc' = IF Editable THEN [doc EXCEPT !.body = made] ELSE doc
          /\ past' = IF Editable THEN [past EXCEPT !.newest = Fresh] ELSE past
          /\ Answered(s, Editable, made)
    /\ UNCHANGED <<plan, load, screen>>

ServeRemove(s) ==
    /\ Asked(s, "remove")
    /\ doc' = IF Editable THEN NoDoc ELSE doc
    /\ Answered(s, Editable, Empty)
    /\ UNCHANGED <<plan, load, past, screen>>

(* The decision of the approver whose page this is. *)
ServeDecide(s) ==
    /\ Asked(s, "decide")
    /\ doc' \in IF doc.flow = "none" THEN {doc} ELSE Decisions
    /\ Answered(s, doc.flow # "none", doc.body)
    /\ UNCHANGED <<plan, load, past, screen>>

(* Anything else a button asks for: a test mail, a synchronisation, a run. *)
ServeAside(s) ==
    /\ Asked(s, "aside")
    /\ \E ok \in BOOLEAN : Answered(s, ok, doc.body)
    /\ UNCHANGED <<plan, doc, load, past, screen>>

Serve(s) ==
    \/ ServeUpdate(s) \/ ServeCreate(s) \/ ServeSubmit(s)
    \/ ServeDerive(s) \/ ServeRemove(s) \/ ServeDecide(s)
    \/ ServeAside(s)

(* The network loses the request, or the server finds a field, a duplicate *)
(* or a row in use wrong with it; or the answer to one that was carried    *)
(* out is lost.  The page sees an error each time.                         *)
Lose(s) ==
    /\ jobs[s].phase \in {"sent", "ok"} /\ Trouble
    /\ jobs' = [jobs EXCEPT ![s].phase = "bad", ![s].answer = Empty]
    /\ past' = [past EXCEPT !.lost = @ + 1, !.unsure = @ \/ jobs[s].phase = "ok"]
    /\ UNCHANGED <<plan, doc, load, screen>>

-----------------------------------------------------------------------------
(* The page goes on when an answer is in.                                  *)

(* MUTANT of Lowered: all flags go down with any answer.                   *)
LoweredAll(j, raised) == {}

(* Clearing a flag of a dialog that has been opened anew since has no      *)
(* effect: the component it belonged to is gone.                           *)
Lowered(j, raised) ==
    IF plan.oneBusy THEN {}
    ELSE flags \ IF j.visit = past.visit THEN raised ELSE raised \ plan.dialogFlags

(* A borrowed flag goes down, and the answer is taken in, as soon as the   *)
(* borrowed save is through.                                               *)
Borrowed(j) == j.button.raises \ {j.button.waits}
Adopts(j) == "adopt" \in j.button.after /\ StepOf(j).op # "submit"
AnswerTaken(j) == [p \in Parts |-> IF p \in plan.parts \cup plan.dialogParts THEN j.answer[p]
                             ELSE form[p]]

(* The flags a click still has to lower. *)
StillRaised(j) == IF j.step = 1 THEN j.button.raises ELSE j.button.raises \ Borrowed(j)

Continue(s) ==
    /\ jobs[s].phase = "ok" /\ jobs[s].step < Len(jobs[s].button.steps)
    /\ LET j == jobs[s]
           through == ~gone /\ Borrowed(j) # {}
       IN /\ jobs' = [jobs EXCEPT ![s].step = @ + 1, ![s].phase = "sent", ![s].answer = Empty]
          /\ flags' = IF through THEN Lowered(j, Borrowed(j)) ELSE flags
          /\ form' = IF through /\ Adopts(j) THEN AnswerTaken(j) ELSE form
          /\ seen' = IF through /\ Adopts(j) THEN [seen EXCEPT !.body = j.answer] ELSE seen
          /\ IF through /\ "reload" \in j.button.after /\ ~Adopts(j)
             THEN Ask ELSE UNCHANGED load
    /\ UNCHANGED <<plan, doc, past, known, dialog, leaving, gone>>

Succeed(s) ==
    /\ ~gone /\ jobs[s].phase = "ok" /\ jobs[s].step = Len(jobs[s].button.steps)
    /\ LET j == jobs[s]
           after == j.button.after
           closes == "close" \in after /\ dialog # "closed"
       IN /\ jobs' = [jobs EXCEPT ![s] = Over]
          /\ flags' = IF "staysBusy" \in after THEN flags ELSE Lowered(j, StillRaised(j))
          /\ leaving' = (leaving \/ "leave" \in after)
          /\ known' = (known \/ closes \/ ("know" \in after /\ j.visit = past.visit))
          /\ dialog' = IF closes THEN "closed" ELSE dialog
          /\ seen' = IF Adopts(j) THEN [seen EXCEPT !.body = j.answer] ELSE seen
          /\ form' = IF Adopts(j) THEN AnswerTaken(j)
                     ELSE IF closes THEN Closed
                     ELSE IF "revert" \in after THEN seen.body
                     ELSE IF "clear" \in after THEN Empty ELSE form
          /\ past' = [past EXCEPT
                        !.made = IF "clear" \in after THEN 0 ELSE @,
                        !.owed = IF closes /\ StepOf(j).op = "remove" THEN @ \ plan.dialogParts
                                 ELSE @]
          /\ IF "reload" \in after THEN Ask ELSE UNCHANGED load
    /\ UNCHANGED <<plan, doc, gone>>

(* MUTANT of Fail: every page loads again.                                 *)
FailReloading(s) ==
    /\ ~gone /\ jobs[s].phase = "bad"
    /\ jobs' = [jobs EXCEPT ![s] = Over]
    /\ flags' = Lowered(jobs[s], StillRaised(jobs[s]))
    /\ Ask
    /\ UNCHANGED <<plan, doc, seen, form, known, dialog, leaving, gone, past>>

(* MUTANT of Fail: the flag is lowered on success only.                    *)
FailWithoutFinally(s) ==
    /\ ~gone /\ jobs[s].phase = "bad"
    /\ jobs' = [jobs EXCEPT ![s] = Over]
    /\ IF "reloadAnyway" \in jobs[s].button.after THEN Ask ELSE UNCHANGED load
    /\ UNCHANGED <<plan, doc, seen, form, known, dialog, flags, leaving, gone, past>>

(* An error is shown; nothing else changes but on the pages that load      *)
(* again whatever happened.                                                *)
Fail(s) ==
    /\ ~gone /\ jobs[s].phase = "bad"
    /\ jobs' = [jobs EXCEPT ![s] = Over]
    /\ flags' = Lowered(jobs[s], StillRaised(jobs[s]))
    /\ IF "reloadAnyway" \in jobs[s].button.after THEN Ask ELSE UNCHANGED load
    /\ UNCHANGED <<plan, doc, seen, form, known, dialog, leaving, gone, past>>

-----------------------------------------------------------------------------
(* Other people: a colleague with the same page, the approvers.            *)

Touched == [past EXCEPT !.others = @ + 1]

ColleagueEdits(p) ==
    /\ ~gone /\ Trouble /\ Editable /\ CanMake
    /\ p \in plan.parts \cup plan.dialogParts
    /\ doc' = [doc EXCEPT !.body[p] = Fresh]
    /\ past' = [Touched EXCEPT !.newest = Fresh]
    /\ UNCHANGED <<plan, load, jobs, screen>>

ColleagueSubmits ==
    /\ ~gone /\ Trouble
    /\ Submittable /\ Submitted # doc
    /\ doc' = Submitted
    /\ past' = Touched
    /\ UNCHANGED <<plan, load, jobs, screen>>

ApproverDecides ==
    /\ ~gone /\ Trouble /\ doc.flow # "none"
    /\ doc' \in Decisions
    /\ past' = Touched
    /\ UNCHANGED <<plan, load, jobs, screen>>

-----------------------------------------------------------------------------
UserActs ==
    \/ \E p \in Parts : Type(p)
    \/ \E kind \in {"old", "new"} : OpenDialog(kind)
    \/ CancelDialog
    \/ \E b \in plan.buttons : Click(b) \/ Refuse(b)
BrowserActs ==
    \/ ShowLoad \/ Navigate
    \/ \E s \in DOMAIN jobs : Continue(s) \/ Succeed(s) \/ Fail(s)
ServerActs == ServeLoad \/ \E s \in DOMAIN jobs : Serve(s)
NetworkActs == FailLoad \/ \E s \in DOMAIN jobs : Lose(s)
OthersAct == ColleagueSubmits \/ ApproverDecides \/ \E p \in Parts : ColleagueEdits(p)

Next == UserActs \/ BrowserActs \/ ServerActs \/ NetworkActs \/ OthersAct

Spec == Init /\ [][Next]_vars

-----------------------------------------------------------------------------
(* Types.                                                                  *)

Bodies == [Parts -> Nat]
Docs == [status : Statuses \cup {"none"}, flow : Flows, body : Bodies]
Requests(q) ==
    [phase : {"sent", "ok", "bad"}, button : q.buttons, step : Nat, sent : Bodies,
     known : BOOLEAN, visit : Nat, alone : BOOLEAN, answer : Bodies]

Histories ==
    [newest : Nat, owed : SUBSET Parts, made : Nat, visit : Nat, lost : Nat,
     others : Nat, eager : BOOLEAN, marked : BOOLEAN, unsure : BOOLEAN]

(* The document, the forms and the requests keep their types.              *)
TypeOK ==
    /\ plan \in Plans
    /\ doc \in Docs /\ seen \in Docs /\ load \in [phase : {"none", "asked", "answered"}, doc : Docs]
    /\ form \in Bodies /\ known \in BOOLEAN /\ dialog \in {"closed", "old", "new"}
    /\ flags \subseteq UNION {b.raises : b \in plan.buttons}
    /\ jobs \in [1..MaxClicks -> {NotMade, Over} \cup Requests(plan)]
    /\ leaving \in BOOLEAN /\ gone \in BOOLEAN
    /\ past \in Histories

-----------------------------------------------------------------------------
(* Properties.                                                             *)

(* What these pages are known to lose: a button reloads, or takes the      *)
(* server's answer into, more of the form than it has sent, or closes a     *)
(* dialog that holds two forms.                                            *)
Forgotten ==
    {<<EditReceiptPage, "head">>, <<MiLossDocumentPage, "head">>, <<EditUserModal, "rows">>,
     <<CompartmentalizationDocumentPage, "rows">>, <<DelegationTab, "head">>,
     <<SagePanel, "head">>}
    \cup {FcfBatchPage, PriceBatchEditor, FxDocumentPage, TruckConfigurePage} \X Parts

(* What was typed stays on the screen until the server has it, or the user *)
(* throws it away or types over it, whatever loads and answers arrive      *)
(* later and in whatever order.  Not so what is typed into a part while a  *)
(* load or a click is under way whose answer replaces that very part, its  *)
(* own save, say: these pages do lose that.                                *)
EditsSurvive ==
    [][\A p \in past.owed \cap past'.owed :
          <<plan, p>> \notin Forgotten => form'[p] \in {form[p], Fresh}]_vars

(* Pages whose Submit sends nothing of the form. *)
SubmitsStored ==
    {CompartmentalizationDocumentPage, FcfBatchPage, PriceBatchEditor, FxDocumentPage}

(* What goes to the approvers is what the form held at the click, unless a *)
(* colleague, or another request of the same page, came in between.        *)
SubmittedAsShown ==
    [][\A s \in DOMAIN jobs :
         Asked(s, "submit") /\ jobs'[s].phase = "ok" /\ jobs[s].alone /\ ~Stale
         /\ plan \notin SubmitsStored
            => \A p \in plan.parts : doc'.body[p] = jobs[s].sent[p]]_vars

(* One form makes one document, unless the user clicks again on a page     *)
(* that is leaving or after an answer that never arrived.                  *)
OneDocumentPerForm == past.made > 1 => past.eager \/ past.unsure

(* Flags that another handler borrows, or all buttons share, guard nothing. *)
Guards(q) ==
    IF q.oneBusy THEN {}
    ELSE {b.waits : b \in q.buttons} \ ({""} \cup UNION {b.raises \ {b.waits} : b \in q.buttons})
Guarded(f) == {s \in Out : jobs[s].button.waits = f
                           /\ (f \in plan.dialogFlags => jobs[s].visit = past.visit)}

(* A busy flag lets one request through at a time, and for as long as it   *)
(* is out the flag is up.                                                  *)
OneRequestPerGuard ==
    ~gone => \A f \in Guards(plan) :
                /\ Cardinality(Guarded(f)) <= 1
                /\ Guarded(f) # {} => f \in flags

(* No button waits for ever: a raised flag has a request out that will     *)
(* take it down, or belongs to a page that is leaving.  The tab with the   *)
(* schedules is excepted: its Save is stuck once it has refused a form.    *)
Sticks(q) == \E b \in q.buttons : "locksOnRefusal" \in b.after
NoStuckButton ==
    ~Sticks(plan) => \A f \in flags : \/ \E s \in Out : f \in StillRaised(jobs[s])
                     \/ leaving

(* Two pages do not look again after saving; on a third the answers that    *)
(* are taken in may arrive out of order, its buttons waiting for none.     *)
Unrefreshed == {CompartmentalizationDocumentPage, DelegationTab, MiLossDocumentPage}

(* Once nothing is out, the screen shows the document as it is, unless a   *)
(* message was lost, somebody else has touched it or a submission that was *)
(* turned down has marked it.                                              *)
ScreenCatchesUp ==
    Quiet /\ plan \notin Unrefreshed /\ plan.opens = "row" /\ past.lost = 0 /\ ~Stale /\ seen # NoDoc
       => seen.body = doc.body /\ (seen = doc \/ past.marked)

-----------------------------------------------------------------------------
(* How the pages of the catalogue are made: what the proofs ask of them.   *)

Creates(q) == q.opens = "blank" \/ "new" \in q.dialogs
Creators(q) ==
    {b \in q.buttons : /\ Creates(q) /\ "new" \in b.at
                       /\ \E k \in DOMAIN b.steps : b.steps[k].op = "store"}

Typed(q) ==
    /\ q.server.starts \cup q.server.met \cup {q.server.soft} \subseteq Statuses
    /\ q.opens \in {"blank", "row", "list"} /\ q.dialogs \subseteq {"old", "new"}
    /\ \A b \in q.buttons : b.steps \in Seq([op : STRING, parts : SUBSET Parts]) \ {<<>>}

(* A button that waits for a flag raises it, and keeps it up only to leave.*)
Busy(q) ==
    \A b \in q.buttons : /\ b.waits # "" => b.waits \in b.raises
                         /\ "staysBusy" \in b.after => "leave" \in b.after

(* A new row is made by one request of buttons that wait for one another;  *)
(* once it is made the form knows it, is emptied, or goes.                 *)
MakesOnce(q) ==
    /\ q.opens = "blank" => q.dialogs = {}
    /\ \A b \in Creators(q) :
          /\ Len(b.steps) = 1 /\ b.waits \in Guards(q)
          /\ \A c \in Creators(q) : b.waits = c.waits
          /\ b.after \cap ({"leave", "know", "clear"} \cup IF q.opens = "blank" THEN {} ELSE {"close"}) # {}

(* A submission follows upon a save of all the page shows.                 *)
SavesFirst(q) ==
    q \notin SubmitsStored /\ q.parts # {} =>
        \A b \in q.buttons : \A k \in DOMAIN b.steps : b.steps[k].op = "submit" =>
            k > 1 /\ b.steps[k - 1].op = "store" /\ q.parts \subseteq b.steps[k - 1].parts

(* A button that may have changed the document looks again when it is done *)
(* with it, or as soon as the save it borrows is; only a submission that   *)
(* nothing can turn down any more may follow a save first.                 *)
NeverRefused(q, b) ==
    /\ Len(b.steps) = 2 /\ b.steps[1].op = "store" /\ b.steps[2].op = "submit"
    /\ b.waits \in Guards(q) \ q.dialogFlags /\ b.raises \subseteq {b.waits}
    /\ q.server.edits \subseteq q.server.submits \ {"submitted"}
    /\ \A st \in q.server.edits : FlowsAt(st) = {"none"}
    /\ \A c \in q.buttons : \A k \in DOMAIN c.steps :
          /\ c.steps[k].op \in {"store", "derive", "submit", "aside"}
          /\ c.steps[k].op = "submit" => c.waits = b.waits

LooksAgain(q) ==
    q.opens = "row" /\ q \notin Unrefreshed =>
        \A b \in q.buttons :
           \/ "adopt" \notin b.after /\ \A k \in DOMAIN b.steps : b.steps[k].op = "aside"
           \/ /\ "reload" \in b.after
              /\ \/ Len(b.steps) = 1
                 \/ "adopt" \notin b.after /\ b.raises \ {b.waits} # {}
                 \/ NeverRefused(q, b)

(* What a button throws away of the form it has sent to the server; of a   *)
(* dialog that goes with its row there is nothing to keep.                 *)
Sends(b, p) ==
    /\ "reloadAnyway" \notin b.after
    /\ \E k \in DOMAIN b.steps : /\ b.steps[k].op = "store" /\ p \in b.steps[k].parts
                                 /\ k = 1 \/ b.raises \subseteq {b.waits}

GoesWithRow(q, b, p) ==
    /\ p \in q.dialogParts \ q.parts /\ b.after \cap {"adopt", "clear", "revert"} = {}
    /\ Len(b.steps) = 1 /\ b.steps[1].op = "remove"

KeepsTyped(q) ==
    /\ q.fields \cap q.dialogParts = {}
    /\ \A p \in q.fields \cup q.dialogParts :
          <<q, p>> \notin Forgotten =>
              /\ "new" \in q.dialogs => p \notin q.parts \ q.dialogParts
              /\ \A b \in q.buttons :
                    ThrowsAway(q, b, p) /\ (p \in q.dialogParts => b.place = "dialog")
                       => Sends(b, p) \/ GoesWithRow(q, b, p)

ASSUME PlansAssumption ==
    \A q \in Plans : /\ Typed(q) /\ Busy(q) /\ MakesOnce(q) /\ SavesFirst(q)
                     /\ LooksAgain(q) /\ KeepsTyped(q)
=============================================================================
