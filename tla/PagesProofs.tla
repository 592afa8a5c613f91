----------------------------- MODULE PagesProofs -----------------------------
(***************************************************************************)
(* What holds on every page of the console, whatever the user, the network *)
(* and the others do and however often: the busy flags let one request     *)
(* through and none stays raised for nothing, one form makes one document, *)
(* what is submitted is what the form held at the click, the screen        *)
(* catches up with the server and what is typed stays on it.               *)
(***************************************************************************)
EXTENDS Pages, FiniteSetTheorems, TLAPS

-----------------------------------------------------------------------------
(* What a step does to the requests.                                       *)

Phases == {"sent", "ok", "bad"}

LEMMA NoRequest == NotMade.phase \notin Phases /\ Over.phase \notin Phases
BY DEF NotMade, Over, Phases

(* A slot of the clicks holds a request exactly while its phase says so.   *)
LEMMA OutAreRequests ==
    ASSUME TypeOK
    PROVE  /\ DOMAIN jobs = 1..MaxClicks /\ Out \subseteq 1..MaxClicks
           /\ \A s \in Out : jobs[s] \in Requests(plan)
           /\ \A s \in 1..MaxClicks : s \notin Out => jobs[s] \in {NotMade, Over}
<1>1. DOMAIN jobs = 1..MaxClicks /\ Out \subseteq 1..MaxClicks
  BY DEF TypeOK, Out
<1>2. ASSUME NEW s \in 1..MaxClicks
      PROVE  IF s \in Out THEN jobs[s] \in Requests(plan) ELSE jobs[s] \in {NotMade, Over}
  <2>1. jobs[s] \in {NotMade, Over} \cup Requests(plan)
    BY DEF TypeOK
  <2>2. CASE jobs[s] \in {NotMade, Over}
    BY <1>1, <2>2, NoRequest DEF Out, Phases
  <2>3. CASE jobs[s] \in Requests(plan)
    BY <1>1, <2>3 DEF Out, Requests
  <2> QED  BY <2>1, <2>2, <2>3
<1> QED  BY <1>1, <1>2

(* An answer, a loss, the next request of the same click leave a request.  *)
LEMMA RequestEdited ==
    ASSUME NEW q, NEW r \in Requests(q), NEW ph \in Phases, NEW n \in Nat, NEW a \in Bodies
    PROVE  /\ [r EXCEPT !.phase = ph, !.answer = a] \in Requests(q)
           /\ [r EXCEPT !.step = n, !.phase = ph, !.answer = a] \in Requests(q)
           /\ [r EXCEPT !.alone = FALSE] \in Requests(q)
BY DEF Requests, Phases

SameRequest(t) ==
    /\ jobs'[t].button = jobs[t].button /\ jobs'[t].sent = jobs[t].sent
    /\ jobs'[t].known = jobs[t].known /\ jobs'[t].visit = jobs[t].visit
    /\ jobs'[t].alone = jobs[t].alone

(* The request of s gets phase ph and step n, and nothing else happens.    *)
Moved(s, ph, n) ==
    /\ jobs' \in [1..MaxClicks -> {NotMade, Over} \cup Requests(plan)]
    /\ Out' = Out
    /\ \A t \in Out : SameRequest(t) /\ (t # s => jobs'[t] = jobs[t])
    /\ jobs'[s].phase = ph /\ jobs'[s].step = n

(* The request of s is over. *)
Ended(s) ==
    /\ jobs' \in [1..MaxClicks -> {NotMade, Over} \cup Requests(plan)]
    /\ s \in Out /\ Out' = Out \ {s}
    /\ \A t \in Out' : jobs'[t] = jobs[t]

LEMMA AnswerMoves ==
    ASSUME TypeOK, NEW s \in DOMAIN jobs, NEW ok \in BOOLEAN, NEW body \in Bodies,
           jobs[s].phase = "sent", Answered(s, ok, body)
    PROVE  s \in Out /\ Moved(s, IF ok THEN "ok" ELSE "bad", jobs[s].step)
<1> DEFINE ph == IF ok THEN "ok" ELSE "bad"
           a == IF ok /\ "adopt" \in jobs[s].button.after THEN body ELSE Empty
           r == [jobs[s] EXCEPT !.phase = ph, !.answer = a]
<1>1. s \in Out /\ s \in 1..MaxClicks /\ jobs[s] \in Requests(plan)
  BY OutAreRequests DEF Out
<1>2. ph \in Phases /\ a \in Bodies
  BY DEF Phases, Bodies, Empty
<1>3. r \in Requests(plan)
  BY <1>1, <1>2, RequestEdited DEF Requests
<1>4. /\ r.phase = ph /\ r.button = jobs[s].button /\ r.sent = jobs[s].sent /\ r.known = jobs[s].known
      /\ r.visit = jobs[s].visit /\ r.alone = jobs[s].alone /\ r.step = jobs[s].step
  BY <1>1 DEF Requests
<1>5. jobs' = [jobs EXCEPT ![s] = r]
  BY <1>1 DEF Answered, TypeOK
<1> HIDE DEF r, ph
<1>6. jobs' \in [1..MaxClicks -> {NotMade, Over} \cup Requests(plan)]
  BY <1>1, <1>3, <1>5 DEF TypeOK
<1>7. jobs'[s] = r /\ DOMAIN jobs' = DOMAIN jobs /\ \A t \in DOMAIN jobs : t # s => jobs'[t] = jobs[t]
  BY <1>1, <1>5 DEF TypeOK
<1>8. ph \in Phases
  BY <1>2
<1>9. Out' = Out
  BY <1>1, <1>4, <1>7, <1>8 DEF Out, Phases
<1> QED  BY <1>1, <1>4, <1>6, <1>7, <1>9 DEF Moved, SameRequest, Out, ph

LEMMA LossMoves ==
    ASSUME TypeOK, NEW s \in DOMAIN jobs, Lose(s)
    PROVE  s \in Out /\ Moved(s, "bad", jobs[s].step)
<1> DEFINE r == [jobs[s] EXCEPT !.phase = "bad", !.answer = Empty]
<1>1. s \in Out /\ s \in 1..MaxClicks /\ jobs[s] \in Requests(plan)
  BY OutAreRequests DEF Lose, Out
<1>2. "bad" \in Phases /\ Empty \in Bodies
  BY DEF Phases, Bodies, Empty
<1>3. r \in Requests(plan)
  BY <1>1, <1>2, RequestEdited DEF Requests
<1>4. /\ r.phase = "bad" /\ r.button = jobs[s].button /\ r.sent = jobs[s].sent /\ r.known = jobs[s].known
      /\ r.visit = jobs[s].visit /\ r.alone = jobs[s].alone /\ r.step = jobs[s].step
  BY <1>1 DEF Requests
<1>5. jobs' = [jobs EXCEPT ![s] = r]
  BY <1>1 DEF Lose, TypeOK
<1> HIDE DEF r
<1>6. jobs' \in [1..MaxClicks -> {NotMade, Over} \cup Requests(plan)]
  BY <1>1, <1>3, <1>5 DEF TypeOK
<1>7. jobs'[s] = r /\ DOMAIN jobs' = DOMAIN jobs /\ \A t \in DOMAIN jobs : t # s => jobs'[t] = jobs[t]
  BY <1>1, <1>5 DEF TypeOK
<1>8. Out' = Out
  BY <1>1, <1>4, <1>7 DEF Out
<1> QED  BY <1>1, <1>4, <1>6, <1>7, <1>8 DEF Moved, SameRequest, Out

LEMMA NextRequestMoves ==
    ASSUME TypeOK, NEW s \in DOMAIN jobs, Continue(s)
    PROVE  s \in Out /\ Moved(s, "sent", jobs[s].step + 1)
<1> DEFINE n == jobs[s].step + 1
           r == [jobs[s] EXCEPT !.step = n, !.phase = "sent", !.answer = Empty]
<1>1. s \in Out /\ s \in 1..MaxClicks /\ jobs[s] \in Requests(plan)
  BY OutAreRequests DEF Continue, Out
<1>2. "sent" \in Phases /\ Empty \in Bodies /\ n \in Nat
  BY <1>1 DEF Phases, Bodies, Empty, Requests
<1>3. r \in Requests(plan)
  BY <1>1, <1>2, RequestEdited DEF Requests
<1>4. /\ r.phase = "sent" /\ r.button = jobs[s].button /\ r.sent = jobs[s].sent /\ r.known = jobs[s].known
      /\ r.visit = jobs[s].visit /\ r.alone = jobs[s].alone /\ r.step = n
  BY <1>1 DEF Requests
<1>5. jobs' = [jobs EXCEPT ![s] = r]
  BY <1>1 DEF Continue, TypeOK, Requests
<1> HIDE DEF r
<1>6. jobs' \in [1..MaxClicks -> {NotMade, Over} \cup Requests(plan)]
  BY <1>1, <1>3, <1>5 DEF TypeOK
<1>7. jobs'[s] = r /\ DOMAIN jobs' = DOMAIN jobs /\ \A t \in DOMAIN jobs : t # s => jobs'[t] = jobs[t]
  BY <1>1, <1>5 DEF TypeOK
<1>8. Out' = Out
  BY <1>1, <1>4, <1>7 DEF Out
<1> QED  BY <1>1, <1>4, <1>6, <1>7, <1>8 DEF Moved, SameRequest, Out

LEMMA AnswerEnds ==
    ASSUME TypeOK, NEW s \in DOMAIN jobs, jobs[s].phase \in Phases, jobs' = [jobs EXCEPT ![s] = Over]
    PROVE  Ended(s)
<1>1. s \in Out /\ s \in 1..MaxClicks
  BY OutAreRequests DEF Out, Phases
<1>2. jobs' \in [1..MaxClicks -> {NotMade, Over} \cup Requests(plan)]
  BY <1>1 DEF TypeOK
<1>3. jobs'[s] = Over /\ DOMAIN jobs' = DOMAIN jobs /\ \A t \in DOMAIN jobs : t # s => jobs'[t] = jobs[t]
  BY <1>1 DEF TypeOK
<1>4. Out' = Out \ {s}
  BY <1>1, <1>3 DEF Out, Over
<1> QED  BY <1>1, <1>2, <1>3, <1>4 DEF Ended, Out

(* A click adds a request, and whatever was out is no longer alone.        *)
Made(s, b) ==
    /\ jobs' \in [1..MaxClicks -> {NotMade, Over} \cup Requests(plan)]
    /\ s \notin Out /\ Out' = Out \cup {s}
    /\ jobs'[s].phase = "sent" /\ jobs'[s].button = b /\ jobs'[s].step = 1 /\ jobs'[s].sent = form
    /\ jobs'[s].known = known /\ jobs'[s].visit = past.visit /\ jobs'[s].alone = (Out = {})
    /\ jobs'[s].answer = Empty
    /\ \A t \in Out : /\ jobs'[t].button = jobs[t].button /\ jobs'[t].sent = jobs[t].sent
                        /\ jobs'[t].known = jobs[t].known /\ jobs'[t].visit = jobs[t].visit
                        /\ jobs'[t].phase = jobs[t].phase /\ jobs'[t].step = jobs[t].step
                        /\ jobs'[t].alone = FALSE /\ jobs'[t].answer = jobs[t].answer

LEMMA ClickMakes ==
    ASSUME TypeOK, NEW b \in plan.buttons, Click(b)
    PROVE  \E s \in 1..MaxClicks : Made(s, b)
<1> DEFINE r == [phase |-> "sent", button |-> b, step |-> 1, sent |-> form, known |-> known,
                 visit |-> past.visit, alone |-> Out = {}, answer |-> Empty]
<1>1. PICK s \in DOMAIN jobs :
         /\ jobs[s] = NotMade
         /\ jobs' = [t \in DOMAIN jobs |->
                IF t = s THEN r
                ELSE IF t \in Out THEN [jobs[t] EXCEPT !.alone = FALSE] ELSE jobs[t]]
  BY DEF Click
<1>2. s \in 1..MaxClicks /\ s \notin Out /\ DOMAIN jobs = 1..MaxClicks
  BY <1>1, OutAreRequests, NoRequest DEF Out, Phases
<1>3. r \in Requests(plan)
  <2>1. form \in Bodies /\ known \in BOOLEAN /\ past.visit \in Nat /\ Empty \in Bodies
    BY DEF TypeOK, Bodies, Empty, Histories
  <2> QED  BY <2>1 DEF Requests
<1>4. /\ r.phase = "sent" /\ r.button = b /\ r.step = 1 /\ r.sent = form
      /\ r.known = known /\ r.visit = past.visit /\ r.alone = (Out = {}) /\ r.answer = Empty
  OBVIOUS
<1> HIDE DEF r
<1>5. DOMAIN jobs' = 1..MaxClicks /\ jobs'[s] = r
  BY <1>1, <1>2
<1>6. ASSUME NEW t \in Out
      PROVE  /\ jobs'[t] \in Requests(plan) /\ jobs'[t].phase = jobs[t].phase
             /\ jobs'[t].button = jobs[t].button /\ jobs'[t].sent = jobs[t].sent
             /\ jobs'[t].known = jobs[t].known /\ jobs'[t].visit = jobs[t].visit
             /\ jobs'[t].step = jobs[t].step /\ jobs'[t].alone = FALSE
             /\ jobs'[t].answer = jobs[t].answer
  <2> DEFINE o == jobs[t]
             e == [o EXCEPT !.alone = FALSE]
  <2>1. o \in Requests(plan) /\ jobs'[t] = e
    BY <1>1, <1>2, OutAreRequests
  <2>2. e \in Requests(plan) /\ e.phase = o.phase /\ e.button = o.button /\ e.sent = o.sent
        /\ e.known = o.known /\ e.visit = o.visit /\ e.step = o.step /\ e.alone = FALSE
        /\ e.answer = o.answer
    BY <2>1 DEF Requests
  <2> HIDE DEF e
  <2> QED  BY <2>1, <2>2
<1>7. \A t \in 1..MaxClicks : t # s /\ t \notin Out => jobs'[t] = jobs[t]
  BY <1>1, <1>2
<1>8. \A t \in 1..MaxClicks : jobs'[t] \in {NotMade, Over} \cup Requests(plan)
  BY <1>3, <1>5, <1>6, <1>7, OutAreRequests
<1>9. jobs' \in [1..MaxClicks -> {NotMade, Over} \cup Requests(plan)]
  <2>1. jobs' = [t \in 1..MaxClicks |-> jobs'[t]]
    BY <1>1, <1>2
  <2> QED  BY <1>8, <2>1
<1>10. Out' = Out \cup {s}
  <2>1. \A t \in 1..MaxClicks : t # s => (jobs'[t].phase \in Phases <=> t \in Out)
    BY <1>2, <1>6, <1>7 DEF Out, Phases
  <2> QED  BY <1>2, <1>4, <1>5, <2>1, OutAreRequests DEF Out, Phases
<1> QED  BY <1>2, <1>4, <1>5, <1>6, <1>9, <1>10 DEF Made

-----------------------------------------------------------------------------
(* Types.                                                                  *)

LEMMA PlanStays == [Next]_vars => plan' = plan
BY DEF Next, UserActs, BrowserActs, ServerActs, NetworkActs, OthersAct, vars, ServeLoad, ShowLoad,
       FailLoad, Type, OpenDialog, CancelDialog, Click, Refuse, Navigate, Serve, ServeUpdate,
       ServeCreate, ServeSubmit, ServeDerive, ServeRemove, ServeDecide, ServeAside, Lose, Continue,
       Succeed, Fail, ColleagueEdits, ColleagueSubmits, ApproverDecides

(* The contents that the actions compute are contents.                     *)
LEMMA BodiesComputed ==
    ASSUME TypeOK
    PROVE  /\ Empty \in Bodies /\ Closed \in Bodies /\ form \in Bodies
           /\ seen.body \in Bodies /\ doc.body \in Bodies
           /\ \A s \in Out : /\ Saved(jobs[s]) \in Bodies /\ AnswerTaken(jobs[s]) \in Bodies
                             /\ jobs[s].answer \in Bodies /\ jobs[s].sent \in Bodies
<1>1. Empty \in Bodies /\ form \in Bodies /\ seen.body \in Bodies /\ doc.body \in Bodies
  BY DEF TypeOK, Docs, Bodies, Empty
<1>2. Closed \in Bodies
  BY <1>1 DEF Closed, Bodies
<1>3. ASSUME NEW s \in Out
      PROVE  /\ Saved(jobs[s]) \in Bodies /\ AnswerTaken(jobs[s]) \in Bodies
             /\ jobs[s].answer \in Bodies /\ jobs[s].sent \in Bodies
  <2>1. jobs[s].answer \in Bodies /\ jobs[s].sent \in Bodies
    BY OutAreRequests DEF Requests
  <2> QED  BY <1>1, <2>1 DEF Saved, AnswerTaken, Bodies
<1> QED  BY <1>1, <1>2, <1>3

(* What is typed of a state but the requests and the history.              *)
ScreenTyped ==
    /\ doc \in Docs /\ seen \in Docs /\ load \in [phase : {"none", "asked", "answered"}, doc : Docs]
    /\ form \in Bodies /\ known \in BOOLEAN /\ dialog \in {"closed", "old", "new"}
    /\ flags \subseteq UNION {b.raises : b \in plan.buttons}
    /\ leaving \in BOOLEAN /\ gone \in BOOLEAN

LEMMA LoweredTyped ==
    ASSUME TypeOK, NEW j, NEW r
    PROVE  Lowered(j, r) \subseteq UNION {b.raises : b \in plan.buttons}
BY DEF TypeOK, Lowered

(* Fields of the history that steps change.                                *)
LEMMA HistoryEdited ==
    ASSUME NEW h \in Histories, NEW n \in Nat, NEW o \in SUBSET Parts, NEW m \in Nat, NEW v \in Nat,
           NEW l \in Nat, NEW e \in BOOLEAN
    PROVE  /\ [h EXCEPT !.newest = n, !.owed = o] \in Histories
           /\ [h EXCEPT !.newest = n] \in Histories
           /\ [h EXCEPT !.owed = o] \in Histories
           /\ [h EXCEPT !.made = m, !.owed = o] \in Histories
           /\ [h EXCEPT !.visit = v, !.made = m, !.unsure = FALSE, !.owed = o] \in Histories
           /\ [h EXCEPT !.eager = e] \in Histories
           /\ [h EXCEPT !.marked = e] \in Histories
           /\ [[h EXCEPT !.others = l] EXCEPT !.newest = n] \in Histories
BY DEF Histories

LEMMA CountersTyped ==
    ASSUME TypeOK
    PROVE  /\ Fresh \in Nat /\ past.visit + 1 \in Nat /\ past.lost + 1 \in Nat /\ past.others + 1 \in Nat
           /\ past.made \in Nat /\ past.made + 1 \in Nat /\ past.owed \in SUBSET Parts
           /\ past \in Histories /\ past.eager \in BOOLEAN /\ past.marked \in BOOLEAN
           /\ past.unsure \in BOOLEAN
BY DEF TypeOK, Histories, Fresh

(* Whatever the server is asked for, the request of s is answered and the  *)
(* others are left alone.                                                  *)
LEMMA ServeMoves ==
    ASSUME TypeOK, NEW s \in DOMAIN jobs, Serve(s)
    PROVE  /\ s \in Out /\ jobs[s].phase = "sent"
           /\ Moved(s, "ok", jobs[s].step) \/ Moved(s, "bad", jobs[s].step)
<1>1. PICK ok \in BOOLEAN, body \in Bodies : Answered(s, ok, body) /\ jobs[s].phase = "sent"
  <2>1. CASE ServeUpdate(s)
    <3>1. Answered(s, Editable, Saved(jobs[s])) /\ Saved(jobs[s]) \in Bodies /\ jobs[s].phase = "sent"
      BY <2>1, BodiesComputed DEF ServeUpdate, Asked, Out
    <3>2. Editable \in BOOLEAN
      BY DEF Editable
    <3> QED  BY <3>1, <3>2, Zenon
  <2>2. CASE ServeCreate(s)
    <3> DEFINE line == plan.opens = "row"
               ok == line => Editable
               new == [p \in Parts |-> IF p \in StepOf(jobs[s]).parts THEN jobs[s].sent[p] ELSE 0]
               body == IF line THEN Saved(jobs[s]) ELSE new
    <3>1. s \in Out
      BY <2>2 DEF ServeCreate, Asked, Out
    <3>2. new \in Bodies
      BY <3>1, BodiesComputed DEF Bodies
    <3>3. body \in Bodies
      BY <3>1, <3>2, BodiesComputed
    <3> QED  BY <2>2, <3>3 DEF ServeCreate, Asked
  <2>3. CASE ServeSubmit(s)
    BY <2>3, BodiesComputed DEF ServeSubmit, Asked
  <2>4. CASE ServeDerive(s)
    <3> DEFINE made == [p \in Parts |-> IF p \in StepOf(jobs[s]).parts THEN Fresh ELSE doc.body[p]]
    <3>1. made \in Bodies
      BY BodiesComputed, CountersTyped DEF Bodies
    <3>2. Answered(s, Editable, made) /\ jobs[s].phase = "sent"
      BY <2>4 DEF ServeDerive, Asked
    <3>3. Editable \in BOOLEAN
      BY DEF Editable
    <3> HIDE DEF made
    <3> QED  BY <3>1, <3>2, <3>3, Zenon
  <2>5. CASE ServeRemove(s)
    <3>1. Answered(s, Editable, Empty) /\ Empty \in Bodies /\ jobs[s].phase = "sent"
      BY <2>5, BodiesComputed DEF ServeRemove, Asked
    <3>2. Editable \in BOOLEAN
      BY DEF Editable
    <3> QED  BY <3>1, <3>2, Zenon
  <2>6. CASE ServeDecide(s)
    BY <2>6, BodiesComputed DEF ServeDecide, Asked
  <2>7. CASE ServeAside(s)
    BY <2>7, BodiesComputed DEF ServeAside, Asked
  <2> QED  BY <2>1, <2>2, <2>3, <2>4, <2>5, <2>6, <2>7 DEF Serve
<1>2. s \in Out /\ Moved(s, IF ok THEN "ok" ELSE "bad", jobs[s].step)
  BY <1>1, AnswerMoves
<1> QED  BY <1>1, <1>2

(* What the answers and the requests leave behind them is typed.           *)
LEMMA JobsTyped ==
    ASSUME TypeOK, [Next]_vars
    PROVE  jobs' \in [1..MaxClicks -> {NotMade, Over} \cup Requests(plan)]
<1>1. CASE UNCHANGED jobs
  BY <1>1 DEF TypeOK
<1>2. ASSUME NEW b \in plan.buttons, Click(b) PROVE jobs' \in [1..MaxClicks -> {NotMade, Over} \cup Requests(plan)]
  BY <1>2, ClickMakes DEF Made
<1>3. ASSUME NEW s \in DOMAIN jobs, Serve(s)
      PROVE  jobs' \in [1..MaxClicks -> {NotMade, Over} \cup Requests(plan)]
  BY <1>3, ServeMoves DEF Moved
<1>4. ASSUME NEW s \in DOMAIN jobs, Continue(s) \/ Succeed(s) \/ Fail(s) \/ Lose(s)
      PROVE  jobs' \in [1..MaxClicks -> {NotMade, Over} \cup Requests(plan)]
  <2>1. CASE Continue(s)
    BY <2>1, NextRequestMoves DEF Moved
  <2>2. CASE Succeed(s)
    <3>1. jobs[s].phase \in Phases /\ jobs' = [jobs EXCEPT ![s] = Over]
      BY <2>2 DEF Succeed, Phases
    <3> QED  BY <3>1, AnswerEnds DEF Ended
  <2>3. CASE Fail(s)
    <3>1. jobs[s].phase \in Phases /\ jobs' = [jobs EXCEPT ![s] = Over]
      BY <2>3 DEF Fail, Phases
    <3> QED  BY <3>1, AnswerEnds DEF Ended
  <2>4. CASE Lose(s)
    BY <2>4, LossMoves DEF Moved
  <2> QED  BY <1>4, <2>1, <2>2, <2>3, <2>4
<1>5. CASE ServeLoad \/ ShowLoad \/ FailLoad \/ Navigate \/ CancelDialog \/ ColleagueSubmits \/ ApproverDecides
  BY <1>1, <1>5 DEF ServeLoad, ShowLoad, FailLoad, Navigate, CancelDialog, ColleagueSubmits, ApproverDecides
<1>6. ASSUME NEW p, Type(p) \/ OpenDialog(p) \/ Refuse(p) \/ ColleagueEdits(p)
      PROVE  jobs' \in [1..MaxClicks -> {NotMade, Over} \cup Requests(plan)]
  BY <1>1, <1>6 DEF Type, OpenDialog, Refuse, ColleagueEdits
<1>7. CASE UNCHANGED vars
  BY <1>1, <1>7 DEF vars
<1> QED
  BY <1>2, <1>3, <1>4, <1>5, <1>6, <1>7 DEF Next, UserActs, BrowserActs, ServerActs, NetworkActs, OthersAct

(* The documents, the screen and the history keep their types.             *)
LEMMA DataTyped ==
    ASSUME TypeOK, [Next]_vars, PlansAssumption
    PROVE  ScreenTyped' /\ past' \in Histories
<1> DEFINE Typing == ScreenTyped' /\ past' \in Histories
<1>0. ScreenTyped /\ past \in Histories
  BY DEF TypeOK, ScreenTyped
<1>b. NoDoc \in Docs /\ plan.server.starts \cup {plan.server.soft} \subseteq Statuses
  BY DEF NoDoc, Docs, Flows, Bodies, Empty, TypeOK, PlansAssumption, Typed
<1>a. Ask => load' \in [phase : {"none", "asked", "answered"}, doc : Docs]
  BY <1>b DEF Ask
<1>1. CASE ServeLoad
  BY <1>0, <1>1 DEF ServeLoad, ScreenTyped, screen
<1>2. CASE ShowLoad
  BY <1>0, <1>2, <1>b DEF ShowLoad, ScreenTyped, Docs, Bodies
<1>3. CASE FailLoad
  <2>1. past' \in Histories
    BY <1>3, CountersTyped DEF FailLoad, Histories
  <2> QED  BY <1>0, <1>3, <1>b, <2>1 DEF FailLoad, ScreenTyped, screen
<1>4. ASSUME NEW p \in Parts, Type(p) PROVE Typing
  <2>1. form' \in Bodies
    BY <1>0, <1>4, CountersTyped DEF Type, ScreenTyped, Bodies
  <2>2. (IF Quiet THEN past.owed \cup {p} ELSE past.owed \ {p}) \in SUBSET Parts
    BY CountersTyped
  <2>3. past' \in Histories
    BY <1>4, <2>2, CountersTyped, HistoryEdited DEF Type
  <2> QED  BY <1>0, <1>4, <2>1, <2>3 DEF Type, ScreenTyped
<1>5. ASSUME NEW kind \in {"old", "new"}, OpenDialog(kind) PROVE Typing
  <2>1. form' \in Bodies
    BY <1>0, <1>5 DEF OpenDialog, ScreenTyped, Docs, Bodies
  <2>2. past.owed \ plan.dialogParts \in SUBSET Parts
    BY CountersTyped
  <2>3. past' \in Histories
    BY <1>5, <2>2, CountersTyped, HistoryEdited DEF OpenDialog
  <2> QED  BY <1>0, <1>5, <2>1, <2>3 DEF OpenDialog, ScreenTyped
<1>6. CASE CancelDialog
  <2>1. past.owed \ plan.dialogParts \in SUBSET Parts
    BY CountersTyped
  <2>2. past' \in Histories
    BY <1>6, <2>1, CountersTyped, HistoryEdited DEF CancelDialog
  <2> QED  BY <1>0, <1>6, <1>a, <2>2, BodiesComputed DEF CancelDialog, ScreenTyped
<1>7. ASSUME NEW b \in plan.buttons, Click(b) PROVE Typing
  <2>1. (past.eager \/ leaving) \in BOOLEAN /\ past' \in Histories
    BY <1>0, <1>7, CountersTyped, HistoryEdited DEF Click, ScreenTyped
  <2> QED  BY <1>0, <1>7, <2>1 DEF Click, ScreenTyped
<1>8. ASSUME NEW b \in plan.buttons, Refuse(b) PROVE Typing
  BY <1>0, <1>8 DEF Refuse, ScreenTyped
<1>9. CASE Navigate
  BY <1>0, <1>9 DEF Navigate, ScreenTyped
<1>10. ASSUME NEW s \in DOMAIN jobs, Serve(s) PROVE Typing
  <2>1. s \in Out /\ past.owed \ Stored(jobs[s]) \in SUBSET Parts
    BY <1>10, ServeMoves, CountersTyped
  <2>2. CASE ServeUpdate(s)
    <3> DEFINE b == Saved(jobs[s])
               o == past.owed \ Stored(jobs[s])
    <3>1. b \in Bodies /\ o \in SUBSET Parts
      BY <2>1, BodiesComputed
    <3>2. (doc' = doc \/ doc' = [doc EXCEPT !.body = b]) /\ (past' = past \/ past' = [past EXCEPT !.owed = o])
      BY <2>2, <1>0 DEF ServeUpdate, Histories
    <3> HIDE DEF b, o
    <3>3. doc' \in Docs /\ past' \in Histories
      BY <1>0, <3>1, <3>2 DEF ScreenTyped, Docs, Histories
    <3> QED  BY <1>0, <2>2, <3>3 DEF ServeUpdate, ScreenTyped, screen
  <2>3. CASE ServeCreate(s)
    <3> DEFINE line == plan.opens = "row"
               ok == line => Editable
               new == [p \in Parts |-> IF p \in StepOf(jobs[s]).parts THEN jobs[s].sent[p] ELSE 0]
               body == IF line THEN Saved(jobs[s]) ELSE new
               m == IF jobs[s].visit = past.visit /\ past.made < 2 THEN past.made + 1 ELSE past.made
    <3>1. new \in Bodies /\ body \in Bodies /\ m \in Nat
      BY <2>1, BodiesComputed, CountersTyped DEF Bodies
    <3>2. doc' \in Docs
      <4>1. \/ doc' = doc \/ doc' = [doc EXCEPT !.body = body]
            \/ \E st \in plan.server.starts, fl \in Flows : doc' = [status |-> st, flow |-> fl, body |-> body]
        BY <2>3 DEF ServeCreate, Started, Flows
      <4> HIDE DEF body
      <4> QED  BY <1>0, <1>b, <3>1, <4>1 DEF ScreenTyped, Docs
    <3>3. past' = past \/ past' = [past EXCEPT !.made = m, !.owed = past.owed \ Stored(jobs[s])]
      BY <2>3, <1>0 DEF ServeCreate, Histories
    <3>4. past' \in Histories
      <4> HIDE DEF m
      <4> QED  BY <1>0, <2>1, <3>1, <3>3 DEF Histories
    <3> QED  BY <1>0, <2>3, <3>2, <3>4 DEF ServeCreate, ScreenTyped, screen
  <2>4. CASE ServeSubmit(s)
    <3>1. Submitted \in Docs
      BY <1>0 DEF Submitted, ScreenTyped, Docs, Flows, Statuses
    <3>2. PICK e \in BOOLEAN : past' = [past EXCEPT !.marked = e]
      BY <2>4, <1>0 DEF ServeSubmit, Histories
    <3> QED  BY <1>0, <2>4, <3>1, <3>2, HistoryEdited, CountersTyped DEF ServeSubmit, ScreenTyped, screen
  <2>5. CASE ServeDerive(s)
    <3> DEFINE made == [p \in Parts |-> IF p \in StepOf(jobs[s]).parts THEN Fresh ELSE doc.body[p]]
    <3>1. made \in Bodies
      BY BodiesComputed, CountersTyped DEF Bodies
    <3>2. doc' \in Docs
      <4>1. doc' = doc \/ doc' = [doc EXCEPT !.body = made]
        BY <2>5 DEF ServeDerive
      <4> HIDE DEF made
      <4> QED  BY <1>0, <3>1, <4>1 DEF ScreenTyped, Docs
    <3> QED  BY <1>0, <2>5, <3>2, HistoryEdited, CountersTyped DEF ServeDerive, ScreenTyped, screen
  <2>6. CASE ServeRemove(s)
    BY <1>0, <1>b, <2>6 DEF ServeRemove, ScreenTyped, screen
  <2>7. CASE ServeDecide(s)
    <3>1. Decisions \subseteq Docs
      BY <1>0, <1>b DEF Decisions, ScreenTyped, Docs, Flows, Statuses
    <3> QED  BY <1>0, <2>7, <3>1 DEF ServeDecide, ScreenTyped, screen
  <2>8. CASE ServeAside(s)
    BY <1>0, <2>8 DEF ServeAside, ScreenTyped, screen
  <2> QED  BY <1>10, <2>2, <2>3, <2>4, <2>5, <2>6, <2>7, <2>8 DEF Serve
<1>11. ASSUME NEW s \in DOMAIN jobs, Lose(s) PROVE Typing
  <2>1. (past.unsure \/ jobs[s].phase = "ok") \in BOOLEAN
    BY CountersTyped
  <2>2. past' \in Histories
    BY <1>0, <1>11, <2>1, CountersTyped DEF Lose, Histories
  <2> QED  BY <1>0, <1>11, <2>2 DEF Lose, ScreenTyped, screen
<1>12. ASSUME NEW s \in DOMAIN jobs, Continue(s) PROVE Typing
  <2>1. s \in Out
    BY <1>12, NextRequestMoves
  <2>2. form' \in Bodies /\ seen' \in Docs
    <3>1. form' \in Bodies
      BY <1>0, <1>12, <2>1, BodiesComputed DEF Continue, ScreenTyped
    <3>2. seen' = seen \/ seen' = [seen EXCEPT !.body = jobs[s].answer]
      BY <1>12 DEF Continue
    <3> QED  BY <1>0, <2>1, <3>1, <3>2, BodiesComputed DEF ScreenTyped, Docs
  <2>3. flags' \subseteq UNION {b.raises : b \in plan.buttons}
    BY <1>0, <1>12, LoweredTyped DEF Continue, ScreenTyped
  <2>4. load' \in [phase : {"none", "asked", "answered"}, doc : Docs]
    BY <1>0, <1>12, <1>a DEF Continue, ScreenTyped
  <2> QED  BY <1>0, <1>12, <2>2, <2>3, <2>4 DEF Continue, ScreenTyped
<1>13. ASSUME NEW s \in DOMAIN jobs, Succeed(s) PROVE Typing
  <2> DEFINE m == IF "clear" \in jobs[s].button.after THEN 0 ELSE past.made
             o == IF "close" \in jobs[s].button.after /\ dialog # "closed" /\ StepOf(jobs[s]).op = "remove"
                  THEN past.owed \ plan.dialogParts ELSE past.owed
  <2>1. s \in Out
    BY <1>13 DEF Succeed, Out
  <2>2. form' \in Bodies /\ seen' \in Docs
    <3>1. form' \in Bodies
      BY <1>0, <1>13, <2>1, BodiesComputed DEF Succeed, ScreenTyped
    <3>2. seen' = seen \/ seen' = [seen EXCEPT !.body = jobs[s].answer]
      BY <1>13 DEF Succeed
    <3> QED  BY <1>0, <2>1, <3>1, <3>2, BodiesComputed DEF ScreenTyped, Docs
  <2>3. flags' \subseteq UNION {b.raises : b \in plan.buttons}
    BY <1>0, <1>13, LoweredTyped DEF Succeed, ScreenTyped
  <2>4. load' \in [phase : {"none", "asked", "answered"}, doc : Docs]
    BY <1>0, <1>13, <1>a DEF Succeed, ScreenTyped
  <2>5. m \in Nat /\ o \in SUBSET Parts
    BY CountersTyped
  <2>6. past' = [past EXCEPT !.made = m, !.owed = o]
    BY <1>0, <1>13 DEF Succeed, Histories
  <2>7. past' \in Histories
    <3> HIDE DEF m, o
    <3> QED  BY <2>5, <2>6, HistoryEdited, CountersTyped
  <2>8. known' \in BOOLEAN /\ leaving' \in BOOLEAN /\ dialog' \in {"closed", "old", "new"}
    BY <1>0, <1>13 DEF Succeed, ScreenTyped
  <2> QED  BY <1>0, <1>13, <2>2, <2>3, <2>4, <2>7, <2>8 DEF Succeed, ScreenTyped
<1>14. ASSUME NEW s \in DOMAIN jobs, Fail(s) PROVE Typing
  <2>1. flags' \subseteq UNION {b.raises : b \in plan.buttons}
    BY <1>0, <1>14, LoweredTyped DEF Fail, ScreenTyped
  <2>2. load' \in [phase : {"none", "asked", "answered"}, doc : Docs]
    BY <1>0, <1>14, <1>a DEF Fail, ScreenTyped
  <2> QED  BY <1>0, <1>14, <2>1, <2>2 DEF Fail, ScreenTyped
<1>15. ASSUME NEW p \in Parts, ColleagueEdits(p) PROVE Typing
  <2>1. doc' \in Docs
    BY <1>0, <1>15, CountersTyped DEF ColleagueEdits, ScreenTyped, Docs, Bodies
  <2>2. past' \in Histories
    BY <1>15, CountersTyped, HistoryEdited DEF ColleagueEdits, Touched
  <2> QED  BY <1>0, <1>15, <2>1, <2>2 DEF ColleagueEdits, ScreenTyped, screen
<1>16. CASE ColleagueSubmits
  <2>1. Submitted \in Docs
    BY <1>0 DEF Submitted, ScreenTyped, Docs, Flows, Statuses
  <2>2. past' \in Histories
    BY <1>16, CountersTyped DEF ColleagueSubmits, Touched, Histories
  <2> QED  BY <1>0, <1>16, <2>1, <2>2 DEF ColleagueSubmits, ScreenTyped, screen
<1>17. CASE ApproverDecides
  <2>1. Decisions \subseteq Docs
    BY <1>0, <1>b DEF Decisions, ScreenTyped, Docs, Flows, Statuses
  <2>2. past' \in Histories
    BY <1>17, CountersTyped DEF ApproverDecides, Touched, Histories
  <2> QED  BY <1>0, <1>17, <2>1, <2>2 DEF ApproverDecides, ScreenTyped, screen
<1>18. CASE UNCHANGED vars
  BY <1>0, <1>18 DEF vars, screen, ScreenTyped
<1> QED
  BY <1>1, <1>2, <1>3, <1>4, <1>5, <1>6, <1>7, <1>8, <1>9, <1>10, <1>11, <1>12, <1>13, <1>14, <1>15,
     <1>16, <1>17, <1>18 DEF Next, UserActs, BrowserActs, ServerActs, NetworkActs, OthersAct

LEMMA TypeStart == ASSUME Init, PlansAssumption, BoundsAssumption PROVE TypeOK
<1>1. plan \in Plans /\ Typed(plan)
  BY DEF Init, PlansAssumption
<1>2. NoDoc \in Docs /\ Empty \in Bodies /\ [p \in Parts |-> 1] \in Bodies
  BY DEF NoDoc, Docs, Flows, Bodies, Empty
<1>3. doc \in Docs
  <2>1. CASE plan.opens = "blank"
    BY <1>2, <2>1 DEF Init
  <2>2. CASE plan.opens # "blank"
    <3>1. plan.server.starts \cup plan.server.met \subseteq Statuses \cup {"none"}
      BY <1>1 DEF Typed
    <3> QED  BY <1>2, <2>2, <3>1 DEF Init, Docs
  <2> QED  BY <2>1, <2>2
<1>4. past \in Histories
  BY DEF Init, Histories
<1>5. load \in [phase : {"none", "asked", "answered"}, doc : Docs]
  BY <1>2 DEF Init
<1>6. jobs \in [1..MaxClicks -> {NotMade, Over} \cup Requests(plan)]
  BY DEF Init
<1>7. form \in Bodies /\ seen \in Docs /\ known \in BOOLEAN /\ dialog \in {"closed", "old", "new"}
      /\ flags \subseteq UNION {b.raises : b \in plan.buttons} /\ leaving \in BOOLEAN /\ gone \in BOOLEAN
  BY <1>2 DEF Init
<1> QED  BY <1>1, <1>3, <1>4, <1>5, <1>6, <1>7 DEF TypeOK

LEMMA TypeStep == ASSUME TypeOK, [Next]_vars, PlansAssumption PROVE TypeOK'
<1>1. plan' = plan /\ plan' \in Plans
  BY PlanStays DEF TypeOK
<1>2. ScreenTyped' /\ past' \in Histories
  BY DataTyped
<1>3. jobs' \in [1..MaxClicks -> {NotMade, Over} \cup Requests(plan')]
  BY <1>1, JobsTyped
<1> QED  BY <1>1, <1>2, <1>3 DEF TypeOK, ScreenTyped

(* The documents, the forms and the requests always have the types given.  *)
THEOREM TypeCorrect == Spec => []TypeOK
<1>1. Init => TypeOK
  BY TypeStart, PlansAssumption, BoundsAssumption
<1>2. TypeOK /\ [Next]_vars => TypeOK'
  BY TypeStep, PlansAssumption
<1> QED  BY <1>1, <1>2, PTL DEF Spec

-----------------------------------------------------------------------------
(* Cases of a step.                                                        *)

(* Nothing changes that the flags and the requests depend on.              *)
Apart ==
    /\ jobs' = jobs /\ flags' = flags /\ known' = known /\ dialog' = dialog
    /\ leaving' = leaving /\ past'.visit = past.visit /\ past'.made = past.made
    /\ past'.eager = past.eager /\ past'.unsure = past.unsure

LEMMA StepCases ==
    ASSUME TypeOK, [Next]_vars
    PROVE  \/ Apart
           \/ \E kind \in {"old", "new"} : OpenDialog(kind)
           \/ CancelDialog
           \/ \E b \in plan.buttons : Click(b) \/ Refuse(b)
           \/ \E s \in DOMAIN jobs : Serve(s) \/ Lose(s) \/ Continue(s) \/ Succeed(s) \/ Fail(s)
<1>0. past \in Histories
  BY DEF TypeOK
<1>1. CASE ServeLoad \/ ShowLoad \/ Navigate \/ UNCHANGED vars
  BY <1>1 DEF ServeLoad, ShowLoad, Navigate, vars, screen, Apart
<1>2. CASE FailLoad
  BY <1>0, <1>2 DEF FailLoad, screen, Apart, Histories
<1>3. ASSUME NEW p \in Parts, Type(p) PROVE Apart
  BY <1>0, <1>3 DEF Type, Apart, Histories
<1>4. ASSUME NEW p \in Parts, ColleagueEdits(p) PROVE Apart
  BY <1>0, <1>4 DEF ColleagueEdits, Touched, screen, Apart, Histories
<1>5. CASE ColleagueSubmits \/ ApproverDecides
  BY <1>0, <1>5 DEF ColleagueSubmits, ApproverDecides, Touched, screen, Apart, Histories
<1> QED
  BY <1>1, <1>2, <1>3, <1>4, <1>5 DEF Next, UserActs, BrowserActs, ServerActs, NetworkActs, OthersAct

(* A row that a request made of the form counts as made.                   *)
Creating(s) == ~jobs[s].known /\ jobs[s].visit = past.visit /\ jobs[s].button \in Creators(plan)

(* What an answer of the server does to the rest.                          *)
LEMMA ServeKeeps ==
    ASSUME TypeOK, NEW s \in DOMAIN jobs, Serve(s)
    PROVE  /\ flags' = flags /\ known' = known /\ dialog' = dialog /\ leaving' = leaving
           /\ past'.visit = past.visit /\ past'.eager = past.eager /\ past'.unsure = past.unsure
           /\ past'.others = past.others
           /\ \/ past'.made = past.made
              \/ /\ ~jobs[s].known /\ jobs[s].visit = past.visit /\ StepOf(jobs[s]).op = "store"
                 /\ past'.made = past.made + 1 /\ jobs'[s].phase = "ok"
<1>0. past \in Histories
  BY DEF TypeOK
<1>1. CASE ServeUpdate(s)
  BY <1>0, <1>1 DEF ServeUpdate, screen, Histories
<1>2. CASE ServeCreate(s)
  <2> DEFINE line == plan.opens = "row"
             ok == line => Editable
             m == IF jobs[s].visit = past.visit /\ past.made < 2 THEN past.made + 1 ELSE past.made
  <2>1. s \in Out /\ StepOf(jobs[s]).op = "store" /\ ~jobs[s].known /\ UNCHANGED screen
    BY <1>2 DEF ServeCreate, Asked, Out
  <2>2. IF ok THEN past' = [past EXCEPT !.made = m, !.owed = past.owed \ Stored(jobs[s])] ELSE past' = past
    BY <1>0, <1>2 DEF ServeCreate, Histories
  <2>3. ok => jobs'[s].phase = "ok"
    <3>1. PICK body : Answered(s, ok, body)
      BY <1>2 DEF ServeCreate
    <3>2. s \in DOMAIN jobs /\ jobs \in [1..MaxClicks -> {NotMade, Over} \cup Requests(plan)] /\ jobs[s] \in Requests(plan)
      BY <2>1, OutAreRequests DEF TypeOK
    <3> HIDE DEF ok
    <3> QED  BY <3>1, <3>2 DEF Answered, Requests
  <2>4. CASE ok
    <3> HIDE DEF ok
    <3> QED  BY <1>0, <2>1, <2>2, <2>3, <2>4 DEF Histories, screen
  <2>5. CASE ~ok
    BY <2>1, <2>2, <2>5 DEF screen
  <2> QED  BY <2>4, <2>5
<1>3. CASE ServeSubmit(s)
  BY <1>0, <1>3 DEF ServeSubmit, screen, Histories
<1>4. CASE ServeDerive(s)
  BY <1>0, <1>4 DEF ServeDerive, screen, Histories
<1>5. CASE ServeRemove(s) \/ ServeDecide(s) \/ ServeAside(s)
  BY <1>5 DEF ServeRemove, ServeDecide, ServeAside, screen
<1> QED  BY <1>1, <1>2, <1>3, <1>4, <1>5 DEF Serve

-----------------------------------------------------------------------------
(* The inductive invariant.                                                *)

(* A request is at a step of its button, was made in this visit of the     *)
(* dialog or an earlier one, and by a button for new rows if it makes one. *)
RequestsFit ==
    \A s \in Out : /\ jobs[s].step \in 1..Len(jobs[s].button.steps)
                   /\ jobs[s].visit <= past.visit
                   /\ ~jobs[s].known => "new" \in jobs[s].button.at /\ Creates(plan)

(* Only an empty form, and the dialog for a new row, have no row behind.   *)
KnownWhere ==
    /\ ~Creates(plan) => known
    /\ plan.opens # "blank" /\ dialog = "closed" => known
    /\ dialog # "closed" => dialog \in plan.dialogs

(* Whoever waits for a flag has it raised, alone.                          *)
OneBehindEach ==
    \A f \in Guards(plan) : \A s \in Guarded(f) : f \in flags /\ \A t \in Guarded(f) : t = s

(* A raised flag has somebody who will lower it, until the page leaves.    *)
Lowers(s, f) ==
    f \in StillRaised(jobs[s]) /\ (f \in plan.dialogFlags => jobs[s].visit = past.visit)
RaisedForSomebody ==
    /\ gone => leaving
    /\ ~Sticks(plan) => \A f \in flags : leaving \/ \E s \in Out : Lowers(s, f)

(* Once the form has made its row, either the page knows, or it is on its  *)
(* way out, or the answer is on its way in; nobody asks for another.       *)
OneRowPerForm ==
    ~past.eager /\ ~past.unsure =>
        /\ past.made <= 1
        /\ past.made = 1 =>
              /\ known \/ leaving \/ \E s \in Out : jobs[s].phase = "ok" /\ Creating(s)
              /\ \A s \in Out : Creating(s) => jobs[s].phase # "sent"

AloneMeansAlone == \A s \in Out : jobs[s].alone => Out = {s}

(* How many of its steps the server has taken for a request.               *)
Done(j) == IF j.phase = "ok" THEN j.step ELSE j.step - 1

(* What the last save of a request stored is what the form had held.       *)
Filed(j, d) ==
    j.alone /\ j.phase # "bad" /\ Done(j) >= 1 /\ j.button.steps[Done(j)].op = "store"
       => \A p \in j.button.steps[Done(j)].parts : d.body[p] = j.sent[p]
SavedAsSent == ~Stale => \A s \in Out : Filed(jobs[s], doc)

PagesInv ==
    /\ TypeOK /\ RequestsFit /\ KnownWhere /\ OneBehindEach /\ RaisedForSomebody
    /\ OneRowPerForm /\ AloneMeansAlone /\ SavedAsSent

LEMMA InvStart == ASSUME Init, TypeOK PROVE PagesInv
<1>1. Out = {} /\ flags = {} /\ past.made = 0 /\ dialog = "closed" /\ ~gone
  BY NoRequest DEF Init, Out, Phases
<1>2. KnownWhere
  BY DEF Init, KnownWhere, Creates
<1>3. RequestsFit /\ OneBehindEach /\ RaisedForSomebody /\ AloneMeansAlone /\ SavedAsSent
  BY <1>1 DEF RequestsFit, OneBehindEach, RaisedForSomebody, AloneMeansAlone, SavedAsSent, Guarded
<1>4. OneRowPerForm
  BY <1>1 DEF OneRowPerForm
<1> QED  BY <1>2, <1>3, <1>4 DEF PagesInv

(* A page whose first control is the fields of a new row makes new rows.   *)
LEMMA FitsAndKnows ==
    ASSUME PagesInv, [Next]_vars, PlansAssumption
    PROVE  RequestsFit' /\ KnownWhere'
<1> USE DEF PagesInv
<1>0. TypeOK /\ RequestsFit /\ KnownWhere /\ plan' = plan /\ past.visit \in Nat /\ past \in Histories
      /\ known \in BOOLEAN
  BY PlanStays DEF TypeOK, Histories
<1>1. \A s \in Out : jobs[s].visit \in Nat /\ jobs[s].step \in Nat /\ jobs[s].button \in plan.buttons
  BY <1>0, OutAreRequests DEF Requests
<1>2. \A b \in plan.buttons : Len(b.steps) \in Nat /\ Len(b.steps) >= 1
  BY <1>0 DEF PlansAssumption, Typed, TypeOK
<1>3. CASE Apart
  BY <1>0, <1>1, <1>3 DEF Apart, RequestsFit, KnownWhere, Out, Creates
<1>4. ASSUME NEW kind \in {"old", "new"}, OpenDialog(kind) PROVE RequestsFit' /\ KnownWhere'
  <2>1. past'.visit = past.visit + 1 /\ jobs' = jobs /\ dialog' = kind /\ kind \in plan.dialogs
        /\ known' = (kind = "old")
    BY <1>0, <1>4 DEF OpenDialog, Histories
  <2> QED  BY <1>0, <1>1, <2>1 DEF RequestsFit, KnownWhere, Out, Creates
<1>5. CASE CancelDialog
  BY <1>0, <1>1, <1>5 DEF CancelDialog, RequestsFit, KnownWhere, Out, Creates, Histories
<1>6. ASSUME NEW b \in plan.buttons, Click(b) PROVE RequestsFit' /\ KnownWhere'
  <2>1. PICK s \in 1..MaxClicks : Made(s, b)
    BY <1>0, <1>6, ClickMakes
  <2>2. past'.visit = past.visit /\ UNCHANGED <<known, dialog>> /\ (~known => "new" \in b.at)
    BY <1>0, <1>6 DEF Click, Histories, Offered, Shown
  <2> QED  BY <1>0, <1>1, <1>2, <2>1, <2>2 DEF Made, RequestsFit, KnownWhere, Creates
<1>7. ASSUME NEW b \in plan.buttons, Refuse(b) PROVE RequestsFit' /\ KnownWhere'
  BY <1>0, <1>1, <1>7 DEF Refuse, RequestsFit, KnownWhere, Out, Creates
<1>8. ASSUME NEW s \in DOMAIN jobs, Serve(s) \/ Lose(s) PROVE RequestsFit' /\ KnownWhere'
  <2>1. s \in Out /\ (Moved(s, "ok", jobs[s].step) \/ Moved(s, "bad", jobs[s].step))
    BY <1>0, <1>8, ServeMoves, LossMoves
  <2>2. past'.visit = past.visit /\ known' = known /\ dialog' = dialog
    BY <1>0, <1>8, ServeKeeps DEF Lose, screen, Histories
  <2>3. \A t \in Out' : t \in Out /\ jobs'[t].step = jobs[t].step /\ SameRequest(t)
    BY <2>1 DEF Moved
  <2> QED  BY <1>0, <1>1, <2>2, <2>3 DEF SameRequest, RequestsFit, KnownWhere, Creates
<1>9. ASSUME NEW s \in DOMAIN jobs, Continue(s) PROVE RequestsFit' /\ KnownWhere'
  <2>1. s \in Out /\ Moved(s, "sent", jobs[s].step + 1)
    BY <1>0, <1>9, NextRequestMoves
  <2>2. past' = past /\ known' = known /\ dialog' = dialog /\ jobs[s].step < Len(jobs[s].button.steps)
    BY <1>9 DEF Continue
  <2>3. \A t \in Out' : t \in Out /\ SameRequest(t) /\ (t # s => jobs'[t].step = jobs[t].step)
    BY <2>1 DEF Moved
  <2>4. jobs'[s].step = jobs[s].step + 1
    BY <2>1 DEF Moved
  <2> QED  BY <1>0, <1>1, <1>2, <2>1, <2>2, <2>3, <2>4 DEF SameRequest, RequestsFit, KnownWhere, Creates
<1>10. ASSUME NEW s \in DOMAIN jobs, Succeed(s) \/ Fail(s) PROVE RequestsFit' /\ KnownWhere'
  <2>1. Ended(s)
    <3>1. jobs[s].phase \in Phases /\ jobs' = [jobs EXCEPT ![s] = Over]
      BY <1>10 DEF Succeed, Fail, Phases
    <3> QED  BY <1>0, <3>1, AnswerEnds
  <2>2. past'.visit = past.visit
    BY <1>0, <1>10 DEF Succeed, Fail, Histories
  <2>3. RequestsFit'
    BY <1>0, <2>1, <2>2 DEF Ended, RequestsFit
  <2>4. KnownWhere'
    BY <1>0, <1>10 DEF Succeed, Fail, KnownWhere, Creates
  <2> QED  BY <2>3, <2>4
<1> QED  BY <1>0, <1>3, <1>4, <1>5, <1>6, <1>7, <1>8, <1>9, <1>10, StepCases

(* What the end of a request does to the requests and the flags.           *)
LEMMA EndOfRequest ==
    ASSUME TypeOK, NEW s \in DOMAIN jobs, Succeed(s) \/ Fail(s)
    PROVE  /\ Ended(s) /\ past'.visit = past.visit
           /\ \/ flags' = Lowered(jobs[s], StillRaised(jobs[s]))
              \/ Succeed(s) /\ "staysBusy" \in jobs[s].button.after /\ flags' = flags
<1>1. jobs[s].phase \in Phases /\ jobs' = [jobs EXCEPT ![s] = Over]
  BY DEF Succeed, Fail, Phases
<1>2. Ended(s)
  BY <1>1, AnswerEnds
<1>3. past'.visit = past.visit
  BY DEF Succeed, Fail, TypeOK, Histories
<1>4. \/ flags' = Lowered(jobs[s], StillRaised(jobs[s]))
      \/ Succeed(s) /\ "staysBusy" \in jobs[s].button.after /\ flags' = flags
  BY DEF Succeed, Fail
<1> QED  BY <1>2, <1>3, <1>4

(* A flag that guards something is raised by those who wait for it only.   *)
LEMMA GuardsOwned ==
    ASSUME NEW f \in Guards(plan)
    PROVE  /\ ~plan.oneBusy /\ f # ""
           /\ \A b \in plan.buttons : f \in b.raises => b.waits = f
<1>1. CASE plan.oneBusy
  BY <1>1 DEF Guards
<1>2. CASE ~plan.oneBusy
  <2>1. f # "" /\ f \notin UNION {b.raises \ {b.waits} : b \in plan.buttons}
    BY <1>2 DEF Guards
  <2>2. ASSUME NEW b \in plan.buttons, f \in b.raises, b.waits # f PROVE FALSE
    <3>1. f \in b.raises \ {b.waits}
      BY <2>2
    <3> QED  BY <2>1, <3>1
  <2> QED  BY <1>2, <2>1, <2>2
<1> QED  BY <1>1, <1>2

LEMMA GuardsKeep ==
    ASSUME PagesInv, [Next]_vars, PlansAssumption
    PROVE  OneBehindEach'
<1> USE DEF PagesInv
<1>0. TypeOK /\ RequestsFit /\ OneBehindEach /\ plan' = plan /\ past.visit \in Nat /\ past \in Histories
      /\ plan \in Plans
  BY PlanStays DEF TypeOK, Histories
<1>1. \A s \in Out : jobs[s].visit \in Nat /\ jobs[s].visit <= past.visit /\ jobs[s].button \in plan.buttons
  BY <1>0, OutAreRequests DEF Requests, RequestsFit
<1>2. SUFFICES ASSUME NEW f \in Guards(plan), NEW s \in Guarded(f)'
               PROVE  f \in flags' /\ \A t \in Guarded(f)' : t = s
  BY <1>0 DEF OneBehindEach
<1>3. \A t \in Guarded(f) : f \in flags /\ \A u \in Guarded(f) : u = t
  BY <1>0 DEF OneBehindEach
<1>4. CASE Apart
  BY <1>0, <1>2, <1>3, <1>4 DEF Apart, Guarded, Out
<1>5. ASSUME NEW kind \in {"old", "new"}, OpenDialog(kind)
      PROVE  f \in flags' /\ \A t \in Guarded(f)' : t = s
  <2>1. past'.visit = past.visit + 1 /\ jobs' = jobs /\ flags' = flags \ plan.dialogFlags /\ Out' = Out
    BY <1>0, <1>5 DEF OpenDialog, Histories, Out
  <2>2. f \notin plan.dialogFlags
    BY <1>0, <1>1, <1>2, <2>1 DEF Guarded
  <2>3. Guarded(f)' = Guarded(f)
    BY <1>0, <2>1, <2>2 DEF Guarded
  <2> QED  BY <1>2, <1>3, <2>1, <2>2, <2>3
<1>6. CASE CancelDialog
  <2>1. past'.visit = past.visit /\ jobs' = jobs /\ flags' = flags
    BY <1>0, <1>6 DEF CancelDialog, Histories
  <2> QED  BY <1>0, <1>2, <1>3, <2>1 DEF Guarded, Out
<1>7. ASSUME NEW b \in plan.buttons, Click(b)
      PROVE  f \in flags' /\ \A t \in Guarded(f)' : t = s
  <2>1. PICK c \in 1..MaxClicks : Made(c, b)
    BY <1>0, <1>7, ClickMakes
  <2>2. past'.visit = past.visit /\ flags' = b.raises \cup flags /\ b.waits \notin flags
    BY <1>0, <1>7, GuardsOwned DEF Click, Histories, Offered
  <2>3. \A t \in Out' : t = c \/ (t \in Out /\ jobs'[t].button = jobs[t].button /\ jobs'[t].visit = jobs[t].visit)
    BY <2>1 DEF Made
  <2>4. \A t \in Guarded(f)' : t = c \/ t \in Guarded(f)
    BY <1>0, <2>2, <2>3 DEF Guarded
  <2>5. CASE b.waits = f
    <3>1. Guarded(f) = {}
      BY <1>3, <2>2, <2>5
    <3>2. f \in b.raises
      BY <1>0, <2>5, GuardsOwned DEF PlansAssumption, Busy
    <3> QED  BY <1>2, <2>2, <2>4, <3>1, <3>2
  <2>6. CASE b.waits # f
    <3>1. c \notin Guarded(f)'
      BY <2>1, <2>6 DEF Guarded, Made
    <3> QED  BY <1>2, <1>3, <2>2, <2>4, <3>1
  <2> QED  BY <2>5, <2>6
<1>8. ASSUME NEW b \in plan.buttons, Refuse(b)
      PROVE  f \in flags' /\ \A t \in Guarded(f)' : t = s
  <2>1. past' = past /\ jobs' = jobs /\ flags' = flags \cup b.raises
    BY <1>8 DEF Refuse
  <2> QED  BY <1>0, <1>2, <1>3, <2>1 DEF Guarded, Out
<1>9. ASSUME NEW u \in DOMAIN jobs, Serve(u) \/ Lose(u)
      PROVE  f \in flags' /\ \A t \in Guarded(f)' : t = s
  <2>1. u \in Out /\ (Moved(u, "ok", jobs[u].step) \/ Moved(u, "bad", jobs[u].step))
    BY <1>0, <1>9, ServeMoves, LossMoves
  <2>2. past'.visit = past.visit /\ flags' = flags
    BY <1>0, <1>9, ServeKeeps DEF Lose, screen, Histories
  <2>3. Guarded(f)' = Guarded(f)
    BY <1>0, <2>1, <2>2 DEF Moved, SameRequest, Guarded
  <2> QED  BY <1>2, <1>3, <2>2, <2>3
<1>10. ASSUME NEW u \in DOMAIN jobs, Continue(u)
       PROVE  f \in flags' /\ \A t \in Guarded(f)' : t = s
  <2>1. u \in Out /\ Moved(u, "sent", jobs[u].step + 1)
    BY <1>0, <1>10, NextRequestMoves
  <2>2. past' = past /\ (flags' = flags \/ flags' = Lowered(jobs[u], Borrowed(jobs[u])))
    BY <1>10 DEF Continue
  <2>3. Guarded(f)' = Guarded(f)
    BY <1>0, <2>1, <2>2 DEF Moved, SameRequest, Guarded
  <2>4. f \notin Borrowed(jobs[u])
    BY <1>1, <2>1, GuardsOwned DEF Borrowed
  <2>5. f \in flags => f \in flags'
    BY <2>2, <2>4, GuardsOwned DEF Lowered
  <2> QED  BY <1>2, <1>3, <2>3, <2>5
<1>11. ASSUME NEW u \in DOMAIN jobs, Succeed(u) \/ Fail(u)
       PROVE  f \in flags' /\ \A t \in Guarded(f)' : t = s
  <2>1. /\ Ended(u) /\ past'.visit = past.visit
        /\ flags' = Lowered(jobs[u], StillRaised(jobs[u])) \/ flags' = flags
    BY <1>0, <1>11, EndOfRequest
  <2>2. u \in Out /\ Out' = Out \ {u} /\ \A t \in Out' : jobs'[t] = jobs[t]
    BY <2>1 DEF Ended
  <2>3. Guarded(f)' = Guarded(f) \ {u}
    BY <1>0, <2>1, <2>2 DEF Guarded
  <2>4. s \in Guarded(f) /\ s # u /\ u \notin Guarded(f)
    BY <1>2, <1>3, <2>3
  <2>5. f \in jobs[u].button.raises => jobs[u].visit # past.visit /\ f \in plan.dialogFlags
    BY <1>1, <2>2, <2>4, GuardsOwned DEF Guarded
  <2>6. f \in flags => f \in flags'
    BY <2>1, <2>5, GuardsOwned DEF Lowered, StillRaised
  <2> QED  BY <1>3, <2>3, <2>4, <2>6
<1> QED  BY <1>0, <1>4, <1>5, <1>6, <1>7, <1>8, <1>9, <1>10, <1>11, StepCases

(* A page that leaves is not called back, and goes only when it leaves.    *)
LEMMA LeavingStays ==
    ASSUME [Next]_vars, leaving PROVE leaving'
BY DEF Next, UserActs, BrowserActs, ServerActs, NetworkActs, OthersAct, Type, OpenDialog, CancelDialog,
       Click, Refuse, ServeLoad, ShowLoad, FailLoad, Navigate, Serve, ServeUpdate, ServeCreate, ServeSubmit,
       ServeDerive, ServeRemove, ServeDecide, ServeAside, Lose, Continue, Succeed, Fail, ColleagueEdits,
       ColleagueSubmits, ApproverDecides, vars, screen

LEMMA NobodyGoes ==
    ASSUME [Next]_vars PROVE (gone' = gone) \/ leaving
BY DEF Next, UserActs, BrowserActs, ServerActs, NetworkActs, OthersAct, Type, OpenDialog, CancelDialog,
       Click, Refuse, ServeLoad, ShowLoad, FailLoad, Navigate, Serve, ServeUpdate, ServeCreate, ServeSubmit,
       ServeDerive, ServeRemove, ServeDecide, ServeAside, Lose, Continue, Succeed, Fail, ColleagueEdits,
       ColleagueSubmits, ApproverDecides, vars, screen

LEMMA FlagsOwed ==
    ASSUME PagesInv, [Next]_vars, PlansAssumption
    PROVE  RaisedForSomebody'
<1> USE DEF PagesInv
<1>0. TypeOK /\ RaisedForSomebody /\ plan' = plan /\ past.visit \in Nat /\ past \in Histories /\ plan \in Plans
  BY PlanStays DEF TypeOK, Histories
<1>1. \A s \in Out : jobs[s].button \in plan.buttons
  BY <1>0, OutAreRequests DEF Requests
<1>a. gone' => leaving'
  <2>1. gone => leaving
    BY <1>0 DEF RaisedForSomebody
  <2>2. leaving => leaving'
    BY LeavingStays
  <2>3. (gone' = gone) \/ leaving
    BY NobodyGoes
  <2> QED  BY <2>1, <2>2, <2>3
<1>2. SUFFICES ASSUME ~Sticks(plan), NEW f \in flags', ~leaving'
               PROVE  \E s \in Out' : Lowers(s, f)'
  BY <1>0, <1>a DEF RaisedForSomebody
<1>3. ~leaving /\ ~gone /\ (f \in flags => \E s \in Out : Lowers(s, f))
  BY <1>0, <1>2, LeavingStays DEF RaisedForSomebody
<1>4. CASE Apart
  BY <1>0, <1>2, <1>3, <1>4 DEF Apart, Out, Lowers, StillRaised, Borrowed
<1>5. ASSUME NEW kind \in {"old", "new"}, OpenDialog(kind)
      PROVE  \E s \in Out' : Lowers(s, f)'
  BY <1>0, <1>2, <1>3, <1>5 DEF OpenDialog, Out, Lowers, StillRaised, Borrowed
<1>6. CASE CancelDialog
  BY <1>0, <1>2, <1>3, <1>6 DEF CancelDialog, Out, Histories, Lowers, StillRaised, Borrowed
<1>7. ASSUME NEW b \in plan.buttons, Click(b)
      PROVE  \E s \in Out' : Lowers(s, f)'
  <2>1. PICK c \in 1..MaxClicks : Made(c, b)
    BY <1>0, <1>7, ClickMakes
  <2>2. past'.visit = past.visit /\ flags' \subseteq b.raises \cup flags
    BY <1>0, <1>7 DEF Click, Histories
  <2>3. CASE f \in b.raises
    BY <1>0, <2>1, <2>2, <2>3 DEF Made, Lowers, StillRaised
  <2>4. CASE f \in flags
    BY <1>0, <1>3, <2>1, <2>2, <2>4 DEF Made, Lowers, StillRaised, Borrowed
  <2> QED  BY <1>2, <2>2, <2>3, <2>4
<1>8. ASSUME NEW b \in plan.buttons, Refuse(b)
      PROVE  FALSE
  BY <1>2, <1>8 DEF Refuse, Sticks
<1>9. ASSUME NEW u \in DOMAIN jobs, Serve(u) \/ Lose(u)
      PROVE  \E s \in Out' : Lowers(s, f)'
  <2>1. Moved(u, "ok", jobs[u].step) \/ Moved(u, "bad", jobs[u].step)
    BY <1>0, <1>9, ServeMoves, LossMoves
  <2>2. past'.visit = past.visit /\ f \in flags
    BY <1>0, <1>2, <1>9, ServeKeeps DEF Lose, screen, Histories
  <2>3. Out' = Out /\ \A t \in Out : SameRequest(t) /\ jobs'[t].step = jobs[t].step
    BY <2>1 DEF Moved
  <2> QED  BY <1>0, <1>3, <2>2, <2>3 DEF SameRequest, Lowers, StillRaised, Borrowed
<1>b. ASSUME NEW u \in DOMAIN jobs, Continue(u)
      PROVE  \E s \in Out' : Lowers(s, f)'
  <2>1. Moved(u, "sent", jobs[u].step + 1)
    BY <1>0, <1>b, NextRequestMoves
  <2>2. /\ past'.visit = past.visit /\ f \in flags
        /\ flags' = IF Borrowed(jobs[u]) # {} THEN Lowered(jobs[u], Borrowed(jobs[u])) ELSE flags
    BY <1>0, <1>2, <1>3, <1>b DEF Continue, Lowered, Histories
  <2>3. Out' = Out /\ \A t \in Out : SameRequest(t) /\ (t # u => jobs'[t] = jobs[t])
    BY <2>1 DEF Moved
  <2>4. PICK t \in Out : Lowers(t, f)
    BY <1>3, <2>2
  <2>5. CASE t # u
    BY <1>0, <2>2, <2>3, <2>4, <2>5 DEF Lowers, StillRaised, Borrowed
  <2>6. CASE t = u
    <3>1. f \notin Borrowed(jobs[u])
      BY <1>2, <2>2, <2>4, <2>6 DEF Lowered, Lowers
    <3>2. f \in jobs[u].button.raises
      BY <2>4, <2>6 DEF Lowers, StillRaised
    <3>3. f \in StillRaised(jobs[u])'
      BY <2>3, <2>4, <2>6, <3>1, <3>2 DEF StillRaised, Borrowed, SameRequest
    <3> QED  BY <1>0, <2>2, <2>3, <2>4, <2>6, <3>3 DEF Lowers, SameRequest
  <2> QED  BY <2>5, <2>6
<1>10. ASSUME NEW u \in DOMAIN jobs, Succeed(u) \/ Fail(u)
       PROVE  \E s \in Out' : Lowers(s, f)'
  <2>1. /\ Ended(u) /\ past'.visit = past.visit
        /\ \/ flags' = Lowered(jobs[u], StillRaised(jobs[u]))
           \/ Succeed(u) /\ "staysBusy" \in jobs[u].button.after /\ flags' = flags
    BY <1>0, <1>10, EndOfRequest
  <2>2. u \in Out /\ Out' = Out \ {u} /\ \A t \in Out' : jobs'[t] = jobs[t]
    BY <2>1 DEF Ended
  <2>4. CASE Succeed(u) /\ "staysBusy" \in jobs[u].button.after
    BY <1>0, <1>1, <1>2, <2>2, <2>4 DEF Succeed, PlansAssumption, Busy
  <2>5. CASE flags' = Lowered(jobs[u], StillRaised(jobs[u]))
    <3>1. f \in flags /\ ~Lowers(u, f)
      BY <1>2, <2>5 DEF Lowered, Lowers
    <3> QED  BY <1>0, <1>3, <2>1, <2>2, <3>1 DEF Lowers, StillRaised, Borrowed
  <2> QED  BY <2>1, <2>4, <2>5
<1> QED  BY <1>0, <1>4, <1>5, <1>6, <1>7, <1>8, <1>9, <1>b, <1>10, StepCases

(* Two requests for the row of one form wait for the same flag.            *)
LEMMA OneCreation ==
    ASSUME PagesInv, PlansAssumption, NEW s \in Out, NEW t \in Out, Creating(s), Creating(t)
    PROVE  s = t /\ jobs[s].button.waits \in flags
<1>1. plan \in Plans /\ OneBehindEach
  BY DEF PagesInv, TypeOK
<1>2. jobs[s].button.waits \in Guards(plan) /\ jobs[t].button.waits = jobs[s].button.waits
  BY <1>1 DEF Creating, PlansAssumption, MakesOnce
<1> QED  BY <1>1, <1>2 DEF OneBehindEach, Guarded, Creating

LEMMA RowsOnce ==
    ASSUME PagesInv, [Next]_vars, PlansAssumption
    PROVE  OneRowPerForm'
<1>0. TypeOK /\ RequestsFit /\ KnownWhere /\ OneRowPerForm /\ plan' = plan /\ past.visit \in Nat
      /\ past.made \in Nat /\ past \in Histories /\ plan \in Plans /\ known \in BOOLEAN
  BY PlanStays DEF PagesInv, TypeOK, Histories
<1>1. \A s \in Out : /\ jobs[s].visit \in Nat /\ jobs[s].visit <= past.visit /\ jobs[s].button \in plan.buttons
                    /\ jobs[s].step \in 1..Len(jobs[s].button.steps)
  BY <1>0, OutAreRequests DEF Requests, RequestsFit
<1>2. SUFFICES ASSUME ~past'.eager, ~past'.unsure
      PROVE  /\ past'.made <= 1
             /\ past'.made = 1 =>
                   /\ known' \/ leaving' \/ \E s \in Out' : jobs'[s].phase = "ok" /\ Creating(s)'
                   /\ \A s \in Out' : Creating(s)' => jobs'[s].phase # "sent"
  BY DEF OneRowPerForm
<1> DEFINE Goal == /\ past'.made <= 1
                   /\ past'.made = 1 =>
                         /\ known' \/ leaving' \/ \E s \in Out' : jobs'[s].phase = "ok" /\ Creating(s)'
                         /\ \A s \in Out' : Creating(s)' => jobs'[s].phase # "sent"
           Before == /\ past.made <= 1
                     /\ past.made = 1 =>
                           /\ known \/ leaving \/ \E s \in Out : jobs[s].phase = "ok" /\ Creating(s)
                           /\ \A s \in Out : Creating(s) => jobs[s].phase # "sent"
<1>3. ~past.eager /\ ~past.unsure => Before
  BY <1>0 DEF OneRowPerForm
<1>4. ASSUME Apart PROVE Goal
  <2>1. Before
    BY <1>2, <1>3, <1>4 DEF Apart
  <2> QED  BY <1>0, <1>4, <2>1 DEF Apart, Creating, Out
<1>5. ASSUME NEW kind \in {"old", "new"}, OpenDialog(kind) PROVE Goal
  BY <1>0, <1>5 DEF OpenDialog, Histories
<1>6. ASSUME CancelDialog PROVE Goal
  <2>1. /\ jobs' = jobs /\ known' = TRUE /\ past'.visit = past.visit /\ past'.made = past.made
        /\ past'.eager = past.eager /\ past'.unsure = past.unsure
    BY <1>0, <1>6 DEF CancelDialog, Histories
  <2>2. Before
    BY <1>2, <1>3, <2>1
  <2> QED  BY <1>0, <2>1, <2>2 DEF Creating, Out
<1>7. ASSUME NEW b \in plan.buttons, Click(b) PROVE Goal
  <2>1. PICK c \in 1..MaxClicks : Made(c, b)
    BY <1>0, <1>7, ClickMakes
  <2>2. /\ past'.visit = past.visit /\ past'.made = past.made /\ past'.unsure = past.unsure
        /\ past'.eager = (past.eager \/ leaving) /\ known' = known /\ leaving' = leaving
        /\ b.waits \notin flags
    BY <1>0, <1>7 DEF Click, Histories, Offered
  <2>3. Before /\ ~leaving
    BY <1>2, <1>3, <2>2
  <2>4. ASSUME NEW s \in Out
        PROVE  s \in Out' /\ s # c /\ jobs'[s].phase = jobs[s].phase /\ (Creating(s)' <=> Creating(s))
    BY <1>0, <2>1, <2>2 DEF Made, Creating
  <2>5. ASSUME past.made = 1, Creating(c)' PROVE FALSE
    <3>1. b \in Creators(plan) /\ ~known
      BY <1>0, <2>1, <2>5 DEF Made, Creating
    <3>2. PICK s \in Out : Creating(s)
      BY <2>3, <2>5, <3>1
    <3>3. jobs[s].button.waits = b.waits
      BY <1>0, <3>1, <3>2 DEF Creating, PlansAssumption, MakesOnce
    <3> QED  BY <2>2, <3>2, <3>3, OneCreation
  <2>6. Out' = Out \cup {c}
    BY <2>1 DEF Made
  <2> QED  BY <2>2, <2>3, <2>4, <2>5, <2>6
<1>8. ASSUME NEW b \in plan.buttons, Refuse(b) PROVE Goal
  <2>1. past' = past /\ jobs' = jobs /\ known' = known /\ leaving' = leaving
    BY <1>8 DEF Refuse
  <2>2. Before
    BY <1>2, <1>3, <2>1
  <2> QED  BY <1>0, <2>1, <2>2 DEF Creating, Out
<1>9. ASSUME NEW u \in DOMAIN jobs, Serve(u) PROVE Goal
  <2>1. u \in Out /\ jobs[u].phase = "sent"
        /\ (Moved(u, "ok", jobs[u].step) \/ Moved(u, "bad", jobs[u].step))
    BY <1>0, <1>9, ServeMoves
  <2>2. /\ known' = known /\ leaving' = leaving /\ past'.visit = past.visit
        /\ past'.eager = past.eager /\ past'.unsure = past.unsure
        /\ \/ past'.made = past.made
           \/ /\ ~jobs[u].known /\ jobs[u].visit = past.visit /\ StepOf(jobs[u]).op = "store"
              /\ past'.made = past.made + 1 /\ jobs'[u].phase = "ok"
    BY <1>0, <1>9, ServeKeeps
  <2>3. Before
    BY <1>2, <1>3, <2>2
  <2>4. /\ Out' = Out /\ \A t \in Out : (Creating(t)' <=> Creating(t)) /\ (t # u => jobs'[t] = jobs[t])
        /\ jobs'[u].phase # "sent"
    BY <1>0, <2>1, <2>2 DEF Moved, SameRequest, Creating
  <2>5. CASE past'.made = past.made
    BY <2>1, <2>2, <2>3, <2>4, <2>5
  <2>6. CASE past'.made # past.made
    <3>1. /\ ~jobs[u].known /\ jobs[u].visit = past.visit /\ StepOf(jobs[u]).op = "store"
          /\ past'.made = past.made + 1 /\ jobs'[u].phase = "ok"
      BY <2>2, <2>6
    <3>2. jobs[u].button \in Creators(plan)
      <4>1. "new" \in jobs[u].button.at /\ Creates(plan)
        BY <1>0, <2>1, <3>1 DEF RequestsFit
      <4>2. jobs[u].step \in DOMAIN jobs[u].button.steps
        <5>1. jobs[u].button.steps \in Seq([op : STRING, parts : SUBSET Parts])
          BY <1>0, <1>1, <2>1 DEF PlansAssumption, Typed
        <5> QED  BY <1>1, <2>1, <5>1
      <4> QED  BY <1>1, <2>1, <3>1, <4>1, <4>2 DEF Creators, StepOf
    <3>3. Creating(u)
      BY <3>1, <3>2 DEF Creating
    <3>4. past.made = 0
      BY <1>0, <2>1, <2>3, <3>3
    <3>5. \A t \in Out : Creating(t) => t = u
      BY <2>1, <3>3, OneCreation
    <3> QED  BY <2>1, <2>4, <3>1, <3>3, <3>4, <3>5
  <2> QED  BY <2>5, <2>6
<1>10. ASSUME NEW u \in DOMAIN jobs, Lose(u) PROVE Goal
  <2>1. u \in Out /\ Moved(u, "bad", jobs[u].step)
    BY <1>0, <1>10, LossMoves
  <2>2. /\ past'.visit = past.visit /\ past'.made = past.made /\ past'.eager = past.eager
        /\ past'.unsure = (past.unsure \/ jobs[u].phase = "ok") /\ known' = known /\ leaving' = leaving
    BY <1>0, <1>10 DEF Lose, screen, Histories
  <2>3. Before /\ jobs[u].phase # "ok"
    BY <1>2, <1>3, <2>2
  <2>4. /\ Out' = Out /\ \A t \in Out : (Creating(t)' <=> Creating(t)) /\ (t # u => jobs'[t] = jobs[t])
        /\ jobs'[u].phase = "bad"
    BY <1>0, <2>1, <2>2 DEF Moved, SameRequest, Creating
  <2> QED  BY <2>1, <2>2, <2>3, <2>4
<1>11. ASSUME NEW u \in DOMAIN jobs, Continue(u) PROVE Goal
  <2>1. u \in Out /\ Moved(u, "sent", jobs[u].step + 1)
    BY <1>0, <1>11, NextRequestMoves
  <2>2. past' = past /\ known' = known /\ leaving' = leaving /\ jobs[u].step < Len(jobs[u].button.steps)
    BY <1>11 DEF Continue
  <2>3. Before
    BY <1>2, <1>3, <2>2
  <2>4. Out' = Out /\ \A t \in Out : (Creating(t)' <=> Creating(t)) /\ (t # u => jobs'[t] = jobs[t])
    BY <1>0, <2>1, <2>2 DEF Moved, SameRequest, Creating
  <2>5. ~Creating(u)
    <3>1. SUFFICES ASSUME Creating(u) PROVE FALSE
      OBVIOUS
    <3>2. Len(jobs[u].button.steps) = 1
      BY <1>0, <3>1 DEF Creating, PlansAssumption, MakesOnce
    <3>3. jobs[u].step \in 1..1
      BY <1>1, <2>1, <3>2
    <3> QED  BY <2>2, <3>2, <3>3
  <2> QED  BY <2>1, <2>2, <2>3, <2>4, <2>5
<1>12. ASSUME NEW u \in DOMAIN jobs, Fail(u) PROVE Goal
  <2>1. Ended(u) /\ past' = past /\ known' = known /\ leaving' = leaving /\ jobs[u].phase = "bad"
    BY <1>0, <1>12, EndOfRequest DEF Fail
  <2>2. Before
    BY <1>2, <1>3, <2>1
  <2>3. Out' = Out \ {u} /\ \A t \in Out' : jobs'[t] = jobs[t] /\ (Creating(t)' <=> Creating(t))
    BY <1>0, <2>1 DEF Ended, Creating
  <2> QED  BY <2>1, <2>2, <2>3
<1>13. ASSUME NEW u \in DOMAIN jobs, Succeed(u) PROVE Goal
  <2> DEFINE after == jobs[u].button.after
  <2>1. /\ Ended(u) /\ past'.visit = past.visit /\ past'.eager = past.eager /\ past'.unsure = past.unsure
        /\ past'.made = IF "clear" \in after THEN 0 ELSE past.made
    BY <1>0, <1>13, EndOfRequest DEF Succeed, Histories
  <2>2. Before
    BY <1>2, <1>3, <2>1
  <2>3. u \in Out /\ Out' = Out \ {u} /\ \A t \in Out' : jobs'[t] = jobs[t] /\ (Creating(t)' <=> Creating(t))
    BY <1>0, <2>1 DEF Ended, Creating
  <2>4. (known => known') /\ (leaving => leaving')
    BY <1>13 DEF Succeed
  <2>5. Creating(u) => "clear" \in after \/ known' \/ leaving'
    <3>1. SUFFICES ASSUME Creating(u), "clear" \notin after
                   PROVE  known' \/ leaving'
      OBVIOUS
    <3>2. after \cap ({"leave", "know", "clear"} \cup IF plan.opens = "blank" THEN {} ELSE {"close"}) # {}
      BY <1>0, <3>1 DEF Creating, PlansAssumption, MakesOnce
    <3>3. "leave" \in after \/ "know" \in after \/ (plan.opens # "blank" /\ "close" \in after)
      BY <3>1, <3>2
    <3>4. plan.opens # "blank" => known \/ dialog # "closed"
      BY <1>0 DEF KnownWhere
    <3>5. jobs[u].visit = past.visit
      BY <3>1 DEF Creating
    <3> QED  BY <1>13, <3>3, <3>4, <3>5 DEF Succeed
  <2> QED  BY <2>1, <2>2, <2>3, <2>4, <2>5
<1> HIDE DEF Goal, Before
<1>14. Goal
  BY <1>0, <1>4, <1>5, <1>6, <1>7, <1>8, <1>9, <1>10, <1>11, <1>12, <1>13, StepCases
<1> QED  BY <1>14 DEF Goal

(* A save that is answered well has stored what the request carried.       *)
LEMMA SaveStores ==
    ASSUME TypeOK, RequestsFit, PlansAssumption, NEW s \in DOMAIN jobs, Serve(s),
           StepOf(jobs[s]).op = "store", jobs'[s].phase = "ok"
    PROVE  \A p \in StepOf(jobs[s]).parts : doc'.body[p] = jobs[s].sent[p]
<1>0. s \in Out /\ jobs[s] \in Requests(plan) /\ plan \in Plans /\ doc \in Docs
      /\ jobs \in [1..MaxClicks -> {NotMade, Over} \cup Requests(plan)]
  BY ServeMoves, OutAreRequests DEF TypeOK
<1>1. StepOf(jobs[s]).parts \subseteq Parts
  <2>1. jobs[s].button.steps \in Seq([op : STRING, parts : SUBSET Parts])
    BY <1>0 DEF Requests, PlansAssumption, Typed
  <2>2. jobs[s].step \in 1..Len(jobs[s].button.steps)
    BY <1>0 DEF RequestsFit
  <2>3. jobs[s].button.steps[jobs[s].step] \in [op : STRING, parts : SUBSET Parts]
    <3> DEFINE st == jobs[s].button.steps
               n == jobs[s].step
               S == [op : STRING, parts : SUBSET Parts]
    <3>1. st \in Seq(S) /\ n \in 1..Len(st)
      BY <2>1, <2>2
    <3> HIDE DEF st, n, S
    <3>2. st[n] \in S
      BY <3>1
    <3> QED  BY <3>2 DEF st, n, S
  <2> QED  BY <2>3 DEF StepOf
<1>2. ASSUME NEW ok, NEW body, Answered(s, ok, body) PROVE ok
  BY <1>0, <1>2 DEF Answered, Requests
<1> DEFINE new == [p \in Parts |-> IF p \in StepOf(jobs[s]).parts THEN jobs[s].sent[p] ELSE 0]
<1>3. \A p \in StepOf(jobs[s]).parts : Saved(jobs[s])[p] = jobs[s].sent[p] /\ new[p] = jobs[s].sent[p]
  BY <1>1 DEF Saved
<1>4. CASE ServeUpdate(s)
  <2>1. Editable
    BY <1>2, <1>4 DEF ServeUpdate
  <2>2. doc' = [doc EXCEPT !.body = Saved(jobs[s])]
    BY <1>4, <2>1 DEF ServeUpdate
  <2>3. doc'.body = Saved(jobs[s])
    BY <1>0, <2>2 DEF Docs
  <2> QED  BY <1>3, <2>3
<1>5. CASE ServeCreate(s)
  <2> DEFINE line == plan.opens = "row"
             ok == line => Editable
  <2>1. ok
    BY <1>2, <1>5 DEF ServeCreate
  <2>2. doc'.body = Saved(jobs[s]) \/ doc'.body = new
    <3>1. CASE line
      <4>1. doc' = [doc EXCEPT !.body = Saved(jobs[s])]
        BY <1>5, <2>1, <3>1 DEF ServeCreate
      <4> QED  BY <1>0, <4>1 DEF Docs
    <3>2. CASE ~line
      <4>1. \E st \in plan.server.starts : doc' = Started(st, new)
        BY <1>5, <2>1, <3>2 DEF ServeCreate
      <4> HIDE DEF new
      <4> QED  BY <4>1 DEF Started
    <3> QED  BY <3>1, <3>2
  <2> HIDE DEF new
  <2> QED  BY <1>3, <2>2
<1> QED
  BY <1>4, <1>5 DEF Serve, ServeSubmit, ServeDerive, ServeRemove, ServeDecide, ServeAside, Asked

(* The document changes by an answer of the server or by somebody else.    *)
LEMMA DocSteps ==
    ASSUME TypeOK, [Next]_vars
    PROVE  /\ Stale => Stale'
           /\ Stale' \/ doc' = doc \/ \E s \in DOMAIN jobs : Serve(s)
<1>0. past \in Histories /\ past.others \in Nat
  BY DEF TypeOK, Histories
<1>1. CASE ServeLoad \/ ShowLoad \/ Navigate \/ FailLoad \/ CancelDialog \/ UNCHANGED vars
  BY <1>0, <1>1 DEF ServeLoad, ShowLoad, Navigate, FailLoad, CancelDialog, vars, screen, Stale, Histories
<1>2. ASSUME NEW p, Type(p) \/ OpenDialog(p) \/ Click(p) \/ Refuse(p)
      PROVE  doc' = doc /\ (Stale => Stale')
  BY <1>0, <1>2 DEF Type, OpenDialog, Click, Refuse, Stale, Histories
<1>3. ASSUME NEW s \in DOMAIN jobs, Lose(s) \/ Continue(s) \/ Succeed(s) \/ Fail(s)
      PROVE  doc' = doc /\ (Stale => Stale')
  BY <1>0, <1>3 DEF Lose, Continue, Succeed, Fail, screen, Stale, Histories
<1>4. ASSUME NEW s \in DOMAIN jobs, Serve(s)
      PROVE  Stale => Stale'
  BY <1>4, ServeKeeps DEF Stale
<1>5. ASSUME NEW p, ColleagueEdits(p) \/ ColleagueSubmits \/ ApproverDecides
      PROVE  Stale'
  <2>1. past'.others = past.others + 1
    BY <1>0, <1>5 DEF ColleagueEdits, ColleagueSubmits, ApproverDecides, Touched, Histories
  <2> QED  BY <1>0, <2>1 DEF Stale
<1> QED
  BY <1>1, <1>2, <1>3, <1>4, <1>5 DEF Next, UserActs, BrowserActs, ServerActs, NetworkActs, OthersAct

(* Only a request that is alone, and its own answers, concern SavedAsSent. *)
LEMMA SavesStand ==
    ASSUME PagesInv, [Next]_vars, PlansAssumption
    PROVE  AloneMeansAlone' /\ SavedAsSent'
<1>0. TypeOK /\ RequestsFit /\ AloneMeansAlone /\ SavedAsSent
  BY DEF PagesInv
<1>1. \A s \in Out : jobs[s].step \in Nat
  BY <1>0, OutAreRequests DEF Requests
<1>2. (Stale => Stale') /\ (Stale' \/ doc' = doc \/ \E s \in DOMAIN jobs : Serve(s))
  BY <1>0, DocSteps
<1>3. ASSUME jobs' = jobs PROVE AloneMeansAlone' /\ (~Stale' /\ doc' = doc => SavedAsSent')
  BY <1>0, <1>2, <1>3 DEF AloneMeansAlone, SavedAsSent, Filed, Done, Out
<1>4. ASSUME NEW b \in plan.buttons, Click(b) PROVE AloneMeansAlone' /\ SavedAsSent'
  <2>1. PICK c \in 1..MaxClicks : Made(c, b)
    BY <1>0, <1>4, ClickMakes
  <2>2. c \notin Out /\ Out' = Out \cup {c} /\ jobs'[c].alone = (Out = {})
        /\ Done(jobs'[c]) = 0 /\ \A t \in Out : jobs'[t].alone = FALSE
    BY <2>1 DEF Made, Done
  <2>3. AloneMeansAlone'
    BY <2>2 DEF AloneMeansAlone
  <2>4. \A t \in Out' : Filed(jobs'[t], doc')
    BY <2>2 DEF Filed
  <2> QED  BY <2>3, <2>4 DEF SavedAsSent
<1>5. ASSUME NEW u \in DOMAIN jobs, Serve(u) PROVE AloneMeansAlone' /\ SavedAsSent'
  <2>1. u \in Out /\ (Moved(u, "ok", jobs[u].step) \/ Moved(u, "bad", jobs[u].step))
    BY <1>0, <1>5, ServeMoves
  <2>2. Out' = Out /\ (\A t \in Out : SameRequest(t)) /\ jobs'[u].step = jobs[u].step
        /\ jobs'[u].phase \in {"ok", "bad"}
    BY <2>1 DEF Moved
  <2>3. AloneMeansAlone'
    BY <1>0, <2>2 DEF AloneMeansAlone, SameRequest
  <2>4. Filed(jobs'[u], doc')
    <3>1. SUFFICES ASSUME jobs'[u].phase = "ok", jobs'[u].button.steps[jobs'[u].step].op = "store"
                   PROVE  \A p \in jobs'[u].button.steps[jobs'[u].step].parts : doc'.body[p] = jobs'[u].sent[p]
      BY <2>2 DEF Filed, Done
    <3>2. jobs'[u].button = jobs[u].button /\ jobs'[u].sent = jobs[u].sent
      BY <2>1, <2>2 DEF SameRequest
    <3> QED  BY <1>0, <1>5, <2>2, <3>1, <3>2, SaveStores DEF StepOf
  <2>5. \A t \in Out' : t # u => jobs'[t].alone # TRUE
    BY <1>0, <2>1, <2>2 DEF AloneMeansAlone, SameRequest
  <2>6. \A t \in Out' : jobs'[t].alone \in BOOLEAN
    BY <1>0, <2>2, OutAreRequests DEF Requests, SameRequest
  <2>7. \A t \in Out' : Filed(jobs'[t], doc')
    BY <2>4, <2>5, <2>6 DEF Filed
  <2> QED  BY <2>3, <2>7 DEF SavedAsSent
<1>6. ASSUME NEW u \in DOMAIN jobs, Lose(u) \/ Continue(u) PROVE AloneMeansAlone' /\ SavedAsSent'
  <2>1. /\ u \in Out
        /\ \/ Moved(u, "bad", jobs[u].step)
           \/ Moved(u, "sent", jobs[u].step + 1) /\ jobs[u].phase = "ok"
    BY <1>0, <1>6, LossMoves, NextRequestMoves DEF Continue
  <2>2. Out' = Out /\ \A t \in Out : SameRequest(t) /\ (t # u => jobs'[t] = jobs[t])
    BY <2>1 DEF Moved
  <2>3. AloneMeansAlone'
    BY <1>0, <2>2 DEF AloneMeansAlone, SameRequest
  <2>4. doc' = doc
    BY <1>6 DEF Lose, Continue
  <2>5. ASSUME ~Stale' PROVE Filed(jobs'[u], doc')
    <3>1. Filed(jobs[u], doc)
      BY <1>0, <1>2, <2>1, <2>5 DEF SavedAsSent
    <3>2. jobs'[u].phase = "bad" \/ (jobs'[u].phase = "sent" /\ jobs[u].phase = "ok" /\ Done(jobs'[u]) = Done(jobs[u]))
      BY <1>1, <2>1 DEF Moved, Done
    <3> QED  BY <2>1, <2>2, <2>4, <3>1, <3>2 DEF Filed, SameRequest
  <2>6. ASSUME ~Stale' PROVE \A t \in Out' : Filed(jobs'[t], doc')
    BY <1>0, <1>2, <2>2, <2>4, <2>5, <2>6 DEF SavedAsSent
  <2> QED  BY <2>3, <2>6 DEF SavedAsSent
<1>7. ASSUME NEW u \in DOMAIN jobs, Succeed(u) \/ Fail(u) PROVE AloneMeansAlone' /\ SavedAsSent'
  <2>1. u \in Out /\ Out' = Out \ {u} /\ (\A t \in Out' : jobs'[t] = jobs[t]) /\ doc' = doc
    BY <1>0, <1>7, EndOfRequest DEF Ended, Succeed, Fail
  <2> QED  BY <1>0, <1>2, <2>1 DEF AloneMeansAlone, SavedAsSent
<1>8. CASE \/ Apart \/ (\E kind \in {"old", "new"} : OpenDialog(kind)) \/ CancelDialog
           \/ \E b \in plan.buttons : Refuse(b)
  <2>1. jobs' = jobs
    BY <1>8 DEF Apart, OpenDialog, CancelDialog, Refuse
  <2>2. CASE \E s \in DOMAIN jobs : Serve(s)
    BY <1>5, <2>2
  <2>3. CASE Stale' \/ doc' = doc
    BY <1>3, <2>1, <2>3 DEF SavedAsSent
  <2> QED  BY <1>2, <2>2, <2>3
<1> QED  BY <1>0, <1>4, <1>5, <1>6, <1>7, <1>8, StepCases

-----------------------------------------------------------------------------
(* The theorems.                                                           *)

(* The invariant holds on every page, and the theorems below follow.       *)
THEOREM PagesAlwaysFit == Spec => []PagesInv
<1>1. Init => PagesInv
  BY TypeStart, InvStart, PlansAssumption, BoundsAssumption
<1>2. PagesInv /\ [Next]_vars => PagesInv'
  <2>1. SUFFICES ASSUME PagesInv, [Next]_vars PROVE PagesInv'
    OBVIOUS
  <2>2. TypeOK'
    BY <2>1, TypeStep, PlansAssumption DEF PagesInv
  <2>3. RequestsFit' /\ KnownWhere'
    BY <2>1, FitsAndKnows, PlansAssumption
  <2>4. OneBehindEach'
    BY <2>1, GuardsKeep, PlansAssumption
  <2>5. RaisedForSomebody'
    BY <2>1, FlagsOwed, PlansAssumption
  <2>6. OneRowPerForm'
    BY <2>1, RowsOnce, PlansAssumption
  <2>7. AloneMeansAlone' /\ SavedAsSent'
    BY <2>1, SavesStand, PlansAssumption
  <2> QED  BY <2>2, <2>3, <2>4, <2>5, <2>6, <2>7 DEF PagesInv
<1> QED  BY <1>1, <1>2, PTL DEF Spec

(* A busy flag lets one request through at a time, and is up as long as it *)
(* is out.                                                                 *)
THEOREM FlagsGuard == Spec => []OneRequestPerGuard
<1>1. ASSUME PagesInv PROVE OneRequestPerGuard
  <2>1. OneBehindEach
    BY <1>1 DEF PagesInv
  <2>2. ASSUME NEW f \in Guards(plan) PROVE Cardinality(Guarded(f)) <= 1 /\ (Guarded(f) # {} => f \in flags)
    <3>1. CASE Guarded(f) = {}
      BY <3>1, FS_EmptySet
    <3>2. CASE Guarded(f) # {}
      <4>1. PICK s : s \in Guarded(f) /\ f \in flags /\ Guarded(f) = {s}
        BY <2>1, <3>2 DEF OneBehindEach
      <4> QED  BY <4>1, FS_Singleton
    <3> QED  BY <3>1, <3>2
  <2> QED  BY <2>2 DEF OneRequestPerGuard
<1> QED  BY <1>1, PagesAlwaysFit, PTL

(* No button waits for a flag that nobody will lower.                      *)
THEOREM NoFlagForgotten == Spec => []NoStuckButton
<1>1. ASSUME PagesInv PROVE NoStuckButton
  BY <1>1 DEF PagesInv, RaisedForSomebody, Lowers, NoStuckButton
<1> QED  BY <1>1, PagesAlwaysFit, PTL

(* One form makes one document, but for a click on a page that is leaving  *)
(* or after an answer that never arrived.                                  *)
THEOREM OneFormOneDocument == Spec => []OneDocumentPerForm
<1>1. ASSUME PagesInv PROVE OneDocumentPerForm
  <2>1. past.made \in Nat
    BY <1>1 DEF PagesInv, TypeOK, Histories
  <2> QED  BY <1>1, <2>1 DEF PagesInv, OneRowPerForm, OneDocumentPerForm
<1> QED  BY <1>1, PagesAlwaysFit, PTL

(* What a submission puts before the approvers is what the form held when  *)
(* the button was clicked.                                                 *)
THEOREM ApproversSeeTheForm == Spec => SubmittedAsShown
<1>1. ASSUME PagesInv, [Next]_vars, NEW s \in DOMAIN jobs, Asked(s, "submit"), jobs'[s].phase = "ok",
             jobs[s].alone, ~Stale, plan \notin SubmitsStored, NEW p \in plan.parts
      PROVE  doc'.body[p] = jobs[s].sent[p]
  <2>0. TypeOK /\ RequestsFit /\ SavedAsSent /\ plan \in Plans
    BY <1>1 DEF PagesInv, TypeOK
  <2>1. s \in Out /\ jobs[s].phase = "sent" /\ jobs[s] \in Requests(plan) /\ StepOf(jobs[s]).op = "submit"
    BY <1>1, <2>0, OutAreRequests DEF Asked, Out
  <2>2. Serve(s)
    <3>1. jobs' # jobs
      BY <1>1, <2>1
    <3>2. ASSUME NEW b \in plan.buttons, Click(b) PROVE FALSE
      BY <1>1, <2>0, <2>1, <3>2, ClickMakes DEF Made
    <3>3. ASSUME NEW u \in DOMAIN jobs, Serve(u) \/ Lose(u) \/ Continue(u) \/ Succeed(u) \/ Fail(u) PROVE u = s /\ Serve(u)
      <4>1. CASE Serve(u)
        BY <1>1, <2>0, <2>1, <4>1, ServeMoves DEF Moved
      <4>2. CASE Lose(u)
        BY <1>1, <2>0, <2>1, <4>2, LossMoves DEF Moved
      <4>3. CASE Continue(u)
        BY <1>1, <2>0, <2>1, <4>3, NextRequestMoves DEF Moved
      <4>4. CASE Succeed(u) \/ Fail(u)
        <5>1. s # u
          BY <2>1, <4>4 DEF Succeed, Fail
        <5> QED  BY <1>1, <2>0, <2>1, <4>4, <5>1, EndOfRequest DEF Ended
      <4> QED  BY <3>3, <4>1, <4>2, <4>3, <4>4
    <3>4. \E u \in DOMAIN jobs : Serve(u) \/ Lose(u) \/ Continue(u) \/ Succeed(u) \/ Fail(u)
      BY <1>1, <2>0, <3>1, <3>2, StepCases DEF Apart, OpenDialog, CancelDialog, Refuse
    <3> QED  BY <3>3, <3>4
  <2>3. doc'.body = doc.body
    <3>1. ServeSubmit(s)
      BY <2>1, <2>2 DEF Serve, ServeUpdate, ServeCreate, ServeDerive, ServeRemove, ServeDecide, ServeAside, Asked
    <3>2. doc' = doc \/ doc' = Submitted
      BY <3>1 DEF ServeSubmit
    <3> QED  BY <2>0, <3>2 DEF Submitted, TypeOK, Docs
  <2>4. jobs[s].button.steps \in Seq([op : STRING, parts : SUBSET Parts])
        /\ jobs[s].step \in 1..Len(jobs[s].button.steps) /\ jobs[s].button \in plan.buttons
    <3>1. jobs[s].step \in 1..Len(jobs[s].button.steps) /\ jobs[s].button \in plan.buttons
      BY <2>0, <2>1 DEF Requests, RequestsFit
    <3>2. Typed(plan)
      BY <2>0, PlansAssumption DEF PlansAssumption
    <3> QED  BY <3>1, <3>2 DEF Typed
  <2>5. /\ jobs[s].step > 1 /\ jobs[s].button.steps[jobs[s].step - 1].op = "store"
        /\ p \in jobs[s].button.steps[jobs[s].step - 1].parts
    <3>1. jobs[s].step \in DOMAIN jobs[s].button.steps
      BY <2>4
    <3>2. SavesFirst(plan) /\ plan.parts # {}
      BY <1>1, <2>0, PlansAssumption DEF PlansAssumption
    <3> QED  BY <1>1, <2>1, <2>4, <3>1, <3>2 DEF SavesFirst, StepOf
  <2>6. Done(jobs[s]) = jobs[s].step - 1
    BY <2>1 DEF Done
  <2>7. Filed(jobs[s], doc)
    BY <1>1, <2>0, <2>1 DEF SavedAsSent
  <2>8. doc.body[p] = jobs[s].sent[p]
    BY <1>1, <2>1, <2>4, <2>5, <2>6, <2>7 DEF Filed
  <2> QED  BY <2>3, <2>8
<1> DEFINE Shows == \A s \in DOMAIN jobs :
                       Asked(s, "submit") /\ jobs'[s].phase = "ok" /\ jobs[s].alone /\ ~Stale
                       /\ plan \notin SubmitsStored
                          => \A p \in plan.parts : doc'.body[p] = jobs[s].sent[p]
<1>2. PagesInv /\ [Next]_vars => [Shows]_vars
  BY <1>1
<1> QED  BY <1>2, PagesAlwaysFit, PTL DEF Spec, SubmittedAsShown

-----------------------------------------------------------------------------
(* The screen catches up.                                                  *)

(* What is on its way agrees with the document, but for the status set by  *)
(* a submission that was turned down.                                      *)
Agrees(d) == d.body = doc.body /\ (d = doc \/ past.marked)

(* A handler that will look again, whatever comes. *)
Lends(b) == b.raises \ {b.waits} # {}
Asides(b) == \A k \in DOMAIN b.steps : b.steps[k].op = "aside"
Due(j) ==
    /\ "reload" \in j.button.after /\ ~Asides(j.button)
    /\ j.phase = "ok" \/ (j.phase = "sent" /\ j.step > 1 /\ ~Lends(j.button))

(* The screen agrees with the document, or something is out that will make *)
(* it agree.                                                               *)
OnItsWay ==
    \/ load.phase = "asked"
    \/ \E s \in Out : Due(jobs[s])
    \/ load.phase = "answered" /\ Agrees(load.doc)
    \/ load.phase = "none" /\ Agrees(seen)

Undisturbed ==
    plan.opens = "row" /\ plan \notin Unrefreshed /\ past.lost = 0 /\ past.others = 0
CatchingUp == Undisturbed => (gone /\ ~Quiet) \/ OnItsWay

(* A submission that follows a save finds the document as the save did:    *)
(* idle, and submitted by nobody else.                                     *)
Certain(b) == ~Asides(b) /\ ~Lends(b) /\ Len(b.steps) > 1
IdleForSubmission ==
    Undisturbed =>
        /\ \A b \in plan.buttons : Certain(b) => (Editable => doc.flow = "none")
        /\ \A s \in Out : ~gone /\ Certain(jobs[s].button) /\ Done(jobs[s]) = 1 /\ jobs[s].phase # "bad"
                             => Editable

LEMMA StillOnItsWay ==
    ASSUME OnItsWay, load' = load, seen' = seen, doc'.body = doc.body, doc' = doc \/ past'.marked,
           past.marked => past'.marked, \A s \in Out : Due(jobs[s]) => s \in Out' /\ Due(jobs[s])'
    PROVE  OnItsWay'
BY DEF OnItsWay, Agrees

(* As long as nothing is lost and nobody else has a hand in it, these are  *)
(* the steps.                                                              *)
LEMMA UndisturbedSteps ==
    ASSUME TypeOK, [Next]_vars, Undisturbed'
    PROVE  /\ Undisturbed /\ (past.marked => past'.marked)
           /\ \/ ServeLoad \/ ShowLoad \/ Navigate \/ CancelDialog \/ UNCHANGED vars
              \/ \E p \in Parts : Type(p)
              \/ \E kind \in {"old", "new"} : OpenDialog(kind)
              \/ \E b \in plan.buttons : Click(b) \/ Refuse(b)
              \/ \E s \in DOMAIN jobs : Serve(s) \/ Continue(s) \/ Succeed(s) \/ Fail(s)
<1> DEFINE Steady == /\ past'.lost = past.lost /\ past'.others = past.others
                     /\ past.marked => past'.marked
<1>0. past \in Histories /\ past.lost \in Nat /\ past.others \in Nat /\ plan' = plan
  BY PlanStays DEF TypeOK, Histories
<1>1. ASSUME ServeLoad \/ ShowLoad \/ Navigate \/ CancelDialog \/ UNCHANGED vars PROVE Steady
  <2>1. past' = past \/ past' = [past EXCEPT !.owed = past.owed \ plan.dialogParts]
    BY <1>1 DEF ServeLoad, ShowLoad, Navigate, CancelDialog, vars
  <2> QED  BY <1>0, <2>1 DEF Histories
<1>2. ASSUME NEW p, Type(p) \/ OpenDialog(p) \/ Click(p) \/ Refuse(p) PROVE Steady
  BY <1>0, <1>2 DEF Type, OpenDialog, Click, Refuse, Histories
<1>3. ASSUME NEW s \in DOMAIN jobs, Continue(s) \/ Succeed(s) \/ Fail(s) PROVE Steady
  BY <1>0, <1>3 DEF Continue, Succeed, Fail, Histories
<1>4. ASSUME NEW s \in DOMAIN jobs, Serve(s) PROVE Steady
  <2>1. CASE ServeUpdate(s)
    BY <1>0, <2>1 DEF ServeUpdate, Histories
  <2>2. CASE ServeCreate(s)
    BY <1>0, <2>2 DEF ServeCreate, Histories
  <2>3. CASE ServeSubmit(s)
    BY <1>0, <2>3 DEF ServeSubmit, Histories
  <2>4. CASE ServeDerive(s)
    BY <1>0, <2>4 DEF ServeDerive, Histories
  <2>5. CASE ServeRemove(s) \/ ServeDecide(s) \/ ServeAside(s)
    BY <2>5 DEF ServeRemove, ServeDecide, ServeAside
  <2> QED  BY <1>4, <2>1, <2>2, <2>3, <2>4, <2>5 DEF Serve
<1>5. ASSUME NEW s, FailLoad \/ Lose(s) PROVE past'.lost # 0
  <2>1. past'.lost = past.lost + 1
    BY <1>0, <1>5 DEF FailLoad, Lose, Histories
  <2> QED  BY <1>0, <2>1
<1>6. ASSUME NEW p, ColleagueEdits(p) \/ ColleagueSubmits \/ ApproverDecides PROVE past'.others # 0
  <2>1. past'.others = past.others + 1
    BY <1>0, <1>6 DEF ColleagueEdits, ColleagueSubmits, ApproverDecides, Touched, Histories
  <2> QED  BY <1>0, <2>1
<1>7. past'.lost = 0 /\ past'.others = 0
  BY DEF Undisturbed
<1>8. CASE \E p \in Parts : Type(p)
  BY <1>0, <1>2, <1>8 DEF Undisturbed
<1>9. CASE \E kind \in {"old", "new"} : OpenDialog(kind)
  BY <1>0, <1>2, <1>9 DEF Undisturbed
<1>10. CASE \E b \in plan.buttons : Click(b) \/ Refuse(b)
  BY <1>0, <1>2, <1>10 DEF Undisturbed
<1>11. CASE \E s \in DOMAIN jobs : Serve(s) \/ Continue(s) \/ Succeed(s) \/ Fail(s)
  BY <1>0, <1>3, <1>4, <1>11 DEF Undisturbed
<1>12. CASE ServeLoad \/ ShowLoad \/ Navigate \/ CancelDialog \/ UNCHANGED vars
  BY <1>0, <1>1, <1>12 DEF Undisturbed
<1>13. \/ (\E p \in Parts : Type(p)) \/ (\E kind \in {"old", "new"} : OpenDialog(kind)) \/ ServeLoad \/ ShowLoad \/ Navigate
       \/ (\E b \in plan.buttons : Click(b) \/ Refuse(b)) \/ CancelDialog \/ (UNCHANGED vars)
       \/ (\E s \in DOMAIN jobs : Serve(s) \/ Continue(s) \/ Succeed(s) \/ Fail(s))
       \/ FailLoad \/ (\E s \in DOMAIN jobs : Lose(s)) \/ OthersAct
  BY DEF Next, UserActs, BrowserActs, ServerActs, NetworkActs
<1> QED
  BY <1>5, <1>6, <1>7, <1>8, <1>9, <1>10, <1>11, <1>12, <1>13 DEF OthersAct

(* What an answer holds.                                                   *)
LEMMA AnswerGiven ==
    ASSUME TypeOK, NEW s \in DOMAIN jobs, NEW ok \in BOOLEAN, NEW body, jobs[s].phase = "sent",
           Answered(s, ok, body)
    PROVE  /\ jobs'[s].phase = IF ok THEN "ok" ELSE "bad"
           /\ jobs'[s].answer = IF ok /\ "adopt" \in jobs[s].button.after THEN body ELSE Empty
<1>1. jobs[s] \in Requests(plan)
  BY OutAreRequests DEF Out
<1> QED  BY <1>1 DEF Answered, Requests

(* What the server does to the row of a page, and says of it.              *)
LEMMA AnswersSeen ==
    ASSUME TypeOK, NEW s \in DOMAIN jobs, Serve(s), plan.opens = "row"
    PROVE  /\ load' = load /\ seen' = seen /\ gone' = gone /\ jobs'[s].phase \in {"ok", "bad"}
           /\ StepOf(jobs[s]).op = "aside" => doc' = doc
           /\ jobs'[s].phase = "bad" => doc'.body = doc.body /\ (doc' = doc \/ past'.marked)
           /\ StepOf(jobs[s]).op \in {"store", "derive", "aside"}
                 => doc'.status = doc.status /\ doc'.flow = doc.flow
           /\ StepOf(jobs[s]).op = "store" /\ jobs'[s].phase = "ok" => Editable
           /\ StepOf(jobs[s]).op = "submit" => doc' = doc \/ doc'.status = "submitted"
           /\ StepOf(jobs[s]).op = "submit" /\ Submittable /\ doc.flow = "none" => jobs'[s].phase = "ok"
<1>0. doc \in Docs /\ past \in Histories /\ jobs[s].phase = "sent"
  BY ServeMoves DEF TypeOK
<1>a. \A b : [doc EXCEPT !.body = b].status = doc.status /\ [doc EXCEPT !.body = b].flow = doc.flow
  BY <1>0 DEF Docs
<1>b. Editable \in BOOLEAN /\ Submittable \in BOOLEAN
  BY DEF Editable, Submittable
<1>1. CASE ServeUpdate(s)
  <2>1. jobs'[s].phase = IF Editable THEN "ok" ELSE "bad"
    BY <1>0, <1>1, <1>b, AnswerGiven DEF ServeUpdate
  <2>2. doc' = IF Editable THEN [doc EXCEPT !.body = Saved(jobs[s])] ELSE doc
    BY <1>1 DEF ServeUpdate
  <2>3. StepOf(jobs[s]).op = "store" /\ UNCHANGED <<load, seen, gone>>
    BY <1>1 DEF ServeUpdate, Asked, screen
  <2> QED  BY <1>a, <2>1, <2>2, <2>3
<1>2. CASE ServeCreate(s)
  <2>1. jobs'[s].phase = IF Editable THEN "ok" ELSE "bad"
    <3>1. Answered(s, Editable, Saved(jobs[s]))
      BY <1>2, <1>b DEF ServeCreate
    <3> QED  BY <1>0, <1>b, <3>1, AnswerGiven
  <2>2. doc' = IF Editable THEN [doc EXCEPT !.body = Saved(jobs[s])] ELSE doc
    BY <1>2 DEF ServeCreate
  <2>3. StepOf(jobs[s]).op = "store" /\ UNCHANGED <<load, seen, gone>>
    BY <1>2 DEF ServeCreate, Asked, screen
  <2> QED  BY <1>a, <2>1, <2>2, <2>3
<1>3. CASE ServeSubmit(s)
  <2> DEFINE ok == Submittable /\ doc.flow = "none"
  <2>1. jobs'[s].phase = IF ok THEN "ok" ELSE "bad"
    <3>1. ok \in BOOLEAN /\ Answered(s, ok, doc.body)
      BY <1>3, <1>b DEF ServeSubmit
    <3> HIDE DEF ok
    <3> QED  BY <1>0, <3>1, AnswerGiven
  <2>2. doc' = IF Submittable THEN Submitted ELSE doc
    BY <1>3 DEF ServeSubmit
  <2>3. Submitted.body = doc.body /\ Submitted.status = "submitted"
    BY <1>0 DEF Submitted, Docs
  <2>4. ~ok /\ doc' # doc => past'.marked
    BY <1>0, <1>3 DEF ServeSubmit, Histories
  <2>5. StepOf(jobs[s]).op = "submit" /\ UNCHANGED <<load, seen, gone>>
    BY <1>3 DEF ServeSubmit, Asked, screen
  <2> QED  BY <1>b, <2>1, <2>2, <2>3, <2>4, <2>5
<1>4. CASE ServeDerive(s)
  <2> DEFINE made == [p \in Parts |-> IF p \in StepOf(jobs[s]).parts THEN Fresh ELSE doc.body[p]]
  <2>1. jobs'[s].phase = IF Editable THEN "ok" ELSE "bad"
    <3>1. Answered(s, Editable, made)
      BY <1>4 DEF ServeDerive
    <3> HIDE DEF made
    <3> QED  BY <1>0, <1>b, <3>1, AnswerGiven
  <2>2. doc' = IF Editable THEN [doc EXCEPT !.body = made] ELSE doc
    BY <1>4 DEF ServeDerive
  <2>3. StepOf(jobs[s]).op = "derive" /\ UNCHANGED <<load, seen, gone>>
    BY <1>4 DEF ServeDerive, Asked, screen
  <2> HIDE DEF made
  <2> QED  BY <1>a, <2>1, <2>2, <2>3
<1>5. CASE ServeRemove(s)
  <2>1. jobs'[s].phase = IF Editable THEN "ok" ELSE "bad"
    BY <1>0, <1>5, <1>b, AnswerGiven DEF ServeRemove
  <2> QED  BY <1>5, <2>1 DEF ServeRemove, Asked, screen
<1>6. CASE ServeDecide(s)
  <2>1. jobs'[s].phase = IF doc.flow # "none" THEN "ok" ELSE "bad"
    BY <1>0, <1>6, AnswerGiven DEF ServeDecide
  <2> QED  BY <1>6, <2>1 DEF ServeDecide, Asked, screen
<1>7. CASE ServeAside(s)
  <2>1. jobs'[s].phase \in {"ok", "bad"}
    BY <1>0, <1>7, AnswerGiven DEF ServeAside
  <2> QED  BY <1>7, <2>1 DEF ServeAside, Asked, screen
<1> QED  BY <1>1, <1>2, <1>3, <1>4, <1>5, <1>6, <1>7 DEF Serve

(* Of the pages of rows that look again.                                   *)
LEMMA RowButtons ==
    ASSUME TypeOK, PlansAssumption, Undisturbed, NEW b \in plan.buttons
    PROVE  /\ \/ Asides(b) /\ "adopt" \notin b.after
              \/ "reload" \in b.after /\ (Len(b.steps) = 1 \/ ("adopt" \notin b.after /\ Lends(b)) \/ NeverRefused(plan, b))
           /\ Certain(b) => NeverRefused(plan, b)
<1>1. LooksAgain(plan)
  BY DEF TypeOK, PlansAssumption
<1>2. \/ Asides(b) /\ "adopt" \notin b.after
      \/ "reload" \in b.after /\ (Len(b.steps) = 1 \/ ("adopt" \notin b.after /\ Lends(b)) \/ NeverRefused(plan, b))
  BY <1>1 DEF LooksAgain, Undisturbed, Asides, Lends
<1>3. Certain(b) => ~Asides(b) /\ ~Lends(b) /\ Len(b.steps) # 1
  <2>1. ~(1 > 1)
    OBVIOUS
  <2> QED  BY <2>1, Zenon DEF Certain
<1> QED  BY <1>2, <1>3

(* The request of s is at a step of one of the buttons.                    *)
LEMMA AtAStep ==
    ASSUME TypeOK, RequestsFit, PlansAssumption, NEW s \in Out
    PROVE  /\ jobs[s].button \in plan.buttons /\ jobs[s].step \in Nat
           /\ jobs[s].step \in DOMAIN jobs[s].button.steps
           /\ jobs[s].step \in 1..Len(jobs[s].button.steps) /\ Len(jobs[s].button.steps) \in Nat
<1>1. jobs[s].button \in plan.buttons /\ jobs[s].step \in Nat
  BY OutAreRequests DEF Requests
<1>2. jobs[s].button.steps \in Seq([op : STRING, parts : SUBSET Parts])
  BY <1>1 DEF TypeOK, PlansAssumption, Typed
<1>3. jobs[s].step \in 1..Len(jobs[s].button.steps)
  BY DEF RequestsFit
<1> QED  BY <1>1, <1>2, <1>3

(* Nothing comes between a save and the submission that follows it.        *)
LEMMA StaysIdle ==
    ASSUME PagesInv, IdleForSubmission, [Next]_vars, PlansAssumption, TypeOK'
    PROVE  IdleForSubmission'
<1> SUFFICES ASSUME Undisturbed' PROVE IdleForSubmission'
  BY DEF IdleForSubmission
<1>0. TypeOK /\ RequestsFit /\ OneBehindEach /\ Undisturbed /\ plan' = plan /\ (gone => gone')
  <2>1. gone => gone'
    BY DEF Next, UserActs, BrowserActs, ServerActs, NetworkActs, OthersAct, vars, screen, ServeLoad, ShowLoad,
           FailLoad, Type, OpenDialog, CancelDialog, Click, Refuse, Navigate, Serve, ServeUpdate,
           ServeCreate, ServeSubmit, ServeDerive, ServeRemove, ServeDecide, ServeAside, Lose, Continue,
           Succeed, Fail, ColleagueEdits, ColleagueSubmits, ApproverDecides
  <2> QED  BY <2>1, UndisturbedSteps, PlanStays DEF PagesInv
<1> DEFINE Idle(d) == \A b \in plan.buttons : Certain(b) => (d.status \in plan.server.edits => d.flow = "none")
           Waits(s) == Certain(jobs[s].button) /\ Done(jobs[s]) = 1 /\ jobs[s].phase # "bad"
           Goal == Idle(doc') /\ \A s \in Out' : ~gone' /\ Waits(s)' => Editable'
<1>1. Idle(doc) /\ \A s \in Out : ~gone /\ Waits(s) => Editable
  BY <1>0 DEF IdleForSubmission, Editable
<1>2. SUFFICES Goal
  BY <1>0 DEF IdleForSubmission, Editable
<1>3. ASSUME doc' = doc, \A s \in Out' : Waits(s)' => s \in Out /\ Waits(s) PROVE Goal
  BY <1>0, <1>1, <1>3 DEF Editable
<1>4. CASE ServeLoad \/ ShowLoad \/ Navigate \/ CancelDialog \/ UNCHANGED vars
  <2>1. doc' = doc /\ jobs' = jobs
    BY <1>4 DEF ServeLoad, ShowLoad, Navigate, CancelDialog, vars, screen
  <2> QED  BY <1>3, <2>1 DEF Out
<1>5. ASSUME NEW p, Type(p) \/ OpenDialog(p) \/ Refuse(p) PROVE Goal
  <2>1. doc' = doc /\ jobs' = jobs
    BY <1>5 DEF Type, OpenDialog, Refuse
  <2> QED  BY <1>3, <2>1 DEF Out
<1>6. ASSUME NEW b \in plan.buttons, Click(b) PROVE Goal
  <2>1. PICK c \in 1..MaxClicks : Made(c, b)
    BY <1>0, <1>6, ClickMakes
  <2>2. doc' = doc /\ Done(jobs'[c]) = 0 /\ Out' = Out \cup {c}
    BY <1>6, <2>1 DEF Click, Made, Done
  <2>3. \A t \in Out : Waits(t)' => Waits(t)
    BY <2>1 DEF Made, Done
  <2> QED  BY <1>3, <2>2, <2>3
<1>7. ASSUME NEW u \in DOMAIN jobs, Continue(u) PROVE Goal
  <2>1. u \in Out /\ Moved(u, "sent", jobs[u].step + 1) /\ jobs[u].phase = "ok" /\ doc' = doc
    BY <1>0, <1>7, NextRequestMoves DEF Continue
  <2>2. Done(jobs'[u]) = Done(jobs[u])
    BY <1>0, <2>1, AtAStep DEF Moved, Done
  <2>3. \A t \in Out' : Waits(t)' => t \in Out /\ Waits(t)
    BY <2>1, <2>2 DEF Moved, SameRequest
  <2> QED  BY <1>3, <2>1, <2>3
<1>8. ASSUME NEW u \in DOMAIN jobs, Succeed(u) \/ Fail(u) PROVE Goal
  <2>1. u \in Out /\ Out' = Out \ {u} /\ (\A t \in Out' : jobs'[t] = jobs[t]) /\ doc' = doc
    BY <1>0, <1>8, EndOfRequest DEF Ended, Succeed, Fail
  <2> QED  BY <1>3, <2>1
<1>9. ASSUME NEW u \in DOMAIN jobs, Serve(u) PROVE Goal
  <2> DEFINE op == StepOf(jobs[u]).op
  <2>1. u \in Out /\ (Moved(u, "ok", jobs[u].step) \/ Moved(u, "bad", jobs[u].step)) /\ plan.opens = "row"
    BY <1>0, <1>9, ServeMoves DEF Undisturbed
  <2>2. Out' = Out /\ \A t \in Out : SameRequest(t) /\ (t # u => jobs'[t] = jobs[t])
    BY <2>1 DEF Moved
  <2>3. ASSUME NEW b \in plan.buttons, Certain(b)
        PROVE  /\ \/ op \in {"store", "derive", "aside"} /\ doc'.status = doc.status /\ doc'.flow = doc.flow
                  \/ op = "submit" /\ jobs[u].button.waits = b.waits
               /\ NeverRefused(plan, b)
    <3>1. NeverRefused(plan, b)
      BY <1>0, <2>3, RowButtons
    <3>2. op \in {"store", "derive", "aside"} \/ (op = "submit" /\ jobs[u].button.waits = b.waits)
      BY <1>0, <2>1, <3>1, AtAStep DEF NeverRefused, StepOf
    <3> QED  BY <1>0, <1>9, <2>1, <3>1, <3>2, AnswersSeen
  <2>4. Idle(doc')
    <3>1. SUFFICES ASSUME NEW b \in plan.buttons, Certain(b), doc'.status \in plan.server.edits PROVE doc'.flow = "none"
      OBVIOUS
    <3>2. CASE op = "submit"
      <4>1. doc' = doc
        BY <1>0, <1>9, <2>1, <2>3, <3>1, <3>2, AnswersSeen DEF NeverRefused
      <4> QED  BY <1>1, <3>1, <4>1
    <3> QED  BY <1>1, <2>3, <3>1, <3>2
  <2>5. ASSUME NEW t \in Out', ~gone', Waits(t)' PROVE Editable'
    <3>1. t \in Out /\ jobs'[t].button = jobs[t].button /\ Certain(jobs[t].button) /\ jobs[t].button \in plan.buttons
          /\ ~gone
      BY <1>0, <2>2, <2>5, AtAStep DEF SameRequest
    <3>2. CASE t = u
      <4>1. jobs'[u].phase = "ok" /\ jobs[u].step = 1
        BY <2>1, <2>5, <3>2 DEF Moved, Done
      <4>2. op = "store"
        BY <2>3, <3>1, <3>2, <4>1 DEF NeverRefused, StepOf
      <4> QED  BY <1>0, <1>9, <2>1, <2>3, <3>1, <4>1, <4>2, AnswersSeen DEF Editable
    <3>3. CASE t # u
      <4>1. Editable
        BY <1>1, <2>2, <2>5, <3>1, <3>3
      <4>2. op # "submit"
        <5>1. SUFFICES ASSUME op = "submit" PROVE FALSE
          OBVIOUS
        <5>2. jobs[t].button.waits \in Guards(plan) /\ {t, u} \subseteq Guarded(jobs[t].button.waits)
          BY <2>1, <2>3, <3>1, <5>1 DEF NeverRefused, Guarded
        <5> QED  BY <1>0, <3>3, <5>2 DEF OneBehindEach
      <4> QED  BY <1>0, <2>3, <3>1, <4>1, <4>2 DEF Editable
    <3> QED  BY <3>2, <3>3
  <2> QED  BY <2>4, <2>5
<1> QED  BY <1>0, <1>4, <1>5, <1>6, <1>7, <1>8, <1>9, UndisturbedSteps

(* What has changed the document under the screen will change the screen.  *)
LEMMA CatchesUp ==
    ASSUME PagesInv, IdleForSubmission, CatchingUp, [Next]_vars, PlansAssumption
    PROVE  CatchingUp'
<1> SUFFICES ASSUME Undisturbed' PROVE (gone' /\ ~Quiet') \/ OnItsWay'
  BY DEF CatchingUp
<1> DEFINE Goal == (gone' /\ ~Quiet') \/ OnItsWay'
<1>0. /\ TypeOK /\ RequestsFit /\ Undisturbed /\ plan.opens = "row" /\ (past.marked => past'.marked)
      /\ (gone /\ ~Quiet) \/ OnItsWay
  BY UndisturbedSteps DEF PagesInv, Undisturbed, CatchingUp
<1>1. ASSUME load' = load, seen' = seen, doc' = doc, \A s \in Out : Due(jobs[s]) => s \in Out' /\ Due(jobs[s])',
             OnItsWay
      PROVE  OnItsWay'
  BY <1>0, <1>1, StillOnItsWay
<1>2. Ask => OnItsWay'
  BY DEF Ask, OnItsWay
<1>3. OnItsWay => Agrees(seen) \/ ~Quiet
  BY DEF OnItsWay, Quiet
<1>4. CASE UNCHANGED vars
  <2>1. load' = load /\ seen' = seen /\ doc' = doc /\ jobs' = jobs /\ gone' = gone
    BY <1>4 DEF vars, screen
  <2> QED  BY <1>0, <1>1, <2>1 DEF Quiet, Out
<1>5. CASE ServeLoad
  <2>1. load' = [phase |-> "answered", doc |-> doc] /\ doc' = doc
    BY <1>5 DEF ServeLoad
  <2> QED  BY <2>1 DEF OnItsWay, Agrees
<1>6. CASE ShowLoad
  <2>1. /\ ~gone /\ load.phase = "answered" /\ load'.phase = "none" /\ seen' = load.doc
        /\ doc' = doc /\ jobs' = jobs /\ past' = past
    BY <1>6 DEF ShowLoad
  <2>2. (\E s \in Out : Due(jobs[s])) \/ Agrees(load.doc)
    BY <1>0, <2>1 DEF OnItsWay
  <2>3. CASE \E s \in Out : Due(jobs[s])
    BY <2>1, <2>3 DEF OnItsWay, Out
  <2>4. CASE Agrees(load.doc)
    BY <2>1, <2>4 DEF OnItsWay, Agrees
  <2> QED  BY <2>2, <2>3, <2>4
<1>7. CASE Navigate
  <2>1. ~gone /\ gone' /\ load' = load /\ jobs' = jobs /\ doc' = doc /\ seen' = seen
    BY <1>7 DEF Navigate
  <2> QED  BY <1>0, <1>1, <2>1 DEF Out
<1>8. ASSUME NEW p, Type(p) \/ OpenDialog(p) \/ Refuse(p) PROVE Goal
  <2>1. ~gone /\ doc' = doc /\ jobs' = jobs /\ load' = load /\ seen' = seen
    BY <1>8 DEF Type, OpenDialog, Refuse
  <2> QED  BY <1>0, <1>1, <2>1 DEF Out
<1>9. CASE CancelDialog
  <2>1. ~gone /\ doc' = doc /\ jobs' = jobs /\ seen' = seen /\ (Ask \/ load' = load)
    BY <1>9 DEF CancelDialog
  <2> QED  BY <1>0, <1>1, <1>2, <2>1 DEF Out
<1>10. ASSUME NEW b \in plan.buttons, Click(b) PROVE Goal
  <2>1. PICK c \in 1..MaxClicks : Made(c, b)
    BY <1>0, <1>10, ClickMakes
  <2>2. ~gone /\ doc' = doc /\ load' = load /\ seen' = seen
    BY <1>10 DEF Click
  <2>3. \A s \in Out : Due(jobs[s]) => s \in Out' /\ Due(jobs[s])'
    BY <2>1 DEF Made, Due
  <2> QED  BY <1>0, <1>1, <2>2, <2>3
<1>11. ASSUME NEW u \in DOMAIN jobs, Serve(u) PROVE Goal
  <2> DEFINE b == jobs[u].button
  <2>1. u \in Out /\ (Moved(u, "ok", jobs[u].step) \/ Moved(u, "bad", jobs[u].step)) /\ jobs[u].phase = "sent"
    BY <1>0, <1>11, ServeMoves
  <2>2. Out' = Out /\ (\A t \in Out : SameRequest(t) /\ (t # u => jobs'[t] = jobs[t])) /\ jobs'[u].button = b
    BY <2>1 DEF Moved, SameRequest
  <2>3. load' = load /\ seen' = seen /\ gone' = gone
    BY <1>0, <1>11, AnswersSeen
  <2>4. CASE gone
    BY <2>1, <2>2, <2>3, <2>4 DEF Quiet
  <2>5. CASE jobs'[u].phase = "ok" /\ "reload" \in b.after /\ ~Asides(b)
    BY <2>1, <2>2, <2>5 DEF OnItsWay, Due
  <2>6. CASE ~gone /\ ("reload" \notin b.after \/ Asides(b))
    <3>1. Asides(b)
      BY <1>0, <2>1, <2>6, RowButtons, AtAStep
    <3>2. doc' = doc
      BY <1>0, <1>11, <2>1, <3>1, AnswersSeen, AtAStep DEF Asides, StepOf
    <3>3. \A s \in Out : Due(jobs[s]) => s \in Out' /\ Due(jobs[s])'
      BY <2>2, <3>1 DEF Due
    <3> QED  BY <1>0, <1>1, <2>3, <2>6, <3>2, <3>3
  <2>7. CASE ~gone /\ jobs'[u].phase = "bad" /\ ~Asides(b)
    <3>1. ~Due(jobs[u])
      <4>1. SUFFICES ASSUME Due(jobs[u]) PROVE FALSE
        OBVIOUS
      <4>2. jobs[u].step > 1 /\ ~Lends(b)
        BY <2>1, <4>1 DEF Due
      <4>3. b \in plan.buttons /\ jobs[u].step \in 1..Len(b.steps) /\ Len(b.steps) \in Nat
        BY <1>0, <2>1, AtAStep
      <4>4. Certain(b)
        BY <2>7, <4>2, <4>3 DEF Certain
      <4>5. NeverRefused(plan, b)
        BY <1>0, <4>3, <4>4, RowButtons
      <4>6. jobs[u].step = 2 /\ Done(jobs[u]) = 1 /\ StepOf(jobs[u]).op = "submit"
        BY <2>1, <4>2, <4>3, <4>5 DEF NeverRefused, Done, StepOf
      <4>7. Editable /\ doc.flow = "none"
        BY <1>0, <2>1, <2>7, <4>3, <4>4, <4>6 DEF IdleForSubmission
      <4>8. Submittable
        BY <4>5, <4>7 DEF NeverRefused, Editable, Submittable
      <4> QED  BY <1>0, <1>11, <2>7, <4>6, <4>7, <4>8, AnswersSeen
    <3>2. doc'.body = doc.body /\ (doc' = doc \/ past'.marked)
      BY <1>0, <1>11, <2>7, AnswersSeen
    <3>3. \A s \in Out : Due(jobs[s]) => s \in Out' /\ Due(jobs[s])'
      BY <2>2, <3>1 DEF Due
    <3>4. OnItsWay
      BY <1>0, <2>7
    <3> QED  BY <1>0, <2>3, <3>2, <3>3, <3>4, StillOnItsWay
  <2> QED  BY <1>0, <1>11, <2>4, <2>5, <2>6, <2>7, AnswersSeen
<1>12. ASSUME NEW u \in DOMAIN jobs, Continue(u) PROVE Goal
  <2> DEFINE b == jobs[u].button
  <2>1. u \in Out /\ Moved(u, "sent", jobs[u].step + 1) /\ jobs[u].phase = "ok" /\ jobs[u].step < Len(b.steps)
    BY <1>0, <1>12, NextRequestMoves DEF Continue
  <2>2. Out' = Out /\ (\A t \in Out : t # u => jobs'[t] = jobs[t]) /\ jobs'[u].button = b
        /\ jobs'[u].phase = "sent" /\ jobs'[u].step = jobs[u].step + 1
    BY <2>1 DEF Moved, SameRequest
  <2>3. doc' = doc /\ gone' = gone /\ (Ask \/ load' = load)
    BY <1>12 DEF Continue
  <2>4. CASE gone
    BY <2>1, <2>2, <2>3, <2>4 DEF Quiet
  <2>5. b \in plan.buttons /\ jobs[u].step \in 1..Len(b.steps) /\ Len(b.steps) \in Nat
    BY <1>0, <2>1, AtAStep
  <2>9. Len(b.steps) # 1
    <3>1. \A n \in Nat : \A m \in 1..n : m < n => n # 1
      OBVIOUS
    <3> QED  BY <2>1, <2>5, <3>1, Zenon
  <2>6. CASE ~gone /\ Due(jobs[u]) /\ ~Lends(b)
    <3>1. Due(jobs[u])'
      BY <2>2, <2>5, <2>6 DEF Due
    <3> QED  BY <2>1, <2>2, <3>1 DEF OnItsWay
  <2>7. CASE ~gone /\ Due(jobs[u]) /\ Lends(b)
    <3>1. "reload" \in b.after /\ ~Asides(b)
      BY <2>7 DEF Due
    <3>2. ~NeverRefused(plan, b)
      BY <2>7 DEF NeverRefused, Lends
    <3>3. "adopt" \notin b.after
      BY <1>0, <2>5, <2>9, <3>1, <3>2, RowButtons
    <3>4. Ask
      BY <1>12, <2>7, <3>1, <3>3 DEF Continue, Lends, Borrowed, Adopts
    <3> QED  BY <1>2, <3>4
  <2>8. CASE ~gone /\ ~Due(jobs[u])
    <3>1. "adopt" \notin b.after
      <4>1. "reload" \notin b.after \/ Asides(b)
        BY <2>1, <2>8 DEF Due
      <4>2. NeverRefused(plan, b) => ~Asides(b)
        BY <2>5 DEF NeverRefused, Asides
      <4> QED  BY <1>0, <2>5, <2>9, <4>1, <4>2, RowButtons
    <3>2. seen' = seen
      BY <1>12, <3>1 DEF Continue, Adopts
    <3>3. \A s \in Out : Due(jobs[s]) => s \in Out' /\ Due(jobs[s])'
      BY <2>2, <2>8 DEF Due
    <3> QED  BY <1>0, <1>1, <1>2, <2>3, <2>8, <3>2, <3>3
  <2> QED  BY <2>4, <2>6, <2>7, <2>8
<1>13. ASSUME NEW u \in DOMAIN jobs, Succeed(u) \/ Fail(u) PROVE Goal
  <2> DEFINE b == jobs[u].button
  <2>1. u \in Out /\ Out' = Out \ {u} /\ (\A t \in Out' : jobs'[t] = jobs[t])
    BY <1>0, <1>13, EndOfRequest DEF Ended
  <2>2. ~gone /\ doc' = doc /\ (Ask \/ load' = load)
    BY <1>13 DEF Succeed, Fail
  <2>3. CASE Fail(u)
    <3>1. seen' = seen /\ ~Due(jobs[u])
      BY <2>3 DEF Fail, Due
    <3>2. \A s \in Out : Due(jobs[s]) => s \in Out' /\ Due(jobs[s])'
      BY <2>1, <3>1 DEF Due
    <3> QED  BY <1>0, <1>1, <1>2, <2>2, <3>1, <3>2
  <2>4. CASE Succeed(u) /\ "reload" \in b.after
    BY <1>2, <2>4 DEF Succeed
  <2>5. CASE Succeed(u) /\ "reload" \notin b.after
    <3>1. "adopt" \notin b.after
      BY <1>0, <2>1, <2>5, RowButtons, AtAStep
    <3>2. seen' = seen
      BY <2>5, <3>1 DEF Succeed, Adopts
    <3>3. \A s \in Out : Due(jobs[s]) => s \in Out' /\ Due(jobs[s])'
      BY <2>1, <2>5 DEF Due
    <3> QED  BY <1>0, <1>1, <1>2, <2>2, <3>2, <3>3
  <2> QED  BY <1>13, <2>3, <2>4, <2>5
<1> QED
  BY <1>0, <1>4, <1>5, <1>6, <1>7, <1>8, <1>9, <1>10, <1>11, <1>12, <1>13, UndisturbedSteps

(* Once nothing is out, the screen shows the document as it is.            *)
THEOREM ScreenKeepsUp == Spec => []ScreenCatchesUp
<1>1. Init => CatchingUp /\ IdleForSubmission
  <2>1. SUFFICES ASSUME Init, Undisturbed PROVE CatchingUp /\ IdleForSubmission
    BY DEF CatchingUp, IdleForSubmission
  <2>2. TypeOK /\ Out = {}
    BY <2>1, TypeStart, InvStart, PlansAssumption, BoundsAssumption, NoRequest DEF Init, Out, Phases
  <2>3. OnItsWay
    BY <2>1 DEF Init, Undisturbed, OnItsWay
  <2>4. ASSUME NEW b \in plan.buttons, Certain(b), Editable PROVE doc.flow = "none"
    <3>1. NeverRefused(plan, b)
      BY <2>1, <2>2, <2>4, RowButtons, PlansAssumption
    <3>2. FlowsAt(doc.status) = {"none"} /\ doc.flow \in FlowsAt(doc.status)
      BY <2>1, <2>4, <3>1 DEF NeverRefused, Editable, Init
    <3> QED  BY <3>2
  <2> QED  BY <2>2, <2>3, <2>4 DEF CatchingUp, IdleForSubmission
<1>2. PagesInv /\ PagesInv' /\ CatchingUp /\ IdleForSubmission /\ [Next]_vars => CatchingUp' /\ IdleForSubmission'
  BY CatchesUp, StaysIdle, PlansAssumption DEF PagesInv
<1>3. PagesInv /\ CatchingUp => ScreenCatchesUp
  <2>1. SUFFICES ASSUME PagesInv, CatchingUp, Quiet, Undisturbed
                 PROVE  seen.body = doc.body /\ (seen = doc \/ past.marked)
    <3>1. PagesInv => past.others \in Nat
      BY DEF PagesInv, TypeOK, Histories
    <3> QED  BY <3>1 DEF ScreenCatchesUp, Undisturbed, Stale
  <2> QED  BY <2>1 DEF CatchingUp, OnItsWay, Quiet, Agrees
<1> QED  BY <1>1, <1>2, <1>3, PagesAlwaysFit, PTL DEF Spec

-----------------------------------------------------------------------------
(* What is typed stays.                                                    *)

Upto(b, n) == \A p \in Parts : b[p] <= n

(* Nobody holds a version that is still to be made.                        *)
Versions ==
    /\ Upto(form, past.newest) /\ Upto(doc.body, past.newest) /\ Upto(seen.body, past.newest)
    /\ Upto(load.doc.body, past.newest)
    /\ \A s \in Out : Upto(jobs[s].sent, past.newest) /\ Upto(jobs[s].answer, past.newest)

(* What the server never held is on the screen only, and in requests that  *)
(* have yet to be taken.                                                   *)
Unsent(j, p) ==
    /\ j.sent[p] = form[p] /\ j.answer[p] # form[p]
    /\ p \in plan.dialogParts => j.button.place = "dialog"
    /\ \A k \in 1..Done(j) : ~(j.button.steps[k].op = "store" /\ p \in j.button.steps[k].parts)
(* Sent before it was typed, by a button that leaves the part alone.       *)
Earlier(j, p) ==
    j.sent[p] # form[p] /\ j.answer[p] # form[p] /\ ~ThrowsAway(plan, j.button, p)
Harmless(j, p) == Unsent(j, p) \/ Earlier(j, p)
OnlyHere(p) ==
    /\ form[p] \notin {0, doc.body[p], seen.body[p]}
    /\ load.phase = "answered" => form[p] # load.doc.body[p]
    /\ p \in plan.parts => load.phase = "none"
    /\ p \in plan.fields \cup plan.dialogParts
    /\ p \in plan.dialogParts => dialog # "closed"
    /\ \A s \in Out : Harmless(jobs[s], p)

Kept == {p \in past.owed : <<plan, p>> \notin Forgotten}
OnTheScreenOnly == \A p \in Kept : OnlyHere(p)

(* Where what the server holds, and what it answers, comes from.           *)
FromNowhere(s, body) ==
    \A p \in Parts :
        \/ body[p] \in {0, doc.body[p]}
        \/ body[p] = past'.newest /\ past'.newest = Fresh
        \/ body[p] = jobs[s].sent[p] /\ (jobs[s].sent[p] = form[p] => p \notin past'.owed)

LEMMA AnswersHold ==
    ASSUME TypeOK, NEW s \in DOMAIN jobs, Serve(s)
    PROVE  /\ load' = load /\ UNCHANGED screen
           /\ past'.owed \subseteq past.owed /\ past'.newest \in {past.newest, Fresh}
           /\ \E body \in Bodies : /\ FromNowhere(s, body)
                                   /\ doc'.body \in {doc.body, body} /\ jobs'[s].answer \in {Empty, body}
           /\ jobs'[s].phase = "ok" /\ StepOf(jobs[s]).op = "store"
                 => \A p \in StepOf(jobs[s]).parts \cap Parts :
                       jobs[s].sent[p] = form[p] => p \notin past'.owed
<1>0. doc \in Docs /\ past \in Histories /\ jobs[s].phase = "sent" /\ s \in Out
  BY ServeMoves DEF TypeOK
<1>a. /\ Empty \in Bodies /\ doc.body \in Bodies /\ Saved(jobs[s]) \in Bodies
      /\ jobs[s].sent \in Bodies
  BY <1>0, BodiesComputed
<1>b. Editable \in BOOLEAN /\ Submittable \in BOOLEAN
  BY DEF Editable, Submittable
<1>c. /\ FromNowhere(s, Empty) /\ FromNowhere(s, doc.body)
      /\ \A b : [doc EXCEPT !.body = b].body = b
  BY <1>0 DEF FromNowhere, Empty, Docs
<1>d. \A p \in StepOf(jobs[s]).parts \cap Parts : jobs[s].sent[p] = form[p] => p \in Stored(jobs[s])
  BY DEF Stored
<1>1. CASE ServeUpdate(s)
  <2>1. /\ jobs'[s].phase = IF Editable THEN "ok" ELSE "bad"
        /\ jobs'[s].answer \in {Empty, IF Editable THEN Saved(jobs[s]) ELSE Empty}
    BY <1>0, <1>1, <1>b, AnswerGiven DEF ServeUpdate
  <2>2. /\ doc' = IF Editable THEN [doc EXCEPT !.body = Saved(jobs[s])] ELSE doc
        /\ past' = IF Editable THEN [past EXCEPT !.owed = past.owed \ Stored(jobs[s])] ELSE past
    BY <1>0, <1>1 DEF ServeUpdate, Histories
  <2>3. UNCHANGED <<load, screen>> /\ past'.newest = past.newest /\ past'.owed \subseteq past.owed
        /\ (Editable => past'.owed = past.owed \ Stored(jobs[s]))
    BY <1>0, <1>1, <2>2 DEF ServeUpdate, Histories
  <2>4. Editable => FromNowhere(s, Saved(jobs[s]))
    BY <1>d, <2>3 DEF FromNowhere, Saved
  <2> QED  BY <1>a, <1>b, <1>c, <1>d, <2>1, <2>2, <2>3, <2>4
<1>2. CASE ServeCreate(s)
  <2> DEFINE line == plan.opens = "row"
             ok == line => Editable
             new == [p \in Parts |-> IF p \in StepOf(jobs[s]).parts THEN jobs[s].sent[p] ELSE 0]
             body == IF line THEN Saved(jobs[s]) ELSE new
  <2>1. ok \in BOOLEAN /\ Answered(s, ok, body) /\ body \in Bodies
    <3>1. new \in Bodies
      BY <1>a DEF Bodies
    <3> QED  BY <1>2, <1>a, <1>b, <3>1 DEF ServeCreate
  <2>2. UNCHANGED <<load, screen>> /\ past'.newest = past.newest /\ past'.owed \subseteq past.owed
        /\ (ok => past'.owed = past.owed \ Stored(jobs[s]))
    <3>1. \/ ~ok /\ past' = past
          \/ ok /\ \E m : past' = [past EXCEPT !.made = m, !.owed = past.owed \ Stored(jobs[s])]
      BY <1>0, <1>2 DEF ServeCreate, Histories
    <3> HIDE DEF ok
    <3> QED  BY <1>0, <1>2, <3>1 DEF ServeCreate, Histories
  <2>3. doc'.body = IF ok THEN body ELSE doc.body
    <3>1. CASE ~ok
      BY <1>2, <3>1 DEF ServeCreate
    <3>2. CASE ok /\ line
      <4>1. doc' = [doc EXCEPT !.body = Saved(jobs[s])]
        BY <1>2, <3>2 DEF ServeCreate
      <4> QED  BY <1>c, <3>2, <4>1
    <3>3. CASE ok /\ ~line
      <4>1. \E st \in plan.server.starts : doc' = Started(st, new)
        BY <1>2, <3>3 DEF ServeCreate
      <4> HIDE DEF new
      <4> QED  BY <3>3, <4>1 DEF Started
    <3> QED  BY <3>1, <3>2, <3>3
  <2>4. ok => FromNowhere(s, body)
    <3>1. \A p \in Parts : \/ body[p] \in {0, doc.body[p]}
                           \/ body[p] = jobs[s].sent[p] /\ p \in StepOf(jobs[s]).parts
      BY DEF Saved
    <3> HIDE DEF body, ok
    <3> QED  BY <1>d, <2>2, <3>1 DEF FromNowhere
  <2> HIDE DEF ok, body
  <2>5. jobs'[s].phase = (IF ok THEN "ok" ELSE "bad") /\ jobs'[s].answer \in {Empty, IF ok THEN body ELSE Empty}
    BY <1>0, <2>1, AnswerGiven
  <2> QED  BY <1>a, <1>c, <1>d, <2>1, <2>2, <2>3, <2>4, <2>5
<1>3. CASE ServeSubmit(s)
  <2> DEFINE ok == Submittable /\ doc.flow = "none"
  <2>1. ok \in BOOLEAN /\ Answered(s, ok, doc.body) /\ doc'.body = doc.body
    BY <1>0, <1>3, <1>b DEF ServeSubmit, Submitted, Docs
  <2>2. UNCHANGED <<load, screen>> /\ past'.newest = past.newest /\ past'.owed = past.owed
        /\ StepOf(jobs[s]).op = "submit"
    BY <1>0, <1>3 DEF ServeSubmit, Histories, Asked
  <2> HIDE DEF ok
  <2>3. jobs'[s].answer \in {Empty, doc.body}
    BY <1>0, <2>1, AnswerGiven
  <2> QED  BY <1>a, <1>c, <2>1, <2>2, <2>3
<1>4. CASE ServeDerive(s)
  <2> DEFINE made == [p \in Parts |-> IF p \in StepOf(jobs[s]).parts THEN Fresh ELSE doc.body[p]]
  <2>1. Answered(s, Editable, made) /\ made \in Bodies
    BY <1>4, <1>a, CountersTyped DEF ServeDerive, Bodies
  <2>2. /\ doc' = (IF Editable THEN [doc EXCEPT !.body = made] ELSE doc)
        /\ past' = (IF Editable THEN [past EXCEPT !.newest = Fresh] ELSE past)
        /\ UNCHANGED <<load, screen>> /\ StepOf(jobs[s]).op = "derive"
    BY <1>4 DEF ServeDerive, Asked
  <2>3. past'.owed = past.owed /\ past'.newest = IF Editable THEN Fresh ELSE past.newest
    BY <1>0, <2>2 DEF Histories
  <2>4. Editable => FromNowhere(s, made)
    BY <2>3 DEF FromNowhere
  <2> HIDE DEF made
  <2>5. jobs'[s].answer \in {Empty, IF Editable THEN made ELSE Empty}
    BY <1>0, <1>b, <2>1, AnswerGiven
  <2> QED  BY <1>a, <1>c, <2>1, <2>2, <2>3, <2>4, <2>5
<1>5. CASE ServeRemove(s)
  <2>1. jobs'[s].answer = Empty
    BY <1>0, <1>5, <1>b, AnswerGiven DEF ServeRemove
  <2>2. doc'.body \in {doc.body, Empty}
    BY <1>5 DEF ServeRemove, NoDoc
  <2> QED  BY <1>5, <1>a, <1>c, <2>1, <2>2 DEF ServeRemove, Asked
<1>6. CASE ServeDecide(s)
  <2>1. jobs'[s].answer \in {Empty, doc.body}
    BY <1>0, <1>6, AnswerGiven DEF ServeDecide
  <2>2. doc'.body = doc.body
    BY <1>0, <1>6 DEF ServeDecide, Decisions, Docs
  <2> QED  BY <1>6, <1>a, <1>c, <2>1, <2>2 DEF ServeDecide, Asked
<1>7. CASE ServeAside(s)
  <2>1. jobs'[s].answer \in {Empty, doc.body}
    BY <1>0, <1>7, AnswerGiven DEF ServeAside
  <2> QED  BY <1>7, <1>a, <1>c, <2>1 DEF ServeAside, Asked
<1> QED  BY <1>1, <1>2, <1>3, <1>4, <1>5, <1>6, <1>7 DEF Serve

(* The versions only grow. *)
LEMMA UptoGrows ==
    ASSUME NEW b \in Bodies, NEW n \in Nat, NEW m \in Nat, n <= m, Upto(b, n)
    PROVE  Upto(b, m)
<1>1. ASSUME NEW p \in Parts PROVE b[p] <= m
  <2>1. b[p] \in Nat /\ b[p] <= n
    BY DEF Bodies, Upto
  <2> QED  BY <2>1
<1> QED  BY <1>1 DEF Upto

LEMMA VersionsStep ==
    ASSUME TypeOK, Versions, [Next]_vars, TypeOK'
    PROVE  Versions'
<1> DEFINE n == past.newest
           m == past'.newest
           Sent == \A s \in Out' : Upto(jobs'[s].sent, m) /\ Upto(jobs'[s].answer, m)
<1>0. /\ n \in Nat /\ Fresh = n + 1 /\ past \in Histories /\ m \in Nat
      /\ Upto(form, n) /\ Upto(doc.body, n) /\ Upto(seen.body, n) /\ Upto(load.doc.body, n)
      /\ \A s \in Out : Upto(jobs[s].sent, n) /\ Upto(jobs[s].answer, n)
  BY DEF TypeOK, Histories, Fresh, Versions
<1>a. /\ form \in Bodies /\ doc.body \in Bodies /\ seen.body \in Bodies /\ load.doc.body \in Bodies
      /\ \A s \in Out : jobs[s].sent \in Bodies /\ jobs[s].answer \in Bodies
  BY BodiesComputed DEF TypeOK, Docs
<1>b. Upto(Empty, n) /\ Upto(NoDoc.body, n) /\ Upto(Closed, n)
  BY <1>0, <1>a DEF Upto, Empty, NoDoc, Closed
<1>c. /\ doc' \in Docs /\ seen' \in Docs /\ load' \in [phase : {"none", "asked", "answered"}, doc : Docs]
      /\ form' \in Bodies
  BY DEF TypeOK
<1>d. SUFFICES /\ Upto(form', m) /\ Upto(doc'.body, m) /\ Upto(seen'.body, m)
               /\ Upto(load'.doc.body, m) /\ Sent
  BY DEF Versions
<1>e. Ask => Upto(load'.doc.body, n)
  BY <1>b DEF Ask
<1> DEFINE Goal == /\ Upto(form', m) /\ Upto(doc'.body, m) /\ Upto(seen'.body, m)
                   /\ Upto(load'.doc.body, m) /\ Sent
<1>1. CASE ServeLoad \/ ShowLoad \/ FailLoad \/ Navigate \/ UNCHANGED vars
  <2>1. m = n /\ jobs' = jobs /\ doc' = doc
    BY <1>0, <1>1 DEF ServeLoad, ShowLoad, FailLoad, Navigate, vars, Histories
  <2>2. seen' \in {seen, load.doc} /\ load'.doc \in {load.doc, doc, NoDoc}
    BY <1>1 DEF ServeLoad, ShowLoad, FailLoad, Navigate, vars, screen
  <2>3. Upto(form', n)
    <3>1. form' = form \/ form' = [p \in Parts |-> IF p \in plan.parts THEN load.doc.body[p] ELSE form[p]]
      BY <1>1 DEF ServeLoad, ShowLoad, FailLoad, Navigate, vars, screen
    <3> QED  BY <1>0, <3>1 DEF Upto
  <2> QED  BY <1>0, <1>b, <2>1, <2>2, <2>3 DEF Out
<1>2. ASSUME NEW q \in Parts, Type(q) PROVE Goal
  <2>1. m = n + 1 /\ doc' = doc /\ seen' = seen /\ load' = load /\ jobs' = jobs
    BY <1>0, <1>2 DEF Type, Histories
  <2>2. Upto(form', m)
    BY <1>0, <1>2, <1>a, <2>1 DEF Type, Upto, Bodies
  <2> QED  BY <1>0, <1>a, <2>1, <2>2, UptoGrows DEF Out, TypeOK
<1>3. ASSUME NEW kind \in {"old", "new"}, OpenDialog(kind) PROVE Goal
  <2>1. m = n /\ doc' = doc /\ seen' = seen /\ load' = load /\ jobs' = jobs
    BY <1>0, <1>3 DEF OpenDialog, Histories
  <2>2. Upto(form', n)
    BY <1>0, <1>3 DEF OpenDialog, Upto
  <2> QED  BY <1>0, <2>1, <2>2 DEF Out
<1>4. CASE CancelDialog
  <2>1. m = n /\ doc' = doc /\ seen' = seen /\ (Ask \/ load' = load) /\ jobs' = jobs /\ form' = Closed
    BY <1>0, <1>4 DEF CancelDialog, Histories
  <2> QED  BY <1>0, <1>b, <1>e, <2>1 DEF Out
<1>5. ASSUME NEW b \in plan.buttons, Click(b) PROVE Goal
  <2>1. PICK c \in 1..MaxClicks : Made(c, b)
    BY <1>5, ClickMakes
  <2>2. m = n /\ doc' = doc /\ seen' = seen /\ load' = load /\ form' = form
    BY <1>0, <1>5 DEF Click, Histories
  <2>3. Sent
    BY <1>0, <1>b, <2>1, <2>2 DEF Made
  <2> QED  BY <1>0, <2>2, <2>3
<1>6. ASSUME NEW b \in plan.buttons, Refuse(b) PROVE Goal
  BY <1>0, <1>6 DEF Refuse, Out
<1>7. ASSUME NEW s \in DOMAIN jobs, Serve(s) PROVE Goal
  <2>1. s \in Out /\ Out' = Out /\ \A t \in Out : jobs'[t].sent = jobs[t].sent /\ (t # s => jobs'[t] = jobs[t])
    BY <1>7, ServeMoves DEF Moved, SameRequest
  <2>2. m \in {n, n + 1} /\ load' = load /\ seen' = seen /\ form' = form
    BY <1>0, <1>7, AnswersHold DEF screen
  <2>3. PICK body \in Bodies : /\ FromNowhere(s, body)
                               /\ doc'.body \in {doc.body, body} /\ jobs'[s].answer \in {Empty, body}
    BY <1>7, AnswersHold
  <2>4. n <= m
    BY <1>0, <2>2
  <2>5. \A c \in {form, doc.body, seen.body, load.doc.body, Empty} : Upto(c, m)
    BY <1>0, <1>a, <1>b, <2>4, UptoGrows, BodiesComputed
  <2>6. \A t \in Out : Upto(jobs[t].sent, m) /\ Upto(jobs[t].answer, m)
    BY <1>0, <1>a, <2>4, UptoGrows
  <2>7. Upto(body, m)
    <3>1. \A p \in Parts : body[p] \in {0, doc.body[p], m, jobs[s].sent[p]}
      BY <2>3 DEF FromNowhere
    <3>2. 0 <= m /\ m <= m
      BY <1>0
    <3> QED  BY <2>1, <2>5, <2>6, <3>1, <3>2 DEF Upto
  <2>8. Sent
    <3>1. Upto(jobs'[s].answer, m)
      BY <2>3, <2>5, <2>7
    <3> QED  BY <2>1, <2>6, <3>1
  <2> QED  BY <2>2, <2>3, <2>5, <2>7, <2>8
<1>8. ASSUME NEW s \in DOMAIN jobs, Lose(s) \/ Continue(s) PROVE Goal
  <2>1. /\ s \in Out /\ Out' = Out
        /\ \A t \in Out : jobs'[t].sent = jobs[t].sent /\ (t # s => jobs'[t] = jobs[t])
    BY <1>8, LossMoves, NextRequestMoves DEF Moved, SameRequest
  <2>2. jobs'[s].answer = Empty
    <3>1. jobs[s] \in Requests(plan)
      BY <2>1, OutAreRequests
    <3>2. CASE Lose(s)
      BY <3>1, <3>2 DEF Lose, Requests
    <3>3. CASE Continue(s)
      BY <3>1, <3>3 DEF Continue, Requests
    <3> QED  BY <1>8, <3>2, <3>3
  <2>3. m = n /\ doc' = doc /\ (Ask \/ load' = load) /\ form' \in {form, AnswerTaken(jobs[s])}
        /\ seen'.body \in {seen.body, jobs[s].answer}
    BY <1>0, <1>8 DEF Lose, Continue, screen, Histories, TypeOK, Docs
  <2>4. Upto(AnswerTaken(jobs[s]), n)
    BY <1>0, <2>1 DEF AnswerTaken, Upto
  <2> QED  BY <1>0, <1>b, <1>e, <2>1, <2>2, <2>3, <2>4
<1>9. ASSUME NEW s \in DOMAIN jobs, Succeed(s) \/ Fail(s) PROVE Goal
  <2>1. s \in Out /\ Out' = Out \ {s} /\ (\A t \in Out' : jobs'[t] = jobs[t])
    BY <1>9, EndOfRequest DEF Ended
  <2>2. m = n /\ doc' = doc /\ (Ask \/ load' = load)
        /\ form' \in {form, AnswerTaken(jobs[s]), Closed, seen.body, Empty}
        /\ seen'.body \in {seen.body, jobs[s].answer}
    BY <1>0, <1>9 DEF Succeed, Fail, Histories, TypeOK, Docs
  <2>3. Upto(AnswerTaken(jobs[s]), n)
    BY <1>0, <2>1 DEF AnswerTaken, Upto
  <2> QED  BY <1>0, <1>b, <1>e, <2>1, <2>2, <2>3
<1>10. ASSUME NEW q \in Parts, ColleagueEdits(q) PROVE Goal
  <2>1. m = n + 1 /\ UNCHANGED <<load, jobs, screen>> /\ doc' = [doc EXCEPT !.body[q] = n + 1]
    BY <1>0, <1>10 DEF ColleagueEdits, Touched, Histories
  <2>2. Upto(doc'.body, m)
    BY <1>0, <1>a, <2>1 DEF Upto, TypeOK, Docs, Bodies
  <2> QED  BY <1>0, <1>a, <2>1, <2>2, UptoGrows DEF Out, screen, TypeOK
<1>11. CASE ColleagueSubmits \/ ApproverDecides
  <2>1. m = n /\ UNCHANGED <<load, jobs, screen>> /\ doc'.body = doc.body
    <3>1. m = n /\ UNCHANGED <<load, jobs, screen>> /\ doc' \in Decisions \cup {Submitted}
      BY <1>0, <1>11 DEF ColleagueSubmits, ApproverDecides, Touched, Histories
    <3> QED  BY <3>1 DEF Decisions, Submitted, TypeOK, Docs
  <2> QED  BY <1>0, <2>1 DEF Out, screen
<1> QED
  BY <1>1, <1>2, <1>3, <1>4, <1>5, <1>6, <1>7, <1>8, <1>9, <1>10, <1>11
     DEF Next, UserActs, BrowserActs, ServerActs, NetworkActs, OthersAct

(* What a button would throw away it has sent before it comes to that.     *)
LEMMA SentBefore ==
    ASSUME TypeOK, RequestsFit, PlansAssumption, NEW p \in Kept, OnlyHere(p), NEW s \in Out,
           jobs[s].phase # "sent", ThrowsAway(plan, jobs[s].button, p)
    PROVE  /\ jobs[s].phase = "ok" => GoesWithRow(plan, jobs[s].button, p) \/ Done(jobs[s]) # Len(jobs[s].button.steps)
           /\ jobs[s].phase = "ok" /\ Lends(jobs[s].button) => GoesWithRow(plan, jobs[s].button, p)
           /\ "reloadAnyway" \in jobs[s].button.after => p \notin plan.parts
<1> DEFINE b == jobs[s].button
<1>1. b \in plan.buttons /\ jobs[s].step \in 1..Len(b.steps) /\ Len(b.steps) \in Nat /\ DOMAIN b.steps = 1..Len(b.steps)
  <2>1. b \in plan.buttons /\ jobs[s].step \in 1..Len(b.steps)
    BY AtAStep
  <2>2. b.steps \in Seq([op : STRING, parts : SUBSET Parts])
    BY <2>1 DEF TypeOK, PlansAssumption, Typed
  <2> QED  BY <2>1, <2>2
<1>2. Unsent(jobs[s], p) /\ p \in plan.fields \cup plan.dialogParts /\ <<plan, p>> \notin Forgotten
  BY DEF OnlyHere, Kept, Harmless, Earlier
<1>3. Sends(b, p) \/ GoesWithRow(plan, b, p)
  <2>1. KeepsTyped(plan)
    BY DEF TypeOK, PlansAssumption
  <2>2. p \in plan.dialogParts => b.place = "dialog"
    BY <1>2 DEF Unsent
  <2> QED  BY <1>1, <1>2, <2>1, <2>2 DEF KeepsTyped
<1>4. ASSUME Sends(b, p), jobs[s].phase = "ok" PROVE Done(jobs[s]) # Len(b.steps) /\ ~Lends(b)
  <2>1. PICK k \in 1..Len(b.steps) : /\ b.steps[k].op = "store" /\ p \in b.steps[k].parts
                                     /\ k = 1 \/ b.raises \subseteq {b.waits}
    BY <1>1, <1>4 DEF Sends
  <2>2. k \notin 1..Done(jobs[s]) /\ Done(jobs[s]) = jobs[s].step
    BY <1>2, <1>4, <2>1 DEF Unsent, Done
  <2>3. k # 1
    BY <1>1, <2>2
  <2> QED  BY <1>1, <2>1, <2>2, <2>3 DEF Lends
<1>5. "reloadAnyway" \in b.after => p \notin plan.parts
  BY <1>3 DEF Sends, GoesWithRow
<1> QED  BY <1>3, <1>4, <1>5

(* A part typed into stays as it is typed, and nowhere but on the screen,  *)
(* until it is thrown away or the server has it.                           *)
LEMMA StaysOnScreen ==
    ASSUME PagesInv, Versions, [Next]_vars, PlansAssumption, NEW p \in Kept, OnlyHere(p), p \in past'.owed,
           ~Type(p)
    PROVE  form'[p] = form[p] /\ OnlyHere(p)'
<1> DEFINE Goal == form'[p] = form[p] /\ OnlyHere(p)'
           Held(d, l, sn) == /\ d[p] # form[p] /\ sn[p] # form[p]
                             /\ l.phase = "answered" => l.doc.body[p] # form[p]
                             /\ p \in plan.parts => l.phase = "none"
           Pending == \A s \in Out' : Harmless(jobs[s], p)'
<1>0. /\ TypeOK /\ RequestsFit /\ KnownWhere /\ plan' = plan /\ past \in Histories /\ KeepsTyped(plan)
      /\ p \in Parts /\ p \in past.owed /\ <<plan, p>> \notin Forgotten
  <2>1. TypeOK /\ RequestsFit /\ KnownWhere /\ plan' = plan /\ past \in Histories
    BY PlanStays DEF PagesInv, TypeOK
  <2> QED  BY <2>1 DEF TypeOK, PlansAssumption, Kept, Histories
<1>a. /\ form[p] # 0 /\ Held(doc.body, load, seen.body)
      /\ p \in plan.fields \cup plan.dialogParts /\ (p \in plan.dialogParts => dialog # "closed")
      /\ \A s \in Out : Harmless(jobs[s], p)
  BY DEF OnlyHere
<1>b. /\ form[p] \in Nat /\ past.newest \in Nat /\ form[p] <= past.newest /\ Fresh = past.newest + 1
      /\ form[p] # Fresh
  BY <1>0 DEF TypeOK, Bodies, Histories, Versions, Upto, Fresh
<1>c. ASSUME form'[p] = form[p], Held(doc'.body, load', seen'.body), Pending,
             dialog' = dialog \/ dialog' # "closed" \/ p \notin plan.dialogParts
      PROVE  Goal
  BY <1>0, <1>a, <1>c DEF OnlyHere
<1>d. jobs' = jobs /\ form'[p] = form[p] => Pending
  BY <1>0, <1>a DEF Out, Harmless, Unsent, Earlier
<1>e. Ask /\ p \notin plan.parts => Held(doc.body, load', seen.body)
  BY <1>a DEF Ask
<1>1. CASE ServeLoad
  BY <1>1, <1>a, <1>c, <1>d DEF ServeLoad, screen
<1>2. CASE ShowLoad
  <2>1. load.phase = "answered" /\ p \notin plan.parts
    BY <1>2, <1>a DEF ShowLoad
  <2> QED  BY <1>0, <1>2, <1>a, <1>c, <1>d, <2>1 DEF ShowLoad
<1>3. CASE FailLoad
  BY <1>3, <1>a, <1>c, <1>d DEF FailLoad, screen
<1>4. ASSUME NEW q \in Parts, Type(q) PROVE Goal
  <2>1. q # p
    BY <1>4
  <2>2. form'[p] = form[p]
    BY <1>0, <1>4, <2>1 DEF Type, TypeOK, Bodies
  <2> QED  BY <1>4, <1>a, <1>c, <1>d, <2>2 DEF Type
<1>5. ASSUME NEW kind \in {"old", "new"}, OpenDialog(kind) PROVE Goal
  <2>1. p \notin plan.dialogParts
    BY <1>0, <1>5 DEF OpenDialog, Histories
  <2>2. form'[p] = form[p]
    BY <1>0, <1>5, <2>1 DEF OpenDialog
  <2> QED  BY <1>5, <1>a, <1>c, <1>d, <2>1, <2>2 DEF OpenDialog
<1>6. CASE CancelDialog
  <2>1. p \notin plan.dialogParts
    BY <1>0, <1>6 DEF CancelDialog, Histories
  <2>2. form'[p] = form[p]
    BY <1>0, <1>6, <2>1 DEF CancelDialog, Closed
  <2>3. Held(doc.body, load', seen.body)
    <3>1. load' = load \/ (Ask /\ dialog = "new")
      BY <1>6 DEF CancelDialog
    <3>2. dialog = "new" => p \notin plan.parts
      BY <1>0, <1>a, <2>1 DEF KnownWhere, KeepsTyped
    <3> QED  BY <1>a, <1>e, <3>1, <3>2
  <2> QED  BY <1>6, <1>c, <1>d, <2>1, <2>2, <2>3 DEF CancelDialog
<1>7. ASSUME NEW b \in plan.buttons, Click(b) PROVE Goal
  <2>1. PICK c \in 1..MaxClicks : Made(c, b)
    BY <1>0, <1>7, ClickMakes
  <2>2. form' = form /\ doc' = doc /\ load' = load /\ seen' = seen /\ dialog' = dialog
    BY <1>7 DEF Click
  <2>3. Unsent(jobs[c], p)'
    <3>1. p \in plan.dialogParts => b.place = "dialog"
      BY <1>7, <1>a DEF Click, Offered, InReach
    <3>2. jobs'[c].answer[p] # form[p] /\ Done(jobs'[c]) = 0
      BY <1>0, <1>a, <2>1 DEF Made, Empty, Done
    <3> QED  BY <1>0, <2>1, <2>2, <3>1, <3>2 DEF Made, Unsent
  <2>4. \A t \in Out : Harmless(jobs[t], p)'
    BY <1>0, <1>a, <2>1, <2>2 DEF Made, Harmless, Unsent, Earlier, Done
  <2>5. Pending
    BY <2>1, <2>3, <2>4 DEF Made, Harmless
  <2> QED  BY <1>a, <1>c, <2>2, <2>5
<1>8. CASE Navigate \/ UNCHANGED vars \/ \E b \in plan.buttons : Refuse(b)
  <2>1. form' = form /\ doc' = doc /\ load' = load /\ seen' = seen /\ dialog' = dialog /\ jobs' = jobs
    BY <1>8 DEF Navigate, vars, screen, Refuse
  <2> QED  BY <1>a, <1>c, <1>d, <2>1
<1>9. ASSUME NEW s \in DOMAIN jobs, Serve(s) PROVE Goal
  <2>1. s \in Out /\ Out' = Out /\ (\A t \in Out : SameRequest(t) /\ (t # s => jobs'[t] = jobs[t]))
        /\ jobs'[s].step = jobs[s].step /\ jobs'[s].phase \in {"ok", "bad"} /\ jobs[s].phase = "sent"
    BY <1>0, <1>9, ServeMoves DEF Moved
  <2>2. form' = form /\ load' = load /\ seen' = seen /\ dialog' = dialog
    BY <1>0, <1>9, AnswersHold DEF screen
  <2>3. PICK body \in Bodies : /\ FromNowhere(s, body)
                               /\ doc'.body \in {doc.body, body} /\ jobs'[s].answer \in {Empty, body}
    BY <1>0, <1>9, AnswersHold
  <2>4. body[p] # form[p] /\ Empty[p] # form[p]
    <3>1. \/ body[p] \in {0, doc.body[p]} \/ body[p] = Fresh
          \/ body[p] = jobs[s].sent[p] /\ jobs[s].sent[p] # form[p]
      BY <1>0, <2>3 DEF FromNowhere
    <3> QED  BY <1>0, <1>a, <1>b, <2>1, <3>1 DEF Empty
  <2>5. Held(doc'.body, load', seen'.body)
    BY <1>a, <2>2, <2>3, <2>4
  <2>6. Harmless(jobs[s], p)'
    <3>1. jobs'[s].answer[p] # form[p]
      BY <2>3, <2>4
    <3>a. CASE Earlier(jobs[s], p)
      BY <1>0, <2>1, <2>2, <3>1, <3>a DEF Harmless, Earlier, SameRequest
    <3>b. ASSUME Unsent(jobs[s], p) PROVE Unsent(jobs[s], p)'
      <4>2. ASSUME NEW k \in 1..Done(jobs'[s]), jobs[s].button.steps[k].op = "store", p \in jobs[s].button.steps[k].parts
            PROVE  FALSE
        <5>1. jobs[s].step \in Nat /\ Done(jobs[s]) = jobs[s].step - 1
          BY <1>0, <2>1, AtAStep DEF Done
        <5>2. k \notin 1..Done(jobs[s])
          BY <2>1, <3>b, <4>2 DEF Unsent
        <5>3. jobs'[s].phase = "ok" /\ k = jobs[s].step
          BY <2>1, <4>2, <5>1, <5>2 DEF Done
        <5>4. jobs[s].sent[p] # form[p]
          BY <1>0, <1>9, <4>2, <5>3, AnswersHold DEF StepOf
        <5> QED  BY <2>1, <3>b, <5>4 DEF Unsent
      <4> QED  BY <1>0, <2>1, <2>2, <3>1, <3>b, <4>2 DEF Unsent, SameRequest
    <3> QED  BY <1>a, <2>1, <3>a, <3>b DEF Harmless
  <2>7. Pending
    BY <1>0, <1>a, <2>1, <2>2, <2>6 DEF Harmless, Unsent, Earlier
  <2> QED  BY <1>c, <2>2, <2>5, <2>7
<1>10. ASSUME NEW s \in DOMAIN jobs, Lose(s) PROVE Goal
  <2>1. s \in Out /\ Moved(s, "bad", jobs[s].step) /\ jobs[s].phase \in {"sent", "ok"}
    BY <1>0, <1>10, LossMoves DEF Lose
  <2>2. form' = form /\ doc' = doc /\ load' = load /\ seen' = seen /\ dialog' = dialog
    BY <1>10 DEF Lose, screen
  <2>3. jobs'[s].answer = Empty
    <3>1. jobs[s] \in Requests(plan)
      BY <1>0, <2>1, OutAreRequests
    <3> QED  BY <1>10, <3>1 DEF Lose, Requests
  <2>4. Harmless(jobs[s], p)'
    <3>1. jobs[s].step \in Nat /\ Done(jobs'[s]) = jobs[s].step - 1 /\ Done(jobs[s]) \in {jobs[s].step, jobs[s].step - 1}
      BY <1>0, <2>1, AtAStep DEF Moved, Done
    <3>2. \A k \in 1..Done(jobs'[s]) : k \in 1..Done(jobs[s])
      BY <3>1
    <3> QED  BY <1>0, <1>a, <2>1, <2>2, <2>3, <3>2 DEF Harmless, Unsent, Earlier, Moved, SameRequest, Empty
  <2>5. Pending
    BY <1>0, <1>a, <2>1, <2>2, <2>4 DEF Harmless, Unsent, Earlier, Moved
  <2> QED  BY <1>a, <1>c, <2>2, <2>5
<1>11. ASSUME NEW s \in DOMAIN jobs, Continue(s) PROVE Goal
  <2> DEFINE b == jobs[s].button
  <2>1. s \in Out /\ Moved(s, "sent", jobs[s].step + 1) /\ jobs[s].phase = "ok" /\ jobs[s].step < Len(b.steps)
    BY <1>0, <1>11, NextRequestMoves DEF Continue
  <2>2. Lends(b) => ~ThrowsAway(plan, b, p)
    <3>1. Len(b.steps) # 1
      <4>1. \A n \in Nat : \A m \in 1..n : m < n => n # 1
        OBVIOUS
      <4> QED  BY <1>0, <2>1, <4>1, AtAStep, Zenon
    <3> QED  BY <1>0, <2>1, <3>1, SentBefore DEF GoesWithRow
  <2>3. form'[p] = form[p] /\ seen'.body[p] # form[p] /\ (load' = load \/ (Ask /\ p \notin plan.parts))
    <3>1. CASE ~gone /\ Lends(b)
      <4>1. /\ "adopt" \in b.after => p \notin plan.parts \cup plan.dialogParts
            /\ "reload" \in b.after => p \notin plan.parts
        BY <2>2, <3>1 DEF ThrowsAway
      <4>2. form'[p] = form[p]
        BY <1>0, <1>11, <4>1 DEF Continue, Adopts, AnswerTaken
      <4>3. seen' = seen \/ seen' = [seen EXCEPT !.body = jobs[s].answer]
        BY <1>11 DEF Continue
      <4>4. seen'.body[p] # form[p]
        BY <1>0, <1>a, <2>1, <4>3 DEF Harmless, Unsent, Earlier, TypeOK, Docs
      <4> QED  BY <1>11, <4>1, <4>2, <4>4 DEF Continue
    <3>2. CASE gone \/ ~Lends(b)
      <4>1. form' = form /\ seen' = seen /\ load' = load
        BY <1>11, <3>2 DEF Continue, Lends, Borrowed
      <4> QED  BY <1>a, <4>1
    <3> QED  BY <3>1, <3>2
  <2>4. doc' = doc /\ dialog' = dialog
    BY <1>11 DEF Continue
  <2>5. jobs'[s].answer = Empty
    <3>1. jobs[s] \in Requests(plan)
      BY <1>0, <2>1, OutAreRequests
    <3> QED  BY <1>11, <3>1 DEF Continue, Requests
  <2>6. Harmless(jobs[s], p)'
    <3>1. Done(jobs'[s]) = Done(jobs[s])
      BY <1>0, <2>1, AtAStep DEF Moved, Done
    <3> QED  BY <1>0, <1>a, <2>1, <2>3, <2>5, <3>1 DEF Harmless, Unsent, Earlier, Moved, SameRequest, Empty
  <2>7. Pending
    BY <1>0, <1>a, <2>1, <2>3, <2>6 DEF Harmless, Unsent, Earlier, Moved
  <2>8. Held(doc'.body, load', seen'.body)
    BY <1>a, <1>e, <2>3, <2>4
  <2> QED  BY <1>c, <2>3, <2>4, <2>7, <2>8
<1>12. ASSUME NEW s \in DOMAIN jobs, Succeed(s) PROVE Goal
  <2> DEFINE b == jobs[s].button
             closes == "close" \in b.after /\ dialog # "closed"
  <2>1. s \in Out /\ Out' = Out \ {s} /\ (\A t \in Out' : jobs'[t] = jobs[t])
        /\ jobs[s].phase = "ok" /\ jobs[s].step = Len(b.steps)
    BY <1>0, <1>12, EndOfRequest DEF Ended, Succeed
  <2>2. ~ThrowsAway(plan, b, p)
    <3>1. SUFFICES ASSUME ThrowsAway(plan, b, p) PROVE FALSE
      OBVIOUS
    <3>2. GoesWithRow(plan, b, p)
      BY <1>0, <2>1, <3>1, SentBefore DEF Done
    <3>3. closes /\ p \in plan.dialogParts /\ StepOf(jobs[s]).op = "remove"
      BY <1>a, <2>1, <3>1, <3>2 DEF GoesWithRow, ThrowsAway, StepOf
    <3>4. past'.owed = past.owed \ plan.dialogParts
      BY <1>0, <1>12, <3>3 DEF Succeed, Histories
    <3> QED  BY <3>3, <3>4
  <2>3. /\ "adopt" \in b.after => p \notin plan.parts \cup plan.dialogParts
        /\ "reload" \in b.after => p \notin plan.parts
        /\ "close" \in b.after => p \notin plan.dialogParts
        /\ "clear" \notin b.after /\ "revert" \notin b.after
    BY <2>2 DEF ThrowsAway
  <2>4. form'[p] = form[p]
    <3>1. Closed[p] = form[p] \/ "close" \notin b.after
      BY <1>0, <2>3 DEF Closed
    <3>2. AnswerTaken(jobs[s])[p] = form[p] \/ ~Adopts(jobs[s])
      BY <1>0, <2>3 DEF AnswerTaken, Adopts
    <3>3. form' = IF Adopts(jobs[s]) THEN AnswerTaken(jobs[s]) ELSE IF closes THEN Closed ELSE form
      BY <1>12, <2>3 DEF Succeed
    <3> QED  BY <3>1, <3>2, <3>3
  <2>5. doc' = doc /\ (load' = load \/ (Ask /\ p \notin plan.parts)) /\ (dialog' = dialog \/ p \notin plan.dialogParts)
    BY <1>12, <2>3 DEF Succeed
  <2>6. seen'.body[p] # form[p]
    <3>1. seen' = seen \/ seen' = [seen EXCEPT !.body = jobs[s].answer]
      BY <1>12 DEF Succeed
    <3> QED  BY <1>0, <1>a, <2>1, <3>1 DEF Harmless, Unsent, Earlier, TypeOK, Docs
  <2>7. Pending
    BY <1>0, <1>a, <2>1, <2>4 DEF Harmless, Unsent, Earlier
  <2>8. Held(doc'.body, load', seen'.body)
    BY <1>a, <1>e, <2>5, <2>6
  <2> QED  BY <1>c, <2>4, <2>5, <2>7, <2>8
<1>13. ASSUME NEW s \in DOMAIN jobs, Fail(s) PROVE Goal
  <2>1. s \in Out /\ Out' = Out \ {s} /\ (\A t \in Out' : jobs'[t] = jobs[t]) /\ jobs[s].phase = "bad"
    BY <1>0, <1>13, EndOfRequest DEF Ended, Fail
  <2>2. "reloadAnyway" \in jobs[s].button.after => p \notin plan.parts
    BY <1>0, <2>1, SentBefore DEF ThrowsAway
  <2>3. form' = form /\ doc' = doc /\ seen' = seen /\ dialog' = dialog
        /\ (load' = load \/ (Ask /\ p \notin plan.parts))
    BY <1>13, <2>2 DEF Fail
  <2>4. Pending
    BY <1>0, <1>a, <2>1, <2>3 DEF Harmless, Unsent, Earlier
  <2>5. Held(doc'.body, load', seen'.body)
    BY <1>a, <1>e, <2>3
  <2> QED  BY <1>c, <2>3, <2>4, <2>5
<1>14. ASSUME NEW q \in Parts, ColleagueEdits(q) PROVE Goal
  <2>1. UNCHANGED <<load, jobs, screen>> /\ doc' = [doc EXCEPT !.body[q] = Fresh]
    BY <1>14 DEF ColleagueEdits
  <2>2. doc'.body[p] \in {doc.body[p], Fresh}
    BY <1>0, <2>1 DEF TypeOK, Docs, Bodies
  <2> QED  BY <1>a, <1>b, <1>c, <1>d, <2>1, <2>2 DEF screen
<1>15. CASE ColleagueSubmits \/ ApproverDecides
  <2>1. UNCHANGED <<load, jobs, screen>> /\ doc'.body = doc.body
    <3>1. UNCHANGED <<load, jobs, screen>> /\ doc' \in Decisions \cup {Submitted}
      BY <1>15 DEF ColleagueSubmits, ApproverDecides
    <3> QED  BY <1>0, <3>1 DEF Decisions, Submitted, TypeOK, Docs
  <2> QED  BY <1>a, <1>c, <1>d, <2>1 DEF screen
<1> QED
  BY <1>1, <1>2, <1>3, <1>4, <1>5, <1>6, <1>7, <1>8, <1>9, <1>10, <1>11, <1>12, <1>13, <1>14, <1>15
     DEF Next, UserActs, BrowserActs, ServerActs, NetworkActs, OthersAct

(* What is typed while nothing under way replaces it is nowhere else.      *)
LEMMA TypedOnly ==
    ASSUME PagesInv, Versions, [Next]_vars, PlansAssumption, NEW p \in Parts, Type(p), p \in past'.owed
    PROVE  OnlyHere(p)' /\ form'[p] = Fresh
<1>0. TypeOK /\ past \in Histories /\ plan' = plan /\ KeepsTyped(plan) /\ form \in Bodies
  BY PlanStays DEF PagesInv, TypeOK, PlansAssumption
<1>1. past'.owed = (IF BeingReplaced(p) THEN past.owed \ {p} ELSE past.owed \cup {p})
  BY <1>0 DEF Type, Histories
<1>2. /\ p \in plan.parts => load.phase = "none"
      /\ \A s \in Out : ~ThrowsAway(plan, jobs[s].button, p)
  BY <1>1 DEF BeingReplaced
<1>3. /\ form'[p] = Fresh /\ p \in Fields /\ Out' = Out
      /\ UNCHANGED <<doc, seen, load, dialog, jobs>>
  BY <1>0 DEF Type, Bodies, Out
<1>4. past.newest \in Nat /\ Fresh = past.newest + 1
  BY <1>0 DEF Histories, Fresh
<1>5. ASSUME NEW b \in Bodies, Upto(b, past.newest) PROVE b[p] # Fresh
  <2>1. b[p] \in Nat /\ b[p] <= past.newest
    BY <1>5 DEF Bodies, Upto
  <2> QED  BY <1>4, <2>1
<1>6. Fresh \notin {0, doc.body[p], seen.body[p], load.doc.body[p]}
  <2>1. doc.body \in Bodies /\ seen.body \in Bodies /\ load.doc.body \in Bodies
    BY <1>0 DEF TypeOK, Docs
  <2> QED  BY <1>4, <1>5, <2>1 DEF Versions
<1>7. ASSUME NEW s \in Out PROVE Earlier(jobs[s], p)'
  <2>1. jobs[s].sent \in Bodies /\ jobs[s].answer \in Bodies
    BY <1>0, BodiesComputed
  <2>2. jobs[s].sent[p] # Fresh /\ jobs[s].answer[p] # Fresh
    BY <1>5, <2>1 DEF Versions
  <2> QED  BY <1>0, <1>2, <1>3, <2>2 DEF Earlier
<1>8. p \in plan.fields \cup plan.dialogParts /\ (p \in plan.dialogParts => dialog # "closed")
  BY <1>0, <1>3 DEF Fields, KeepsTyped
<1> QED  BY <1>0, <1>2, <1>3, <1>6, <1>7, <1>8 DEF OnlyHere, Harmless

(* Only typing makes anything owed. *)
LEMMA OwedByTyping ==
    ASSUME TypeOK, [Next]_vars, NEW p \in past'.owed, p \notin past.owed
    PROVE  Type(p)
<1>0. past \in Histories
  BY DEF TypeOK
<1>1. ASSUME NEW q \in Parts, Type(q) PROVE Type(p)
  <2>1. past'.owed \in {past.owed \ {q}, past.owed \cup {q}}
    BY <1>0, <1>1 DEF Type, Histories
  <2> QED  BY <1>1, <2>1
<1>2. CASE ServeLoad \/ ShowLoad \/ FailLoad \/ Navigate \/ UNCHANGED vars
  BY <1>0, <1>2 DEF ServeLoad, ShowLoad, FailLoad, Navigate, vars, Histories
<1>3. CASE CancelDialog \/ \E kind \in {"old", "new"} : OpenDialog(kind)
  BY <1>0, <1>3 DEF CancelDialog, OpenDialog, Histories
<1>4. CASE \E b \in plan.buttons : Click(b) \/ Refuse(b)
  BY <1>0, <1>4 DEF Click, Refuse, Histories
<1>5. CASE \E s \in DOMAIN jobs : Serve(s)
  BY <1>5, AnswersHold
<1>6. ASSUME NEW s \in DOMAIN jobs, Lose(s) \/ Continue(s) \/ Succeed(s) \/ Fail(s)
      PROVE  FALSE
  <2>1. CASE Lose(s)
    BY <1>0, <2>1 DEF Lose, Histories
  <2>2. CASE Continue(s) \/ Fail(s)
    BY <2>2 DEF Continue, Fail
  <2>3. CASE Succeed(s)
    <3>1. past'.owed \in {past.owed, past.owed \ plan.dialogParts}
      BY <1>0, <2>3 DEF Succeed, Histories
    <3> QED  BY <3>1
  <2> QED  BY <1>6, <2>1, <2>2, <2>3
<1>7. CASE ColleagueSubmits \/ ApproverDecides \/ \E q \in Parts : ColleagueEdits(q)
  BY <1>0, <1>7 DEF ColleagueSubmits, ApproverDecides, ColleagueEdits, Touched, Histories
<1> QED
  BY <1>1, <1>2, <1>3, <1>4, <1>5, <1>6, <1>7
     DEF Next, UserActs, BrowserActs, ServerActs, NetworkActs, OthersAct

(* What was typed while nothing under way would replace it stays on the     *)
(* screen until the server has it, or the user throws it away or types     *)
(* over it.                                                                *)
THEOREM TypingIsKept == Spec => EditsSurvive
<1> DEFINE Survives == \A p \in past.owed \cap past'.owed :
                          <<plan, p>> \notin Forgotten => form'[p] \in {form[p], Fresh}
<1>1. Init => Versions /\ OnTheScreenOnly
  <2>1. SUFFICES ASSUME Init PROVE Versions /\ OnTheScreenOnly
    OBVIOUS
  <2>2. Out = {}
    BY <2>1, NoRequest DEF Init, Out, Phases
  <2>3. past.newest = 1 /\ past.owed = {}
    BY <2>1 DEF Init
  <2>4. /\ Upto(form, 1) /\ Upto(seen.body, 1) /\ Upto(load.doc.body, 1)
    BY <2>1 DEF Init, Upto, Empty, NoDoc
  <2>5. Upto(doc.body, 1)
    <3>1. doc.body \in {Empty, [p \in Parts |-> 1]}
      <4>1. CASE doc = NoDoc
        BY <4>1 DEF NoDoc
      <4>2. CASE doc # NoDoc
        BY <2>1, <4>2 DEF Init
      <4> QED  BY <4>1, <4>2
    <3>2. ASSUME NEW p \in Parts PROVE doc.body[p] <= 1
      <4>1. doc.body[p] = 0 \/ doc.body[p] = 1
        BY <3>1 DEF Empty
      <4> QED  BY <4>1
    <3> QED  BY <3>2 DEF Upto
  <2> QED  BY <2>2, <2>3, <2>4, <2>5 DEF Versions, OnTheScreenOnly, Kept
<1>2. PagesInv /\ PagesInv' /\ Versions /\ OnTheScreenOnly /\ [Next]_vars => Versions' /\ OnTheScreenOnly'
  <2>1. SUFFICES ASSUME PagesInv, PagesInv', Versions, OnTheScreenOnly, [Next]_vars
                 PROVE  Versions' /\ OnTheScreenOnly'
    OBVIOUS
  <2>2. Versions'
    BY <2>1, VersionsStep DEF PagesInv
  <2>3. ASSUME NEW p \in Kept' PROVE OnlyHere(p)'
    <3>1. p \in past'.owed /\ <<plan, p>> \notin Forgotten
      BY <2>1, PlanStays DEF Kept
    <3>2. CASE p \in past.owed /\ ~Type(p)
      <4>1. p \in Kept /\ OnlyHere(p)
        BY <2>1, <3>1, <3>2 DEF Kept, OnTheScreenOnly
      <4> QED  BY <2>1, <3>1, <3>2, <4>1, StaysOnScreen, PlansAssumption
    <3>3. CASE Type(p)
      <4>1. p \in Parts
        BY <2>1, <3>1 DEF PagesInv, TypeOK, Histories
      <4> QED  BY <2>1, <3>1, <3>3, <4>1, TypedOnly, PlansAssumption
    <3>4. p \in past.owed \/ Type(p)
      BY <2>1, <3>1, OwedByTyping DEF PagesInv
    <3> QED  BY <3>2, <3>3, <3>4
  <2> QED  BY <2>2, <2>3 DEF OnTheScreenOnly
<1>3. PagesInv /\ Versions /\ OnTheScreenOnly /\ [Next]_vars => [Survives]_vars
  <2>1. SUFFICES ASSUME PagesInv, Versions, OnTheScreenOnly, [Next]_vars,
                        NEW p \in past.owed \cap past'.owed, <<plan, p>> \notin Forgotten
                 PROVE  form'[p] \in {form[p], Fresh}
    OBVIOUS
  <2>2. p \in Kept /\ OnlyHere(p)
    BY <2>1 DEF Kept, OnTheScreenOnly
  <2>3. p \in Parts
    BY <2>1 DEF PagesInv, TypeOK, Histories
  <2> QED  BY <2>1, <2>2, <2>3, StaysOnScreen, TypedOnly, PlansAssumption
<1>4. Spec => [](Versions /\ OnTheScreenOnly)
  BY <1>1, <1>2, PagesAlwaysFit, PTL DEF Spec
<1> QED  BY <1>3, <1>4, PagesAlwaysFit, PTL DEF Spec, EditsSurvive
=============================================================================
