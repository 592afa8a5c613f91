----------------------------- MODULE SessionProofs -----------------------------
(***************************************************************************)
(* Proofs about Session, for any number of tabs and any idle policy.       *)
(***************************************************************************)
EXTENDS Session, TLAPS

-------------------------------------------------------------------------------
(* Every step keeps every variable in its range.                           *)

LEMMA TypeInit == Init => TypeOK
<1> SUFFICES ASSUME Init PROVE TypeOK
  OBVIOUS
<1>1. NoCall \in Calls
  BY DEF Calls
<1>2. call = [t \in Tabs |-> NoCall]
  BY DEF Init
<1>3. call \in [Tabs -> Calls]
  BY <1>1, <1>2
<1>4. /\ mem \in [Tabs -> 0..AccessLife] /\ idle \in [Tabs -> 0..Limit]
      /\ touched \in [Tabs -> 0..TouchEvery]
  BY PolicyAssumption DEF PolicyAssumption, Init
<1>5. row \in 0..Dead /\ cookie \in 0..AccessLife
  BY PolicyAssumption DEF PolicyAssumption, Init, Dead
<1>. QED
  BY <1>3, <1>4, <1>5 DEF Init, TypeOK

(* What the operators that send and drop requests leave in call.           *)
LEMMA RequestTypes ==
  ASSUME NEW kind \in Kinds, NEW phase \in Phases, NEW early \in BOOLEAN
  PROVE  Request(kind, phase, early) \in Calls
BY DEF Request, Calls

LEMMA SendTypes ==
  ASSUME TypeOK, NEW t \in Tabs
  PROVE  /\ Done(t) => call' \in [Tabs -> Calls]
         /\ \A kind \in Kinds : Send(t, kind) \/ SendTouch(t, kind) => call' \in [Tabs -> Calls]
<1>1. NoCall \in Calls /\ call \in [Tabs -> Calls]
  BY DEF Calls, TypeOK
<1>2. Done(t) => call' \in [Tabs -> Calls]
  BY <1>1 DEF Done
<1>3. ASSUME NEW kind \in Kinds, Send(t, kind) \/ SendTouch(t, kind)
      PROVE  call' \in [Tabs -> Calls]
  <2>0. Early(t) \in BOOLEAN
    BY DEF Early
  <2>1. PICK early \in BOOLEAN : call' = [call EXCEPT ![t] = Request(kind, "try", early)]
    BY <1>3, <2>0, ZenonT(30) DEF Send, SendTouch
  <2>2. Request(kind, "try", early) \in Calls
    BY RequestTypes DEF Phases
  <2>. QED
    BY <1>1, <2>1, <2>2
<1>. QED
  BY <1>2, <1>3

LEMMA ProceedTypes ==
  ASSUME TypeOK, NEW t \in Tabs, NEW phase \in Phases, call[t] # NoCall, Proceed(t, phase)
  PROVE  call' \in [Tabs -> Calls]
<1>1. call \in [Tabs -> Calls] /\ call[t] \in [kind : Kinds, phase : Phases, early : BOOLEAN]
  BY DEF TypeOK, Calls
<1>2. [call[t] EXCEPT !.phase = phase] \in Calls
  BY <1>1 DEF Calls
<1>3. call' = [call EXCEPT ![t] = [call[t] EXCEPT !.phase = phase]]
  BY DEF Proceed
<1>. QED
  BY <1>1, <1>2, <1>3

LEMMA BumpTypes ==
  ASSUME TypeOK, NEW t \in Tabs, Bump(t)
  PROVE  /\ idle' \in [Tabs -> 0..Limit] /\ touched' \in [Tabs -> 0..TouchEvery]
         /\ warned' \subseteq Tabs /\ open' \subseteq Tabs /\ slept' \subseteq Tabs
         /\ call' \in [Tabs -> Calls]
<1>1. Done(t) \/ SendTouch(t, "touch")
  BY DEF Bump
<1>2. call' \in [Tabs -> Calls]
  BY <1>1, SendTypes DEF Kinds
<1>3. 0 \in 0..Limit /\ 0 \in 0..TouchEvery
  BY PolicyAssumption DEF PolicyAssumption
<1>4. idle' \in [Tabs -> 0..Limit] /\ touched' \in [Tabs -> 0..TouchEvery]
  BY <1>3 DEF Bump, TypeOK, clocks
<1>5. warned' \subseteq Tabs /\ open' \subseteq Tabs /\ slept' \subseteq Tabs
  BY DEF Bump, TypeOK, clocks
<1>. QED
  BY <1>2, <1>4, <1>5

LEMMA TypeStep == TypeOK /\ [Next]_vars => TypeOK'
<1> SUFFICES ASSUME TypeOK, [Next]_vars PROVE TypeOK'
  OBVIOUS
<1> USE PolicyAssumption DEF PolicyAssumption
<1>1. ASSUME NEW t \in Tabs, Login(t) PROVE TypeOK'
  BY <1>1 DEF TypeOK, Login, NewTokens, Enter, Dead, Absent
<1>2. ASSUME NEW t \in Tabs, Boot(t) PROVE TypeOK'
  BY <1>2, SendTypes DEF TypeOK, Boot, Kinds, cookies, clocks, history
<1>3. ASSUME NEW t \in Tabs, CloseTab(t) PROVE TypeOK'
  BY <1>3 DEF TypeOK, CloseTab, Leave, cookies
<1>4. ASSUME NEW t \in Tabs, Input(t) PROVE TypeOK'
  BY <1>4, BumpTypes DEF TypeOK, Input, cookies
<1>5. ASSUME NEW t \in Tabs, Work(t) PROVE TypeOK'
  BY <1>5, SendTypes DEF TypeOK, Work, Kinds, cookies, clocks, history
<1>6. ASSUME NEW t \in Tabs, Continue(t) PROVE TypeOK'
  BY <1>6, SendTypes DEF TypeOK, Continue, Kinds, cookies, history
<1>7. ASSUME NEW t \in Tabs, SignOut(t) PROVE TypeOK'
  BY <1>7, SendTypes DEF TypeOK, SignOut, Kinds, cookies, history
<1>8. ASSUME NEW t \in Tabs, Watch(t) PROVE TypeOK'
  <2>1. CASE ShowWarning(t)
    BY <2>1 DEF TypeOK, ShowWarning, StartWarning, cookies
  <2>2. CASE WarnOnce(t)
    BY <2>2 DEF TypeOK, WarnOnce, StartWarning, cookies
  <2>3. CASE Expire(t)
    BY <2>3, SendTypes DEF TypeOK, Expire, Kinds, cookies, history
  <2>. QED
    BY <1>8, <2>1, <2>2, <2>3 DEF Watch
<1>9. ASSUME NEW t \in Tabs, Grant(t) PROVE TypeOK'
  <2>1. CASE GrantTouch(t)
    BY <2>1, SendTypes DEF TypeOK, GrantTouch, Dead, cookies, clocks
  <2>2. CASE GrantWork(t)
    BY <2>2, BumpTypes DEF TypeOK, GrantWork, cookies
  <2>3. CASE GrantPoll(t)
    BY <2>3, SendTypes DEF TypeOK, GrantPoll, cookies, clocks, history
  <2>4. CASE GrantProfile(t)
    BY <2>4, SendTypes DEF TypeOK, GrantProfile, Assumed, Absent, clocks, history
  <2>5. CASE GrantBoot(t)
    BY <2>5, SendTypes DEF TypeOK, GrantBoot, Assumed, Enter, Absent
  <2>6. CASE GrantLogout(t)
    <3>1. row' \in 0..Dead
      BY <2>6 DEF GrantLogout, Dead
    <3>2. call' \in [Tabs -> Calls]
      BY <2>6, SendTypes DEF GrantLogout
    <3>3. cookie' = 0 /\ renewable' = FALSE /\ stored' = Absent /\ 0 \in 0..AccessLife
      BY <2>6 DEF GrantLogout, PolicyAssumption
    <3>4. /\ mem' \in [Tabs -> 0..AccessLife]
          /\ idle' \in [Tabs -> 0..Limit] /\ touched' \in [Tabs -> 0..TouchEvery]
      BY <2>6 DEF TypeOK, GrantLogout, Leave
    <3>5. /\ inside' \subseteq Tabs /\ asleep' \subseteq Tabs /\ rejected' \subseteq Tabs
          /\ warned' \subseteq Tabs /\ open' \subseteq Tabs
          /\ vouched' \subseteq Tabs /\ slept' \subseteq Tabs
      BY <2>6 DEF TypeOK, GrantLogout, Leave
    <3>. QED
      BY <3>1, <3>2, <3>3, <3>4, <3>5 DEF TypeOK
  <2>. QED
    BY <1>9, <2>1, <2>2, <2>3, <2>4, <2>5, <2>6 DEF Grant
<1>10. ASSUME NEW t \in Tabs, Deny(t) PROVE TypeOK'
  BY <1>10, ProceedTypes DEF TypeOK, Deny, NoCall, Phases, cookies, clocks, history
<1>11. ASSUME NEW t \in Tabs, Renewing(t), Renewed(t) PROVE call' \in [Tabs -> Calls]
  BY <1>11, SendTypes, ProceedTypes DEF Renewing, Renewed, NoCall, Phases
<1>12. ASSUME NEW t \in Tabs, Reuse(t) PROVE TypeOK'
  BY <1>11, <1>12 DEF TypeOK, Reuse, Cleared, cookies, clocks, history
<1>13. ASSUME NEW t \in Tabs, Renew(t) PROVE TypeOK'
  BY <1>11, <1>13 DEF TypeOK, Renew, NewTokens, Dead, clocks, history
<1>14. ASSUME NEW t \in Tabs, row' \in 0..Dead, Bounce(t) PROVE TypeOK'
  BY <1>14, SendTypes DEF TypeOK, Bounce, StartWarning, cookies
<1>15. ASSUME NEW t \in Tabs, row' \in 0..Dead, FailTouch(t) PROVE TypeOK'
  <2>1. call' \in [Tabs -> Calls]
    BY <1>15, SendTypes, ProceedTypes DEF FailTouch, NoCall, Phases
  <2>. QED
    BY <1>15, <2>1 DEF TypeOK, FailTouch, cookies, clocks
<1>16. ASSUME NEW t \in Tabs, row' \in 0..Dead, GiveUp(t) \/ Forget(t) PROVE TypeOK'
  BY <1>16, SendTypes DEF TypeOK, GiveUp, Forget, Leave, Absent
<1>17. ASSUME NEW t \in Tabs, row' \in 0..Dead, Shrug(t) PROVE TypeOK'
  BY <1>17, SendTypes DEF TypeOK, Shrug, cookies, clocks
<1>18. ASSUME NEW t \in Tabs, Refuse(t) PROVE TypeOK'
  BY <1>14, <1>15, <1>16, <1>18 DEF Refuse, TypeOK
<1>19. ASSUME NEW t \in Tabs, Lose(t) PROVE TypeOK'
  <2>1. row' \in 0..Dead
    BY <1>19 DEF Lose, DoneUnheard, TypeOK, Dead
  <2>. QED
    BY <1>14, <1>15, <1>16, <1>17, <1>19, <2>1 DEF Lose
<1>20. ASSUME NEW t \in Tabs, Sleep(t) \/ Wake(t) PROVE TypeOK'
  BY <1>20 DEF TypeOK, Sleep, Wake, cookies, clocks, history
<1>21. ASSUME Tick PROVE TypeOK'
  <2>1. ASSUME NEW t \in Tabs PROVE Fires(t) \subseteq Calls
    <3>1. /\ Request("poll", "try", FALSE) \in Calls
          /\ Request("profile", "try", FALSE) \in Calls
          /\ Request("timer", "renew", FALSE) \in Calls
      BY DEF Request, Kinds, Phases, Calls
    <3>2. NoCall \in Calls
      BY DEF Calls
    <3>. QED
      BY <3>1, <3>2 DEF Fires
  <2>2. call' \in [Tabs -> Calls]
    BY <1>21, <2>1 DEF Tick
  <2>3. row' \in 0..Dead /\ cookie' \in 0..AccessLife
    BY <1>21 DEF Tick, TypeOK, Older, Younger, Dead
  <2>4. stored' \in {Absent} \cup 0..AccessLife
    BY <1>21 DEF Tick, TypeOK, Younger, Absent
  <2>5. mem' \in [Tabs -> 0..AccessLife]
    BY <1>21 DEF Tick, TypeOK, Younger
  <2>6. idle' \in [Tabs -> 0..Limit] /\ touched' \in [Tabs -> 0..TouchEvery]
    BY <1>21 DEF Tick, TypeOK, Older
  <2>. QED
    BY <1>21, <2>2, <2>3, <2>4, <2>5, <2>6 DEF TypeOK, Tick, history
<1>22. ASSUME UNCHANGED vars PROVE TypeOK'
  BY <1>22 DEF TypeOK, vars, cookies, clocks, history
<1>. QED
  BY <1>1, <1>2, <1>3, <1>4, <1>5, <1>6, <1>7, <1>8, <1>9, <1>10, <1>12, <1>13, <1>18, <1>19,
     <1>20, <1>21, <1>22 DEF Next, UserActs, Answer

(* Types, of every variable of the tabs, the browser and the server.       *)
THEOREM TypeCorrect == Spec => []TypeOK
BY TypeInit, TypeStep, PTL DEF Spec

-------------------------------------------------------------------------------
(* What one step leaves alone.                                             *)

(* What a step of tab t does to the call of t.                             *)
LEMMA DoneCall ==
  ASSUME TypeOK, NEW t \in Tabs, Done(t)
  PROVE  call'[t] = NoCall /\ \A s \in Tabs \ {t} : call'[s] = call[s]
BY DEF Done, TypeOK

LEMMA SentCall ==
  ASSUME TypeOK, NEW t \in Tabs, NEW kind \in Kinds, Send(t, kind) \/ SendTouch(t, kind)
  PROVE  /\ call'[t].kind = kind /\ call'[t].phase = "try"
         /\ SendTouch(t, kind) => call'[t].early = Early(t)
         /\ \A s \in Tabs \ {t} : call'[s] = call[s]
<1>1. ASSUME NEW early, call' = [call EXCEPT ![t] = Request(kind, "try", early)]
      PROVE  /\ call'[t].kind = kind /\ call'[t].phase = "try" /\ call'[t].early = early
             /\ \A s \in Tabs \ {t} : call'[s] = call[s]
  BY <1>1 DEF Request, TypeOK
<1>2. Send(t, kind) => call' = [call EXCEPT ![t] = Request(kind, "try", FALSE)]
  BY DEF Send
<1>3. SendTouch(t, kind) => call' = [call EXCEPT ![t] = Request(kind, "try", Early(t))]
  BY DEF SendTouch
<1> HIDE DEF Send, SendTouch
<1>. QED
  BY <1>1, <1>2, <1>3

LEMMA ProceededCall ==
  ASSUME TypeOK, NEW t \in Tabs, NEW phase \in Phases, Proceed(t, phase)
  PROVE  /\ call'[t].kind = call[t].kind /\ call'[t].phase = phase
         /\ call'[t].early = call[t].early
         /\ \A s \in Tabs \ {t} : call'[s] = call[s]
<1>1. call[t] \in {NoCall} \cup [kind : Kinds, phase : Phases, early : BOOLEAN]
  BY DEF TypeOK, Calls
<1>2. call[t] = [kind |-> call[t].kind, phase |-> call[t].phase, early |-> call[t].early]
  BY <1>1 DEF NoCall
<1>3. call' = [call EXCEPT ![t] = [call[t] EXCEPT !.phase = phase]]
  BY DEF Proceed
<1>. QED
  BY <1>2, <1>3 DEF TypeOK

(* A step of t leaves the other tabs alone, but for the logout that ends   *)
(* their session, and never makes the row of the server older.             *)
Alone(s) ==
  /\ call'[s] = call[s] /\ idle'[s] = idle[s] /\ touched'[s] = touched[s]
  /\ s \in inside' <=> s \in inside
  /\ s \in asleep' <=> s \in asleep
  /\ s \in warned' <=> s \in warned
  /\ s \in open' <=> s \in open
  /\ s \in slept' <=> s \in slept
  /\ s \in vouched' => s \in vouched

TabStep(t) ==
  \/ Login(t) \/ Boot(t) \/ CloseTab(t) \/ Input(t) \/ Work(t) \/ Continue(t) \/ SignOut(t)
  \/ Watch(t) \/ Answer(t) \/ Lose(t) \/ Sleep(t) \/ Wake(t)

LEMMA Steps == [Next]_vars => (\E t \in Tabs : TabStep(t)) \/ Tick \/ UNCHANGED vars
BY DEF Next, UserActs, TabStep

LEMMA OthersAlone ==
  ASSUME TypeOK, NEW t \in Tabs, TabStep(t), NEW s \in Tabs \ {t}
  PROVE  Alone(s)
<1> USE DEF cookies, clocks, history
<1>1. Login(t) => Alone(s)
  BY DEF TypeOK, Login, Enter, Alone
<1>2. Boot(t) => Alone(s)
  BY SentCall DEF TypeOK, Boot, Kinds, Alone
<1>3. CloseTab(t) => Alone(s)
  BY DEF TypeOK, CloseTab, Leave, Alone
<1>4. Bump(t) => /\ call'[s] = call[s] /\ idle'[s] = idle[s] /\ touched'[s] = touched[s]
                 /\ s \in warned' <=> s \in warned
                 /\ s \in open' <=> s \in open
                 /\ s \in slept' <=> s \in slept
  BY DoneCall, SentCall DEF TypeOK, Bump, Kinds
<1>5. Input(t) => Alone(s)
  BY <1>4 DEF Input, Alone
<1>6. Work(t) => Alone(s)
  BY SentCall DEF Work, Kinds, Alone
<1>7. Continue(t) => Alone(s)
  BY SentCall DEF TypeOK, Continue, Kinds, Alone
<1>8. SignOut(t) => Alone(s)
  BY SentCall DEF SignOut, Kinds, Alone
<1>9. Watch(t) => Alone(s)
  BY SentCall DEF TypeOK, Watch, ShowWarning, WarnOnce, Expire, StartWarning, Kinds, Alone
<1>10. Grant(t) => Alone(s)
  BY <1>4, DoneCall DEF TypeOK, Grant, GrantTouch, GrantWork, GrantPoll, GrantProfile, GrantBoot,
     GrantLogout, Enter, Leave, Alone
<1>11. Deny(t) => Alone(s)
  BY ProceededCall DEF Deny, Phases, Alone
<1>12. Reuse(t) \/ Renew(t) => Alone(s)
  BY DoneCall, ProceededCall DEF Reuse, Renew, Renewed, NewTokens, Phases, Alone
<1>13. Bounce(t) => Alone(s)
  BY DoneCall DEF TypeOK, Bounce, StartWarning, Alone
<1>14. FailTouch(t) => Alone(s)
  BY DoneCall, ProceededCall DEF FailTouch, Phases, Alone
<1>15. GiveUp(t) \/ Forget(t) => Alone(s)
  BY DoneCall DEF TypeOK, GiveUp, Forget, Leave, Alone
<1>16. Shrug(t) => Alone(s)
  BY DoneCall DEF Shrug, Alone
<1>17. Sleep(t) \/ Wake(t) => Alone(s)
  BY DEF Sleep, Wake, Alone
<1>. QED
  BY <1>1, <1>2, <1>3, <1>5, <1>6, <1>7, <1>8, <1>9, <1>10, <1>11, <1>12, <1>13, <1>14, <1>15,
     <1>16, <1>17 DEF TabStep, Answer, Refuse, Lose

LEMMA RowNoOlder ==
  ASSUME TypeOK, NEW t \in Tabs, TabStep(t)
  PROVE  row' \in {row, 0} \/ vouched' = {}
<1> USE DEF cookies, clocks, history
<1>1. Lose(t) => row' \in {row, 0} \/ vouched' = {}
  BY DEF Lose, DoneUnheard, Asking, Renewing, Shrug, Forget, FailTouch
<1>2. Grant(t) => row' \in {row, 0} \/ vouched' = {}
  BY DEF Grant, GrantTouch, GrantWork, GrantPoll, GrantProfile, GrantBoot, GrantLogout
<1>3. Answer(t) /\ ~Grant(t) => row' \in {row, 0}
  BY DEF Answer, Deny, Reuse, Renew, NewTokens, Refuse
<1>. QED
  BY <1>1, <1>2, <1>3 DEF TabStep, Login, NewTokens, Boot, CloseTab, Input, Work, Continue, SignOut,
     Watch, ShowWarning, WarnOnce, Expire, Sleep, Wake

-------------------------------------------------------------------------------
(* Whose calls they are: only a tab that shows nothing asks who is signed  *)
(* in, only a tab that shows the console asks for anything else, a frozen  *)
(* tab has no call out, and only Continue refreshes of its own.            *)
Belongs(s) ==
  /\ call[s].kind = "boot" => s \notin inside
  /\ call[s].kind \notin {"none", "boot"} => s \in inside
  /\ s \in vouched => s \in inside
  /\ s \in asleep => call[s] = NoCall
  /\ call[s].phase = "again" => call[s].kind = "continue"

LEMMA BelongsOwn ==
  ASSUME TypeOK, NEW t \in Tabs, Belongs(t), TabStep(t)
  PROVE  Belongs(t)'
<1> USE DEF cookies, clocks, history, Belongs
<1>0. NoCall.kind = "none" /\ NoCall.phase = "none"
  BY DEF NoCall
<1>1. Login(t) => Belongs(t)'
  BY <1>0 DEF TypeOK, Login, Enter
<1>2. Boot(t) => Belongs(t)'
  BY SentCall DEF TypeOK, Boot, Kinds
<1>3. CloseTab(t) => Belongs(t)'
  BY <1>0 DEF TypeOK, CloseTab, Leave, Present
<1>4. Bump(t) => call'[t] = NoCall \/ (call'[t].kind = "touch" /\ call'[t].phase = "try")
  BY DoneCall, SentCall DEF Bump, Kinds
<1>5. Input(t) => Belongs(t)'
  BY <1>0, <1>4 DEF Input, Present
<1>6. Work(t) => Belongs(t)'
  BY SentCall DEF Work, Kinds, Present
<1>7. Continue(t) => Belongs(t)'
  BY SentCall DEF Continue, Kinds, Present
<1>8. SignOut(t) => Belongs(t)'
  BY SentCall DEF SignOut, Kinds, Present
<1>9. Watch(t) => Belongs(t)'
  BY <1>0, SentCall DEF Watch, ShowWarning, WarnOnce, Expire, StartWarning, Kinds, Present
<1>10. Grant(t) => Belongs(t)'
  <2>1. GrantTouch(t) \/ GrantPoll(t) \/ GrantProfile(t) => Belongs(t)'
    BY <1>0, DoneCall DEF GrantTouch, GrantPoll, GrantProfile, Asking
  <2>2. GrantWork(t) => Belongs(t)'
    BY <1>0, <1>4 DEF GrantWork, Asking
  <2>3. GrantBoot(t) => Belongs(t)'
    BY <1>0, DoneCall DEF GrantBoot, Enter, Asking
  <2>4. GrantLogout(t) => Belongs(t)'
    BY <1>0, DoneCall DEF GrantLogout, Leave, Asking
  <2>. QED
    BY <2>1, <2>2, <2>3, <2>4 DEF Grant
<1>11. Deny(t) => Belongs(t)'
  BY <1>0, ProceededCall DEF Deny, Phases
<1>12. Renewing(t) /\ Renewed(t) =>
         call'[t] = NoCall \/ (call'[t].kind = call[t].kind /\ call'[t].phase = "retry")
  BY DoneCall, ProceededCall DEF Renewed, Phases
<1>13. Reuse(t) \/ Renew(t) => Belongs(t)'
  BY <1>0, <1>12 DEF Reuse, Renew, NewTokens, Renewing
<1>14. Bounce(t) => Belongs(t)'
  BY <1>0, DoneCall DEF TypeOK, Bounce
<1>15. FailTouch(t) => Belongs(t)'
  BY <1>0, DoneCall, ProceededCall DEF FailTouch, Phases
<1>16. GiveUp(t) \/ Forget(t) => Belongs(t)'
  BY <1>0, DoneCall DEF TypeOK, GiveUp, Forget, Leave
<1>17. Shrug(t) => Belongs(t)'
  BY <1>0, DoneCall DEF Shrug
<1>18. Sleep(t) \/ Wake(t) => Belongs(t)'
  BY <1>0 DEF Sleep, Wake, Present
<1>. QED
  BY <1>1, <1>2, <1>3, <1>5, <1>6, <1>7, <1>8, <1>9, <1>10, <1>11, <1>13, <1>14, <1>15, <1>16,
     <1>17, <1>18 DEF TabStep, Answer, Refuse, Lose

(* The calls a tick starts are those of the timers of a tab that is awake. *)
LEMMA TickCalls ==
  ASSUME Tick, NEW s \in Tabs
  PROVE  /\ call[s] = NoCall
         /\ \/ call'[s] = NoCall
            \/ /\ s \in inside \ asleep
               /\ call'[s].kind \in {"poll", "profile", "timer"}
               /\ call'[s].phase \in {"try", "renew"}
<1>1. call[s] = NoCall /\ call'[s] \in Fires(s)
  BY DEF Tick
<1>2. s \notin inside \ asleep => call'[s] = NoCall
  BY <1>1 DEF Fires
<1>3. s \in inside \ asleep =>
        call'[s] \in {Request("poll", "try", FALSE), Request("profile", "try", FALSE),
                      Request("timer", "renew", FALSE), NoCall}
  BY <1>1 DEF Fires
<1>4. \A c \in {Request("poll", "try", FALSE), Request("profile", "try", FALSE),
                Request("timer", "renew", FALSE)} :
        c.kind \in {"poll", "profile", "timer"} /\ c.phase \in {"try", "renew"}
  BY DEF Request
<1>. QED
  BY <1>1, <1>2, <1>3, <1>4

LEMMA BelongsInit == Init => \A s \in Tabs : Belongs(s)
BY DEF Init, Belongs, NoCall

LEMMA BelongsStep ==
  TypeOK /\ (\A s \in Tabs : Belongs(s)) /\ [Next]_vars => (\A s \in Tabs : Belongs(s))'
<1> SUFFICES ASSUME TypeOK, \A s \in Tabs : Belongs(s), [Next]_vars, NEW s \in Tabs
             PROVE  Belongs(s)'
  OBVIOUS
<1>1. ASSUME NEW t \in Tabs, TabStep(t) PROVE Belongs(s)'
  <2>1. CASE s = t
    BY <1>1, <2>1, BelongsOwn
  <2>2. CASE s # t
    BY <1>1, <2>2, OthersAlone DEF Alone, Belongs
  <2>. QED
    BY <2>1, <2>2
<1>2. Tick => Belongs(s)'
  BY TickCalls DEF Tick, history, Belongs, NoCall
<1>3. UNCHANGED vars => Belongs(s)'
  BY DEF vars, cookies, clocks, history, Belongs
<1>. QED
  BY <1>1, <1>2, <1>3, Steps

-------------------------------------------------------------------------------
(* Why a live session is heard in time: the row of a vouched tab is never  *)
(* older than its last touch while that is recent, and else no older than  *)
(* its last activity by more than TouchEvery.                              *)
Kept(s) ==
  s \in vouched =>
    /\ call[s].phase # "again"
    /\ call[s].kind \in {"touch", "continue"} => (call[s].early => RowLive)
    /\ call[s].kind \notin {"touch", "continue"} =>
         /\ row <= idle[s] + TouchEvery
         /\ touched[s] < TouchEvery => row <= touched[s]

LEMMA Numbers ==
  ASSUME TypeOK, NEW s \in Tabs
  PROVE  /\ row \in Nat /\ row <= Limit + 1 /\ Limit \in Nat /\ TouchEvery \in Nat /\ TouchEvery >= 1
         /\ idle[s] \in Nat /\ idle[s] <= Limit
         /\ touched[s] \in Nat /\ touched[s] <= TouchEvery
BY PolicyAssumption DEF PolicyAssumption, TypeOK, Dead

(* As long as the row gets no older and the clocks of the tab stay.        *)
LEMMA KeptSteady ==
  ASSUME TypeOK, NEW s \in Tabs, Kept(s), row' \in {row, 0},
         s \in vouched' => s \in vouched,
         idle'[s] = idle[s], touched'[s] = touched[s],
         call'[s].phase # "again",
         \/ /\ call'[s].kind = call[s].kind /\ call'[s].early = call[s].early
         \/ /\ call[s].kind \notin {"touch", "continue"}
            /\ call'[s].kind \notin {"touch", "continue"}
  PROVE  Kept(s)'
BY Numbers DEF Kept, RowLive

(* A row that is new keeps everybody.                                      *)
LEMMA KeptNew ==
  ASSUME TypeOK, TypeOK', NEW s \in Tabs, row' = 0, call'[s].phase # "again"
  PROVE  Kept(s)'
<1>1. idle'[s] \in Nat /\ touched'[s] \in Nat /\ Limit \in Nat /\ TouchEvery \in Nat
  BY PolicyAssumption DEF PolicyAssumption, TypeOK
<1>. QED
  BY <1>1 DEF Kept, RowLive
LEMMA KeptOwn ==
  ASSUME TypeOK, TypeOK', NEW t \in Tabs, Belongs(t), Kept(t), TabStep(t)
  PROVE  Kept(t)'
<1> USE DEF cookies, clocks, history
<1>0. NoCall.kind = "none" /\ NoCall.phase = "none"
  BY DEF NoCall
<1>1. Login(t) => Kept(t)'
  BY <1>0, KeptNew DEF Login, NewTokens
<1>2. Boot(t) => Kept(t)'
  BY <1>0, SentCall, KeptSteady DEF Boot, Kinds
<1>3. t \notin vouched' => Kept(t)'
  BY DEF Kept
<1>4. ASSUME Bump(t), row' = row, vouched' = vouched, call[t].kind \notin {"touch", "continue"}
      PROVE  Kept(t)'
  <2>1. CASE t \in open
    BY <1>0, <1>4, <2>1, DoneCall, KeptSteady DEF Bump
  <2>2. CASE t \notin open /\ touched[t] < TouchEvery
    <3>1. call'[t] = NoCall /\ idle'[t] = 0 /\ touched'[t] = touched[t]
      BY <1>4, <2>2, DoneCall DEF Bump, TypeOK
    <3>. QED
      BY <1>0, <1>4, <2>2, <3>1, Numbers DEF Kept
  <2>3. CASE t \notin open /\ ~(touched[t] < TouchEvery)
    <3>1. SendTouch(t, "touch")
      BY <1>4, <2>3 DEF Bump
    <3>2. call'[t].kind = "touch" /\ call'[t].phase = "try" /\ call'[t].early = Early(t)
      BY <3>1, SentCall DEF Kinds
    <3>3. t \in vouched /\ Early(t) => row' <= Limit
      BY <1>4, Numbers DEF Kept, Early
    <3>. QED
      BY <1>4, <3>2, <3>3 DEF Kept, RowLive
  <2>. QED
    BY <2>1, <2>2, <2>3
<1>5. Input(t) => Kept(t)'
  BY <1>0, <1>4 DEF Input, Present
<1>6. Work(t) => Kept(t)'
  BY <1>0, SentCall, KeptSteady DEF Work, Present, Kinds
<1>7. Continue(t) => Kept(t)'
  <2> SUFFICES ASSUME Continue(t) PROVE Kept(t)'
    OBVIOUS
  <2>1. SendTouch(t, "continue") /\ call[t] = NoCall /\ row' = row /\ vouched' = vouched
    BY DEF Continue, Present
  <2>2. call'[t].kind = "continue" /\ call'[t].phase = "try" /\ call'[t].early = Early(t)
    BY <2>1, SentCall DEF Kinds
  <2>3. t \in vouched /\ Early(t) => row' <= Limit
    BY <1>0, <2>1, Numbers DEF Kept, Early
  <2>. QED
    BY <2>1, <2>2, <2>3 DEF Kept, RowLive
<1>8. SignOut(t) => Kept(t)'
  BY <1>0, SentCall, KeptSteady DEF SignOut, Present, Kinds
<1>9. Watch(t) => Kept(t)'
  BY <1>0, <1>3, SentCall, KeptSteady DEF Watch, ShowWarning, WarnOnce, Expire, StartWarning, Present, Kinds
<1>10. Grant(t) => Kept(t)'
  <2>1. GrantTouch(t) => Kept(t)'
    BY <1>0, DoneCall, KeptNew DEF GrantTouch
  <2>2. GrantWork(t) => Kept(t)'
    BY <1>4 DEF GrantWork, Asking
  <2>3. GrantPoll(t) \/ GrantProfile(t) => Kept(t)'
    BY <1>0, DoneCall, KeptSteady DEF GrantPoll, GrantProfile, Asking
  <2>4. GrantBoot(t) => Kept(t)'
    BY <1>3 DEF GrantBoot, Asking, Belongs
  <2>5. GrantLogout(t) => Kept(t)'
    BY <1>3 DEF GrantLogout
  <2>. QED
    BY <2>1, <2>2, <2>3, <2>4, <2>5 DEF Grant
<1>11. Deny(t) => Kept(t)'
  BY ProceededCall, KeptSteady DEF Deny, Phases
<1>12. Reuse(t) => Kept(t)'
  <2>1. CASE call[t].phase = "again"
    BY <1>3, <2>1 DEF Reuse, Kept
  <2>2. CASE call[t].phase # "again" /\ call[t].kind = "timer"
    BY <1>0, <2>2, DoneCall, KeptSteady DEF Reuse, Renewed
  <2>3. CASE call[t].phase # "again" /\ call[t].kind # "timer"
    BY <2>3, ProceededCall, KeptSteady DEF Reuse, Renewed, Phases
  <2>. QED
    BY <2>1, <2>2, <2>3
<1>13. Renew(t) => Kept(t)'
  BY <1>0, DoneCall, ProceededCall, KeptNew DEF Renew, Renewed, NewTokens, Phases
<1>14. ASSUME row' \in {row, 0}, Bounce(t) PROVE Kept(t)'
  <2>1. CASE t \notin rejected \cup warned
    BY <1>3, <1>14, <2>1 DEF Bounce
  <2>2. CASE t \in rejected \cup warned
    BY <1>0, <1>14, <2>2, DoneCall, KeptSteady DEF Bounce
  <2>. QED
    BY <2>1, <2>2
<1>15. ASSUME row' \in {row, 0}, FailTouch(t) PROVE Kept(t)'
  <2>1. CASE call[t].kind = "timer"
    BY <1>0, <1>15, <2>1, DoneCall, KeptSteady DEF FailTouch
  <2>2. CASE call[t].kind # "timer"
    BY <1>3, <1>15, <2>2 DEF FailTouch
  <2>. QED
    BY <2>1, <2>2
<1>16. GiveUp(t) \/ Forget(t) => Kept(t)'
  BY <1>3 DEF GiveUp, Forget
<1>17. row' \in {row, 0} /\ Shrug(t) => Kept(t)'
  BY <1>0, DoneCall, KeptSteady DEF Shrug
<1>18. Refuse(t) => Kept(t)'
  BY <1>14, <1>15, <1>16 DEF Refuse
<1>19. Lose(t) => Kept(t)'
  <2>1. row' \in {row, 0} \/ vouched' = {}
    BY RowNoOlder
  <2>. QED
    BY <1>3, <1>14, <1>15, <1>16, <1>17, <2>1 DEF Lose
<1>20. Sleep(t) \/ Wake(t) => Kept(t)'
  BY <1>0, KeptSteady DEF Sleep, Wake, Present, Kept
<1>21. Answer(t) => Kept(t)'
  BY <1>10, <1>11, <1>12, <1>13, <1>18 DEF Answer
<1>22. CloseTab(t) => Kept(t)'
  BY <1>3 DEF CloseTab
<1>. QED
  BY <1>1, <1>2, <1>5, <1>6, <1>7, <1>8, <1>9, <1>19, <1>20, <1>21, <1>22 DEF TabStep

LEMMA KeptTick ==
  ASSUME TypeOK, NEW s \in Tabs, Belongs(s), Kept(s), Tick
  PROVE  Kept(s)'
<1> SUFFICES ASSUME s \in vouched PROVE Kept(s)'
  BY DEF Tick, history, Kept
<1>1. s \in inside
  BY DEF Belongs
<1>2. call'[s].kind \notin {"touch", "continue"} /\ call'[s].phase # "again"
  BY TickCalls DEF NoCall
<1>3. row <= idle[s] + TouchEvery /\ (touched[s] < TouchEvery => row <= touched[s])
  BY TickCalls DEF Kept, NoCall
<1>4. row' = Older(row, Dead) /\ idle'[s] = Older(idle[s], Limit) /\ touched'[s] = Older(touched[s], TouchEvery)
  BY <1>1 DEF Tick
<1>5. row' <= idle'[s] + TouchEvery
  BY <1>3, <1>4, Numbers DEF Older, Dead
<1>6. touched'[s] < TouchEvery => row' <= touched'[s]
  BY <1>3, <1>4, Numbers DEF Older, Dead
<1>. QED
  BY <1>2, <1>5, <1>6 DEF Kept

LEMMA KeptStep ==
  TypeOK /\ TypeOK' /\ (\A s \in Tabs : Belongs(s) /\ Kept(s)) /\ [Next]_vars
    => (\A s \in Tabs : Kept(s))'
<1> SUFFICES ASSUME TypeOK, TypeOK', \A s \in Tabs : Belongs(s) /\ Kept(s), [Next]_vars, NEW s \in Tabs
             PROVE  Kept(s)'
  OBVIOUS
<1>1. ASSUME NEW t \in Tabs, TabStep(t) PROVE Kept(s)'
  <2>1. CASE s = t
    BY <1>1, <2>1, KeptOwn
  <2>2. CASE s # t /\ vouched' = {}
    BY <2>2 DEF Kept
  <2>3. CASE s # t /\ row' \in {row, 0}
    <3>1. Alone(s)
      BY <1>1, <2>3, OthersAlone
    <3>2. CASE s \in vouched
      BY <2>3, <3>1, <3>2, KeptSteady DEF Alone, Kept
    <3>3. CASE s \notin vouched
      BY <3>1, <3>3 DEF Alone, Kept
    <3>. QED
      BY <3>2, <3>3
  <2>. QED
    BY <1>1, <2>1, <2>2, <2>3, RowNoOlder
<1>2. Tick => Kept(s)'
  BY KeptTick
<1>3. UNCHANGED vars => Kept(s)'
  BY DEF vars, clocks, history, Kept, RowLive
<1>. QED
  BY <1>1, <1>2, <1>3, Steps

(* A live session is heard in time, for any number of tabs, any idle       *)
(* policy, any messages lost and any tabs frozen.                          *)
THEOREM HeardInTimeAlways == Spec => []HeardInTime
<1> DEFINE Inv == TypeOK /\ \A s \in Tabs : Belongs(s) /\ Kept(s)
<1>1. Init => Inv
  BY TypeInit, BelongsInit DEF Init, Kept
<1>2. Inv /\ [Next]_vars => Inv'
  BY TypeStep, BelongsStep, KeptStep
<1>3. Inv => HeardInTime
  BY DEF HeardInTime, Kept, TypeOK
<1>. QED
  BY <1>1, <1>2, <1>3, PTL DEF Spec

-------------------------------------------------------------------------------
(* Why nobody is signed out unwarned: a tab that was warned, has no        *)
(* countdown on the screen and was not frozen since is awake and its clock *)
(* has not run out.                                                        *)
Noticed(s) ==
  s \in inside /\ s \in warned /\ s \notin open /\ s \notin slept
    /\ call[s].kind \notin {"signout", "expire"} => s \notin asleep /\ idle[s] < Limit

LEMMA NoticedOwn ==
  ASSUME TypeOK, NEW t \in Tabs, Belongs(t), Noticed(t), TabStep(t)
  PROVE  Noticed(t)'
<1> USE DEF cookies, clocks, history
<1>0. NoCall.kind = "none" /\ 0 < Limit
  BY PolicyAssumption DEF PolicyAssumption, NoCall
<1>1. t \notin warned' \/ t \in open' \/ t \notin inside' => Noticed(t)'
  BY DEF Noticed
<1>2. Login(t) \/ CloseTab(t) => Noticed(t)'
  BY <1>1 DEF Login, CloseTab, Enter, Leave
<1>3. Boot(t) => Noticed(t)'
  BY <1>1 DEF Boot
<1>4. ASSUME Bump(t) PROVE t \notin warned' \/ t \in open'
  BY <1>4 DEF Bump
<1>5. Input(t) => Noticed(t)'
  BY <1>1, <1>4 DEF Input
<1>6. ASSUME UNCHANGED <<inside, asleep, clocks>>, slept' = slept,
             call[t].kind \notin {"signout", "expire"}
      PROVE  Noticed(t)'
  BY <1>6 DEF Noticed
<1>7. Work(t) => Noticed(t)'
  BY <1>0, <1>6 DEF Work, Present
<1>8. Continue(t) => Noticed(t)'
  <2> SUFFICES ASSUME Continue(t) PROVE Noticed(t)'
    OBVIOUS
  <2>1. idle'[t] = 0 /\ t \notin asleep'
    BY DEF Continue, Present, TypeOK
  <2>. QED
    BY <1>0, <2>1 DEF Noticed
<1>9. SignOut(t) => Noticed(t)'
  BY SentCall DEF SignOut, Kinds, Noticed
<1>10. ShowWarning(t) \/ WarnOnce(t) => Noticed(t)'
  BY <1>1 DEF ShowWarning, WarnOnce, StartWarning
<1>11. Expire(t) => Noticed(t)'
  BY SentCall DEF Expire, Kinds, Noticed
<1>12. Grant(t) => Noticed(t)'
  <2>1. GrantTouch(t) \/ GrantPoll(t) \/ GrantProfile(t) => Noticed(t)'
    BY <1>6 DEF GrantTouch, GrantPoll, GrantProfile, Asking
  <2>2. GrantWork(t) => Noticed(t)'
    BY <1>1, <1>4 DEF GrantWork
  <2>3. GrantBoot(t) \/ GrantLogout(t) => Noticed(t)'
    BY <1>1 DEF GrantBoot, GrantLogout, Enter, Leave
  <2>. QED
    BY <2>1, <2>2, <2>3 DEF Grant
<1>13. ASSUME UNCHANGED <<inside, asleep, clocks>>, slept' = slept, call'[t].kind = call[t].kind
       PROVE  Noticed(t)'
  BY <1>13 DEF Noticed
<1>14. Deny(t) => Noticed(t)'
  BY <1>13, ProceededCall DEF Deny, Phases
<1>15. Reuse(t) \/ Renew(t) => Noticed(t)'
  <2> SUFFICES ASSUME Reuse(t) \/ Renew(t) PROVE Noticed(t)'
    OBVIOUS
  <2>1. CASE call[t].phase = "again" \/ call[t].kind = "timer"
    BY <1>6, <2>1 DEF Reuse, Renew, Belongs
  <2>2. CASE ~(call[t].phase = "again" \/ call[t].kind = "timer")
    <3>1. Proceed(t, "retry")
      BY <2>2 DEF Reuse, Renew, Renewed
    <3>. QED
      BY <1>13, <3>1, ProceededCall DEF Reuse, Renew, Phases
  <2>. QED
    BY <2>1, <2>2
<1>16. Bounce(t) => Noticed(t)'
  <2> SUFFICES ASSUME Bounce(t) PROVE Noticed(t)'
    OBVIOUS
  <2>1. CASE t \notin rejected \cup warned
    BY <1>1, <2>1 DEF Bounce, StartWarning
  <2>2. CASE t \in rejected \cup warned
    BY <1>6, <2>2 DEF Bounce
  <2>. QED
    BY <2>1, <2>2
<1>17. FailTouch(t) => Noticed(t)'
  BY <1>6 DEF FailTouch
<1>18. GiveUp(t) \/ Forget(t) => Noticed(t)'
  BY <1>1 DEF GiveUp, Forget, Leave
<1>19. Shrug(t) => Noticed(t)'
  BY <1>6 DEF Shrug
<1>20. Sleep(t) => Noticed(t)'
  BY DEF Sleep, Noticed
<1>21. Wake(t) => Noticed(t)'
  BY DEF Wake, Noticed
<1>22. Watch(t) => Noticed(t)'
  BY <1>10, <1>11 DEF Watch
<1>23. Answer(t) => Noticed(t)'
  BY <1>12, <1>14, <1>15, <1>16, <1>17, <1>18 DEF Answer, Refuse
<1>24. Lose(t) => Noticed(t)'
  BY <1>16, <1>17, <1>18, <1>19 DEF Lose
<1>. QED
  BY <1>2, <1>3, <1>5, <1>7, <1>8, <1>9, <1>20, <1>21, <1>22, <1>23, <1>24 DEF TabStep

LEMMA NoticedTick ==
  ASSUME TypeOK, NEW s \in Tabs, Noticed(s), Tick
  PROVE  Noticed(s)'
<1> SUFFICES ASSUME s \in inside, s \in warned, s \notin open, s \notin slept
             PROVE  s \notin asleep /\ idle'[s] < Limit
  BY DEF Tick, history, Noticed
<1>1. s \notin asleep
  BY TickCalls DEF Noticed, NoCall
<1>2. ~WatchDue(s) /\ idle'[s] = Older(idle[s], Limit)
  BY DEF Tick
<1>3. Limit - idle[s] > Warn
  BY <1>1, <1>2, Numbers, PolicyAssumption DEF PolicyAssumption, WatchDue
<1>. QED
  BY <1>1, <1>2, <1>3, Numbers, PolicyAssumption DEF PolicyAssumption, Older

LEMMA NoticedStep ==
  TypeOK /\ (\A s \in Tabs : Belongs(s) /\ Noticed(s)) /\ [Next]_vars
    => (\A s \in Tabs : Noticed(s))'
<1> SUFFICES ASSUME TypeOK, \A s \in Tabs : Belongs(s) /\ Noticed(s), [Next]_vars, NEW s \in Tabs
             PROVE  Noticed(s)'
  OBVIOUS
<1>1. ASSUME NEW t \in Tabs, TabStep(t) PROVE Noticed(s)'
  <2>1. CASE s = t
    BY <1>1, <2>1, NoticedOwn
  <2>2. CASE s # t
    BY <1>1, <2>2, OthersAlone DEF Alone, Noticed
  <2>. QED
    BY <2>1, <2>2
<1>2. Tick => Noticed(s)'
  BY NoticedTick
<1>3. UNCHANGED vars => Noticed(s)'
  BY DEF vars, clocks, history, Noticed
<1>. QED
  BY <1>1, <1>2, <1>3, Steps

(* Only Expire starts a sign-out by the clock, in the tab whose clock ran  *)
(* out.                                                                    *)
LEMMA OnlyExpireExpires ==
  ASSUME TypeOK, [Next]_vars, NEW s \in Tabs, Belongs(s),
         call[s].kind # "expire", call'[s].kind = "expire"
  PROVE  Expire(s)
<1> USE DEF cookies, clocks, history
<1>0. NoCall.kind = "none"
  BY DEF NoCall
<1>1. ASSUME NEW t \in Tabs, TabStep(t) PROVE Expire(s)
  <2>1. s = t
    BY <1>1, OthersAlone DEF Alone
  <2>2. call'[t] # NoCall /\ call'[t] # call[t]
    BY <1>0, <2>1
  <2>3. ~Done(t) /\ \A phase \in Phases : ~Proceed(t, phase)
    BY <2>1, <2>2, DoneCall, ProceededCall
  <2>4. \A kind \in Kinds \ {"expire"} : ~Send(t, kind) /\ ~SendTouch(t, kind)
    BY <2>1, SentCall
  <2>5. ~Bump(t)
    BY <2>3, <2>4 DEF Bump, Kinds
  <2>6. ~Answer(t)
    BY <2>3, <2>5 DEF Answer, Grant, GrantTouch, GrantWork, GrantPoll, GrantProfile, GrantBoot, GrantLogout,
       Deny, Reuse, Renew, Renewed, Refuse, Bounce, FailTouch, GiveUp, Phases
  <2>7. ~Lose(t)
    BY <2>3 DEF Lose, Bounce, FailTouch, GiveUp, Shrug, Forget, Phases
  <2>8. Watch(t)
    BY <1>1, <2>2, <2>4, <2>5, <2>6, <2>7 DEF TabStep, Login, Boot, CloseTab, Input, Work, Continue,
       SignOut, Sleep, Wake, Kinds
  <2>. QED
    BY <2>1, <2>2, <2>8 DEF Watch, ShowWarning, WarnOnce
<1>2. ~Tick
  BY <1>0, TickCalls
<1>3. ~UNCHANGED vars
  BY DEF vars
<1>. QED
  BY <1>1, <1>2, <1>3, Steps

(* Nobody is signed out by the clock without the countdown, for any number *)
(* of tabs and any idle policy, but in a tab frozen after a Continue.      *)
THEOREM WarnedFirstAlways == Spec => WarnedFirst
<1> DEFINE Inv == TypeOK /\ \A s \in Tabs : Belongs(s) /\ Noticed(s)
           Warns == \A t \in Tabs :
             call[t].kind # "expire" /\ call'[t].kind = "expire" => t \in open \cup slept
<1>1. Init => Inv
  BY TypeInit, BelongsInit DEF Init, Noticed
<1>2. Inv /\ [Next]_vars => Inv'
  BY TypeStep, BelongsStep, NoticedStep
<1>3. Inv /\ [Next]_vars => [Warns]_vars
  <2> SUFFICES ASSUME Inv, [Next]_vars, NEW t \in Tabs,
                      call[t].kind # "expire", call'[t].kind = "expire"
               PROVE  t \in open \cup slept
    OBVIOUS
  <2>1. Expire(t)
    BY OnlyExpireExpires
  <2>2. t \in inside /\ t \in warned /\ idle[t] >= Limit /\ call[t].kind = "none"
    BY <2>1 DEF Expire, Present, NoCall
  <2>3. ~(idle[t] < Limit)
    BY <2>2, Numbers
  <2>. QED
    BY <2>2, <2>3 DEF Noticed
<1>. QED
  BY <1>1, <1>2, <1>3, PTL DEF Spec, WarnedFirst
================================================================================
