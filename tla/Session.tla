-------------------------------- MODULE Session --------------------------------
(***************************************************************************)
(* How a session of the console is kept and ended.  Every tab of a browser *)
(* has a clock of its own since the last click or keystroke: it tells the  *)
(* server now and then that somebody is there, warns when nobody seems to  *)
(* be, and signs out.  The server has a clock since it was told; it grants *)
(* ordinary requests by the access token alone, and renews that token, or  *)
(* lets itself be told, only while its own clock has not run out.          *)
(*                                                                         *)
(* Ages are in ticks.  One browser, one user: logins elsewhere are left    *)
(* out, and so is a change of the idle policy during a session.            *)
(***************************************************************************)
EXTENDS Integers

CONSTANTS
  Tabs,        (* tabs of the browser                                      *)
  Limit,       (* sessionIdleMinutes, of the tabs and of the server alike  *)
  Warn,        (* sessionIdleWarnSeconds                                   *)
  TouchEvery,  (* TOUCH_EVERY_MS                                           *)
  AccessLife,  (* AccessTokenDuration                                      *)
  Lead,        (* REFRESH_LEAD_MS                                          *)
  Fresh,       (* leadMs of accessStillFresh                               *)
  Flaky,       (* bound: the tabs whose messages may be lost               *)
  Freezable    (* bound: the tabs that may be frozen                       *)

ASSUME PolicyAssumption ==
  /\ Limit \in Nat /\ Warn \in Nat \ {0} /\ TouchEvery \in Nat \ {0}
  /\ AccessLife \in Nat \ {0} /\ Lead \in Nat /\ Fresh \in Nat
  /\ TouchEvery <= Warn /\ Warn < Limit /\ Fresh <= Lead
  /\ Flaky \subseteq Tabs /\ Freezable \subseteq Tabs

VARIABLES
  row,       (* server: age of RefreshToken.LastSeen, Dead when too old or deleted *)
  cookie,    (* browser: ticks the access cookie has left                  *)
  renewable, (* browser: there is a refresh cookie                         *)
  stored,    (* localStorage: what tokenStore takes the access to have left*)
  inside,    (* tabs that show the console: user # null                    *)
  asleep,    (* tabs that are frozen, or whose computer is                 *)
  mem,       (* accessTokenMemory: ticks the token in memory has left      *)
  idle,      (* age of lastActivity                                        *)
  touched,   (* age of lastTouch; TouchEvery when a touch is due           *)
  warned,    (* warnedThisIdle                                             *)
  open,      (* warningOpen: the countdown is on the screen                *)
  rejected,  (* sessionRejected                                            *)
  call,      (* the request a tab has out                                  *)
  vouched,   (* tabs whose last touch was granted, nobody having signed out since *)
  slept      (* tabs frozen between a Continue and the next input          *)

cookies == <<cookie, renewable, stored>>
clocks  == <<idle, touched, warned, open>>
history == <<vouched, slept>>
vars == <<row, cookies, inside, asleep, mem, clocks, rejected, call, history>>

(* What findLiveRefresh looks for; a row that is too old is as good as     *)
(* deleted, nothing but a login makes another.                             *)
Dead    == Limit + 1
RowLive == row <= Limit
Older(age, most) == IF age < most THEN age + 1 ELSE age
Younger(left)    == IF left > 0 THEN left - 1 ELSE left

(* localStorage without an expiry.                                         *)
Absent == -1
AccessStillFresh == stored > Fresh

(* Requests.  A tab has one out at a time.  phase: the request itself, the *)
(* refresh after a 401, the request again, and the refresh Continue asks   *)
(* for of its own.  early, of the requests that touch the session: it was  *)
(* sent TouchEvery before the idle limit of its tab, or earlier.           *)
Kinds  == {"work", "poll", "profile", "boot", "touch", "continue", "timer", "signout", "expire"}
NoCall == [kind |-> "none", phase |-> "none", early |-> FALSE]
Phases == {"try", "renew", "retry", "again"}
Calls  == {NoCall} \cup [kind : Kinds, phase : Phases, early : BOOLEAN]

Request(kind, phase, early) == [kind |-> kind, phase |-> phase, early |-> early]
Send(t, kind) == call' = [call EXCEPT ![t] = Request(kind, "try", FALSE)]
Early(t) == idle[t] + TouchEvery <= Limit
SendTouch(t, kind) == call' = [call EXCEPT ![t] = Request(kind, "try", Early(t))]
Proceed(t, phase) == call' = [call EXCEPT ![t].phase = phase]
Done(t) == call' = [call EXCEPT ![t] = NoCall]

Present(t) == t \in inside \ asleep /\ call[t] = NoCall

-------------------------------------------------------------------------------
Init ==
  /\ row = Dead /\ cookie = 0 /\ renewable = FALSE /\ stored = Absent
  /\ inside = {} /\ asleep = {}
  /\ mem = [t \in Tabs |-> 0]
  /\ idle = [t \in Tabs |-> 0] /\ touched = [t \in Tabs |-> TouchEvery]
  /\ warned = {} /\ open = {} /\ rejected = {}
  /\ call = [t \in Tabs |-> NoCall]
  /\ vouched = {} /\ slept = {}

(* The effect of AuthProvider that starts the clocks of a tab.             *)
Enter(t) ==
  /\ inside' = inside \cup {t}
  /\ idle' = [idle EXCEPT ![t] = 0] /\ touched' = [touched EXCEPT ![t] = TouchEvery]
  /\ warned' = warned \ {t} /\ open' = open \ {t} /\ slept' = slept \ {t}

(* The tab shows the login page, or nothing: its clocks mean nothing.      *)
Leave(t) ==
  /\ inside' = inside \ {t} /\ slept' = slept \ {t}
  /\ idle' = [idle EXCEPT ![t] = 0] /\ touched' = [touched EXCEPT ![t] = TouchEvery]
  /\ warned' = warned \ {t} /\ open' = open \ {t}
  /\ mem' = [mem EXCEPT ![t] = 0]

(* createTokens, SetAuthCookies and tokenStore.setSession.                 *)
NewTokens(t) ==
  /\ row' = 0 /\ renewable' = TRUE
  /\ cookie' = AccessLife /\ stored' = AccessLife /\ mem' = [mem EXCEPT ![t] = AccessLife]

(* mfaVerify and finishLogin.                                              *)
Login(t) ==
  /\ t \notin inside \cup asleep /\ call[t] = NoCall
  /\ NewTokens(t) /\ Enter(t)
  /\ vouched' = vouched \cup {t}
  /\ UNCHANGED <<asleep, rejected, call>>

(* A tab is opened, or loaded again, and asks who is signed in.            *)
Boot(t) ==
  /\ t \notin inside \cup asleep /\ call[t] = NoCall
  /\ Send(t, "boot")
  /\ rejected' = rejected \ {t} /\ mem' = [mem EXCEPT ![t] = 0]
  /\ UNCHANGED <<row, cookies, inside, asleep, clocks, history>>

CloseTab(t) ==
  /\ Present(t)
  /\ Leave(t) /\ rejected' = rejected \ {t} /\ vouched' = vouched \ {t}
  /\ UNCHANGED <<row, cookies, asleep, call>>

-------------------------------------------------------------------------------
(* bump: what is done on a click, a keystroke, or a request that counts.   *)
Bump(t) ==
  IF t \in open THEN Done(t) /\ UNCHANGED <<clocks, slept>>
  ELSE /\ idle' = [idle EXCEPT ![t] = 0]
       /\ warned' = warned \ {t} /\ slept' = slept \ {t}
       /\ IF touched[t] < TouchEvery THEN Done(t) /\ UNCHANGED touched
          ELSE SendTouch(t, "touch") /\ touched' = [touched EXCEPT ![t] = 0]
       /\ UNCHANGED open

Input(t) ==
  /\ Present(t) /\ t \notin open
  /\ Bump(t)
  /\ UNCHANGED <<row, cookies, inside, asleep, mem, rejected, vouched>>

(* A save, an upload or a download.                                        *)
Work(t) ==
  /\ Present(t) /\ t \notin open
  /\ Send(t, "work")
  /\ UNCHANGED <<row, cookies, inside, asleep, mem, clocks, rejected, history>>

(* staySignedIn.                                                           *)
Continue(t) ==
  /\ Present(t) /\ t \in open
  /\ SendTouch(t, "continue")
  /\ idle' = [idle EXCEPT ![t] = 0] /\ open' = open \ {t}
  /\ UNCHANGED <<row, cookies, inside, asleep, mem, touched, warned, rejected, history>>

SignOut(t) ==
  /\ Present(t)
  /\ Send(t, "signout") /\ open' = open \ {t}
  /\ UNCHANGED <<row, cookies, inside, asleep, mem, idle, touched, warned, rejected, history>>

-------------------------------------------------------------------------------
(* tick, four times a second in a tab that is awake.                       *)

StartWarning(t) ==
  /\ warned' = warned \cup {t} /\ open' = open \cup {t} /\ slept' = slept \ {t}

ShowWarning(t) ==
  /\ Present(t)
  /\ idle[t] < Limit /\ Limit - idle[t] <= Warn /\ t \notin open
  /\ StartWarning(t)
  /\ UNCHANGED <<row, cookies, inside, asleep, mem, idle, touched, rejected, call, vouched>>

(* MUTANT of WarnOnce: no warning to a tab that was away.                  *)
WarnNever(t) ==
  /\ Present(t) /\ idle[t] >= Limit /\ t \notin warned
  /\ Send(t, "expire")
  /\ UNCHANGED <<row, cookies, inside, asleep, mem, clocks, rejected, history>>

(* A tab that was away past the limit warns once before signing out.       *)
WarnOnce(t) ==
  /\ Present(t) /\ idle[t] >= Limit /\ t \notin warned
  /\ StartWarning(t)
  /\ idle' = [idle EXCEPT ![t] = Limit - Warn]
  /\ vouched' = vouched \ {t}
  /\ UNCHANGED <<row, cookies, inside, asleep, mem, touched, rejected, call>>

Expire(t) ==
  /\ Present(t) /\ idle[t] >= Limit /\ t \in warned
  /\ Send(t, "expire") /\ open' = open \ {t}
  /\ UNCHANGED <<row, cookies, inside, asleep, mem, idle, touched, warned, rejected, history>>

Watch(t) == ShowWarning(t) \/ WarnOnce(t) \/ Expire(t)
WatchDue(t) ==
  t \in inside \ asleep /\ (idle[t] >= Limit \/ (Limit - idle[t] <= Warn /\ t \notin open))

-------------------------------------------------------------------------------
(* Requests are granted by the access token, from the cookie or the memory *)
(* of the tab; touches need a live row besides.                            *)
Asking(t, kinds) == call[t].kind \in kinds /\ call[t].phase \in {"try", "retry"}
Granted(t) ==
  /\ cookie > 0 \/ mem[t] > 0
  /\ call[t].kind \in {"touch", "continue"} => RowLive

(* MUTANT of GrantTouch: only the expiry of the row is moved.              *)
GrantTouchExpiryOnly(t) ==
  /\ Asking(t, {"touch", "continue"}) /\ Granted(t)
  /\ Done(t)
  /\ vouched' = vouched \cup {t}
  /\ rejected' = IF call[t].kind = "continue" THEN rejected \ {t} ELSE rejected
  /\ UNCHANGED <<row, cookies, inside, asleep, mem, clocks, slept>>

(* touchSession on the server; Continue clears the rejection.              *)
GrantTouch(t) ==
  /\ Asking(t, {"touch", "continue"}) /\ Granted(t)
  /\ row' = 0 /\ Done(t)
  /\ vouched' = vouched \cup {t}
  /\ rejected' = IF call[t].kind = "continue" THEN rejected \ {t} ELSE rejected
  /\ UNCHANGED <<cookies, inside, asleep, mem, clocks, slept>>

GrantWork(t) ==
  /\ Asking(t, {"work"}) /\ Granted(t)
  /\ Bump(t)
  /\ UNCHANGED <<row, cookies, inside, asleep, mem, rejected, vouched>>

(* MUTANT of GrantPoll: a list that polls counts as activity.              *)
GrantPollBumps(t) ==
  /\ Asking(t, {"poll"}) /\ Granted(t)
  /\ Bump(t)
  /\ UNCHANGED <<row, cookies, inside, asleep, mem, rejected, vouched>>

GrantPoll(t) ==
  /\ Asking(t, {"poll"}) /\ Granted(t)
  /\ Done(t)
  /\ UNCHANGED <<row, cookies, inside, asleep, mem, clocks, rejected, history>>

(* refreshUser assumes a whole access life when it finds no expiry.        *)
Assumed == stored' = IF stored = Absent THEN AccessLife ELSE stored

GrantProfile(t) ==
  /\ Asking(t, {"profile"}) /\ Granted(t)
  /\ Done(t) /\ Assumed
  /\ UNCHANGED <<row, cookie, renewable, inside, asleep, mem, clocks, rejected, history>>

GrantBoot(t) ==
  /\ Asking(t, {"boot"}) /\ Granted(t)
  /\ Done(t) /\ Assumed /\ Enter(t)
  /\ UNCHANGED <<row, cookie, renewable, asleep, mem, rejected, vouched>>

(* logout: the row and the cookies go, and clearSession, which is also     *)
(* done when the request fails.                                            *)
GrantLogout(t) ==
  /\ Asking(t, {"signout", "expire"}) /\ Granted(t)
  /\ Done(t)
  /\ row' = Dead /\ cookie' = 0 /\ renewable' = FALSE /\ stored' = Absent
  /\ Leave(t) /\ vouched' = {}
  /\ UNCHANGED <<asleep, rejected>>

Grant(t) ==
  \/ GrantTouch(t) \/ GrantWork(t) \/ GrantPoll(t)
  \/ GrantProfile(t) \/ GrantBoot(t) \/ GrantLogout(t)

-------------------------------------------------------------------------------
(* 401: the token in memory is dropped and tryRefresh called.  Refreshes   *)
(* of different tabs wait for one another (navigator.locks), so each is    *)
(* one step here.                                                          *)
Deny(t) ==
  /\ call[t].phase = "try" /\ ~Granted(t)
  /\ Proceed(t, "renew")
  /\ mem' = [mem EXCEPT ![t] = 0]
  /\ UNCHANGED <<row, cookies, inside, asleep, clocks, rejected, history>>

Renewing(t) == call[t].phase \in {"renew", "again"}
Renewed(t) ==
  IF call[t].phase = "again" \/ call[t].kind = "timer" THEN Done(t) ELSE Proceed(t, "retry")
Cleared(t) == IF call[t].phase = "again" THEN rejected \ {t} ELSE rejected

(* doRefreshRequest asks for nothing while the access looks fresh.         *)
Reuse(t) ==
  /\ Renewing(t) /\ AccessStillFresh
  /\ Renewed(t)
  /\ mem' = [mem EXCEPT ![t] = 0] /\ rejected' = Cleared(t)
  /\ UNCHANGED <<row, cookies, inside, asleep, clocks, history>>

(* refreshToken rotates a live row.                                        *)
Renew(t) ==
  /\ Renewing(t) /\ ~AccessStillFresh /\ renewable /\ RowLive
  /\ Renewed(t)
  /\ NewTokens(t) /\ rejected' = rejected \ {t}
  /\ UNCHANGED <<inside, asleep, clocks, history>>

(* What a request does that is turned down for good.                       *)
Refused(t) ==
  \/ Renewing(t) /\ ~AccessStillFresh /\ ~(renewable /\ RowLive)
  \/ call[t].phase = "retry" /\ ~Granted(t)

(* The page hears of the first rejection only, and starts the countdown    *)
(* unless it has had one.                                                  *)
Bounce(t) ==
  /\ call[t].kind \in {"work", "poll"}
  /\ Done(t)
  /\ rejected' = rejected \cup {t}
  /\ IF t \notin rejected \cup warned
     THEN /\ StartWarning(t)
          /\ idle' = [idle EXCEPT ![t] = Limit - Warn] /\ vouched' = vouched \ {t}
     ELSE UNCHANGED <<warned, open, slept, idle, vouched>>
  /\ UNCHANGED <<cookies, inside, asleep, mem, touched>>

(* A touch fails silently; Continue goes on to refresh.                    *)
FailTouch(t) ==
  /\ call[t].kind \in {"touch", "continue", "timer"}
  /\ IF call[t].kind = "continue" /\ call[t].phase # "again"
     THEN Proceed(t, "again") ELSE Done(t)
  /\ vouched' = IF call[t].kind = "timer" THEN vouched ELSE vouched \ {t}
  /\ UNCHANGED <<cookies, inside, asleep, mem, clocks, rejected, slept>>

(* clearSession; only logout goes through forceLoginRedirect before.       *)
GiveUp(t) ==
  /\ call[t].kind \in {"profile", "boot", "signout", "expire"}
  /\ Done(t) /\ Leave(t) /\ stored' = Absent
  /\ rejected' = IF call[t].kind \in {"signout", "expire"} THEN rejected \cup {t} ELSE rejected
  /\ vouched' = vouched \ {t}
  /\ UNCHANGED <<cookie, renewable, asleep>>

Refuse(t) ==
  /\ Refused(t)
  /\ Bounce(t) \/ FailTouch(t) \/ GiveUp(t)
  /\ UNCHANGED row

-------------------------------------------------------------------------------
(* A message is lost.  What the server was asked for may have been done.   *)

DoneUnheard(t) ==
  row' \in {row} \cup
    IF \/ Asking(t, {"touch", "continue"}) /\ Granted(t)
       \/ Renewing(t) /\ renewable /\ RowLive
    THEN {0}
    ELSE IF Asking(t, {"signout", "expire"}) /\ Granted(t) THEN {Dead} ELSE {}

(* A network error is no 401: most callers just go on.                     *)
Shrug(t) ==
  /\ call[t].phase \in {"try", "retry"} /\ call[t].kind \in {"work", "poll", "profile"}
  /\ Done(t)
  /\ UNCHANGED <<cookies, inside, asleep, mem, clocks, rejected, vouched, slept>>

Forget(t) ==
  /\ call[t].phase \in {"try", "retry"} /\ call[t].kind \in {"boot", "signout", "expire"}
  /\ Done(t) /\ Leave(t) /\ stored' = Absent
  /\ vouched' = IF call[t].kind = "boot" THEN vouched \ {t} ELSE {}
  /\ UNCHANGED <<cookie, renewable, asleep, rejected>>

Lose(t) ==
  /\ t \in Flaky /\ call[t] # NoCall
  /\ Renewing(t) => ~AccessStillFresh
  /\ DoneUnheard(t)
  /\ \/ Shrug(t) \/ Forget(t) \/ FailTouch(t)
     \/ Renewing(t) /\ (Bounce(t) \/ GiveUp(t))

Answer(t) == Grant(t) \/ Deny(t) \/ Reuse(t) \/ Renew(t) \/ Refuse(t)

-------------------------------------------------------------------------------
(* Timers stop in a frozen tab, clocks do not.                             *)
Sleep(t) ==
  /\ t \in Freezable /\ Present(t)
  /\ asleep' = asleep \cup {t}
  /\ slept' = IF t \in warned \ open THEN slept \cup {t} ELSE slept
  /\ UNCHANGED <<row, cookies, inside, mem, clocks, rejected, call, vouched>>

Wake(t) ==
  /\ t \in asleep
  /\ asleep' = asleep \ {t}
  /\ UNCHANGED <<row, cookies, inside, mem, clocks, rejected, call, history>>

(* What the intervals of a tab ask for: the renewal of the access ahead of *)
(* its end (left out where it would only drop a token that is not there),  *)
(* a list that polls, the hourly profile.                                  *)
RefreshDue(t) == stored' # Absent /\ stored' < Lead /\ (stored' <= Fresh \/ mem'[t] > 0)
Fires(t) ==
  IF t \notin inside \ asleep THEN {NoCall}
  ELSE {Request("poll", "try", FALSE), Request("profile", "try", FALSE),
        IF RefreshDue(t) THEN Request("timer", "renew", FALSE) ELSE NoCall}

(* A tick passes.  By then requests are answered, or lost, and every tab   *)
(* that is awake has looked at its clock.                                  *)
Tick ==
  /\ \A t \in Tabs : call[t] = NoCall /\ ~WatchDue(t)
  /\ row' = Older(row, Dead)
  /\ cookie' = Younger(cookie) /\ stored' = Younger(stored)
  /\ mem' = [t \in Tabs |-> Younger(mem[t])]
  /\ idle' = [t \in Tabs |-> IF t \in inside THEN Older(idle[t], Limit) ELSE idle[t]]
  /\ touched' = [t \in Tabs |-> Older(touched[t], TouchEvery)]
  /\ call' \in {c \in [Tabs -> UNION {Fires(t) : t \in Tabs}] : \A t \in Tabs : c[t] \in Fires(t)}
  /\ UNCHANGED <<renewable, inside, asleep, warned, open, rejected, history>>

(* What somebody in front of the browser does.                             *)
UserActs ==
  \E t \in Tabs : \/ Login(t) \/ Boot(t) \/ CloseTab(t) \/ Input(t) \/ Work(t)
                  \/ Continue(t) \/ SignOut(t)

Next ==
  \/ UserActs
  \/ \E t \in Tabs : \/ Watch(t) \/ Answer(t) \/ Lose(t) \/ Sleep(t) \/ Wake(t)
  \/ Tick

Spec == Init /\ [][Next]_vars

(* Time passes and the timers of a tab fire whatever requests come and go; *)
(* requests are answered.                                                  *)
Fairness ==
  /\ SF_vars(Tick)
  /\ \A t \in Tabs : SF_vars(Watch(t)) /\ WF_vars(Answer(t))

FairSpec == Spec /\ Fairness

-------------------------------------------------------------------------------
TypeOK ==
  /\ row \in 0..Dead
  /\ cookie \in 0..AccessLife /\ renewable \in BOOLEAN
  /\ stored \in {Absent} \cup 0..AccessLife
  /\ inside \subseteq Tabs /\ asleep \subseteq Tabs /\ rejected \subseteq Tabs
  /\ warned \subseteq Tabs /\ open \subseteq Tabs
  /\ vouched \subseteq Tabs /\ slept \subseteq Tabs
  /\ mem \in [Tabs -> 0..AccessLife]
  /\ idle \in [Tabs -> 0..Limit] /\ touched \in [Tabs -> 0..TouchEvery]
  /\ call \in [Tabs -> Calls]

(* touchSession keeps a live operator signed in: where the last touch of a *)
(* tab was granted and nobody has signed out since, the server is ready    *)
(* for the next one, by a click or by Continue, if that comes TouchEvery   *)
(* before the idle limit or earlier, whatever was lost or asked between.   *)
HeardInTime ==
  \A t \in vouched :
    call[t].kind \in {"touch", "continue"} /\ call[t].early => RowLive

(* tick: nobody is signed out by the clock without the countdown on the    *)
(* screen, unless the tab was frozen after a Continue and touched by       *)
(* nobody since.                                                           *)
WarnedFirst ==
  [][\A t \in Tabs :
       call[t].kind # "expire" /\ call'[t].kind = "expire" => t \in open \cup slept]_vars

(* GET polls do not reset idle: a browser left alone ends its session, on  *)
(* the server and in every tab that is awake, whatever its timers and      *)
(* lists go on asking for.                                                 *)
AbandonedEnds ==
  <>[][~UserActs]_vars => <>[](~RowLive /\ inside \subseteq asleep)
================================================================================
