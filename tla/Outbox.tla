-------------------------------- MODULE Outbox --------------------------------
(***************************************************************************)
(* The notification outbox (internal/notify/outbox.go): MailOutbox rows,   *)
(* and the drains that claim due rows under a lease, send them and record  *)
(* the outcome.  A drain is started by the cron job every minute and by    *)
(* KickDrain after every enqueue, so several run at once; each uses, for   *)
(* all of its claims and records, the time at which it started.            *)
(*                                                                         *)
(* Every time is kept relative to the present, in minutes: due is          *)
(* NextAttemptAt minus now, since is how long ago a drain started.  So     *)
(* time goes on for ever in finitely many states.                          *)
(***************************************************************************)
EXTENDS Integers, Sequences, FiniteSets

CONSTANTS
  Rows,         (* messages                                                *)
  Drains,       (* bound: drains running at the same time                  *)
  Batch,        (* outboxBatch                                             *)
  Lease,        (* outboxSendLease                                         *)
  Delays,       (* the delays of NextBackoff                               *)
  MaxAttempts,  (* outboxMaxAttempts                                       *)
  MaxAge,       (* outboxMaxAge                                            *)
  MaxSend,      (* the timeout of one send                                 *)
  MaxLost       (* bound: outcomes lost to a panic, restart or failed write*)

ASSUME OutboxAssumption ==
  /\ IsFiniteSet(Drains)
  /\ Batch \in Nat \ {0}
  /\ Lease \in Nat \ {0}
  /\ Delays \in Seq(Nat \ {0}) /\ Len(Delays) > 0
  /\ MaxAttempts \in Nat \ {0}
  /\ MaxAge \in Nat
  /\ MaxSend \in Nat
  /\ MaxLost \in Nat

VARIABLES
  status,      (* MailOutbox.Status, "none" before the row is enqueued     *)
  due,         (* MailOutbox.NextAttemptAt, from now                       *)
  age,         (* time since MailOutbox.CreatedAt                          *)
  attempts,    (* MailOutbox.Attempts                                      *)
  phase,       (* what each drain is doing                                 *)
  since,       (* time since the drain's now                               *)
  dealt,       (* rows of its batch the drain is done with                 *)
  queue,       (* rows the drain has selected and not yet dealt with       *)
  seen,        (* Attempts of the rows as the drain selected them          *)
  tries,       (* sends made of each row                                   *)
  delivered,   (* sends of each row that reached the recipient             *)
  unrecorded,  (* of those, the ones whose outcome was never written       *)
  overdue,     (* times a drain had the row in hand when its lease was over*)
  lost         (* outcomes lost so far                                     *)

rowVars   == <<status, due, age, attempts>>
drainVars == <<phase, since, dealt, queue, seen>>
ghosts    == <<tries, delivered, unrecorded, overdue, lost>>
vars      == <<rowVars, drainVars, ghosts>>

Open    == {"pending", "failed"}
Settled == {"sent", "dead"}
Busy(d) == phase[d] # "idle"

(* The row a drain has claimed and not yet recorded.                       *)
Holds(d, r) == phase[d] \in {"sending", "sent", "refused"} /\ Head(queue[d]) = r

(* The longest a drain can take.                                           *)
MaxDrain == MaxSend * Batch

-------------------------------------------------------------------------------
(* NextBackoff, for attempts > 0: the last delay repeats.                  *)
NextBackoff(n) == Delays[IF n <= Len(Delays) THEN n ELSE Len(Delays)]

(* MUTANT of ShouldDeadLetter: the last attempt is not made.               *)
GiveUpEarly(n, a) == n + 1 >= MaxAttempts \/ a >= MaxAge

(* ShouldDeadLetter: n attempts made of a row a old at the drain's now.    *)
ShouldDeadLetter(n, a) == n >= MaxAttempts \/ a >= MaxAge

(* MUTANT of Selectable: failed rows are not picked up again.              *)
SelectPending(r) == status[r] = "pending" /\ due[r] <= 0

(* The rows a drain that starts now finds.                                 *)
Selectable(r) == status[r] \in Open /\ due[r] <= 0

(* The first Batch of them, ordered by NextAttemptAt.                      *)
Selections ==
  {q \in UNION {[1..n -> Rows] : n \in 1..Batch} :
     /\ \A i \in DOMAIN q : Selectable(q[i])
     /\ \A i, j \in DOMAIN q : i < j => q[i] # q[j] /\ due[q[i]] <= due[q[j]]
     /\ \A r \in Rows : Selectable(r) =>
          \/ \E i \in DOMAIN q : q[i] = r
          \/ Len(q) = Batch /\ \A i \in DOMAIN q : due[q[i]] <= due[r]}

(* MUTANT of Claimable: NextAttemptAt is not looked at again.              *)
ClaimAny(d, r) == status[r] \in Open

(* The WHERE clause of claimRow.                                           *)
Claimable(d, r) == status[r] \in Open /\ due[r] <= -since[d]

-------------------------------------------------------------------------------
(* On to the next row of the batch; an ended drain leaves nothing behind.  *)
Advance(d) ==
  LET left == Tail(queue[d]) IN
  /\ queue' = [queue EXCEPT ![d] = left]
  /\ IF left # <<>>
     THEN /\ phase' = [phase EXCEPT ![d] = "next"]
          /\ dealt' = [dealt EXCEPT ![d] = @ + 1]
          /\ UNCHANGED <<since, seen>>
     ELSE /\ phase' = [phase EXCEPT ![d] = "idle"]
          /\ since' = [since EXCEPT ![d] = 0]
          /\ dealt' = [dealt EXCEPT ![d] = 0]
          /\ seen' = [seen EXCEPT ![d] = [r \in Rows |-> 0]]

(* Enqueue; the KickDrain that follows is a Start.                         *)
Enqueue(r) ==
  /\ status[r] = "none"
  /\ status' = [status EXCEPT ![r] = "pending"]
  /\ UNCHANGED <<due, age, attempts, drainVars, ghosts>>

(* Drain: the query that picks the batch.                                  *)
Start(d) ==
  /\ ~Busy(d)
  /\ \E q \in Selections :
       /\ queue' = [queue EXCEPT ![d] = q]
       /\ seen' = [seen EXCEPT ![d] =
            [r \in Rows |-> IF \E i \in DOMAIN q : q[i] = r THEN attempts[r] ELSE 0]]
  /\ phase' = [phase EXCEPT ![d] = "next"]
  /\ since' = [since EXCEPT ![d] = 0]
  /\ dealt' = [dealt EXCEPT ![d] = 0]
  /\ UNCHANGED <<rowVars, ghosts>>

(* MUTANT of Claim: the lease is not taken.                                *)
ClaimWithoutLease(d) ==
  LET r == Head(queue[d]) IN
  /\ phase[d] = "next"
  /\ Claimable(d, r)
  /\ attempts' = [attempts EXCEPT ![r] = @ + 1]
  /\ tries' = [tries EXCEPT ![r] = @ + 1]
  /\ phase' = [phase EXCEPT ![d] = "sending"]
  /\ UNCHANGED <<status, due, age, since, dealt, queue, seen,
                 delivered, unrecorded, overdue, lost>>

(* MUTANT of Claim: a row stays taken until its outcome is written.        *)
ClaimForGood(d) ==
  LET r == Head(queue[d]) IN
  /\ phase[d] = "next"
  /\ Claimable(d, r)
  /\ status' = [status EXCEPT ![r] = "taken"]
  /\ attempts' = [attempts EXCEPT ![r] = @ + 1]
  /\ tries' = [tries EXCEPT ![r] = @ + 1]
  /\ phase' = [phase EXCEPT ![d] = "sending"]
  /\ UNCHANGED <<due, age, since, dealt, queue, seen,
                 delivered, unrecorded, overdue, lost>>

(* claimRow affects the row: it is leased from the drain's now, and by     *)
(* then the lease may be over.                                             *)
Claim(d) ==
  LET r == Head(queue[d]) IN
  /\ phase[d] = "next"
  /\ Claimable(d, r)
  /\ attempts' = [attempts EXCEPT ![r] = @ + 1]
  /\ due' = [due EXCEPT ![r] = Lease - since[d]]
  /\ tries' = [tries EXCEPT ![r] = @ + 1]
  /\ phase' = [phase EXCEPT ![d] = "sending"]
  /\ overdue' = IF since[d] >= Lease THEN [overdue EXCEPT ![r] = @ + 1] ELSE overdue
  /\ UNCHANGED <<status, age, since, dealt, queue, seen, delivered, unrecorded, lost>>

(* claimRow affects no row: somebody else has it.                          *)
Skip(d) ==
  /\ phase[d] = "next"
  /\ ~Claimable(d, Head(queue[d]))
  /\ Advance(d)
  /\ UNCHANGED <<rowVars, ghosts>>

(* deliverRow: the mail or SMS gateway takes the message ...               *)
SendSucceeds(d) ==
  /\ phase[d] = "sending"
  /\ phase' = [phase EXCEPT ![d] = "sent"]
  /\ delivered' = [delivered EXCEPT ![Head(queue[d])] = @ + 1]
  /\ UNCHANGED <<rowVars, since, dealt, queue, seen, tries, unrecorded, overdue, lost>>

(* ... or refuses it, or times out.                                        *)
SendFails(d) ==
  /\ phase[d] = "sending"
  /\ phase' = [phase EXCEPT ![d] = "refused"]
  /\ UNCHANGED <<rowVars, since, dealt, queue, seen, ghosts>>

(* deliverOne writes the outcome, whatever the row holds by now.  Attempts *)
(* is the value the drain selected plus one.                               *)
RecordSent(d) ==
  LET r == Head(queue[d]) IN
  /\ phase[d] = "sent"
  /\ status' = [status EXCEPT ![r] = "sent"]
  /\ attempts' = [attempts EXCEPT ![r] = seen[d][r] + 1]
  /\ Advance(d)
  /\ UNCHANGED <<due, age, ghosts>>

RecordFailure(d) ==
  LET r == Head(queue[d])
      n == seen[d][r] + 1 IN
  /\ phase[d] = "refused"
  /\ attempts' = [attempts EXCEPT ![r] = n]
  /\ IF ShouldDeadLetter(n, age[r] - since[d])
     THEN /\ status' = [status EXCEPT ![r] = "dead"]
          /\ UNCHANGED due
     ELSE /\ status' = [status EXCEPT ![r] = "failed"]
          /\ due' = [due EXCEPT ![r] = NextBackoff(n) - since[d]]
  /\ Advance(d)
  /\ UNCHANGED <<age, ghosts>>

(* An outcome the database never hears of.                                 *)
Lose(d) ==
  /\ lost < MaxLost
  /\ lost' = lost + 1
  /\ unrecorded' = IF phase[d] = "sent"
                   THEN [unrecorded EXCEPT ![Head(queue[d])] = @ + 1]
                   ELSE unrecorded
  /\ UNCHANGED <<rowVars, tries, delivered, overdue>>

(* The final Updates fails: deliverOne logs it and the drain goes on.      *)
RecordLost(d) ==
  /\ phase[d] \in {"sent", "refused"}
  /\ Lose(d)
  /\ Advance(d)

(* The drain panics (GoSafe recovers) or the process stops.                *)
Abandon(d) ==
  /\ Busy(d)
  /\ Lose(d)
  /\ phase' = [phase EXCEPT ![d] = "idle"]
  /\ since' = [since EXCEPT ![d] = 0]
  /\ dealt' = [dealt EXCEPT ![d] = 0]
  /\ queue' = [queue EXCEPT ![d] = <<>>]
  /\ seen' = [seen EXCEPT ![d] = [r \in Rows |-> 0]]

(* A minute passes, unless a drain would then be longer at a row than the  *)
(* timeouts of the sends so far allow; leases end.  Ages beyond what any   *)
(* comparison with a drain's now can tell apart are not told apart.        *)
Tick ==
  /\ \A d \in Drains : Busy(d) => since[d] < MaxSend * (dealt[d] + 1)
  /\ since' = [d \in Drains |-> IF Busy(d) THEN since[d] + 1 ELSE 0]
  /\ due' = [r \in Rows |->
       IF status[r] # "none" /\ due[r] > -MaxDrain THEN due[r] - 1 ELSE due[r]]
  /\ age' = [r \in Rows |->
       IF status[r] # "none" /\ age[r] < MaxAge + MaxDrain THEN age[r] + 1 ELSE age[r]]
  /\ overdue' = [r \in Rows |->
       overdue[r] + Cardinality({d \in Drains : Holds(d, r) /\ since[d] + 1 = Lease})]
  /\ UNCHANGED <<status, attempts, phase, dealt, queue, seen,
                 tries, delivered, unrecorded, lost>>

Init ==
  /\ status = [r \in Rows |-> "none"]
  /\ due = [r \in Rows |-> 0]
  /\ age = [r \in Rows |-> 0]
  /\ attempts = [r \in Rows |-> 0]
  /\ phase = [d \in Drains |-> "idle"]
  /\ since = [d \in Drains |-> 0]
  /\ dealt = [d \in Drains |-> 0]
  /\ queue = [d \in Drains |-> <<>>]
  /\ seen = [d \in Drains |-> [r \in Rows |-> 0]]
  /\ tries = [r \in Rows |-> 0]
  /\ delivered = [r \in Rows |-> 0]
  /\ unrecorded = [r \in Rows |-> 0]
  /\ overdue = [r \in Rows |-> 0]
  /\ lost = 0

Deliver(d) ==
  \/ Claim(d) \/ Skip(d) \/ SendSucceeds(d) \/ SendFails(d)
  \/ RecordSent(d) \/ RecordFailure(d)

Next ==
  \/ \E r \in Rows : Enqueue(r)
  \/ \E d \in Drains : Start(d) \/ Deliver(d) \/ RecordLost(d) \/ Abandon(d)
  \/ Tick

Spec == Init /\ [][Next]_vars

(* The cron job starts drains as long as rows are due, every send returns  *)
(* (mail and SMS clients have timeouts), and time passes.                  *)
Fairness ==
  /\ \A d \in Drains : WF_vars(Start(d)) /\ WF_vars(Deliver(d))
  /\ WF_vars(Tick)

FairSpec == Spec /\ Fairness

-------------------------------------------------------------------------------
Phases == {"idle", "next", "sending", "sent", "refused"}

RowTypes ==
  /\ status \in [Rows -> {"none"} \cup Open \cup Settled]
  /\ due \in [Rows -> Int]
  /\ age \in [Rows -> Nat]
  /\ attempts \in [Rows -> Nat]

DrainTypes ==
  /\ phase \in [Drains -> Phases]
  /\ since \in [Drains -> 0..MaxDrain]
  /\ dealt \in [Drains -> Nat]
  /\ queue \in [Drains -> Seq(Rows)]
  /\ seen \in [Drains -> [Rows -> Nat]]

GhostTypes ==
  /\ tries \in [Rows -> Nat]
  /\ delivered \in [Rows -> Nat]
  /\ unrecorded \in [Rows -> Nat]
  /\ overdue \in [Rows -> Nat]
  /\ lost \in 0..MaxLost

(* A drain is idle exactly when its batch is done.                         *)
BatchInHand ==
  \A d \in Drains : /\ Busy(d) <=> queue[d] # <<>>
                    /\ dealt[d] + Len(queue[d]) <= Batch

(* Types of the MailOutbox rows and of the drains.                         *)
TypeOK == RowTypes /\ DrainTypes /\ GhostTypes /\ BatchInHand

(* claimRow: a row is in the hands of one drain, and of one more only for  *)
(* each time somebody was still at it when the lease was over.             *)
Holders(r) == {d \in Drains : Holds(d, r)}

SendersAccounted == \A r \in Rows : Cardinality(Holders(r)) <= 1 + overdue[r]

(* deliverOne: a message reaches its recipient once; each further copy is  *)
(* owed to an outcome that was lost or to a send that outlived its lease.  *)
CopiesAccounted == \A r \in Rows : delivered[r] <= 1 + unrecorded[r] + overdue[r]

(* deliverOne: a row that was sent or given up is never taken up again, if *)
(* nobody was ever at it beyond a lease, whose outcome may be written late.*)
SettledForGood ==
  [][\A r \in Rows : status[r] \in Settled /\ overdue[r] = 0 => status'[r] = status[r]]_vars

(* outbox.go:111: drains may safely overlap, so that one message is never  *)
(* being sent twice at the same time.                                      *)
OneSenderPerRow ==
  \A r \in Rows, d, e \in Drains : Holds(d, r) /\ Holds(e, r) => d = e

(* ShouldDeadLetter: a row is given up only after MaxAttempts real sends   *)
(* or at the age limit, although attempts are counted from a stale read.   *)
DeadIsDeserved ==
  \A r \in Rows : status[r] = "dead" => tries[r] >= MaxAttempts \/ age[r] >= MaxAge

(* Drain: every queued message is sent or given up in the end, whatever    *)
(* drains overlap and whichever outcomes are lost.                         *)
EventuallySettled ==
  \A r \in Rows : status[r] \in Open ~> status[r] \in Settled

================================================================================
