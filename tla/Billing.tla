-------------------------------- MODULE Billing --------------------------------
(***************************************************************************)
(* The fixed storage fee (internal/billing, internal/inventory/itt.go): a  *)
(* parcel is billed period by period, the first when its receipt is        *)
(* approved, every further one by RunDueNth once the period before it has  *)
(* ended and its run is approved.  The runs of a parcel also bill, from    *)
(* the same sequence number on, the parcels that in-tank transfers split   *)
(* off it.  RunDueNth has no transaction: nightly and on an operator's     *)
(* request, several may be under way, and one may stop half way.           *)
(*                                                                         *)
(* How a run is approved is module Workflow's subject: here a run counts   *)
(* as approved or not, a rejected or returned one does not.  Of stock, the *)
(* module keeps which parcels have none left.                              *)
(***************************************************************************)
EXTENDS Integers, Sequences

CONSTANTS
  Lines,     (* receipt lines of a customer of their own                   *)
  Kids,      (* parcels in-tank transfers may split off                    *)
  Origin,    (* ReceiptDetail.OriginDetailID of each of those              *)
  Jobs,      (* executions of RunDueNth there may be at a time             *)
  Effective, (* Receipt.BillingEffectiveDate may be one of these           *)
  Cycles,    (* days of a period: of the card in force, or of the parcel   *)
  LastDay,   (* bound: the calendar                                        *)
  Splitting, (* bound: the days on which transfers are approved            *)
  Drained,   (* bound: parcels whose stock may run out                     *)
  Crowd,     (* bound: runs there are at most when executions overlap      *)
  Reopened,  (* bound: runs that may be submitted again once approved      *)
  Stops      (* bound: executions that stop half way                       *)

Parcels == Lines \cup Kids

ASSUME BillingAssumption ==
  /\ Lines \cap Kids = {}
  /\ "none" \notin Parcels
  /\ Origin \in [Kids -> Lines]
  /\ Effective \subseteq Nat \ {0}
  /\ Cycles \subseteq Nat \ {0}
  /\ LastDay \in Nat /\ Stops \in Nat /\ Crowd \in Nat
  /\ Drained \subseteq Parcels

VARIABLES
  today,
  there,      (* parcels in force: ReceiptDetail rows                      *)
  effective,  (* ReceiptDetail.EffectiveFrom; 0, before every date, if nil *)
  empty,      (* parcels whose remainingQty is not positive                *)
  runs,       (* BillingRun rows of the fee, in the order they are created *)
  job,        (* what each execution of RunDueNth still has to look at     *)
  stops,
  overlapped  (* history: two executions were under way at once            *)

parcels == <<there, effective, empty>>
vars    == <<today, parcels, runs, job, stops, overlapped>>

(* What an execution holds: the runs it has still to look at, the parcels  *)
(* of the one it is at, as it read them, and the one it is about to bill.  *)
NoPick == [run |-> 0, parcel |-> "none", after |-> 0]
Idle   == [left |-> {}, batch |-> {}, pick |-> NoPick]

-------------------------------------------------------------------------------
Later(a, b) == IF a < b THEN b ELSE a

(* src and the parcels whose OriginDetailID it is.                         *)
Family(p) == {p} \cup {k \in Kids : Origin[k] = p}

(* MUTANT of Due: whatever the period.                                     *)
DueWhenApproved == {r \in DOMAIN runs : runs[r].approved}

(* MUTANT of Due: the periods that end today.                              *)
DueToday == {r \in DOMAIN runs : runs[r].approved /\ runs[r].to = today}

Due == {r \in DOMAIN runs : runs[r].approved /\ runs[r].to <= today}

(* MUTANT of Spawned: only approved runs count.                            *)
SpawnedAndApproved(p, n) ==
  \E r \in DOMAIN runs : runs[r].parcel = p /\ runs[r].seq = n /\ runs[r].approved

Spawned(p, n) == \E r \in DOMAIN runs : runs[r].parcel = p /\ runs[r].seq = n

(* MUTANT of Following: from the last day of the period before.            *)
FollowingLate(r, after) == Later(runs[r].to, after)

(* PeriodStart of the run after r.                                         *)
Following(r, after) == Later(runs[r].to + 1, after)

Run(p, n, from, days) ==
  [parcel |-> p, seq |-> n, from |-> from, to |-> from + days - 1, approved |-> FALSE]

-------------------------------------------------------------------------------
Init ==
  /\ today = 1
  /\ there = {} /\ effective = [p \in Parcels |-> 0] /\ empty = {}
  /\ runs = <<>>
  /\ job = [j \in Jobs |-> Idle]
  /\ stops = 0 /\ overlapped = FALSE

NextDay ==
  /\ today < LastDay
  /\ today' = today + 1
  /\ UNCHANGED <<parcels, runs, job, stops, overlapped>>

(* ReceiptHook.OnComplete, RunFirstForReceiptTx: in one transaction; a     *)
(* line of a receipt that is approved again has its first run already.     *)
ApproveReceipt(p, from, days) ==
  /\ p \in Lines \ there
  /\ there' = there \cup {p}
  /\ runs' = Append(runs, Run(p, 1, from, days))
  /\ UNCHANGED <<today, effective, empty, job, stops, overlapped>>

(* PostITT, addReceiverParcel: a further transfer from the same parcel     *)
(* tops the receiver's up, and moves its date.                             *)
Transfer(k) ==
  /\ today \in Splitting
  /\ Origin[k] \in there \ empty
  /\ there' = there \cup {k}
  /\ effective' = [effective EXCEPT ![k] = today]
  /\ empty' = empty \ {k}
  /\ UNCHANGED <<today, runs, job, stops, overlapped>>

(* Deliveries and transfers take the last of a parcel's stock; stock of    *)
(* the same customer, product, vessel and status comes in again.           *)
Deplete(p) ==
  /\ p \in (there \ empty) \cap Drained
  /\ empty' = empty \cup {p}
  /\ UNCHANGED <<today, there, effective, runs, job, stops, overlapped>>

Restock(p) ==
  /\ p \in empty
  /\ empty' = empty \ {p}
  /\ UNCHANGED <<today, there, effective, runs, job, stops, overlapped>>

(* StatusHook.OnComplete.                                                  *)
ApproveRun(r) ==
  /\ ~runs[r].approved
  /\ runs' = [runs EXCEPT ![r].approved = TRUE]
  /\ UNCHANGED <<today, parcels, job, stops, overlapped>>

(* submitDoc writes submitted over any status, an approved one too.        *)
SubmitRun(r) ==
  /\ runs[r].approved /\ r \in Reopened
  /\ runs' = [runs EXCEPT ![r].approved = FALSE]
  /\ UNCHANGED <<today, parcels, job, stops, overlapped>>

-------------------------------------------------------------------------------
(* RunDueNth: the runs that are due are read at once.                      *)
StartNth(j) ==
  /\ job[j] = Idle
  /\ Due # {}
  /\ Len(runs) <= Crowd \/ \A i \in Jobs : job[i] = Idle
  /\ job' = [job EXCEPT ![j].left = Due]
  /\ overlapped' = (overlapped \/ \E i \in Jobs \ {j} : job[i] # Idle)
  /\ UNCHANGED <<today, parcels, runs, stops>>

(* RunDueNth: the next of them, its parcel and those split off it.         *)
ReadParcels(j, r) ==
  /\ job[j].batch = {} /\ job[j].pick = NoPick
  /\ r \in job[j].left /\ \A s \in job[j].left : r <= s
  /\ job' = [job EXCEPT ![j] =
       [left |-> @.left \ {r},
        batch |-> {[run |-> r, parcel |-> p, after |-> effective[p]] :
                     p \in Family(runs[r].parcel) \cap there},
        pick |-> NoPick]]
  /\ UNCHANGED <<today, parcels, runs, stops, overlapped>>

(* The parcel itself comes before those split off it.                      *)
NextOf(batch, x) ==
  /\ x \in batch
  /\ x.parcel = runs[x.run].parcel \/ \A y \in batch : y.parcel # runs[x.run].parcel

(* spawnNth: the two early returns.                                        *)
CheckNth(j, x) ==
  /\ job[j].pick = NoPick
  /\ NextOf(job[j].batch, x)
  /\ job' = [job EXCEPT ![j] =
       [left |-> @.left, batch |-> @.batch \ {x},
        pick |-> IF Spawned(x.parcel, runs[x.run].seq + 1) \/ x.parcel \in empty
                 THEN NoPick ELSE x]]
  /\ UNCHANGED <<today, parcels, runs, stops, overlapped>>

(* spawnNth: the insert.                                                   *)
CreateNth(j, days) ==
  LET pick == job[j].pick IN
  /\ pick # NoPick
  /\ runs' = Append(runs, Run(pick.parcel, runs[pick.run].seq + 1,
                              Following(pick.run, pick.after), days))
  /\ job' = [job EXCEPT ![j].pick = NoPick]
  /\ UNCHANGED <<today, parcels, stops, overlapped>>

(* Any failed statement ends the execution; so does a restart.             *)
StopNth(j) ==
  /\ job[j] # Idle
  /\ stops < Stops
  /\ stops' = stops + 1
  /\ job' = [job EXCEPT ![j] = Idle]
  /\ UNCHANGED <<today, parcels, runs, overlapped>>

RunDueNth(j) ==
  \/ StartNth(j)
  \/ \E r \in job[j].left : ReadParcels(j, r)
  \/ \E x \in job[j].batch : CheckNth(j, x)
  \/ \E days \in Cycles : CreateNth(j, days)

Next ==
  \/ NextDay
  \/ \E p \in Lines, from \in Effective, days \in Cycles : ApproveReceipt(p, from, days)
  \/ \E k \in Kids : Transfer(k)
  \/ \E p \in Parcels : Deplete(p) \/ Restock(p)
  \/ \E r \in DOMAIN runs : ApproveRun(r) \/ SubmitRun(r)
  \/ \E j \in Jobs : RunDueNth(j) \/ StopNth(j)

Spec == Init /\ [][Next]_vars

(* The job is started every night, and some execution always goes on.      *)
FairSpec == Spec /\ WF_job(\E j \in Jobs : RunDueNth(j))

-------------------------------------------------------------------------------
Of(p) == {r \in DOMAIN runs : runs[r].parcel = p}

Rows == [parcel : Parcels, seq : Nat \ {0}, from : Nat, to : Nat, approved : BOOLEAN]

Picks == [run : Nat, parcel : Parcels \cup {"none"}, after : Nat]

Executions == [left : SUBSET Nat, batch : SUBSET Picks, pick : Picks]

(* The columns and the executions keep their types.                        *)
TypeOK ==
  /\ today \in Nat /\ stops \in Nat /\ overlapped \in BOOLEAN
  /\ there \subseteq Parcels /\ empty \subseteq there
  /\ effective \in [Parcels -> Nat]
  /\ runs \in Seq(Rows)
  /\ job \in [Jobs -> Executions]

(* While no two executions ran at once, no parcel is billed twice for one  *)
(* sequence number, though nothing in the database forbids it: neither by  *)
(* its own runs and its origin's together, nor after an execution stopped  *)
(* half way, a resubmission, or a refill.                                  *)
OneRunPerSequence ==
  ~overlapped => \A p \in Parcels : \A r, s \in Of(p) : runs[r].seq = runs[s].seq => r = s

(* Nor is a receipt's own line billed twice for a day, however late a run  *)
(* is approved, and whatever length the card in force gives a period.      *)
DaysBilledOnce ==
  ~overlapped => \A p \in Lines : \A r, s \in Of(p) :
    r # s => runs[r].to < runs[s].from \/ runs[s].to < runs[r].from

(* A further period is billed in its turn: after a run of the number       *)
(* before it, of the parcel or of the one it was split off, and only once  *)
(* that one's period has ended; overlapping executions or not.             *)
BilledInTurn ==
  \A s \in DOMAIN runs : runs[s].seq > 1 =>
    \E r \in DOMAIN runs :
      /\ runs[s].parcel \in Family(runs[r].parcel)
      /\ runs[r].seq = runs[s].seq - 1
      /\ runs[r].to < runs[s].from /\ runs[r].to <= today

(* docs/architecture.md, 9: a line still on hand is billed on: there is    *)
(* always a later moment when each is billed past today, is waiting for a  *)
(* run to be approved, or has no stock, however long an approval took and  *)
(* wherever an execution stopped.                                          *)
StorageKeepsBilling ==
  []<>(\A p \in Lines \cap there :
         p \in empty \/ \E r \in Of(p) : ~runs[r].approved \/ runs[r].to > today)
================================================================================
