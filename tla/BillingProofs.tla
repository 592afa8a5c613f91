------------------------------ MODULE BillingProofs ------------------------------
(***************************************************************************)
(* Proofs about Billing for any lines, split-off parcels, executions, card *)
(* lengths, transfers and stops: what a parcel is billed for, and when.    *)
(* That billing goes on is left to the model checker.                      *)
(***************************************************************************)
EXTENDS Billing, TLAPS

(* A period has a day, and its parcel is in force.                         *)
PeriodsStand == \A r \in DOMAIN runs : runs[r].from <= runs[r].to /\ runs[r].parcel \in there

(* A line was billed for each sequence number below one it was billed for. *)
SequencesUnbroken ==
  \A p \in Lines : \A r \in Of(p) : \A n \in 1 .. runs[r].seq : \E s \in Of(p) : runs[s].seq = n

(* Later numbers are later days.                                           *)
SequencesOrderDays ==
  ~overlapped => \A p \in Lines : \A r, s \in Of(p) :
    runs[r].seq < runs[s].seq => runs[r].to < runs[s].from

(* What an execution has still to look at, the parcels it has read and the *)
(* one it is about to bill: of runs that have ended, and of their family.  *)
Ended(r) == r \in DOMAIN runs /\ runs[r].to <= today

EndedFor(x) ==
  Ended(x.run) /\ x.parcel \in Family(runs[x.run].parcel) /\ x.parcel \in there

JobsLook ==
  \A j \in Jobs :
    /\ \A r \in job[j].left : Ended(r)
    /\ \A x \in job[j].batch : EndedFor(x)
    /\ job[j].pick # NoPick => EndedFor(job[j].pick)

(* An execution that never had company is the only one, and what it found  *)
(* unbilled still is.                                                      *)
JobsAlone == ~overlapped => \A i, j \in Jobs : job[i] # Idle /\ job[j] # Idle => i = j

PicksFree ==
  ~overlapped => \A j \in Jobs : job[j].pick # NoPick =>
    ~Spawned(job[j].pick.parcel, runs[job[j].pick.run].seq + 1)

IInv ==
  /\ TypeOK
  /\ PeriodsStand
  /\ SequencesUnbroken
  /\ OneRunPerSequence
  /\ SequencesOrderDays
  /\ BilledInTurn
  /\ JobsLook
  /\ JobsAlone
  /\ PicksFree

-------------------------------------------------------------------------------
(* Rows. *)

(* What a row added or a status written leaves of the others.              *)
LEMMA RowAdded ==
  ASSUME NEW f \in Seq(Rows), NEW x \in Rows
  PROVE  /\ Append(f, x) \in Seq(Rows)
         /\ DOMAIN f = 1 .. Len(f) /\ Len(f) \in Nat
         /\ DOMAIN Append(f, x) = (DOMAIN f) \cup {Len(f) + 1}
         /\ Len(f) + 1 \notin DOMAIN f
         /\ \A r \in DOMAIN f : Append(f, x)[r] = f[r]
         /\ Append(f, x)[Len(f) + 1] = x
  OBVIOUS

LEMMA RowDecided ==
  ASSUME NEW f \in Seq(Rows), NEW r \in DOMAIN f, NEW b \in BOOLEAN
  PROVE  LET g == [f EXCEPT ![r].approved = b] IN
         /\ g \in Seq(Rows) /\ DOMAIN g = DOMAIN f
         /\ \A s \in DOMAIN f :
              /\ g[s].parcel = f[s].parcel /\ g[s].seq = f[s].seq
              /\ g[s].from = f[s].from /\ g[s].to = f[s].to
<1> DEFINE new == [f[r] EXCEPT !.approved = b]
<1>1. f[r] \in Rows
  OBVIOUS
<1>2. /\ new \in Rows
      /\ new.parcel = f[r].parcel /\ new.seq = f[r].seq
      /\ new.from = f[r].from /\ new.to = f[r].to
  BY <1>1 DEF Rows
<1> HIDE DEF new
<1>3. /\ [f EXCEPT ![r] = new] \in Seq(Rows) /\ DOMAIN [f EXCEPT ![r] = new] = DOMAIN f
      /\ \A s \in DOMAIN f : [f EXCEPT ![r] = new][s] = IF s = r THEN new ELSE f[s]
  BY <1>2
<1>4. [f EXCEPT ![r] = new] = [f EXCEPT ![r].approved = b]
  BY DEF new
<1> QED BY <1>2, <1>3, <1>4

(* A new run is a row.                                                     *)
LEMMA RunIsRow ==
  ASSUME NEW p \in Parcels, NEW n \in Nat \ {0}, NEW from \in Nat, NEW days \in Cycles
  PROVE  /\ Run(p, n, from, days) \in Rows
         /\ Run(p, n, from, days).parcel = p /\ Run(p, n, from, days).seq = n
         /\ Run(p, n, from, days).from = from
         /\ from <= Run(p, n, from, days).to
  BY BillingAssumption DEF Run, Rows

(* The fields of a row have their types.                                   *)
LEMMA RowFields ==
  ASSUME TypeOK, NEW r \in DOMAIN runs
  PROVE  /\ runs[r].parcel \in Parcels /\ runs[r].seq \in Nat \ {0}
         /\ runs[r].from \in Nat /\ runs[r].to \in Nat
<1>1. runs[r] \in Rows
  BY DEF TypeOK
<1> QED BY <1>1 DEF Rows

(* A line is in no family but its own.                                     *)
LEMMA FamilyOfLine ==
  ASSUME NEW p \in Lines, NEW q \in Parcels, p \in Family(q)
  PROVE  p = q
  BY BillingAssumption DEF Family

-------------------------------------------------------------------------------
(* No run is there yet, and no execution.                                  *)
LEMMA InitInv == Init => IInv
<1> SUFFICES ASSUME Init PROVE IInv
  OBVIOUS
<1> USE DEF Init
<1>1. DOMAIN runs = {}
  OBVIOUS
<1>2. TypeOK
  <2>1. runs \in Seq(Rows)
    OBVIOUS
  <2>2. Idle \in Executions
    BY DEF Idle, NoPick, Executions, Picks
  <2>3. job \in [Jobs -> Executions]
    BY <2>2
  <2>4. effective \in [Parcels -> Nat]
    OBVIOUS
  <2> QED BY <2>1, <2>3, <2>4 DEF TypeOK
<1>3. JobsLook /\ JobsAlone /\ PicksFree
  BY DEF JobsLook, JobsAlone, PicksFree, Idle
<1> HIDE DEF Init
<1>4. \A p : Of(p) = {}
  BY <1>1 DEF Of
<1>5. PeriodsStand /\ BilledInTurn
  BY <1>1 DEF PeriodsStand, BilledInTurn
<1>6. SequencesUnbroken /\ OneRunPerSequence /\ SequencesOrderDays
  BY <1>4 DEF SequencesUnbroken, OneRunPerSequence, SequencesOrderDays
<1> QED BY <1>2, <1>3, <1>5, <1>6 DEF IInv

(* Steps that leave the rows' parcels, numbers and periods alone, and no   *)
(* execution with more to do.                                              *)
LEMMA QuietKeeps ==
  ASSUME IInv, TypeOK', today <= today', there \subseteq there',
         DOMAIN runs' = DOMAIN runs,
         \A r \in DOMAIN runs :
           /\ runs'[r].parcel = runs[r].parcel /\ runs'[r].seq = runs[r].seq
           /\ runs'[r].from = runs[r].from /\ runs'[r].to = runs[r].to,
         overlapped' = overlapped,
         \A j \in Jobs : job'[j] = job[j] \/ job'[j] = Idle
  PROVE  IInv'
<1>1. TypeOK
  BY DEF IInv
<1>2. \A p : Of(p)' = Of(p)
  BY DEF Of
<1>3. PeriodsStand' /\ SequencesUnbroken' /\ OneRunPerSequence' /\ SequencesOrderDays'
  <2>1. PeriodsStand'
    BY DEF IInv, PeriodsStand
  <2>2. SequencesUnbroken'
    BY <1>2 DEF IInv, SequencesUnbroken, Of
  <2>3. OneRunPerSequence'
    BY <1>2 DEF IInv, OneRunPerSequence, Of
  <2>4. SequencesOrderDays'
    BY <1>2 DEF IInv, SequencesOrderDays, Of
  <2> QED BY <2>1, <2>2, <2>3, <2>4
<1>4. \A r \in DOMAIN runs : \A n : n <= today /\ n \in Nat => n <= today'
  BY <1>1 DEF TypeOK
<1>5. BilledInTurn'
  <2> SUFFICES ASSUME NEW s \in DOMAIN runs, runs[s].seq > 1
               PROVE  \E r \in DOMAIN runs :
                        /\ runs[s].parcel \in Family(runs[r].parcel)
                        /\ runs[r].seq = runs[s].seq - 1
                        /\ runs[r].to < runs[s].from /\ runs[r].to <= today'
    BY DEF BilledInTurn, Family
  <2>1. PICK r \in DOMAIN runs :
          /\ runs[s].parcel \in Family(runs[r].parcel)
          /\ runs[r].seq = runs[s].seq - 1
          /\ runs[r].to < runs[s].from /\ runs[r].to <= today
    BY DEF IInv, BilledInTurn
  <2> QED BY <1>1, <1>4, <2>1, RowFields
<1>6. /\ \A r : Ended(r) => Ended(r)'
      /\ \A x : EndedFor(x) => EndedFor(x)'
  BY <1>1, <1>4, RowFields DEF Ended, EndedFor, Family
<1>7. JobsLook'
  BY <1>6 DEF IInv, JobsLook, Idle
<1>8. JobsAlone'
  BY DEF IInv, JobsAlone
<1>9. PicksFree'
  BY DEF IInv, PicksFree, JobsLook, Ended, EndedFor, Spawned, Idle
<1> QED BY <1>3, <1>5, <1>7, <1>8, <1>9 DEF IInv

(* Days, stock, approvals, and executions that stop.                       *)
LEMMA OthersKeep ==
  ASSUME IInv,
         \/ NextDay
         \/ \E k \in Kids : Transfer(k)
         \/ \E p \in Parcels : Deplete(p) \/ Restock(p)
         \/ \E r \in DOMAIN runs : ApproveRun(r) \/ SubmitRun(r)
         \/ \E j \in Jobs : StopNth(j)
  PROVE  IInv'
<1>0. TypeOK
  BY DEF IInv
<1>1. CASE NextDay
  <2>1. TypeOK' /\ today <= today'
    BY <1>0, <1>1 DEF NextDay, parcels, TypeOK
  <2> QED BY <1>1, <2>1, QuietKeeps DEF NextDay, parcels
<1>2. ASSUME NEW k \in Kids, Transfer(k) PROVE IInv'
  <2>1. TypeOK' /\ today <= today'
    BY <1>0, <1>2, BillingAssumption DEF Transfer, TypeOK, Parcels
  <2> QED BY <1>2, <2>1, QuietKeeps DEF Transfer
<1>3. ASSUME NEW p \in Parcels, Deplete(p) \/ Restock(p) PROVE IInv'
  <2>1. TypeOK' /\ today <= today'
    BY <1>0, <1>3 DEF Deplete, Restock, TypeOK
  <2> QED BY <1>3, <2>1, QuietKeeps DEF Deplete, Restock
<1>4. ASSUME NEW r \in DOMAIN runs, ApproveRun(r) \/ SubmitRun(r) PROVE IInv'
  <2>1. PICK b \in BOOLEAN : runs' = [runs EXCEPT ![r].approved = b]
    BY <1>4 DEF ApproveRun, SubmitRun
  <2>2. runs \in Seq(Rows)
    BY <1>0 DEF TypeOK
  <2>3. /\ runs' \in Seq(Rows) /\ DOMAIN runs' = DOMAIN runs
        /\ \A s \in DOMAIN runs :
             /\ runs'[s].parcel = runs[s].parcel /\ runs'[s].seq = runs[s].seq
             /\ runs'[s].from = runs[s].from /\ runs'[s].to = runs[s].to
    BY <2>1, <2>2, RowDecided
  <2>4. UNCHANGED <<today, there, effective, empty, job, stops, overlapped>>
    BY <1>4 DEF ApproveRun, SubmitRun, parcels
  <2>5. TypeOK' /\ today <= today'
    BY <1>0, <2>3, <2>4 DEF TypeOK
  <2> QED BY <2>3, <2>4, <2>5, QuietKeeps
<1>5. ASSUME NEW j \in Jobs, StopNth(j) PROVE IInv'
  <2>1. /\ job' = [job EXCEPT ![j] = Idle]
        /\ stops' = stops + 1
        /\ UNCHANGED <<today, there, effective, empty, runs, overlapped>>
    BY <1>5 DEF StopNth, parcels
  <2>2. job \in [Jobs -> Executions]
    BY <1>0 DEF TypeOK
  <2>3. \A i \in Jobs : job'[i] = job[i] \/ job'[i] = Idle
    BY <2>1, <2>2
  <2>4. TypeOK' /\ today <= today'
    BY <1>0, <2>1, <2>2 DEF TypeOK, Idle, NoPick, Executions, Picks
  <2> QED BY <2>1, <2>3, <2>4, QuietKeeps
<1> QED BY <1>1, <1>2, <1>3, <1>4, <1>5

(* An execution starts on runs that have ended; when another is under way, *)
(* both had company from then on.                                          *)
LEMMA StartKeeps ==
  ASSUME IInv, NEW j \in Jobs, StartNth(j)
  PROVE  IInv'
<1>0. TypeOK
  BY DEF IInv
<1>1. /\ job[j] = Idle
      /\ job' = [job EXCEPT ![j].left = Due]
      /\ overlapped' = (overlapped \/ \E i \in Jobs \ {j} : job[i] # Idle)
      /\ UNCHANGED <<today, there, effective, empty, runs, stops>>
  BY DEF StartNth, parcels
<1>2. job \in [Jobs -> Executions]
  BY <1>0 DEF TypeOK
<1>3. Due \subseteq Nat /\ \A r \in Due : Ended(r)
  <2>1. DOMAIN runs \subseteq Nat
    BY <1>0 DEF TypeOK
  <2> QED BY <2>1 DEF Due, Ended
<1>4. /\ job'[j] = [left |-> Due, batch |-> {}, pick |-> NoPick]
      /\ \A i \in Jobs \ {j} : job'[i] = job[i]
  BY <1>1, <1>2 DEF Idle
<1>5. TypeOK'
  <2>1. job' \in [Jobs -> Executions]
    BY <1>1, <1>2, <1>3 DEF Executions
  <2>2. overlapped' \in BOOLEAN
    BY <1>1
  <2> QED BY <1>0, <1>1, <2>1, <2>2 DEF TypeOK
<1>6. overlapped => overlapped'
  BY <1>1
<1>7. /\ PeriodsStand' /\ SequencesUnbroken' /\ OneRunPerSequence'
      /\ SequencesOrderDays' /\ BilledInTurn'
  BY <1>1, <1>6 DEF IInv, PeriodsStand, SequencesUnbroken, OneRunPerSequence,
                    SequencesOrderDays, BilledInTurn, Of
<1>8. JobsLook'
  BY <1>1, <1>3, <1>4 DEF IInv, JobsLook, Ended, EndedFor
<1>9. JobsAlone'
  BY <1>1, <1>4, <1>6 DEF JobsAlone
<1>10. PicksFree'
  BY <1>1, <1>4, <1>6 DEF IInv, PicksFree, Spawned
<1> QED BY <1>5, <1>7, <1>8, <1>9, <1>10 DEF IInv

(* Steps of an execution that write no row: what it holds then is still of *)
(* runs that have ended, and what it picks has no run of its number.       *)
LEMMA LookingKeeps ==
  ASSUME IInv, NEW j \in Jobs, NEW e \in Executions,
         job' = [job EXCEPT ![j] = e], job[j] # Idle,
         UNCHANGED <<today, there, effective, empty, runs, stops, overlapped>>,
         \A r \in e.left : Ended(r),
         \A x \in e.batch : EndedFor(x),
         e.pick # NoPick => /\ EndedFor(e.pick)
                            /\ ~Spawned(e.pick.parcel, runs[e.pick.run].seq + 1)
  PROVE  IInv'
<1>0. TypeOK /\ job \in [Jobs -> Executions]
  BY DEF IInv, TypeOK
<1>1. job'[j] = e /\ \A i \in Jobs \ {j} : job'[i] = job[i]
  BY <1>0
<1>2. TypeOK'
  <2>1. job' \in [Jobs -> Executions]
    BY <1>0
  <2> QED BY <1>0, <2>1 DEF TypeOK
<1>3. /\ PeriodsStand' /\ SequencesUnbroken' /\ OneRunPerSequence'
      /\ SequencesOrderDays' /\ BilledInTurn'
  BY DEF IInv, PeriodsStand, SequencesUnbroken, OneRunPerSequence,
         SequencesOrderDays, BilledInTurn, Of
<1>4. JobsLook'
  BY <1>1 DEF IInv, JobsLook, Ended, EndedFor
<1>5. JobsAlone'
  BY <1>1 DEF IInv, JobsAlone
<1>6. PicksFree'
  BY <1>1 DEF IInv, PicksFree, Spawned
<1> QED BY <1>2, <1>3, <1>4, <1>5, <1>6 DEF IInv

(* A run is reached: its parcels that are in force.                        *)
LEMMA ReadKeeps ==
  ASSUME IInv, NEW j \in Jobs, NEW r \in job[j].left, ReadParcels(j, r)
  PROVE  IInv'
<1> DEFINE batch == {[run |-> r, parcel |-> p, after |-> effective[p]] :
                       p \in Family(runs[r].parcel) \cap there}
           e == [left |-> job[j].left \ {r}, batch |-> batch, pick |-> NoPick]
<1>0. TypeOK /\ job[j] \in Executions
  BY DEF IInv, TypeOK
<1>1. Ended(r) /\ \A s \in job[j].left : Ended(s)
  BY DEF IInv, JobsLook
<1>2. /\ batch \subseteq Picks
      /\ \A x \in batch : EndedFor(x)
  <2>1. r \in Nat
    BY <1>0 DEF Executions
  <2>2. \A p \in there : p \in Parcels /\ effective[p] \in Nat
    BY <1>0 DEF TypeOK
  <2> QED BY <1>1, <2>1, <2>2 DEF EndedFor, Picks
<1>3. /\ job[j].pick = NoPick /\ job[j].batch = {}
      /\ job' = [job EXCEPT ![j] = e]
      /\ UNCHANGED <<today, there, effective, empty, runs, stops, overlapped>>
  BY DEF ReadParcels, parcels
<1>4. job[j] # Idle
  BY DEF Idle
<1> HIDE DEF batch
<1>5. e \in Executions
  BY <1>0, <1>2, <1>3 DEF Executions
<1> QED BY <1>1, <1>2, <1>3, <1>4, <1>5, LookingKeeps

(* A parcel is looked at: it is dropped, or picked with no run of its      *)
(* number there.                                                           *)
LEMMA CheckKeeps ==
  ASSUME IInv, NEW j \in Jobs, NEW x \in job[j].batch, CheckNth(j, x)
  PROVE  IInv'
<1> DEFINE pick == IF Spawned(x.parcel, runs[x.run].seq + 1) \/ x.parcel \in empty
                   THEN NoPick ELSE x
           e == [left |-> job[j].left, batch |-> job[j].batch \ {x}, pick |-> pick]
<1>0. TypeOK /\ job[j] \in Executions
  BY DEF IInv, TypeOK
<1>1. /\ \A r \in job[j].left : Ended(r)
      /\ \A y \in job[j].batch : EndedFor(y)
  BY DEF IInv, JobsLook
<1>2. x \in Picks /\ NoPick \in Picks
  BY <1>0 DEF Executions, Picks, NoPick
<1>3. /\ pick \in Picks
      /\ pick # NoPick => pick = x /\ ~Spawned(x.parcel, runs[x.run].seq + 1)
  BY <1>2
<1>4. /\ job' = [job EXCEPT ![j] = e]
      /\ UNCHANGED <<today, there, effective, empty, runs, stops, overlapped>>
  BY DEF CheckNth, parcels
<1> HIDE DEF pick
<1>5. e \in Executions
  BY <1>0, <1>3 DEF Executions
<1>6. job[j] # Idle
  BY DEF Idle
<1>7. pick # NoPick => EndedFor(pick) /\ ~Spawned(pick.parcel, runs[pick.run].seq + 1)
  BY <1>1, <1>3
<1> QED BY <1>1, <1>4, <1>5, <1>6, <1>7, LookingKeeps

(* What a new run must be for the periods it joins to stay in order.       *)
LEMMA PeriodAdded ==
  ASSUME IInv, NEW p \in Parcels, NEW n \in Nat \ {0}, NEW from \in Nat, NEW days \in Cycles,
         runs' = Append(runs, Run(p, n, from, days)), p \in there',
         UNCHANGED <<today, effective, empty, stops, overlapped>>,
         there' \in SUBSET Parcels, there \subseteq there', TypeOK',
         \A j \in Jobs :
           \/ job'[j] = job[j]
           \/ (job'[j] = [job[j] EXCEPT !.pick = NoPick] /\ job[j] # Idle),
         p \in Lines => \A m \in 1 .. (n - 1) : \E s \in Of(p) : runs[s].seq = m,
         ~overlapped => ~Spawned(p, n),
         ~overlapped /\ p \in Lines => \A s \in Of(p) :
           runs[s].seq < n /\ runs[s].to < from,
         n > 1 => \E r \in DOMAIN runs :
           /\ p \in Family(runs[r].parcel) /\ runs[r].seq = n - 1
           /\ runs[r].to < from /\ runs[r].to <= today,
         ~overlapped => \A j \in Jobs : job'[j].pick # NoPick =>
           ~(job[j].pick.parcel = p /\ runs[job[j].pick.run].seq + 1 = n)
  PROVE  IInv'
<1> DEFINE new == Run(p, n, from, days)
           k   == Len(runs) + 1
<1>0. TypeOK /\ runs \in Seq(Rows)
  BY DEF IInv, TypeOK
<1>1. /\ new \in Rows /\ new.parcel = p /\ new.seq = n /\ new.from = from
      /\ from <= new.to
  BY RunIsRow
<1>2. runs' = Append(runs, new)
  OBVIOUS
<1> HIDE DEF new
<1>3. /\ DOMAIN runs' = (DOMAIN runs) \cup {k}
      /\ k \notin DOMAIN runs
      /\ \A r \in DOMAIN runs : runs'[r] = runs[r]
      /\ runs'[k] = new
  BY <1>0, <1>1, <1>2, RowAdded
<1> HIDE DEF k
<1>4. \A q : Of(q)' = Of(q) \cup (IF q = p THEN {k} ELSE {})
  BY <1>1, <1>3 DEF Of
<1>5. \A q : \A r \in Of(q) : r \in DOMAIN runs /\ runs'[r] = runs[r]
  BY <1>3 DEF Of
<1>6. PeriodsStand'
  BY <1>1, <1>3 DEF IInv, PeriodsStand
<1>7. SequencesUnbroken'
  <2> SUFFICES ASSUME NEW q \in Lines, NEW r \in Of(q)', NEW m \in 1 .. runs'[r].seq
               PROVE  \E s \in Of(q)' : runs'[s].seq = m
    BY DEF SequencesUnbroken
  <2>1. CASE r \in Of(q)
    <3>1. \E s \in Of(q) : runs[s].seq = m
      BY <1>5, <2>1 DEF IInv, SequencesUnbroken
    <3> QED BY <1>4, <1>5, <3>1
  <2>2. CASE r = k /\ q = p
    <3>1. m \in 1 .. n
      BY <1>1, <1>3, <2>2
    <3>2. CASE m = n
      BY <1>1, <1>3, <1>4, <2>2, <3>2
    <3>3. CASE m \in 1 .. (n - 1)
      BY <1>4, <1>5, <2>2, <3>3
    <3>4. m = n \/ m \in 1 .. (n - 1)
      BY <3>1
    <3> QED BY <3>2, <3>3, <3>4
  <2> QED BY <1>4, <2>1, <2>2
<1>8. OneRunPerSequence'
  <2> SUFFICES ASSUME ~overlapped, NEW q \in Parcels, NEW r \in Of(q)', NEW s \in Of(q)',
                      runs'[r].seq = runs'[s].seq
               PROVE  r = s
    BY DEF OneRunPerSequence
  <2>1. \A x \in Of(p) : runs[x].seq # n
    BY DEF Spawned, Of
  <2>2. CASE r \in Of(q) /\ s \in Of(q)
    BY <1>5, <2>2 DEF IInv, OneRunPerSequence
  <2>3. CASE r = k /\ q = p /\ s \in Of(q)
    BY <1>1, <1>3, <1>5, <2>1, <2>3
  <2>4. CASE s = k /\ q = p /\ r \in Of(q)
    BY <1>1, <1>3, <1>5, <2>1, <2>4
  <2> QED BY <1>4, <2>2, <2>3, <2>4
<1>9. SequencesOrderDays'
  <2> SUFFICES ASSUME ~overlapped, NEW q \in Lines, NEW r \in Of(q)', NEW s \in Of(q)',
                      runs'[r].seq < runs'[s].seq
               PROVE  runs'[r].to < runs'[s].from
    BY DEF SequencesOrderDays
  <2>1. CASE r \in Of(q) /\ s \in Of(q)
    BY <1>5, <2>1 DEF IInv, SequencesOrderDays
  <2>2. CASE s = k /\ q = p /\ r \in Of(q)
    BY <1>1, <1>3, <1>5, <2>2
  <2>3. CASE r = k /\ q = p
    <3>1. runs'[r].seq = n
      BY <1>1, <1>3, <2>3
    <3>2. \A x \in Of(p) : runs[x].seq \in Nat /\ runs[x].seq < n
      BY <1>0, <2>3, RowFields DEF Of
    <3> QED BY <1>1, <1>3, <1>4, <1>5, <2>3, <3>1, <3>2
  <2> QED BY <1>4, <2>1, <2>2, <2>3
<1>10. BilledInTurn'
  <2> SUFFICES ASSUME NEW s \in DOMAIN runs', runs'[s].seq > 1
               PROVE  \E r \in DOMAIN runs' :
                        /\ runs'[s].parcel \in Family(runs'[r].parcel)
                        /\ runs'[r].seq = runs'[s].seq - 1
                        /\ runs'[r].to < runs'[s].from /\ runs'[r].to <= today'
    BY DEF BilledInTurn, Family
  <2>1. CASE s \in DOMAIN runs
    <3>1. PICK r \in DOMAIN runs :
            /\ runs[s].parcel \in Family(runs[r].parcel)
            /\ runs[r].seq = runs[s].seq - 1
            /\ runs[r].to < runs[s].from /\ runs[r].to <= today
      BY <1>3, <2>1 DEF IInv, BilledInTurn
    <3> QED BY <1>3, <2>1, <3>1
  <2>2. CASE s = k
    <3>1. PICK r \in DOMAIN runs :
            /\ p \in Family(runs[r].parcel) /\ runs[r].seq = n - 1
            /\ runs[r].to < from /\ runs[r].to <= today
      BY <1>1, <1>3, <2>2
    <3> QED BY <1>1, <1>3, <2>2, <3>1
  <2> QED BY <1>3, <2>1, <2>2
<1>11. /\ \A r : Ended(r) => Ended(r)'
       /\ \A x : EndedFor(x) => EndedFor(x)'
  BY <1>3 DEF Ended, EndedFor, Family
<1>12. \A j \in Jobs :
         /\ job'[j].left = job[j].left /\ job'[j].batch = job[j].batch
         /\ job'[j] = job[j] \/ (job'[j].pick = NoPick /\ job[j] # Idle)
  BY <1>0 DEF TypeOK, Executions
<1>13. JobsLook'
  <2> SUFFICES ASSUME NEW j \in Jobs
               PROVE  (/\ \A r \in job[j].left : Ended(r)
                       /\ \A x \in job[j].batch : EndedFor(x)
                       /\ job[j].pick # NoPick => EndedFor(job[j].pick))'
    BY DEF JobsLook
  <2>1. /\ \A r \in job[j].left : Ended(r)
        /\ \A x \in job[j].batch : EndedFor(x)
        /\ job[j].pick # NoPick => EndedFor(job[j].pick)
    BY DEF IInv, JobsLook
  <2>2. job'[j].pick # NoPick => job'[j].pick = job[j].pick
    BY <1>12
  <2> QED BY <1>11, <1>12, <2>1, <2>2
<1>14. JobsAlone'
  BY <1>12 DEF IInv, JobsAlone
<1>15. PicksFree'
  <2> SUFFICES ASSUME ~overlapped, NEW j \in Jobs, job'[j].pick # NoPick
               PROVE  ~Spawned(job[j].pick.parcel, runs[job[j].pick.run].seq + 1)'
    BY DEF PicksFree
  <2>1. job'[j] = job[j] /\ job[j].pick.run \in DOMAIN runs
    BY <1>12 DEF IInv, JobsLook, Ended, EndedFor
  <2>2. ~Spawned(job[j].pick.parcel, runs[job[j].pick.run].seq + 1)
    BY <2>1 DEF IInv, PicksFree
  <2> QED BY <1>1, <1>3, <2>1, <2>2 DEF Spawned
<1> QED BY <1>6, <1>7, <1>8, <1>9, <1>10, <1>13, <1>14, <1>15 DEF IInv

(* A receipt is approved: its line had no run.                             *)
LEMMA ReceiptKeeps ==
  ASSUME IInv, NEW p \in Lines, NEW from \in Effective, NEW days \in Cycles,
         ApproveReceipt(p, from, days)
  PROVE  IInv'
<1>0. TypeOK /\ p \in Parcels /\ from \in Nat
  BY BillingAssumption DEF IInv, Parcels
<1>1. /\ p \notin there /\ there' = there \cup {p}
      /\ runs' = Append(runs, Run(p, 1, from, days))
      /\ UNCHANGED <<today, effective, empty, job, stops, overlapped>>
  BY DEF ApproveReceipt
<1>2. Of(p) = {}
  BY <1>1 DEF IInv, PeriodsStand, Of
<1>3. ~Spawned(p, 1)
  BY <1>2 DEF Spawned, Of
<1>4. TypeOK'
  <2>1. Run(p, 1, from, days) \in Rows
    BY <1>0, RunIsRow
  <2>2. runs' \in Seq(Rows)
    BY <1>0, <1>1, <2>1, RowAdded DEF TypeOK
  <2> QED BY <1>0, <1>1, <2>2 DEF TypeOK
<1>5. \A j \in Jobs : job[j].pick # NoPick => runs[job[j].pick.run].seq + 1 # 1
  BY <1>0, RowFields DEF IInv, JobsLook, Ended, EndedFor
<1>6. there' \in SUBSET Parcels
  BY <1>4 DEF TypeOK
<1>7. \A j \in Jobs : job'[j] = job[j]
  BY <1>1
<1>8. ~overlapped => \A j \in Jobs : job'[j].pick # NoPick =>
        ~(job[j].pick.parcel = p /\ runs[job[j].pick.run].seq + 1 = 1)
  BY <1>5, <1>7
<1>9. p \in there' /\ there \subseteq there'
  BY <1>1
<1>10. 1 \in Nat \ {0} /\ ~(1 > 1) /\ 1 .. (1 - 1) = {}
  OBVIOUS
<1> QED BY <1>0, <1>1, <1>2, <1>3, <1>4, <1>6, <1>7, <1>8, <1>9, <1>10, PeriodAdded

(* The next run is made: of the run it follows, no line has a later one.   *)
LEMMA CreateKeeps ==
  ASSUME IInv, NEW j \in Jobs, NEW days \in Cycles, CreateNth(j, days)
  PROVE  IInv'
<1> DEFINE prev == job[j].pick.run
           p    == job[j].pick.parcel
           n    == runs[prev].seq + 1
           from == Following(prev, job[j].pick.after)
<1>0. TypeOK
  BY DEF IInv
<1>1. /\ job[j].pick # NoPick
      /\ runs' = Append(runs, Run(p, n, from, days))
      /\ job' = [job EXCEPT ![j].pick = NoPick]
      /\ UNCHANGED <<today, there, effective, empty, stops, overlapped>>
  BY DEF CreateNth, parcels
<1>2. job \in [Jobs -> Executions]
  BY <1>0 DEF TypeOK
<1>3. /\ prev \in DOMAIN runs /\ p \in Family(runs[prev].parcel)
      /\ runs[prev].to <= today /\ p \in there
  BY <1>1 DEF IInv, JobsLook, Ended, EndedFor
<1>4. /\ runs[prev].parcel \in Parcels
      /\ runs[prev].seq \in Nat \ {0} /\ runs[prev].from \in Nat /\ runs[prev].to \in Nat
  BY <1>0, <1>3, RowFields
<1>5. p \in Parcels
  BY <1>0, <1>3 DEF TypeOK
<1>6. from \in Nat /\ runs[prev].to < from
  <2>1. job[j].pick.after \in Nat
    BY <1>2 DEF Executions, Picks
  <2> QED BY <1>4, <2>1 DEF Following, Later
<1>7. n \in Nat \ {0} /\ n > 1 /\ runs[prev].seq = n - 1
  BY <1>4
<1>8. ~overlapped => ~Spawned(p, n)
  BY <1>1 DEF IInv, PicksFree
<1>9. job[j] # Idle
  BY <1>1 DEF Idle
<1>10. /\ job'[j].pick = NoPick /\ job'[j] = [job[j] EXCEPT !.pick = NoPick]
       /\ \A i \in Jobs \ {j} : job'[i] = job[i]
  BY <1>1, <1>2
<1>11. TypeOK'
  <2>1. Run(p, n, from, days) \in Rows
    BY <1>5, <1>6, <1>7, RunIsRow
  <2>2. runs' \in Seq(Rows)
    BY <1>0, <1>1, <2>1, RowAdded DEF TypeOK
  <2>3. NoPick \in [run : Nat, parcel : Parcels \cup {"none"}, after : Nat]
    BY DEF NoPick
  <2>4. job' \in [Jobs -> Executions]
    BY <1>1, <1>2, <2>3 DEF Executions, Picks
  <2> QED BY <1>0, <1>1, <2>2, <2>4 DEF TypeOK
<1>12. p \in Lines => runs[prev].parcel = p /\ prev \in Of(p)
  BY <1>3, <1>4, FamilyOfLine DEF Of
<1>13. p \in Lines => \A m \in 1 .. (n - 1) : \E s \in Of(p) : runs[s].seq = m
  BY <1>7, <1>12 DEF IInv, SequencesUnbroken
<1>14. ~overlapped /\ p \in Lines => \A s \in Of(p) : runs[s].seq < n /\ runs[s].to < from
  <2> SUFFICES ASSUME ~overlapped, p \in Lines, NEW s \in Of(p)
               PROVE  runs[s].seq < n /\ runs[s].to < from
    OBVIOUS
  <2>1. /\ s \in DOMAIN runs /\ runs[s].seq \in Nat \ {0}
        /\ runs[s].from \in Nat /\ runs[s].to \in Nat
    BY <1>0, RowFields DEF Of
  <2>2. runs[s].seq < n
    <3>1. ~ \E t \in Of(p) : runs[t].seq = n
      BY <1>8 DEF Spawned, Of
    <3>2. \A m \in 1 .. runs[s].seq : \E t \in Of(p) : runs[t].seq = m
      BY DEF IInv, SequencesUnbroken
    <3>3. n \notin 1 .. runs[s].seq
      BY <3>1, <3>2
    <3> HIDE DEF n
    <3> QED BY <1>7, <2>1, <3>3
  <2>3. CASE runs[s].seq = runs[prev].seq
    <3>1. s = prev
      BY <1>5, <1>12, <2>3 DEF IInv, OneRunPerSequence
    <3> QED BY <1>6, <2>2, <3>1
  <2>4. CASE runs[s].seq < runs[prev].seq
    <3>1. runs[s].to < runs[prev].from
      BY <1>12, <2>4 DEF IInv, SequencesOrderDays
    <3>2. runs[prev].from <= runs[prev].to
      BY <1>3 DEF IInv, PeriodsStand
    <3> HIDE DEF from, prev
    <3> QED BY <1>4, <1>6, <2>1, <2>2, <3>1, <3>2
  <2>5. runs[s].seq = runs[prev].seq \/ runs[s].seq < runs[prev].seq
    <3> HIDE DEF prev
    <3> QED BY <1>4, <2>1, <2>2
  <2> QED BY <2>3, <2>4, <2>5
<1>15. ~overlapped => \A i \in Jobs : job'[i].pick # NoPick => FALSE
  <2> HIDE DEF prev, p, n, from
  <2> SUFFICES ASSUME ~overlapped, NEW i \in Jobs PROVE job'[i].pick = NoPick
    OBVIOUS
  <2>1. CASE i = j
    BY <1>10, <2>1
  <2>2. CASE i # j
    <3>1. job[i] = Idle
      BY <1>9, <2>2 DEF IInv, JobsAlone
    <3>2. job'[i] = job[i]
      BY <1>10, <2>2
    <3> QED BY <3>1, <3>2 DEF Idle
  <2> QED BY <2>1, <2>2
<1>16. \A i \in Jobs :
         \/ job'[i] = job[i]
         \/ (job'[i] = [job[i] EXCEPT !.pick = NoPick] /\ job[i] # Idle)
  BY <1>9, <1>10
<1>17. there' \in SUBSET Parcels /\ there \subseteq there' /\ p \in there'
  BY <1>1, <1>3, <1>11 DEF TypeOK
<1>18. \E r \in DOMAIN runs :
         /\ p \in Family(runs[r].parcel) /\ runs[r].seq = n - 1
         /\ runs[r].to < from /\ runs[r].to <= today
  BY <1>3, <1>6, <1>7
<1> HIDE DEF p, n, from
<1> QED BY <1>1, <1>5, <1>6, <1>7, <1>8, <1>11, <1>13, <1>14, <1>15, <1>16, <1>17, <1>18, PeriodAdded

-------------------------------------------------------------------------------
LEMMA NextInv == IInv /\ [Next]_vars => IInv'
<1> SUFFICES ASSUME IInv, [Next]_vars PROVE IInv'
  OBVIOUS
<1>1. CASE NextDay
  BY <1>1, OthersKeep
<1>2. ASSUME NEW p \in Lines, NEW from \in Effective, NEW days \in Cycles,
             ApproveReceipt(p, from, days)
      PROVE  IInv'
  BY <1>2, ReceiptKeeps
<1>3. ASSUME NEW k \in Kids, Transfer(k) PROVE IInv'
  BY <1>3, OthersKeep
<1>4. ASSUME NEW p \in Parcels, Deplete(p) \/ Restock(p) PROVE IInv'
  BY <1>4, OthersKeep
<1>5. ASSUME NEW r \in DOMAIN runs, ApproveRun(r) \/ SubmitRun(r) PROVE IInv'
  BY <1>5, OthersKeep
<1>6. ASSUME NEW j \in Jobs, RunDueNth(j) PROVE IInv'
  BY <1>6, StartKeeps, ReadKeeps, CheckKeeps, CreateKeeps DEF RunDueNth
<1>7. ASSUME NEW j \in Jobs, StopNth(j) PROVE IInv'
  BY <1>7, OthersKeep
<1>8. CASE UNCHANGED vars
  <2>1. TypeOK'
    BY <1>8 DEF vars, parcels, IInv, TypeOK
  <2>2. today <= today'
    BY <1>8 DEF vars, IInv, TypeOK
  <2> QED BY <1>8, <2>1, <2>2, QuietKeeps DEF vars, parcels
<1> QED BY <1>1, <1>2, <1>3, <1>4, <1>5, <1>6, <1>7, <1>8 DEF Next

(* What the theorems below are read off.                                   *)
THEOREM BillingInvariant == Spec => []IInv
<1>1. Init => IInv
  BY InitInv
<1>2. IInv /\ [Next]_vars => IInv'
  BY NextInv
<1> QED BY <1>1, <1>2, PTL DEF Spec

(* Runs, parcels and executions keep their types, for any of them.         *)
THEOREM TypeCorrect == Spec => []TypeOK
<1>1. IInv => TypeOK
  BY DEF IInv
<1> QED BY <1>1, BillingInvariant, PTL

(* Without overlapping executions, a sequence number is billed once, of    *)
(* any line and of any parcel split off it, wherever executions stopped.   *)
THEOREM NumbersBilledOnce == Spec => []OneRunPerSequence
<1>1. IInv => OneRunPerSequence
  BY DEF IInv
<1> QED BY <1>1, BillingInvariant, PTL

(* Nor is a line billed twice for a day, whatever lengths its periods have *)
(* and however late its runs are approved.                                 *)
THEOREM LinesBilledOnceADay == Spec => []DaysBilledOnce
<1>1. IInv => DaysBilledOnce
  <2> SUFFICES ASSUME IInv, ~overlapped, NEW p \in Lines, NEW r \in Of(p), NEW s \in Of(p), r # s
               PROVE  runs[r].to < runs[s].from \/ runs[s].to < runs[r].from
    BY DEF DaysBilledOnce
  <2>1. /\ runs[r].seq \in Nat \ {0} /\ runs[s].seq \in Nat \ {0}
    BY RowFields DEF IInv, Of
  <2>2. runs[r].seq # runs[s].seq
    BY DEF IInv, OneRunPerSequence, Parcels
  <2>3. runs[r].seq < runs[s].seq \/ runs[s].seq < runs[r].seq
    BY <2>1, <2>2
  <2> QED BY <2>3 DEF IInv, SequencesOrderDays
<1> QED BY <1>1, BillingInvariant, PTL

(* However executions overlap, a period is billed after the one before it, *)
(* of its parcel or of the one it was split off, and once that has ended.  *)
THEOREM PeriodsBilledInTurn == Spec => []BilledInTurn
<1>1. IInv => BilledInTurn
  BY DEF IInv
<1> QED BY <1>1, BillingInvariant, PTL
================================================================================
