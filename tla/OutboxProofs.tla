----------------------------- MODULE OutboxProofs -----------------------------
(***************************************************************************)
(* Proofs about Outbox, for any rows, batch, lease and delays, and any     *)
(* finite number of drains: in particular for batches that take longer     *)
(* than a lease, as the code's constants allow.                            *)
(***************************************************************************)
EXTENDS Outbox, FiniteSetTheorems, TLAPS

(* A longer factor gives a longer product.                                 *)
LEMMA Monotone ==
  ASSUME NEW m \in Nat, NEW a \in Nat, NEW b \in Nat, a <= b
  PROVE  m * a <= m * b
  <1>1. PICK k \in Nat : b = a + k
    BY SMT
  <1>2. m * b = m * a + m * k /\ m * k \in Nat /\ m * a \in Nat
    BY <1>1, SMT
  <1> QED BY <1>2, SMT

(* Sets of drains have a size.                                             *)
LEMMA Sizes ==
  ASSUME NEW S \in SUBSET Drains
  PROVE  IsFiniteSet(S) /\ Cardinality(S) \in Nat
  <1>1. IsFiniteSet(S)
    BY OutboxAssumption, FS_Subset DEF OutboxAssumption
  <1> QED BY <1>1, FS_CardinalityType

LEMMA DrainTime == MaxDrain \in Nat
  BY OutboxAssumption, SMT DEF OutboxAssumption, MaxDrain

(* Advance leaves a shorter batch, and an idle drain only behind an empty  *)
(* one.                                                                    *)
LEMMA AdvanceTypes ==
  ASSUME DrainTypes, BatchInHand, NEW d \in Drains, Busy(d), Advance(d)
  PROVE  DrainTypes' /\ BatchInHand'
  <1> DEFINE left == Tail(queue[d])
  <1>1. queue[d] \in Seq(Rows) /\ queue[d] # <<>>
    BY DEF DrainTypes, BatchInHand
  <1>2. left \in Seq(Rows) /\ Len(left) = Len(queue[d]) - 1 /\ Len(queue[d]) \in Nat
    BY <1>1
  <1>3. 0 \in 0..MaxDrain
    BY DrainTime
  <1>4. dealt[d] \in Nat /\ dealt[d] + Len(queue[d]) <= Batch
    BY DEF DrainTypes, BatchInHand
  <1> HIDE DEF left
  <1>5. queue' = [queue EXCEPT ![d] = left]
    BY DEF Advance, left
  <1>6. \/ /\ left # <<>>
           /\ phase' = [phase EXCEPT ![d] = "next"]
           /\ dealt' = [dealt EXCEPT ![d] = dealt[d] + 1]
           /\ since' = since
           /\ seen' = seen
        \/ /\ left = <<>>
           /\ phase' = [phase EXCEPT ![d] = "idle"]
           /\ dealt' = [dealt EXCEPT ![d] = 0]
           /\ since' = [since EXCEPT ![d] = 0]
           /\ seen' = [seen EXCEPT ![d] = [r \in Rows |-> 0]]
    BY DEF Advance, left
  <1>7. DrainTypes'
    <2>1. phase' \in [Drains -> Phases]
      BY <1>6 DEF DrainTypes, Phases
    <2>2. since' \in [Drains -> 0..MaxDrain]
      BY <1>3, <1>6 DEF DrainTypes
    <2>3. dealt' \in [Drains -> Nat]
      BY <1>4, <1>6 DEF DrainTypes
    <2>4. queue' \in [Drains -> Seq(Rows)]
      BY <1>2, <1>5 DEF DrainTypes
    <2>5. seen' \in [Drains -> [Rows -> Nat]]
      <3> DEFINE zero == [r \in Rows |-> 0]
      <3>1. zero \in [Rows -> Nat]
        OBVIOUS
      <3> HIDE DEF zero
      <3>2. seen' = seen \/ seen' = [seen EXCEPT ![d] = zero]
        BY <1>6 DEF zero
      <3> QED BY <3>1, <3>2 DEF DrainTypes
    <2> QED BY <2>1, <2>2, <2>3, <2>4, <2>5 DEF DrainTypes
  <1>8. ASSUME NEW e \in Drains
        PROVE  (Busy(e)' <=> queue'[e] # <<>>) /\ dealt'[e] + Len(queue'[e]) <= Batch
    <2>1. CASE e = d
      <3>1. queue'[e] = left /\ phase'[e] \in {"next", "idle"}
            /\ (phase'[e] = "idle" <=> left = <<>>)
        BY <2>1, <1>5, <1>6 DEF DrainTypes
      <3>2. dealt'[e] <= dealt[d] + 1 /\ dealt'[e] \in Nat
        BY <2>1, <1>4, <1>6 DEF DrainTypes
      <3>3. Busy(e)' <=> queue'[e] # <<>>
        BY <3>1 DEF Busy
      <3>4. dealt'[e] + Len(queue'[e]) <= Batch
        BY <3>1, <3>2, <1>2, <1>4, OutboxAssumption DEF OutboxAssumption
      <3> QED BY <3>3, <3>4
    <2>2. CASE e # d
      <3>1. queue'[e] = queue[e] /\ phase'[e] = phase[e] /\ dealt'[e] = dealt[e]
        BY <2>2, <1>5, <1>6 DEF DrainTypes
      <3> QED BY <3>1 DEF BatchInHand, Busy
    <2> QED BY <2>1, <2>2
  <1> QED BY <1>7, <1>8 DEF BatchInHand

(* The row a busy drain is at.                                             *)
LEMMA InHand ==
  ASSUME DrainTypes, BatchInHand, NEW d \in Drains, Busy(d)
  PROVE  Head(queue[d]) \in Rows
  <1>1. queue[d] \in Seq(Rows) /\ queue[d] # <<>>
    BY DEF DrainTypes, BatchInHand
  <1> QED BY <1>1

(* A drain's claim and its record move the row's own columns only.         *)
LEMMA NextTypes ==
  ASSUME TypeOK, [Next]_vars
  PROVE  TypeOK'
  <1> USE DEF TypeOK
  <1>1. ASSUME NEW r \in Rows, Enqueue(r) PROVE TypeOK'
    <2>1. RowTypes'
      BY <1>1 DEF Enqueue, RowTypes, Open
    <2>2. UNCHANGED <<drainVars, ghosts>>
      BY <1>1 DEF Enqueue
    <2>3. DrainTypes' /\ GhostTypes' /\ BatchInHand'
      BY <2>2 DEF drainVars, ghosts, DrainTypes, GhostTypes, BatchInHand, Busy
    <2> QED BY <2>1, <2>3
  <1>2. ASSUME NEW d \in Drains, Start(d) PROVE TypeOK'
    <2> DEFINE look(q) ==
          [r \in Rows |-> IF \E i \in DOMAIN q : q[i] = r THEN attempts[r] ELSE 0]
    <2>1. PICK q \in Selections : queue' = [queue EXCEPT ![d] = q]
                                /\ seen' = [seen EXCEPT ![d] = look(q)]
      BY <1>2 DEF Start
    <2>2. /\ ~Busy(d)
          /\ phase' = [phase EXCEPT ![d] = "next"]
          /\ since' = [since EXCEPT ![d] = 0]
          /\ dealt' = [dealt EXCEPT ![d] = 0]
          /\ UNCHANGED <<rowVars, ghosts>>
      BY <1>2 DEF Start
    <2>3. PICK n \in 1..Batch : q \in [1..n -> Rows]
      BY DEF Selections
    <2>4. n \in Nat /\ q \in Seq(Rows) /\ Len(q) = n /\ n <= Batch /\ q # <<>>
      BY <2>3, OutboxAssumption DEF OutboxAssumption
    <2>5. look(q) \in [Rows -> Nat]
      BY DEF RowTypes
    <2> HIDE DEF look
    <2>6. RowTypes' /\ GhostTypes'
      BY <2>2 DEF RowTypes, GhostTypes, rowVars, ghosts
    <2>7. DrainTypes'
      <3>1. phase' \in [Drains -> Phases]
        BY <2>2 DEF DrainTypes, Phases
      <3>2. since' \in [Drains -> 0..MaxDrain] /\ dealt' \in [Drains -> Nat]
        BY <2>2, DrainTime DEF DrainTypes
      <3>3. queue' \in [Drains -> Seq(Rows)]
        BY <2>1, <2>4 DEF DrainTypes
      <3>4. seen' \in [Drains -> [Rows -> Nat]]
        BY <2>1, <2>5 DEF DrainTypes
      <3> QED BY <3>1, <3>2, <3>3, <3>4 DEF DrainTypes
    <2>8. ASSUME NEW e \in Drains
          PROVE  (Busy(e)' <=> queue'[e] # <<>>) /\ dealt'[e] + Len(queue'[e]) <= Batch
      <3>1. CASE e = d
        <4>1. queue'[e] = q /\ phase'[e] = "next" /\ dealt'[e] = 0
          BY <3>1, <2>1, <2>2 DEF DrainTypes
        <4>2. Busy(e)' /\ queue'[e] # <<>>
          BY <4>1, <2>4 DEF Busy
        <4> QED BY <4>1, <4>2, <2>4
      <3>2. CASE e # d
        <4>1. queue'[e] = queue[e] /\ phase'[e] = phase[e] /\ dealt'[e] = dealt[e]
          BY <3>2, <2>1, <2>2 DEF DrainTypes
        <4> QED BY <4>1 DEF BatchInHand, Busy
      <3> QED BY <3>1, <3>2
    <2> QED BY <2>6, <2>7, <2>8 DEF BatchInHand
  <1>3. ASSUME NEW d \in Drains, Claim(d) PROVE TypeOK'
    <2> DEFINE r == Head(queue[d])
    <2>1. Busy(d) /\ r \in Rows
      BY <1>3, InHand DEF Claim, Busy
    <2>2. since[d] \in Nat /\ attempts[r] \in Nat /\ tries[r] \in Nat
      BY <2>1, DrainTime DEF DrainTypes, RowTypes, GhostTypes
    <2>3. Lease - since[d] \in Int
      BY <2>2, OutboxAssumption DEF OutboxAssumption
    <2>4. /\ attempts' = [attempts EXCEPT ![r] = attempts[r] + 1]
          /\ due' = [due EXCEPT ![r] = Lease - since[d]]
          /\ tries' = [tries EXCEPT ![r] = tries[r] + 1]
          /\ phase' = [phase EXCEPT ![d] = "sending"]
          /\ overdue' = IF since[d] >= Lease THEN [overdue EXCEPT ![r] = overdue[r] + 1]
                        ELSE overdue
          /\ UNCHANGED <<status, age, since, dealt, queue, seen, delivered, unrecorded, lost>>
      BY <1>3 DEF Claim
    <2> HIDE DEF r
    <2>5. RowTypes'
      BY <2>1, <2>2, <2>3, <2>4 DEF RowTypes
    <2>a. overdue' \in [Rows -> Nat]
      BY <2>1, <2>4 DEF GhostTypes
    <2>6. GhostTypes'
      BY <2>1, <2>2, <2>4, <2>a DEF GhostTypes
    <2>7. DrainTypes'
      BY <2>4 DEF DrainTypes, Phases
    <2>8. \A e \in Drains : Busy(e)' <=> Busy(e)
      BY <2>1, <2>4 DEF Busy, DrainTypes
    <2>9. BatchInHand'
      BY <2>4, <2>8 DEF BatchInHand
    <2> QED BY <2>5, <2>6, <2>7, <2>9
  <1>4. ASSUME NEW d \in Drains, Skip(d) PROVE TypeOK'
    <2>1. DrainTypes' /\ BatchInHand'
      BY <1>4, AdvanceTypes DEF Skip, Busy
    <2>2. UNCHANGED <<rowVars, ghosts>>
      BY <1>4 DEF Skip
    <2>3. RowTypes' /\ GhostTypes'
      BY <2>2 DEF RowTypes, GhostTypes, rowVars, ghosts
    <2> QED BY <2>1, <2>3
  <1>5. ASSUME NEW d \in Drains, SendSucceeds(d) \/ SendFails(d) PROVE TypeOK'
    <2> DEFINE r == Head(queue[d])
    <2>1. Busy(d) /\ r \in Rows
      BY <1>5, InHand DEF SendSucceeds, SendFails, Busy
    <2>2. /\ UNCHANGED <<rowVars, since, dealt, queue, seen, tries, unrecorded, overdue, lost>>
          /\ \/ phase' = [phase EXCEPT ![d] = "sent"]
             \/ phase' = [phase EXCEPT ![d] = "refused"]
          /\ \/ delivered' = [delivered EXCEPT ![r] = delivered[r] + 1]
             \/ delivered' = delivered
      BY <1>5 DEF SendSucceeds, SendFails, ghosts
    <2> HIDE DEF r
    <2>3. delivered[r] \in Nat
      BY <2>1 DEF GhostTypes
    <2>4. GhostTypes'
      BY <2>1, <2>2, <2>3 DEF GhostTypes
    <2>5. RowTypes' /\ DrainTypes'
      BY <2>2 DEF RowTypes, DrainTypes, rowVars, Phases
    <2>6. \A e \in Drains : Busy(e)' <=> Busy(e)
      BY <2>1, <2>2 DEF Busy, DrainTypes
    <2>7. BatchInHand'
      BY <2>2, <2>6 DEF BatchInHand
    <2> QED BY <2>4, <2>5, <2>7
  <1>6. ASSUME NEW d \in Drains, RecordSent(d) PROVE TypeOK'
    <2> DEFINE r == Head(queue[d])
    <2>1. Busy(d) /\ Advance(d)
      BY <1>6 DEF RecordSent, Busy
    <2>2. DrainTypes' /\ BatchInHand' /\ r \in Rows
      BY <2>1, AdvanceTypes, InHand
    <2>3. seen[d][r] + 1 \in Nat
      BY <2>2 DEF DrainTypes
    <2>4. /\ status' = [status EXCEPT ![r] = "sent"]
          /\ attempts' = [attempts EXCEPT ![r] = seen[d][r] + 1]
          /\ UNCHANGED <<due, age, ghosts>>
      BY <1>6 DEF RecordSent
    <2> HIDE DEF r
    <2>5. RowTypes' /\ GhostTypes'
      BY <2>2, <2>3, <2>4 DEF RowTypes, GhostTypes, Settled, ghosts
    <2> QED BY <2>2, <2>5
  <1>7. ASSUME NEW d \in Drains, RecordFailure(d) PROVE TypeOK'
    <2> DEFINE r == Head(queue[d])
               n == seen[d][r] + 1
    <2>1. Busy(d) /\ Advance(d)
      BY <1>7 DEF RecordFailure, Busy
    <2>2. DrainTypes' /\ BatchInHand' /\ r \in Rows
      BY <2>1, AdvanceTypes, InHand
    <2>3. n \in Nat \ {0} /\ since[d] \in Int
      BY <2>2, DrainTime DEF DrainTypes
    <2>4. /\ attempts' = [attempts EXCEPT ![r] = n]
          /\ \/ status' = [status EXCEPT ![r] = "dead"] /\ due' = due
             \/ /\ status' = [status EXCEPT ![r] = "failed"]
                /\ due' = [due EXCEPT ![r] = NextBackoff(n) - since[d]]
          /\ UNCHANGED <<age, ghosts>>
      BY <1>7 DEF RecordFailure
    <2> HIDE DEF r, n
    <2>5. NextBackoff(n) \in Int
      BY <2>3, OutboxAssumption DEF NextBackoff, OutboxAssumption
    <2>6. NextBackoff(n) - since[d] \in Int
      BY <2>3, <2>5
    <2>7. RowTypes' /\ GhostTypes'
      BY <2>2, <2>3, <2>4, <2>6 DEF RowTypes, GhostTypes, Settled, Open, ghosts
    <2> QED BY <2>2, <2>7
  <1>8. ASSUME NEW d \in Drains, RecordLost(d) PROVE TypeOK'
    <2>1. Busy(d) /\ Advance(d) /\ Lose(d)
      BY <1>8 DEF RecordLost, Busy
    <2>2. DrainTypes' /\ BatchInHand'
      BY <2>1, AdvanceTypes
    <2>3. RowTypes'
      BY <2>1 DEF Lose, rowVars, RowTypes
    <2>4. GhostTypes'
      BY <2>1, InHand, OutboxAssumption DEF Lose, GhostTypes, OutboxAssumption
    <2> QED BY <2>2, <2>3, <2>4
  <1>9. ASSUME NEW d \in Drains, Abandon(d) PROVE TypeOK'
    <2> DEFINE zero == [r \in Rows |-> 0]
    <2>1. /\ Busy(d) /\ Lose(d)
          /\ phase' = [phase EXCEPT ![d] = "idle"]
          /\ since' = [since EXCEPT ![d] = 0]
          /\ dealt' = [dealt EXCEPT ![d] = 0]
          /\ queue' = [queue EXCEPT ![d] = <<>>]
          /\ seen' = [seen EXCEPT ![d] = zero]
      BY <1>9 DEF Abandon
    <2>2. zero \in [Rows -> Nat]
      OBVIOUS
    <2> HIDE DEF zero
    <2>3. RowTypes'
      BY <2>1 DEF Lose, rowVars, RowTypes
    <2>4. GhostTypes'
      BY <2>1, InHand, OutboxAssumption DEF Lose, GhostTypes, OutboxAssumption
    <2>5. DrainTypes'
      <3>1. seen' \in [Drains -> [Rows -> Nat]]
        BY <2>1, <2>2 DEF DrainTypes
      <3>2. /\ phase' \in [Drains -> Phases]
            /\ since' \in [Drains -> 0..MaxDrain]
            /\ dealt' \in [Drains -> Nat]
            /\ queue' \in [Drains -> Seq(Rows)]
        BY <2>1, DrainTime DEF DrainTypes, Phases
      <3> QED BY <3>1, <3>2 DEF DrainTypes
    <2>6. ASSUME NEW e \in Drains
          PROVE  (Busy(e)' <=> queue'[e] # <<>>) /\ dealt'[e] + Len(queue'[e]) <= Batch
      <3>1. CASE e = d
        <4>1. queue'[e] = <<>> /\ phase'[e] = "idle" /\ dealt'[e] = 0
          BY <3>1, <2>1 DEF DrainTypes
        <4> QED BY <4>1, OutboxAssumption DEF Busy, OutboxAssumption
      <3>2. CASE e # d
        <4>1. queue'[e] = queue[e] /\ phase'[e] = phase[e] /\ dealt'[e] = dealt[e]
          BY <3>2, <2>1 DEF DrainTypes
        <4> QED BY <4>1 DEF BatchInHand, Busy
      <3> QED BY <3>1, <3>2
    <2> QED BY <2>3, <2>4, <2>5, <2>6 DEF BatchInHand
  <1>10. ASSUME Tick PROVE TypeOK'
    <2>1. \A d \in Drains : Busy(d) => since[d] + 1 \in 0..MaxDrain
      <3>1. SUFFICES ASSUME NEW d \in Drains, Busy(d) PROVE since[d] + 1 \in 0..MaxDrain
        OBVIOUS
      <3>2. queue[d] \in Seq(Rows) /\ queue[d] # <<>> /\ dealt[d] + Len(queue[d]) <= Batch
            /\ dealt[d] \in Nat /\ since[d] \in 0..MaxDrain
        BY <3>1 DEF BatchInHand, DrainTypes
      <3>3. dealt[d] + 1 <= Batch
        BY <3>2, OutboxAssumption DEF OutboxAssumption
      <3>4. MaxSend * (dealt[d] + 1) <= MaxDrain
        <4> DEFINE k == dealt[d] + 1
        <4>1. MaxSend \in Nat /\ k \in Nat /\ Batch \in Nat /\ k <= Batch
          BY <3>2, <3>3, OutboxAssumption DEF OutboxAssumption
        <4> HIDE DEF k
        <4>2. MaxSend * k <= MaxSend * Batch
          BY <4>1, Monotone, Zenon
        <4> QED BY <4>2 DEF MaxDrain, k
      <3>5. since[d] < MaxSend * (dealt[d] + 1)
        BY <1>10, <3>1 DEF Tick
      <3>6. MaxSend * (dealt[d] + 1) \in Int
        BY <3>2, OutboxAssumption DEF OutboxAssumption
      <3> QED BY <3>2, <3>4, <3>5, <3>6, DrainTime
    <2>2. DrainTypes'
      <3>1. since' \in [Drains -> 0..MaxDrain]
        BY <1>10, <2>1, DrainTime DEF Tick
      <3> QED BY <1>10, <3>1 DEF Tick, DrainTypes
    <2>3. BatchInHand' /\ GhostTypes'
      <3>1. \A r \in Rows : Cardinality({d \in Drains : Holds(d, r) /\ since[d] + 1 = Lease}) \in Nat
        BY Sizes
      <3>2. overdue' \in [Rows -> Nat]
        BY <1>10, <3>1 DEF Tick, GhostTypes
      <3> QED BY <1>10, <3>2 DEF Tick, BatchInHand, Busy, GhostTypes
    <2>4. RowTypes'
      BY <1>10 DEF Tick, RowTypes
    <2> QED BY <2>2, <2>3, <2>4
  <1>11. ASSUME UNCHANGED vars PROVE TypeOK'
    BY <1>11 DEF vars, rowVars, drainVars, ghosts, RowTypes, DrainTypes, GhostTypes,
       BatchInHand, Busy
  <1> QED
    BY <1>1, <1>2, <1>3, <1>4, <1>5, <1>6, <1>7, <1>8, <1>9, <1>10, <1>11
    DEF Next, Deliver

(* Init, Types and the temporal step.                                      *)
LEMMA InitTypes == Init => TypeOK
  <1> SUFFICES ASSUME Init PROVE TypeOK
    OBVIOUS
  <1>1. RowTypes /\ GhostTypes
    BY OutboxAssumption DEF Init, RowTypes, GhostTypes, OutboxAssumption
  <1>2. DrainTypes
    <2>1. [r \in Rows |-> 0] \in [Rows -> Nat]
      OBVIOUS
    <2>2. seen \in [Drains -> [Rows -> Nat]]
      BY <2>1 DEF Init
    <2>3. queue \in [Drains -> Seq(Rows)]
      BY DEF Init
    <2>4. since \in [Drains -> 0..MaxDrain]
      BY DrainTime DEF Init
    <2> QED BY <2>2, <2>3, <2>4 DEF Init, DrainTypes, Phases
  <1>3. BatchInHand
    BY OutboxAssumption DEF Init, BatchInHand, Busy, OutboxAssumption
  <1> QED BY <1>1, <1>2, <1>3 DEF TypeOK

(* TypeOK: the columns of every row and the batch of every drain keep their*)
(* types, and a drain ends exactly with its batch.                         *)
THEOREM TypeCorrect == Spec => []TypeOK
  <1>1. Init => TypeOK
    BY InitTypes
  <1>2. TypeOK /\ [Next]_vars => TypeOK'
    BY NextTypes
  <1> QED BY <1>1, <1>2, PTL DEF Spec

-------------------------------------------------------------------------------
(* What a step of one drain does to itself and leaves alone of the others. *)

Working(d) == Claim(d) \/ SendSucceeds(d) \/ SendFails(d)
Moving(d) ==
  Skip(d) \/ RecordSent(d) \/ RecordFailure(d) \/ RecordLost(d) \/ Abandon(d)

LEMMA OthersUntouched ==
  ASSUME TypeOK, NEW d \in Drains, Start(d) \/ Working(d) \/ Moving(d),
         NEW e \in Drains, e # d
  PROVE  /\ phase'[e] = phase[e] /\ since'[e] = since[e]
         /\ queue'[e] = queue[e] /\ seen'[e] = seen[e]
  <1> USE DEF TypeOK, DrainTypes
  <1>1. CASE Start(d)
    BY <1>1 DEF Start
  <1>2. CASE Working(d)
    BY <1>2 DEF Working, Claim, SendSucceeds, SendFails
  <1>3. CASE Abandon(d)
    BY <1>3 DEF Abandon
  <1>4. CASE Advance(d)
    BY <1>4 DEF Advance
  <1> QED BY <1>1, <1>2, <1>3, <1>4 DEF Moving, Skip, RecordSent, RecordFailure, RecordLost

(* A drain that moves on has no row in hand and no more recollections.     *)
LEMMA MovesOn ==
  ASSUME TypeOK, NEW d \in Drains, Moving(d)
  PROVE  /\ phase'[d] \in {"next", "idle"}
         /\ seen'[d] = seen[d] \/ seen'[d] = [r \in Rows |-> 0]
  <1> USE DEF TypeOK, DrainTypes
  <1>1. CASE Abandon(d)
    BY <1>1 DEF Abandon
  <1>2. CASE Advance(d)
    BY <1>2 DEF Advance
  <1> QED BY <1>1, <1>2 DEF Moving, Skip, RecordSent, RecordFailure, RecordLost

(* Every step is one of these.                                             *)
LEMMA Steps ==
  ASSUME [Next]_vars
  PROVE  \/ \E r \in Rows : Enqueue(r)
         \/ \E d \in Drains : Start(d) \/ Working(d) \/ Moving(d)
         \/ Tick
         \/ UNCHANGED vars
  BY DEF Next, Deliver, Working, Moving

-------------------------------------------------------------------------------
(* Attempts.  A stale count is never ahead of the sends made.              *)
Counted ==
  /\ \A r \in Rows : attempts[r] <= tries[r]
  /\ \A d \in Drains, r \in Rows : seen[d][r] <= tries[r]
  /\ \A d \in Drains, r \in Rows : Holds(d, r) => seen[d][r] + 1 <= tries[r]

LEMMA CountedKept ==
  ASSUME TypeOK, TypeOK', Counted, [Next]_vars
  PROVE  Counted'
  <1> DEFINE Good(e, r) ==
        seen[e][r] <= tries[r] /\ (Holds(e, r) => seen[e][r] + 1 <= tries[r])
  <1>a. \A e \in Drains, r \in Rows : seen[e][r] \in Nat /\ seen'[e][r] \in Nat
    <2>1. \A e \in Drains : seen[e] \in [Rows -> Nat] /\ seen'[e] \in [Rows -> Nat]
      BY DEF TypeOK, DrainTypes
    <2> QED BY <2>1
  <1>b. \A r \in Rows : attempts[r] \in Nat /\ tries[r] \in Nat /\ tries'[r] \in Nat
    BY DEF TypeOK, RowTypes, GhostTypes
  <1>c. (\A r \in Rows : attempts[r] <= tries[r]) /\ (\A e \in Drains, r \in Rows : Good(e, r))
    BY DEF Counted
  <1>d. ASSUME \A r \in Rows : attempts'[r] <= tries'[r],
               \A e \in Drains, r \in Rows : Good(e, r)'
        PROVE  Counted'
    BY <1>d DEF Counted
  <1>1. ASSUME UNCHANGED <<attempts, tries, seen, phase, queue>> PROVE Counted'
    BY <1>1 DEF Counted, Holds
  <1>2. ASSUME NEW d \in Drains, Start(d) PROVE Counted'
    <2>1. tries' = tries /\ attempts' = attempts
      BY <1>2 DEF Start, rowVars, ghosts
    <2>2. phase'[d] = "next"
      BY <1>2 DEF Start, TypeOK, DrainTypes
    <2>3. \A r \in Rows : seen'[d][r] \in {attempts[r], 0}
      <3>1. PICK q \in Selections : seen' = [seen EXCEPT ![d] =
               [r \in Rows |-> IF \E i \in DOMAIN q : q[i] = r THEN attempts[r] ELSE 0]]
        BY <1>2 DEF Start
      <3>2. seen'[d] = [r \in Rows |-> IF \E i \in DOMAIN q : q[i] = r THEN attempts[r] ELSE 0]
        BY <3>1 DEF TypeOK, DrainTypes
      <3> QED BY <3>2
    <2>4. ASSUME NEW e \in Drains, NEW r \in Rows PROVE Good(e, r)'
      <3>1. CASE e = d
        <4>1. ~Holds(e, r)'
          BY <2>2, <3>1 DEF Holds
        <4>2. seen'[e][r] = attempts[r] \/ seen'[e][r] = 0
          BY <2>3, <3>1
        <4>3. seen'[e][r] <= tries[r]
          BY <4>2, <1>b, <1>c
        <4> QED BY <4>1, <4>3, <2>1
      <3>2. CASE e # d
        <4>1. seen'[e] = seen[e] /\ phase'[e] = phase[e] /\ queue'[e] = queue[e]
          BY <3>2, <1>2, OthersUntouched
        <4> QED BY <4>1, <2>1, <1>c DEF Holds
      <3> QED BY <3>1, <3>2
    <2> QED BY <2>1, <2>4, <1>c, <1>d
  <1>3. ASSUME NEW d \in Drains, Claim(d) PROVE Counted'
    <2> DEFINE w == Head(queue[d])
    <2>1. w \in Rows
      BY <1>3, InHand DEF Claim, Busy, TypeOK
    <2>2. /\ attempts' = [attempts EXCEPT ![w] = attempts[w] + 1]
          /\ tries' = [tries EXCEPT ![w] = tries[w] + 1]
          /\ seen' = seen /\ queue' = queue
      BY <1>3 DEF Claim
    <2>3. \A r \in Rows : r # w => attempts'[r] = attempts[r] /\ tries'[r] = tries[r]
      BY <2>2 DEF TypeOK, RowTypes, GhostTypes
    <2>4. attempts'[w] = attempts[w] + 1 /\ tries'[w] = tries[w] + 1
      BY <2>1, <2>2 DEF TypeOK, RowTypes, GhostTypes
    <2>5. ASSUME NEW e \in Drains, NEW r \in Rows, Holds(e, r)' PROVE Holds(e, r) \/ r = w
      <3>1. CASE e = d
        BY <2>2, <2>5, <3>1 DEF Holds
      <3>2. CASE e # d
        <4>1. phase'[e] = phase[e] /\ queue'[e] = queue[e]
          BY <3>2, <1>3, OthersUntouched DEF Working
        <4> QED BY <2>5, <4>1 DEF Holds
      <3> QED BY <3>1, <3>2
    <2> HIDE DEF w
    <2>6. ASSUME NEW r \in Rows PROVE attempts'[r] <= tries'[r] /\ tries[r] <= tries'[r]
      <3>1. CASE r = w
        BY <3>1, <2>4, <1>b, <1>c
      <3>2. CASE r # w
        BY <3>2, <2>3, <1>b, <1>c
      <3> QED BY <3>1, <3>2
    <2>7. ASSUME NEW e \in Drains, NEW r \in Rows PROVE Good(e, r)'
      <3>1. seen'[e][r] = seen[e][r] /\ seen[e][r] \in Nat /\ seen[e][r] <= tries[r]
        BY <2>2, <1>a, <1>c
      <3>2. seen'[e][r] <= tries'[r]
        BY <3>1, <2>6, <1>b
      <3>3. ASSUME Holds(e, r)' PROVE seen'[e][r] + 1 <= tries'[r]
        <4>1. CASE Holds(e, r)
          BY <4>1, <3>1, <2>6, <1>b, <1>c
        <4>2. CASE r = w
          BY <4>2, <3>1, <2>4, <1>b
        <4> QED BY <4>1, <4>2, <3>3, <2>5
      <3> QED BY <3>2, <3>3
    <2> QED BY <2>6, <2>7, <1>d
  <1>4. ASSUME NEW d \in Drains, SendSucceeds(d) \/ SendFails(d) PROVE Counted'
    <2>1. UNCHANGED <<attempts, tries, seen, queue>>
      BY <1>4 DEF SendSucceeds, SendFails, rowVars, ghosts
    <2>2. phase[d] = "sending" /\ \A e \in Drains : e # d => phase'[e] = phase[e]
      BY <1>4 DEF SendSucceeds, SendFails, TypeOK, DrainTypes
    <2>3. ASSUME NEW e \in Drains, NEW r \in Rows PROVE Good(e, r)'
      <3>1. Holds(e, r)' => Holds(e, r)
        BY <2>1, <2>2 DEF Holds
      <3> QED BY <3>1, <2>1, <1>c
    <2> QED BY <2>1, <2>3, <1>c, <1>d
  <1>5. ASSUME NEW d \in Drains, Moving(d) PROVE Counted'
    <2>1. tries' = tries
      BY <1>5 DEF Moving, Skip, RecordSent, RecordFailure, RecordLost, Abandon, Lose, ghosts
    <2>2. \A r \in Rows : attempts'[r] <= tries[r]
      <3>1. CASE RecordSent(d) \/ RecordFailure(d)
        <4> DEFINE w == Head(queue[d])
        <4>1. w \in Rows /\ Holds(d, w)
          BY <3>1, InHand DEF RecordSent, RecordFailure, Busy, Holds, TypeOK
        <4>2. attempts' = [attempts EXCEPT ![w] = seen[d][w] + 1]
          BY <3>1 DEF RecordSent, RecordFailure
        <4> HIDE DEF w
        <4>3. seen[d][w] + 1 <= tries[w]
          BY <4>1, <1>c
        <4>4. \A r \in Rows : attempts'[r] = IF r = w THEN seen[d][w] + 1 ELSE attempts[r]
          BY <4>1, <4>2 DEF TypeOK, RowTypes
        <4> QED BY <4>3, <4>4, <1>c
      <3>2. CASE Skip(d) \/ RecordLost(d) \/ Abandon(d)
        BY <3>2, <1>c DEF Skip, RecordLost, Abandon, Lose, rowVars
      <3> QED BY <1>5, <3>1, <3>2 DEF Moving
    <2>3. ASSUME NEW e \in Drains, NEW r \in Rows PROVE Good(e, r)'
      <3>1. CASE e = d
        <4>1. ~Holds(e, r)'
          BY <3>1, <1>5, MovesOn DEF Holds
        <4>2. seen'[e][r] = seen[e][r] \/ seen'[e][r] = 0
          BY <3>1, <1>5, MovesOn
        <4>3. seen'[e][r] <= tries[r]
          BY <4>2, <1>b, <1>c
        <4> QED BY <4>1, <4>3, <2>1
      <3>2. CASE e # d
        <4>1. seen'[e] = seen[e] /\ phase'[e] = phase[e] /\ queue'[e] = queue[e]
          BY <3>2, <1>5, OthersUntouched
        <4> QED BY <4>1, <2>1, <1>c DEF Holds
      <3> QED BY <3>1, <3>2
    <2> QED BY <2>1, <2>2, <2>3, <1>d
  <1>6. ASSUME Tick \/ (\E r \in Rows : Enqueue(r)) \/ UNCHANGED vars PROVE Counted'
    BY <1>6, <1>1 DEF Tick, Enqueue, vars, rowVars, drainVars, ghosts
  <1> QED BY Steps, <1>2, <1>3, <1>4, <1>5, <1>6 DEF Working

(* Neither the sends made nor a row's age ever fall.                       *)
LEMMA NeverFall ==
  ASSUME TypeOK, [Next]_vars, NEW r \in Rows
  PROVE  tries[r] <= tries'[r] /\ age[r] <= age'[r]
  <1>0. tries[r] \in Nat /\ age[r] \in Nat
    BY DEF TypeOK, RowTypes, GhostTypes
  <1>1. ASSUME NEW d \in Drains, Claim(d) PROVE tries[r] <= tries'[r] /\ age[r] <= age'[r]
    <2>1. /\ tries' = [tries EXCEPT ![Head(queue[d])] = tries[Head(queue[d])] + 1]
          /\ age' = age
      BY <1>1 DEF Claim
    <2>2. tries'[r] = tries[r] \/ tries'[r] = tries[r] + 1
      BY <2>1 DEF TypeOK, GhostTypes
    <2> QED BY <1>0, <2>1, <2>2
  <1>2. ASSUME Tick PROVE tries[r] <= tries'[r] /\ age[r] <= age'[r]
    <2>1. tries' = tries /\ (age'[r] = age[r] + 1 \/ age'[r] = age[r])
      BY <1>2 DEF Tick, ghosts
    <2> QED BY <1>0, <2>1
  <1>3. ASSUME UNCHANGED <<tries, age>> PROVE tries[r] <= tries'[r] /\ age[r] <= age'[r]
    BY <1>0, <1>3
  <1> QED
    BY <1>1, <1>2, <1>3
    DEF Next, Deliver, Enqueue, Start, Skip, SendSucceeds, SendFails, RecordSent,
        RecordFailure, RecordLost, Abandon, Lose, vars, rowVars, drainVars, ghosts

LEMMA DeservedKept ==
  ASSUME TypeOK, Counted, DeadIsDeserved, [Next]_vars
  PROVE  DeadIsDeserved'
  <1> SUFFICES ASSUME NEW r \in Rows, status'[r] = "dead"
               PROVE  tries'[r] >= MaxAttempts \/ age'[r] >= MaxAge
    BY DEF DeadIsDeserved
  <1>1. /\ tries[r] \in Nat /\ age[r] \in Nat /\ tries'[r] \in Nat /\ age'[r] \in Nat
        /\ tries[r] <= tries'[r] /\ age[r] <= age'[r]
    BY NextTypes, NeverFall DEF TypeOK, RowTypes, GhostTypes
  <1>2. MaxAttempts \in Nat /\ MaxAge \in Nat
    BY OutboxAssumption DEF OutboxAssumption
  <1>3. CASE status[r] = "dead"
    BY <1>1, <1>2, <1>3 DEF DeadIsDeserved
  <1>4. CASE status[r] # "dead"
    <2>1. PICK d \in Drains : RecordFailure(d)
      BY <1>4
      DEF Next, Deliver, Enqueue, Start, Claim, Skip, SendSucceeds, SendFails, RecordSent,
          RecordLost, Abandon, Lose, Tick, vars, rowVars, ghosts, TypeOK, RowTypes
    <2> DEFINE w == Head(queue[d])
               n == seen[d][w] + 1
    <2>2. Busy(d) /\ w \in Rows /\ Holds(d, w)
      BY <2>1, InHand DEF RecordFailure, Busy, TypeOK, Holds
    <2>3. w = r /\ ShouldDeadLetter(n, age[w] - since[d])
      BY <1>4, <2>1, <2>2 DEF RecordFailure, TypeOK, RowTypes
    <2>4. n \in Nat /\ n <= tries[w]
      BY <2>2 DEF Counted, TypeOK, DrainTypes
    <2>5. since[d] \in Nat
      BY DrainTime DEF TypeOK, DrainTypes
    <2> HIDE DEF w, n
    <2>6. n >= MaxAttempts \/ age[w] - since[d] >= MaxAge
      BY <2>3 DEF ShouldDeadLetter
    <2> QED BY <1>1, <1>2, <2>3, <2>4, <2>5, <2>6
  <1> QED BY <1>3, <1>4

(* DeadIsDeserved: a message is given up only after MaxAttempts real sends *)
(* or at the age limit, even when a drain counts from a stale read and     *)
(* even when drains outlive their leases.                                  *)
THEOREM GivenUpDeservedly == Spec => []DeadIsDeserved
  <1> DEFINE I == TypeOK /\ Counted /\ DeadIsDeserved
  <1>1. Init => I
    <2> SUFFICES ASSUME Init PROVE Counted /\ DeadIsDeserved
      BY InitTypes
    <2>1. \A r \in Rows : attempts[r] = 0 /\ tries[r] = 0 /\ status[r] = "none"
      BY DEF Init
    <2>2. \A d \in Drains, r \in Rows : seen[d][r] = 0 /\ phase[d] = "idle"
      BY DEF Init
    <2> QED BY <2>1, <2>2 DEF Counted, DeadIsDeserved, Holds
  <1>2. I /\ [Next]_vars => I'
    BY NextTypes, CountedKept, DeservedKept
  <1>3. I => DeadIsDeserved
    OBVIOUS
  <1> QED BY <1>1, <1>2, <1>3, PTL DEF Spec

-------------------------------------------------------------------------------
(* Leases.  Nobody else can claim a row while somebody has it whose lease  *)
(* is not over and has not been shortened by the record of a third.  All   *)
(* who have a row besides must have come to it, or have let somebody else  *)
(* come to it, by outliving a lease.                                       *)

InFlight(r) == {d \in Drains : Holds(d, r) /\ phase[d] # "sent"}

(* Copies that are out or may yet go out, and not owed to a lost outcome.  *)
Owing(r) == delivered[r] - unrecorded[r] + Cardinality(InFlight(r))

Guarded(r) ==
  /\ status[r] \in Open
  /\ \E d \in Drains : Holds(d, r) /\ since[d] < Lease /\ due[r] + since[d] >= Lease

LeasesKept(r) ==
  /\ Cardinality(Holders(r)) <= overdue[r] + 1
  /\ ~Guarded(r) => Cardinality(Holders(r)) <= overdue[r]
  /\ Owing(r) <= overdue[r] + 1
  /\ ~Guarded(r) /\ status[r] \notin Settled => Owing(r) <= overdue[r]

(* The sizes involved are numbers.                                         *)
LEMMA Numbers ==
  ASSUME TypeOK, NEW r \in Rows
  PROVE  /\ Cardinality(Holders(r)) \in Nat /\ Cardinality(InFlight(r)) \in Nat
         /\ overdue[r] \in Nat /\ delivered[r] \in Nat /\ unrecorded[r] \in Nat
         /\ due[r] \in Int /\ Lease \in Nat /\ Lease > 0
         /\ \A d \in Drains : since[d] \in Nat
  <1>1. Holders(r) \in SUBSET Drains /\ InFlight(r) \in SUBSET Drains
    BY DEF Holders, InFlight
  <1>2. \A d \in Drains : since[d] \in Nat
    BY DrainTime DEF TypeOK, DrainTypes
  <1>3. Lease \in Nat /\ Lease > 0
    BY OutboxAssumption DEF OutboxAssumption
  <1>4. overdue[r] \in Nat /\ delivered[r] \in Nat /\ unrecorded[r] \in Nat /\ due[r] \in Int
    BY DEF TypeOK, RowTypes, GhostTypes
  <1> QED BY <1>1, <1>2, <1>3, <1>4, Sizes

(* Whoever else has the row keeps it while d takes a step.                 *)
LEMMA OthersKeep ==
  ASSUME TypeOK, NEW d \in Drains, Start(d) \/ Working(d) \/ Moving(d), NEW r \in Rows
  PROVE  /\ Holders(r)' \ {d} = Holders(r) \ {d}
         /\ InFlight(r)' \ {d} = InFlight(r) \ {d}
         /\ d \in Holders(r)' <=> Holds(d, r)'
         /\ d \in InFlight(r)' <=> Holds(d, r)' /\ phase'[d] # "sent"
  BY OthersUntouched DEF Holders, InFlight, Holds

(* A step that leaves the row, its holders and their copies alone.         *)
LEMMA LeftAlone ==
  ASSUME TypeOK, NEW r \in Rows, LeasesKept(r),
         Cardinality(Holders(r))' = Cardinality(Holders(r)), Owing(r)' = Owing(r),
         overdue'[r] = overdue[r], Guarded(r) => Guarded(r)',
         status'[r] \in Settled <=> status[r] \in Settled
  PROVE  LeasesKept(r)'
  BY Numbers DEF LeasesKept

(* A guard who takes no step stays one as long as the row's columns stay.  *)
LEMMA GuardStays ==
  ASSUME TypeOK, NEW r \in Rows, Guarded(r), status'[r] = status[r], due'[r] = due[r],
         \A e \in Drains : Holds(e, r) => Holds(e, r)' /\ since'[e] = since[e]
  PROVE  Guarded(r)'
  BY DEF Guarded

(* A step of a drain that neither has the row nor takes it.                *)
LEMMA Elsewhere ==
  ASSUME TypeOK, NEW d \in Drains, Start(d) \/ Working(d) \/ Moving(d), NEW r \in Rows,
         LeasesKept(r), ~Holds(d, r), ~Holds(d, r)',
         status'[r] = status[r], due'[r] = due[r], delivered'[r] = delivered[r],
         unrecorded'[r] = unrecorded[r], overdue'[r] = overdue[r]
  PROVE  LeasesKept(r)'
  <1>1. Holders(r)' = Holders(r) /\ InFlight(r)' = InFlight(r)
    BY OthersKeep DEF Holders, InFlight
  <1>2. Cardinality(Holders(r))' = Cardinality(Holders(r)) /\ Owing(r)' = Owing(r)
    BY <1>1 DEF Owing
  <1>3. Guarded(r) => Guarded(r)'
    BY OthersUntouched, GuardStays DEF Holds
  <1> QED BY <1>2, <1>3, LeftAlone

(* A claim meets no guard, and the claimer is one unless its lease is over *)
(* already.                                                                *)
LEMMA ClaimKeeps ==
  ASSUME TypeOK, NEW d \in Drains, Claim(d), NEW r \in Rows, r = Head(queue[d]), LeasesKept(r)
  PROVE  LeasesKept(r)'
  <1>1. /\ status[r] \in Open /\ due[r] <= -since[d] /\ phase[d] = "next"
        /\ status'[r] = status[r] /\ due'[r] = Lease - since[d] /\ since'[d] = since[d]
        /\ phase'[d] = "sending" /\ queue' = queue
        /\ delivered'[r] = delivered[r] /\ unrecorded'[r] = unrecorded[r]
        /\ overdue'[r] = IF since[d] >= Lease THEN overdue[r] + 1 ELSE overdue[r]
    BY DEF Claim, Claimable, TypeOK, RowTypes, DrainTypes, GhostTypes
  <1>2. ~Guarded(r)
    BY <1>1, Numbers DEF Guarded
  <1>3. Holds(d, r)' /\ ~Holds(d, r)
    BY <1>1 DEF Holds
  <1>4. Holders(r)' = Holders(r) \cup {d} /\ InFlight(r)' = InFlight(r) \cup {d}
        /\ d \notin Holders(r) /\ d \notin InFlight(r)
    BY <1>1, <1>3, OthersKeep DEF Working, Holders, InFlight
  <1>5. Holders(r) \in SUBSET Drains /\ InFlight(r) \in SUBSET Drains
    BY DEF Holders, InFlight
  <1>6. /\ Cardinality(Holders(r))' = Cardinality(Holders(r)) + 1
        /\ Cardinality(InFlight(r))' = Cardinality(InFlight(r)) + 1
    BY <1>4, <1>5, Sizes, FS_AddElement
  <1>7. since[d] < Lease => Guarded(r)'
    BY <1>1, <1>3, Numbers DEF Guarded
  <1>8. Owing(r)' = Owing(r) + 1 /\ Owing(r) \in Int
    BY <1>1, <1>6, Numbers DEF Owing
  <1>9. status[r] \notin Settled
    BY <1>1 DEF Open, Settled
  <1>10. Cardinality(Holders(r)) <= overdue[r] /\ Owing(r) <= overdue[r]
    BY <1>2, <1>9 DEF LeasesKept
  <1>11. CASE since[d] < Lease
    <2>1. overdue'[r] = overdue[r]
      BY <1>1, <1>11, Numbers
    <2> QED BY <1>6, <1>7, <1>8, <1>10, <1>11, <2>1, Numbers DEF LeasesKept
  <1>12. CASE since[d] >= Lease
    <2>1. overdue'[r] = overdue[r] + 1
      BY <1>1, <1>12
    <2> QED BY <1>6, <1>8, <1>10, <2>1, Numbers DEF LeasesKept
  <1> QED BY <1>11, <1>12, Numbers

(* The gateway's answer turns a copy on its way into one that is out.      *)
LEMMA AnswerKeeps ==
  ASSUME TypeOK, NEW d \in Drains, SendSucceeds(d) \/ SendFails(d),
         NEW r \in Rows, r = Head(queue[d]), LeasesKept(r)
  PROVE  LeasesKept(r)'
  <1>1. /\ phase[d] = "sending" /\ queue' = queue /\ since' = since
        /\ status' = status /\ due' = due
        /\ unrecorded' = unrecorded /\ overdue' = overdue
        /\ phase'[d] \in {"sent", "refused"}
    BY DEF SendSucceeds, SendFails, rowVars, ghosts, TypeOK, DrainTypes
  <1>2. Holds(d, r) /\ Holds(d, r)'
    BY <1>1 DEF Holds
  <1>3. Holders(r)' = Holders(r) /\ d \in InFlight(r)
    BY <1>1, <1>2, OthersKeep DEF Working, Holders, InFlight
  <1>4. Owing(r)' = Owing(r)
    <2>1. CASE SendSucceeds(d)
      <3>1. phase'[d] = "sent" /\ delivered'[r] = delivered[r] + 1
        BY <2>1 DEF SendSucceeds, TypeOK, DrainTypes, GhostTypes
      <3>2. InFlight(r)' = InFlight(r) \ {d} /\ InFlight(r) \in SUBSET Drains
        BY <2>1, <3>1, OthersKeep DEF Working, InFlight
      <3>3. Cardinality(InFlight(r))' = Cardinality(InFlight(r)) - 1
        BY <1>3, <3>2, Sizes, FS_RemoveElement
      <3> QED BY <1>1, <3>1, <3>3, Numbers DEF Owing
    <2>2. CASE SendFails(d)
      <3>1. phase'[d] = "refused" /\ delivered' = delivered
        BY <2>2 DEF SendFails, ghosts, TypeOK, DrainTypes
      <3>2. InFlight(r)' = InFlight(r)
        BY <1>2, <1>3, <2>2, <3>1, OthersKeep DEF Working, InFlight
      <3> QED BY <1>1, <3>1, <3>2 DEF Owing
    <2> QED BY <2>1, <2>2
  <1>5. Guarded(r) => Guarded(r)'
    <2>1. \A e \in Drains : Holds(e, r) => Holds(e, r)'
      BY <1>2, OthersUntouched DEF Working, Holds
    <2> QED BY <1>1, <2>1, GuardStays
  <1> QED BY <1>1, <1>3, <1>4, <1>5, LeftAlone

(* Whoever lets go of a row makes room for one more: a copy that is out is *)
(* then recorded, which settles the row, or counts as lost.                *)
LEMMA LettingGo ==
  ASSUME TypeOK, NEW d \in Drains, Moving(d), NEW r \in Rows, Holds(d, r), LeasesKept(r)
  PROVE  LeasesKept(r)'
  <1>1. ~Holds(d, r)'
    BY MovesOn DEF Holds
  <1>2. r = Head(queue[d]) /\ phase[d] \in {"sending", "sent", "refused"}
    BY DEF Holds
  <1>3. /\ Holders(r)' = Holders(r) \ {d} /\ d \in Holders(r)
        /\ InFlight(r)' = InFlight(r) \ {d}
        /\ d \in InFlight(r) <=> phase[d] # "sent"
        /\ Holders(r) \in SUBSET Drains /\ InFlight(r) \in SUBSET Drains
    BY <1>1, OthersKeep DEF Holders, InFlight
  <1>4. Cardinality(Holders(r))' = Cardinality(Holders(r)) - 1
    BY <1>3, Sizes, FS_RemoveElement
  <1>5. Cardinality(InFlight(r))' =
          IF phase[d] = "sent" THEN Cardinality(InFlight(r)) ELSE Cardinality(InFlight(r)) - 1
    BY <1>3, Sizes, FS_RemoveElement
  <1>6. delivered' = delivered /\ overdue' = overdue
    BY DEF Moving, Skip, RecordSent, RecordFailure, RecordLost, Abandon, Lose, ghosts
  <1>7. CASE RecordSent(d)
    <2>1. phase[d] = "sent" /\ status'[r] = "sent" /\ unrecorded' = unrecorded
      BY <1>2, <1>7 DEF RecordSent, ghosts, TypeOK, RowTypes
    <2>2. Owing(r)' = Owing(r) /\ status'[r] \in Settled
      BY <1>5, <1>6, <2>1 DEF Owing, Settled
    <2> QED BY <1>4, <1>6, <2>2, Numbers DEF LeasesKept
  <1>8. CASE RecordFailure(d)
    <2>1. phase[d] = "refused" /\ unrecorded' = unrecorded
      BY <1>8 DEF RecordFailure, ghosts
    <2>2. Owing(r)' = Owing(r) - 1 /\ Owing(r) \in Int
      BY <1>5, <1>6, <2>1, Numbers DEF Owing
    <2> QED BY <1>4, <1>6, <2>2, Numbers DEF LeasesKept
  <1>9. CASE RecordLost(d) \/ Abandon(d)
    <2>1. unrecorded'[r] = IF phase[d] = "sent" THEN unrecorded[r] + 1 ELSE unrecorded[r]
      BY <1>2, <1>9 DEF RecordLost, Abandon, Lose, TypeOK, GhostTypes
    <2>2. Owing(r)' = Owing(r) - 1 /\ Owing(r) \in Int
      BY <1>5, <1>6, <2>1, Numbers DEF Owing
    <2> QED BY <1>4, <1>6, <2>2, Numbers DEF LeasesKept
  <1>10. ~Skip(d)
    BY <1>2 DEF Skip
  <1> QED BY <1>7, <1>8, <1>9, <1>10 DEF Moving

(* Time takes the guard away exactly when it adds to what is overdue.      *)
LEMMA TickKeeps ==
  ASSUME TypeOK, Tick, NEW r \in Rows, LeasesKept(r)
  PROVE  LeasesKept(r)'
  <1> DEFINE turning == {d \in Drains : Holds(d, r) /\ since[d] + 1 = Lease}
  <1>1. /\ UNCHANGED <<status, phase, queue, delivered, unrecorded>>
        /\ overdue'[r] = overdue[r] + Cardinality(turning)
        /\ due'[r] >= due[r] - 1
    BY Numbers DEF Tick
  <1>2. turning \in SUBSET Drains /\ Cardinality(turning) \in Nat
    BY Sizes
  <1>3. Holders(r)' = Holders(r) /\ Owing(r)' = Owing(r) /\ Owing(r) \in Int
    <2>1. Holders(r)' = Holders(r) /\ InFlight(r)' = InFlight(r)
      BY <1>1 DEF Holders, InFlight, Holds
    <2> QED BY <1>1, <2>1, Numbers DEF Owing
  <1>4. ASSUME Guarded(r), ~Guarded(r)'
        PROVE  Cardinality(turning) >= 1
    <2>1. PICK d \in Drains : Holds(d, r) /\ since[d] < Lease /\ due[r] + since[d] >= Lease
      BY <1>4 DEF Guarded
    <2>2. since'[d] = since[d] + 1 /\ Holds(d, r)'
      BY <1>1, <2>1 DEF Tick, Holds, Busy
    <2>3. due'[r] + since'[d] >= Lease
      <3>1. due'[r] \in Int
        BY Numbers DEF Tick
      <3> QED BY <1>1, <2>1, <2>2, <3>1, Numbers
    <2>4. ~(since'[d] < Lease)
      BY <1>1, <1>4, <2>2, <2>3 DEF Guarded
    <2>5. since[d] + 1 = Lease
      BY <2>1, <2>2, <2>4, Numbers
    <2>6. d \in turning
      BY <2>1, <2>5
    <2>7. Cardinality(turning) # 0
      BY <1>2, <2>6, Sizes, FS_EmptySet
    <2> HIDE DEF turning
    <2> QED BY <1>2, <2>7
  <1> HIDE DEF turning
  <1> QED BY <1>1, <1>2, <1>3, <1>4, Numbers DEF LeasesKept

LEMMA LeasesStayKept ==
  ASSUME TypeOK, NEW r \in Rows, LeasesKept(r), [Next]_vars
  PROVE  LeasesKept(r)'
  <1>1. ASSUME NEW q \in Rows, Enqueue(q) PROVE LeasesKept(r)'
    <2>1. UNCHANGED <<due, phase, since, queue, delivered, unrecorded, overdue>>
          /\ (status'[r] = status[r] \/ (status[r] = "none" /\ status'[r] = "pending"))
      BY <1>1 DEF Enqueue, drainVars, ghosts, TypeOK, RowTypes
    <2>2. Guarded(r) => Guarded(r)'
      BY <2>1 DEF Guarded, Holds, Open
    <2>3. Holders(r)' = Holders(r) /\ Owing(r)' = Owing(r)
      BY <2>1 DEF Holders, Owing, InFlight, Holds
    <2>4. status'[r] \in Settled <=> status[r] \in Settled
      BY <2>1 DEF Settled
    <2> QED BY <2>1, <2>2, <2>3, <2>4, LeftAlone
  <1>2. ASSUME NEW d \in Drains, Start(d) PROVE LeasesKept(r)'
    <2>1. ~Holds(d, r) /\ ~Holds(d, r)'
      BY <1>2 DEF Start, Busy, Holds, TypeOK, DrainTypes
    <2> QED BY <1>2, <2>1, Elsewhere DEF Start, rowVars, ghosts
  <1>3. ASSUME NEW d \in Drains, Working(d) PROVE LeasesKept(r)'
    <2>1. CASE r = Head(queue[d])
      BY <1>3, <2>1, ClaimKeeps, AnswerKeeps DEF Working
    <2>2. CASE r # Head(queue[d])
      <3>1. /\ queue' = queue /\ status'[r] = status[r] /\ due'[r] = due[r]
            /\ delivered'[r] = delivered[r] /\ unrecorded'[r] = unrecorded[r]
            /\ overdue'[r] = overdue[r]
        BY <1>3, <2>2
        DEF Working, Claim, SendSucceeds, SendFails, rowVars, ghosts, TypeOK, RowTypes, GhostTypes
      <3>2. ~Holds(d, r) /\ ~Holds(d, r)'
        BY <2>2, <3>1 DEF Holds
      <3> QED BY <1>3, <3>1, <3>2, Elsewhere
    <2> QED BY <2>1, <2>2
  <1>4. ASSUME NEW d \in Drains, Moving(d) PROVE LeasesKept(r)'
    <2>1. CASE Holds(d, r)
      BY <1>4, <2>1, LettingGo
    <2>2. CASE ~Holds(d, r)
      <3>1. ~Holds(d, r)'
        BY <1>4, MovesOn DEF Holds
      <3>2. /\ status'[r] = status[r] /\ due'[r] = due[r] /\ unrecorded'[r] = unrecorded[r]
            /\ delivered' = delivered /\ overdue' = overdue
        <4>1. CASE RecordSent(d) \/ RecordFailure(d)
          <5>1. r # Head(queue[d])
            BY <2>2, <4>1 DEF RecordSent, RecordFailure, Holds
          <5> QED BY <4>1, <5>1 DEF RecordSent, RecordFailure, ghosts, TypeOK, RowTypes
        <4>2. CASE RecordLost(d) \/ Abandon(d)
          BY <2>2, <4>2 DEF RecordLost, Abandon, Lose, Holds, rowVars, TypeOK, GhostTypes
        <4>3. CASE Skip(d)
          BY <4>3 DEF Skip, rowVars, ghosts
        <4> QED BY <1>4, <4>1, <4>2, <4>3 DEF Moving
      <3> QED BY <1>4, <2>2, <3>1, <3>2, Elsewhere
    <2> QED BY <2>1, <2>2
  <1>5. ASSUME UNCHANGED vars PROVE LeasesKept(r)'
    BY <1>5
    DEF vars, rowVars, drainVars, ghosts, LeasesKept, Holders, Owing, InFlight, Guarded, Holds
  <1> QED BY Steps, <1>1, <1>2, <1>3, <1>4, <1>5, TickKeeps

LeaseInv == TypeOK /\ \A r \in Rows : LeasesKept(r)

LEMMA LeasesAlwaysKept == Spec => []LeaseInv
  <1>1. Init => LeaseInv
    <2> SUFFICES ASSUME Init, NEW r \in Rows PROVE LeasesKept(r)
      BY InitTypes DEF LeaseInv
    <2>1. Holders(r) = {} /\ InFlight(r) = {}
      BY DEF Init, Holders, InFlight, Holds
    <2>2. Cardinality(Holders(r)) = 0 /\ Cardinality(InFlight(r)) = 0
      BY <2>1, FS_EmptySet
    <2>3. delivered[r] = 0 /\ unrecorded[r] = 0 /\ overdue[r] = 0
      BY DEF Init
    <2> QED BY <2>2, <2>3 DEF LeasesKept, Owing
  <1>2. LeaseInv /\ [Next]_vars => LeaseInv'
    BY NextTypes, LeasesStayKept DEF LeaseInv
  <1> QED BY <1>1, <1>2, PTL DEF Spec

(* SendersAccounted: a message is in the hands of one drain at a time, and *)
(* of one more only for each time a drain outlived its lease with it.      *)
THEOREM ExclusiveDelivery == Spec => []SendersAccounted
  <1>1. LeaseInv => SendersAccounted
    <2> SUFFICES ASSUME LeaseInv, NEW r \in Rows
                 PROVE  Cardinality(Holders(r)) <= 1 + overdue[r]
      BY DEF SendersAccounted
    <2> QED BY Numbers DEF LeaseInv, LeasesKept
  <1> QED BY <1>1, LeasesAlwaysKept, PTL

(* CopiesAccounted: a message reaches its recipient once, and once more    *)
(* for every outcome that was lost and every lease that was outlived.      *)
THEOREM DeliveredOnce == Spec => []CopiesAccounted
  <1>1. LeaseInv => CopiesAccounted
    <2> SUFFICES ASSUME LeaseInv, NEW r \in Rows
                 PROVE  delivered[r] <= 1 + unrecorded[r] + overdue[r]
      BY DEF CopiesAccounted
    <2>1. TypeOK /\ Owing(r) <= overdue[r] + 1
      BY DEF LeaseInv, LeasesKept
    <2> QED BY <2>1, Numbers DEF Owing
  <1> QED BY <1>1, LeasesAlwaysKept, PTL

(* A settled row nobody was late with is in nobody's hands, so nobody      *)
(* writes its status.                                                      *)
LEMMA SettledKept ==
  ASSUME LeaseInv, [Next]_vars, NEW r \in Rows, status[r] \in Settled, overdue[r] = 0
  PROVE  status'[r] = status[r]
  <1>0. TypeOK /\ LeasesKept(r)
    BY DEF LeaseInv
  <1>1. ASSUME NEW d \in Drains, RecordSent(d) \/ RecordFailure(d)
        PROVE  status'[r] = status[r]
    <2>1. ~Guarded(r)
      BY DEF Guarded, Open, Settled
    <2>2. Cardinality(Holders(r)) = 0 /\ IsFiniteSet(Holders(r))
      <3>1. Holders(r) \in SUBSET Drains
        BY DEF Holders
      <3> QED BY <1>0, <2>1, <3>1, Numbers, Sizes DEF LeasesKept
    <2>3. Holders(r) = {}
      BY <2>2, FS_EmptySet
    <2>4. Head(queue[d]) # r
      BY <1>1, <2>3 DEF RecordSent, RecordFailure, Holders, Holds
    <2> QED BY <1>0, <1>1, <2>4 DEF RecordSent, RecordFailure, TypeOK, RowTypes
  <1>2. ASSUME NEW q \in Rows, Enqueue(q) PROVE status'[r] = status[r]
    BY <1>0, <1>2 DEF Enqueue, TypeOK, RowTypes, Settled
  <1>3. ASSUME UNCHANGED status PROVE status'[r] = status[r]
    BY <1>3
  <1> QED
    BY <1>1, <1>2, <1>3
    DEF Next, Deliver, Start, Claim, Skip, SendSucceeds, SendFails, RecordLost, Abandon,
        Lose, Tick, vars, rowVars

(* SettledForGood: a message sent or given up, with which no drain was     *)
(* ever late, is never taken up again.                                     *)
THEOREM NeverTakenUpAgain == Spec => SettledForGood
  <1>1. LeaseInv /\ [Next]_vars =>
          [\A r \in Rows : status[r] \in Settled /\ overdue[r] = 0 => status'[r] = status[r]]_vars
    BY SettledKept DEF LeaseInv
  <1> QED BY <1>1, LeasesAlwaysKept, PTL DEF Spec, SettledForGood

================================================================================
