--------------------------- MODULE StockLedgerProofs ---------------------------
(***************************************************************************)
(* Proofs about StockLedger, for any documents, contents and number of     *)
(* approvals: what the ledger can and cannot hold, that the snapshots are  *)
(* always what a rebuild from it would compute, that no receipt line is    *)
(* overdrawn by transfers, and that the documents explain the book stock.  *)
(***************************************************************************)
EXTENDS StockLedger, FiniteSums, TLAPS

(* A delivery in the ledger is one of an event marked posted.              *)
DeliveriesMarked ==
  \A m \in ledger : m.type = "delivery" => m.doc \in Deliveries /\ posted[m.doc] > 0

(* The inductive invariant of what is posted once.                         *)
IInv == RowTypes /\ PostedOnce /\ DeliveriesMarked /\ TransfersConserve

(* Types of the documents' state, which no sum enters.                     *)
LEMMA TypesStep ==
  ASSUME RowTypes, [Next]_vars
  PROVE  RowTypes'
  <1> USE DEF RowTypes, Statuses
  <1>1. CASE UNCHANGED vars
    BY <1>1 DEF vars
  <1>2. ASSUME NEW d \in Papers, Submit(d) PROVE RowTypes'
    BY <1>2 DEF Submit
  <1>3. ASSUME NEW d \in Papers, Reject(d) PROVE RowTypes'
    BY <1>3 DEF Reject
  <1>4. ASSUME NEW d \in Docs, Complete(d)
        PROVE  status' \in [Docs -> Statuses] /\ posted' \in [Docs -> Nat]
    BY <1>4 DEF Complete
  <1>5. ASSUME NEW r \in Arrivals \cup Provisions, ApproveReceipt(r) PROVE RowTypes'
    BY <1>4, <1>5 DEF ApproveReceipt, Docs, Papers, Receipts
  <1>6. ASSUME NEW f \in Finals, CheckConvert(f) PROVE RowTypes'
    BY <1>6 DEF CheckConvert
  <1>7. ASSUME NEW f \in Finals, CreateFinal(f) PROVE RowTypes'
    BY <1>7 DEF CreateFinal
  <1>8. ASSUME NEW f \in Finals, ApproveFinal(f) PROVE RowTypes'
    BY <1>4, <1>8 DEF ApproveFinal, Docs, Papers, Receipts
  <1>9. ASSUME NEW t \in Itts, NEW day \in Days, ApproveItt(t, day) PROVE RowTypes'
    BY <1>4, <1>9 DEF ApproveItt, Docs, Papers
  <1>10. ASSUME NEW z \in Zerols, ApproveZerol(z) PROVE RowTypes'
    BY <1>4, <1>10 DEF ApproveZerol, Docs, Papers
  <1>11. ASSUME NEW h \in Releases, CheckRelease(h) PROVE RowTypes'
    BY <1>11 DEF CheckRelease
  <1>12. ASSUME NEW h \in Releases, PostRelease(h) PROVE RowTypes'
    BY <1>4, <1>12 DEF PostRelease, Docs, Papers
  <1>13. ASSUME NEW m \in Deliveries, IngestEvent(m) PROVE RowTypes'
    BY <1>13 DEF IngestEvent, vars
  <1> QED
    BY <1>1, <1>2, <1>3, <1>5, <1>6, <1>7, <1>8, <1>9, <1>10, <1>11, <1>12, <1>13 DEF Next

-------------------------------------------------------------------------------
(* Two movements for the same line of one receipt are one movement.        *)
LEMMA LinesDiffer ==
  ASSUME NEW r \in Receipts, NEW m \in Lines(r), NEW n \in Lines(r), SameLine(m, n)
  PROVE  m = n
  <1> DEFINE Child(c) == [Entry(r, "receipt") EXCEPT !.child = TRUE, !.owner = c,
                                                     !.qty = taken[r][c]]
  <1>1. m = Entry(r, "receipt") \/ \E c \in Customers : m = Child(c)
    BY DEF Lines
  <1>2. n = Entry(r, "receipt") \/ \E c \in Customers : n = Child(c)
    BY DEF Lines
  <1>3. Entry(r, "receipt").child = FALSE
    BY DEF Entry
  <1>4. \A c \in Customers : Child(c).child = TRUE /\ Child(c).owner = c
    BY DEF Entry
  <1> HIDE DEF Child
  <1> QED BY <1>1, <1>2, <1>3, <1>4 DEF SameLine

(* The movements of a receipt's lines are receipt movements of it;         *)
LEMMA LineShape ==
  ASSUME NEW r \in Receipts, NEW m \in Lines(r)
  PROVE  m.type = "receipt" /\ m.doc = r
  <1>1. CASE m = Entry(r, "receipt")
    BY <1>1 DEF Entry
  <1>2. CASE \E c \in Customers : m = [Entry(r, "receipt") EXCEPT
               !.child = TRUE, !.owner = c, !.qty = taken[r][c]]
    BY <1>2 DEF Entry
  <1> QED BY <1>1, <1>2 DEF Lines

(* its reversals are none.                                                 *)
LEMMA ReversalShape ==
  ASSUME NEW f \in Finals, NEW m \in Reversals(f)
  PROVE  m.type = "reversal"
  <1>1. PICK n \in ledger : m = [n EXCEPT !.type = "reversal", !.qty = -n.qty,
                                 !.day = Day[f], !.cause = f, !.run = posted[f] + 1]
    BY DEF Reversals
  <1> QED BY <1>1

(* Receipt movements are posted only for lines without one.                *)
LEMMA ReceiptsKeepOnce ==
  ASSUME LinePostedOnce, NEW r \in Receipts, NEW other,
         \A m \in other : m.type # "receipt",
         ledger' = ledger \cup ReceiptMovements(r) \cup other
  PROVE  LinePostedOnce'
  <1>1. SUFFICES ASSUME NEW m \in ledger', NEW n \in ledger',
                        m.type = "receipt", n.type = "receipt", SameLine(m, n)
                 PROVE  m = n
    BY DEF LinePostedOnce, SameLine
  <1>2. m \in ledger \cup ReceiptMovements(r) /\ n \in ledger \cup ReceiptMovements(r)
    BY <1>1
  <1>3. \A x \in ReceiptMovements(r) :
          x \in Lines(r) /\ \A y \in ledger : y.type = "receipt" => ~SameLine(x, y)
    BY DEF ReceiptMovements
  <1>4. SameLine(n, m)
    BY <1>1 DEF SameLine
  <1> QED BY <1>1, <1>2, <1>3, <1>4, LinesDiffer DEF LinePostedOnce

(* Movements of other types leave it alone.                                *)
LEMMA OthersKeepLines ==
  ASSUME LinePostedOnce, NEW ms, \A m \in ms : m.type # "receipt", ledger' = ledger \cup ms
  PROVE  LinePostedOnce'
  BY DEF LinePostedOnce, SameLine

(* The same of releases,                                                   *)
LEMMA OthersKeepReleases ==
  ASSUME ReleasedOnce, NEW ms, \A m \in ms : m.type # "release", ledger' = ledger \cup ms
  PROVE  ReleasedOnce'
  BY DEF ReleasedOnce

(* of deliveries                                                           *)
LEMMA OthersKeepDeliveries ==
  ASSUME DeliveredOnce, DeliveriesMarked, RowTypes, NEW ms,
         \A m \in ms : m.type # "delivery", ledger' = ledger \cup ms,
         \A d \in Docs : posted'[d] >= posted[d], RowTypes'
  PROVE  DeliveredOnce' /\ DeliveriesMarked'
  <1>1. DeliveredOnce'
    BY DEF DeliveredOnce
  <1>2. ASSUME NEW m \in ledger', m.type = "delivery"
        PROVE  m.doc \in Deliveries /\ posted'[m.doc] > 0
    <2>1. m.doc \in Deliveries /\ posted[m.doc] > 0
      BY <1>2 DEF DeliveriesMarked
    <2>2. m.doc \in Docs
      BY <2>1 DEF Docs
    <2>3. posted'[m.doc] >= posted[m.doc] /\ posted[m.doc] \in Nat /\ posted'[m.doc] \in Nat
      BY <2>2 DEF RowTypes
    <2> QED BY <2>1, <2>3
  <1> QED BY <1>1, <1>2 DEF DeliveriesMarked

(* and of transfers, when what is posted is two-sided.                     *)
LEMMA OthersConserve ==
  ASSUME TransfersConserve, NEW ms, ledger' = ledger \cup ms,
         \A m \in ms : m.type \in {"itt", "zerolization", "release"} =>
           \E n \in ms : Counterpart(m, n)
  PROVE  TransfersConserve'
  BY DEF TransfersConserve, Counterpart

(* A document's movement carries its quantity.                             *)
LEMMA EntryQty ==
  ASSUME NEW d \in Docs, NEW t
  PROVE  Entry(d, t).qty = Qty[d] /\ Qty[d] \in Nat
  BY DocumentAssumption DEF Entry, DocumentAssumption

(* The fields of a document's movement.                                    *)
LEMMA EntryShape ==
  ASSUME NEW d \in Docs, NEW t
  PROVE  /\ Entry(d, t) \in [type : {t}, doc : {d}, child : {FALSE}, owner : {Owner[d]},
                             ship : {Ship[d]}, hold : {Held[d]}, prov : BOOLEAN, day : {Day[d]},
                             qty : {Qty[d]}, cause : {d}, run : {posted[d] + 1}]
         /\ Qty[d] \in Nat
  BY DocumentAssumption DEF Entry, DocumentAssumption

(* What a handler posts to one account it takes from the other.            *)
LEMMA TwoSided ==
  ASSUME NEW m, NEW n, m.qty \in Int, n.qty = -m.qty,
         n.type = m.type, n.doc = m.doc, n.run = m.run, n.day = m.day, n.prov = m.prov
  PROVE  \A x \in {m, n} : \E y \in {m, n} : Counterpart(x, y)
  <1>1. Counterpart(m, n)
    BY DEF Counterpart
  <1>2. m.qty = -n.qty
    BY SMT
  <1>3. Counterpart(n, m)
    BY <1>2 DEF Counterpart
  <1> QED BY <1>1, <1>3

-------------------------------------------------------------------------------
(* A completion counts up its own document.                                *)
LEMMA CompletionCounts ==
  ASSUME RowTypes, NEW d \in Docs, Complete(d)
  PROVE  \A x \in Docs : posted'[x] >= posted[x]
  BY DEF RowTypes, Complete

(* A step that completes d and posts the receipt lines of r and other      *)
(* movements, none of which are deliveries, releases or transfers.         *)
LEMMA ReceiptStep ==
  ASSUME IInv, RowTypes', NEW d \in Docs, Complete(d), NEW r \in Receipts, NEW other,
         \A m \in other : m.type = "reversal",
         ledger' = ledger \cup ReceiptMovements(r) \cup other
  PROVE  (PostedOnce /\ DeliveriesMarked /\ TransfersConserve)'
  <1> DEFINE ms == ReceiptMovements(r) \cup other
  <1>1. \A m \in ms : m.type \in {"receipt", "reversal"}
    BY LineShape DEF ReceiptMovements
  <1>2. ledger' = ledger \cup ms
    OBVIOUS
  <1>3. LinePostedOnce'
    BY ReceiptsKeepOnce DEF IInv, PostedOnce
  <1> HIDE DEF ms
  <1>4. ReleasedOnce'
    BY <1>1, <1>2, OthersKeepReleases DEF IInv, PostedOnce
  <1>5. \A x \in Docs : posted'[x] >= posted[x]
    BY CompletionCounts DEF IInv
  <1>6. DeliveredOnce' /\ DeliveriesMarked'
    BY <1>1, <1>2, <1>5, OthersKeepDeliveries DEF IInv, PostedOnce
  <1>7. TransfersConserve'
    BY <1>1, <1>2, OthersConserve DEF IInv
  <1> QED BY <1>3, <1>4, <1>6, <1>7 DEF PostedOnce

(* A step that completes d and posts the two sides of a transfer.          *)
LEMMA TransferStep ==
  ASSUME IInv, RowTypes', NEW d \in Docs, Complete(d), NEW m, NEW n,
         m.type = n.type, m.type \in {"itt", "zerolization"},
         \A x \in {m, n} : \E y \in {m, n} : Counterpart(x, y),
         ledger' = ledger \cup {m, n}
  PROVE  (PostedOnce /\ DeliveriesMarked /\ TransfersConserve)'
  <1> DEFINE ms == {m, n}
  <1>1. \A x \in ms : x.type \in {"itt", "zerolization"}
    OBVIOUS
  <1>2. ledger' = ledger \cup ms /\ \A x \in ms : \E y \in ms : Counterpart(x, y)
    OBVIOUS
  <1> HIDE DEF ms
  <1>3. LinePostedOnce' /\ ReleasedOnce'
    BY <1>1, <1>2, OthersKeepLines, OthersKeepReleases DEF IInv, PostedOnce
  <1>4. \A x \in Docs : posted'[x] >= posted[x]
    BY CompletionCounts DEF IInv
  <1>5. DeliveredOnce' /\ DeliveriesMarked'
    BY <1>1, <1>2, <1>4, OthersKeepDeliveries DEF IInv, PostedOnce
  <1>6. TransfersConserve'
    BY <1>2, OthersConserve DEF IInv
  <1> QED BY <1>3, <1>5, <1>6 DEF PostedOnce

(* A step that leaves the ledger alone and takes back no completion.       *)
LEMMA QuietStep ==
  ASSUME IInv, RowTypes', ledger' = ledger, posted' = posted
  PROVE  (PostedOnce /\ DeliveriesMarked /\ TransfersConserve)'
  BY DEF IInv, PostedOnce, LinePostedOnce, SameLine, ReleasedOnce, DeliveredOnce,
         DeliveriesMarked, TransfersConserve, Counterpart

(* PostRelease keeps the invariant,                                        *)
LEMMA ReleaseStep ==
  ASSUME IInv, RowTypes', NEW h \in Releases, PostRelease(h)
  PROVE  (PostedOnce /\ DeliveriesMarked /\ TransfersConserve)'
  <1> DEFINE debit  == [Entry(h, "release") EXCEPT !.hold = TRUE, !.qty = -Qty[h]]
             credit == [Entry(h, "release") EXCEPT !.hold = FALSE]
             ms == IF Released(h) THEN {} ELSE {debit, credit}
  <1>1. h \in Docs /\ Complete(h)
    BY DEF PostRelease, Docs, Papers
  <1>2. /\ Entry(h, "release").qty = Qty[h] /\ Qty[h] \in Nat
        /\ Entry(h, "release").type = "release" /\ Entry(h, "release").doc = h
    BY <1>1, DocumentAssumption DEF Entry, DocumentAssumption
  <1>3. ledger' = ledger \cup ms
    BY <1>2 DEF PostRelease, Post
  <1>4. /\ debit.type = "release" /\ credit.type = "release"
        /\ debit.doc = h /\ credit.doc = h /\ debit.hold # credit.hold
        /\ debit.qty = -Qty[h] /\ credit.qty = Qty[h]
        /\ debit.run = credit.run /\ debit.day = credit.day /\ debit.prov = credit.prov
    BY <1>1, <1>2, EntryShape DEF Entry
  <1>5. \A x \in {credit, debit} : \E y \in {credit, debit} : Counterpart(x, y)
    <2> HIDE DEF debit, credit
    <2>1. credit.qty \in Int /\ debit.qty = -credit.qty
      BY <1>2, <1>4
    <2> QED BY <1>4, <2>1, TwoSided
  <1> HIDE DEF debit, credit
  <1>6. \A x \in ms : x.type = "release" /\ x.doc = h
    BY <1>4
  <1>7. \A x, y \in ms : x.hold = y.hold => x = y
    BY <1>4
  <1>8. \A x \in ms : \E y \in ms : Counterpart(x, y)
    BY <1>5
  <1>9. ms # {} => ~Released(h)
    OBVIOUS
  <1> HIDE DEF ms
  <1>10. LinePostedOnce'
    BY <1>3, <1>6, OthersKeepLines DEF IInv, PostedOnce
  <1>11. ReleasedOnce'
    <2>1. SUFFICES ASSUME NEW x \in ledger', NEW y \in ledger', x.type = "release",
                          y.type = "release", x.doc = y.doc, x.hold = y.hold
                   PROVE  x = y
      BY DEF ReleasedOnce
    <2>2. ReleasedOnce
      BY DEF IInv, PostedOnce
    <2> QED BY <1>3, <1>6, <1>7, <1>9, <2>1, <2>2 DEF ReleasedOnce, Released
  <1>12. DeliveredOnce' /\ DeliveriesMarked'
    BY <1>1, <1>3, <1>6, CompletionCounts, OthersKeepDeliveries DEF IInv, PostedOnce
  <1>13. TransfersConserve'
    BY <1>3, <1>8, OthersConserve DEF IInv
  <1> QED BY <1>10, <1>11, <1>12, <1>13 DEF PostedOnce

(* and so does the first delivery of an event.                             *)
LEMMA DeliveryStep ==
  ASSUME IInv, RowTypes', NEW d \in Deliveries, posted[d] = 0,
         posted' = [posted EXCEPT ![d] = 1],
         Post({[Entry(d, "delivery") EXCEPT !.qty = -Qty[d]]})
  PROVE  (PostedOnce /\ DeliveriesMarked /\ TransfersConserve)'
  <1> DEFINE out == [Entry(d, "delivery") EXCEPT !.qty = -Qty[d]]
  <1>1. d \in Docs
    BY DEF Docs
  <1>2. out.type = "delivery" /\ out.doc = d
    BY <1>1, EntryShape DEF Entry
  <1>3. ledger' = ledger \cup {out}
    BY DEF Post
  <1> HIDE DEF out
  <1> DEFINE ms == {out}
  <1>11. ledger' = ledger \cup ms /\ \A x \in ms : x.type = "delivery"
    BY <1>2, <1>3
  <1> HIDE DEF ms
  <1>4. LinePostedOnce' /\ ReleasedOnce'
    BY <1>11, OthersKeepLines, OthersKeepReleases DEF IInv, PostedOnce
  <1>5. TransfersConserve'
    BY <1>11, OthersConserve DEF IInv
  <1>6. \A m \in ledger : m.type = "delivery" => m.doc # d
    BY DEF IInv, DeliveriesMarked
  <1>7. DeliveredOnce'
    BY <1>2, <1>3, <1>6 DEF IInv, PostedOnce, DeliveredOnce
  <1>8. \A x \in Deliveries : posted[x] > 0 => posted'[x] > 0
    BY <1>1 DEF IInv, RowTypes, Docs
  <1>9. posted'[d] > 0
    BY <1>1 DEF IInv, RowTypes
  <1>10. DeliveriesMarked'
    BY <1>2, <1>3, <1>8, <1>9 DEF IInv, DeliveriesMarked
  <1> QED BY <1>4, <1>5, <1>7, <1>10 DEF PostedOnce

-------------------------------------------------------------------------------
(* It holds of what was imported,                                          *)
LEMMA InitInv == Init => IInv
  <1> SUFFICES ASSUME Init PROVE IInv
    OBVIOUS
  <1>1. RowTypes
    BY DEF Init, RowTypes, Statuses
  <1>2. \A m \in ledger : m.type = "opening"
    BY ImportAssumption DEF Init, ImportAssumption
  <1> QED
    BY <1>1, <1>2 DEF IInv, PostedOnce, LinePostedOnce, ReleasedOnce, DeliveredOnce,
                      DeliveriesMarked, TransfersConserve

(* and every step keeps it.                                                *)
LEMMA NextInv == IInv /\ [Next]_vars => IInv'
  <1> DEFINE Inv == PostedOnce /\ DeliveriesMarked /\ TransfersConserve
  <1> SUFFICES ASSUME IInv, [Next]_vars PROVE IInv'
    OBVIOUS
  <1>0. RowTypes'
    BY TypesStep DEF IInv
  <1>1. ASSUME UNCHANGED vars PROVE Inv'
    BY <1>0, <1>1, QuietStep DEF vars
  <1>2. ASSUME NEW d \in Papers, Submit(d) \/ Reject(d) PROVE Inv'
    BY <1>0, <1>2, QuietStep DEF Submit, Reject
  <1>3. ASSUME NEW r \in Arrivals \cup Provisions, ApproveReceipt(r) PROVE Inv'
    <2>1. Complete(r) /\ r \in Docs /\ r \in Receipts
      BY <1>3 DEF ApproveReceipt, Docs, Papers, Receipts
    <2> DEFINE other == {}
    <2>2. ledger' = ledger \cup ReceiptMovements(r) \cup other
      BY <1>3 DEF ApproveReceipt, Post
    <2>3. \A m \in other : m.type = "reversal"
      OBVIOUS
    <2> HIDE DEF other
    <2> QED BY <1>0, <2>1, <2>2, <2>3, ReceiptStep
  <1>4. ASSUME NEW f \in Finals, CheckConvert(f) \/ CreateFinal(f) PROVE Inv'
    BY <1>0, <1>4, QuietStep DEF CheckConvert, CreateFinal
  <1>5. ASSUME NEW f \in Finals, ApproveFinal(f) PROVE Inv'
    <2>1. Complete(f) /\ f \in Docs /\ f \in Receipts
      BY <1>5 DEF ApproveFinal, Docs, Papers, Receipts
    <2>2. ledger' = ledger \cup ReceiptMovements(f) \cup Reversals(f)
      BY <1>5 DEF ApproveFinal, Post
    <2>3. \A m \in Reversals(f) : m.type = "reversal"
      BY ReversalShape
    <2> QED BY <1>0, <2>1, <2>2, <2>3, ReceiptStep
  <1>6. ASSUME NEW t \in Itts, NEW day \in Days, ApproveItt(t, day) PROVE Inv'
    <2> DEFINE out == [Entry(t, "itt") EXCEPT !.qty = -Qty[t], !.day = day]
               in  == [Entry(t, "itt") EXCEPT !.owner = ToCustomer[t], !.day = day]
    <2>1. Complete(t) /\ t \in Docs
      BY <1>6 DEF ApproveItt, Docs, Papers
    <2>2. Entry(t, "itt").qty = Qty[t] /\ Qty[t] \in Nat
      BY <2>1, EntryQty
    <2>3. ledger' = ledger \cup {in, out}
      BY <1>6, <2>2 DEF ApproveItt, Post
    <2>4. /\ in.type = "itt" /\ out.type = in.type /\ out.doc = in.doc /\ out.run = in.run
          /\ out.day = in.day /\ out.prov = in.prov /\ in.qty = Qty[t] /\ out.qty = -Qty[t]
      BY <2>1, EntryShape DEF Entry
    <2> HIDE DEF out, in
    <2>5. \A x \in {in, out} : \E y \in {in, out} : Counterpart(x, y)
      BY <2>2, <2>4, TwoSided
    <2> QED BY <1>0, <2>1, <2>3, <2>4, <2>5, TransferStep
  <1>7. ASSUME NEW z \in Zerols, ApproveZerol(z) PROVE Inv'
    <2> DEFINE from == [Entry(z, "zerolization") EXCEPT !.hold = FALSE, !.qty = -Qty[z]]
               to == [Entry(z, "zerolization") EXCEPT !.hold = FALSE, !.ship = ToVessel[z]]
    <2>1. Complete(z) /\ z \in Docs
      BY <1>7 DEF ApproveZerol, Docs, Papers
    <2>2. Entry(z, "zerolization").qty = Qty[z] /\ Qty[z] \in Nat
      BY <2>1, EntryQty
    <2>3. ledger' = ledger \cup {to, from}
      BY <1>7, <2>2 DEF ApproveZerol, Post
    <2>4. /\ to.type = "zerolization" /\ from.type = to.type /\ from.doc = to.doc
          /\ from.run = to.run /\ from.day = to.day /\ from.prov = to.prov
          /\ to.qty = Qty[z] /\ from.qty = -Qty[z]
      BY <2>1, EntryShape DEF Entry
    <2> HIDE DEF from, to
    <2>5. \A x \in {to, from} : \E y \in {to, from} : Counterpart(x, y)
      BY <2>2, <2>4, TwoSided
    <2> QED BY <1>0, <2>1, <2>3, <2>4, <2>5, TransferStep
  <1>8. ASSUME NEW h \in Releases, CheckRelease(h) PROVE Inv'
    BY <1>0, <1>8, QuietStep DEF CheckRelease
  <1>9. ASSUME NEW h \in Releases, PostRelease(h) PROVE Inv'
    BY <1>0, <1>9, ReleaseStep
  <1>10. ASSUME NEW d \in Deliveries, IngestEvent(d) PROVE Inv'
    <2>1. d \in Docs
      BY DEF Docs
    <2>2. CASE UNCHANGED vars
      BY <1>0, <2>2, QuietStep DEF vars
    <2>3. CASE posted[d] = 0 /\ posted' = [posted EXCEPT ![d] = 1]
               /\ Post({[Entry(d, "delivery") EXCEPT !.qty = -Qty[d]]})
      BY <1>0, <2>3, DeliveryStep
    <2>4. Entry(d, "delivery").qty = Qty[d]
      BY <2>1, EntryQty
    <2> QED BY <1>10, <2>2, <2>3, <2>4 DEF IngestEvent
  <1> HIDE DEF Inv
  <1>11. Inv'
    BY <1>2, <1>3, <1>4, <1>5, <1>6, <1>7, <1>8, <1>9, <1>10, <1>1, QuietStep, <1>0 DEF Next, vars, Inv
  <1> QED BY <1>0, <1>11 DEF IInv, Inv

(* It holds in every reachable state.                                      *)
THEOREM Safety == Spec => []IInv
  BY InitInv, NextInv, PTL DEF Spec

(* Nothing is posted twice that the code means to post once: the receipt   *)
(* lines (however often the receipt is approved, or its provision          *)
(* converted), the hold-release lines and the delivery messages.           *)
THEOREM NothingPostedTwice == Spec => []PostedOnce
  <1>1. IInv => PostedOnce
    BY DEF IInv
  <1> QED BY <1>1, Safety, PTL

(* Stock that leaves an account in a transfer, zerolization or release     *)
(* arrives at another one in the same posting.                             *)
THEOREM Conservation == Spec => []TransfersConserve
  <1>1. IInv => TransfersConserve
    BY DEF IInv
  <1> QED BY <1>1, Safety, PTL

-------------------------------------------------------------------------------
(* Sums of movements, and the two snapshot tables.                         *)

(* Sums of quantities, as sums of a function.                              *)
QtyOf(ms) == [m \in ms |-> m.qty]

(* The sum of the movements of a finite set is the Total of their          *)
(* quantities.                                                             *)
LEMMA SumQtyTotal ==
  ASSUME NEW ms, IsFiniteSet(ms)
  PROVE  SumQty(ms) = Total(QtyOf(ms), ms)
  <1> DEFINE Body(g) == [s \in SUBSET ms |-> IF s = {} THEN 0
                           ELSE (Pick(s)).qty + g[s \ {Pick(s)}]]
             sum == CHOOSE g : g = Body(g)
  <1>1. SumQty(ms) = sum[ms]
    BY DEF SumQty, MapThenSumSet, MapThenFoldSet, Pick
  <1>2. ASSUME NEW s \in SUBSET ms, s # {} PROVE QtyOf(ms)[Pick(s)] = (Pick(s)).qty
    <2>1. Pick(s) \in ms
      BY <1>2, PickIn
    <2> QED BY <2>1 DEF QtyOf
  <1>3. \A g : Summing(QtyOf(ms), ms, g) <=> g = Body(g)
    BY <1>2 DEF Summing
  <1> HIDE DEF Body
  <1>4. sum = Body(sum)
    BY <1>3, SumsExist
  <1> HIDE DEF sum
  <1> QED BY <1>1, <1>3, <1>4, TotalIs

(* A finite set of movements with quantities.                              *)
Quantified(ms) == IsFiniteSet(ms) /\ \A m \in ms : m.qty \in Int

(* Their sum is an integer.                                                *)
LEMMA SumQtyInt ==
  ASSUME NEW ms, Quantified(ms)
  PROVE  SumQty(ms) \in Int
  <1>1. \A m \in ms : QtyOf(ms)[m] \in Int
    BY DEF Quantified, QtyOf
  <1> QED BY <1>1, SumQtyTotal, TotalInt DEF Quantified

(* No movements come to nothing.                                           *)
LEMMA SumQtyEmpty == SumQty({}) = 0
  BY SumQtyTotal, TotalEmpty, FS_EmptySet

(* The sum of two disjoint postings.                                       *)
LEMMA SumQtyUnion ==
  ASSUME NEW ms, NEW ns, Quantified(ms), Quantified(ns), ms \cap ns = {}
  PROVE  SumQty(ms \cup ns) = SumQty(ms) + SumQty(ns)
  <1> DEFINE f == QtyOf(ms \cup ns)
  <1>1. IsFiniteSet(ms) /\ IsFiniteSet(ns) /\ IsFiniteSet(ms \cup ns)
    BY FS_Union DEF Quantified
  <1>2. \A m \in ms \cup ns : f[m] \in Int
    BY DEF Quantified, QtyOf
  <1>3. Total(QtyOf(ms), ms) = Total(f, ms)
    <2>1. \A m \in ms : QtyOf(ms)[m] = f[m]
      BY DEF QtyOf
    <2> QED BY <1>1, <2>1, TotalAgree
  <1>4. Total(QtyOf(ns), ns) = Total(f, ns)
    <2>1. \A m \in ns : QtyOf(ns)[m] = f[m]
      BY DEF QtyOf
    <2> QED BY <1>1, <2>1, TotalAgree
  <1> HIDE DEF f
  <1>5. Total(f, ms \cup ns) = Total(f, ms) + Total(f, ns)
    BY <1>1, <1>2, TotalUnion
  <1> QED BY <1>1, <1>3, <1>4, <1>5, SumQtyTotal DEF f

(* One movement comes to its quantity.                                     *)
LEMMA SumQtyOne ==
  ASSUME NEW m, m.qty \in Int
  PROVE  SumQty({m}) = m.qty
  <1>1. QtyOf({m})[m] = m.qty
    BY DEF QtyOf
  <1> QED BY <1>1, SumQtyTotal, TotalSingleton, FS_Singleton

(* The part of a posting one account, or one row, is about.                *)
PartOf(p, ms) == p \subseteq ms

(* A part of a finite set of movements is one.                             *)
LEMMA PartQuantified ==
  ASSUME NEW ms, Quantified(ms), NEW part, PartOf(part, ms)
  PROVE  Quantified(part)
  BY FS_Subset DEF Quantified, PartOf

(* The parts of two disjoint postings add up.                              *)
LEMMA PartsUnion ==
  ASSUME NEW ms, NEW ns, Quantified(ms), Quantified(ns), ms \cap ns = {},
         NEW p, NEW q, PartOf(p, ms), PartOf(q, ns)
  PROVE  /\ SumQty(p \cup q) = SumQty(p) + SumQty(q)
         /\ SumQty(p) \in Int /\ SumQty(q) \in Int
  <1>1. Quantified(p) /\ Quantified(q)
    BY PartQuantified
  <1>2. p \cap q = {}
    BY DEF PartOf
  <1> QED BY <1>1, <1>2, SumQtyUnion, SumQtyInt

(* Balances rebuilt from a ledger, with a posting applied, are those       *)
(* rebuilt from the longer ledger.                                         *)
LEMMA BalanceUnion ==
  ASSUME NEW ms, NEW ns, Quantified(ms), Quantified(ns), ms \cap ns = {}
  PROVE  ApplyBalance(RebuiltBalance(ms), ns) = RebuiltBalance(ms \cup ns)
  <1> SUFFICES ASSUME NEW k \in Keys
      PROVE (0 + SumQty({m \in ms : KeyOf(m) = k})) + SumQty({m \in ns : KeyOf(m) = k})
              = 0 + SumQty({m \in ms \cup ns : KeyOf(m) = k})
    BY DEF ApplyBalance, RebuiltBalance, NoStock
  <1> DEFINE p == {m \in ms : KeyOf(m) = k}
             q == {m \in ns : KeyOf(m) = k}
  <1>1. {m \in ms \cup ns : KeyOf(m) = k} = p \cup q
    OBVIOUS
  <1>2. PartOf(p, ms) /\ PartOf(q, ns)
    BY DEF PartOf
  <1> HIDE DEF p, q
  <1>3. SumQty(p \cup q) = SumQty(p) + SumQty(q) /\ SumQty(p) \in Int /\ SumQty(q) \in Int
    BY <1>2, PartsUnion
  <1>4. (0 + SumQty(p)) + SumQty(q) = 0 + SumQty(p \cup q)
    BY <1>3
  <1> QED BY <1>1, <1>4 DEF p, q

(* The movements StockDailyPosition is kept of, its rows and what enters   *)
(* their figures.                                                          *)
Booked(ms)   == {m \in ms : ~m.prov}
RowsOf(ms)   == {<<m.day, m.owner>> : m \in Booked(ms)}
Row(ms, x)   == {m \in Booked(ms) : <<m.day, m.owner>> = x}
InRow(ms, x) == {m \in Row(ms, x) : m.type = "receipt" /\ m.qty > 0}
OutRow(ms, x) == {m \in Row(ms, x) : m.qty < 0 /\ m.type # "release"}
HeldRow(ms, x) == {m \in Row(ms, x) : m.hold}
Figures(ms, x) == [closing |-> 0 + SumQty(Row(ms, x)), received |-> 0 + SumQty(InRow(ms, x)),
                   outflow |-> 0 - SumQty(OutRow(ms, x)), held |-> 0 + SumQty(HeldRow(ms, x))]

(* The rows a rebuild writes.                                              *)
LEMMA DailyRebuilt ==
  ASSUME NEW ms
  PROVE  RebuiltDaily(ms) = [x \in RowsOf(ms) |-> Figures(ms, x)]
  <1>1. {} \cup RowsOf(ms) = RowsOf(ms) /\ DOMAIN NoDaily = {}
    BY DEF NoDaily
  <1> QED BY <1>1 DEF RebuiltDaily, ApplyDaily, RowsOf, Row, Booked, Figures,
                      InRow, OutRow, HeldRow

(* The figures of a row grow by those of a posting.                        *)
LEMMA FiguresUnion ==
  ASSUME NEW ms, NEW ns, Quantified(ms), Quantified(ns), ms \cap ns = {}, NEW x,
         NEW old, old = Figures(ms, x)
  PROVE  Figures(ms \cup ns, x) =
           [closing  |-> old.closing + SumQty(Row(ns, x)),
            received |-> old.received + SumQty(InRow(ns, x)),
            outflow  |-> old.outflow - SumQty(OutRow(ns, x)),
            held     |-> old.held + SumQty(HeldRow(ns, x))]
  <1>1. /\ Row(ms \cup ns, x) = Row(ms, x) \cup Row(ns, x)
        /\ InRow(ms \cup ns, x) = InRow(ms, x) \cup InRow(ns, x)
        /\ OutRow(ms \cup ns, x) = OutRow(ms, x) \cup OutRow(ns, x)
        /\ HeldRow(ms \cup ns, x) = HeldRow(ms, x) \cup HeldRow(ns, x)
    BY DEF Row, InRow, OutRow, HeldRow, Booked
  <1>2. /\ PartOf(Row(ms, x), ms) /\ PartOf(InRow(ms, x), ms)
        /\ PartOf(OutRow(ms, x), ms) /\ PartOf(HeldRow(ms, x), ms)
        /\ PartOf(Row(ns, x), ns) /\ PartOf(InRow(ns, x), ns)
        /\ PartOf(OutRow(ns, x), ns) /\ PartOf(HeldRow(ns, x), ns)
    BY DEF PartOf, Row, InRow, OutRow, HeldRow, Booked
  <1>3. /\ SumQty(Row(ms, x) \cup Row(ns, x)) = SumQty(Row(ms, x)) + SumQty(Row(ns, x))
        /\ SumQty(Row(ms, x)) \in Int /\ SumQty(Row(ns, x)) \in Int
    BY <1>2, PartsUnion
  <1>4. /\ SumQty(InRow(ms, x) \cup InRow(ns, x)) = SumQty(InRow(ms, x)) + SumQty(InRow(ns, x))
        /\ SumQty(InRow(ms, x)) \in Int /\ SumQty(InRow(ns, x)) \in Int
    BY <1>2, PartsUnion
  <1>5. /\ SumQty(OutRow(ms, x) \cup OutRow(ns, x)) = SumQty(OutRow(ms, x)) + SumQty(OutRow(ns, x))
        /\ SumQty(OutRow(ms, x)) \in Int /\ SumQty(OutRow(ns, x)) \in Int
    BY <1>2, PartsUnion
  <1>6. /\ SumQty(HeldRow(ms, x) \cup HeldRow(ns, x)) = SumQty(HeldRow(ms, x)) + SumQty(HeldRow(ns, x))
        /\ SumQty(HeldRow(ms, x)) \in Int /\ SumQty(HeldRow(ns, x)) \in Int
    BY <1>2, PartsUnion
  <1>7. /\ old.closing = 0 + SumQty(Row(ms, x)) /\ old.received = 0 + SumQty(InRow(ms, x))
        /\ old.outflow = 0 - SumQty(OutRow(ms, x)) /\ old.held = 0 + SumQty(HeldRow(ms, x))
    BY DEF Figures
  <1>8. 0 + SumQty(Row(ms \cup ns, x)) = old.closing + SumQty(Row(ns, x))
    <2>1. SumQty(Row(ms \cup ns, x)) = SumQty(Row(ms, x)) + SumQty(Row(ns, x))
      BY <1>1, <1>3
    <2>2. old.closing = 0 + SumQty(Row(ms, x))
      BY <1>7
    <2> QED BY <1>3, <2>1, <2>2
  <1>9. 0 + SumQty(InRow(ms \cup ns, x)) = old.received + SumQty(InRow(ns, x))
    <2>1. SumQty(InRow(ms \cup ns, x)) = SumQty(InRow(ms, x)) + SumQty(InRow(ns, x))
      BY <1>1, <1>4
    <2>2. old.received = 0 + SumQty(InRow(ms, x))
      BY <1>7
    <2> QED BY <1>4, <2>1, <2>2
  <1>10. 0 - SumQty(OutRow(ms \cup ns, x)) = old.outflow - SumQty(OutRow(ns, x))
    <2>1. SumQty(OutRow(ms \cup ns, x)) = SumQty(OutRow(ms, x)) + SumQty(OutRow(ns, x))
      BY <1>1, <1>5
    <2>2. old.outflow = 0 - SumQty(OutRow(ms, x))
      BY <1>7
    <2> QED BY <1>5, <2>1, <2>2
  <1>11. 0 + SumQty(HeldRow(ms \cup ns, x)) = old.held + SumQty(HeldRow(ns, x))
    <2>1. SumQty(HeldRow(ms \cup ns, x)) = SumQty(HeldRow(ms, x)) + SumQty(HeldRow(ns, x))
      BY <1>1, <1>6
    <2>2. old.held = 0 + SumQty(HeldRow(ms, x))
      BY <1>7
    <2> QED BY <1>6, <2>1, <2>2
  <1> QED BY <1>8, <1>9, <1>10, <1>11 DEF Figures

(* Daily rows rebuilt from a ledger, with a posting applied, are those     *)
(* rebuilt from the longer ledger.                                         *)
LEMMA DailyUnion ==
  ASSUME NEW ms, NEW ns, Quantified(ms), Quantified(ns), ms \cap ns = {}
  PROVE  ApplyDaily(RebuiltDaily(ms), ns) = RebuiltDaily(ms \cup ns)
  <1> DEFINE dl == RebuiltDaily(ms)
             old(x) == IF x \in DOMAIN dl THEN dl[x]
                       ELSE [closing |-> 0, received |-> 0, outflow |-> 0, held |-> 0]
  <1>1. DOMAIN dl = RowsOf(ms) /\ \A x \in RowsOf(ms) : dl[x] = Figures(ms, x)
    BY DailyRebuilt
  <1>2. ASSUME NEW x PROVE old(x) = Figures(ms, x)
    <2>1. CASE x \in RowsOf(ms)
      BY <1>1, <2>1
    <2>2. CASE x \notin RowsOf(ms)
      <3>1. Row(ms, x) = {} /\ InRow(ms, x) = {} /\ OutRow(ms, x) = {} /\ HeldRow(ms, x) = {}
        BY <2>2 DEF Row, InRow, OutRow, HeldRow, RowsOf
      <3>2. 0 + SumQty({}) = 0 /\ 0 - SumQty({}) = 0
        BY SumQtyEmpty
      <3> QED BY <1>1, <2>2, <3>1, <3>2 DEF Figures
    <2> QED BY <2>1, <2>2
  <1>3. ApplyDaily(dl, ns) = [x \in DOMAIN dl \cup RowsOf(ns) |->
           [closing  |-> old(x).closing + SumQty(Row(ns, x)),
            received |-> old(x).received + SumQty(InRow(ns, x)),
            outflow  |-> old(x).outflow - SumQty(OutRow(ns, x)),
            held     |-> old(x).held + SumQty(HeldRow(ns, x))]]
    BY DEF ApplyDaily, RowsOf, Row, Booked, InRow, OutRow, HeldRow
  <1>4. RowsOf(ms \cup ns) = DOMAIN dl \cup RowsOf(ns)
    BY <1>1 DEF RowsOf, Booked
  <1> HIDE DEF dl, old
  <1>5. ASSUME NEW x
        PROVE  Figures(ms \cup ns, x) =
                 [closing  |-> old(x).closing + SumQty(Row(ns, x)),
                  received |-> old(x).received + SumQty(InRow(ns, x)),
                  outflow  |-> old(x).outflow - SumQty(OutRow(ns, x)),
                  held     |-> old(x).held + SumQty(HeldRow(ns, x))]
    BY <1>2, FiguresUnion
  <1> QED BY <1>3, <1>4, <1>5, DailyRebuilt DEF dl

(* A finite set has finite images.                                         *)
LEMMA ImageFinite ==
  ASSUME NEW C, IsFiniteSet(C), NEW f, NEW T, T = {f[c] : c \in C}
  PROVE  IsFiniteSet(T)
  <1> DEFINE g == [c \in C |-> f[c]]
  <1>1. g \in Surjection(C, T)
    BY DEF Surjection
  <1> HIDE DEF g
  <1> QED BY <1>1, FS_Surjection

(* What a document posts for all of itself is a movement of its next       *)
(* completion.                                                             *)
LEMMA EntryMoves ==
  ASSUME RowTypes, NEW d \in Docs, NEW t \in Types
  PROVE  Entry(d, t) \in Movements
  BY DocumentAssumption DEF Entry, Movements, DocumentAssumption, RowTypes

(* So are the lines of a receipt,                                          *)
LEMMA LinesMove ==
  ASSUME RowTypes, taken \in [Receipts -> [Customers -> Nat]], NEW r \in Receipts, NEW m \in Lines(r)
  PROVE  m \in Movements /\ m.cause = r /\ m.run = posted[r] + 1
  <1>0. r \in Docs
    BY DEF Docs, Papers
  <1>1. Entry(r, "receipt") \in Movements /\ Entry(r, "receipt").cause = r /\ Entry(r, "receipt").run = posted[r] + 1
    BY <1>0, EntryMoves DEF Types, Entry
  <1>2. ASSUME NEW c \in Customers, m = [Entry(r, "receipt") EXCEPT !.child = TRUE, !.owner = c, !.qty = taken[r][c]]
        PROVE  m \in Movements /\ m.cause = r /\ m.run = posted[r] + 1
    <2>1. taken[r][c] \in Int
      OBVIOUS
    <2> QED BY <1>1, <1>2, <2>1 DEF Movements
  <1> QED BY <1>1, <1>2 DEF Lines

(* and the reversals of its provision.                                     *)
LEMMA ReversalsMove ==
  ASSUME RowTypes, ledger \subseteq Movements, NEW f \in Finals, NEW m \in Reversals(f)
  PROVE  m \in Movements /\ m.cause = f /\ m.run = posted[f] + 1
  <1>0. f \in Docs /\ Day[f] \in Days /\ posted[f] \in Nat
    BY DocumentAssumption DEF Docs, Papers, Receipts, RowTypes, DocumentAssumption
  <1>1. PICK n \in ledger : m = [n EXCEPT !.type = "reversal", !.qty = -n.qty,
                                 !.day = Day[f], !.cause = f, !.run = posted[f] + 1]
    BY DEF Reversals
  <1>2. n \in Movements /\ n.qty \in Int
    BY DEF Movements
  <1>3. -n.qty \in Int /\ "reversal" \in Types
    BY <1>2 DEF Types
  <1>4. m = [type |-> "reversal", doc |-> n.doc, child |-> n.child, owner |-> n.owner,
             ship |-> n.ship, hold |-> n.hold, prov |-> n.prov, day |-> Day[f], qty |-> -n.qty,
             cause |-> f, run |-> posted[f] + 1]
    BY <1>1, <1>2 DEF Movements
  <1> QED BY <1>0, <1>2, <1>3, <1>4 DEF Movements

-------------------------------------------------------------------------------
(* The parts in-tank transfers take of receipt lines.                      *)

(* The parts of a receipt, and what is left of some receipts, as sums.     *)
Parts(f)  == MapThenSumSet(LAMBDA c : f[c], Customers)
LeftOf(X) == [q \in X |-> Available(q)]

(* The parts of a receipt line, as a Total.                                *)
LEMMA PartsTotal ==
  ASSUME NEW f
  PROVE  Parts(f) = Total(f, Customers)
  <1> DEFINE Body(g) == [s \in SUBSET Customers |-> IF s = {} THEN 0
                           ELSE f[Pick(s)] + g[s \ {Pick(s)}]]
             sum == CHOOSE g : g = Body(g)
  <1>1. Parts(f) = sum[Customers]
    BY DEF Parts, MapThenSumSet, MapThenFoldSet, Pick
  <1>2. \A g : Summing(f, Customers, g) <=> g = Body(g)
    BY DEF Summing
  <1>3. IsFiniteSet(Customers)
    BY FiniteAssumption DEF FiniteAssumption
  <1> HIDE DEF Body
  <1>4. sum = Body(sum)
    BY <1>2, <1>3, SumsExist
  <1> HIDE DEF sum
  <1> QED BY <1>1, <1>2, <1>3, <1>4, TotalIs

(* What is left of some receipt lines, as a Total.                         *)
LEMMA LeftTotal ==
  ASSUME NEW X, IsFiniteSet(X)
  PROVE  MapThenSumSet(Available, X) = Total(LeftOf(X), X)
  <1> DEFINE Body(g) == [s \in SUBSET X |-> IF s = {} THEN 0
                           ELSE Available(Pick(s)) + g[s \ {Pick(s)}]]
             sum == CHOOSE g : g = Body(g)
  <1>1. MapThenSumSet(Available, X) = sum[X]
    BY DEF MapThenSumSet, MapThenFoldSet, Pick
  <1>2. ASSUME NEW s \in SUBSET X, s # {} PROVE LeftOf(X)[Pick(s)] = Available(Pick(s))
    <2>1. Pick(s) \in X
      BY <1>2, PickIn
    <2> QED BY <2>1 DEF LeftOf
  <1>3. \A g : Summing(LeftOf(X), X, g) <=> g = Body(g)
    BY <1>2 DEF Summing
  <1> HIDE DEF Body
  <1>4. sum = Body(sum)
    BY <1>3, SumsExist
  <1> HIDE DEF sum
  <1> QED BY <1>1, <1>3, <1>4, TotalIs

(* The parts taken are quantities, by receipt and customer.                *)
Takings == taken \in [Receipts -> [Customers -> Nat]]

(* What is left of a receipt is an integer.                                *)
LEMMA AvailableInt ==
  ASSUME Takings, NEW r \in Receipts
  PROVE  /\ Available(r) = Qty[r] - Parts(taken[r])
         /\ Available(r) \in Int /\ Parts(taken[r]) \in Int /\ Qty[r] \in Nat
  <1>1. Total(taken[r], Customers) \in Int
    <2>1. \A c \in Customers : taken[r][c] \in Int
      BY DEF Takings
    <2> QED BY <2>1, TotalInt, FiniteAssumption DEF FiniteAssumption
  <1>2. Qty[r] \in Nat
    BY DocumentAssumption DEF DocumentAssumption, Docs, Papers
  <1>3. Available(r) = Qty[r] - Parts(taken[r])
    BY DEF Available, Parts
  <1> QED BY <1>1, <1>2, <1>3, PartsTotal

(* A transfer takes a whole quantity, and no more than there is.           *)
LEMMA TakeBounds ==
  ASSUME Takings, NEW t \in Itts, NEW r \in Receipts
  PROVE  Take(t, r) \in Nat /\ (Take(t, r) = 0 \/ Take(t, r) <= Available(r))
  <1> DEFINE X == {q \in Parcels(t) : Earlier(q, r)}
             before == MapThenSumSet(Available, X)
             need == Qty[t] - before
  <1>1. X \in SUBSET Docs /\ X \in SUBSET Receipts
    BY DEF Parcels, Docs, Papers, Receipts
  <1>2. IsFiniteSet(X)
    BY <1>1, FS_Subset, FiniteAssumption DEF FiniteAssumption
  <1>3. \A q \in X : LeftOf(X)[q] \in Int
    BY <1>1, AvailableInt DEF LeftOf
  <1>4. before \in Int
    <2> HIDE DEF X
    <2> QED BY <1>2, <1>3, LeftTotal, TotalInt
  <1>5. Qty[t] \in Nat
    BY DocumentAssumption DEF DocumentAssumption, Docs, Papers
  <1>6. need \in Int
    <2> HIDE DEF before
    <2> QED BY <1>4, <1>5
  <1>7. Available(r) \in Int
    BY AvailableInt
  <1>8. r \in Parcels(t) => Available(r) > 0
    BY DEF Parcels
  <1>9. Take(t, r) = IF r \notin Parcels(t) \/ need <= 0 THEN 0
                     ELSE IF need < Available(r) THEN need ELSE Available(r)
    BY DEF Take
  <1> HIDE DEF need
  <1> QED BY <1>6, <1>7, <1>8, <1>9

(* Adding to one customer's part adds to the sum.                          *)
LEMMA TakenMore ==
  ASSUME NEW f \in [Customers -> Nat], NEW c \in Customers, NEW n \in Nat,
         NEW g \in [Customers -> Nat], g[c] = f[c] + n, \A x \in Customers \ {c} : g[x] = f[x]
  PROVE  Parts(g) = Parts(f) + n
  <1> DEFINE rest == Customers \ {c}
  <1>0. IsFiniteSet(Customers) /\ IsFiniteSet(rest)
    BY FiniteAssumption, FS_RemoveElement DEF FiniteAssumption
  <1>2. /\ \A x \in Customers : f[x] \in Int /\ g[x] \in Int
        /\ \A x \in rest : f[x] \in Int
    OBVIOUS
  <1>3. Total(f, Customers) = f[c] + Total(f, rest) /\ Total(g, Customers) = g[c] + Total(g, rest)
    BY <1>0, <1>2, TotalRemove
  <1>1. \A x \in rest : g[x] = f[x]
    OBVIOUS
  <1> HIDE DEF rest
  <1>4. Total(g, rest) = Total(f, rest) /\ Total(f, rest) \in Int
    BY <1>0, <1>1, <1>2, TotalAgree, TotalInt
  <1>5. f[c] \in Int
    BY <1>2
  <1> QED BY <1>3, <1>4, <1>5, PartsTotal

(* No line is overdrawn.                                                   *)
Covered == \A r \in Receipts : Parts(taken[r]) <= Qty[r]

(* A transfer takes no more of any line than is left of it.                *)
LEMMA CoveredStep ==
  ASSUME Takings, Covered, NEW t \in Itts,
         taken' = [r \in Receipts |-> [taken[r] EXCEPT ![ToCustomer[t]] = @ + Take(t, r)]]
  PROVE  Takings' /\ Covered'
  <1> DEFINE c == ToCustomer[t]
  <1>1. c \in Customers
    BY DocumentAssumption DEF DocumentAssumption
  <1>2. ASSUME NEW r \in Receipts
        PROVE  /\ taken'[r] \in [Customers -> Nat]
               /\ Parts(taken'[r]) <= Qty[r]
    <2>1. Take(t, r) \in Nat /\ (Take(t, r) = 0 \/ Take(t, r) <= Available(r))
      BY TakeBounds
    <2>2. taken[r] \in [Customers -> Nat]
      BY DEF Takings
    <2>3. taken'[r] = [taken[r] EXCEPT ![c] = @ + Take(t, r)]
      OBVIOUS
    <2> HIDE DEF c
    <2>4. taken'[r] \in [Customers -> Nat] /\ Parts(taken'[r]) = Parts(taken[r]) + Take(t, r)
      <3>1. taken[r][c] + Take(t, r) \in Nat
        BY <1>1, <2>1, <2>2
      <3>2. /\ taken'[r] \in [Customers -> Nat]
            /\ taken'[r][c] = taken[r][c] + Take(t, r)
            /\ \A x \in Customers \ {c} : taken'[r][x] = taken[r][x]
        BY <1>1, <2>2, <2>3, <3>1
      <3> QED BY <1>1, <2>1, <2>2, <3>2, TakenMore
    <2>7. Parts(taken[r]) <= Qty[r]
      BY DEF Covered
    <2>8. Available(r) = Qty[r] - Parts(taken[r]) /\ Parts(taken[r]) \in Int /\ Qty[r] \in Nat
      BY AvailableInt
    <2> QED BY <2>1, <2>4, <2>7, <2>8
  <1>3. taken' = [r \in Receipts |-> taken'[r]]
    OBVIOUS
  <1> QED BY <1>2, <1>3 DEF Takings, Covered

-------------------------------------------------------------------------------
(* The ledger and the snapshots, step by step.                             *)

(* Every movement carries the number of a completion that has happened, so *)
(* what a completion posts is new to the ledger.                           *)
Numbered == /\ ledger \subseteq Movements /\ IsFiniteSet(ledger)
            /\ \A m \in ledger : m.run <= posted[m.cause]

(* The inductive invariant of the snapshots.                               *)
BookInv == RowTypes /\ Takings /\ Covered /\ Numbered /\ SnapshotsAgree

(* The movements completion number posted[d] + 1 of document d posts.      *)
FromRun(ms, d) == /\ ms \subseteq Movements /\ IsFiniteSet(ms)
                  /\ \A m \in ms : m.cause = d /\ m.run = posted[d] + 1

(* No movement of the next completion of a document is in the ledger.      *)
LEMMA NewMovements ==
  ASSUME RowTypes, Numbered, NEW d \in Docs, NEW ms, FromRun(ms, d)
  PROVE  ledger \cap ms = {}
  <1>1. posted[d] \in Nat
    BY DEF RowTypes
  <1>2. ASSUME NEW m \in ledger, m \in ms PROVE FALSE
    <2>1. m.cause = d /\ m.run = posted[d] + 1 /\ m.run <= posted[m.cause]
      BY <1>2 DEF FromRun, Numbered
    <2> QED BY <1>1, <2>1
  <1> QED BY <1>2

(* A posting of new movements keeps the numbering and the snapshots.       *)
LEMMA PostStep ==
  ASSUME RowTypes, Numbered, SnapshotsAgree, NEW d \in Docs, NEW ms, FromRun(ms, d), Post(ms),
         posted' = [posted EXCEPT ![d] = posted[d] + 1]
  PROVE  Numbered' /\ SnapshotsAgree'
  <1>1. ledger' = ledger \cup ms
    BY DEF Post
  <1>2. ledger' \subseteq Movements /\ IsFiniteSet(ledger')
    BY <1>1, FS_Union DEF Numbered, FromRun
  <1>3. ASSUME NEW m \in ledger' PROVE m.run <= posted'[m.cause]
    <2>1. posted \in [Docs -> Nat]
      BY DEF RowTypes
    <2>2. CASE m \in ms
      BY <1>1, <2>1, <2>2 DEF FromRun
    <2>3. CASE m \in ledger
      <3>1. m.run <= posted[m.cause] /\ m.run \in Nat /\ m.cause \in Docs
        BY <2>3 DEF Numbered, Movements
      <3> QED BY <2>1, <3>1
    <2> QED BY <1>1, <2>2, <2>3
  <1>4. Quantified(ledger) /\ Quantified(ms) /\ ledger \cap ms = {}
    BY NewMovements DEF Quantified, Numbered, FromRun, Movements
  <1>5. balance' = RebuiltBalance(ledger')
    BY <1>1, <1>4, BalanceUnion DEF Post, SnapshotsAgree
  <1>6. daily' = RebuiltDaily(ledger')
    BY <1>1, <1>4, DailyUnion DEF Post, SnapshotsAgree
  <1> QED BY <1>2, <1>3, <1>5, <1>6 DEF Numbered, SnapshotsAgree

(* Two movements, one or none, of one completion.                          *)
LEMMA PairFromRun ==
  ASSUME NEW d, NEW m \in Movements, NEW n \in Movements,
         m.cause = d, n.cause = d, m.run = posted[d] + 1, n.run = posted[d] + 1
  PROVE  FromRun({m, n}, d) /\ FromRun({m}, d) /\ FromRun({}, d)
  <1>1. IsFiniteSet({m, n}) /\ IsFiniteSet({m}) /\ IsFiniteSet({})
    <2>1. {m, n} = {m} \cup {n}
      OBVIOUS
    <2>2. IsFiniteSet({m}) /\ IsFiniteSet({n}) /\ IsFiniteSet({})
      BY FS_Singleton, FS_EmptySet
    <2>3. IsFiniteSet({m} \cup {n})
      BY <2>2, FS_Union
    <2> QED BY <2>1, <2>2, <2>3
  <1> QED BY <1>1 DEF FromRun

(* A receipt has finitely many lines,                                      *)
LEMMA LinesFinite ==
  ASSUME NEW r
  PROVE  IsFiniteSet(Lines(r))
  <1> DEFINE C == {x \in Customers : taken[r][x] > 0}
             child(c) == [Entry(r, "receipt") EXCEPT !.child = TRUE, !.owner = c,
                                                     !.qty = taken[r][c]]
             f == [c \in C |-> child(c)]
             T == {child(c) : c \in C}
  <1>1. IsFiniteSet(C)
    <2>1. C \in SUBSET Customers
      OBVIOUS
    <2> QED BY <2>1, FS_Subset, FiniteAssumption DEF FiniteAssumption
  <1>2. T = {f[c] : c \in C}
    <2> HIDE DEF child, C
    <2> QED OBVIOUS
  <1>3. Lines(r) = {Entry(r, "receipt")} \cup T
    BY DEF Lines
  <1> HIDE DEF C, T, f
  <1>4. IsFiniteSet(T)
    BY <1>1, <1>2, ImageFinite
  <1>5. IsFiniteSet({Entry(r, "receipt")})
    BY FS_Singleton
  <1>6. IsFiniteSet({Entry(r, "receipt")} \cup T)
    BY <1>4, <1>5, FS_Union
  <1> QED BY <1>3, <1>6

(* and finitely many reversals.                                            *)
LEMMA ReversalsFinite ==
  ASSUME Numbered, NEW f
  PROVE  IsFiniteSet(Reversals(f))
  <1> DEFINE L == {n \in ledger : n.type = "receipt" /\ n.prov /\ n.doc = ProvisionOf[f]}
             rev(m) == [m EXCEPT !.type = "reversal", !.qty = -m.qty, !.day = Day[f],
                                 !.cause = f, !.run = posted[f] + 1]
             g == [m \in L |-> rev(m)]
  <1>1. IsFiniteSet(L)
    <2>1. L \in SUBSET ledger
      OBVIOUS
    <2> QED BY <2>1, FS_Subset DEF Numbered
  <1>2. Reversals(f) = {rev(m) : m \in L}
    BY DEF Reversals
  <1>3. Reversals(f) = {g[m] : m \in L}
    <2> HIDE DEF rev, L
    <2> QED BY <1>2
  <1> HIDE DEF L, g
  <1> QED BY <1>1, <1>3, ImageFinite

(* A receipt posts movements of its next completion.                       *)
LEMMA ReceiptRun ==
  ASSUME RowTypes, Takings, Numbered, NEW r \in Receipts
  PROVE  FromRun(ReceiptMovements(r), r)
  <1>1. ReceiptMovements(r) \in SUBSET Lines(r)
    BY DEF ReceiptMovements
  <1>2. \A m \in Lines(r) : m \in Movements /\ m.cause = r /\ m.run = posted[r] + 1
    BY LinesMove DEF Takings
  <1>3. IsFiniteSet(ReceiptMovements(r))
    BY <1>1, LinesFinite, FS_Subset
  <1> QED BY <1>1, <1>2, <1>3 DEF FromRun

(* So does a final receipt.                                                *)
LEMMA FinalRun ==
  ASSUME RowTypes, Takings, Numbered, NEW f \in Finals
  PROVE  FromRun(Reversals(f) \cup ReceiptMovements(f), f)
  <1>1. FromRun(ReceiptMovements(f), f)
    BY ReceiptRun DEF Receipts
  <1>2. FromRun(Reversals(f), f)
    BY ReversalsFinite, ReversalsMove DEF FromRun, Numbered
  <1> QED BY <1>1, <1>2, FS_Union DEF FromRun

(* A step that posts nothing.                                              *)
LEMMA IdleStep ==
  ASSUME BookInv, RowTypes', posted' = posted, UNCHANGED <<taken, ledger, snapshots>>
  PROVE  BookInv'
  BY DEF BookInv, Takings, Covered, Numbered, SnapshotsAgree, snapshots

(* A completion that takes nothing from receipt lines.                     *)
LEMMA UntakenStep ==
  ASSUME BookInv, RowTypes', NEW d \in Docs, NEW ms, FromRun(ms, d), Post(ms),
         posted' = [posted EXCEPT ![d] = posted[d] + 1], taken' = taken
  PROVE  BookInv'
  <1>1. Numbered' /\ SnapshotsAgree'
    BY PostStep DEF BookInv
  <1>2. Takings' /\ Covered'
    BY DEF BookInv, Takings, Covered
  <1> QED BY <1>1, <1>2 DEF BookInv

(* So do a hold release,                                                   *)
LEMMA ReleaseRun ==
  ASSUME RowTypes, NEW h \in Releases
  PROVE  FromRun(IF Released(h) THEN {}
                 ELSE {[Entry(h, "release") EXCEPT !.hold = TRUE, !.qty = -@],
                       [Entry(h, "release") EXCEPT !.hold = FALSE]}, h)
  <1> DEFINE debit  == [Entry(h, "release") EXCEPT !.hold = TRUE, !.qty = -@]
             credit == [Entry(h, "release") EXCEPT !.hold = FALSE]
  <1>1. h \in Docs
    BY DEF Docs, Papers
  <1>2. Entry(h, "release") \in Movements /\ Entry(h, "release").cause = h
        /\ Entry(h, "release").run = posted[h] + 1
    BY <1>1, EntryMoves DEF Types, Entry
  <1>3. Entry(h, "release").qty \in Int
    BY <1>2 DEF Movements
  <1>4. credit \in Movements /\ credit.cause = h /\ credit.run = posted[h] + 1
    BY <1>2 DEF Movements
  <1>5. debit \in Movements /\ debit.cause = h /\ debit.run = posted[h] + 1
    <2> DEFINE e == Entry(h, "release")
    <2>1. e \in Movements /\ e.qty \in Int /\ -e.qty \in Int
      BY <1>2, <1>3
    <2>2. debit = [e EXCEPT !.hold = TRUE, !.qty = -@]
      OBVIOUS
    <2> HIDE DEF e, debit
    <2>3. debit = [type |-> e.type, doc |-> e.doc, child |-> e.child, owner |-> e.owner,
                 ship |-> e.ship, hold |-> TRUE, prov |-> e.prov, day |-> e.day,
                 qty |-> -e.qty, cause |-> e.cause, run |-> e.run]
      BY <2>1, <2>2 DEF Movements
    <2>4. e.cause = h /\ e.run = posted[h] + 1
      BY <1>2 DEF e
    <2> QED BY <2>1, <2>3, <2>4 DEF Movements
  <1> HIDE DEF debit, credit
  <1>6. FromRun({debit, credit}, h) /\ FromRun({}, h)
    BY <1>4, <1>5, PairFromRun
  <1> QED BY <1>6 DEF debit, credit

(* an in-tank transfer,                                                    *)
LEMMA TransferRun ==
  ASSUME RowTypes, NEW t \in Itts, NEW day \in Days
  PROVE  FromRun({[Entry(t, "itt") EXCEPT !.qty = -@, !.day = day],
                  [Entry(t, "itt") EXCEPT !.owner = ToCustomer[t], !.day = day]}, t)
  <1> DEFINE out == [Entry(t, "itt") EXCEPT !.qty = -@, !.day = day]
             in  == [Entry(t, "itt") EXCEPT !.owner = ToCustomer[t], !.day = day]
  <1>1. t \in Docs /\ ToCustomer[t] \in Customers
    BY DocumentAssumption DEF Docs, Papers, DocumentAssumption
  <1>2. Entry(t, "itt") \in Movements /\ Entry(t, "itt").cause = t
        /\ Entry(t, "itt").run = posted[t] + 1
    BY <1>1, EntryMoves DEF Types, Entry
  <1>3. Entry(t, "itt").qty \in Int
    BY <1>2 DEF Movements
  <1>4. out \in Movements /\ out.cause = t /\ out.run = posted[t] + 1
    <2> DEFINE e == Entry(t, "itt")
    <2>1. e \in Movements /\ e.qty \in Int /\ -e.qty \in Int
      BY <1>2, <1>3
    <2>2. out = [e EXCEPT !.qty = -@, !.day = day]
      OBVIOUS
    <2> HIDE DEF e, out
    <2>3. out = [type |-> e.type, doc |-> e.doc, child |-> e.child, owner |-> e.owner,
                 ship |-> e.ship, hold |-> e.hold, prov |-> e.prov, day |-> day,
                 qty |-> -e.qty, cause |-> e.cause, run |-> e.run]
      BY <2>1, <2>2 DEF Movements
    <2>4. e.cause = t /\ e.run = posted[t] + 1
      BY <1>2 DEF e
    <2> QED BY <2>1, <2>3, <2>4 DEF Movements
  <1>5. in \in Movements /\ in.cause = t /\ in.run = posted[t] + 1
    BY <1>1, <1>2 DEF Movements
  <1> HIDE DEF out, in
  <1>6. FromRun({out, in}, t)
    BY <1>4, <1>5, PairFromRun
  <1> QED BY <1>6 DEF out, in

(* a zerolization                                                          *)
LEMMA ZerolRun ==
  ASSUME RowTypes, NEW z \in Zerols
  PROVE  FromRun({[Entry(z, "zerolization") EXCEPT !.hold = FALSE, !.qty = -@],
                  [Entry(z, "zerolization") EXCEPT !.hold = FALSE, !.ship = ToVessel[z]]}, z)
  <1> DEFINE from == [Entry(z, "zerolization") EXCEPT !.hold = FALSE, !.qty = -@]
             to   == [Entry(z, "zerolization") EXCEPT !.hold = FALSE, !.ship = ToVessel[z]]
  <1>1. z \in Docs /\ ToVessel[z] \in Vessels
    BY DocumentAssumption DEF Docs, Papers, DocumentAssumption
  <1>2. Entry(z, "zerolization") \in Movements /\ Entry(z, "zerolization").cause = z
        /\ Entry(z, "zerolization").run = posted[z] + 1
    BY <1>1, EntryMoves DEF Types, Entry
  <1>3. Entry(z, "zerolization").qty \in Int
    BY <1>2 DEF Movements
  <1>4. from \in Movements /\ from.cause = z /\ from.run = posted[z] + 1
    <2> DEFINE e == Entry(z, "zerolization")
    <2>1. e \in Movements /\ e.qty \in Int /\ -e.qty \in Int
      BY <1>2, <1>3
    <2>2. from = [e EXCEPT !.hold = FALSE, !.qty = -@]
      OBVIOUS
    <2> HIDE DEF e, from
    <2>3. from = [type |-> e.type, doc |-> e.doc, child |-> e.child, owner |-> e.owner,
                 ship |-> e.ship, hold |-> FALSE, prov |-> e.prov, day |-> e.day,
                 qty |-> -e.qty, cause |-> e.cause, run |-> e.run]
      BY <2>1, <2>2 DEF Movements
    <2>4. e.cause = z /\ e.run = posted[z] + 1
      BY <1>2 DEF e
    <2> QED BY <2>1, <2>3, <2>4 DEF Movements
  <1>5. to \in Movements /\ to.cause = z /\ to.run = posted[z] + 1
    BY <1>1, <1>2 DEF Movements
  <1> HIDE DEF from, to
  <1>6. FromRun({from, to}, z)
    BY <1>4, <1>5, PairFromRun
  <1> QED BY <1>6 DEF from, to

(* and a delivery.                                                         *)
LEMMA DeliveryRun ==
  ASSUME RowTypes, NEW d \in Deliveries
  PROVE  FromRun({[Entry(d, "delivery") EXCEPT !.qty = -@]}, d)
  <1> DEFINE out == [Entry(d, "delivery") EXCEPT !.qty = -@]
  <1>1. d \in Docs
    BY DEF Docs
  <1>2. Entry(d, "delivery") \in Movements /\ Entry(d, "delivery").cause = d
        /\ Entry(d, "delivery").run = posted[d] + 1
    BY <1>1, EntryMoves DEF Types, Entry
  <1>3. Entry(d, "delivery").qty \in Int
    BY <1>2 DEF Movements
  <1>4. out \in Movements /\ out.cause = d /\ out.run = posted[d] + 1
    BY <1>2, <1>3 DEF Movements
  <1> HIDE DEF out
  <1>5. FromRun({out}, d)
    BY <1>4, PairFromRun
  <1> QED BY <1>5 DEF out

(* The snapshots start as a rebuild of what was imported.                  *)
LEMMA InitBook == Init => BookInv
  <1> SUFFICES ASSUME Init PROVE BookInv
    OBVIOUS
  <1>1. RowTypes
    BY DEF Init, RowTypes, Statuses
  <1>2. Takings
    BY DEF Init, Takings
  <1>3. Covered
    <2>1. SUFFICES ASSUME NEW r \in Receipts PROVE Parts(taken[r]) <= Qty[r]
      BY DEF Covered
    <2>2. \A c \in Customers : taken[r][c] = 0
      BY DEF Init
    <2>3. Total(taken[r], Customers) = 0
      BY <2>2, TotalZero, FiniteAssumption DEF FiniteAssumption
    <2>4. Qty[r] \in Nat
      BY DocumentAssumption DEF DocumentAssumption, Docs, Papers
    <2> QED BY <2>3, <2>4, PartsTotal
  <1>4. Numbered
    <2>1. ledger = Imported
      BY DEF Init
    <2>2. ASSUME NEW m \in ledger PROVE m \in Movements /\ m.run <= posted[m.cause]
      <3>1. m \in Movements /\ m.run = 0
        BY <2>1, <2>2, ImportAssumption DEF ImportAssumption
      <3>2. posted[m.cause] = 0
        BY <3>1 DEF Init, Movements
      <3> QED BY <3>1, <3>2
    <2> QED BY <2>1, <2>2, FiniteAssumption DEF Numbered, FiniteAssumption
  <1>5. SnapshotsAgree
    BY DEF Init, SnapshotsAgree
  <1> QED BY <1>1, <1>2, <1>3, <1>4, <1>5 DEF BookInv

(* Every step keeps BookInv.                                               *)
LEMMA NextBook == BookInv /\ [Next]_vars => BookInv'
  <1> SUFFICES ASSUME BookInv, [Next]_vars PROVE BookInv'
    OBVIOUS
  <1>0. RowTypes /\ RowTypes' /\ Takings /\ Numbered
    BY TypesStep DEF BookInv
  <1>1. CASE UNCHANGED vars
    BY <1>0, <1>1, IdleStep DEF vars
  <1>2. ASSUME NEW d \in Papers, Submit(d) \/ Reject(d) PROVE BookInv'
    BY <1>0, <1>2, IdleStep DEF Submit, Reject
  <1>3. ASSUME NEW r \in Arrivals \cup Provisions, ApproveReceipt(r) PROVE BookInv'
    <2>1. r \in Docs /\ r \in Receipts
      BY DEF Docs, Papers, Receipts
    <2>2. FromRun(ReceiptMovements(r), r)
      BY <1>0, <2>1, ReceiptRun
    <2> QED BY <1>0, <1>3, <2>1, <2>2, UntakenStep DEF ApproveReceipt, Complete
  <1>4. ASSUME NEW f \in Finals, CheckConvert(f) \/ CreateFinal(f) PROVE BookInv'
    BY <1>0, <1>4, IdleStep DEF CheckConvert, CreateFinal
  <1>5. ASSUME NEW f \in Finals, ApproveFinal(f) PROVE BookInv'
    <2>1. f \in Docs
      BY DEF Docs, Papers, Receipts
    <2>2. FromRun(Reversals(f) \cup ReceiptMovements(f), f)
      BY <1>0, FinalRun
    <2> QED BY <1>0, <1>5, <2>1, <2>2, UntakenStep DEF ApproveFinal, Complete
  <1>6. ASSUME NEW t \in Itts, NEW day \in Days, ApproveItt(t, day) PROVE BookInv'
    <2> DEFINE ms == {[Entry(t, "itt") EXCEPT !.qty = -@, !.day = day],
                      [Entry(t, "itt") EXCEPT !.owner = ToCustomer[t], !.day = day]}
    <2>1. t \in Docs
      BY DEF Docs, Papers
    <2>2. FromRun(ms, t)
      BY <1>0, TransferRun
    <2>3. Post(ms)
      BY <1>6 DEF ApproveItt
    <2> HIDE DEF ms
    <2>4. Numbered' /\ SnapshotsAgree'
      BY <1>6, <2>1, <2>2, <2>3, PostStep DEF BookInv, ApproveItt, Complete
    <2>5. Takings' /\ Covered'
      BY <1>6, CoveredStep DEF BookInv, ApproveItt
    <2> QED BY <1>0, <2>4, <2>5 DEF BookInv
  <1>7. ASSUME NEW z \in Zerols, ApproveZerol(z) PROVE BookInv'
    <2> DEFINE ms == {[Entry(z, "zerolization") EXCEPT !.hold = FALSE, !.qty = -@],
                      [Entry(z, "zerolization") EXCEPT !.hold = FALSE, !.ship = ToVessel[z]]}
    <2>1. z \in Docs
      BY DEF Docs, Papers
    <2>2. FromRun(ms, z)
      BY <1>0, ZerolRun
    <2>3. Post(ms)
      BY <1>7 DEF ApproveZerol
    <2> HIDE DEF ms
    <2> QED BY <1>0, <1>7, <2>1, <2>2, <2>3, UntakenStep DEF ApproveZerol, Complete
  <1>8. ASSUME NEW h \in Releases, CheckRelease(h) PROVE BookInv'
    BY <1>0, <1>8, IdleStep DEF CheckRelease
  <1>9. ASSUME NEW h \in Releases, PostRelease(h) PROVE BookInv'
    <2> DEFINE ms == IF Released(h) THEN {}
                 ELSE {[Entry(h, "release") EXCEPT !.hold = TRUE, !.qty = -@],
                       [Entry(h, "release") EXCEPT !.hold = FALSE]}
    <2>1. h \in Docs
      BY DEF Docs, Papers
    <2>2. FromRun(ms, h)
      BY <1>0, ReleaseRun
    <2>3. Post(ms)
      BY <1>9 DEF PostRelease
    <2> HIDE DEF ms
    <2> QED BY <1>0, <1>9, <2>1, <2>2, <2>3, UntakenStep DEF PostRelease, Complete
  <1>10. ASSUME NEW d \in Deliveries, IngestEvent(d) PROVE BookInv'
    <2> DEFINE ms == {[Entry(d, "delivery") EXCEPT !.qty = -@]}
    <2>1. d \in Docs
      BY DEF Docs
    <2>2. CASE UNCHANGED vars
      BY <1>0, <2>2, IdleStep DEF vars
    <2>3. FromRun(ms, d)
      BY <1>0, DeliveryRun
    <2>4. CASE posted[d] = 0 /\ posted' = [posted EXCEPT ![d] = 1] /\ Post(ms) /\ taken' = taken
      <3> HIDE DEF ms
      <3>1. posted' = [posted EXCEPT ![d] = posted[d] + 1]
        BY <2>4
      <3> QED BY <1>0, <2>1, <2>3, <2>4, <3>1, UntakenStep
    <2> QED BY <1>10, <2>2, <2>4 DEF IngestEvent
  <1> QED
    BY <1>1, <1>2, <1>3, <1>4, <1>5, <1>6, <1>7, <1>8, <1>9, <1>10 DEF Next

(* The numbering, the cover of the parcels and the agreement of the        *)
(* snapshots hold in every reachable state.                                *)
THEOREM BookKept == Spec => []BookInv
  BY InitBook, NextBook, PTL DEF Spec

(* StockBalance and StockDailyPosition, kept up to date movement by        *)
(* movement in the posting transactions, are at every moment what          *)
(* RebuildSnapshots would compute from the whole ledger.                   *)
THEOREM SnapshotsKept == Spec => []SnapshotsAgree
  <1>1. BookInv => SnapshotsAgree
    BY DEF BookInv
  <1> QED BY <1>1, BookKept, PTL

(* In-tank transfers (attachIttBillingParcels) never take more from a      *)
(* receipt line than was received on it.                                   *)
THEOREM ParcelsNeverOverdrawn == Spec => []ParcelsCovered
  <1>1. BookInv => ParcelsCovered
    <2> SUFFICES ASSUME BookInv, NEW r \in Receipts
        PROVE  /\ \A c \in Customers : taken[r][c] >= 0
               /\ MapThenSumSet(LAMBDA c : taken[r][c], Customers) <= Qty[r]
      BY DEF ParcelsCovered
    <2>1. \A c \in Customers : taken[r][c] \in Nat
      BY DEF BookInv, Takings
    <2>2. Parts(taken[r]) <= Qty[r]
      BY DEF BookInv, Covered
    <2> QED BY <2>1, <2>2 DEF Parts
  <1> QED BY <1>1, BookKept, PTL

(* Type correctness of the documents, the ledger and both snapshot tables. *)
THEOREM TypeCorrect == Spec => []TypeOK
  <1>1. BookInv => TypeOK
    <2> SUFFICES ASSUME BookInv PROVE TypeOK
      OBVIOUS
    <2>1. RowTypes /\ taken \in [Receipts -> [Customers -> Nat]] /\ ledger \subseteq Movements
      BY DEF BookInv, Takings, Numbered
    <2>2. Quantified(ledger)
      BY DEF BookInv, Numbered, Quantified, Movements
    <2>3. balance \in [Keys -> Int]
      <3>1. balance = RebuiltBalance(ledger)
        BY DEF BookInv, SnapshotsAgree
      <3>2. ASSUME NEW k \in Keys PROVE NoStock[k] + SumQty({m \in ledger : KeyOf(m) = k}) \in Int
        <4> DEFINE p == {m \in ledger : KeyOf(m) = k}
        <4>1. PartOf(p, ledger)
          BY DEF PartOf
        <4> HIDE DEF p
        <4>2. SumQty(p) \in Int
          BY <2>2, <4>1, PartQuantified, SumQtyInt
        <4>3. NoStock[k] = 0
          BY DEF NoStock
        <4> QED BY <4>2, <4>3 DEF p
      <3> QED BY <3>1, <3>2 DEF RebuiltBalance, ApplyBalance
    <2>4. daily \in [RowsOf(ledger) -> DailyRows]
      <3>1. daily = [x \in RowsOf(ledger) |-> Figures(ledger, x)]
        BY DailyRebuilt DEF BookInv, SnapshotsAgree
      <3>2. ASSUME NEW x PROVE Figures(ledger, x) \in DailyRows
        <4>1. /\ PartOf(Row(ledger, x), ledger) /\ PartOf(InRow(ledger, x), ledger)
              /\ PartOf(OutRow(ledger, x), ledger) /\ PartOf(HeldRow(ledger, x), ledger)
          BY DEF PartOf, Row, InRow, OutRow, HeldRow, Booked
        <4>2. /\ SumQty(Row(ledger, x)) \in Int /\ SumQty(InRow(ledger, x)) \in Int
              /\ SumQty(OutRow(ledger, x)) \in Int /\ SumQty(HeldRow(ledger, x)) \in Int
          BY <2>2, <4>1, PartQuantified, SumQtyInt
        <4> QED BY <4>2 DEF Figures, DailyRows
      <3> QED BY <3>1, <3>2
    <2>5. RowsOf(ledger) \subseteq Days \X Customers
      BY <2>1 DEF RowsOf, Booked, Movements
    <2> QED BY <2>1, <2>3, <2>4, <2>5 DEF TypeOK
  <1> QED BY <1>1, BookKept, PTL

-------------------------------------------------------------------------------
(* Documents and their histories.                                          *)

(* An approved document has been completed, and a final follows its        *)
(* provision.                                                               *)
ApprovedPosted == \A d \in Docs : status[d] = "approved" => posted[d] > 0
FinalsFollow ==
  \A f \in Finals : (status[f] # "none" \/ f \in checked \/ posted[f] > 0) =>
    posted[ProvisionOf[f]] > 0

(* What the documents' states say of their histories.                      *)
Progress == RowTypes /\ ApprovedPosted /\ FinalsFollow

(* The kinds of documents among the documents.                             *)
LEMMA DocKinds ==
  /\ Papers \subseteq Docs /\ Receipts \subseteq Papers /\ Finals \subseteq Receipts
  /\ Arrivals \subseteq Receipts /\ Provisions \subseteq Receipts
  /\ Itts \subseteq Papers /\ Zerols \subseteq Papers /\ Releases \subseteq Papers
  /\ Deliveries \subseteq Docs
  /\ \A f \in Finals : ProvisionOf[f] \in Provisions
  BY DocumentAssumption DEF Papers, Docs, Receipts, DocumentAssumption

(* A completion keeps it,                                                  *)
LEMMA CompletionProgress ==
  ASSUME Progress, RowTypes', NEW d \in Papers, Complete(d), checked' \subseteq checked
  PROVE  Progress'
  <1>1. d \in Docs /\ posted[d] \in Nat
    BY DocKinds DEF Progress, RowTypes, Complete
  <1>2. /\ posted' = [posted EXCEPT ![d] = posted[d] + 1] /\ posted \in [Docs -> Nat]
        /\ status' = [status EXCEPT ![d] = "approved"] /\ status \in [Docs -> Statuses]
        /\ status[d] = "submitted"
    BY DEF Complete, Progress, RowTypes
  <1>4. ApprovedPosted'
    BY <1>1, <1>2 DEF Progress, ApprovedPosted
  <1>5. FinalsFollow'
    <2> SUFFICES ASSUME NEW f \in Finals, status'[f] # "none" \/ f \in checked' \/ posted'[f] > 0
        PROVE  posted'[ProvisionOf[f]] > 0
      BY DEF FinalsFollow
    <2>1. f \in Docs /\ ProvisionOf[f] \in Docs
      BY DocKinds
    <2>2. status[f] # "none" \/ f \in checked \/ posted[f] > 0
      BY <1>2, <2>1
    <2>3. posted[ProvisionOf[f]] > 0
      BY <2>2 DEF Progress, FinalsFollow
    <2> QED BY <1>1, <1>2, <2>1, <2>3
  <1> QED BY <1>4, <1>5 DEF Progress

(* and so does every step.                                                 *)
LEMMA ProgressStep ==
  ASSUME Progress, [Next]_vars
  PROVE  Progress'
  <1>0. RowTypes /\ RowTypes'
    BY TypesStep DEF Progress, Next, vars
  <1> USE <1>0
  <1>1. CASE UNCHANGED vars
    BY <1>1 DEF vars, Progress, ApprovedPosted, FinalsFollow
  <1>2. ASSUME NEW d \in Papers, Submit(d) PROVE Progress'
    <2>1. status' = [status EXCEPT ![d] = "submitted"] /\ status \in [Docs -> Statuses]
          /\ status[d] # "none" /\ UNCHANGED <<posted, checked>>
      BY <1>2 DEF Submit, RowTypes
    <2> QED BY <2>1 DEF Progress, ApprovedPosted, FinalsFollow
  <1>3. ASSUME NEW d \in Papers, Reject(d) PROVE Progress'
    <2>1. status' = [status EXCEPT ![d] = "rejected"] /\ status \in [Docs -> Statuses]
          /\ status[d] = "submitted" /\ UNCHANGED <<posted, checked>>
      BY <1>3 DEF Reject, RowTypes
    <2> QED BY <2>1 DEF Progress, ApprovedPosted, FinalsFollow
  <1>4. ASSUME NEW r \in Arrivals \cup Provisions, ApproveReceipt(r) PROVE Progress'
    BY <1>4, CompletionProgress, DocKinds DEF ApproveReceipt
  <1>5. ASSUME NEW f \in Finals, CheckConvert(f) PROVE Progress'
    <2>1. posted[ProvisionOf[f]] > 0
      BY <1>5, DocKinds DEF CheckConvert, Progress, ApprovedPosted
    <2> QED BY <1>5, <2>1 DEF CheckConvert, Progress, ApprovedPosted, FinalsFollow
  <1>6. ASSUME NEW f \in Finals, CreateFinal(f) PROVE Progress'
    <2>1. status' = [status EXCEPT ![f] = "draft"] /\ status \in [Docs -> Statuses]
          /\ f \in checked /\ checked' = checked \ {f} /\ posted' = posted
      BY <1>6 DEF CreateFinal, RowTypes
    <2> QED BY <2>1 DEF Progress, ApprovedPosted, FinalsFollow
  <1>7. ASSUME NEW f \in Finals, ApproveFinal(f) PROVE Progress'
    BY <1>7, CompletionProgress, DocKinds DEF ApproveFinal
  <1>8. ASSUME NEW t \in Itts, NEW day \in Days, ApproveItt(t, day) PROVE Progress'
    BY <1>8, CompletionProgress, DocKinds DEF ApproveItt
  <1>9. ASSUME NEW z \in Zerols, ApproveZerol(z) PROVE Progress'
    BY <1>9, CompletionProgress, DocKinds DEF ApproveZerol
  <1>10. ASSUME NEW h \in Releases, CheckRelease(h) PROVE Progress'
    <2>1. h \notin Finals
      BY KindAssumption DEF KindAssumption
    <2> QED BY <1>10, <2>1 DEF CheckRelease, Progress, ApprovedPosted, FinalsFollow
  <1>11. ASSUME NEW h \in Releases, PostRelease(h) PROVE Progress'
    BY <1>11, CompletionProgress, DocKinds DEF PostRelease
  <1>12. ASSUME NEW m \in Deliveries, IngestEvent(m) PROVE Progress'
    <2>1. m \in Docs
      BY DocKinds DEF Progress
    <2>2. CASE UNCHANGED vars
      BY <1>1, <2>2
    <2>3. CASE posted[m] = 0 /\ posted' = [posted EXCEPT ![m] = 1]
               /\ UNCHANGED <<status, checked>>
      <3>1. m \notin Papers
        BY KindAssumption DEF KindAssumption
      <3>2. posted \in [Docs -> Nat]
        BY DEF RowTypes
      <3>3. \A d \in Docs : posted'[d] = IF d = m THEN 1 ELSE posted[d]
        BY <2>3, <3>2
      <3>4. ApprovedPosted'
        BY <2>1, <2>3, <3>1, <3>2, <3>3 DEF Progress, ApprovedPosted
      <3>5. FinalsFollow'
        BY <2>3, <3>1, <3>3, DocKinds DEF Progress, FinalsFollow
      <3> QED BY <3>4, <3>5 DEF Progress
    <2> QED BY <1>12, <2>2, <2>3 DEF IngestEvent
  <1> QED
    BY <1>1, <1>2, <1>3, <1>4, <1>5, <1>6, <1>7, <1>8, <1>9, <1>10, <1>11, <1>12 DEF Next

(* It holds at the start.                                                  *)
LEMMA InitProgress == Init => Progress
  BY DocKinds DEF Init, Progress, RowTypes, Statuses, ApprovedPosted, FinalsFollow

-------------------------------------------------------------------------------
(* The marks in the ledger.                                                *)

(* Transfers take nothing from provisions.                                 *)
NeverOfProvisions == \A r \in Provisions, c \in Customers : ~(taken[r][c] > 0)

(* The receipt movements are of completed receipts: one of each receipt's  *)
(* own line, and those of derived lines, none above what transfers took.   *)
OwnLine(m) == /\ m.child = FALSE
              /\ m.owner = Owner[m.doc] /\ m.ship = Ship[m.doc] /\ m.hold = Held[m.doc]
              /\ m.prov = (m.doc \in Provisions) /\ m.qty = Qty[m.doc]
DerivedLine(m, took) == /\ m.child /\ m.doc \notin Provisions /\ m.owner \in Customers
                        /\ m.qty \in Nat \ {0} /\ m.qty <= took[m.doc][m.owner]
ReceiptsMarked ==
  \A m \in ledger : m.type = "receipt" =>
    /\ m.doc \in Receipts /\ posted[m.doc] > 0
    /\ OwnLine(m) \/ DerivedLine(m, taken)
ReceiptsPosted ==
  \A r \in Receipts : posted[r] > 0 =>
    \E m \in ledger : m.type = "receipt" /\ m.doc = r /\ ~m.child
ReleasesMarked ==
  \A m \in ledger : m.type = "release" => m.doc \in Releases /\ posted[m.doc] > 0
ReleasesPosted ==
  \A h \in Releases : posted[h] > 0 => \E m \in ledger : m.type = "release" /\ m.doc = h

(* The marks that PostReceipt and PostHoldRelease read, together.          *)
Marks == /\ NeverOfProvisions /\ ReceiptsMarked /\ ReceiptsPosted
         /\ ReleasesMarked /\ ReleasesPosted

(* A receipt posts its own line if it is completed for the first time, and *)
(* derived lines besides.                                                  *)
LEMMA ReceiptMoves ==
  ASSUME RowTypes, Takings, Marks, NEW r \in Receipts
  PROVE  \E ds : /\ ReceiptMovements(r) = (IF posted[r] = 0 THEN {Entry(r, "receipt")} ELSE {})
                                            \cup ds
                 /\ \A m \in ds : m.type = "receipt" /\ m.doc = r /\ DerivedLine(m, taken)
  <1> DEFINE e == Entry(r, "receipt")
             D == {[e EXCEPT !.child = TRUE, !.owner = c, !.qty = taken[r][c]] :
                     c \in {x \in Customers : taken[r][x] > 0}}
             fresh(m) == ~\E n \in ledger : n.type = "receipt" /\ SameLine(m, n)
             ds == {m \in D : fresh(m)}
  <1>1. ReceiptMovements(r) = {m \in {e} : fresh(m)} \cup ds
    BY DEF ReceiptMovements, Lines
  <1>2. e.doc = r /\ e.child = FALSE
    BY DEF Entry
  <1>3. posted[r] \in Nat
    BY DocKinds DEF RowTypes
  <1>4. \A m \in D : m.type = "receipt" /\ m.doc = r /\ DerivedLine(m, taken)
    <2> SUFFICES ASSUME NEW c \in Customers, taken[r][c] > 0
        PROVE  LET m == [e EXCEPT !.child = TRUE, !.owner = c, !.qty = taken[r][c]]
               IN m.type = "receipt" /\ m.doc = r /\ DerivedLine(m, taken)
      OBVIOUS
    <2>1. r \notin Provisions /\ taken[r][c] \in Nat
      BY DEF Marks, NeverOfProvisions, Takings
    <2>2. (r \in Provisions) = FALSE
      BY <2>1
    <2> DEFINE m == [e EXCEPT !.child = TRUE, !.owner = c, !.qty = taken[r][c]]
    <2>3. m.type = "receipt" /\ m.doc = r /\ m.child = TRUE /\ m.owner = c /\ m.qty = taken[r][c]
      BY DEF Entry
    <2> HIDE DEF m, e
    <2> QED BY <2>1, <2>3 DEF DerivedLine, m
  <1> HIDE DEF e, D
  <1>5. {m \in {e} : fresh(m)} = IF posted[r] = 0 THEN {e} ELSE {}
    <2>1. CASE posted[r] = 0
      <3>1. ASSUME NEW n \in ledger, n.type = "receipt", SameLine(e, n) PROVE FALSE
        BY <1>2, <2>1, <3>1 DEF Marks, ReceiptsMarked, SameLine
      <3> QED BY <2>1, <3>1
    <2>2. CASE posted[r] > 0
      <3>1. PICK n \in ledger : n.type = "receipt" /\ n.doc = r /\ ~n.child
        BY <2>2 DEF Marks, ReceiptsPosted
      <3>2. OwnLine(n)
        BY <3>1 DEF Marks, ReceiptsMarked, DerivedLine
      <3>3. SameLine(e, n)
        BY <1>2, <3>1, <3>2 DEF OwnLine, SameLine
      <3> QED BY <2>2, <3>1, <3>3
    <2> QED BY <1>3, <2>1, <2>2
  <1>6. ReceiptMovements(r) = (IF posted[r] = 0 THEN {e} ELSE {}) \cup ds
    BY <1>1, <1>5
  <1>7. \A m \in ds : m.type = "receipt" /\ m.doc = r /\ DerivedLine(m, taken)
    BY <1>4
  <1> QED BY <1>6, <1>7 DEF e

(* What a completion of d may post,                                        *)
Marked(ms, d) ==
  /\ \A m \in ms : m.type = "receipt" =>
       m.doc = d /\ d \in Receipts /\ (OwnLine(m) \/ DerivedLine(m, taken))
  /\ \A m \in ms : m.type = "release" => m.doc = d /\ d \in Releases
  /\ d \in Receipts /\ posted[d] = 0 => \E m \in ms : m.type = "receipt" /\ m.doc = d /\ ~m.child
  /\ d \in Releases /\ posted[d] = 0 => \E m \in ms : m.type = "release" /\ m.doc = d

(* and take from receipt lines.                                            *)
TakesMore ==
  /\ \A r \in Receipts, c \in Customers : taken'[r][c] \in Nat /\ taken'[r][c] >= taken[r][c]
  /\ \A r \in Provisions, c \in Customers : taken'[r][c] = taken[r][c]

(* Taking nothing is a case of it.                                         *)
LEMMA NothingTaken ==
  ASSUME Takings, taken' = taken
  PROVE  TakesMore
  BY DEF Takings, TakesMore

(* A completion of d that posts ms keeps them.                             *)
LEMMA MarksKept ==
  ASSUME Marks, RowTypes, Takings, NEW d \in Docs, posted' = [posted EXCEPT ![d] = posted[d] + 1],
         NEW ms, ledger' = ledger \cup ms, TakesMore, Marked(ms, d)
  PROVE  Marks'
  <1> USE DEF Marked, TakesMore
  <1>0. /\ \A x \in Docs : posted[x] \in Nat /\ (posted[x] > 0 => posted'[x] > 0)
        /\ posted'[d] > 0
        /\ \A x \in Docs : posted'[x] > 0 => posted[x] > 0 \/ (x = d /\ posted[d] = 0)
    BY DEF RowTypes
  <1>1. ReceiptsMarked'
    <2> SUFFICES ASSUME NEW m \in ledger', m.type = "receipt"
        PROVE  /\ m.doc \in Receipts /\ posted'[m.doc] > 0
               /\ OwnLine(m) \/ DerivedLine(m, taken')
      BY DEF ReceiptsMarked, OwnLine, DerivedLine
    <2>1. /\ m.doc \in Receipts /\ posted'[m.doc] > 0
          /\ OwnLine(m) \/ DerivedLine(m, taken)
      BY <1>0, DocKinds DEF Marks, ReceiptsMarked
    <2>2. ASSUME DerivedLine(m, taken) PROVE DerivedLine(m, taken')
      <3>1. m.owner \in Customers /\ m.doc \in Receipts
        BY <2>1, <2>2 DEF DerivedLine
      <3>2. /\ taken'[m.doc][m.owner] >= taken[m.doc][m.owner] /\ taken'[m.doc][m.owner] \in Nat
            /\ taken[m.doc][m.owner] \in Nat
        BY <3>1 DEF Takings
      <3>3. m.qty \in Nat /\ m.qty <= taken[m.doc][m.owner]
        BY <2>2 DEF DerivedLine
      <3>4. m.qty <= taken'[m.doc][m.owner]
        BY <3>2, <3>3
      <3> QED BY <2>2, <3>4 DEF DerivedLine
    <2> QED BY <2>1, <2>2
  <1>2. ReceiptsPosted'
    BY <1>0, DocKinds DEF Marks, ReceiptsPosted
  <1>3. ReleasesMarked'
    BY <1>0, DocKinds DEF Marks, ReleasesMarked
  <1>4. ReleasesPosted'
    BY <1>0, DocKinds DEF Marks, ReleasesPosted
  <1>5. NeverOfProvisions'
    BY DEF Marks, NeverOfProvisions
  <1> QED BY <1>1, <1>2, <1>3, <1>4, <1>5 DEF Marks

(* A step that posts nothing keeps them too.                               *)
LEMMA MarksIdle ==
  ASSUME Marks, posted' = posted, ledger' = ledger, taken' = taken
  PROVE  Marks'
  BY DEF Marks, ReceiptsMarked, ReceiptsPosted, ReleasesMarked, ReleasesPosted,
         NeverOfProvisions, OwnLine, DerivedLine

-------------------------------------------------------------------------------
(* Accounts.                                                               *)

(* What movements bring to account k.                                      *)
KeySum(ms, k) == SumQty({m \in ms : KeyOf(m) = k})

(* No movements bring nothing,                                             *)
LEMMA KeySumNone == \A k : KeySum({}, k) = 0
  <1>1. ASSUME NEW k PROVE {m \in {} : KeyOf(m) = k} = {}
    OBVIOUS
  <1> QED BY <1>1, SumQtyEmpty DEF KeySum

(* one brings its quantity to its own account,                             *)
LEMMA KeySumOne ==
  ASSUME NEW m, m.qty \in Int, NEW k
  PROVE  KeySum({m}, k) = IF KeyOf(m) = k THEN m.qty ELSE 0
  <1>1. CASE KeyOf(m) = k
    <2>1. {x \in {m} : KeyOf(x) = k} = {m}
      BY <1>1
    <2> QED BY <1>1, <2>1, SumQtyOne DEF KeySum
  <1>2. CASE KeyOf(m) # k
    <2>1. {x \in {m} : KeyOf(x) = k} = {}
      BY <1>2
    <2> QED BY <1>2, <2>1, SumQtyEmpty DEF KeySum
  <1> QED BY <1>1, <1>2

(* disjoint postings bring what both bring,                                *)
LEMMA KeySumUnion ==
  ASSUME NEW ms, NEW ns, Quantified(ms), Quantified(ns), ms \cap ns = {}, NEW k
  PROVE  /\ KeySum(ms \cup ns, k) = KeySum(ms, k) + KeySum(ns, k)
         /\ KeySum(ms, k) \in Int /\ KeySum(ns, k) \in Int
  <1> DEFINE p == {m \in ms : KeyOf(m) = k}
             q == {m \in ns : KeyOf(m) = k}
  <1>1. {m \in ms \cup ns : KeyOf(m) = k} = p \cup q
    OBVIOUS
  <1>2. PartOf(p, ms) /\ PartOf(q, ns)
    BY DEF PartOf
  <1> HIDE DEF p, q
  <1>3. SumQty(p \cup q) = SumQty(p) + SumQty(q) /\ SumQty(p) \in Int /\ SumQty(q) \in Int
    BY <1>2, PartsUnion
  <1> QED BY <1>1, <1>3 DEF KeySum, p, q

(* and two movements what each brings.                                     *)
LEMMA KeySumTwo ==
  ASSUME NEW m, NEW n, m # n, m.qty \in Int, n.qty \in Int, NEW k
  PROVE  KeySum({m, n}, k) = (IF KeyOf(m) = k THEN m.qty ELSE 0)
                               + (IF KeyOf(n) = k THEN n.qty ELSE 0)
  <1>1. {m, n} = {m} \cup {n} /\ {m} \cap {n} = {}
    OBVIOUS
  <1>2. IsFiniteSet({m}) /\ IsFiniteSet({n})
    BY FS_Singleton
  <1>3. Quantified({m}) /\ Quantified({n})
    BY <1>2 DEF Quantified
  <1>4. KeySum({m} \cup {n}, k) = KeySum({m}, k) + KeySum({n}, k)
    BY <1>1, <1>3, KeySumUnion
  <1>5. /\ KeySum({m}, k) = IF KeyOf(m) = k THEN m.qty ELSE 0
        /\ KeySum({n}, k) = IF KeyOf(n) = k THEN n.qty ELSE 0
    BY KeySumOne
  <1> QED BY <1>1, <1>4, <1>5

-------------------------------------------------------------------------------
(* StockExplained, with its sums as a Total and as KeySums.                *)
NetOf(k) == [d \in Docs |-> Net(d, k)]
Explained ==
  \A k \in Keys : balance[k] = KeySum(Imported, k) + KeySum(DerivedLines, k) + Total(NetOf(k), Docs)

(* The sum of StockExplained.                                              *)
NetSum(k) == MapThenSumSet(LAMBDA d : Net(d, k), Docs)

(* It is a Total.                                                          *)
LEMMA NetSumTotal ==
  ASSUME NEW k
  PROVE  NetSum(k) = Total(NetOf(k), Docs)
  <1> DEFINE Body(g) == [s \in SUBSET Docs |-> IF s = {} THEN 0
                           ELSE Net(Pick(s), k) + g[s \ {Pick(s)}]]
             sum == CHOOSE g : g = Body(g)
  <1>1. NetSum(k) = sum[Docs]
    BY DEF NetSum, MapThenSumSet, MapThenFoldSet, Pick
  <1>2. ASSUME NEW s \in SUBSET Docs, s # {} PROVE NetOf(k)[Pick(s)] = Net(Pick(s), k)
    <2>1. Pick(s) \in Docs
      BY <1>2, PickIn
    <2> QED BY <2>1 DEF NetOf
  <1>3. \A g : Summing(NetOf(k), Docs, g) <=> g = Body(g)
    BY <1>2 DEF Summing
  <1> HIDE DEF Body
  <1>4. IsFiniteSet(Docs)
    BY FiniteAssumption DEF FiniteAssumption
  <1>5. sum = Body(sum)
    BY <1>3, <1>4, SumsExist
  <1> HIDE DEF sum
  <1> QED BY <1>1, <1>3, <1>4, <1>5, TotalIs

(* What a completion of d moves is an integer,                             *)
LEMMA MovedInt ==
  ASSUME NEW d \in Docs, NEW k
  PROVE  Moved(d, k) \in Int /\ TakenBack(d, k) \in Int
  <1>1. Qty[d] \in Nat
    BY DocumentAssumption DEF DocumentAssumption
  <1>2. d \in Finals => Qty[ProvisionOf[d]] \in Nat
    <2>1. d \in Finals => ProvisionOf[d] \in Docs
      BY DocKinds
    <2> QED BY <2>1, DocumentAssumption DEF DocumentAssumption
  <1> QED BY <1>1, <1>2 DEF Moved, TakenBack

(* what all of them brought is one,                                        *)
LEMMA NetInt ==
  ASSUME RowTypes, NEW d \in Docs, NEW k
  PROVE  Net(d, k) \in Int
  <1> DEFINE a == Moved(d, k)
             b == TakenBack(d, k)
             t == Times(d)
  <1>1. a \in Int /\ b \in Int
    BY MovedInt
  <1>2. t \in Int /\ posted[d] \in Int
    BY DEF Times, RowTypes
  <1>3. Net(d, k) = t * a - posted[d] * b
    BY DEF Net
  <1> HIDE DEF a, b, t
  <1> QED BY <1>1, <1>2, <1>3

(* The documents that move their quantity at every completion.             *)
Moves(d) == d \in Itts \cup Zerols \/ posted[d] = 0

(* and this is what one completion more brings.                            *)
LEMMA NetStep ==
  ASSUME RowTypes, NEW d \in Docs, NEW k, posted' = [posted EXCEPT ![d] = posted[d] + 1]
  PROVE  Net(d, k)' = Net(d, k) + ((IF Moves(d) THEN Moved(d, k) ELSE 0) - TakenBack(d, k))
  <1> DEFINE a == Moved(d, k)
             b == TakenBack(d, k)
             n == posted[d]
  <1>1. a \in Int /\ b \in Int /\ n \in Nat /\ posted'[d] = n + 1
    BY MovedInt DEF RowTypes
  <1>2. Moved(d, k)' = a /\ TakenBack(d, k)' = b
    BY DEF Moved, TakenBack, Into, OutOf
  <1>3. /\ Times(d) = IF d \in Itts \cup Zerols THEN n ELSE IF n > 0 THEN 1 ELSE 0
        /\ Times(d)' = IF d \in Itts \cup Zerols THEN n + 1 ELSE 1
    BY <1>1 DEF Times
  <1>4. Net(d, k) = Times(d) * a - n * b /\ Net(d, k)' = Times(d)' * a - (n + 1) * b
    BY <1>1, <1>2 DEF Net
  <1>5. (n + 1) * b = n * b + b /\ (n + 1) * a = n * a + a /\ 0 * a = 0 /\ 1 * a = a
        /\ n * a \in Int /\ n * b \in Int
    <2> HIDE DEF a, b, n
    <2> QED BY <1>1
  <1>6. CASE d \in Itts \cup Zerols
    <2>1. Moves(d) /\ Net(d, k)' = (n + 1) * a - (n + 1) * b /\ Net(d, k) = n * a - n * b
      BY <1>3, <1>4, <1>6 DEF Moves
    <2> HIDE DEF a, b, n
    <2>2. Net(d, k)' = Net(d, k) + (a - b)
      BY <1>1, <1>5, <2>1
    <2> QED BY <2>1, <2>2 DEF a, b
  <1>7. CASE d \notin Itts \cup Zerols /\ n = 0
    <2>1. Moves(d) /\ Net(d, k)' = 1 * a - (n + 1) * b /\ Net(d, k) = 0 * a - n * b
      BY <1>3, <1>4, <1>7 DEF Moves
    <2> HIDE DEF a, b, n
    <2>2. Net(d, k)' = Net(d, k) + (a - b)
      BY <1>1, <1>5, <2>1
    <2> QED BY <2>1, <2>2 DEF a, b
  <1>8. CASE d \notin Itts \cup Zerols /\ n > 0
    <2>1. ~Moves(d) /\ Net(d, k)' = 1 * a - (n + 1) * b /\ Net(d, k) = 1 * a - n * b
      BY <1>3, <1>4, <1>8 DEF Moves
    <2> HIDE DEF a, b, n
    <2>2. Net(d, k)' = Net(d, k) + (0 - b)
      BY <1>1, <1>5, <2>1
    <2> QED BY <2>1, <2>2 DEF b
  <1> QED BY <1>1, <1>6, <1>7, <1>8

(* Nothing else changes in the sum.                                        *)
LEMMA NetSumStep ==
  ASSUME RowTypes, RowTypes', NEW d \in Docs, NEW k, posted' = [posted EXCEPT ![d] = posted[d] + 1]
  PROVE  /\ Total(NetOf(k), Docs) \in Int
         /\ Total(NetOf(k)', Docs) =
              Total(NetOf(k), Docs) + ((IF Moves(d) THEN Moved(d, k) ELSE 0) - TakenBack(d, k))
  <1> DEFINE f == NetOf(k)
             g == NetOf(k)'
             c == (IF Moves(d) THEN Moved(d, k) ELSE 0) - TakenBack(d, k)
             rest == Docs \ {d}
  <1>1. IsFiniteSet(Docs) /\ IsFiniteSet(rest)
    BY FiniteAssumption, FS_Subset DEF FiniteAssumption
  <1>2. c \in Int
    BY MovedInt
  <1>3. f[d] = Net(d, k) /\ g[d] = Net(d, k) + c
    BY NetStep DEF NetOf
  <1>4. \A x \in Docs : f[x] \in Int
    BY NetInt DEF NetOf
  <1>5. ASSUME NEW x \in rest PROVE f[x] = g[x]
    <2>1. posted'[x] = posted[x]
      BY DEF RowTypes
    <2>2. Net(x, k)' = Net(x, k)
      BY <2>1 DEF Net, Times, Moved, TakenBack, Into, OutOf
    <2> QED BY <2>2 DEF NetOf
  <1> HIDE DEF f, g, c, rest
  <1>6. \A x \in Docs : g[x] \in Int
    BY <1>2, <1>3, <1>4, <1>5 DEF rest
  <1>7. Total(f, rest) = Total(g, rest)
    BY <1>1, <1>5, TotalAgree
  <1>8. Total(f, Docs) = f[d] + Total(f, rest) /\ Total(g, Docs) = g[d] + Total(g, rest)
    BY <1>1, <1>4, <1>6, TotalRemove DEF rest
  <1>9. Total(f, rest) \in Int /\ Total(f, Docs) \in Int /\ f[d] \in Int
    BY <1>1, <1>4, TotalInt DEF rest
  <1>10. Total(g, Docs) = Total(f, Docs) + c
    BY <1>2, <1>3, <1>7, <1>8, <1>9
  <1> QED BY <1>9, <1>10 DEF f, g, c

(* A posting adds to each account the sum of its movements there.          *)
LEMMA PostAdds ==
  ASSUME NEW ms, Post(ms), NEW k \in Keys
  PROVE  balance'[k] = balance[k] + KeySum(ms, k)
  BY DEF Post, ApplyBalance, KeySum

(* KeySumUnion, of two postings known to be apart.                         *)
Apart(ms, ns) == Quantified(ms) /\ Quantified(ns) /\ ms \cap ns = {}
LEMMA KeySumApart ==
  ASSUME NEW ms, NEW ns, Apart(ms, ns), NEW k
  PROVE  /\ KeySum(ms \cup ns, k) = KeySum(ms, k) + KeySum(ns, k)
         /\ KeySum(ms, k) \in Int /\ KeySum(ns, k) \in Int
  BY KeySumUnion DEF Apart

(* Nothing posted and no document completed.                               *)
LEMMA ExplainedIdle ==
  ASSUME Explained, ledger' = ledger, posted' = posted, balance' = balance
  PROVE  Explained'
  <1>1. \A d, k : Net(d, k)' = Net(d, k)
    BY DEF Net, Times, Moved, TakenBack, Into, OutOf
  <1>2. \A k : NetOf(k)' = NetOf(k)
    BY <1>1 DEF NetOf
  <1> QED BY <1>2 DEF Explained, DerivedLines, KeySum

(* A completion of d posts derived lines ds, and es that bring each        *)
(* account what the completion moves there.                                *)
LEMMA ExplainedStep ==
  ASSUME BookInv, RowTypes', Explained, NEW d \in Docs,
         posted' = [posted EXCEPT ![d] = posted[d] + 1],
         NEW es, NEW ds, Post(es \cup ds), Quantified(es), Quantified(ds), ds \cap ledger = {},
         \A m \in es : ~(m.type = "receipt" /\ m.child),
         \A m \in ds : m.type = "receipt" /\ m.child,
         \A k \in Keys : KeySum(es, k) = (IF Moves(d) THEN Moved(d, k) ELSE 0) - TakenBack(d, k)
  PROVE  Explained'
  <1>1. DerivedLines' = DerivedLines \cup ds /\ DerivedLines \cap ds = {}
    BY DEF Post, DerivedLines
  <1>2. Quantified(DerivedLines)
    <2>1. Quantified(ledger)
      BY DEF BookInv, Numbered, Quantified, Movements
    <2>2. PartOf(DerivedLines, ledger)
      BY DEF PartOf, DerivedLines
    <2> QED BY <2>1, <2>2, PartQuantified
  <1>3. Quantified(Imported) /\ Quantified({})
    BY FiniteAssumption, ImportAssumption, FS_EmptySet
       DEF FiniteAssumption, ImportAssumption, Quantified, Movements
  <1> SUFFICES ASSUME NEW k \in Keys
      PROVE  balance'[k] = KeySum(Imported, k) + KeySum(DerivedLines', k) + Total(NetOf(k)', Docs)
    BY DEF Explained, KeySum
  <1> DEFINE c == (IF Moves(d) THEN Moved(d, k) ELSE 0) - TakenBack(d, k)
  <1>4. KeySum(DerivedLines', k) = KeySum(DerivedLines, k) + KeySum(ds, k)
        /\ KeySum(DerivedLines, k) \in Int /\ KeySum(ds, k) \in Int
    <2> DEFINE dl == DerivedLines
    <2>1. DerivedLines' = dl \cup ds /\ Apart(dl, ds)
      BY <1>1, <1>2 DEF Apart
    <2> HIDE DEF dl
    <2>2. KeySum(dl \cup ds, k) = KeySum(dl, k) + KeySum(ds, k)
          /\ KeySum(dl, k) \in Int /\ KeySum(ds, k) \in Int
      BY <2>1, KeySumApart
    <2> QED BY <2>1, <2>2 DEF dl
  <1>5. KeySum(es \cup ds, k) = c + KeySum(ds, k)
    <2>1. es \cap ds = {}
      OBVIOUS
    <2>2. KeySum(es, k) = c
      OBVIOUS
    <2> HIDE DEF c
    <2> QED BY <2>1, <2>2, KeySumUnion
  <1>6. KeySum(Imported, k) \in Int
    BY <1>3, KeySumUnion
  <1>7. Total(NetOf(k), Docs) \in Int /\ Total(NetOf(k)', Docs) = Total(NetOf(k), Docs) + c
    BY NetSumStep DEF BookInv
  <1>8. balance'[k] = balance[k] + KeySum(es \cup ds, k)
    BY PostAdds
  <1>9. balance[k] = KeySum(Imported, k) + KeySum(DerivedLines, k) + Total(NetOf(k), Docs)
    BY DEF Explained
  <1>10. c \in Int
    BY MovedInt
  <1> HIDE DEF c
  <1> QED BY <1>4, <1>5, <1>6, <1>7, <1>8, <1>9, <1>10

-------------------------------------------------------------------------------
(* Book stock explained by the documents, step by step.                    *)

(* The inductive invariant of StockExplained: what the ledger holds of     *)
(* each document is what its completions say, and each account what they   *)
(* explain.                                                                *)
Accounted == IInv /\ BookInv /\ Progress /\ Marks /\ Explained

(* The accounts of each kind of document.                                  *)
LEMMA KindAccounts ==
  /\ \A d \in Receipts :
       Into(d) = {At(Owner[d], Ship[d], Held[d], d \in Provisions)} /\ OutOf(d) = {}
  /\ \A d \in Itts : /\ Into(d) = {At(ToCustomer[d], Ship[d], Held[d], FALSE)}
                     /\ OutOf(d) = {At(Owner[d], Ship[d], Held[d], FALSE)}
  /\ \A d \in Zerols : /\ Into(d) = {At(Owner[d], ToVessel[d], FALSE, FALSE)}
                       /\ OutOf(d) = {At(Owner[d], Ship[d], FALSE, FALSE)}
  /\ \A d \in Releases : /\ Into(d) = {At(Owner[d], Ship[d], FALSE, FALSE)}
                         /\ OutOf(d) = {At(Owner[d], Ship[d], TRUE, FALSE)}
  /\ \A d \in Deliveries : Into(d) = {} /\ OutOf(d) = {At(Owner[d], Ship[d], Held[d], FALSE)}
  <1> USE KindAssumption DEF KindAssumption
  <1>1. ASSUME NEW d \in Receipts
        PROVE  Into(d) = {At(Owner[d], Ship[d], Held[d], d \in Provisions)} /\ OutOf(d) = {}
    <2>1. d \notin Itts /\ d \notin Zerols /\ d \notin Releases /\ d \notin Deliveries
      BY DEF Papers, Receipts
    <2> QED BY <2>1 DEF Into, OutOf
  <1>3. ASSUME NEW d \in Itts
        PROVE  /\ Into(d) = {At(ToCustomer[d], Ship[d], Held[d], FALSE)}
               /\ OutOf(d) = {At(Owner[d], Ship[d], Held[d], FALSE)}
    <2>1. d \notin Receipts /\ d \notin Zerols /\ d \notin Releases
      BY DEF Receipts
    <2> QED BY <2>1 DEF Into, OutOf
  <1>4. ASSUME NEW d \in Zerols
        PROVE  /\ Into(d) = {At(Owner[d], ToVessel[d], FALSE, FALSE)}
               /\ OutOf(d) = {At(Owner[d], Ship[d], FALSE, FALSE)}
    <2>1. d \notin Receipts /\ d \notin Itts /\ d \notin Releases /\ d \notin Deliveries
      BY DEF Papers, Receipts
    <2> QED BY <2>1 DEF Into, OutOf
  <1>5. ASSUME NEW d \in Releases
        PROVE  /\ Into(d) = {At(Owner[d], Ship[d], FALSE, FALSE)}
               /\ OutOf(d) = {At(Owner[d], Ship[d], TRUE, FALSE)}
    <2>1. d \notin Receipts /\ d \notin Itts /\ d \notin Zerols /\ d \notin Deliveries
      BY DEF Papers, Receipts
    <2> QED BY <2>1 DEF Into, OutOf
  <1>6. ASSUME NEW d \in Deliveries
        PROVE  Into(d) = {} /\ OutOf(d) = {At(Owner[d], Ship[d], Held[d], FALSE)}
    <2>1. d \notin Receipts /\ d \notin Itts /\ d \notin Zerols /\ d \notin Releases
      BY DEF Papers, Receipts
    <2> QED BY <2>1 DEF Into, OutOf
  <1> QED BY <1>1, <1>3, <1>4, <1>5, <1>6

(* The step posts nothing and completes no document.                       *)
LEMMA AccountedIdle ==
  ASSUME Accounted, posted' = posted, UNCHANGED <<taken, ledger, snapshots>>
  PROVE  Marks' /\ Explained'
  BY MarksIdle, ExplainedIdle DEF Accounted, snapshots

(* What a receipt's own movement looks like.                               *)
LEMMA OwnEntry ==
  ASSUME NEW r \in Receipts
  PROVE  LET e == Entry(r, "receipt")
         IN /\ OwnLine(e) /\ e.type = "receipt" /\ e.doc = r /\ e.qty = Qty[r] /\ e.qty \in Nat \ {0}
            /\ KeyOf(e) = At(Owner[r], Ship[r], Held[r], r \in Provisions)
  <1>1. Qty[r] \in Nat \ {0}
    BY DocKinds, DocumentAssumption DEF DocumentAssumption
  <1> QED BY <1>1 DEF Entry, OwnLine, KeyOf, At

(* The own line of a receipt brings its account what is moved there.       *)
LEMMA OwnMoves ==
  ASSUME NEW r \in Receipts, NEW k
  PROVE  /\ KeySum({Entry(r, "receipt")}, k) = Moved(r, k)
         /\ Quantified({Entry(r, "receipt")})
  <1> DEFINE e == Entry(r, "receipt")
  <1>1. e.qty = Qty[r] /\ Qty[r] \in Nat /\ KeyOf(e) = At(Owner[r], Ship[r], Held[r], r \in Provisions)
    BY OwnEntry
  <1> HIDE DEF e
  <1>2. Into(r) = {KeyOf(e)} /\ OutOf(r) = {}
    BY <1>1, KindAccounts
  <1>3. KeySum({e}, k) = IF KeyOf(e) = k THEN Qty[r] ELSE 0
    BY <1>1, KeySumOne
  <1>4. Quantified({e})
    <2>1. e.qty \in Int
      BY <1>1
    <2>2. IsFiniteSet({e})
      BY FS_Singleton
    <2> QED BY <2>1, <2>2 DEF Quantified
  <1>5. Moved(r, k) = (IF KeyOf(e) = k THEN Qty[r] ELSE 0) - 0
    BY <1>2 DEF Moved
  <1> QED BY <1>1, <1>3, <1>4, <1>5 DEF e

(* A receipt's movements: its own line es if it is the first completion,   *)
(* and derived lines ds that are not in the ledger yet.                    *)
LEMMA ReceiptParts ==
  ASSUME Accounted, NEW r \in Receipts
  PROVE  \E es, ds :
           /\ ReceiptMovements(r) = es \cup ds
           /\ Quantified(es) /\ Quantified(ds) /\ ds \cap ledger = {}
           /\ \A m \in ds : m.type = "receipt" /\ m.doc = r /\ DerivedLine(m, taken)
           /\ \A m \in es : m.type = "receipt" /\ m.doc = r /\ OwnLine(m)
           /\ posted[r] = 0 => es # {}
           /\ \A k \in Keys : KeySum(es, k) = IF posted[r] = 0 THEN Moved(r, k) ELSE 0
  <1> DEFINE es == IF posted[r] = 0 THEN {Entry(r, "receipt")} ELSE {}
  <1>0. RowTypes /\ Takings /\ Marks /\ Numbered
    BY DEF Accounted, BookInv
  <1>1. PICK ds : /\ ReceiptMovements(r) = es \cup ds
                  /\ \A m \in ds : m.type = "receipt" /\ m.doc = r /\ DerivedLine(m, taken)
    BY <1>0, ReceiptMoves
  <1>2. FromRun(ReceiptMovements(r), r) /\ r \in Docs
    BY <1>0, ReceiptRun, DocKinds
  <1>3. ledger \cap ReceiptMovements(r) = {}
    BY <1>0, <1>2, NewMovements
  <1>4. Quantified(ReceiptMovements(r))
    BY <1>2 DEF FromRun, Quantified, Movements
  <1>5. PartOf(es, ReceiptMovements(r)) /\ PartOf(ds, ReceiptMovements(r))
    BY <1>1 DEF PartOf
  <1>6. Quantified(es) /\ Quantified(ds)
    BY <1>4, <1>5, PartQuantified
  <1>7. ds \cap ledger = {}
    BY <1>1, <1>3
  <1>8. \A m \in es : m.type = "receipt" /\ m.doc = r /\ OwnLine(m)
    BY OwnEntry
  <1>9. ASSUME NEW k \in Keys
        PROVE  KeySum(es, k) = IF posted[r] = 0 THEN Moved(r, k) ELSE 0
    BY OwnMoves, KeySumNone
  <1>10. posted[r] = 0 => es # {}
    OBVIOUS
  <1> HIDE DEF es
  <1> QED BY <1>1, <1>6, <1>7, <1>8, <1>9, <1>10

(* A receipt that is not a final is completed.                             *)
LEMMA AccountedReceipt ==
  ASSUME Accounted, RowTypes', NEW r \in Arrivals \cup Provisions, ApproveReceipt(r)
  PROVE  Marks' /\ Explained'
  <1>0. /\ r \in Receipts /\ r \in Docs /\ r \notin Finals /\ r \notin Releases
        /\ r \notin Itts \cup Zerols /\ posted \in [Docs -> Nat]
        /\ posted' = [posted EXCEPT ![r] = posted[r] + 1]
        /\ Post(ReceiptMovements(r)) /\ taken' = taken
        /\ RowTypes /\ Marks /\ Takings /\ BookInv /\ Explained
    BY DocKinds, KindAssumption
       DEF ApproveReceipt, Complete, Accounted, BookInv, RowTypes, KindAssumption
  <1>1. PICK es, ds :
           /\ ReceiptMovements(r) = es \cup ds
           /\ Quantified(es) /\ Quantified(ds) /\ ds \cap ledger = {}
           /\ \A m \in ds : m.type = "receipt" /\ m.doc = r /\ DerivedLine(m, taken)
           /\ \A m \in es : m.type = "receipt" /\ m.doc = r /\ OwnLine(m)
           /\ posted[r] = 0 => es # {}
           /\ \A k \in Keys : KeySum(es, k) = IF posted[r] = 0 THEN Moved(r, k) ELSE 0
    BY <1>0, ReceiptParts
  <1>2. Explained'
    <2>1. ASSUME NEW k \in Keys
          PROVE  KeySum(es, k) = (IF Moves(r) THEN Moved(r, k) ELSE 0) - TakenBack(r, k)
      <3>1. TakenBack(r, k) = 0 /\ (Moves(r) <=> posted[r] = 0)
        BY <1>0 DEF TakenBack, Moves
      <3>2. Moved(r, k) \in Int
        BY <1>0, MovedInt
      <3> QED BY <1>1, <3>1, <3>2
    <2>2. /\ \A m \in es : ~(m.type = "receipt" /\ m.child)
          /\ \A m \in ds : m.type = "receipt" /\ m.child
      BY <1>1 DEF OwnLine, DerivedLine
    <2>3. Post(es \cup ds)
      BY <1>0, <1>1
    <2> QED BY <1>0, <1>1, <2>1, <2>2, <2>3, ExplainedStep
  <1>3. Marks'
    <2> DEFINE ms == es \cup ds
    <2>1. ledger' = ledger \cup ms
      BY <1>0, <1>1 DEF Post
    <2>2. /\ \A m \in ms : m.type = "receipt" /\ m.doc = r /\ (OwnLine(m) \/ DerivedLine(m, taken))
          /\ posted[r] = 0 => \E m \in ms : m.type = "receipt" /\ m.doc = r /\ ~m.child
      BY <1>1 DEF OwnLine
    <2> HIDE DEF ms
    <2>3. Marked(ms, r)
      BY <1>0, <2>2 DEF Marked
    <2> QED BY <1>0, <2>1, <2>3, NothingTaken, MarksKept
  <1> QED BY <1>2, <1>3

(* Of a provision one receipt movement is in the ledger, and the reversals *)
(* of a final are that movement taken back.                                *)
LEMMA OneReversal ==
  ASSUME IInv, BookInv, Progress, Marks, NEW f \in Finals, status[f] = "submitted"
  PROVE  \E v : /\ Reversals(f) = {v} /\ v.type = "reversal" /\ v.qty = -Qty[ProvisionOf[f]]
                /\ KeyOf(v) = At(Owner[ProvisionOf[f]], Ship[ProvisionOf[f]],
                                 Held[ProvisionOf[f]], TRUE)
  <1> DEFINE p == ProvisionOf[f]
             rev(m) == [m EXCEPT !.type = "reversal", !.qty = -m.qty, !.day = Day[f],
                                 !.cause = f, !.run = posted[f] + 1]
  <1>0. ledger \subseteq Movements
    BY DEF BookInv, Numbered
  <1>1. p \in Provisions /\ p \in Receipts /\ posted[p] > 0
    BY DocKinds DEF Progress, FinalsFollow
  <1>2. PICK n \in ledger : n.type = "receipt" /\ n.doc = p /\ ~n.child
    BY <1>1 DEF Marks, ReceiptsPosted
  <1>3. OwnLine(n)
    BY <1>2 DEF Marks, ReceiptsMarked, DerivedLine
  <1>4. n.prov = TRUE
    BY <1>1, <1>2, <1>3 DEF OwnLine
  <1>5. ASSUME NEW m \in ledger, m.type = "receipt", m.doc = p PROVE m = n
    <2>1. OwnLine(m)
      BY <1>1, <1>5 DEF Marks, ReceiptsMarked, DerivedLine
    <2>2. SameLine(m, n)
      BY <1>2, <1>3, <1>5, <2>1 DEF OwnLine, SameLine
    <2> QED BY <1>2, <1>5, <2>2 DEF IInv, PostedOnce, LinePostedOnce
  <1>6. {m \in ledger : m.type = "receipt" /\ m.prov /\ m.doc = p} = {n}
    BY <1>2, <1>4, <1>5
  <1>7. Reversals(f) = {rev(n)}
    BY <1>6 DEF Reversals
  <1>8. rev(n).type = "reversal" /\ rev(n).qty = -n.qty /\ KeyOf(rev(n)) = KeyOf(n)
    BY <1>0, <1>2 DEF KeyOf, Movements
  <1>9. KeyOf(n) = At(Owner[p], Ship[p], Held[p], TRUE) /\ n.qty = Qty[p]
    BY <1>2, <1>3, <1>4 DEF KeyOf, OwnLine, At
  <1> HIDE DEF rev
  <1> QED BY <1>7, <1>8, <1>9 DEF p

(* A final is completed: its provision is taken back, and its lines are    *)
(* posted.                                                                 *)
LEMMA AccountedFinal ==
  ASSUME Accounted, RowTypes', NEW f \in Finals, ApproveFinal(f)
  PROVE  Marks' /\ Explained'
  <1> DEFINE p == ProvisionOf[f]
  <1>0. /\ f \in Receipts /\ f \in Docs /\ f \notin Releases /\ f \notin Itts \cup Zerols
        /\ posted \in [Docs -> Nat]
        /\ status[f] = "submitted" /\ posted' = [posted EXCEPT ![f] = posted[f] + 1]
        /\ Post(Reversals(f) \cup ReceiptMovements(f)) /\ taken' = taken
        /\ RowTypes /\ Marks /\ Takings /\ BookInv /\ Explained
    BY DocKinds, KindAssumption
       DEF ApproveFinal, Complete, Accounted, BookInv, RowTypes, KindAssumption
  <1>1. PICK es, ds :
           /\ ReceiptMovements(f) = es \cup ds
           /\ Quantified(es) /\ Quantified(ds) /\ ds \cap ledger = {}
           /\ \A m \in ds : m.type = "receipt" /\ m.doc = f /\ DerivedLine(m, taken)
           /\ \A m \in es : m.type = "receipt" /\ m.doc = f /\ OwnLine(m)
           /\ posted[f] = 0 => es # {}
           /\ \A k \in Keys : KeySum(es, k) = IF posted[f] = 0 THEN Moved(f, k) ELSE 0
    BY <1>0, ReceiptParts
  <1>2. PICK v : /\ Reversals(f) = {v} /\ v.type = "reversal" /\ v.qty = -Qty[p]
                 /\ KeyOf(v) = At(Owner[p], Ship[p], Held[p], TRUE)
    BY <1>0, OneReversal DEF Accounted
  <1>3. Qty[p] \in Int /\ -Qty[p] \in Int /\ p \in Provisions /\ p \in Receipts
    <2>1. p \in Docs /\ p \in Provisions /\ p \in Receipts
      BY DocKinds
    <2>2. Qty[p] \in Nat
      BY <2>1, DocumentAssumption DEF DocumentAssumption
    <2> QED BY <2>1, <2>2
  <1>4. Quantified({v})
    BY <1>2, <1>3, FS_Singleton DEF Quantified
  <1>5. Into(p) = {KeyOf(v)}
    <2>1. (p \in Provisions) = TRUE
      BY <1>3
    <2>2. Into(p) = {At(Owner[p], Ship[p], Held[p], TRUE)}
      BY <1>3, <2>1, KindAccounts
    <2> QED BY <1>2, <2>2
  <1>6. Explained'
    <2> DEFINE vs == {v} \cup es
    <2>1. ASSUME NEW k \in Keys
          PROVE  KeySum(vs, k) = (IF Moves(f) THEN Moved(f, k) ELSE 0) - TakenBack(f, k)
      <3>1. {v} \cap es = {}
        BY <1>1, <1>2
      <3>2. KeySum(vs, k) = KeySum({v}, k) + KeySum(es, k)
        BY <1>1, <1>4, <3>1, KeySumUnion
      <3>3. KeySum({v}, k) = IF KeyOf(v) = k THEN -Qty[p] ELSE 0
        BY <1>2, <1>3, KeySumOne
      <3>4. TakenBack(f, k) = IF KeyOf(v) = k THEN Qty[p] ELSE 0
        BY <1>5 DEF TakenBack
      <3>5. Moves(f) <=> posted[f] = 0
        BY <1>0 DEF Moves
      <3>6. Moved(f, k) \in Int
        BY <1>0, MovedInt
      <3>7. KeySum(es, k) = IF Moves(f) THEN Moved(f, k) ELSE 0
        BY <1>1, <3>5
      <3> HIDE DEF p, vs
      <3> QED BY <1>3, <3>2, <3>3, <3>4, <3>6, <3>7
    <2>2. /\ \A m \in vs : ~(m.type = "receipt" /\ m.child)
          /\ \A m \in ds : m.type = "receipt" /\ m.child
      BY <1>1, <1>2 DEF OwnLine, DerivedLine
    <2>3. Post(vs \cup ds)
      <3>1. Reversals(f) \cup ReceiptMovements(f) = vs \cup ds
        BY <1>1, <1>2
      <3> QED BY <1>0, <3>1
    <2>4. Quantified(vs)
      BY <1>1, <1>4, FS_Union DEF Quantified
    <2> HIDE DEF vs
    <2> QED BY <1>0, <1>1, <2>1, <2>2, <2>3, <2>4, ExplainedStep
  <1>7. Marks'
    <2> DEFINE ms == {v} \cup es \cup ds
    <2>1. ledger' = ledger \cup ms
      BY <1>0, <1>1, <1>2 DEF Post
    <2>2. /\ \A m \in ms : m.type = "receipt" =>
                             m.doc = f /\ (OwnLine(m) \/ DerivedLine(m, taken))
          /\ \A m \in ms : m.type # "release"
          /\ posted[f] = 0 => \E m \in ms : m.type = "receipt" /\ m.doc = f /\ ~m.child
      BY <1>1, <1>2 DEF OwnLine
    <2> HIDE DEF ms
    <2>3. Marked(ms, f)
      BY <1>0, <2>2 DEF Marked
    <2> QED BY <1>0, <2>1, <2>3, NothingTaken, MarksKept
  <1> QED BY <1>6, <1>7

(* Two movements of a document that is no receipt, and what they bring.    *)
Pairs(m, n, d) ==
  m.qty = -Qty[d] /\ n.qty = Qty[d] /\ OutOf(d) = {KeyOf(m)} /\ Into(d) = {KeyOf(n)}
LEMMA PairMoves ==
  ASSUME NEW d \in Docs, NEW m, NEW n, Pairs(m, n, d), NEW k
  PROVE  KeySum({m, n}, k) = Moved(d, k) /\ Quantified({m, n})
  <1> USE DEF Pairs
  <1>1. Qty[d] \in Nat \ {0} /\ Qty[d] \in Int /\ -Qty[d] \in Int
    BY DocumentAssumption DEF DocumentAssumption
  <1>2. m # n /\ m.qty \in Int /\ n.qty \in Int
    BY <1>1
  <1>3. KeySum({m, n}, k) = (IF KeyOf(m) = k THEN m.qty ELSE 0)
                              + (IF KeyOf(n) = k THEN n.qty ELSE 0)
    BY <1>2, KeySumTwo
  <1>4. Moved(d, k) = (IF KeyOf(n) = k THEN Qty[d] ELSE 0) - (IF KeyOf(m) = k THEN Qty[d] ELSE 0)
    BY DEF Moved
  <1>5. KeySum({m, n}, k) = Moved(d, k)
    BY <1>1, <1>3, <1>4
  <1>6. IsFiniteSet({m, n})
    <2>1. IsFiniteSet({m}) /\ IsFiniteSet({n})
      BY FS_Singleton
    <2>2. IsFiniteSet({m} \cup {n})
      BY <2>1, FS_Union
    <2>3. {m, n} = {m} \cup {n}
      OBVIOUS
    <2> QED BY <2>2, <2>3
  <1> QED BY <1>2, <1>5, <1>6 DEF Quantified

(* What d posts, being no receipt, brings its accounts what it moves.      *)
Brings(ms, d) ==
  /\ Quantified(ms) /\ \A m \in ms : m.type # "receipt"
  /\ \A m \in ms : m.type = "release" => m.doc = d /\ d \in Releases
  /\ d \in Releases /\ posted[d] = 0 => \E m \in ms : m.type = "release" /\ m.doc = d
  /\ \A k \in Keys : KeySum(ms, k) = IF Moves(d) THEN Moved(d, k) ELSE 0
LEMMA AccountedOther ==
  ASSUME Accounted, RowTypes', NEW d \in Docs, d \notin Receipts,
         posted' = [posted EXCEPT ![d] = posted[d] + 1], NEW ms, Post(ms), Brings(ms, d), TakesMore
  PROVE  Marks' /\ Explained'
  <1>0. RowTypes /\ Marks /\ Takings /\ BookInv /\ Explained /\ d \notin Finals
    BY DocKinds DEF Accounted, BookInv
  <1>1. Explained'
    <2>1. ASSUME NEW k \in Keys
          PROVE  KeySum(ms, k) = (IF Moves(d) THEN Moved(d, k) ELSE 0) - TakenBack(d, k)
      <3>1. TakenBack(d, k) = 0
        BY <1>0 DEF TakenBack
      <3>2. Moved(d, k) \in Int
        BY MovedInt
      <3>3. KeySum(ms, k) = IF Moves(d) THEN Moved(d, k) ELSE 0
        BY DEF Brings
      <3> QED BY <3>1, <3>2, <3>3
    <2>2. Post(ms \cup {}) /\ Quantified({})
      BY FS_EmptySet DEF Quantified
    <2>3. {} \cap ledger = {} /\ \A m \in {} : m.type = "receipt" /\ m.child
      OBVIOUS
    <2>4. Quantified(ms) /\ \A m \in ms : ~(m.type = "receipt" /\ m.child)
      BY DEF Brings
    <2> DEFINE ds == {}
    <2>5. Post(ms \cup ds) /\ Quantified(ds) /\ ds \cap ledger = {}
          /\ \A m \in ds : m.type = "receipt" /\ m.child
      BY <2>2, <2>3
    <2> HIDE DEF ds
    <2> QED BY <1>0, <2>1, <2>4, <2>5, ExplainedStep
  <1>2. Marks'
    <2>1. ledger' = ledger \cup ms
      BY DEF Post
    <2>2. Marked(ms, d)
      BY DEF Brings, Marked
    <2> QED BY <1>0, <2>1, <2>2, MarksKept
  <1> QED BY <1>1, <1>2

(* What a document that is no provision posts for all of itself.           *)
LEMMA PlainEntry ==
  ASSUME NEW d, d \notin Provisions, NEW t
  PROVE  Entry(d, t) = [type |-> t, doc |-> d, child |-> FALSE, owner |-> Owner[d],
                        ship |-> Ship[d], hold |-> Held[d], prov |-> FALSE, day |-> Day[d],
                        qty |-> Qty[d], cause |-> d, run |-> posted[d] + 1]
  <1>1. (d \in Provisions) = FALSE
    OBVIOUS
  <1> QED BY <1>1, Zenon DEF Entry

(* An in-tank transfer is completed; the lines it takes from are of        *)
(* approved receipts.                                                      *)
LEMMA AccountedTransfer ==
  ASSUME Accounted, RowTypes', NEW t \in Itts, NEW day \in Days, ApproveItt(t, day)
  PROVE  Marks' /\ Explained'
  <1> DEFINE out == [Entry(t, "itt") EXCEPT !.qty = -@, !.day = day]
             in  == [Entry(t, "itt") EXCEPT !.owner = ToCustomer[t], !.day = day]
  <1>0. /\ t \in Docs /\ t \notin Receipts /\ t \notin Releases /\ posted \in [Docs -> Nat]
        /\ status[t] = "submitted" /\ posted' = [posted EXCEPT ![t] = posted[t] + 1]
        /\ Post({out, in}) /\ Takings /\ t \in Papers /\ Qty[t] \in Nat \ {0} /\ t \notin Provisions
    BY DocKinds, KindAssumption, DocumentAssumption
       DEF ApproveItt, Complete, Accounted, BookInv, RowTypes, KindAssumption, Receipts,
           DocumentAssumption
  <1>2. /\ out.qty = -Qty[t] /\ in.qty = Qty[t] /\ out.doc = t /\ in.doc = t
        /\ out.type = "itt" /\ in.type = "itt"
        /\ KeyOf(out) = At(Owner[t], Ship[t], Held[t], FALSE)
        /\ KeyOf(in) = At(ToCustomer[t], Ship[t], Held[t], FALSE)
    <2> DEFINE e == Entry(t, "itt")
    <2>1. e = [type |-> "itt", doc |-> t, child |-> FALSE, owner |-> Owner[t],
               ship |-> Ship[t], hold |-> Held[t], prov |-> FALSE, day |-> Day[t],
               qty |-> Qty[t], cause |-> t, run |-> posted[t] + 1]
      BY <1>0, PlainEntry
    <2>4. out = [e EXCEPT !.qty = -@, !.day = day]
      OBVIOUS
    <2>5. in = [e EXCEPT !.owner = ToCustomer[t], !.day = day]
      OBVIOUS
    <2> HIDE DEF e, out, in
    <2>2. out = [type |-> "itt", doc |-> t, child |-> FALSE, owner |-> Owner[t],
                 ship |-> Ship[t], hold |-> Held[t], prov |-> FALSE, day |-> day,
                 qty |-> -Qty[t], cause |-> t, run |-> posted[t] + 1]
      BY <2>1, <2>4
    <2>3. in = [type |-> "itt", doc |-> t, child |-> FALSE, owner |-> ToCustomer[t],
                ship |-> Ship[t], hold |-> Held[t], prov |-> FALSE, day |-> day,
                qty |-> Qty[t], cause |-> t, run |-> posted[t] + 1]
      BY <2>1, <2>5
    <2> QED BY <2>2, <2>3 DEF KeyOf, At
  <1> HIDE DEF out, in
  <1>3. Into(t) = {KeyOf(in)} /\ OutOf(t) = {KeyOf(out)}
    BY <1>2, KindAccounts
  <1>4. TakesMore
    <2>1. taken' = [x \in Receipts |-> [taken[x] EXCEPT ![ToCustomer[t]] = @ + Take(t, x)]]
      BY DEF ApproveItt
    <2>2. taken \in [Receipts -> [Customers -> Nat]]
      BY <1>0 DEF Takings
    <2>3. ASSUME NEW r \in Receipts PROVE Take(t, r) \in Nat
      BY <1>0, <2>3, TakeBounds DEF Accounted, BookInv
    <2>4. ASSUME NEW r \in Provisions PROVE Take(t, r) = 0
      <3>1. r \notin Parcels(t)
        BY KindAssumption DEF Parcels, KindAssumption
      <3> QED BY <3>1 DEF Take
    <2>5. \A r \in Receipts, c \in Customers :
            taken'[r][c] = IF c = ToCustomer[t] THEN taken[r][c] + Take(t, r) ELSE taken[r][c]
      BY <2>1, <2>2
    <2>6. ASSUME NEW r \in Receipts, NEW c \in Customers
          PROVE  taken'[r][c] \in Nat /\ taken'[r][c] >= taken[r][c]
      <3>1. taken[r][c] \in Nat /\ Take(t, r) \in Nat
        BY <2>2, <2>3
      <3> QED BY <2>5, <3>1
    <2>7. ASSUME NEW r \in Provisions, NEW c \in Customers
          PROVE  taken'[r][c] = taken[r][c]
      <3>1. r \in Receipts
        BY DocKinds
      <3>2. taken[r][c] \in Nat /\ Take(t, r) = 0
        BY <2>2, <2>4, <3>1
      <3> QED BY <2>5, <3>1, <3>2
    <2> QED BY <2>6, <2>7 DEF TakesMore
  <1>5. Moves(t)
    BY DEF Moves
  <1>6. Pairs(out, in, t)
    BY <1>2, <1>3 DEF Pairs
  <1> DEFINE ms == {out, in}
  <1>7. ASSUME NEW k PROVE Quantified(ms) /\ KeySum(ms, k) = Moved(t, k)
    BY <1>0, <1>6, PairMoves
  <1>8. Post(ms) /\ \A m \in ms : m.type # "receipt" /\ m.type # "release"
    BY <1>0, <1>2
  <1> HIDE DEF ms
  <1>9. Brings(ms, t)
    BY <1>0, <1>5, <1>7, <1>8 DEF Brings
  <1> QED BY <1>0, <1>4, <1>8, <1>9, AccountedOther

(* A zerolization is completed.                                            *)
LEMMA AccountedZerol ==
  ASSUME Accounted, RowTypes', NEW z \in Zerols, ApproveZerol(z)
  PROVE  Marks' /\ Explained'
  <1> DEFINE from == [Entry(z, "zerolization") EXCEPT !.hold = FALSE, !.qty = -@]
             to   == [Entry(z, "zerolization") EXCEPT !.hold = FALSE, !.ship = ToVessel[z]]
  <1>0. /\ z \in Docs /\ z \notin Receipts /\ z \notin Releases /\ posted \in [Docs -> Nat]
        /\ status[z] = "submitted" /\ posted' = [posted EXCEPT ![z] = posted[z] + 1]
        /\ Post({from, to}) /\ z \in Papers /\ z \notin Provisions /\ taken' = taken /\ Takings
    BY DocKinds, KindAssumption
       DEF ApproveZerol, Complete, Accounted, BookInv, RowTypes, KindAssumption, Receipts
  <1>2. /\ from.qty = -Qty[z] /\ to.qty = Qty[z] /\ from.doc = z /\ to.doc = z
        /\ from.type = "zerolization" /\ to.type = "zerolization"
        /\ KeyOf(from) = At(Owner[z], Ship[z], FALSE, FALSE)
        /\ KeyOf(to) = At(Owner[z], ToVessel[z], FALSE, FALSE)
    <2> DEFINE e == Entry(z, "zerolization")
    <2>1. e = [type |-> "zerolization", doc |-> z, child |-> FALSE, owner |-> Owner[z],
               ship |-> Ship[z], hold |-> Held[z], prov |-> FALSE, day |-> Day[z],
               qty |-> Qty[z], cause |-> z, run |-> posted[z] + 1]
      BY <1>0, PlainEntry
    <2>4. from = [e EXCEPT !.hold = FALSE, !.qty = -@]
      OBVIOUS
    <2>5. to = [e EXCEPT !.hold = FALSE, !.ship = ToVessel[z]]
      OBVIOUS
    <2> HIDE DEF e, from, to
    <2>2. from = [type |-> "zerolization", doc |-> z, child |-> FALSE, owner |-> Owner[z],
                  ship |-> Ship[z], hold |-> FALSE, prov |-> FALSE, day |-> Day[z],
                  qty |-> -Qty[z], cause |-> z, run |-> posted[z] + 1]
      BY <2>1, <2>4
    <2>3. to = [type |-> "zerolization", doc |-> z, child |-> FALSE, owner |-> Owner[z],
                ship |-> ToVessel[z], hold |-> FALSE, prov |-> FALSE, day |-> Day[z],
                qty |-> Qty[z], cause |-> z, run |-> posted[z] + 1]
      BY <2>1, <2>5
    <2> QED BY <2>2, <2>3 DEF KeyOf, At
  <1> HIDE DEF from, to
  <1>3. Into(z) = {KeyOf(to)} /\ OutOf(z) = {KeyOf(from)}
    BY <1>2, KindAccounts
  <1>5. Moves(z)
    BY DEF Moves
  <1>6. Pairs(from, to, z)
    BY <1>2, <1>3 DEF Pairs
  <1> DEFINE ms == {from, to}
  <1>7. ASSUME NEW k PROVE Quantified(ms) /\ KeySum(ms, k) = Moved(z, k)
    BY <1>0, <1>6, PairMoves
  <1>8. Post(ms) /\ \A m \in ms : m.type # "receipt" /\ m.type # "release"
    BY <1>0, <1>2
  <1> HIDE DEF ms
  <1>9. Brings(ms, z)
    BY <1>0, <1>5, <1>7, <1>8 DEF Brings
  <1> QED BY <1>0, <1>8, <1>9, NothingTaken, AccountedOther

(* A hold release is completed: only a first completion posts.             *)
LEMMA AccountedRelease ==
  ASSUME Accounted, RowTypes', NEW h \in Releases, PostRelease(h)
  PROVE  Marks' /\ Explained'
  <1> DEFINE debit  == [Entry(h, "release") EXCEPT !.hold = TRUE, !.qty = -@]
             credit == [Entry(h, "release") EXCEPT !.hold = FALSE]
  <1>0. /\ h \in Docs /\ h \notin Receipts /\ posted \in [Docs -> Nat]
        /\ posted' = [posted EXCEPT ![h] = posted[h] + 1] /\ h \notin Provisions
        /\ Post(IF Released(h) THEN {} ELSE {debit, credit}) /\ taken' = taken /\ Takings
        /\ h \notin Itts \cup Zerols
    BY DocKinds, KindAssumption
       DEF PostRelease, Complete, Accounted, BookInv, RowTypes, KindAssumption, Receipts
  <1>1. Released(h) <=> posted[h] > 0
    BY DEF Released, Accounted, Marks, ReleasesMarked, ReleasesPosted
  <1>2. /\ debit.qty = -Qty[h] /\ credit.qty = Qty[h] /\ debit.doc = h /\ credit.doc = h
        /\ debit.type = "release" /\ credit.type = "release"
        /\ KeyOf(debit) = At(Owner[h], Ship[h], TRUE, FALSE)
        /\ KeyOf(credit) = At(Owner[h], Ship[h], FALSE, FALSE)
    <2> DEFINE e == Entry(h, "release")
    <2>1. e = [type |-> "release", doc |-> h, child |-> FALSE, owner |-> Owner[h],
               ship |-> Ship[h], hold |-> Held[h], prov |-> FALSE, day |-> Day[h],
               qty |-> Qty[h], cause |-> h, run |-> posted[h] + 1]
      BY <1>0, PlainEntry
    <2>4. debit = [e EXCEPT !.hold = TRUE, !.qty = -@]
      OBVIOUS
    <2>5. credit = [e EXCEPT !.hold = FALSE]
      OBVIOUS
    <2> HIDE DEF e, debit, credit
    <2>2. debit = [type |-> "release", doc |-> h, child |-> FALSE, owner |-> Owner[h],
                   ship |-> Ship[h], hold |-> TRUE, prov |-> FALSE, day |-> Day[h],
                   qty |-> -Qty[h], cause |-> h, run |-> posted[h] + 1]
      BY <2>1, <2>4
    <2>3. credit = [type |-> "release", doc |-> h, child |-> FALSE, owner |-> Owner[h],
                    ship |-> Ship[h], hold |-> FALSE, prov |-> FALSE, day |-> Day[h],
                    qty |-> Qty[h], cause |-> h, run |-> posted[h] + 1]
      BY <2>1, <2>5
    <2> QED BY <2>2, <2>3 DEF KeyOf, At
  <1> HIDE DEF debit, credit
  <1>3. Into(h) = {KeyOf(credit)} /\ OutOf(h) = {KeyOf(debit)}
    BY <1>2, KindAccounts
  <1>4. Moves(h) <=> posted[h] = 0
    BY <1>0 DEF Moves
  <1>5. CASE posted[h] > 0
    <2>1. Post({}) /\ Quantified({})
      BY <1>0, <1>1, <1>5, FS_EmptySet DEF Quantified
    <2> DEFINE ms == {}
    <2>2. Post(ms) /\ Brings(ms, h)
      BY <1>0, <1>4, <1>5, <2>1, KeySumNone DEF Brings
    <2> HIDE DEF ms
    <2> QED BY <1>0, <2>2, NothingTaken, AccountedOther
  <1>6. CASE ~(posted[h] > 0)
    <2>1. posted[h] = 0 /\ Post({debit, credit})
      BY <1>0, <1>1, <1>6
    <2>2. Pairs(debit, credit, h)
      BY <1>2, <1>3 DEF Pairs
    <2> DEFINE ms == {debit, credit}
    <2>3. ASSUME NEW k PROVE Quantified(ms) /\ KeySum(ms, k) = Moved(h, k)
      <3>1. h \in Docs
        BY <1>0
      <3> QED BY <2>2, <3>1, PairMoves
    <2>4. /\ Post(ms) /\ \A m \in ms : m.type # "receipt" /\ m.type = "release" /\ m.doc = h
          /\ \E m \in ms : m.type = "release" /\ m.doc = h
      BY <1>2, <2>1
    <2> HIDE DEF ms
    <2>5. Brings(ms, h)
      BY <1>4, <2>1, <2>3, <2>4 DEF Brings
    <2> QED BY <1>0, <2>4, <2>5, NothingTaken, AccountedOther
  <1> QED BY <1>0, <1>5, <1>6

(* A delivery event is ingested for the first time.                        *)
LEMMA AccountedDelivery ==
  ASSUME Accounted, RowTypes', NEW d \in Deliveries, posted[d] = 0,
         posted' = [posted EXCEPT ![d] = 1],
         Post({[Entry(d, "delivery") EXCEPT !.qty = -@]}), taken' = taken
  PROVE  Marks' /\ Explained'
  <1> DEFINE out == [Entry(d, "delivery") EXCEPT !.qty = -@]
  <1>0. /\ d \in Docs /\ d \notin Papers /\ posted \in [Docs -> Nat] /\ Qty[d] \in Nat \ {0}
        /\ RowTypes /\ Marks /\ Takings
    BY KindAssumption, DocumentAssumption
       DEF Docs, Accounted, BookInv, RowTypes, KindAssumption, DocumentAssumption
  <1>1. d \notin Receipts /\ d \notin Releases /\ d \notin Finals /\ d \notin Provisions
    BY <1>0, DocKinds
  <1>2. /\ out.qty = -Qty[d] /\ out.type = "delivery"
        /\ KeyOf(out) = At(Owner[d], Ship[d], Held[d], FALSE)
    <2> DEFINE e == Entry(d, "delivery")
    <2>1. e = [type |-> "delivery", doc |-> d, child |-> FALSE, owner |-> Owner[d],
               ship |-> Ship[d], hold |-> Held[d], prov |-> FALSE, day |-> Day[d],
               qty |-> Qty[d], cause |-> d, run |-> posted[d] + 1]
      BY <1>1, PlainEntry
    <2>4. out = [e EXCEPT !.qty = -@]
      OBVIOUS
    <2> HIDE DEF e, out
    <2>2. out = [type |-> "delivery", doc |-> d, child |-> FALSE, owner |-> Owner[d],
                 ship |-> Ship[d], hold |-> Held[d], prov |-> FALSE, day |-> Day[d],
                 qty |-> -Qty[d], cause |-> d, run |-> posted[d] + 1]
      BY <2>1, <2>4
    <2> QED BY <2>2 DEF KeyOf, At
  <1>3. Post({out})
    OBVIOUS
  <1> HIDE DEF out
  <1>4. Into(d) = {} /\ OutOf(d) = {KeyOf(out)}
    BY <1>2, KindAccounts
  <1>5. posted' = [posted EXCEPT ![d] = posted[d] + 1]
    BY <1>0
  <1>6. -Qty[d] \in Int
    BY <1>0
  <1>7. ASSUME NEW k \in Keys PROVE KeySum({out}, k) = Moved(d, k)
    <2>1. KeySum({out}, k) = IF KeyOf(out) = k THEN -Qty[d] ELSE 0
      BY <1>2, <1>6, KeySumOne
    <2>2. Moved(d, k) = 0 - (IF KeyOf(out) = k THEN Qty[d] ELSE 0)
      BY <1>4 DEF Moved
    <2> QED BY <1>0, <1>6, <2>1, <2>2
  <1>8. Moves(d)
    BY DEF Moves
  <1>9. Quantified({out})
    BY <1>2, <1>6, FS_Singleton DEF Quantified
  <1> DEFINE ms == {out}
  <1>10. /\ Post(ms) /\ Quantified(ms) /\ \A m \in ms : m.type # "receipt" /\ m.type # "release"
         /\ \A k \in Keys : KeySum(ms, k) = Moved(d, k)
    BY <1>2, <1>3, <1>7, <1>9
  <1> HIDE DEF ms
  <1>11. Brings(ms, d)
    BY <1>1, <1>8, <1>10 DEF Brings
  <1> QED BY <1>0, <1>1, <1>5, <1>10, <1>11, NothingTaken, AccountedOther

(* Accounted holds at the start,                                           *)
LEMMA InitAccounted == Init => Accounted
  <1> SUFFICES ASSUME Init PROVE Accounted
    OBVIOUS
  <1>1. IInv /\ BookInv /\ Progress
    BY InitInv, InitBook, InitProgress
  <1>2. \A d \in Docs : posted[d] = 0
    BY DEF Init
  <1>3. \A m \in ledger : m.type = "opening"
    BY ImportAssumption DEF Init, ImportAssumption
  <1>4. Marks
    <2>1. NeverOfProvisions
      BY DocKinds DEF Init, NeverOfProvisions
    <2>2. ReceiptsMarked /\ ReleasesMarked
      BY <1>3 DEF ReceiptsMarked, ReleasesMarked
    <2>3. ReceiptsPosted /\ ReleasesPosted
      BY <1>2, DocKinds DEF ReceiptsPosted, ReleasesPosted
    <2> QED BY <2>1, <2>2, <2>3 DEF Marks
  <1>5. Explained
    <2> SUFFICES ASSUME NEW k \in Keys
        PROVE  balance[k] = KeySum(Imported, k) + KeySum(DerivedLines, k) + Total(NetOf(k), Docs)
      BY DEF Explained
    <2>1. balance[k] = 0 + KeySum(Imported, k)
      BY DEF Init, RebuiltBalance, ApplyBalance, NoStock, KeySum
    <2>2. KeySum(Imported, k) \in Int
      <3>1. Quantified(Imported) /\ Quantified({})
        BY FiniteAssumption, ImportAssumption, FS_EmptySet
           DEF FiniteAssumption, ImportAssumption, Quantified, Movements
      <3> QED BY <3>1, KeySumUnion
    <2>3. DerivedLines = {}
      BY <1>3 DEF DerivedLines
    <2>4. KeySum(DerivedLines, k) = 0
      BY <2>3, KeySumNone
    <2>5. Total(NetOf(k), Docs) = 0
      <3> DEFINE Zero == [d \in Docs |-> 0]
      <3>1. ASSUME NEW d \in Docs PROVE NetOf(k)[d] = 0
        <4>1. Times(d) = 0 /\ posted[d] = 0
          BY <1>2 DEF Times
        <4>2. Moved(d, k) \in Int /\ TakenBack(d, k) \in Int
          BY MovedInt
        <4>3. Net(d, k) = 0 * Moved(d, k) - 0 * TakenBack(d, k)
          BY <4>1 DEF Net
        <4> DEFINE a == Moved(d, k)
                   b == TakenBack(d, k)
        <4>4. 0 * a - 0 * b = 0
          <5> HIDE DEF a, b
          <5> QED BY <4>2 DEF a, b
        <4> QED BY <4>3, <4>4 DEF NetOf
      <3>2. IsFiniteSet(Docs)
        BY FiniteAssumption DEF FiniteAssumption
      <3> QED BY <3>1, <3>2, TotalZero
    <2> QED BY <2>1, <2>2, <2>4, <2>5
  <1> QED BY <1>1, <1>4, <1>5 DEF Accounted

(* and every step keeps it.                                                *)
LEMMA NextAccounted == Accounted /\ [Next]_vars => Accounted'
  <1> SUFFICES ASSUME Accounted, [Next]_vars PROVE Accounted'
    OBVIOUS
  <1>0. IInv' /\ BookInv' /\ Progress' /\ RowTypes'
    BY NextInv, NextBook, ProgressStep DEF Accounted, BookInv
  <1>1. SUFFICES Marks' /\ Explained'
    BY <1>0 DEF Accounted
  <1>2. CASE UNCHANGED vars
    BY <1>0, <1>2, AccountedIdle DEF vars
  <1>3. ASSUME NEW d \in Papers, Submit(d) \/ Reject(d) PROVE Marks' /\ Explained'
    BY <1>0, <1>3, AccountedIdle DEF Submit, Reject
  <1>4. ASSUME NEW r \in Arrivals \cup Provisions, ApproveReceipt(r) PROVE Marks' /\ Explained'
    BY <1>0, <1>4, AccountedReceipt
  <1>5. ASSUME NEW f \in Finals, CheckConvert(f) \/ CreateFinal(f) PROVE Marks' /\ Explained'
    BY <1>0, <1>5, AccountedIdle DEF CheckConvert, CreateFinal
  <1>6. ASSUME NEW f \in Finals, ApproveFinal(f) PROVE Marks' /\ Explained'
    BY <1>0, <1>6, AccountedFinal
  <1>7. ASSUME NEW t \in Itts, NEW day \in Days, ApproveItt(t, day) PROVE Marks' /\ Explained'
    BY <1>0, <1>7, AccountedTransfer
  <1>8. ASSUME NEW z \in Zerols, ApproveZerol(z) PROVE Marks' /\ Explained'
    BY <1>0, <1>8, AccountedZerol
  <1>9. ASSUME NEW h \in Releases, CheckRelease(h) PROVE Marks' /\ Explained'
    BY <1>0, <1>9, AccountedIdle DEF CheckRelease
  <1>10. ASSUME NEW h \in Releases, PostRelease(h) PROVE Marks' /\ Explained'
    BY <1>0, <1>10, AccountedRelease
  <1>11. ASSUME NEW m \in Deliveries, IngestEvent(m) PROVE Marks' /\ Explained'
    <2>1. CASE UNCHANGED vars
      BY <1>2, <2>1
    <2>2. CASE posted[m] = 0 /\ posted' = [posted EXCEPT ![m] = 1]
               /\ Post({[Entry(m, "delivery") EXCEPT !.qty = -@]}) /\ taken' = taken
      BY <1>0, <2>2, AccountedDelivery
    <2> QED BY <1>11, <2>1, <2>2 DEF IngestEvent
  <1> QED
    BY <1>2, <1>3, <1>4, <1>5, <1>6, <1>7, <1>8, <1>9, <1>10, <1>11 DEF Next

(* Book stock is explained by the documents in every reachable state,      *)
(* whatever the documents and their contents, however often each of them   *)
(* is approved or delivered, and however these are interleaved.            *)
THEOREM StockAlwaysExplained == Spec => []StockExplained
  <1>1. Accounted => StockExplained
    <2> SUFFICES ASSUME Accounted PROVE StockExplained
      OBVIOUS
    <2>1. ASSUME NEW k \in Keys
          PROVE  balance[k] = SumQty({m \in Imported \cup DerivedLines : KeyOf(m) = k}) + NetSum(k)
      <3>1. Quantified(Imported) /\ Quantified(ledger)
        BY FiniteAssumption, ImportAssumption
           DEF FiniteAssumption, ImportAssumption, Quantified, Movements, Accounted, BookInv, Numbered
      <3>2. PartOf(DerivedLines, ledger)
        BY DEF PartOf, DerivedLines
      <3>3. Quantified(DerivedLines)
        BY <3>1, <3>2, PartQuantified
      <3>4. Imported \cap DerivedLines = {}
        BY ImportAssumption DEF ImportAssumption, DerivedLines
      <3>5. KeySum(Imported \cup DerivedLines, k) = KeySum(Imported, k) + KeySum(DerivedLines, k)
        BY <3>1, <3>3, <3>4, KeySumUnion
      <3>6. balance[k] = KeySum(Imported, k) + KeySum(DerivedLines, k) + Total(NetOf(k), Docs)
        BY DEF Accounted, Explained
      <3> QED BY <3>5, <3>6, NetSumTotal DEF KeySum
    <2>2. ASSUME NEW m \in DerivedLines
          PROVE  m.qty > 0 /\ m.qty <= taken[m.doc][m.owner]
      <3>1. m \in ledger /\ m.type = "receipt" /\ m.child
        BY DEF DerivedLines
      <3>2. ~OwnLine(m)
        BY <3>1 DEF OwnLine
      <3> QED BY <3>1, <3>2 DEF Accounted, Marks, ReceiptsMarked, DerivedLine
    <2> QED BY <2>1, <2>2 DEF StockExplained, NetSum
  <1>2. Init => Accounted
    BY InitAccounted
  <1>3. Accounted /\ [Next]_vars => Accounted'
    BY NextAccounted
  <1> QED BY <1>1, <1>2, <1>3, PTL DEF Spec
================================================================================
