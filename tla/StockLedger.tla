------------------------------ MODULE StockLedger ------------------------------
(***************************************************************************)
(* The book-stock service (internal/inventory): the StockMovement ledger   *)
(* the approval hooks and delivery events post to, the snapshots kept next *)
(* to it, and the documents that drive it: receipts (plain, provision,     *)
(* final), in-tank transfers, zerolizations and financial-hold releases.   *)
(*                                                                         *)
(* One product and one stock status; a document has one line; quantities   *)
(* have one unit.  What approval does is module Workflow's subject: here a *)
(* submitted document is approved or rejected, and may be submitted again  *)
(* afterwards, which no submit handler of these documents refuses.         *)
(***************************************************************************)
EXTENDS Integers, FiniteSetsExt

CONSTANTS
  Customers, Vessels,
  Days,          (* calendar days                                          *)
  Arrivals,      (* receipts that are neither provision nor final          *)
  Provisions,    (* provision receipts                                     *)
  Finals,        (* receipts CreateFinalFromProvision may create           *)
  Itts,          (* in-tank transfers                                      *)
  Zerols,        (* zerolization transfers                                 *)
  Releases,      (* financial-hold releases                                *)
  Deliveries,    (* MessageIDs of inbound delivery events                  *)
  Owner, Ship, Held, Day, Qty,  (* content of each document                *)
  Id,            (* primary keys                                           *)
  ProvisionOf,   (* Receipt.ProvisionReceiptID of the finals               *)
  ToCustomer,    (* IttTransfer.ToCustomerID                               *)
  ToVessel,      (* ZerolizationTransfer.ToVesselID                        *)
  Stories,       (* bounds: which documents there are, and how often each  *)
                 (* is approved                                            *)
  Imported       (* movements in the ledger before DFMS went live          *)

Receipts == Arrivals \cup Provisions \cup Finals
Papers   == Receipts \cup Itts \cup Zerols \cup Releases
Docs     == Papers \cup Deliveries

Types == {"receipt", "reversal", "itt", "zerolization", "release", "delivery", "opening"}

(* A StockMovement.  child marks a receipt line an ITT derived for its     *)
(* receiver; cause and run tell which completion posted the movement.      *)
Movements == [type : Types, doc : Docs, child : BOOLEAN, owner : Customers, ship : Vessels,
              hold : BOOLEAN, prov : BOOLEAN, day : Days, qty : Int, cause : Docs, run : Nat]

ASSUME DocumentAssumption ==
  /\ Days \subseteq Nat
  /\ Owner \in [Docs -> Customers] /\ Ship \in [Docs -> Vessels]
  /\ Held \in [Docs -> BOOLEAN] /\ Day \in [Docs -> Days]
  /\ Qty \in [Docs -> Nat \ {0}] /\ Id \in [Docs -> Nat]
  /\ ProvisionOf \in [Finals -> Provisions]
  /\ ToCustomer \in [Itts -> Customers] /\ ToVessel \in [Zerols -> Vessels]
  /\ Stories \subseteq [Docs -> Nat]

ASSUME KindAssumption ==
  /\ Arrivals \cap (Provisions \cup Finals \cup Itts \cup Zerols \cup Releases) = {}
  /\ Provisions \cap (Finals \cup Itts \cup Zerols \cup Releases) = {}
  /\ Finals \cap (Itts \cup Zerols \cup Releases) = {}
  /\ Itts \cap (Zerols \cup Releases) = {} /\ Zerols \cap Releases = {}
  /\ Papers \cap Deliveries = {}

ASSUME ImportAssumption ==
  Imported \subseteq {m \in Movements : m.type = "opening" /\ m.run = 0}

ASSUME FiniteAssumption ==
  IsFiniteSet(Customers) /\ IsFiniteSet(Docs) /\ IsFiniteSet(Imported)

VARIABLES
  maxRuns,  (* the story told: how often a document may still come         *)
  status,   (* of each document, "none" before a final is created          *)
  posted,   (* completions of each document, events ingested               *)
  checked,  (* documents whose transaction has passed its check            *)
  taken,    (* quantity of the line an ITT derived from a receipt, by owner*)
  ledger,   (* StockMovement                                               *)
  balance,  (* StockBalance                                                *)
  daily     (* StockDailyPosition                                          *)

snapshots == <<balance, daily>>
vars == <<maxRuns, status, posted, checked, taken, ledger, snapshots>>

-------------------------------------------------------------------------------
SumQty(ms) == MapThenSumSet(LAMBDA m : m.qty, ms)

Keys == [owner : Customers, ship : Vessels, hold : BOOLEAN, prov : BOOLEAN]
KeyOf(m) == [owner |-> m.owner, ship |-> m.ship, hold |-> m.hold, prov |-> m.prov]

(* MUTANT of ApplyBalance: provisions are put on the final row.            *)
ApplyBalanceAsFinal(b, ms) ==
  [k \in Keys |-> b[k] + SumQty({m \in ms : [KeyOf(m) EXCEPT !.prov = FALSE] = k})]

(* applyBalance for each of the movements ms.                              *)
ApplyBalance(b, ms) == [k \in Keys |-> b[k] + SumQty({m \in ms : KeyOf(m) = k})]

(* MUTANT of ApplyDaily: a new row replaces the figures of the day.        *)
ApplyDailyAfresh(dl, ms) ==
  LET booked == {m \in ms : ~m.prov}
      rows   == {<<m.day, m.owner>> : m \in booked}
      of(x)  == {m \in booked : <<m.day, m.owner>> = x}
  IN [x \in DOMAIN dl \cup rows |->
        IF x \notin rows THEN dl[x]
        ELSE [closing  |-> SumQty(of(x)),
              received |-> SumQty({m \in of(x) : m.type = "receipt" /\ m.qty > 0}),
              outflow  |-> -SumQty({m \in of(x) : m.qty < 0 /\ m.type # "release"}),
              held     |-> SumQty({m \in of(x) : m.hold})]]

(* applyDaily: a customer's row of a day is created by its first movement  *)
(* of that day and added to by the others; provisions have no part in it.  *)
ApplyDaily(dl, ms) ==
  LET booked == {m \in ms : ~m.prov}
      of(x)  == {m \in booked : <<m.day, m.owner>> = x}
      old(x) == IF x \in DOMAIN dl THEN dl[x]
                ELSE [closing |-> 0, received |-> 0, outflow |-> 0, held |-> 0]
  IN [x \in DOMAIN dl \cup {<<m.day, m.owner>> : m \in booked} |->
        [closing  |-> old(x).closing + SumQty(of(x)),
         received |-> old(x).received
                        + SumQty({m \in of(x) : m.type = "receipt" /\ m.qty > 0}),
         outflow  |-> old(x).outflow
                        - SumQty({m \in of(x) : m.qty < 0 /\ m.type # "release"}),
         held     |-> old(x).held + SumQty({m \in of(x) : m.hold})]]

NoStock == [k \in Keys |-> 0]
NoDaily == [x \in {} |-> 0]

(* RebuildSnapshots: both tables emptied and the ledger replayed.          *)
RebuiltBalance(l) == ApplyBalance(NoStock, l)
RebuiltDaily(l)   == ApplyDaily(NoDaily, l)

(* createMovement for each of the movements ms.                            *)
Post(ms) ==
  /\ ledger' = ledger \cup ms
  /\ balance' = ApplyBalance(balance, ms)
  /\ daily' = ApplyDaily(daily, ms)

(* The movement of type t that document d would post for all of itself.    *)
Entry(d, t) ==
  [type |-> t, doc |-> d, child |-> FALSE, owner |-> Owner[d], ship |-> Ship[d],
   hold |-> Held[d], prov |-> d \in Provisions, day |-> Day[d], qty |-> Qty[d],
   cause |-> d, run |-> posted[d] + 1]

-------------------------------------------------------------------------------
(* The lines of receipt r: its own and those ITTs derived from it, which   *)
(* carry the same ReceiptID.                                               *)
Lines(r) ==
  {Entry(r, "receipt")} \cup
  {[Entry(r, "receipt") EXCEPT !.child = TRUE, !.owner = c, !.qty = taken[r][c]] :
     c \in {x \in Customers : taken[r][x] > 0}}

SameLine(m, n) == m.doc = n.doc /\ m.child = n.child /\ (m.child => m.owner = n.owner)

(* MUTANT of ReceiptMovements: lines are posted again.                     *)
EveryLine(r) == Lines(r)

(* PostReceipt: the lines that have no receipt movement yet.               *)
ReceiptMovements(r) ==
  {m \in Lines(r) : ~\E n \in ledger : n.type = "receipt" /\ SameLine(m, n)}

(* ConvertProvisionToFinal: what reverses the provision of the final f.    *)
Reversals(f) ==
  {[m EXCEPT !.type = "reversal", !.qty = -m.qty, !.day = Day[f],
             !.cause = f, !.run = posted[f] + 1] :
     m \in {n \in ledger : /\ n.type = "receipt" /\ n.prov
                           /\ n.doc = ProvisionOf[f]}}

(* MUTANT of Available: originTaken is not subtracted.                     *)
AvailableAtFirst(r) == Qty[r]

(* What is left of a receipt line after the parts taken by ITTs.           *)
Available(r) == Qty[r] - MapThenSumSet(LAMBDA c : taken[r][c], Customers)

(* The lines attachIttBillingParcels looks at for transfer t, and the      *)
(* order it does so.                                                       *)
Parcels(t) ==
  {r \in Arrivals \cup Finals :
     /\ status[r] = "approved"
     /\ Owner[r] = Owner[t] /\ Ship[r] = Ship[t] /\ Held[r] = Held[t]
     /\ Available(r) > 0}
Earlier(q, r) == Day[q] < Day[r] \/ (Day[q] = Day[r] /\ Id[q] < Id[r])

(* What transfer t takes of line r: as much as is there, until its need is *)
(* met.  A need that is not met is left at that.                           *)
Take(t, r) ==
  LET before == MapThenSumSet(Available, {q \in Parcels(t) : Earlier(q, r)})
      need   == Qty[t] - before
  IN IF r \notin Parcels(t) \/ need <= 0 THEN 0
     ELSE IF need < Available(r) THEN need ELSE Available(r)

-------------------------------------------------------------------------------
Init ==
  /\ maxRuns \in Stories
  /\ status = [d \in Docs |-> IF d \in Finals THEN "none" ELSE "draft"]
  /\ posted = [d \in Docs |-> 0]
  /\ checked = {}
  /\ taken = [r \in Receipts |-> [c \in Customers |-> 0]]
  /\ ledger = Imported
  /\ balance = RebuiltBalance(Imported)
  /\ daily = RebuiltDaily(Imported)

(* submitReceipt, submitITT, submitZerol, submitHoldRelease: whatever the  *)
(* document reads, unless an approval of it is running.                    *)
Submit(d) ==
  /\ status[d] \notin {"none", "submitted"}
  /\ posted[d] < maxRuns[d]
  /\ status' = [status EXCEPT ![d] = "submitted"]
  /\ UNCHANGED <<posted, checked, taken, ledger, snapshots>>

(* OnReject of the four hooks.                                             *)
Reject(d) ==
  /\ status[d] = "submitted" /\ d \notin checked
  /\ status' = [status EXCEPT ![d] = "rejected"]
  /\ UNCHANGED <<posted, checked, taken, ledger, snapshots>>

(* The part of OnComplete the hooks share.                                 *)
Complete(d) ==
  /\ status[d] = "submitted"
  /\ status' = [status EXCEPT ![d] = "approved"]
  /\ posted' = [posted EXCEPT ![d] = @ + 1]

(* ReceiptHook.OnComplete of a plain or provision receipt.                 *)
ApproveReceipt(r) ==
  /\ Complete(r)
  /\ Post(ReceiptMovements(r))
  /\ UNCHANGED <<checked, taken>>

(* ReceiptHook.OnComplete of a final receipt.                              *)
ApproveFinal(f) ==
  /\ Complete(f)
  /\ Post(Reversals(f) \cup ReceiptMovements(f))
  /\ UNCHANGED <<checked, taken>>

(* CreateFinalFromProvision: its check and its transaction.                *)
CheckConvert(f) ==
  /\ status[f] = "none" /\ f \notin checked /\ maxRuns[f] > 0
  /\ status[ProvisionOf[f]] = "approved"
  /\ \A g \in Finals : ProvisionOf[g] = ProvisionOf[f] => status[g] = "none"
  /\ checked' = checked \cup {f}
  /\ UNCHANGED <<status, posted, taken, ledger, snapshots>>

CreateFinal(f) ==
  /\ f \in checked
  /\ checked' = checked \ {f}
  /\ status' = [status EXCEPT ![f] = "draft"]
  /\ UNCHANGED <<posted, taken, ledger, snapshots>>

(* MUTANT of ApproveItt: the receiver is credited twice.                   *)
ApproveIttUnbalanced(t, day) ==
  LET out == [Entry(t, "itt") EXCEPT !.qty = -@, !.day = day]
      in  == [Entry(t, "itt") EXCEPT !.owner = ToCustomer[t], !.day = day, !.qty = 2 * @]
  IN /\ Complete(t)
     /\ Post({out, in})
     /\ UNCHANGED <<checked, taken>>

(* IttHook.OnComplete, PostITT: the receiver's billing lines, then one     *)
(* movement out and one in, dated today.                                   *)
ApproveItt(t, day) ==
  LET out == [Entry(t, "itt") EXCEPT !.qty = -@, !.day = day]
      in  == [Entry(t, "itt") EXCEPT !.owner = ToCustomer[t], !.day = day]
  IN /\ Complete(t)
     /\ taken' = [r \in Receipts |->
                    [taken[r] EXCEPT ![ToCustomer[t]] = @ + Take(t, r)]]
     /\ Post({out, in})
     /\ UNCHANGED checked

(* ZerolHook.OnComplete, PostZerolization.                                 *)
ApproveZerol(z) ==
  LET from == [Entry(z, "zerolization") EXCEPT !.hold = FALSE, !.qty = -@]
      to   == [Entry(z, "zerolization") EXCEPT !.hold = FALSE, !.ship = ToVessel[z]]
  IN /\ Complete(z)
     /\ Post({from, to})
     /\ UNCHANGED <<checked, taken>>

Released(h) == \E m \in ledger : m.type = "release" /\ m.doc = h
HeldKey(h)  == [owner |-> Owner[h], ship |-> Ship[h], hold |-> TRUE, prov |-> FALSE]

(* HoldHook.OnComplete, PostHoldRelease: the plain read of the hold        *)
(* balance, and the movements.  A transaction that finds too little is     *)
(* rolled back and leaves the document submitted.                          *)
CheckRelease(h) ==
  /\ status[h] = "submitted" /\ h \notin checked
  /\ Released(h) \/ balance[HeldKey(h)] >= Qty[h]
  /\ checked' = checked \cup {h}
  /\ UNCHANGED <<status, posted, taken, ledger, snapshots>>

PostRelease(h) ==
  LET debit  == [Entry(h, "release") EXCEPT !.hold = TRUE, !.qty = -@]
      credit == [Entry(h, "release") EXCEPT !.hold = FALSE]
  IN /\ h \in checked
     /\ Complete(h)
     /\ Post(IF Released(h) THEN {} ELSE {debit, credit})
     /\ checked' = checked \ {h}
     /\ UNCHANGED taken

(* IngestEvent and PostDelivery, also of a MessageID seen before.          *)
IngestEvent(m) ==
  \/ /\ posted[m] = 0 /\ maxRuns[m] > 0
     /\ posted' = [posted EXCEPT ![m] = 1]
     /\ Post({[Entry(m, "delivery") EXCEPT !.qty = -@]})
     /\ UNCHANGED <<status, checked, taken>>
  \/ posted[m] > 0 /\ UNCHANGED vars

Next ==
  /\ UNCHANGED maxRuns
  /\ \/ \E d \in Papers : Submit(d) \/ Reject(d)
     \/ \E r \in Arrivals \cup Provisions : ApproveReceipt(r)
     \/ \E f \in Finals : CheckConvert(f) \/ CreateFinal(f) \/ ApproveFinal(f)
     \/ \E t \in Itts, day \in Days : ApproveItt(t, day)
     \/ \E z \in Zerols : ApproveZerol(z)
     \/ \E h \in Releases : CheckRelease(h) \/ PostRelease(h)
     \/ \E m \in Deliveries : IngestEvent(m)

Spec == Init /\ [][Next]_vars

-------------------------------------------------------------------------------
Statuses == {"none", "draft", "submitted", "approved", "rejected"}

RowTypes == /\ status \in [Docs -> Statuses]
            /\ posted \in [Docs -> Nat]
            /\ checked \subseteq Finals \cup Releases

DailyRows == [closing : Int, received : Int, outflow : Int, held : Int]

(* Documents, ledger and snapshots keep their types; only a conversion or  *)
(* a release is ever between its check and its transaction.                *)
TypeOK == /\ RowTypes
          /\ taken \in [Receipts -> [Customers -> Nat]]
          /\ ledger \subseteq Movements
          /\ balance \in [Keys -> Int]
          /\ \E rows \in SUBSET (Days \X Customers) : daily \in [rows -> DailyRows]

(* The snapshots, kept up to date movement by movement in the transactions *)
(* that post, are at every moment what RebuildSnapshots would compute from *)
(* the whole ledger.                                                       *)
SnapshotsAgree ==
  /\ balance = RebuiltBalance(ledger)
  /\ daily = RebuiltDaily(ledger)

(* The accounts a completion of document d adds its quantity to, takes it  *)
(* from and, for a final, takes the provision's quantity from.             *)
At(c, v, h, p) == [owner |-> c, ship |-> v, hold |-> h, prov |-> p]
Into(d) ==
  CASE d \in Receipts -> {At(Owner[d], Ship[d], Held[d], d \in Provisions)}
    [] d \in Itts -> {At(ToCustomer[d], Ship[d], Held[d], FALSE)}
    [] d \in Zerols -> {At(Owner[d], ToVessel[d], FALSE, FALSE)}
    [] d \in Releases -> {At(Owner[d], Ship[d], FALSE, FALSE)}
    [] OTHER -> {}
OutOf(d) ==
  CASE d \in Itts \cup Deliveries -> {At(Owner[d], Ship[d], Held[d], FALSE)}
    [] d \in Zerols -> {At(Owner[d], Ship[d], FALSE, FALSE)}
    [] d \in Releases -> {At(Owner[d], Ship[d], TRUE, FALSE)}
    [] OTHER -> {}
TakenBack(d, k) ==
  IF d \in Finals /\ k \in Into(ProvisionOf[d]) THEN Qty[ProvisionOf[d]] ELSE 0
Moved(d, k) == (IF k \in Into(d) THEN Qty[d] ELSE 0) - (IF k \in OutOf(d) THEN Qty[d] ELSE 0)

(* What all completions of d bring to account k.  Transfers and            *)
(* zerolizations look for no earlier posting and move their quantity again *)
(* each time, and so does a final take back its provision; the others      *)
(* post what is theirs once.                                               *)
Times(d)  == IF d \in Itts \cup Zerols THEN posted[d] ELSE IF posted[d] > 0 THEN 1 ELSE 0
Net(d, k) == Times(d) * Moved(d, k) - posted[d] * TakenBack(d, k)

(* The lines ITTs derived from a receipt that a later approval of that     *)
(* receipt has put in the ledger as if they had been received.             *)
DerivedLines == {m \in ledger : m.type = "receipt" /\ m.child}

(* Book stock is explained by the documents, in every story: each account  *)
(* holds what was imported, what each document brings to it by the number  *)
(* of its approvals (deliveries sent again, receipts and releases approved *)
(* again count once), and the derived lines that receipts approved again   *)
(* have posted, none above what transfers took.                            *)
StockExplained ==
  /\ \A k \in Keys :
       balance[k] = SumQty({m \in Imported \cup DerivedLines : KeyOf(m) = k})
                      + MapThenSumSet(LAMBDA d : Net(d, k), Docs)
  /\ \A m \in DerivedLines : m.qty > 0 /\ m.qty <= taken[m.doc][m.owner]

(* No line of a receipt is received twice, no hold-release line released   *)
(* twice, no message delivered twice.                                      *)
LinePostedOnce ==
  \A m, n \in ledger :
    (m.type = "receipt" /\ n.type = "receipt" /\ SameLine(m, n)) => m = n
ReleasedOnce ==
  \A m, n \in ledger :
    (m.type = "release" /\ n.type = "release" /\ m.doc = n.doc /\ m.hold = n.hold) => m = n
DeliveredOnce ==
  \A m, n \in ledger :
    (m.type = "delivery" /\ n.type = "delivery" /\ m.doc = n.doc) => m = n
PostedOnce == LinePostedOnce /\ ReleasedOnce /\ DeliveredOnce

(* What one account of a transfer, zerolization or hold release loses, the *)
(* other gains, at the same completion and on the same day: every movement *)
(* of one has its counterpart in the ledger.                               *)
Counterpart(m, n) ==
  /\ n.type = m.type /\ n.doc = m.doc /\ n.run = m.run /\ n.day = m.day
  /\ n.qty = -m.qty /\ n.prov = m.prov
TransfersConserve ==
  \A m \in ledger : m.type \in {"itt", "zerolization", "release"} =>
    \E n \in ledger : Counterpart(m, n)

(* In-tank transfers together never take more billing quantity from a      *)
(* receipt line than was received on it, and none gives any back.          *)
ParcelsCovered ==
  \A r \in Receipts :
    /\ \A c \in Customers : taken[r][c] >= 0
    /\ MapThenSumSet(LAMBDA c : taken[r][c], Customers) <= Qty[r]

(* StockDailyPosition is end-of-day book: a row's closing quantity is all  *)
(* that was booked for the customer up to that day.                        *)
ClosingIsEndOfDayBook ==
  \A x \in DOMAIN daily :
    daily[x].closing =
      SumQty({m \in ledger : ~m.prov /\ m.owner = x[2] /\ m.day <= x[1]})
================================================================================
