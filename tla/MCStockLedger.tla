----------------------------- MODULE MCStockLedger -----------------------------
(* Instances of StockLedger.  Every run picks its documents from this pool; *)
(* their contents are the same in all of them.                             *)
EXTENDS StockLedger

CONSTANTS a, b, v, w, r1, r2, r3, p1, f1, f2, t1, t2, t3, z1, h1, h2, m1

MCOwner == [d \in Docs |-> IF d = t3 THEN b ELSE a]
MCShip  == [d \in Docs |-> v]
MCHeld  == [d \in Docs |-> d \in Releases \cup {r3}]
MCDay   == [d \in Docs |-> IF d \in {r2, f1, f2, m1, h2} THEN 2 ELSE 1]
MCQty   == [d \in Docs |-> IF d \in {r1, f1, h1} THEN 3 ELSE IF d \in {z1, m1} THEN 1 ELSE 2]
MCId    == [d \in Docs |-> IF d = r1 THEN 2 ELSE 1]
MCProvisionOf == [f \in Finals |-> p1]
MCToCustomer  == [t \in Itts |-> IF t = t3 THEN a ELSE b]
MCToVessel    == [z \in Zerols |-> w]
Once  == [d \in Docs |-> 1]
(* Receipts, two releases, a zerolization and a delivery: what is approved *)
(* or sent again must not be posted again.                                 *)
ReceiptsStory ==
  [d \in Docs |-> IF d \in {r1, r3, h1, h2} THEN 2 ELSE IF d \in {m1, z1} THEN 1 ELSE 0]
(* Transfers there and back, on what two receipts and a conversion brought.*)
TransfersStory ==
  [d \in Docs |-> IF d \in {r1, r2, p1, f1, t1, t2, t3} THEN 1 ELSE 0]
(* What posts anew when it is approved again: two finals of one provision  *)
(* and a zerolization;                                                     *)
ConversionsStory ==
  [d \in Docs |-> IF d \in {p1, f1, z1} THEN 2 ELSE IF d = f2 THEN 1 ELSE 0]
(* a transfer, and a receipt approved again after it was taken from.       *)
AgainStory ==
  [d \in Docs |-> IF d = r1 THEN 3 ELSE IF d = t1 THEN 2 ELSE IF d \in {p1, f1, t3} THEN 1 ELSE 0]
AllStories == {ReceiptsStory, TransfersStory, ConversionsStory, AgainStory}
Receiving  == {Once}

(* Stock on hand and on hold before the first document.                    *)
Opening(h, q) ==
  [type |-> "opening", doc |-> CHOOSE d \in Docs : TRUE, child |-> FALSE, owner |-> a,
   ship |-> v, hold |-> h, prov |-> FALSE, day |-> 1, qty |-> q,
   cause |-> CHOOSE d \in Docs : TRUE, run |-> 0]
Nothing == {}
OnHold  == {Opening(TRUE, 4)}
================================================================================
