-------------------------- MODULE LoadingOrdersProofs --------------------------
(***************************************************************************)
(* Proofs about LoadingOrders for any requests, orders, amendments and     *)
(* quantities: what becomes of an order through every overlap of           *)
(* compartmentalization, gantry, amendments and expiry, and what the       *)
(* customer's stock and the requests' reservations add up to meanwhile.    *)
(***************************************************************************)
EXTENDS LoadingOrders, FiniteSums, TLAPS

(* An amendment under way names an order that was issued, one never raised *)
(* names none, and the order it may issue is there only once it is done.   *)
AmendmentsNameOrders ==
  \A a \in Amendments :
    /\ amendment[a].at = "none" => amendment[a].to = "none"
    /\ amendment[a].at \in {"read", "running"} =>
         amendment[a].to \in Ilos /\ line[amendment[a].to].st \notin {"none", "draft"}
    /\ amendment[a].at = "running" => amendment[a].kind \in {"replace", "cancel"}
    /\ amendment[a].at # "done" => line[a].of = "none"

(* Orders are drafts while their request is undecided and not afterwards.  *)
DraftsOfUndecided ==
  /\ \A l \in Ilos : line[l].st = "none" <=> line[l].of = "none"
  /\ \A l \in Ilos : line[l].of # "none" =>
       (line[l].st = "draft" <=> status[line[l].of] \in {"submitted", "rejected"})
  /\ \A l \in Ilos :
       comp[l].made \/ l \in opening \cup expiring \cup orders \cup results =>
         line[l].st \notin {"none", "draft"}
  /\ \A l \in Ilos : comp[l].running => comp[l].made

(* A cancelled or expired order is out of force, a loaded one is posted.   *)
ClosedOrders ==
  \A l \in Ilos :
    /\ line[l].st \in {"none", "cancelled", "expired"} => ~line[l].active
    /\ line[l].st = "loaded" => l \in posted

(* Only an amendment marks an order amended.                               *)
MarkedByAmendment ==
  \A l \in Ilos : line[l].amended => \E a \in Amendments : amendment[a].to = l

IInv ==
  /\ TypeOK
  /\ AmendmentsNameOrders
  /\ DraftsOfUndecided
  /\ ClosedOrders
  /\ MarkedByAmendment
  /\ ParkedAwaitsAmendment
  /\ CompletedLoadsEverything

-------------------------------------------------------------------------------
(* Types. *)

(* Columns that are set keep a row a row, and the others as they were.     *)
LEMMA SetStatus ==
  ASSUME NEW f \in [Ilos -> Lines], NEW l \in Ilos,
         NEW s \in {"open", "running", "inprogress", "loaded", "cancelled", "expired"}
  PROVE  LET g == [f EXCEPT ![l].st = s] IN
         /\ g \in [Ilos -> Lines]
         /\ g[l] = [f[l] EXCEPT !.st = s]
         /\ \A k \in Ilos : k # l => g[k] = f[k]
<1>1. [f[l] EXCEPT !.st = s] \in Lines
  BY DEF Lines
<1> QED BY <1>1

(* Likewise for an order completed with a loaded quantity.                 *)
LEMMA SetLoaded ==
  ASSUME NEW f \in [Ilos -> Lines], NEW l \in Ilos, NEW n \in Nat
  PROVE  LET g == [f EXCEPT ![l].loaded = n, ![l].st = "loaded"] IN
         /\ g \in [Ilos -> Lines]
         /\ g[l] = [f[l] EXCEPT !.loaded = n, !.st = "loaded"]
         /\ \A k \in Ilos : k # l => g[k] = f[k]
<1>1. [f[l] EXCEPT !.loaded = n, !.st = "loaded"] \in Lines
  BY DEF Lines
<1>2. [f EXCEPT ![l].loaded = n, ![l].st = "loaded"] =
      [f EXCEPT ![l] = [f[l] EXCEPT !.loaded = n, !.st = "loaded"]]
  BY DEF Lines
<1> QED BY <1>1, <1>2

(* Likewise for an order set aside or taken back.                          *)
LEMMA SetAmended ==
  ASSUME NEW f \in [Ilos -> Lines], NEW l \in Ilos, NEW b \in BOOLEAN
  PROVE  LET g == [f EXCEPT ![l].amended = b] IN
         /\ g \in [Ilos -> Lines]
         /\ \A k \in Ilos : k # l => g[k] = f[k]
         /\ g[l].of = f[l].of /\ g[l].st = f[l].st
         /\ g[l].active = f[l].active /\ g[l].amended = b
<1> DEFINE new == [f[l] EXCEPT !.amended = b]
<1>1. f[l] \in Lines
  OBVIOUS
<1>2. new \in Lines
  BY <1>1 DEF Lines
<1>3. /\ new.of = f[l].of /\ new.st = f[l].st
      /\ new.active = f[l].active /\ new.amended = b
  BY <1>1 DEF Lines
<1> HIDE DEF new
<1>4. /\ [f EXCEPT ![l] = new] \in [Ilos -> Lines]
      /\ [f EXCEPT ![l] = new][l] = new
      /\ \A k \in Ilos : k # l => [f EXCEPT ![l] = new][k] = f[k]
  BY <1>2
<1>5. [f EXCEPT ![l] = new] = [f EXCEPT ![l].amended = b]
  BY DEF new
<1> QED BY <1>3, <1>4, <1>5

(* Likewise for a compartmentalization under approval.                      *)
LEMMA SetRunning ==
  ASSUME NEW f \in [Ilos -> [made : BOOLEAN, active : BOOLEAN, running : BOOLEAN]],
         NEW l \in Ilos, NEW b \in BOOLEAN
  PROVE  LET g == [f EXCEPT ![l].running = b] IN
         /\ g \in [Ilos -> [made : BOOLEAN, active : BOOLEAN, running : BOOLEAN]]
         /\ g[l] = [f[l] EXCEPT !.running = b]
         /\ \A k \in Ilos : k # l => g[k] = f[k]
<1>1. [f[l] EXCEPT !.running = b] \in [made : BOOLEAN, active : BOOLEAN, running : BOOLEAN]
  OBVIOUS
<1> QED BY <1>1

(* Likewise for one cancelled by an amendment.                             *)
LEMMA SetInactive ==
  ASSUME NEW f \in [Ilos -> [made : BOOLEAN, active : BOOLEAN, running : BOOLEAN]],
         NEW l \in Ilos, NEW b \in BOOLEAN
  PROVE  LET g == [f EXCEPT ![l].active = b] IN
         /\ g \in [Ilos -> [made : BOOLEAN, active : BOOLEAN, running : BOOLEAN]]
         /\ g[l] = [f[l] EXCEPT !.active = b]
         /\ \A k \in Ilos : k # l => g[k] = f[k]
<1>1. [f[l] EXCEPT !.active = b] \in [made : BOOLEAN, active : BOOLEAN, running : BOOLEAN]
  OBVIOUS
<1> QED BY <1>1

(* ApplyAmendment: what becomes of the order and of the new one.           *)
LEMMA AppliedLines ==
  ASSUME NEW f \in [Ilos -> Lines], NEW a \in Amendments, NEW l \in Ilos, a # l,
         NEW kind \in {"replace", "cancel", "extend", "batchcancel"}, NEW n \in Nat,
         NEW g, g = Applied(f, a, l, kind, n)
  PROVE  /\ g \in [Ilos -> Lines]
         /\ \A k \in Ilos : k # l /\ k # a => g[k] = f[k]
         /\ kind # "replace" => g[a] = f[a]
         /\ g[l].of = f[l].of
         /\ kind = "replace" =>
              /\ g[a].of = f[l].of /\ g[a].st = "open" /\ ~g[a].amended
              /\ g[l].st = f[l].st /\ ~g[l].active
         /\ kind = "extend" => g[l].st = "open" /\ ~g[l].amended
         /\ kind \in {"cancel", "batchcancel"} => g[l].st = "cancelled" /\ ~g[l].active
<1>0. a \in Ilos /\ f[l] \in Lines
  BY DEF Ilos
<1>1. CASE kind = "replace"
  <2> DEFINE new == [f[l] EXCEPT !.qty = n, !.loaded = 0, !.amended = FALSE,
                                 !.active = TRUE, !.st = "open"]
             old == [f[l] EXCEPT !.active = FALSE, !.amended = TRUE]
  <2>1. new \in Lines /\ old \in Lines
    BY <1>0 DEF Lines
  <2>2. /\ new.of = f[l].of /\ new.st = "open" /\ ~new.amended
        /\ old.of = f[l].of /\ old.st = f[l].st /\ ~old.active
    BY <1>0 DEF Lines
  <2>3. g = [f EXCEPT ![l] = old, ![a] = new]
    BY <1>1 DEF Applied, Lines
  <2> HIDE DEF new, old
  <2>4. /\ g \in [Ilos -> Lines] /\ g[l] = old /\ g[a] = new
        /\ \A k \in Ilos : k # l /\ k # a => g[k] = f[k]
    BY <1>0, <2>1, <2>3
  <2> QED BY <1>1, <2>2, <2>4
<1>2. CASE kind = "extend"
  <2> DEFINE new == [f[l] EXCEPT !.due = FALSE, !.amended = FALSE, !.st = "open"]
  <2>1. new \in Lines /\ new.of = f[l].of /\ new.st = "open" /\ ~new.amended
    BY <1>0 DEF Lines
  <2>2. g = [f EXCEPT ![l] = new]
    BY <1>2 DEF Applied, Lines
  <2> HIDE DEF new
  <2> QED BY <1>0, <1>2, <2>1, <2>2
<1>3. CASE kind \in {"cancel", "batchcancel"}
  <2> DEFINE new == [f[l] EXCEPT !.st = "cancelled", !.active = FALSE, !.amended = TRUE]
  <2>1. new \in Lines /\ new.of = f[l].of /\ new.st = "cancelled" /\ ~new.active
    BY <1>0 DEF Lines
  <2>2. g = [f EXCEPT ![l] = new]
    BY <1>3 DEF Applied, Lines
  <2> HIDE DEF new
  <2> QED BY <1>0, <1>3, <2>1, <2>2
<1> QED BY <1>1, <1>2, <1>3

-------------------------------------------------------------------------------
(* One lemma per action or group of like actions.                          *)

(* No order is issued, amended or sent yet.                                *)
LEMMA InitInv == Init => IInv
<1> SUFFICES ASSUME Init PROVE IInv
  OBVIOUS
<1> USE OrdersAssumption DEF Init, Ilos, NoLine, NoComp, NoAmendment
<1>0. PICK asked \in Scenes :
        status = [q \in Requests |-> IF q \in asked THEN "submitted" ELSE "rejected"]
  OBVIOUS
<1>1. RowTypes
  <2>1. line \in [Ilos -> Lines]
    BY DEF Lines
  <2>2. status \in [Requests -> {"submitted", "approved", "rejected", "completed"}]
    BY <1>0
  <2>3. comp \in [Ilos -> [made : BOOLEAN, active : BOOLEAN, running : BOOLEAN]]
    OBVIOUS
  <2>4. amendment \in [Amendments ->
          [at : {"none", "read", "running", "failed", "done"}, to : Ilos \cup {"none"},
           qty : Nat, kind : {"none", "replace", "cancel", "extend", "batchcancel"}]]
    <3>1. amendment = [a \in Amendments |-> NoAmendment]
      OBVIOUS
    <3> HIDE DEF Init, Ilos
    <3> QED BY <3>1
  <2> HIDE DEF Init, Ilos
  <2> QED BY <2>1, <2>2, <2>3, <2>4 DEF RowTypes
<1>2. TypeOK
  BY <1>1 DEF TypeOK, FileTypes
<1>3. AmendmentsNameOrders
  BY DEF AmendmentsNameOrders
<1>4. DraftsOfUndecided
  <2>1. \A l \in Ilos :
         \/ line[l].of \in Requests /\ line[l].st = "draft"
         \/ line[l].of = "none" /\ line[l].st = "none"
    OBVIOUS
  <2>2. \A l \in Ilos : ~comp[l].made /\ ~comp[l].running
    OBVIOUS
  <2>3. \A q \in Requests : status[q] \in {"submitted", "rejected"}
    BY <1>0
  <2>4. opening = {} /\ expiring = {} /\ orders = {} /\ results = {}
    OBVIOUS
  <2> HIDE DEF Init, Ilos
  <2> QED BY <2>1, <2>2, <2>3, <2>4 DEF DraftsOfUndecided
<1>5. ClosedOrders /\ MarkedByAmendment /\ ParkedAwaitsAmendment
  BY DEF ClosedOrders, MarkedByAmendment, ParkedAwaitsAmendment
<1>6. CompletedLoadsEverything
  BY <1>0 DEF CompletedLoadsEverything
<1> QED BY <1>2, <1>3, <1>4, <1>5, <1>6 DEF IInv

(* The approval of a request opens its orders, which were drafts.          *)
LEMMA ApprovalKeeps ==
  ASSUME IInv, NEW q \in Requests, ApproveRequest(q)
  PROVE  IInv'
<1> USE OrdersAssumption
<1>1. TypeOK
  BY DEF IInv
<1>2. /\ status[q] = "submitted"
      /\ status' = [status EXCEPT ![q] = "approved"]
      /\ UNCHANGED <<comp, amendment, opening, expiring, orders, results, inbound, posted>>
  BY DEF ApproveRequest, gantry
<1>3. /\ line' \in [Ilos -> Lines]
      /\ \A l \in Ilos : line'[l] = IF line[l].of = q THEN [line[l] EXCEPT !.st = "open"] ELSE line[l]
  <2>1. line' = [l \in Ilos |-> IF line[l].of = q THEN [line[l] EXCEPT !.st = "open"] ELSE line[l]]
    BY DEF ApproveRequest
  <2>2. line \in [Ilos -> Lines]
    BY <1>1 DEF TypeOK, RowTypes
  <2>3. \A l \in Ilos : [line[l] EXCEPT !.st = "open"] \in Lines
    BY <2>2 DEF Lines
  <2> QED BY <2>1, <2>2, <2>3
<1>4. \A l \in Ilos : line[l].of = q => line[l].st = "draft"
  BY <1>2, OrdersAssumption DEF IInv, DraftsOfUndecided
<1>5. \A l \in Ilos :
        /\ line'[l].of = line[l].of
        /\ line'[l].amended = line[l].amended
        /\ line'[l].active = line[l].active
        /\ line'[l].st = IF line[l].of = q THEN "open" ELSE line[l].st
  <2>1. \A l \in Ilos : line[l] \in Lines
    BY <1>1 DEF TypeOK, RowTypes
  <2> QED BY <1>3, <2>1 DEF Lines
<1>6. \A r \in Requests : status'[r] = IF r = q THEN "approved" ELSE status[r]
  BY <1>1, <1>2 DEF TypeOK, RowTypes
<1>7. TypeOK'
  BY <1>1, <1>2, <1>3 DEF TypeOK, RowTypes, FileTypes
<1>8. AmendmentsNameOrders' /\ ClosedOrders'
  BY <1>2, <1>4, <1>5 DEF IInv, AmendmentsNameOrders, ClosedOrders, Ilos
<1>9. DraftsOfUndecided'
  <2>1. \A l \in Ilos : line[l].of \in Requests \cup {"none"}
    BY <1>1 DEF TypeOK, RowTypes, Lines
  <2> QED BY <1>2, <1>4, <1>5, <1>6, <2>1 DEF IInv, DraftsOfUndecided
<1>10. MarkedByAmendment' /\ ParkedAwaitsAmendment'
  BY <1>2, <1>5 DEF IInv, MarkedByAmendment, ParkedAwaitsAmendment
<1>11. CompletedLoadsEverything'
  BY <1>2, <1>5, <1>6 DEF IInv, CompletedLoadsEverything, Untouched, LinesOf
<1> QED BY <1>7, <1>8, <1>9, <1>10, <1>11 DEF IInv

(* Steps that leave what an order is, its amendments and its posting alone *)
(* keep the invariant, whatever they make of its stage at the gantry.      *)
LEMMA QuietKeeps ==
  ASSUME IInv, TypeOK', UNCHANGED <<amendment, posted>>,
         \A q \in Requests :
           status'[q] # status[q] => status[q] = "submitted" /\ status'[q] = "rejected",
         \A k \in Ilos :
           /\ line'[k].of = line[k].of
           /\ line'[k].active = line[k].active
           /\ line'[k].amended = line[k].amended,
         \A k \in Ilos : line'[k].st # line[k].st =>
           line[k].st \notin {"none", "draft"} /\ line'[k].st \in {"running", "inprogress"},
         \A k \in Ilos :
           comp'[k].made \/ k \in opening' \cup expiring' \cup orders' \cup results' =>
             line[k].st \notin {"none", "draft"},
         \A k \in Ilos : comp'[k].running => comp'[k].made
  PROVE  IInv'
<1>1. TypeOK
  BY DEF IInv
<1>2. AmendmentsNameOrders'
  BY DEF IInv, AmendmentsNameOrders, Ilos
<1>3. DraftsOfUndecided'
  <2>1. \A k \in Ilos : line[k].of \in Requests \cup {"none"}
    BY <1>1 DEF TypeOK, RowTypes, Lines
  <2> QED BY <1>1, <2>1, OrdersAssumption DEF IInv, DraftsOfUndecided
<1>4. ClosedOrders' /\ MarkedByAmendment' /\ ParkedAwaitsAmendment'
  BY DEF IInv, ClosedOrders, MarkedByAmendment, ParkedAwaitsAmendment
<1>6. CompletedLoadsEverything'
  BY DEF IInv, CompletedLoadsEverything, Untouched, LinesOf
<1> QED BY <1>2, <1>3, <1>4, <1>6 DEF IInv

(* The steps of an order's compartmentalization and loading, and its date. *)
LEMMA GantryKeeps ==
  ASSUME IInv, NEW l \in Ilos,
         \/ ReadForComp(l) \/ OpenComp(l) \/ SubmitComp(l) \/ RejectComp(l)
         \/ ApproveComp(l) \/ LoadTruck(l) \/ Lapse(l)
  PROVE  IInv'
<1>0. TypeOK /\ DraftsOfUndecided /\ ClosedOrders
  BY DEF IInv
<1> USE <1>0 DEF TypeOK, RowTypes, FileTypes
<1>1. ASSUME ReadForComp(l) PROVE IInv'
  <2>1. line[l].st = "open"
    BY <1>1 DEF ReadForComp
  <2>2. TypeOK'
    BY <1>1 DEF ReadForComp, gantry, stock
  <2> QED BY <1>1, <2>1, <2>2, QuietKeeps DEF ReadForComp, gantry, stock, DraftsOfUndecided
<1>2. ASSUME OpenComp(l) PROVE IInv'
  <2>1. line[l].st \notin {"none", "draft"}
    BY <1>2 DEF OpenComp, DraftsOfUndecided
  <2>2. /\ opening' = opening \ {l}
        /\ UNCHANGED <<status, amendment, expiring, orders, results, inbound, posted>>
    BY <1>2 DEF OpenComp, gantry, stock
  <2>3. \/ UNCHANGED <<line, comp>>
        \/ /\ comp' = [comp EXCEPT ![l] = [made |-> TRUE, active |-> TRUE, running |-> FALSE]]
           /\ line' = [line EXCEPT ![l].st = "running"]
    BY <1>2 DEF OpenComp
  <2>4. /\ line' \in [Ilos -> Lines]
        /\ \A k \in Ilos : line'[k] = line[k] \/ (k = l /\ line'[k] = [line[k] EXCEPT !.st = "running"])
    <3>1. CASE UNCHANGED line
      BY <3>1
    <3>2. CASE line' = [line EXCEPT ![l].st = "running"]
      <4>1. line \in [Ilos -> Lines]
        OBVIOUS
      <4> HIDE DEF RowTypes
      <4> QED BY <3>2, <4>1, SetStatus, ZenonT(30)
    <3> QED BY <2>3, <3>1, <3>2
  <2>5. TypeOK'
    <3>1. comp' \in [Ilos -> [made : BOOLEAN, active : BOOLEAN, running : BOOLEAN]]
      <4>1. [made |-> TRUE, active |-> TRUE, running |-> FALSE]
              \in [made : BOOLEAN, active : BOOLEAN, running : BOOLEAN]
        OBVIOUS
      <4>2. CASE UNCHANGED comp
        BY <4>2
      <4>3. CASE comp' = [comp EXCEPT ![l] = [made |-> TRUE, active |-> TRUE, running |-> FALSE]]
        BY <4>1, <4>3
      <4> QED BY <2>3, <4>2, <4>3
    <3> QED BY <2>2, <2>4, <3>1
  <2>6. \A k \in Ilos :
          /\ comp'[k].made => comp[k].made \/ k = l
          /\ comp'[k].running => comp'[k].made
    BY <2>3 DEF DraftsOfUndecided
  <2>7. \A k \in Ilos :
          /\ line'[k].st # line[k].st => k = l /\ line'[k].st = "running"
          /\ line'[k].of = line[k].of
          /\ line'[k].active = line[k].active
          /\ line'[k].amended = line[k].amended
    BY <2>4 DEF Lines
  <2> QED BY <2>1, <2>2, <2>5, <2>6, <2>7, QuietKeeps DEF DraftsOfUndecided
<1>3. ASSUME SubmitComp(l) \/ RejectComp(l) PROVE IInv'
  <2>1. /\ UNCHANGED <<status, line, amendment, opening, expiring, orders, results, inbound, posted>>
        /\ \E b \in BOOLEAN : comp' = [comp EXCEPT ![l].running = b]
    BY <1>3 DEF SubmitComp, RejectComp, gantry, stock
  <2>2. comp \in [Ilos -> [made : BOOLEAN, active : BOOLEAN, running : BOOLEAN]]
    OBVIOUS
  <2>m. comp[l].made
    BY <1>3 DEF DraftsOfUndecided, SubmitComp, RejectComp
  <2>t. /\ comp' \in [Ilos -> [made : BOOLEAN, active : BOOLEAN, running : BOOLEAN]]
        /\ comp'[l].made = comp[l].made
        /\ \A k \in Ilos : k # l => comp'[k] = comp[k]
    <3>1. PICK b \in BOOLEAN : comp' = [comp EXCEPT ![l].running = b]
      BY <2>1
    <3> HIDE DEF RowTypes, TypeOK
    <3>2. /\ comp' \in [Ilos -> [made : BOOLEAN, active : BOOLEAN, running : BOOLEAN]]
          /\ comp'[l] = [comp[l] EXCEPT !.running = b]
          /\ \A k \in Ilos : k # l => comp'[k] = comp[k]
      BY <2>2, <3>1, SetRunning, ZenonT(30)
    <3> QED BY <2>2, <3>2
  <2>3. \A k \in Ilos :
          /\ comp'[k].made = comp[k].made
          /\ comp'[k].running => comp'[k].made
    BY <2>m, <2>t DEF DraftsOfUndecided
  <2>u. UNCHANGED <<status, line, amendment, opening, expiring, orders, results, inbound, posted>>
    BY <2>1
  <2>4. TypeOK'
    BY <2>u, <2>t
  <2> QED BY <2>u, <2>3, <2>4, QuietKeeps DEF DraftsOfUndecided
<1>4. ASSUME ApproveComp(l) PROVE IInv'
  <2>1. line[l].st \notin {"none", "draft"}
    BY <1>4 DEF ApproveComp, DraftsOfUndecided
  <2>2. /\ comp' = [comp EXCEPT ![l].running = FALSE]
        /\ line' = [line EXCEPT ![l].st = "inprogress"]
        /\ orders' = orders \cup {l}
        /\ UNCHANGED <<status, amendment, opening, expiring, results, inbound, posted>>
    BY <1>4 DEF ApproveComp, stock
  <2>3. /\ line' \in [Ilos -> Lines]
        /\ line'[l] = [line[l] EXCEPT !.st = "inprogress"]
        /\ \A k \in Ilos : k # l => line'[k] = line[k]
    <3>1. line \in [Ilos -> Lines]
      OBVIOUS
    <3> HIDE DEF RowTypes, TypeOK
    <3> QED BY <2>2, <3>1, SetStatus, ZenonT(30)
  <2>t. /\ comp' \in [Ilos -> [made : BOOLEAN, active : BOOLEAN, running : BOOLEAN]]
        /\ comp'[l].made = comp[l].made
        /\ \A k \in Ilos : k # l => comp'[k] = comp[k]
        /\ ~comp'[l].running
    <3>1. comp \in [Ilos -> [made : BOOLEAN, active : BOOLEAN, running : BOOLEAN]]
      OBVIOUS
    <3> HIDE DEF RowTypes, TypeOK
    <3>2. comp' = [comp EXCEPT ![l].running = FALSE] /\ FALSE \in BOOLEAN
      BY <2>2
    <3>3. /\ comp' \in [Ilos -> [made : BOOLEAN, active : BOOLEAN, running : BOOLEAN]]
          /\ comp'[l] = [comp[l] EXCEPT !.running = FALSE]
          /\ \A k \in Ilos : k # l => comp'[k] = comp[k]
      BY <3>1, <3>2, SetRunning, ZenonT(30)
    <3> QED BY <3>1, <3>3
  <2>4. TypeOK'
    BY <2>2, <2>3, <2>t
  <2>5. \A k \in Ilos :
          /\ comp'[k].made = comp[k].made
          /\ comp'[k].running => comp'[k].made
    BY <2>t DEF DraftsOfUndecided
  <2>6. \A k \in Ilos :
          /\ line'[k].st # line[k].st => k = l
          /\ line'[k].of = line[k].of
          /\ line'[k].active = line[k].active
          /\ line'[k].amended = line[k].amended
    BY <2>3 DEF Lines
  <2>7. line'[l].st = "inprogress"
    BY <2>3 DEF Lines
  <2> QED BY <2>1, <2>2, <2>4, <2>5, <2>6, <2>7, QuietKeeps DEF DraftsOfUndecided
<1>5. ASSUME LoadTruck(l) PROVE IInv'
  <2>1. TypeOK'
    BY <1>5 DEF LoadTruck, stock
  <2> QED BY <1>5, <2>1, QuietKeeps DEF LoadTruck, stock, DraftsOfUndecided
<1>6. ASSUME Lapse(l) PROVE IInv'
  <2>1. /\ line' = [line EXCEPT ![l].due = TRUE]
        /\ UNCHANGED <<status, comp, amendment, opening, expiring, orders, results, inbound, posted>>
    BY <1>6 DEF Lapse, gantry, stock
  <2>2. [line[l] EXCEPT !.due = TRUE] \in Lines
    <3>1. line[l] \in Lines
      OBVIOUS
    <3> HIDE DEF RowTypes
    <3> QED BY <3>1 DEF Lines
  <2>3. line' \in [Ilos -> Lines]
    BY <2>1, <2>2
  <2>4. \A k \in Ilos :
          /\ line'[k].st = line[k].st
          /\ line'[k].of = line[k].of
          /\ line'[k].active = line[k].active
          /\ line'[k].amended = line[k].amended
    BY <2>1 DEF Lines
  <2>5. TypeOK'
    BY <2>1, <2>3
  <2> QED BY <2>1, <2>4, <2>5, QuietKeeps DEF DraftsOfUndecided
<1> QED BY <1>1, <1>2, <1>3, <1>4, <1>5, <1>6

(* A loading posted, by a clerk or from a result file.                     *)
LEMMA CompletionKeeps ==
  ASSUME IInv, NEW l \in Ilos, NEW n \in Measured, CompleteLoadingLine(l, n),
         UNCHANGED <<comp, amendment, opening, expiring, orders>>,
         results' \subseteq results, inbound' \in {inbound, "none"}
  PROVE  IInv'
<1> DEFINE q == line[l].of
<1>1. TypeOK /\ n \in Nat
  BY OrdersAssumption DEF IInv
<1>f. line \in [Ilos -> Lines]
  BY <1>1 DEF TypeOK, RowTypes
<1>2. /\ CanComplete(l)
      /\ line' = [line EXCEPT ![l].loaded = n, ![l].st = "loaded"]
      /\ posted' = posted \cup {l}
      /\ status' = [status EXCEPT ![q] = IF StillCommitted(line', q) = {} THEN "completed" ELSE @]
  BY DEF CompleteLoadingLine
<1>3. /\ line' \in [Ilos -> Lines]
      /\ line'[l] = [line[l] EXCEPT !.loaded = n, !.st = "loaded"]
      /\ \A k \in Ilos : k # l => line'[k] = line[k]
  BY <1>1, <1>f, <1>2, SetLoaded, ZenonT(30)
<1>4. \A k \in Ilos :
        /\ line'[k].of = line[k].of
        /\ line'[k].active = line[k].active
        /\ line'[k].amended = line[k].amended
        /\ k # l => line'[k].st = line[k].st
  BY <1>f, <1>3, ZenonT(30) DEF Lines
<1>5. /\ line'[l].st = "loaded"
      /\ line[l].st \in {"open", "running", "inprogress"}
  <2>1. line[l] \in Lines
    BY <1>f
  <2> QED BY <1>2, <1>3, <2>1 DEF Lines, CanComplete
<1>6. q \in Requests /\ status[q] \in {"approved", "completed"}
  <2>1. q \in Requests \cup {"none"}
    <3>1. line[l] \in Lines
      BY <1>f
    <3> QED BY <3>1 DEF Lines
  <2> QED BY <1>1, <1>5, <2>1 DEF IInv, DraftsOfUndecided, TypeOK, RowTypes
<1>7. /\ \A r \in Requests : r # q => status'[r] = status[r]
      /\ status'[q] \in {status[q], "completed"}
      /\ status'[q] # status[q] => StillCommitted(line', q) = {}
      /\ status' \in [Requests -> {"submitted", "approved", "rejected", "completed"}]
  BY <1>1, <1>2, <1>6 DEF TypeOK, RowTypes
<1> HIDE DEF q
<1>8. TypeOK'
  BY <1>1, <1>2, <1>3, <1>7 DEF TypeOK, RowTypes, FileTypes
<1>9. AmendmentsNameOrders'
  BY <1>4, <1>5 DEF IInv, AmendmentsNameOrders, Ilos
<1>10. DraftsOfUndecided'
  <2>1. \A k \in Ilos : line[k].of \in Requests \cup {"none"}
    <3>1. \A k \in Ilos : line[k] \in Lines
      BY <1>f
    <3> QED BY <3>1 DEF Lines
  <2>2. line[l].of = q
    BY DEF q
  <2> QED BY <1>4, <1>5, <1>6, <1>7, <2>1, <2>2, OrdersAssumption DEF IInv, DraftsOfUndecided
<1>11. ClosedOrders' /\ MarkedByAmendment' /\ ParkedAwaitsAmendment'
  BY <1>2, <1>4, <1>5, ZenonT(30)
  DEF IInv, ClosedOrders, MarkedByAmendment, ParkedAwaitsAmendment
<1>12. CompletedLoadsEverything'
  <2> SUFFICES ASSUME NEW r \in Requests, Untouched(r)', status'[r] = "completed",
                      NEW k \in LinesOf(line', r)
               PROVE  k \in posted' \/ ~line'[k].active
    BY DEF CompletedLoadsEverything
  <2>1. k \in Ilos /\ line[k].of = r /\ k \in LinesOf(line, r)
    BY <1>4 DEF LinesOf
  <2>2. Untouched(r)
    BY <1>4 DEF Untouched, LinesOf
  <2>3. CASE status[r] = "completed"
    BY <1>2, <1>4, <2>1, <2>2, <2>3 DEF IInv, CompletedLoadsEverything
  <2>4. CASE status[r] # "completed"
    <3>1. r = q /\ StillCommitted(line', r) = {}
      BY <1>7, <2>4
    <3>2. ~Committed(line'[k])
      BY <2>1, <3>1 DEF StillCommitted
    <3>3. ~line'[k].amended
      BY <1>4, <2>1, <2>2 DEF IInv, MarkedByAmendment, Untouched
    <3>4. line[k].st # "draft"
      BY <1>6, <2>1, <3>1, OrdersAssumption DEF IInv, DraftsOfUndecided
    <3>5. line'[k].st \in {"none", "open", "running", "inprogress", "loaded", "cancelled", "expired"}
      BY <1>1, <1>4, <1>5, <2>1, <3>4 DEF TypeOK, RowTypes, Lines
    <3> QED BY <1>11, <2>1, <3>2, <3>3, <3>5 DEF ClosedOrders, Committed
  <2> QED BY <2>3, <2>4
<1> QED BY <1>8, <1>9, <1>10, <1>11, <1>12 DEF IInv

(* The expiry job closes the orders it had selected.                       *)
LEMMA ExpiryKeeps ==
  ASSUME IInv, ExpireWrite
  PROVE  IInv'
<1>1. TypeOK
  BY DEF IInv
<1>2. /\ line' = [k \in Ilos |-> IF k \in expiring
                                THEN [line[k] EXCEPT !.st = "expired", !.active = FALSE]
                                ELSE line[k]]
      /\ expiring' = {}
      /\ UNCHANGED <<status, comp, amendment, opening, orders, results, inbound, posted>>
  BY DEF ExpireWrite, Expire, gantry
<1>u. UNCHANGED <<status, comp, amendment, opening, orders, results, inbound, posted>> /\ expiring' = {}
  BY <1>2
<1>f. line \in [Ilos -> Lines]
  BY <1>1 DEF TypeOK, RowTypes
<1>3. line' \in [Ilos -> Lines]
  <2>1. \A k \in Ilos : [line[k] EXCEPT !.st = "expired", !.active = FALSE] \in Lines
    BY <1>f DEF Lines
  <2> QED BY <1>f, <1>2, <2>1
<1>4. \A k \in Ilos :
        /\ line'[k].of = line[k].of
        /\ line'[k].amended = line[k].amended
        /\ line'[k].st = IF k \in expiring THEN "expired" ELSE line[k].st
        /\ k \in expiring => ~line'[k].active
        /\ k \notin expiring => line'[k].active = line[k].active
  <2> TAKE k \in Ilos
  <2>1. CASE k \in expiring
    BY <1>f, <1>2, <2>1 DEF Lines
  <2>2. CASE k \notin expiring
    BY <1>2, <2>2
  <2> QED BY <2>1, <2>2
<1>5. TypeOK'
  BY <1>1, <1>2, <1>3 DEF TypeOK, RowTypes, FileTypes
<1>6. AmendmentsNameOrders'
  BY <1>u, <1>4 DEF IInv, AmendmentsNameOrders, Ilos
<1>7. DraftsOfUndecided'
  <2>1. \A k \in expiring : line[k].st \notin {"none", "draft"}
    BY <1>1 DEF IInv, DraftsOfUndecided, TypeOK, FileTypes
  <2> QED BY <1>u, <1>4, <2>1 DEF IInv, DraftsOfUndecided
<1>8. ClosedOrders' /\ MarkedByAmendment' /\ ParkedAwaitsAmendment'
  BY <1>u, <1>4
  DEF IInv, ClosedOrders, MarkedByAmendment, ParkedAwaitsAmendment
<1>9. CompletedLoadsEverything'
  BY <1>u, <1>4 DEF IInv, CompletedLoadsEverything, Untouched, LinesOf
<1> QED BY <1>5, <1>6, <1>7, <1>8, <1>9 DEF IInv

(* An amendment applied to its order, which may have been parked just now. *)
LEMMA AppliedKeeps ==
  ASSUME IInv, NEW a \in Amendments, NEW l \in Ilos,
         NEW kind \in {"replace", "cancel", "extend", "batchcancel"}, NEW n \in Nat,
         amendment[a].at \in {"read", "running"}, amendment[a].to = l,
         NEW f \in [Ilos -> Lines],
         \A k \in Ilos : k # l => f[k] = line[k],
         f[l].of = line[l].of, f[l].st = line[l].st, f[l].active = line[l].active,
         line' = Applied(f, a, l, kind, n),
         amendment' = [amendment EXCEPT ![a] = [NoAmendment EXCEPT !.at = "done", !.to = l]],
         comp' \in [Ilos -> [made : BOOLEAN, active : BOOLEAN, running : BOOLEAN]],
         \A k \in Ilos : comp'[k].made = comp[k].made /\ comp'[k].running = comp[k].running,
         UNCHANGED <<status, opening, expiring, orders, results, inbound, posted>>
  PROVE  IInv'
<1>1. TypeOK
  BY DEF IInv
<1>2. /\ line[l].st \notin {"none", "draft"}
      /\ line[a].of = "none" /\ line[a].st = "none"
      /\ line[l].of # "none" /\ a # l /\ a \in Ilos
  BY DEF IInv, AmendmentsNameOrders, DraftsOfUndecided, Ilos
<1>3. /\ line' \in [Ilos -> Lines]
      /\ \A k \in Ilos : k # l /\ k # a => line'[k] = f[k]
      /\ kind # "replace" => line'[a] = f[a]
      /\ line'[l].of = f[l].of
      /\ kind = "replace" =>
           /\ line'[a].of = f[l].of /\ line'[a].st = "open" /\ ~line'[a].amended
           /\ line'[l].st = f[l].st /\ ~line'[l].active
      /\ kind = "extend" => line'[l].st = "open" /\ ~line'[l].amended
      /\ kind \in {"cancel", "batchcancel"} => line'[l].st = "cancelled" /\ ~line'[l].active
  BY <1>2, AppliedLines
<1>4. line' \in [Ilos -> Lines]
  BY <1>3
<1>5. /\ kind = "replace" =>
           /\ line'[a].of = line[l].of /\ line'[a].st = "open" /\ ~line'[a].amended
           /\ line'[l].st = line[l].st /\ ~line'[l].active
      /\ kind = "extend" => line'[l].st = "open" /\ ~line'[l].amended
      /\ kind \notin {"replace", "extend"} => line'[l].st = "cancelled" /\ ~line'[l].active
      /\ line'[l].of = line[l].of
  BY <1>3
<1>6. /\ amendment'[a].at = "done" /\ amendment'[a].to = l
      /\ \A b \in Amendments : b # a => amendment'[b] = amendment[b]
      /\ \A b \in Amendments : amendment'[b].to = amendment[b].to
  BY <1>1 DEF TypeOK, RowTypes, NoAmendment
<1>k. \A k \in Ilos : k # l /\ k # a => line'[k] = line[k]
  BY <1>3
<1>n. kind # "replace" => line'[a] = line[a]
  BY <1>2, <1>3
<1>8. TypeOK'
  <2>1. [NoAmendment EXCEPT !.at = "done", !.to = l] \in
          [at : {"none", "read", "running", "failed", "done"}, to : Ilos \cup {"none"}, qty : Nat,
           kind : {"none", "replace", "cancel", "extend", "batchcancel"}]
    BY DEF NoAmendment
  <2>2. RowTypes'
    BY <1>1, <1>4, <2>1 DEF TypeOK, RowTypes
  <2> QED BY <1>1, <2>2 DEF TypeOK, FileTypes
<1> HIDE <1>3
<1>9. AmendmentsNameOrders'
  <2> SUFFICES ASSUME NEW b \in Amendments, b # a
               PROVE  /\ amendment[b].at = "none" => amendment[b].to = "none"
                      /\ amendment[b].at \in {"read", "running"} =>
                           /\ amendment[b].to \in Ilos
                           /\ line'[amendment[b].to].st \notin {"none", "draft"}
                      /\ amendment[b].at = "running" => amendment[b].kind \in {"replace", "cancel"}
                      /\ amendment[b].at # "done" => line'[b].of = "none"
    BY <1>6 DEF AmendmentsNameOrders
  <2>1. b \in Ilos
    BY DEF Ilos
  <2>2. amendment[b].at # "done" => b # l
    BY <1>2 DEF IInv, AmendmentsNameOrders
  <2> QED BY <1>2, <1>5, <1>k, <1>n, <2>1, <2>2 DEF IInv, AmendmentsNameOrders
<1>10. DraftsOfUndecided'
  <2>1. \A k \in Ilos : line'[k].of = line[k].of \/ (k = a /\ kind = "replace")
    BY <1>5, <1>k, <1>n
  <2>2. \A k \in Ilos : line'[k].st = line[k].st \/ line'[k].st \in {"open", "cancelled"}
    BY <1>5, <1>k, <1>n
  <2>3. \A k \in Ilos : k # l /\ k # a => line'[k].st = line[k].st
    BY <1>k
  <2>4. line'[l].st \notin {"none", "draft"}
    BY <1>2, <1>5
  <2>6. status[line[l].of] \notin {"submitted", "rejected"}
    BY <1>2 DEF IInv, DraftsOfUndecided
  <2>7. kind # "replace" => line'[a].st = line[a].st
    BY <1>n
  <2>8. a \in Ilos
    BY <1>2
  <2>9. \A k \in Ilos : line'[k].st = "none" <=> line'[k].of = "none"
    BY <1>2, <1>5, <2>1, <2>3, <2>4, <2>7 DEF IInv, DraftsOfUndecided
  <2>10. \A k \in Ilos : line'[k].of # "none" =>
           (line'[k].st = "draft" <=> status[line'[k].of] \in {"submitted", "rejected"})
    BY <1>2, <1>5, <2>1, <2>3, <2>4, <2>6, <2>7 DEF IInv, DraftsOfUndecided
  <2>11. \A k \in Ilos :
           comp'[k].made \/ k \in opening' \cup expiring' \cup orders' \cup results' =>
             line'[k].st \notin {"none", "draft"}
    BY <2>2 DEF IInv, DraftsOfUndecided
  <2> QED BY <2>9, <2>10, <2>11 DEF IInv, DraftsOfUndecided
<1>11. ClosedOrders'
  BY <1>2, <1>5, <1>k, <1>n DEF IInv, ClosedOrders
<1>12. MarkedByAmendment'
  BY <1>5, <1>6, <1>k, <1>n DEF IInv, MarkedByAmendment
<1>13. ParkedAwaitsAmendment'
  BY <1>5, <1>6, <1>k, <1>n DEF IInv, ParkedAwaitsAmendment
<1>15. CompletedLoadsEverything'
  <2> SUFFICES ASSUME NEW q \in Requests, Untouched(q)', status[q] = "completed",
                      NEW k \in Ilos, line'[k].of = q
               PROVE  k \in posted \/ ~line'[k].active
    BY DEF CompletedLoadsEverything, LinesOf
  <2>1. line[l].of # q
    BY <1>5, <1>6 DEF Untouched, LinesOf
  <2>2. \A j \in Ilos : line[j].of = q => line'[j].of = q
    BY <1>2, <1>5, <1>k, <1>n, OrdersAssumption
  <2>3. Untouched(q)
    BY <1>6, <2>2 DEF Untouched, LinesOf
  <2>4. k # l /\ line'[k] = line[k]
    BY <1>5, <1>k, <1>n, <2>1
  <2> QED BY <2>3, <2>4 DEF IInv, CompletedLoadsEverything, LinesOf
<1> QED BY <1>8, <1>9, <1>10, <1>11, <1>12, <1>13, <1>15 DEF IInv

(* Setting an order aside, or taking it back, for an amendment of it.      *)
LEMMA ParkKeeps ==
  ASSUME IInv, TypeOK', NEW a \in Amendments, NEW l \in Ilos, NEW b \in BOOLEAN,
         amendment[a].at \in {"read", "running"}, amendment[a].to = l,
         line' = [line EXCEPT ![l].amended = b],
         b => line[l].st = "cancelled" \/ amendment'[a].at \in {"running", "failed"},
         amendment'[a].to = l, amendment'[a].at \in {"running", "failed", "done"},
         amendment'[a].at = "running" => amendment'[a].kind \in {"replace", "cancel"},
         \A c \in Amendments : c # a => amendment'[c] = amendment[c],
         \A k \in Ilos : comp'[k].made = comp[k].made /\ comp'[k].running = comp[k].running,
         UNCHANGED <<status, opening, expiring, orders, results, inbound, posted>>
  PROVE  IInv'
<1>1. line \in [Ilos -> Lines]
  BY DEF IInv, TypeOK, RowTypes
<1>2. \A k \in Ilos :
        /\ line'[k].of = line[k].of
        /\ line'[k].st = line[k].st
        /\ line'[k].active = line[k].active
        /\ line'[k].amended = IF k = l THEN b ELSE line[k].amended
  BY <1>1 DEF Lines
<1>3. AmendmentsNameOrders'
  BY <1>2 DEF IInv, AmendmentsNameOrders, Ilos
<1>4. DraftsOfUndecided'
  BY <1>2 DEF IInv, DraftsOfUndecided
<1>5. ClosedOrders'
  BY <1>2 DEF IInv, ClosedOrders
<1>6. MarkedByAmendment' /\ ParkedAwaitsAmendment'
  BY <1>2 DEF IInv, MarkedByAmendment, ParkedAwaitsAmendment, ClosedOrders
<1>7. CompletedLoadsEverything'
  BY <1>2 DEF IInv, CompletedLoadsEverything, Untouched, LinesOf
<1> QED BY <1>3, <1>4, <1>5, <1>6, <1>7 DEF IInv

(* The three tables an amendment works on.                                 *)
LEMMA RowsOf ==
  ASSUME TypeOK
  PROVE  /\ line \in [Ilos -> Lines]
         /\ comp \in [Ilos -> [made : BOOLEAN, active : BOOLEAN, running : BOOLEAN]]
         /\ amendment \in [Amendments ->
              [at : {"none", "read", "running", "failed", "done"}, to : Ilos \cup {"none"}, qty : Nat,
               kind : {"none", "replace", "cancel", "extend", "batchcancel"}]]
BY DEF TypeOK, RowTypes

(* An amendment raised: it names an issued order from here on.             *)
LEMMA ReadForAmendKeeps ==
  ASSUME IInv, NEW a \in Amendments, NEW l \in Ilos, ReadForAmend(a, l)
  PROVE  IInv'
<1>1. TypeOK
  BY DEF IInv
<1>2. /\ amendment[a].at = "none"
      /\ line[l].st \in {"open", "running", "inprogress"}
      /\ amendment' = [amendment EXCEPT ![a].at = "read", ![a].to = l]
      /\ UNCHANGED <<status, line, comp, opening, expiring, orders, results, inbound, posted>>
  BY DEF ReadForAmend, gantry, stock
<1>3. /\ [amendment[a] EXCEPT !.at = "read", !.to = l] \in
           [at : {"none", "read", "running", "failed", "done"}, to : Ilos \cup {"none"}, qty : Nat,
            kind : {"none", "replace", "cancel", "extend", "batchcancel"}]
      /\ amendment' = [amendment EXCEPT ![a] = [amendment[a] EXCEPT !.at = "read", !.to = l]]
  BY <1>1, <1>2, RowsOf
<1>4. TypeOK'
  BY <1>1, <1>2, <1>3 DEF TypeOK, RowTypes, FileTypes
<1>5. /\ amendment'[a].at = "read" /\ amendment'[a].to = l
      /\ \A b \in Amendments : b # a => amendment'[b] = amendment[b]
  <2> DEFINE row == [amendment[a] EXCEPT !.at = "read", !.to = l]
  <2>1. /\ amendment \in [Amendments ->
             [at : {"none", "read", "running", "failed", "done"}, to : Ilos \cup {"none"}, qty : Nat,
              kind : {"none", "replace", "cancel", "extend", "batchcancel"}]]
        /\ amendment' = [amendment EXCEPT ![a] = row]
    BY <1>1, <1>3, RowsOf
  <2>2. row.at = "read" /\ row.to = l
    BY <2>1
  <2> HIDE DEF row
  <2> QED BY <2>1, <2>2
<1>u. UNCHANGED <<status, line, comp, opening, expiring, orders, results, inbound, posted>>
  BY <1>2
<1>6. AmendmentsNameOrders'
  <2>1. line[l].st \notin {"none", "draft"} /\ line[a].of = "none"
    BY <1>2 DEF IInv, AmendmentsNameOrders
  <2> QED BY <1>5, <1>u, <2>1 DEF IInv, AmendmentsNameOrders
<1>7. DraftsOfUndecided' /\ ClosedOrders'
  BY <1>u DEF IInv, DraftsOfUndecided, ClosedOrders
<1>8. amendment[a].to = "none" /\ "none" \notin Ilos
  BY <1>2, OrdersAssumption DEF IInv, AmendmentsNameOrders
<1>9. MarkedByAmendment' /\ ParkedAwaitsAmendment'
  <2>1. amendment[a].at = "none"
    BY <1>2
  <2>2. MarkedByAmendment'
    BY <1>5, <1>u, <1>8 DEF IInv, MarkedByAmendment
  <2>3. ParkedAwaitsAmendment'
    BY <1>5, <1>u, <2>1 DEF IInv, ParkedAwaitsAmendment
  <2> QED BY <2>2, <2>3
<1>10. CompletedLoadsEverything'
  BY <1>5, <1>u, <1>8 DEF IInv, CompletedLoadsEverything, Untouched, LinesOf
<1> QED BY <1>4, <1>6, <1>7, <1>9, <1>10 DEF IInv

(* An amendment filed: the order is parked, or an immediate one applied.   *)
LEMMA AmendKeeps ==
  ASSUME IInv, NEW a \in Amendments,
         NEW kind \in {"replace", "cancel", "extend", "batchcancel"},
         NEW n \in NewQty \cup {0}, NEW initiated \in BOOLEAN,
         Amend(a, kind, n, initiated)
  PROVE  IInv'
<1> DEFINE l == amendment[a].to
           parked == [line EXCEPT ![l].amended = TRUE]
           row == IF initiated THEN [at |-> "running", to |-> l, kind |-> kind, qty |-> n]
                  ELSE [NoAmendment EXCEPT !.to = l,
                                           !.at = IF kind \in Immediate THEN "done" ELSE "failed"]
<1>1. TypeOK /\ n \in Nat
  BY OrdersAssumption DEF IInv
<1>2. /\ amendment[a].at = "read"
      /\ kind \in Immediate => ~initiated
      /\ comp' = [comp EXCEPT ![l].active = FALSE]
      /\ line' = IF kind \in Immediate THEN Applied(parked, a, l, kind, n) ELSE parked
      /\ amendment' = [amendment EXCEPT ![a] = row]
      /\ UNCHANGED <<status, opening, expiring, orders, results, inbound, posted>>
  BY DEF Amend, gantry, stock
<1>3. l \in Ilos
  BY <1>2 DEF IInv, AmendmentsNameOrders
<1>4. /\ comp' \in [Ilos -> [made : BOOLEAN, active : BOOLEAN, running : BOOLEAN]]
      /\ \A k \in Ilos : comp'[k].made = comp[k].made /\ comp'[k].running = comp[k].running
  <2>1. comp \in [Ilos -> [made : BOOLEAN, active : BOOLEAN, running : BOOLEAN]]
    BY <1>1, RowsOf
  <2>2. comp' = [comp EXCEPT ![l].active = FALSE] /\ FALSE \in BOOLEAN
    BY <1>2
  <2> HIDE DEF l
  <2>3. /\ comp' \in [Ilos -> [made : BOOLEAN, active : BOOLEAN, running : BOOLEAN]]
        /\ comp'[l] = [comp[l] EXCEPT !.active = FALSE]
        /\ \A k \in Ilos : k # l => comp'[k] = comp[k]
    BY <1>3, <2>1, <2>2, SetInactive, ZenonT(30)
  <2> QED BY <1>3, <2>1, <2>3
<1>5. line \in [Ilos -> Lines]
  BY <1>1, RowsOf
<1>6. /\ parked \in [Ilos -> Lines]
      /\ \A k \in Ilos : k # l => parked[k] = line[k]
      /\ parked[l].of = line[l].of /\ parked[l].st = line[l].st
      /\ parked[l].active = line[l].active
  BY <1>3, <1>5, SetAmended
<1>r. /\ amendment[a].at = "read" /\ amendment[a].to = l
      /\ UNCHANGED <<status, opening, expiring, orders, results, inbound, posted>>
  BY <1>2
<1>7. CASE kind \in Immediate
  <2>1. row = [NoAmendment EXCEPT !.at = "done", !.to = l]
    BY <1>2, <1>7 DEF NoAmendment
  <2>2. /\ line' = Applied(parked, a, l, kind, n)
        /\ amendment' = [amendment EXCEPT ![a] = [NoAmendment EXCEPT !.at = "done", !.to = l]]
    BY <1>2, <1>7, <2>1
  <2> HIDE DEF l, parked, row
  <2> QED BY <1>1, <1>r, <1>3, <1>4, <1>6, <2>2, AppliedKeeps
<1>8. CASE kind \notin Immediate
  <2>1. /\ row \in [at : {"none", "read", "running", "failed", "done"}, to : Ilos \cup {"none"},
                    qty : Nat, kind : {"none", "replace", "cancel", "extend", "batchcancel"}]
        /\ row.to = l /\ row.at \in {"running", "failed"}
        /\ row.at = "running" => row.kind \in {"replace", "cancel"}
    BY <1>1, <1>3, <1>8 DEF NoAmendment, Immediate
  <2>2. line' = parked
    BY <1>2, <1>8
  <2> HIDE DEF row
  <2>3. /\ amendment'[a] = row
        /\ \A c \in Amendments : c # a => amendment'[c] = amendment[c]
    BY <1>1, <1>2, RowsOf
  <2>4. TypeOK'
    <3>1. RowTypes'
      BY <1>1, <1>2, <1>4, <1>6, <2>1, <2>2 DEF TypeOK, RowTypes
    <3> QED BY <1>1, <1>2, <2>2, <3>1 DEF TypeOK, FileTypes
  <2>5. /\ line' = [line EXCEPT ![l].amended = TRUE]
        /\ amendment'[a].to = l /\ amendment'[a].at \in {"running", "failed"}
        /\ amendment'[a].at = "running" => amendment'[a].kind \in {"replace", "cancel"}
    BY <2>1, <2>2, <2>3
  <2> HIDE DEF l, parked
  <2> QED BY <1>r, <1>3, <1>4, <2>3, <2>4, <2>5, ParkKeeps
<1> QED BY <1>7, <1>8

(* An amendment approved: it is applied to the order it parked.            *)
LEMMA ApproveAmendmentKeeps ==
  ASSUME IInv, NEW a \in Amendments, ApproveAmendment(a)
  PROVE  IInv'
<1> DEFINE l == amendment[a].to
           kind == amendment[a].kind
           n == amendment[a].qty
<1>1. TypeOK
  BY DEF IInv
<1>2. /\ amendment[a].at = "running"
      /\ amendment' = [amendment EXCEPT ![a] = [NoAmendment EXCEPT !.at = "done", !.to = l]]
      /\ line' = Applied(line, a, l, kind, n)
      /\ UNCHANGED <<status, comp, opening, expiring, orders, results, inbound, posted>>
  BY DEF ApproveAmendment, gantry, stock
<1>3. l \in Ilos /\ kind \in {"replace", "cancel"} /\ n \in Nat
  BY <1>1, <1>2, RowsOf DEF IInv, AmendmentsNameOrders
<1>4. /\ line \in [Ilos -> Lines]
      /\ comp \in [Ilos -> [made : BOOLEAN, active : BOOLEAN, running : BOOLEAN]]
  BY <1>1, RowsOf
<1> HIDE DEF kind, n
<1> QED BY <1>2, <1>3, <1>4, AppliedKeeps

(* An amendment rejected: its order is taken back, unless it was cancelled *)
(* by another one meanwhile.                                               *)
LEMMA RejectAmendmentKeeps ==
  ASSUME IInv, NEW a \in Amendments, NEW total \in BOOLEAN, RejectAmendment(a, total)
  PROVE  IInv'
<1> DEFINE l == amendment[a].to
           b == line[l].st = "cancelled" /\ line[l].amended
           row == IF total THEN [NoAmendment EXCEPT !.at = "done", !.to = l] ELSE amendment[a]
<1>1. TypeOK
  BY DEF IInv
<1>2. /\ amendment[a].at = "running"
      /\ amendment' = IF total
           THEN [amendment EXCEPT ![a] = [NoAmendment EXCEPT !.at = "done", !.to = l]]
           ELSE amendment
      /\ line' = [line EXCEPT ![l].amended = IF line[l].st = "cancelled" THEN @ ELSE FALSE]
      /\ UNCHANGED <<status, comp, opening, expiring, orders, results, inbound, posted>>
  BY DEF RejectAmendment, gantry, stock
<1>3. l \in Ilos /\ amendment[a].kind \in {"replace", "cancel"}
  BY <1>2 DEF IInv, AmendmentsNameOrders
<1>4. b \in BOOLEAN /\ line' = [line EXCEPT ![l].amended = b]
  <2>1. line[l].amended \in BOOLEAN
    BY <1>1, <1>3, RowsOf DEF Lines
  <2> QED BY <1>2, <2>1
<1>5. /\ row \in [at : {"none", "read", "running", "failed", "done"}, to : Ilos \cup {"none"},
                  qty : Nat, kind : {"none", "replace", "cancel", "extend", "batchcancel"}]
      /\ row.to = l /\ row.at \in {"running", "done"}
      /\ row.at = "running" => row.kind \in {"replace", "cancel"}
  BY <1>1, <1>2, <1>3, RowsOf DEF NoAmendment
<1>6. /\ amendment' \in [Amendments ->
           [at : {"none", "read", "running", "failed", "done"}, to : Ilos \cup {"none"}, qty : Nat,
            kind : {"none", "replace", "cancel", "extend", "batchcancel"}]]
      /\ amendment'[a] = row
      /\ \A c \in Amendments : c # a => amendment'[c] = amendment[c]
  BY <1>1, <1>2, <1>5, RowsOf
<1>7. line' \in [Ilos -> Lines]
  <2>1. line \in [Ilos -> Lines]
    BY <1>1, RowsOf
  <2> HIDE DEF l, b, row
  <2> QED BY <1>3, <1>4, <2>1, SetAmended
<1>8. TypeOK'
  <2>1. RowTypes'
    BY <1>1, <1>2, <1>6, <1>7 DEF TypeOK, RowTypes
  <2> QED BY <1>1, <1>2, <2>1 DEF TypeOK, FileTypes
<1>9. b => line[l].st = "cancelled"
  OBVIOUS
<1>10. /\ amendment[a].at = "running" /\ amendment[a].to = l
       /\ UNCHANGED <<status, comp, opening, expiring, orders, results, inbound, posted>>
  BY <1>2
<1>11. /\ amendment'[a].to = l /\ amendment'[a].at \in {"running", "done"}
       /\ amendment'[a].at = "running" => amendment'[a].kind \in {"replace", "cancel"}
  BY <1>5, <1>6
<1> HIDE DEF l, b, row
<1> QED BY <1>3, <1>4, <1>6, <1>8, <1>9, <1>10, <1>11, ParkKeeps

(* A request rejected: its orders stay drafts.                             *)
LEMMA RejectRequestKeeps ==
  ASSUME IInv, NEW q \in Requests, RejectRequest(q)
  PROVE  IInv'
<1>1. TypeOK /\ DraftsOfUndecided
  BY DEF IInv
<1>2. /\ status[q] = "submitted"
      /\ status' = [status EXCEPT ![q] = "rejected"]
      /\ UNCHANGED <<line, comp, amendment, opening, expiring, orders, results, inbound, posted>>
  BY DEF RejectRequest, gantry, stock
<1>3. /\ status' \in [Requests -> {"submitted", "approved", "rejected", "completed"}]
      /\ \A r \in Requests :
           status'[r] # status[r] => status[r] = "submitted" /\ status'[r] = "rejected"
  BY <1>1, <1>2 DEF TypeOK, RowTypes
<1>u. UNCHANGED <<line, comp, amendment, opening, expiring, orders, results, inbound, posted>>
  BY <1>2
<1>4. TypeOK'
  BY <1>1, <1>3, <1>u DEF TypeOK, RowTypes, FileTypes
<1> QED BY <1>1, <1>3, <1>u, <1>4, QuietKeeps DEF DraftsOfUndecided

(* The expiry job's selection: issued orders only.                         *)
LEMMA ExpireSelectKeeps ==
  ASSUME IInv, ExpireSelect
  PROVE  IInv'
<1>1. TypeOK /\ DraftsOfUndecided
  BY DEF IInv
<1>2. /\ expiring' = {l \in Ilos : Expirable(line[l])}
      /\ UNCHANGED <<status, line, comp, amendment, opening, orders, results, inbound, posted>>
  BY DEF ExpireSelect, gantry, stock
<1>3. TypeOK'
  BY <1>1, <1>2 DEF TypeOK, RowTypes, FileTypes
<1>4. \A l \in expiring' : line[l].st \notin {"none", "draft"}
  BY <1>2 DEF Expirable
<1>u. UNCHANGED <<status, line, comp, amendment, opening, orders, results, inbound, posted>>
  BY <1>2
<1> QED BY <1>1, <1>3, <1>4, <1>u, QuietKeeps DEF DraftsOfUndecided

(* A result file taken in, or refused and forgotten.                       *)
LEMMA ReadResultKeeps ==
  ASSUME IInv, NEW l \in Ilos, ReadResult(l)
  PROVE  IInv'
<1>1. TypeOK /\ DraftsOfUndecided
  BY DEF IInv
<1>2. /\ results' \subseteq results /\ inbound' \in Ilos \cup {"none"}
      /\ UNCHANGED <<status, line, comp, amendment, opening, expiring, orders, posted>>
  BY DEF ReadResult, stock
<1>3. TypeOK'
  BY <1>1, <1>2 DEF TypeOK, RowTypes, FileTypes
<1> QED BY <1>1, <1>2, <1>3, QuietKeeps DEF DraftsOfUndecided

(* Its posting, if the order can still be loaded.                          *)
LEMMA BookResultKeeps ==
  ASSUME IInv, NEW n \in Measured, BookResult(n)
  PROVE  IInv'
<1>1. TypeOK /\ DraftsOfUndecided
  BY DEF IInv
<1>2. /\ inbound # "none" /\ inbound' = "none"
      /\ UNCHANGED <<comp, amendment, opening, expiring, orders, results>>
      /\ CompleteLoadingLine(inbound, n) \/ UNCHANGED <<status, line, posted>>
  BY DEF BookResult, stock
<1>3. CASE CompleteLoadingLine(inbound, n)
  <2>1. inbound \in Ilos
    BY <1>1, <1>2 DEF TypeOK, FileTypes
  <2> QED BY <1>2, <1>3, <2>1, CompletionKeeps
<1>4. CASE UNCHANGED <<status, line, posted>>
  <2>1. TypeOK'
    BY <1>1, <1>2, <1>4 DEF TypeOK, RowTypes, FileTypes
  <2> QED BY <1>1, <1>2, <1>4, <2>1, QuietKeeps DEF DraftsOfUndecided
<1> QED BY <1>2, <1>3, <1>4

(* A step that changes nothing.                                            *)
LEMMA StutterKeeps ==
  ASSUME IInv, UNCHANGED vars
  PROVE  IInv'
<1> UNCHANGED <<status, line, comp, amendment, opening, expiring, orders, results, inbound, posted>>
  BY DEF vars, gantry, stock
<1> QED
  BY DEF IInv, TypeOK, RowTypes, FileTypes, AmendmentsNameOrders, DraftsOfUndecided,
         ClosedOrders, MarkedByAmendment, ParkedAwaitsAmendment,
         CompletedLoadsEverything, Untouched, LinesOf

-------------------------------------------------------------------------------
(* Every step, action by action.                                           *)
LEMMA NextInv == IInv /\ [Next]_vars => IInv'
<1> SUFFICES ASSUME IInv, [Next]_vars PROVE IInv'
  OBVIOUS
<1>1. ASSUME NEW q \in Requests, ApproveRequest(q) \/ RejectRequest(q) PROVE IInv'
  BY <1>1, ApprovalKeeps, RejectRequestKeeps
<1>2. ASSUME NEW l \in Ilos,
             \/ ReadForComp(l) \/ OpenComp(l) \/ SubmitComp(l) \/ RejectComp(l)
             \/ ApproveComp(l) \/ LoadTruck(l) \/ Lapse(l)
      PROVE  IInv'
  BY <1>2, GantryKeeps
<1>3. ASSUME NEW l \in Ilos, NEW n \in Measured, CompleteManually(l, n) PROVE IInv'
  <2>1. /\ CompleteLoadingLine(l, n)
        /\ UNCHANGED <<comp, amendment, opening, expiring, orders, results, inbound>>
    BY <1>3 DEF CompleteManually, gantry
  <2> QED BY <2>1, CompletionKeeps
<1>4. ASSUME NEW l \in Ilos, ReadResult(l) PROVE IInv'
  BY <1>4, ReadResultKeeps
<1>12. ASSUME NEW n \in Measured, BookResult(n) PROVE IInv'
  BY <1>12, BookResultKeeps
<1>5. ASSUME NEW a \in Amendments, NEW l \in Ilos, ReadForAmend(a, l) PROVE IInv'
  BY <1>5, ReadForAmendKeeps
<1>6. ASSUME NEW a \in Amendments, NEW kind \in {"replace", "cancel", "extend", "batchcancel"},
             NEW n \in NewQty \cup {0}, NEW initiated \in BOOLEAN, Amend(a, kind, n, initiated)
      PROVE  IInv'
  BY <1>6, AmendKeeps
<1>7. ASSUME NEW a \in Amendments, ApproveAmendment(a) PROVE IInv'
  BY <1>7, ApproveAmendmentKeeps
<1>8. ASSUME NEW a \in Amendments, NEW total \in BOOLEAN, RejectAmendment(a, total) PROVE IInv'
  BY <1>8, RejectAmendmentKeeps
<1>9. ASSUME ExpireSelect PROVE IInv'
  BY <1>9, ExpireSelectKeeps
<1>10. ASSUME ExpireWrite PROVE IInv'
  BY <1>10, ExpiryKeeps
<1>11. ASSUME UNCHANGED vars PROVE IInv'
  BY <1>11, StutterKeeps
<1> QED
  BY <1>1, <1>2, <1>3, <1>4, <1>5, <1>6, <1>7, <1>8, <1>9, <1>10, <1>11, <1>12 DEF Next

(* The invariant of the orders, the amendments and the order files.        *)
THEOREM OrdersInvariant == Spec => []IInv
<1>1. Init => IInv
  BY InitInv
<1>2. IInv /\ [Next]_vars => IInv'
  BY NextInv
<1> QED BY <1>1, <1>2, PTL DEF Spec

(* Orders, amendments and files keep their types, for any of them.         *)
THEOREM TypeCorrect == Spec => []TypeOK
<1>1. IInv => TypeOK
  BY DEF IInv
<1> QED BY <1>1, OrdersInvariant, PTL

(* Whatever amendments overlap, and however they are rejected, an order    *)
(* set aside always has one that may still decide it, or one whose         *)
(* approval never started.                                                 *)
THEOREM NothingStaysParked == Spec => []ParkedAwaitsAmendment
<1>1. IInv => ParkedAwaitsAmendment
  BY DEF IInv
<1> QED BY <1>1, OrdersInvariant, PTL

(* A request without amendments completes only once each of its trucks is  *)
(* loaded or its order expired.                                            *)
THEOREM CompletionIsComplete == Spec => []CompletedLoadsEverything
<1>1. IInv => CompletedLoadsEverything
  BY DEF IInv
<1> QED BY <1>1, OrdersInvariant, PTL

-------------------------------------------------------------------------------
(* What the gantry has. *)

(* An order whose result need not be booked.                               *)
Excused(k) ==
  k \in posted \/ ~line[k].active \/ \E a \in Amendments : amendment[a].to = k

(* The gantry has an order only once it was compartmentalized, and what it *)
(* has stays in progress unless its result need not be booked.             *)
Underway ==
  \A k \in Ilos : k \in orders \cup results \cup {inbound} =>
    comp[k].made /\ (line[k].st = "inprogress" \/ Excused(k))

(* What a step may do to a compartmentalized order for that to last.       *)
Carried(k) ==
  /\ comp'[k].made
  /\ Excused(k) => Excused(k)'
  /\ line[k].st = "inprogress" => line'[k].st = "inprogress" \/ Excused(k)'

LEMMA UnderwayCarries ==
  ASSUME Underway, \A k \in Ilos : comp[k].made => Carried(k),
         \A k \in Ilos : k \in orders' \cup results' \cup {inbound'} =>
           k \in orders \cup results \cup {inbound}
  PROVE  Underway'
BY DEF Underway, Carried

(* Steps that leave every compartmentalized order what it is.              *)
LEMMA PlainCarries ==
  ASSUME NEW k \in Ilos, comp'[k].made,
         line'[k].st = line[k].st, line'[k].active = line[k].active,
         posted \subseteq posted',
         \A a \in Amendments : amendment[a].to = k => amendment'[a].to = k
  PROVE  Carried(k)
BY DEF Carried, Excused

(* Requests, compartmentalizations, files and dates.                       *)
LEMMA GantryUnderway ==
  ASSUME IInv, Underway, NEW l \in Ilos,
         \/ ReadForComp(l) \/ OpenComp(l) \/ SubmitComp(l) \/ RejectComp(l)
         \/ ApproveComp(l) \/ LoadTruck(l) \/ Lapse(l) \/ ReadResult(l)
  PROVE  Underway'
<1>0. TypeOK /\ DraftsOfUndecided
  BY DEF IInv
<1>1. /\ line \in [Ilos -> Lines]
      /\ comp \in [Ilos -> [made : BOOLEAN, active : BOOLEAN, running : BOOLEAN]]
  BY <1>0, RowsOf
<1>2. CASE ReadForComp(l) \/ LoadTruck(l) \/ ReadResult(l)
  <2>1. /\ UNCHANGED <<line, comp, amendment, posted>>
        /\ \A k \in Ilos : k \in orders' \cup results' \cup {inbound'} =>
             k \in orders \cup results \cup {inbound}
    BY <1>2 DEF ReadForComp, LoadTruck, ReadResult, gantry, stock
  <2> QED BY <2>1, PlainCarries, UnderwayCarries
<1>3. CASE OpenComp(l)
  <2>1. /\ UNCHANGED <<amendment, orders, results, inbound, posted>>
        /\ \/ UNCHANGED <<line, comp>>
           \/ /\ ~comp[l].made
              /\ comp' = [comp EXCEPT ![l] = [made |-> TRUE, active |-> TRUE, running |-> FALSE]]
              /\ line' = [line EXCEPT ![l].st = "running"]
    BY <1>3 DEF OpenComp, gantry, stock
  <2>2. \A k \in Ilos : comp[k].made => comp'[k] = comp[k] /\ line'[k] = line[k]
    BY <1>1, <2>1
  <2> QED BY <2>1, <2>2, PlainCarries, UnderwayCarries
<1>4. CASE SubmitComp(l) \/ RejectComp(l)
  <2>1. /\ UNCHANGED <<line, amendment, orders, results, inbound, posted>>
        /\ \E b \in BOOLEAN : comp' = [comp EXCEPT ![l].running = b]
    BY <1>4 DEF SubmitComp, RejectComp, gantry, stock
  <2>2. \A k \in Ilos : comp'[k].made = comp[k].made
    BY <1>1, <2>1
  <2> QED BY <2>1, <2>2, PlainCarries, UnderwayCarries
<1>5. CASE ApproveComp(l)
  <2>1. /\ comp[l].running
        /\ comp' = [comp EXCEPT ![l].running = FALSE]
        /\ line' = [line EXCEPT ![l].st = "inprogress"]
        /\ orders' = orders \cup {l}
        /\ UNCHANGED <<amendment, results, inbound, posted>>
    BY <1>5 DEF ApproveComp, stock
  <2>2. \A k \in Ilos : comp'[k].made = comp[k].made
    BY <1>1, <2>1
  <2>3. /\ line'[l] = [line[l] EXCEPT !.st = "inprogress"]
        /\ \A k \in Ilos : k # l => line'[k] = line[k]
    BY <1>1, <2>1, SetStatus, ZenonT(30)
  <2>4. line'[l].st = "inprogress" /\ line'[l].active = line[l].active
    BY <1>1, <2>3 DEF Lines
  <2>5. comp'[l].made
    BY <1>0, <2>1, <2>2 DEF DraftsOfUndecided
  <2>6. \A k \in Ilos : Excused(k) => Excused(k)'
    BY <2>1, <2>3, <2>4 DEF Excused
  <2> SUFFICES ASSUME NEW k \in Ilos, k \in orders' \cup results' \cup {inbound'}
               PROVE  comp'[k].made /\ (line'[k].st = "inprogress" \/ Excused(k)')
    BY DEF Underway
  <2>7. CASE k = l
    BY <2>4, <2>5, <2>7
  <2>8. CASE k # l
    BY <2>1, <2>2, <2>3, <2>6, <2>8 DEF Underway
  <2> QED BY <2>7, <2>8
<1>6. CASE Lapse(l)
  <2>1. /\ line' = [line EXCEPT ![l].due = TRUE]
        /\ UNCHANGED <<comp, amendment, orders, results, inbound, posted>>
    BY <1>6 DEF Lapse, gantry, stock
  <2>2. \A k \in Ilos : line'[k].st = line[k].st /\ line'[k].active = line[k].active
    BY <1>1, <2>1 DEF Lines
  <2> QED BY <2>1, <2>2, PlainCarries, UnderwayCarries
<1> QED BY <1>2, <1>3, <1>4, <1>5, <1>6

(* The decision on a request opens orders nobody compartmentalized, and    *)
(* the expiry job closes orders.                                           *)
LEMMA DecisionUnderway ==
  ASSUME IInv, Underway,
         \/ \E q \in Requests : ApproveRequest(q) \/ RejectRequest(q)
         \/ ExpireSelect \/ ExpireWrite
  PROVE  Underway'
<1>0. TypeOK /\ DraftsOfUndecided
  BY DEF IInv
<1>1. line \in [Ilos -> Lines]
  BY <1>0, RowsOf
<1>2. CASE ExpireSelect \/ \E q \in Requests : RejectRequest(q)
  <2>1. UNCHANGED <<line, comp, amendment, orders, results, inbound, posted>>
    BY <1>2 DEF ExpireSelect, RejectRequest, gantry, stock
  <2> QED BY <2>1, PlainCarries, UnderwayCarries
<1>3. ASSUME NEW q \in Requests, ApproveRequest(q) PROVE Underway'
  <2>1. /\ status[q] = "submitted"
        /\ line' = [l \in Ilos |-> IF line[l].of = q THEN [line[l] EXCEPT !.st = "open"] ELSE line[l]]
        /\ UNCHANGED <<comp, amendment, orders, results, inbound, posted>>
    BY <1>3 DEF ApproveRequest, gantry
  <2>2. \A k \in Ilos : comp[k].made => line[k].of # q
    BY <1>0, <2>1, OrdersAssumption DEF DraftsOfUndecided
  <2>3. \A k \in Ilos : comp[k].made => line'[k] = line[k]
    BY <2>1, <2>2
  <2> QED BY <2>1, <2>3, PlainCarries, UnderwayCarries
<1>4. CASE ExpireWrite
  <2>1. /\ line' = [k \in Ilos |-> IF k \in expiring
                                  THEN [line[k] EXCEPT !.st = "expired", !.active = FALSE]
                                  ELSE line[k]]
        /\ UNCHANGED <<comp, amendment, orders, results, inbound, posted>>
    BY <1>4 DEF ExpireWrite, Expire, gantry
  <2>2. \A k \in Ilos : k \in expiring => ~line'[k].active
    BY <1>1, <2>1 DEF Lines
  <2>3. \A k \in Ilos : k \notin expiring => line'[k] = line[k]
    BY <2>1
  <2>4. \A k \in Ilos : comp[k].made => Carried(k)
    BY <2>1, <2>2, <2>3 DEF Carried, Excused
  <2> QED BY <2>1, <2>4, UnderwayCarries
<1> QED BY <1>2, <1>3, <1>4

(* A loading posted excuses its order from being booked again.             *)
LEMMA CompletionUnderway ==
  ASSUME IInv, Underway, NEW l \in Ilos, NEW n \in Measured, CompleteLoadingLine(l, n),
         UNCHANGED <<comp, amendment, orders, results>>, inbound' \in {inbound, "none"}
  PROVE  Underway'
<1>1. line \in [Ilos -> Lines] /\ n \in Nat
  BY OrdersAssumption, RowsOf DEF IInv
<1>2. /\ line' = [line EXCEPT ![l].loaded = n, ![l].st = "loaded"]
      /\ posted' = posted \cup {l}
  BY DEF CompleteLoadingLine
<1>3. \A k \in Ilos : k # l => line'[k] = line[k]
  BY <1>1, <1>2, SetLoaded, ZenonT(30)
<1>4. \A k \in Ilos : comp[k].made => Carried(k)
  BY <1>2, <1>3 DEF Carried, Excused
<1>5. "none" \notin Ilos
  BY OrdersAssumption
<1> QED BY <1>4, <1>5, UnderwayCarries

(* The steps of an amendment excuse its order, and issue one that was      *)
(* never compartmentalized.                                                *)
LEMMA AmendmentUnderway ==
  ASSUME IInv, Underway, NEW a \in Amendments,
         \/ \E l \in Ilos : ReadForAmend(a, l)
         \/ \E kind \in {"replace", "cancel", "extend", "batchcancel"},
               n \in NewQty \cup {0}, initiated \in BOOLEAN : Amend(a, kind, n, initiated)
         \/ ApproveAmendment(a)
         \/ \E total \in BOOLEAN : RejectAmendment(a, total)
  PROVE  Underway'
<1>0. TypeOK /\ DraftsOfUndecided /\ AmendmentsNameOrders
  BY DEF IInv
<1>1. /\ line \in [Ilos -> Lines]
      /\ comp \in [Ilos -> [made : BOOLEAN, active : BOOLEAN, running : BOOLEAN]]
      /\ amendment \in [Amendments ->
           [at : {"none", "read", "running", "failed", "done"}, to : Ilos \cup {"none"}, qty : Nat,
            kind : {"none", "replace", "cancel", "extend", "batchcancel"}]]
  BY <1>0, RowsOf
<1>2. UNCHANGED <<orders, results, inbound, posted>>
  BY DEF ReadForAmend, Amend, ApproveAmendment, RejectAmendment, gantry, stock
<1>3. \A k \in Ilos : comp'[k].made = comp[k].made
  <2>1. UNCHANGED comp \/ \E l \in Ilos : comp' = [comp EXCEPT ![l].active = FALSE]
    BY <1>0 DEF ReadForAmend, Amend, ApproveAmendment, RejectAmendment, AmendmentsNameOrders
  <2> QED BY <1>1, <2>1
<1>4. \A b \in Amendments, k \in Ilos : amendment[b].to = k => amendment'[b].to = k
  <2>1. CASE \E l \in Ilos : ReadForAmend(a, l)
    <3>1. PICK l \in Ilos : amendment[a].at = "none"
                            /\ amendment' = [amendment EXCEPT ![a].at = "read", ![a].to = l]
      BY <2>1 DEF ReadForAmend
    <3>2. amendment[a].to = "none" /\ "none" \notin Ilos
      BY <1>0, <3>1, OrdersAssumption DEF AmendmentsNameOrders
    <3>3. \A b \in Amendments : b # a => amendment'[b] = amendment[b]
      BY <1>1, <3>1
    <3> QED BY <3>2, <3>3
  <2>2. CASE ~\E l \in Ilos : ReadForAmend(a, l)
    <3>1. \/ UNCHANGED amendment
          \/ \E row : row.to = amendment[a].to /\ amendment' = [amendment EXCEPT ![a] = row]
      BY <2>2 DEF Amend, ApproveAmendment, RejectAmendment, NoAmendment
    <3> QED BY <1>1, <3>1
  <2> QED BY <2>1, <2>2
<1>5. \A k \in Ilos : comp[k].made =>
        line'[k] = line[k] \/ \E b \in Amendments : amendment[b].to = k
  <2>1. CASE \E l \in Ilos : ReadForAmend(a, l)
    BY <2>1 DEF ReadForAmend
  <2>2. CASE \E total \in BOOLEAN : RejectAmendment(a, total)
    <3>1. PICK b : line' = [line EXCEPT ![amendment[a].to].amended = b]
      BY <2>2 DEF RejectAmendment
    <3> QED BY <1>1, <3>1
  <2>3. CASE \/ ApproveAmendment(a)
             \/ \E kind \in {"replace", "cancel", "extend", "batchcancel"},
                   n \in NewQty \cup {0}, initiated \in BOOLEAN : Amend(a, kind, n, initiated)
    <3>1. /\ amendment[a].to \in Ilos /\ line[a].of = "none" /\ a \in Ilos
          /\ line[amendment[a].to].st \notin {"none", "draft"}
      BY <1>0, <2>3 DEF ApproveAmendment, Amend, AmendmentsNameOrders, Ilos
    <3>2. ~comp[a].made /\ a # amendment[a].to
      BY <1>0, <3>1 DEF DraftsOfUndecided
    <3>3. \A k \in Ilos : k # amendment[a].to /\ k # a => line'[k] = line[k]
      <4> DEFINE l == amendment[a].to
                 parked == [line EXCEPT ![l].amended = TRUE]
      <4>1. \/ line' = parked
            \/ \E f \in {line, parked}, kind \in {"replace", "cancel", "extend", "batchcancel"},
                  n \in Nat : line' = Applied(f, a, l, kind, n)
        <5>1. NewQty \cup {0} \subseteq Nat
          BY OrdersAssumption
        <5>2. ApproveAmendment(a) => amendment[a].kind \in {"replace", "cancel"} /\ amendment[a].qty \in Nat
          BY <1>0, <1>1 DEF ApproveAmendment, AmendmentsNameOrders
        <5> QED BY <2>3, <5>1, <5>2 DEF ApproveAmendment, Amend
      <4>2. parked \in [Ilos -> Lines] /\ \A k \in Ilos : k # l => parked[k] = line[k]
        BY <1>1, <3>1, SetAmended
      <4> HIDE DEF l, parked
      <4>3. l \in Ilos /\ a # l
        BY <3>1, <3>2 DEF l
      <4>4. \A f \in [Ilos -> Lines], kind \in {"replace", "cancel", "extend", "batchcancel"}, n \in Nat :
              line' = Applied(f, a, l, kind, n) => \A k \in Ilos : k # l /\ k # a => line'[k] = f[k]
        BY <4>3, AppliedLines
      <4>5. \A k \in Ilos : k # l /\ k # a => line'[k] = line[k]
        BY <1>1, <4>1, <4>2, <4>4
      <4> QED BY <4>5 DEF l
    <3> QED BY <3>2, <3>3
  <2> QED BY <2>1, <2>2, <2>3
<1>6. \A k \in Ilos : comp[k].made => Carried(k)
  BY <1>2, <1>3, <1>4, <1>5 DEF Carried, Excused
<1> QED BY <1>2, <1>6, UnderwayCarries

LEMMA NextUnderway == IInv /\ Underway /\ [Next]_vars => Underway'
<1> SUFFICES ASSUME IInv, Underway, [Next]_vars PROVE Underway'
  OBVIOUS
<1>1. ASSUME NEW l \in Ilos,
             \/ ReadForComp(l) \/ OpenComp(l) \/ SubmitComp(l) \/ RejectComp(l)
             \/ ApproveComp(l) \/ LoadTruck(l) \/ Lapse(l) \/ ReadResult(l)
      PROVE  Underway'
  BY <1>1, GantryUnderway
<1>2. ASSUME \/ \E q \in Requests : ApproveRequest(q) \/ RejectRequest(q)
             \/ ExpireSelect \/ ExpireWrite
      PROVE  Underway'
  BY <1>2, DecisionUnderway
<1>3. ASSUME NEW l \in Ilos, NEW n \in Measured, CompleteManually(l, n) PROVE Underway'
  <2>1. /\ CompleteLoadingLine(l, n)
        /\ UNCHANGED <<comp, amendment, orders, results, inbound>>
    BY <1>3 DEF CompleteManually, gantry
  <2> QED BY <2>1, CompletionUnderway
<1>4. ASSUME NEW n \in Measured, BookResult(n) PROVE Underway'
  <2>1. /\ inbound \in Ilos /\ inbound' = "none"
        /\ UNCHANGED <<comp, amendment, orders, results>>
        /\ CompleteLoadingLine(inbound, n) \/ UNCHANGED <<line, posted>>
    BY <1>4 DEF BookResult, stock, IInv, TypeOK, FileTypes
  <2>2. CASE CompleteLoadingLine(inbound, n)
    BY <2>1, <2>2, CompletionUnderway
  <2>3. CASE UNCHANGED <<line, posted>>
    <3>1. "none" \notin Ilos
      BY OrdersAssumption
    <3> QED BY <2>1, <2>3, <3>1, PlainCarries, UnderwayCarries
  <2> QED BY <2>1, <2>2, <2>3
<1>5. ASSUME NEW a \in Amendments,
             \/ \E l \in Ilos : ReadForAmend(a, l)
             \/ \E kind \in {"replace", "cancel", "extend", "batchcancel"},
                   n \in NewQty \cup {0}, initiated \in BOOLEAN : Amend(a, kind, n, initiated)
             \/ ApproveAmendment(a)
             \/ \E total \in BOOLEAN : RejectAmendment(a, total)
      PROVE  Underway'
  BY <1>5, AmendmentUnderway
<1>6. ASSUME UNCHANGED vars PROVE Underway'
  BY <1>6 DEF vars, gantry, stock, Underway, Excused
<1> QED BY <1>1, <1>2, <1>3, <1>4, <1>5, <1>6 DEF Next

(* A result leaves the watcher's hands booked or excused.                  *)
LEMMA BookedStep ==
  ASSUME IInv, Underway, Next, NEW l \in Ilos, l \in Arrived, l \notin Arrived'
  PROVE  \/ l \in posted' \/ ~line[l].active
         \/ \E a \in Amendments : amendment[a].to = l
<1>0. "none" \notin Ilos /\ l \in results \cup {inbound}
  BY OrdersAssumption DEF Arrived
<1>1. comp[l].made /\ (line[l].st = "inprogress" \/ Excused(l))
  BY <1>0 DEF Underway
<1>2. ASSUME NEW k \in Ilos, ReadResult(k)
      PROVE  line[l].st # "inprogress" \/ ~line[l].active
  BY <1>0, <1>2 DEF ReadResult, Arrived
<1>3. ASSUME NEW n \in Measured, BookResult(n)
      PROVE  l \in posted' \/ line[l].st # "inprogress"
  <2>1. l = inbound /\ results' = results
    BY <1>0, <1>3 DEF BookResult, Arrived
  <2> QED BY <1>3, <2>1 DEF BookResult, CanComplete, CompleteLoadingLine, stock
<1>4. CASE \E k \in Ilos : ReadResult(k)
  BY <1>1, <1>2, <1>4 DEF ReadResult, stock, Excused
<1>5. CASE \E n \in Measured : BookResult(n)
  <2>1. posted \subseteq posted'
    BY <1>5 DEF BookResult, CompleteLoadingLine, stock
  <2> QED BY <1>1, <1>3, <1>5, <2>1 DEF Excused
<1>6. CASE ~(\E k \in Ilos : ReadResult(k)) /\ ~(\E n \in Measured : BookResult(n))
  <2>1. results \subseteq results' /\ inbound' = inbound
    BY <1>6 DEF Next, ApproveRequest, RejectRequest, ReadForComp, OpenComp, SubmitComp,
                RejectComp, ApproveComp, LoadTruck, CompleteManually, ReadForAmend, Amend,
                ApproveAmendment, RejectAmendment, Lapse, ExpireSelect, ExpireWrite, gantry
  <2> QED BY <1>0, <2>1 DEF Arrived
<1> QED BY <1>4, <1>5, <1>6

(* A truck's result is booked unless somebody asked to amend its order,    *)
(* the order was closed, or it is booked already, whatever                 *)
(* compartmentalizations and clerks do meanwhile.                          *)
THEOREM ResultsAreBooked == Spec => LoadingsAreBooked
<1>1. Init => Underway
  <2>1. Init => orders = {} /\ results = {} /\ inbound = "none"
    BY DEF Init
  <2> QED BY <2>1, OrdersAssumption DEF Underway
<1>2. IInv /\ Underway /\ [Next]_vars => Underway'
  BY NextUnderway
<1>3. IInv /\ Underway /\ [Next]_vars =>
        [\A l \in Ilos : l \in Arrived /\ l \notin Arrived' =>
           \/ l \in posted' \/ ~line[l].active
           \/ \E a \in Amendments : amendment[a].to = l]_vars
  BY BookedStep
<1> QED BY <1>1, <1>2, <1>3, OrdersInvariant, PTL DEF Spec, LoadingsAreBooked

-------------------------------------------------------------------------------
(* The sums over orders. *)

(* The columns they add up, and the sums as sums of a function.            *)
AskedOf(ls)  == [l \in Ilos |-> ls[l].qty]
LoadedOf(ls) == [l \in Ilos |-> ls[l].loaded]
OpenOf(ls)   == [l \in Ilos |-> ls[l].qty - ls[l].loaded]

(* The model's sums of them over a set of orders.                          *)
AskedSum(ls, S)  == Sum(LAMBDA l : ls[l].qty, S)
LoadedSum(ls, S) == Sum(LAMBDA l : ls[l].loaded, S)
OpenSum(ls, S)   == Sum(LAMBDA l : ls[l].qty - ls[l].loaded, S)

(* There are finitely many orders.                                         *)
LEMMA IlosFinite ==
  ASSUME NEW S \in SUBSET Ilos
  PROVE  IsFiniteSet(S)
  BY FS_Subset, OrdersAssumption DEF OrdersAssumption

(* What orders ask for, as a sum of their column.                          *)
LEMMA AskedTotal ==
  ASSUME NEW ls, NEW S \in SUBSET Ilos
  PROVE  AskedSum(ls, S) = Total(AskedOf(ls), S)
  <1> DEFINE Body(g) == [s \in SUBSET S |-> IF s = {} THEN 0
                           ELSE ls[Pick(s)].qty + g[s \ {Pick(s)}]]
             sum == CHOOSE g : g = Body(g)
  <1>1. AskedSum(ls, S) = sum[S]
    BY DEF AskedSum, Sum, MapThenSumSet, MapThenFoldSet, Pick
  <1>2. ASSUME NEW s \in SUBSET S, s # {} PROVE AskedOf(ls)[Pick(s)] = ls[Pick(s)].qty
    <2>1. Pick(s) \in Ilos
      BY <1>2, PickIn
    <2> QED BY <2>1 DEF AskedOf
  <1>3. \A g : Summing(AskedOf(ls), S, g) <=> g = Body(g)
    BY <1>2 DEF Summing
  <1> HIDE DEF Body
  <1>4. sum = Body(sum)
    BY <1>3, IlosFinite, SumsExist
  <1> HIDE DEF sum
  <1> QED BY <1>1, <1>3, <1>4, IlosFinite, TotalIs

(* What they were loaded with, likewise.                                   *)
LEMMA LoadedTotal ==
  ASSUME NEW ls, NEW S \in SUBSET Ilos
  PROVE  LoadedSum(ls, S) = Total(LoadedOf(ls), S)
  <1> DEFINE Body(g) == [s \in SUBSET S |-> IF s = {} THEN 0
                           ELSE ls[Pick(s)].loaded + g[s \ {Pick(s)}]]
             sum == CHOOSE g : g = Body(g)
  <1>1. LoadedSum(ls, S) = sum[S]
    BY DEF LoadedSum, Sum, MapThenSumSet, MapThenFoldSet, Pick
  <1>2. ASSUME NEW s \in SUBSET S, s # {} PROVE LoadedOf(ls)[Pick(s)] = ls[Pick(s)].loaded
    <2>1. Pick(s) \in Ilos
      BY <1>2, PickIn
    <2> QED BY <2>1 DEF LoadedOf
  <1>3. \A g : Summing(LoadedOf(ls), S, g) <=> g = Body(g)
    BY <1>2 DEF Summing
  <1> HIDE DEF Body
  <1>4. sum = Body(sum)
    BY <1>3, IlosFinite, SumsExist
  <1> HIDE DEF sum
  <1> QED BY <1>1, <1>3, <1>4, IlosFinite, TotalIs

(* What they still need by remainingCommittedILO, likewise.                *)
LEMMA OpenTotal ==
  ASSUME NEW ls, NEW S \in SUBSET Ilos
  PROVE  OpenSum(ls, S) = Total(OpenOf(ls), S)
  <1> DEFINE Body(g) == [s \in SUBSET S |-> IF s = {} THEN 0
                           ELSE (ls[Pick(s)].qty - ls[Pick(s)].loaded) + g[s \ {Pick(s)}]]
             sum == CHOOSE g : g = Body(g)
  <1>1. OpenSum(ls, S) = sum[S]
    BY DEF OpenSum, Sum, MapThenSumSet, MapThenFoldSet, Pick
  <1>2. ASSUME NEW s \in SUBSET S, s # {}
        PROVE  OpenOf(ls)[Pick(s)] = ls[Pick(s)].qty - ls[Pick(s)].loaded
    <2>1. Pick(s) \in Ilos
      BY <1>2, PickIn
    <2> QED BY <2>1 DEF OpenOf
  <1>3. \A g : Summing(OpenOf(ls), S, g) <=> g = Body(g)
    BY <1>2 DEF Summing
  <1> HIDE DEF Body
  <1>4. sum = Body(sum)
    BY <1>3, IlosFinite, SumsExist
  <1> HIDE DEF sum
  <1> QED BY <1>1, <1>3, <1>4, IlosFinite, TotalIs

-------------------------------------------------------------------------------
(* The stock a request holds, and what its orders still need. *)

(* Orders a request still owes, on lines ls with events ps.                *)
Due(ls, ps, q) == StillCommitted(ls, q) \ ps

(* Loading events and quantities belong to issued orders, drafts are       *)
(* active, and a truck stays with its request.                             *)
Columns ==
  /\ \A l \in posted : line[l].st \notin {"none", "draft"}
  /\ \A l \in Ilos : l \notin posted => line[l].loaded = 0
  /\ \A l \in Ilos : line[l].st = "draft" => line[l].active
  /\ \A l \in Trucks : line[l].of = Of[l]

(* What left the stock is what the orders with an event were loaded with.  *)
Drawn == final \in Int /\ final = Opening - Total(LoadedOf(line), posted)

(* What a request owes is reserved, unless a surplus was counted.          *)
Covering(q) ==
  (Untouched(q) /\ status[q] \in {"approved", "completed"} /\ ~Overdrawn(q)) =>
    Total(AskedOf(line), Due(line, posted, q)) <= reserved[q]

(* A request that owes nothing reserves nothing.                           *)
Releasing(q) == Untouched(q) /\ StillCommitted(line, q) = {} => reserved[q] = 0

(* The invariant of the sums.                                              *)
StockInv ==
  /\ Columns
  /\ Drawn
  /\ reserved \in [Requests -> Nat]
  /\ \A q \in Requests : Covering(q) /\ Releasing(q)

(* All of these are orders of the model.                                   *)
LEMMA DueParts ==
  ASSUME NEW ls, NEW ps, NEW q
  PROVE  /\ LinesOf(ls, q) \in SUBSET Ilos /\ StillCommitted(ls, q) \in SUBSET Ilos
         /\ Due(ls, ps, q) \in SUBSET Ilos
         /\ StillCommitted(ls, q) \in SUBSET LinesOf(ls, q)
  BY DEF LinesOf, StillCommitted, Due

(* Nothing is approved, reserved or loaded yet.                            *)
LEMMA InitStock == Init => StockInv
  <1> SUFFICES ASSUME Init PROVE StockInv
    OBVIOUS
  <1> USE OrdersAssumption DEF OrdersAssumption
  <1>1. line = [l \in Ilos |->
           IF l \in Trucks
           THEN [NoLine EXCEPT !.of = Of[l], !.st = "draft", !.active = TRUE, !.qty = Qty[l]]
           ELSE NoLine]
    BY DEF Init
  <1>2. \A l \in Ilos : /\ line[l].loaded = 0
                        /\ line[l].st \in {"none", "draft"}
                        /\ line[l].st = "draft" => line[l].active
    BY <1>1 DEF NoLine
  <1>3. \A l \in Trucks : line[l].of = Of[l]
    BY <1>1 DEF NoLine, Ilos
  <1>4. posted = {} /\ final = Opening /\ reserved = [q \in Requests |-> 0]
    BY DEF Init
  <1>5. Columns
    BY <1>2, <1>3, <1>4 DEF Columns
  <1>6. Drawn
    <2>1. Total(LoadedOf(line), posted) = 0
      BY <1>4, TotalEmpty
    <2> QED BY <1>4, <2>1 DEF Drawn
  <1>7. ASSUME NEW q \in Requests PROVE Covering(q) /\ Releasing(q)
    <2>1. status[q] \notin {"approved", "completed"}
      BY DEF Init
    <2> QED BY <1>4, <2>1 DEF Covering, Releasing
  <1> QED BY <1>4, <1>5, <1>6, <1>7 DEF StockInv

(* Amendments stay where they were raised, and orders with their requests. *)
LEMMA UntouchedBefore ==
  ASSUME \A a \in Amendments : amendment[a].to # "none" => amendment'[a].to = amendment[a].to,
         \A l \in Ilos : line[l].of # "none" => line'[l].of = line[l].of,
         NEW q \in Requests, Untouched(q)'
  PROVE  Untouched(q)
  <1> SUFFICES ASSUME NEW a \in Amendments, amendment[a].to \in LinesOf(line, q) PROVE FALSE
    BY DEF Untouched
  <1>1. amendment[a].to \in Ilos /\ line[amendment[a].to].of = q
    BY DEF LinesOf
  <1>2. amendment[a].to # "none" /\ q # "none"
    BY <1>1, OrdersAssumption DEF OrdersAssumption
  <1>3. amendment'[a].to \in LinesOf(line', q)
    BY <1>1, <1>2 DEF LinesOf
  <1> QED BY <1>3 DEF Untouched

(* A step that moves no stock and, of requests nobody amends, changes no   *)
(* order that was not loaded.                                              *)
LEMMA StockKeeps ==
  ASSUME StockInv, TypeOK, TypeOK', UNCHANGED <<posted, reserved, final>>, Columns',
         \A q \in Requests : status'[q] \in {"approved", "completed"} =>
           status[q] \in {"approved", "completed"},
         \A a \in Amendments : amendment[a].to # "none" => amendment'[a].to = amendment[a].to,
         \A l \in Ilos : line[l].of # "none" => line'[l].of = line[l].of,
         \A l \in posted : line'[l].loaded = line[l].loaded,
         \A q \in Requests, l \in Ilos : Untouched(q)' /\ line'[l].of = q =>
           /\ line[l].of = q
           /\ line'[l].qty = line[l].qty /\ line'[l].loaded = line[l].loaded
           /\ Committed(line[l]) => Committed(line'[l])
           /\ l \notin posted => (Committed(line'[l]) => Committed(line[l]))
           /\ l \in posted => (line[l].st # "loaded" => line'[l].st # "loaded")
  PROVE  StockInv'
  <1>0. posted \in SUBSET Ilos
    BY DEF TypeOK, FileTypes
  <1>1. Drawn'
    <2>1. \A l \in posted : LoadedOf(line')[l] = LoadedOf(line)[l]
      BY <1>0 DEF LoadedOf
    <2>2. Total(LoadedOf(line'), posted) = Total(LoadedOf(line), posted)
      BY <1>0, <2>1, IlosFinite, TotalAgree
    <2> QED BY <2>2 DEF StockInv, Drawn
  <1>2. ASSUME NEW q \in Requests, Untouched(q)'
        PROVE  /\ Untouched(q)
               /\ LinesOf(line', q) = LinesOf(line, q)
               /\ \A l \in LinesOf(line, q) : line'[l].qty = line[l].qty
               /\ StillCommitted(line, q) \subseteq StillCommitted(line', q)
               /\ Due(line', posted, q) = Due(line, posted, q)
               /\ Overdrawn(q) => Overdrawn(q)'
    <2>1. Untouched(q)
      BY <1>2, UntouchedBefore
    <2>2. q # "none"
      BY OrdersAssumption DEF OrdersAssumption
    <2>3. \A l \in Ilos : line'[l].of = q <=> line[l].of = q
      BY <1>2, <2>2
    <2>4. LinesOf(line', q) = LinesOf(line, q)
      BY <2>3 DEF LinesOf
    <2>5. \A l \in LinesOf(line, q) : l \in Ilos /\ line'[l].of = q
      BY <2>3 DEF LinesOf
    <2>6. StillCommitted(line, q) \subseteq StillCommitted(line', q)
      BY <1>2, <2>4, <2>5 DEF StillCommitted
    <2>7. Due(line', posted, q) = Due(line, posted, q)
      BY <1>2, <2>4, <2>5 DEF StillCommitted, Due
    <2>8. Overdrawn(q) => Overdrawn(q)'
      BY <1>2, <2>4, <2>5 DEF Overdrawn
    <2> QED BY <1>2, <2>1, <2>4, <2>5, <2>6, <2>7, <2>8
  <1>3. ASSUME NEW q \in Requests PROVE Covering(q)'
    <2> SUFFICES ASSUME Untouched(q)', status'[q] \in {"approved", "completed"}, ~Overdrawn(q)'
        PROVE  Total(AskedOf(line'), Due(line', posted, q)) <= reserved[q]
      BY DEF Covering
    <2>1. Total(AskedOf(line), Due(line, posted, q)) <= reserved[q]
      BY <1>2 DEF StockInv, Covering
    <2>2. \A l \in Due(line, posted, q) : AskedOf(line')[l] = AskedOf(line)[l]
      BY <1>2, DueParts DEF AskedOf, Due
    <2>3. Total(AskedOf(line'), Due(line, posted, q)) = Total(AskedOf(line), Due(line, posted, q))
      BY <2>2, DueParts, IlosFinite, TotalAgree
    <2> QED BY <1>2, <2>1, <2>3
  <1>4. ASSUME NEW q \in Requests PROVE Releasing(q)'
    BY <1>2 DEF StockInv, Releasing
  <1> QED BY <1>1, <1>3, <1>4 DEF StockInv

(* Steps that leave orders, reservations and deliveries alone.             *)
LEMMA QuietStock ==
  ASSUME StockInv, TypeOK, TypeOK', UNCHANGED <<line, posted, reserved, final, amendment>>,
         \A q \in Requests : status'[q] \in {"approved", "completed"} =>
           status[q] \in {"approved", "completed"}
  PROVE  StockInv'
  <1>1. Columns'
    BY DEF StockInv, Columns
  <1> QED BY <1>1, StockKeeps

(* A compartmentalization sets an order running or in progress.            *)
LEMMA SendingStock ==
  ASSUME StockInv, IInv, IInv', NEW l \in Ilos, line[l].st \notin {"none", "draft"},
         NEW s \in {"running", "inprogress"}, line' = [line EXCEPT ![l].st = s],
         UNCHANGED <<status, posted, reserved, final, amendment>>
  PROVE  StockInv'
  <1>1. TypeOK /\ TypeOK' /\ line \in [Ilos -> Lines] /\ posted \subseteq Ilos
    BY RowsOf DEF IInv, TypeOK, FileTypes
  <1>2. /\ line'[l] = [line[l] EXCEPT !.st = s]
        /\ \A k \in Ilos : k # l => line'[k] = line[k]
    BY <1>1, SetStatus
  <1>3. /\ line'[l].st = s
        /\ \A k \in Ilos : /\ line'[k].of = line[k].of /\ line'[k].qty = line[k].qty
                           /\ line'[k].loaded = line[k].loaded
                           /\ line'[k].active = line[k].active
                           /\ line'[k].amended = line[k].amended
                           /\ k # l => line'[k].st = line[k].st
    BY <1>1, <1>2 DEF Lines
  <1>4. Columns'
    <2>1. \A t \in Trucks : t \in Ilos
      BY DEF Ilos
    <2> QED BY <1>1, <1>3, <2>1 DEF StockInv, Columns
  <1>5. l \notin posted => (line[l].active => line[l].st \in {"open", "running", "inprogress"})
    <2>1. line[l].st \in {"open", "running", "inprogress", "loaded", "cancelled", "expired"}
      BY <1>1 DEF Lines
    <2> QED BY <2>1 DEF IInv, ClosedOrders
  <1>6. \A k \in Ilos :
          /\ Committed(line[k]) => Committed(line'[k])
          /\ k \notin posted => (Committed(line'[k]) => Committed(line[k]))
          /\ k \in posted => (line[k].st # "loaded" => line'[k].st # "loaded")
    BY <1>3, <1>5 DEF Committed
  <1> QED BY <1>1, <1>3, <1>4, <1>6, StockKeeps

(* An amendment is raised, filed or decided: of the orders, it changes the *)
(* one it names and the one it issues.                                     *)
LEMMA AmendStock ==
  ASSUME StockInv, IInv, IInv', NEW a \in Amendments, NEW l \in Ilos,
         line[l].st \notin {"none", "draft"}, line[a].of = "none",
         amendment'[a].to = l, amendment[a].to \in {l, "none"},
         \A c \in Amendments : c # a => amendment'[c] = amendment[c],
         \A k \in Ilos : k # l /\ k # a => line'[k] = line[k],
         line'[l].of = line[l].of, line'[l].loaded = line[l].loaded,
         line'[l].st \notin {"none", "draft"},
         \/ line'[a] = line[a]
         \/ line'[a].of = line[l].of /\ line'[a].st = "open" /\ line'[a].loaded = 0,
         UNCHANGED <<status, posted, reserved, final>>
  PROVE  StockInv'
  <1>1. /\ TypeOK /\ TypeOK' /\ a \in Ilos /\ a \notin Trucks /\ posted \subseteq Ilos
        /\ \A t \in Trucks : t \in Ilos
    BY OrdersAssumption DEF IInv, OrdersAssumption, Ilos, TypeOK, FileTypes
  <1>2. line[a].st = "none" /\ a # l /\ a \notin posted
    BY <1>1 DEF IInv, DraftsOfUndecided, StockInv, Columns
  <1>3. line[l].of # "none" /\ "none" \notin Requests
    BY OrdersAssumption DEF IInv, DraftsOfUndecided, OrdersAssumption
  <1>4. Columns'
    BY <1>1, <1>2 DEF StockInv, Columns
  <1>5. \A q \in Requests, k \in Ilos : Untouched(q)' /\ line'[k].of = q => k # l /\ k # a
    <2> SUFFICES ASSUME NEW q \in Requests, NEW k \in Ilos, Untouched(q)', line'[k].of = q
        PROVE  k # l /\ k # a
      OBVIOUS
    <2>1. l \notin LinesOf(line', q)
      BY DEF Untouched
    <2>2. line[l].of # q
      BY <2>1 DEF LinesOf
    <2>3. line'[a].of # q
      BY <1>3, <2>2
    <2> QED BY <2>2, <2>3
  <1>6. \A q \in Requests, k \in Ilos : Untouched(q)' /\ line'[k].of = q => line'[k] = line[k]
    BY <1>5
  <1>7. /\ \A k \in Ilos : line[k].of # "none" => line'[k].of = line[k].of
        /\ \A k \in posted : line'[k].loaded = line[k].loaded
        /\ \A c \in Amendments : amendment[c].to # "none" => amendment'[c].to = amendment[c].to
    BY <1>1, <1>2
  <1> QED BY <1>1, <1>4, <1>6, <1>7, StockKeeps

(* ApplyAmendment: what was loaded onto the order, and onto the new one.   *)
LEMMA AppliedColumns ==
  ASSUME NEW f \in [Ilos -> Lines], NEW a \in Amendments, NEW l \in Ilos, a # l,
         NEW kind \in {"replace", "cancel", "extend", "batchcancel"}, NEW n \in Nat,
         NEW g, g = Applied(f, a, l, kind, n), f[l].st \notin {"none", "draft"}
  PROVE  /\ g[l].loaded = f[l].loaded
         /\ g[l].st \notin {"none", "draft"}
         /\ kind = "replace" => g[a].loaded = 0
  <1>0. a \in Ilos /\ f[l] \in Lines
    BY DEF Ilos
  <1>1. CASE kind = "replace"
    <2> DEFINE new == [f[l] EXCEPT !.qty = n, !.loaded = 0, !.amended = FALSE,
                                   !.active = TRUE, !.st = "open"]
               old == [f[l] EXCEPT !.active = FALSE, !.amended = TRUE]
    <2>1. new \in Lines /\ old \in Lines
      BY <1>0 DEF Lines
    <2>2. new.loaded = 0 /\ old.st = f[l].st /\ old.loaded = f[l].loaded
      BY <1>0 DEF Lines
    <2>3. g = [f EXCEPT ![l].active = FALSE, ![l].amended = TRUE, ![a] = new]
      BY <1>1 DEF Applied
    <2> HIDE DEF new
    <2>4. [f EXCEPT ![l].active = FALSE, ![l].amended = TRUE, ![a] = new]
            = [f EXCEPT ![l] = old, ![a] = new]
      BY <1>0 DEF old
    <2> HIDE DEF old
    <2>5. g[l] = old /\ g[a] = new
      BY <1>0, <2>3, <2>4
    <2> QED BY <1>1, <2>2, <2>5
  <1>2. CASE kind = "extend"
    <2> DEFINE new == [f[l] EXCEPT !.due = FALSE, !.amended = FALSE, !.st = "open"]
    <2>1. new.loaded = f[l].loaded /\ new.st = "open"
      BY <1>0 DEF Lines
    <2>2. g = [f EXCEPT ![l].due = FALSE, ![l].amended = FALSE, ![l].st = "open"]
      BY <1>2 DEF Applied
    <2>3. g = [f EXCEPT ![l] = new]
      BY <1>0, <2>2
    <2> HIDE DEF new
    <2> QED BY <1>2, <2>1, <2>3
  <1>3. CASE kind \in {"cancel", "batchcancel"}
    <2> DEFINE new == [f[l] EXCEPT !.st = "cancelled", !.active = FALSE, !.amended = TRUE]
    <2>1. new.loaded = f[l].loaded /\ new.st = "cancelled"
      BY <1>0 DEF Lines
    <2>2. g = [f EXCEPT ![l].st = "cancelled", ![l].active = FALSE, ![l].amended = TRUE]
      BY <1>3 DEF Applied
    <2>3. g = [f EXCEPT ![l] = new]
      BY <1>0, <2>2
    <2> HIDE DEF new
    <2> QED BY <1>3, <2>1, <2>3
  <1> QED BY <1>1, <1>2, <1>3

(* An amendment applied to its order, which may have been parked just now. *)
LEMMA AppliedStock ==
  ASSUME StockInv, IInv, IInv', NEW a \in Amendments, NEW l \in Ilos,
         NEW kind \in {"replace", "cancel", "extend", "batchcancel"}, NEW n \in Nat,
         amendment[a].at \in {"read", "running"}, amendment[a].to = l,
         NEW f \in [Ilos -> Lines],
         \A k \in Ilos : k # l => f[k] = line[k],
         f[l].of = line[l].of, f[l].st = line[l].st, f[l].loaded = line[l].loaded,
         line' = Applied(f, a, l, kind, n),
         amendment' = [amendment EXCEPT ![a] = [NoAmendment EXCEPT !.at = "done", !.to = l]],
         UNCHANGED <<status, posted, reserved, final>>
  PROVE  StockInv'
  <1>1. line[l].st \notin {"none", "draft"} /\ line[a].of = "none" /\ a \in Ilos
    BY DEF IInv, AmendmentsNameOrders, Ilos
  <1>2. a # l
    BY <1>1 DEF IInv, DraftsOfUndecided
  <1>3. /\ \A k \in Ilos : k # l /\ k # a => line'[k] = line[k]
        /\ kind # "replace" => line'[a] = line[a]
        /\ line'[l].of = line[l].of
        /\ kind = "replace" => line'[a].of = line[l].of /\ line'[a].st = "open"
    BY <1>1, <1>2, AppliedLines
  <1>4. /\ line'[l].loaded = line[l].loaded /\ line'[l].st \notin {"none", "draft"}
        /\ kind = "replace" => line'[a].loaded = 0
    BY <1>1, <1>2, AppliedColumns
  <1>5. amendment'[a].to = l /\ \A c \in Amendments : c # a => amendment'[c] = amendment[c]
    <2>1. amendment \in [Amendments ->
             [at : {"none", "read", "running", "failed", "done"}, to : Ilos \cup {"none"}, qty : Nat,
              kind : {"none", "replace", "cancel", "extend", "batchcancel"}]]
      BY RowsOf DEF IInv
    <2> DEFINE row == [NoAmendment EXCEPT !.at = "done", !.to = l]
    <2>2. row.to = l
      BY DEF NoAmendment
    <2> HIDE DEF row
    <2> QED BY <2>1, <2>2 DEF row
  <1> QED BY <1>1, <1>3, <1>4, <1>5, AmendStock

(* The steps of an amendment.                                              *)
LEMMA AmendmentStock ==
  ASSUME StockInv, IInv, IInv', NEW a \in Amendments,
         \/ \E l \in Ilos : ReadForAmend(a, l)
         \/ \E kind \in {"replace", "cancel", "extend", "batchcancel"},
               n \in NewQty \cup {0}, initiated \in BOOLEAN : Amend(a, kind, n, initiated)
         \/ ApproveAmendment(a)
         \/ \E total \in BOOLEAN : RejectAmendment(a, total)
  PROVE  StockInv'
  <1>0. /\ line \in [Ilos -> Lines] /\ line' \in [Ilos -> Lines]
        /\ amendment \in [Amendments ->
             [at : {"none", "read", "running", "failed", "done"}, to : Ilos \cup {"none"}, qty : Nat,
              kind : {"none", "replace", "cancel", "extend", "batchcancel"}]]
    BY RowsOf DEF IInv, TypeOK, RowTypes
  <1>1. ASSUME NEW l \in Ilos, ReadForAmend(a, l) PROVE StockInv'
    <2>1. /\ amendment[a].at = "none" /\ line[l].st \in {"open", "running", "inprogress"}
          /\ amendment' = [amendment EXCEPT ![a].at = "read", ![a].to = l]
          /\ UNCHANGED <<status, line, posted, reserved, final>>
      BY <1>1 DEF ReadForAmend, stock
    <2>2. amendment[a].to = "none" /\ line[a].of = "none"
      BY <2>1 DEF IInv, AmendmentsNameOrders
    <2>3. amendment'[a].to = l /\ \A c \in Amendments : c # a => amendment'[c] = amendment[c]
      <3> DEFINE row == [amendment[a] EXCEPT !.at = "read", !.to = l]
      <3>1. amendment' = [amendment EXCEPT ![a] = row] /\ row.to = l
        BY <1>0, <2>1
      <3> HIDE DEF row
      <3> QED BY <1>0, <3>1
    <2> QED BY <1>0, <2>1, <2>2, <2>3, AmendStock
  <1>2. ASSUME NEW kind \in {"replace", "cancel", "extend", "batchcancel"},
               NEW n \in NewQty \cup {0}, NEW initiated \in BOOLEAN, Amend(a, kind, n, initiated)
        PROVE  StockInv'
    <2> DEFINE l == amendment[a].to
               parked == [line EXCEPT ![l].amended = TRUE]
    <2>1. /\ amendment[a].at = "read"
          /\ kind \in Immediate => ~initiated
          /\ line' = IF kind \in Immediate THEN Applied(parked, a, l, kind, n) ELSE parked
          /\ amendment' = [amendment EXCEPT ![a] =
               IF initiated THEN [at |-> "running", to |-> l, kind |-> kind, qty |-> n]
               ELSE [NoAmendment EXCEPT !.to = l,
                                        !.at = IF kind \in Immediate THEN "done" ELSE "failed"]]
          /\ UNCHANGED <<status, posted, reserved, final>>
      BY <1>2 DEF Amend, stock
    <2>2. l \in Ilos /\ line[l].st \notin {"none", "draft"} /\ line[a].of = "none" /\ n \in Nat
      BY <2>1, OrdersAssumption DEF IInv, AmendmentsNameOrders, OrdersAssumption
    <2>3. /\ parked \in [Ilos -> Lines]
          /\ \A k \in Ilos : k # l => parked[k] = line[k]
          /\ parked[l].of = line[l].of /\ parked[l].st = line[l].st
          /\ parked[l].loaded = line[l].loaded
      <3> DEFINE new == [line[l] EXCEPT !.amended = TRUE]
      <3>1. parked = [line EXCEPT ![l] = new]
        OBVIOUS
      <3> HIDE DEF l, parked
      <3>2. line[l] \in Lines
        BY <1>0, <2>2
      <3>3. /\ new \in Lines /\ new.of = line[l].of /\ new.st = line[l].st
            /\ new.loaded = line[l].loaded
        BY <3>2 DEF Lines
      <3> HIDE DEF new
      <3>4. parked \in [Ilos -> Lines] /\ parked[l] = new
        BY <1>0, <2>2, <3>1, <3>3
      <3>5. \A k \in Ilos : k # l => parked[k] = line[k]
        BY <1>0, <3>1
      <3> QED BY <3>3, <3>4, <3>5
    <2>4. CASE kind \in Immediate
      <3> HIDE DEF parked
      <3>1. amendment' = [amendment EXCEPT ![a] = [NoAmendment EXCEPT !.at = "done", !.to = l]]
        BY <2>1, <2>4 DEF NoAmendment
      <3>2. line' = Applied(parked, a, l, kind, n) /\ amendment[a].to = l
        BY <2>1, <2>4
      <3>3. amendment[a].at \in {"read", "running"} /\ n \in Nat /\ l \in Ilos
        BY <2>1, <2>2
      <3>4. UNCHANGED <<status, posted, reserved, final>>
        BY <2>1
      <3> HIDE DEF l
      <3> QED BY <2>3, <3>1, <3>2, <3>3, <3>4, AppliedStock
    <2>5. CASE kind \notin Immediate
      <3>1. line' = parked
        BY <2>1, <2>5
      <3>2. amendment'[a].to = l /\ \A c \in Amendments : c # a => amendment'[c] = amendment[c]
        BY <1>0, <2>1, <2>5 DEF NoAmendment
      <3>3. amendment[a].to = l
        OBVIOUS
      <3>4. a \in Ilos /\ a # l
        BY <2>2 DEF Ilos, IInv, DraftsOfUndecided
      <3> HIDE DEF l, parked
      <3> QED BY <2>1, <2>2, <2>3, <3>1, <3>2, <3>3, <3>4, AmendStock
    <2> QED BY <2>4, <2>5
  <1>3. ASSUME ApproveAmendment(a) PROVE StockInv'
    <2> DEFINE l == amendment[a].to
               kind == amendment[a].kind
               n == amendment[a].qty
    <2>1. /\ amendment[a].at = "running"
          /\ amendment' = [amendment EXCEPT ![a] = [NoAmendment EXCEPT !.at = "done", !.to = l]]
          /\ line' = Applied(line, a, l, kind, n)
          /\ UNCHANGED <<status, posted, reserved, final>>
      BY <1>3 DEF ApproveAmendment, stock
    <2>2. l \in Ilos /\ kind \in {"replace", "cancel"} /\ n \in Nat
      BY <1>0, <2>1 DEF IInv, AmendmentsNameOrders
    <2> HIDE DEF kind, n
    <2> QED BY <1>0, <2>1, <2>2, AppliedStock
  <1>4. ASSUME NEW total \in BOOLEAN, RejectAmendment(a, total) PROVE StockInv'
    <2> DEFINE l == amendment[a].to
               b == line[l].st = "cancelled" /\ line[l].amended
    <2>1. /\ amendment[a].at = "running"
          /\ amendment' = IF total
               THEN [amendment EXCEPT ![a] = [NoAmendment EXCEPT !.at = "done", !.to = l]]
               ELSE amendment
          /\ line' = [line EXCEPT ![l].amended = IF line[l].st = "cancelled" THEN @ ELSE FALSE]
          /\ UNCHANGED <<status, posted, reserved, final>>
      BY <1>4 DEF RejectAmendment, stock
    <2>2. l \in Ilos /\ line[l].st \notin {"none", "draft"} /\ line[a].of = "none"
      BY <2>1 DEF IInv, AmendmentsNameOrders
    <2>3. b \in BOOLEAN /\ line' = [line EXCEPT ![l].amended = b]
      <3>1. line[l].amended \in BOOLEAN
        BY <1>0, <2>2 DEF Lines
      <3> QED BY <2>1, <3>1
    <2>4. /\ \A k \in Ilos : k # l => line'[k] = line[k]
          /\ line'[l].of = line[l].of /\ line'[l].st = line[l].st
      <3> HIDE DEF l, b
      <3> QED BY <1>0, <2>2, <2>3, SetAmended
    <2>5. line'[l].loaded = line[l].loaded
      <3> HIDE DEF b
      <3> QED BY <1>0, <2>2, <2>3 DEF Lines
    <2>6. amendment'[a].to = l /\ \A c \in Amendments : c # a => amendment'[c] = amendment[c]
      BY <1>0, <2>1 DEF NoAmendment
    <2>7. a \in Ilos /\ a # l /\ amendment[a].to = l
      BY <2>2 DEF Ilos, IInv, DraftsOfUndecided
    <2> HIDE DEF l, b
    <2> QED BY <2>1, <2>2, <2>4, <2>5, <2>6, <2>7, AmendStock
  <1> QED BY <1>1, <1>2, <1>3, <1>4

(* The steps of compartmentalizations and of the gantry that touch no      *)
(* delivery, the expiry job's selection, and a request's rejection.        *)
LEMMA GantryStock ==
  ASSUME StockInv, IInv, IInv', NEW l \in Ilos,
         \/ ReadForComp(l) \/ OpenComp(l) \/ SubmitComp(l) \/ RejectComp(l)
         \/ ApproveComp(l) \/ LoadTruck(l) \/ Lapse(l)
  PROVE  StockInv'
  <1>0. TypeOK /\ TypeOK' /\ DraftsOfUndecided
    BY DEF IInv
  <1>1. CASE UNCHANGED <<status, line, posted, reserved, final, amendment>>
    BY <1>0, <1>1, QuietStock
  <1>2. CASE ReadForComp(l) \/ SubmitComp(l) \/ RejectComp(l) \/ LoadTruck(l)
    <2>1. UNCHANGED <<status, line, posted, reserved, final, amendment>>
      BY <1>2 DEF ReadForComp, SubmitComp, RejectComp, LoadTruck, stock
    <2> QED BY <1>1, <2>1
  <1>3. CASE OpenComp(l)
    <2>1. /\ line[l].st \notin {"none", "draft"}
          /\ UNCHANGED <<status, posted, reserved, final, amendment>>
          /\ UNCHANGED line \/ line' = [line EXCEPT ![l].st = "running"]
      BY <1>0, <1>3 DEF OpenComp, stock, DraftsOfUndecided
    <2>2. CASE UNCHANGED line
      BY <1>1, <2>1, <2>2
    <2>3. CASE line' = [line EXCEPT ![l].st = "running"]
      <3>1. /\ UNCHANGED <<status, posted, reserved, final, amendment>>
            /\ line[l].st \notin {"none", "draft"}
            /\ "running" \in {"running", "inprogress"}
        BY <2>1
      <3> QED BY <2>3, <3>1, SendingStock
    <2> QED BY <2>1, <2>2, <2>3
  <1>4. CASE ApproveComp(l)
    <2>1. /\ line[l].st \notin {"none", "draft"}
          /\ UNCHANGED <<status, posted, reserved, final, amendment>>
          /\ line' = [line EXCEPT ![l].st = "inprogress"]
          /\ "inprogress" \in {"running", "inprogress"}
      BY <1>0, <1>4 DEF ApproveComp, stock, DraftsOfUndecided
    <2> QED BY <2>1, SendingStock
  <1>5. CASE Lapse(l)
    <2>1. /\ line' = [line EXCEPT ![l].due = TRUE]
          /\ UNCHANGED <<status, posted, reserved, final, amendment>>
      BY <1>5 DEF Lapse, stock
    <2>2. line \in [Ilos -> Lines]
      BY <1>0, RowsOf
    <2>3. \A k \in Ilos :
            /\ line'[k].of = line[k].of /\ line'[k].qty = line[k].qty
            /\ line'[k].loaded = line[k].loaded /\ line'[k].st = line[k].st
            /\ line'[k].active = line[k].active /\ line'[k].amended = line[k].amended
      BY <2>1, <2>2 DEF Lines
    <2>4. posted \subseteq Ilos /\ Trucks \subseteq Ilos
      BY <1>0 DEF TypeOK, FileTypes, Ilos
    <2>5. Columns'
      BY <2>1, <2>3, <2>4 DEF StockInv, Columns
    <2>6. \A k \in Ilos : Committed(line'[k]) <=> Committed(line[k])
      BY <2>3 DEF Committed
    <2> QED BY <1>0, <2>1, <2>3, <2>4, <2>5, <2>6, StockKeeps
  <1> QED BY <1>2, <1>3, <1>4, <1>5

(* The expiry job's selection, and a request's rejection.                  *)
LEMMA SelectionStock ==
  ASSUME StockInv, IInv, IInv', ExpireSelect \/ \E q \in Requests : RejectRequest(q)
  PROVE  StockInv'
  <1>0. TypeOK /\ TypeOK'
    BY DEF IInv
  <1>1. UNCHANGED <<line, posted, reserved, final, amendment>>
    BY DEF ExpireSelect, RejectRequest, stock
  <1>2. \A q \in Requests : status'[q] \in {"approved", "completed"} =>
          status[q] \in {"approved", "completed"}
    BY <1>0 DEF ExpireSelect, RejectRequest, TypeOK, RowTypes
  <1> QED BY <1>0, <1>1, <1>2, QuietStock

(* The approval of a request reserves what all its orders ask for, and     *)
(* leaves the other requests alone.                                        *)
LEMMA ApprovalStock ==
  ASSUME StockInv, IInv, IInv', NEW q \in Requests, ApproveRequest(q)
  PROVE  StockInv'
  <1>1. /\ TypeOK /\ TypeOK' /\ line \in [Ilos -> Lines] /\ posted \subseteq Ilos
        /\ \A t \in Trucks : t \in Ilos
    BY RowsOf DEF IInv, TypeOK, FileTypes, Ilos
  <1>2. /\ status[q] = "submitted"
        /\ status' = [status EXCEPT ![q] = "approved"]
        /\ reserved' = [reserved EXCEPT ![q] = Asked(q)]
        /\ line' = [l \in Ilos |-> IF line[l].of = q THEN [line[l] EXCEPT !.st = "open"] ELSE line[l]]
        /\ UNCHANGED <<amendment, posted, final>>
    BY DEF ApproveRequest
  <1>3. /\ \A l \in Ilos : line[l].of # q => line'[l] = line[l]
        /\ \A l \in Ilos : /\ line'[l].of = line[l].of /\ line'[l].qty = line[l].qty
                           /\ line'[l].loaded = line[l].loaded
                           /\ line'[l].active = line[l].active
                           /\ line'[l].amended = line[l].amended
        /\ \A l \in Ilos : line[l].of = q => line'[l].st = "open"
    <2> SUFFICES ASSUME NEW l \in Ilos
        PROVE  /\ line[l].of # q => line'[l] = line[l]
               /\ /\ line'[l].of = line[l].of /\ line'[l].qty = line[l].qty
                  /\ line'[l].loaded = line[l].loaded
                  /\ line'[l].active = line[l].active
                  /\ line'[l].amended = line[l].amended
               /\ line[l].of = q => line'[l].st = "open"
      OBVIOUS
    <2>1. line[l] \in Lines
      BY <1>1
    <2>2. line'[l] = IF line[l].of = q THEN [line[l] EXCEPT !.st = "open"] ELSE line[l]
      BY <1>2
    <2> QED BY <2>1, <2>2 DEF Lines
  <1>4. \A l \in Ilos : line[l].of = q => line[l].st = "draft" /\ l \notin posted
    <2>1. q # "none"
      BY OrdersAssumption DEF OrdersAssumption
    <2> QED BY <1>2, <2>1 DEF IInv, DraftsOfUndecided, StockInv, Columns
  <1>5. Asked(q) \in Nat /\ Asked(q) = Total(AskedOf(line), LinesOf(line, q))
    <2>1. Asked(q) = AskedSum(line, LinesOf(line, q))
      BY DEF Asked, AskedSum
    <2>2. LinesOf(line, q) \in SUBSET Ilos
      BY DEF LinesOf
    <2>3. \A l \in LinesOf(line, q) : AskedOf(line)[l] \in Nat
      BY <1>1, <2>2 DEF AskedOf, Lines
    <2> QED BY <2>1, <2>2, <2>3, AskedTotal, IlosFinite, TotalNat
  <1>6. /\ reserved' \in [Requests -> Nat] /\ reserved'[q] = Asked(q)
        /\ \A r \in Requests : r # q => reserved'[r] = reserved[r] /\ status'[r] = status[r]
    <2>1. reserved \in [Requests -> Nat] /\ DOMAIN status = Requests
      BY <1>1 DEF StockInv, TypeOK, RowTypes
    <2> HIDE DEF Asked
    <2> QED BY <1>2, <1>5, <2>1
  <1>7. Columns'
    BY <1>1, <1>2, <1>3, <1>4 DEF StockInv, Columns
  <1>8. Drawn'
    <2>1. \A l \in posted : LoadedOf(line')[l] = LoadedOf(line)[l]
      BY <1>1, <1>3 DEF LoadedOf
    <2>2. Total(LoadedOf(line'), posted) = Total(LoadedOf(line), posted)
      BY <1>1, <2>1, IlosFinite, TotalAgree
    <2> QED BY <1>2, <2>2 DEF StockInv, Drawn
  <1>9. ASSUME NEW r \in Requests
        PROVE  LinesOf(line', r) = LinesOf(line, r)
    BY <1>3 DEF LinesOf
  <1>10. ASSUME NEW r \in Requests, r # q PROVE Covering(r)' /\ Releasing(r)'
    <2>1. \A l \in LinesOf(line, r) : l \in Ilos /\ line'[l] = line[l]
      BY <1>3, <1>10 DEF LinesOf
    <2>2. StillCommitted(line', r) = StillCommitted(line, r)
      BY <1>9, <2>1 DEF StillCommitted
    <2>3. Due(line', posted', r) = Due(line, posted, r)
      BY <1>2, <2>2 DEF Due
    <2>4. Overdrawn(r)' <=> Overdrawn(r)
      BY <1>2, <1>9, <2>1 DEF Overdrawn
    <2>5. Untouched(r)' <=> Untouched(r)
      BY <1>2, <1>9 DEF Untouched
    <2>6. Total(AskedOf(line'), Due(line, posted, r)) = Total(AskedOf(line), Due(line, posted, r))
      <3>1. \A l \in Due(line, posted, r) : AskedOf(line')[l] = AskedOf(line)[l]
        BY <1>3, DueParts DEF AskedOf
      <3> QED BY <3>1, DueParts, IlosFinite, TotalAgree
    <2>7. Covering(r) /\ Releasing(r)
      BY DEF StockInv
    <2>8. Covering(r)'
      BY <1>6, <1>10, <2>3, <2>4, <2>5, <2>6, <2>7 DEF Covering
    <2>9. Releasing(r)'
      BY <1>6, <1>10, <2>2, <2>5, <2>7 DEF Releasing
    <2> QED BY <2>8, <2>9
  <1>11. Covering(q)'
    <2> SUFFICES Total(AskedOf(line'), Due(line', posted', q)) <= reserved'[q]
      BY DEF Covering
    <2> DEFINE S == LinesOf(line, q)
               D == Due(line', posted', q)
    <2>1. S \in SUBSET Ilos /\ D \in SUBSET S
      BY <1>9, DueParts DEF Due
    <2>2. \A l \in S : AskedOf(line)[l] \in Nat /\ AskedOf(line')[l] = AskedOf(line)[l]
      BY <1>1, <1>3, <2>1 DEF AskedOf, Lines
    <2>3. reserved'[q] = Total(AskedOf(line), S)
      BY <1>5, <1>6
    <2> HIDE DEF S, D
    <2>4. IsFiniteSet(S) /\ IsFiniteSet(D)
      BY <2>1, IlosFinite
    <2>5. Total(AskedOf(line'), D) = Total(AskedOf(line), D)
      BY <2>1, <2>2, <2>4, TotalAgree
    <2>6. Total(AskedOf(line), D) <= Total(AskedOf(line), S)
      BY <2>1, <2>2, <2>4, TotalPart
    <2> QED BY <2>3, <2>5, <2>6 DEF D
  <1>12. Releasing(q)'
    <2> SUFFICES ASSUME Untouched(q)' PROVE StillCommitted(line', q) # {}
      BY DEF Releasing
    <2>1. PICK t \in Trucks : Of[t] = q
      BY OrdersAssumption DEF OrdersAssumption
    <2>2. t \in Ilos /\ line[t].of = q
      BY <1>1, <2>1 DEF StockInv, Columns
    <2>3. line[t].active
      BY <1>4, <2>2 DEF StockInv, Columns
    <2>4. ~line[t].amended
      <3>1. \A a \in Amendments : amendment[a].to # t
        BY <1>2, <1>9, <2>2 DEF Untouched, LinesOf
      <3> QED BY <2>2, <3>1 DEF IInv, MarkedByAmendment
    <2>5. t \in StillCommitted(line', q)
      BY <1>3, <2>2, <2>3, <2>4 DEF StillCommitted, LinesOf, Committed
    <2> QED BY <2>5
  <1> QED BY <1>6, <1>7, <1>8, <1>10, <1>11, <1>12 DEF StockInv

(* A loading posted: its quantity leaves the stock, its order is no longer *)
(* owed, and with the request's last order the reservation goes.           *)
LEMMA CompletionStock ==
  ASSUME StockInv, IInv, NEW l \in Ilos, NEW n \in Measured, CompleteLoadingLine(l, n),
         UNCHANGED amendment
  PROVE  StockInv'
  <1>1. /\ TypeOK /\ line \in [Ilos -> Lines] /\ posted \in SUBSET Ilos
        /\ \A t \in Trucks : t \in Ilos
        /\ n \in Nat
    BY RowsOf, OrdersAssumption DEF IInv, TypeOK, FileTypes, Ilos, OrdersAssumption
  <1>5. l \notin posted /\ line[l].st \in {"open", "running", "inprogress"}
    BY DEF CompleteLoadingLine, CanComplete
  <1>6. PICK q \in Requests : line[l].of = q /\ status[q] \in {"approved", "completed"}
    <2>1. line[l].of \in Requests \cup {"none"}
      BY <1>1 DEF Lines
    <2> QED BY <1>1, <1>5, <2>1 DEF IInv, DraftsOfUndecided, TypeOK, RowTypes
  <1> DEFINE last == StillCommitted(line', q) = {}
  <1>2. /\ line' = [line EXCEPT ![l].loaded = n, ![l].st = "loaded"]
        /\ posted' = posted \cup {l}
        /\ final' = final - n
        /\ reserved' = [reserved EXCEPT ![q] = IF last THEN 0 ELSE @]
        /\ status' = [status EXCEPT ![q] = IF last THEN "completed" ELSE @]
    BY <1>6 DEF CompleteLoadingLine
  <1> HIDE DEF last
  <1>3. /\ line'[l] = [line[l] EXCEPT !.loaded = n, !.st = "loaded"]
        /\ \A k \in Ilos : k # l => line'[k] = line[k]
    BY <1>1, <1>2, SetLoaded, ZenonT(30)
  <1>4. /\ line'[l].loaded = n /\ line'[l].st = "loaded"
        /\ \A k \in Ilos : line'[k].of = line[k].of /\ line'[k].qty = line[k].qty
    <2>1. line[l] \in Lines
      BY <1>1
    <2>2. /\ line'[l].loaded = n /\ line'[l].st = "loaded"
          /\ line'[l].of = line[l].of /\ line'[l].qty = line[l].qty
      BY <1>3, <2>1 DEF Lines
    <2> QED BY <1>3, <2>2
  <1>7. /\ reserved' \in [Requests -> Nat]
        /\ reserved'[q] = IF last THEN 0 ELSE reserved[q]
        /\ \A r \in Requests : r # q => reserved'[r] = reserved[r] /\ status'[r] = status[r]
    <2>1. reserved \in [Requests -> Nat] /\ DOMAIN status = Requests
      BY <1>1 DEF StockInv, TypeOK, RowTypes
    <2> QED BY <1>2, <1>6, <2>1
  <1>8. Columns'
    <2>1. \A k \in Ilos : line'[k].st = "draft" => k # l
      BY <1>4
    <2> QED BY <1>1, <1>2, <1>3, <1>4, <2>1 DEF StockInv, Columns
  <1>9. Drawn'
    <2>1. IsFiniteSet(posted) /\ IsFiniteSet({l}) /\ posted \cap {l} = {}
      BY <1>1, <1>5, IlosFinite, FS_Singleton
    <2>2. \A k \in posted : LoadedOf(line')[k] = LoadedOf(line)[k] /\ LoadedOf(line)[k] \in Int
      BY <1>1, <1>3, <1>5 DEF LoadedOf, Lines
    <2>3. LoadedOf(line')[l] = n /\ n \in Int
      BY <1>1, <1>4 DEF LoadedOf
    <2>4. Total(LoadedOf(line'), posted) = Total(LoadedOf(line), posted)
      BY <2>1, <2>2, TotalAgree
    <2>5. Total(LoadedOf(line'), {l}) = n
      <3> DEFINE f == LoadedOf(line')
      <3>1. f[l] = n /\ f[l] \in Int
        BY <2>3
      <3> HIDE DEF f
      <3>2. Total(f, {l}) = f[l]
        BY <3>1, TotalSingleton
      <3> QED BY <3>1, <3>2 DEF f
    <2>6. \A k \in posted \cup {l} : LoadedOf(line')[k] \in Int
      BY <1>1, <2>2, <2>3
    <2>7. Total(LoadedOf(line'), posted \cup {l}) = Total(LoadedOf(line'), posted) + Total(LoadedOf(line'), {l})
      BY <2>1, <2>6, TotalUnion
    <2>8. Total(LoadedOf(line), posted) \in Int
      BY <2>1, <2>2, TotalInt
    <2>9. final \in Int /\ final = Opening - Total(LoadedOf(line), posted) /\ Opening \in Int
      BY OrdersAssumption DEF StockInv, Drawn, OrdersAssumption
    <2> QED BY <1>1, <1>2, <2>4, <2>5, <2>7, <2>8, <2>9 DEF Drawn
  <1>10. ASSUME NEW r \in Requests
         PROVE  /\ LinesOf(line', r) = LinesOf(line, r)
                /\ Untouched(r)' <=> Untouched(r)
    <2>1. LinesOf(line', r) = LinesOf(line, r)
      BY <1>4 DEF LinesOf
    <2> QED BY <2>1 DEF Untouched
  <1>11. ASSUME NEW r \in Requests
         PROVE  /\ StillCommitted(line', r) = StillCommitted(line, r) \ {l}
                /\ Due(line', posted', r) = Due(line, posted, r) \ {l}
                /\ Overdrawn(r) => Overdrawn(r)'
    <2>1. \A k \in Ilos : Committed(line'[k]) <=> k # l /\ Committed(line[k])
      BY <1>3, <1>4 DEF Committed
    <2>2. \A k \in LinesOf(line, r) : k \in Ilos
      BY DEF LinesOf
    <2>3. StillCommitted(line', r) = StillCommitted(line, r) \ {l}
      BY <1>10, <2>1, <2>2 DEF StillCommitted
    <2>4. Due(line', posted', r) = Due(line, posted, r) \ {l}
      BY <1>2, <2>3 DEF Due
    <2>5. Overdrawn(r) => Overdrawn(r)'
      BY <1>2, <1>3, <1>5, <1>10, <2>2 DEF Overdrawn
    <2> QED BY <2>3, <2>4, <2>5
  <1>12. ASSUME NEW r \in Requests
         PROVE  Total(AskedOf(line'), Due(line', posted', r)) <= Total(AskedOf(line), Due(line, posted, r))
    <2> DEFINE D == Due(line, posted, r)
    <2>1. D \in SUBSET Ilos /\ D \ {l} \in SUBSET D
      BY DueParts
    <2>2. \A k \in D : AskedOf(line)[k] \in Nat /\ AskedOf(line')[k] = AskedOf(line)[k]
      BY <1>1, <1>4, <2>1 DEF AskedOf, Lines
    <2> HIDE DEF D
    <2>3. IsFiniteSet(D) /\ IsFiniteSet(D \ {l})
      BY <2>1, IlosFinite
    <2>4. Total(AskedOf(line'), D \ {l}) = Total(AskedOf(line), D \ {l})
      BY <2>2, <2>3, TotalAgree
    <2>5. Total(AskedOf(line), D \ {l}) <= Total(AskedOf(line), D)
      BY <2>1, <2>2, <2>3, TotalPart
    <2> QED BY <1>11, <2>4, <2>5 DEF D
  <1>13. ASSUME NEW r \in Requests, r # q PROVE Covering(r)' /\ Releasing(r)'
    <2>1. l \notin StillCommitted(line, r) /\ l \notin Due(line, posted, r)
      BY <1>6, <1>13 DEF StillCommitted, LinesOf, Due
    <2>2. StillCommitted(line', r) = StillCommitted(line, r)
      BY <1>11, <2>1
    <2>3. Due(line', posted', r) = Due(line, posted, r)
      BY <1>11, <2>1
    <2>4. Covering(r) /\ Releasing(r)
      BY DEF StockInv
    <2>5. Total(AskedOf(line'), Due(line, posted, r)) = Total(AskedOf(line), Due(line, posted, r))
      <3>1. \A k \in Due(line, posted, r) : AskedOf(line')[k] = AskedOf(line)[k]
        BY <1>4, DueParts DEF AskedOf
      <3> QED BY <3>1, DueParts, IlosFinite, TotalAgree
    <2>6. Covering(r)'
      BY <1>7, <1>10, <1>11, <1>13, <2>3, <2>4, <2>5 DEF Covering
    <2>7. Releasing(r)'
      BY <1>7, <1>10, <1>13, <2>2, <2>4 DEF Releasing
    <2> QED BY <2>6, <2>7
  <1>14. Covering(q)'
    <2> SUFFICES ASSUME Untouched(q)', ~Overdrawn(q)'
        PROVE  Total(AskedOf(line'), Due(line', posted', q)) <= reserved'[q]
      BY DEF Covering
    <2>1. CASE last
      <3>1. Due(line', posted', q) = {}
        BY <2>1 DEF last, Due
      <3> QED BY <1>7, <2>1, <3>1, TotalEmpty
    <2>2. CASE ~last
      <3>1. Total(AskedOf(line), Due(line, posted, q)) <= reserved[q]
        BY <1>6, <1>10, <1>11 DEF StockInv, Covering
      <3> DEFINE D == Due(line, posted, q)
      <3>2. /\ D \in SUBSET Ilos
            /\ \A k \in D : AskedOf(line)[k] \in Nat /\ AskedOf(line')[k] \in Nat
        BY <1>1, <1>4, DueParts DEF AskedOf, Lines
      <3>3. D \ {l} \in SUBSET Ilos /\ Due(line', posted', q) = D \ {l}
        BY <1>6, <1>11, <3>2
      <3> HIDE DEF D
      <3>4. Total(AskedOf(line), D) \in Nat /\ Total(AskedOf(line'), D \ {l}) \in Nat
        BY <3>2, <3>3, IlosFinite, TotalNat
      <3>5. Total(AskedOf(line'), D \ {l}) <= Total(AskedOf(line), D)
        BY <1>6, <1>12, <3>3 DEF D
      <3>6. reserved[q] \in Nat /\ reserved'[q] = reserved[q]
        BY <1>6, <1>7, <2>2 DEF StockInv
      <3> QED BY <3>1, <3>3, <3>4, <3>5, <3>6 DEF D
    <2> QED BY <2>1, <2>2
  <1>15. Releasing(q)'
    BY <1>7 DEF Releasing, last
  <1> QED BY <1>7, <1>8, <1>9, <1>13, <1>14, <1>15 DEF StockInv

(* The expiry job: what it closes is not owed, and a reservation it        *)
(* computes anew is what the remaining orders need.                        *)
LEMMA ExpiryStock ==
  ASSUME StockInv, IInv, ExpireWrite
  PROVE  StockInv'
  <1>1. /\ TypeOK /\ line \in [Ilos -> Lines] /\ posted \in SUBSET Ilos
        /\ expiring \in SUBSET Ilos /\ \A t \in Trucks : t \in Ilos
    BY RowsOf DEF IInv, TypeOK, FileTypes, Ilos
  <1>2. /\ line' = [k \in Ilos |-> IF k \in expiring
                                  THEN [line[k] EXCEPT !.st = "expired", !.active = FALSE]
                                  ELSE line[k]]
        /\ reserved' = [q \in Requests |->
             IF reserved[q] > 0 /\ \E l \in expiring : line[l].of = q
             THEN IF Remaining(line', q) > 0 THEN Remaining(line', q) ELSE 0
             ELSE reserved[q]]
        /\ UNCHANGED <<status, amendment, posted, final>>
    BY DEF ExpireWrite, Expire
  <1>3. \A k \in Ilos :
          /\ line'[k].of = line[k].of /\ line'[k].qty = line[k].qty
          /\ line'[k].loaded = line[k].loaded
          /\ k \in expiring => line'[k].st = "expired"
          /\ k \notin expiring => line'[k] = line[k]
    <2> TAKE k \in Ilos
    <2>1. CASE k \in expiring
      BY <1>1, <1>2, <2>1 DEF Lines
    <2>2. CASE k \notin expiring
      BY <1>2, <2>2
    <2> QED BY <2>1, <2>2
  <1>4. Columns'
    <2>1. \A k \in posted : line'[k].st \notin {"none", "draft"}
      BY <1>1, <1>3 DEF StockInv, Columns
    <2>2. \A k \in Ilos : line'[k].st = "draft" => k \notin expiring /\ line[k].st = "draft"
      BY <1>3
    <2>3. \A k \in Ilos : k \notin posted => line'[k].loaded = 0
      BY <1>3 DEF StockInv, Columns
    <2>4. \A k \in Ilos : line'[k].st = "draft" => line'[k].active
      BY <1>3, <2>2 DEF StockInv, Columns
    <2>5. \A k \in Trucks : line'[k].of = Of[k]
      BY <1>1, <1>3 DEF StockInv, Columns
    <2> QED BY <1>2, <2>1, <2>3, <2>4, <2>5 DEF Columns
  <1>5. Drawn'
    <2>1. \A l \in posted : LoadedOf(line')[l] = LoadedOf(line)[l]
      BY <1>1, <1>3 DEF LoadedOf
    <2>2. Total(LoadedOf(line'), posted) = Total(LoadedOf(line), posted)
      BY <1>1, <2>1, IlosFinite, TotalAgree
    <2> QED BY <1>2, <2>2 DEF StockInv, Drawn
  <1>6. ASSUME NEW q \in Requests
        PROVE  /\ Remaining(line', q) \in Int
               /\ Remaining(line', q) = Total(OpenOf(line'), StillCommitted(line', q))
    <2>1. Remaining(line', q) = OpenSum(line', StillCommitted(line', q))
      BY DEF Remaining, OpenSum
    <2>2. StillCommitted(line', q) \in SUBSET Ilos
      BY DueParts
    <2>3. \A k \in StillCommitted(line', q) : OpenOf(line')[k] \in Int
      BY <1>1, <1>3, <2>2 DEF OpenOf, Lines
    <2> QED BY <2>1, <2>2, <2>3, OpenTotal, IlosFinite, TotalInt
  <1> HIDE DEF Remaining
  <1>7. /\ reserved \in [Requests -> Nat]
        /\ reserved' \in [Requests -> Nat]
    <2>1. reserved \in [Requests -> Nat]
      BY DEF StockInv
    <2>2. ASSUME NEW q \in Requests
          PROVE  (IF reserved[q] > 0 /\ \E l \in expiring : line[l].of = q
                  THEN IF Remaining(line', q) > 0 THEN Remaining(line', q) ELSE 0
                  ELSE reserved[q]) \in Nat
      BY <1>6, <2>1
    <2> QED BY <1>2, <2>1, <2>2
  <1>8. ASSUME NEW q \in Requests
        PROVE  /\ LinesOf(line', q) = LinesOf(line, q)
               /\ Untouched(q)' <=> Untouched(q)
               /\ StillCommitted(line', q) = StillCommitted(line, q) \ expiring
               /\ Due(line', posted', q) \in SUBSET Due(line, posted, q)
               /\ Overdrawn(q) => Overdrawn(q)'
    <2>1. LinesOf(line', q) = LinesOf(line, q)
      BY <1>3 DEF LinesOf
    <2>2. Untouched(q)' <=> Untouched(q)
      BY <1>2, <2>1 DEF Untouched
    <2>3. \A k \in LinesOf(line, q) : k \in Ilos
      BY DEF LinesOf
    <2>4. StillCommitted(line', q) = StillCommitted(line, q) \ expiring
      BY <1>3, <2>1, <2>3 DEF StillCommitted, Committed
    <2>5. Overdrawn(q) => Overdrawn(q)'
      <3>1. \A k \in Ilos : line'[k].st # line[k].st => line'[k].st # "loaded"
        BY <1>3
      <3> QED BY <1>2, <1>3, <2>1, <2>3, <3>1 DEF Overdrawn
    <2> QED BY <1>2, <2>1, <2>2, <2>4, <2>5 DEF Due
  <1>9. ASSUME NEW q \in Requests PROVE Covering(q)'
    <2> SUFFICES ASSUME Untouched(q)', status[q] \in {"approved", "completed"}, ~Overdrawn(q)'
        PROVE  Total(AskedOf(line'), Due(line', posted', q)) <= reserved'[q]
      BY <1>2 DEF Covering
    <2> DEFINE D == Due(line', posted', q)
               C == StillCommitted(line', q)
    <2>1. /\ C \in SUBSET Ilos /\ D \in SUBSET Ilos /\ D = C \ posted
          /\ \A k \in C : k \in LinesOf(line', q) /\ Committed(line'[k])
      BY <1>2, DueParts DEF Due, StillCommitted
    <2>2. \A k \in Ilos : line'[k].qty \in Nat /\ line'[k].loaded \in Nat
      BY <1>1, <1>3 DEF Lines
    <2>3. CASE reserved[q] > 0 /\ \E l \in expiring : line[l].of = q
      <3> DEFINE need == [k \in Ilos |-> IF k \in posted THEN 0 ELSE line'[k].qty]
      <3>1. \A k \in C : need[k] \in Int /\ OpenOf(line')[k] \in Int /\ need[k] <= OpenOf(line')[k]
        <4> SUFFICES ASSUME NEW k \in C
            PROVE  need[k] \in Int /\ OpenOf(line')[k] \in Int /\ need[k] <= OpenOf(line')[k]
          OBVIOUS
        <4>1. k \in Ilos /\ OpenOf(line')[k] = line'[k].qty - line'[k].loaded
          BY <2>1 DEF OpenOf
        <4>2. CASE k \in posted
          <5>1. line'[k].st # "loaded"
            BY <2>1 DEF Committed
          <5>2. ~(line'[k].loaded > line'[k].qty)
            BY <1>2, <2>1, <4>2, <5>1 DEF Overdrawn
          <5> QED BY <2>2, <4>1, <4>2, <5>2
        <4>3. CASE k \notin posted
          <5>1. line'[k].loaded = 0
            BY <1>3, <4>1, <4>3 DEF StockInv, Columns
          <5> QED BY <2>2, <4>1, <4>3, <5>1
        <4> QED BY <4>2, <4>3
      <3>2. /\ \A k \in D : need[k] = AskedOf(line')[k] /\ need[k] \in Int
            /\ \A k \in C \ D : need[k] = 0
        BY <2>1, <2>2 DEF AskedOf
      <3> HIDE DEF need
      <3>3. reserved'[q] >= Total(OpenOf(line'), C) /\ Total(OpenOf(line'), C) \in Int
        <4>1. reserved'[q] = IF Remaining(line', q) > 0 THEN Remaining(line', q) ELSE 0
          BY <1>2, <2>3
        <4> QED BY <1>6, <4>1
      <3> HIDE DEF D, C
      <3>4. /\ IsFiniteSet(C) /\ IsFiniteSet(D) /\ IsFiniteSet(C \ D)
            /\ C = D \cup (C \ D) /\ D \cap (C \ D) = {}
        BY <2>1, IlosFinite
      <3>5. Total(need, C) <= Total(OpenOf(line'), C)
        BY <3>1, <3>4, TotalMonotonic
      <3>6. Total(need, C) = Total(need, D) + Total(need, C \ D)
        <4> DEFINE R == C \ D
        <4>1. /\ IsFiniteSet(R) /\ C = D \cup R /\ D \cap R = {}
              /\ \A k \in D \cup R : need[k] \in Int
          BY <3>1, <3>4
        <4> HIDE DEF R
        <4>2. Total(need, D \cup R) = Total(need, D) + Total(need, R)
          BY <3>4, <4>1, TotalUnion
        <4> QED BY <4>1, <4>2 DEF R
      <3>7. Total(need, C \ D) = 0
        BY <3>2, <3>4, TotalZero
      <3>8. Total(need, D) = Total(AskedOf(line'), D)
        BY <3>2, <3>4, TotalAgree
      <3>9. Total(need, D) \in Int
        BY <3>2, <3>4, TotalInt
      <3>10. reserved'[q] \in Nat
        BY <1>7
      <3> QED BY <3>3, <3>5, <3>6, <3>7, <3>8, <3>9, <3>10 DEF D
    <2>4. CASE ~(reserved[q] > 0 /\ \E l \in expiring : line[l].of = q)
      <3>1. reserved'[q] = reserved[q] /\ reserved[q] \in Nat
        BY <1>2, <1>7, <2>4
      <3> DEFINE B == Due(line, posted, q)
      <3>2. Total(AskedOf(line), B) <= reserved[q]
        BY <1>8 DEF StockInv, Covering
      <3>3. B \in SUBSET Ilos /\ D \in SUBSET B
        BY <1>8, DueParts
      <3>4. \A k \in B : AskedOf(line)[k] \in Nat /\ AskedOf(line')[k] = AskedOf(line)[k]
        BY <1>1, <1>3, <3>3 DEF AskedOf, Lines
      <3> HIDE DEF B, D
      <3>5. IsFiniteSet(B) /\ IsFiniteSet(D)
        BY <2>1, <3>3, IlosFinite
      <3>6. Total(AskedOf(line'), D) = Total(AskedOf(line), D)
        BY <3>3, <3>4, <3>5, TotalAgree
      <3>7. Total(AskedOf(line), D) <= Total(AskedOf(line), B)
        BY <3>3, <3>4, <3>5, TotalPart
      <3>8. Total(AskedOf(line), D) \in Nat /\ Total(AskedOf(line), B) \in Nat
        BY <3>3, <3>4, <3>5, TotalNat
      <3> QED BY <3>1, <3>2, <3>6, <3>7, <3>8 DEF D
    <2> QED BY <2>3, <2>4
  <1>10. ASSUME NEW q \in Requests PROVE Releasing(q)'
    <2> SUFFICES ASSUME Untouched(q)', StillCommitted(line', q) = {} PROVE reserved'[q] = 0
      BY DEF Releasing
    <2>1. CASE reserved[q] > 0 /\ \E l \in expiring : line[l].of = q
      <3>1. Remaining(line', q) = 0
        BY <1>6, TotalEmpty
      <3> QED BY <1>2, <2>1, <3>1
    <2>2. CASE ~(reserved[q] > 0)
      <3>1. reserved'[q] = reserved[q] /\ reserved[q] \in Nat
        BY <1>2, <1>7, <2>2
      <3> QED BY <2>2, <3>1
    <2>3. CASE ~\E l \in expiring : line[l].of = q
      <3>1. StillCommitted(line, q) = {}
        BY <1>8, <2>3 DEF StillCommitted, LinesOf
      <3>2. reserved[q] = 0
        BY <1>8, <3>1 DEF StockInv, Releasing
      <3> QED BY <1>2, <2>3, <3>2
    <2> QED BY <2>1, <2>2, <2>3
  <1> QED BY <1>4, <1>5, <1>7, <1>9, <1>10 DEF StockInv

(* Every step, action by action.                                           *)
LEMMA NextStock == IInv /\ IInv' /\ StockInv /\ [Next]_vars => StockInv'
  <1> SUFFICES ASSUME IInv, IInv', StockInv, [Next]_vars PROVE StockInv'
    OBVIOUS
  <1>1. ASSUME NEW q \in Requests, ApproveRequest(q) PROVE StockInv'
    BY <1>1, ApprovalStock
  <1>2. ASSUME ExpireSelect \/ \E q \in Requests : RejectRequest(q) PROVE StockInv'
    BY <1>2, SelectionStock
  <1>3. ASSUME NEW l \in Ilos,
               \/ ReadForComp(l) \/ OpenComp(l) \/ SubmitComp(l) \/ RejectComp(l)
               \/ ApproveComp(l) \/ LoadTruck(l) \/ Lapse(l)
        PROVE  StockInv'
    BY <1>3, GantryStock
  <1>4. ASSUME UNCHANGED <<status, line, stock, amendment>> PROVE StockInv'
    BY <1>4, QuietStock DEF IInv, stock
  <1>5. ASSUME NEW l \in Ilos, NEW n \in Measured, CompleteManually(l, n) PROVE StockInv'
    BY <1>5, CompletionStock DEF CompleteManually
  <1>6. ASSUME NEW n \in Measured, BookResult(n) PROVE StockInv'
    <2>1. inbound \in Ilos /\ UNCHANGED amendment
      BY <1>6 DEF BookResult, IInv, TypeOK, FileTypes
    <2>2. CompleteLoadingLine(inbound, n) \/ UNCHANGED <<status, line, stock>>
      BY <1>6 DEF BookResult
    <2>3. CASE CompleteLoadingLine(inbound, n)
      BY <2>1, <2>3, CompletionStock
    <2>4. CASE UNCHANGED <<status, line, stock>>
      BY <1>4, <2>1, <2>4
    <2> QED BY <2>2, <2>3, <2>4
  <1>10. ASSUME NEW l \in Ilos, ReadResult(l) PROVE StockInv'
    BY <1>4, <1>10 DEF ReadResult
  <1>7. ASSUME NEW a \in Amendments,
               \/ \E l \in Ilos : ReadForAmend(a, l)
               \/ \E kind \in {"replace", "cancel", "extend", "batchcancel"},
                     n \in NewQty \cup {0}, initiated \in BOOLEAN : Amend(a, kind, n, initiated)
               \/ ApproveAmendment(a)
               \/ \E total \in BOOLEAN : RejectAmendment(a, total)
        PROVE  StockInv'
    BY <1>7, AmendmentStock
  <1>8. ASSUME ExpireWrite PROVE StockInv'
    BY <1>8, ExpiryStock
  <1>9. ASSUME UNCHANGED vars PROVE StockInv'
    BY <1>4, <1>9 DEF vars
  <1> QED BY <1>1, <1>2, <1>3, <1>5, <1>6, <1>7, <1>8, <1>9, <1>10 DEF Next

(* The invariant of the sums holds for any requests, orders and            *)
(* quantities.                                                             *)
THEOREM ReservationsKept == Spec => []StockInv
  <1>1. Init => StockInv
    BY InitStock
  <1>2. IInv /\ IInv' /\ StockInv /\ [Next]_vars => StockInv'
    BY NextStock
  <1> QED BY <1>1, <1>2, OrdersInvariant, PTL DEF Spec

(* Whoever reports a loading, and however often its order was sent, the    *)
(* customer's stock falls by each loaded quantity once.                    *)
THEOREM DeliveriesAlwaysExplainStock == Spec => []DeliveriesExplainStock
  <1>1. IInv /\ StockInv => DeliveriesExplainStock
    <2> SUFFICES ASSUME IInv, StockInv PROVE DeliveriesExplainStock
      OBVIOUS
    <2>1. posted \in SUBSET Ilos
      BY DEF IInv, TypeOK, FileTypes
    <2>2. LoadedSum(line, posted) = Total(LoadedOf(line), posted)
      BY <2>1, LoadedTotal
    <2> QED BY <2>2 DEF StockInv, Drawn, DeliveriesExplainStock, LoadedSum
  <1> QED BY <1>1, OrdersInvariant, ReservationsKept, PTL

(* Completions, expiries and other requests' amendments never take the     *)
(* stock a request still owes its trucks, unless a surplus was counted.    *)
THEOREM OwedAlwaysReserved == Spec => []OwedStaysReserved
  <1>1. StockInv => OwedStaysReserved
    <2> SUFFICES ASSUME StockInv, NEW q \in Requests, Untouched(q),
                        status[q] \in {"approved", "completed"}, ~Overdrawn(q)
                 PROVE  Sum(LAMBDA l : line[l].qty, Owed(q) \ posted) <= reserved[q]
      BY DEF OwedStaysReserved
    <2>1. Owed(q) \ posted = Due(line, posted, q)
      BY DEF Owed, Due, StillCommitted
    <2>2. AskedSum(line, Due(line, posted, q)) = Total(AskedOf(line), Due(line, posted, q))
      BY DueParts, AskedTotal
    <2>3. Total(AskedOf(line), Due(line, posted, q)) <= reserved[q]
      BY DEF StockInv, Covering
    <2>4. AskedSum(line, Owed(q) \ posted) <= reserved[q]
      BY <2>1, <2>2, <2>3
    <2> QED BY <2>4 DEF AskedSum
  <1> QED BY <1>1, ReservationsKept, PTL

(* The last order of a request closed, loaded or expired, releases its     *)
(* reservation.                                                            *)
THEOREM NothingReservedForNothing == Spec => []ReleasedWhenNothingOwed
  <1>1. StockInv => ReleasedWhenNothingOwed
    BY DEF StockInv, Releasing, ReleasedWhenNothingOwed, Owed, StillCommitted
  <1> QED BY <1>1, ReservationsKept, PTL
================================================================================
