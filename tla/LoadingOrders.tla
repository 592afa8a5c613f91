----------------------------- MODULE LoadingOrders -----------------------------
(***************************************************************************)
(* Loading at the gantry (internal/orders, internal/alma): the loading     *)
(* requests (ILR) of one customer for one product, their loading orders    *)
(* (ILO), the compartmentalization of each order, the order files passed   *)
(* to the ALMA gantry and back, amendments, the midnight expiry job, and   *)
(* the reservation and deliveries these make in the stock ledger.          *)
(*                                                                         *)
(* How approvals are taken is module Workflow's subject.  Of one, this     *)
(* module keeps whether its instance runs: a returned and resubmitted      *)
(* document is still under approval, a rejected one is not.  Handlers that *)
(* read outside the transaction they write in are two steps.               *)
(***************************************************************************)
EXTENDS Integers, FiniteSetsExt

CONSTANTS
  Requests,    (* loading requests, submitted                              *)
  Scenes,      (* which of them are still undecided to begin with          *)
  Trucks,      (* the loading orders they were submitted with              *)
  Amendments,  (* amendments; one that replaces an order names the new one *)
  Amending,    (* bound: the orders that are amended                       *)
  Of,          (* GantryLoadingLine.RequestID of each truck                *)
  Qty,         (* RequestedQty of each truck                               *)
  Dated,       (* orders whose ExpirationDate may pass                     *)
  NewQty,      (* quantities an amendment may ask for                      *)
  Measured,    (* quantities the gantry may have loaded                    *)
  Opening,     (* final stock of the customer before the first loading     *)
  Hold         (* of which on financial hold                               *)

Ilos == Trucks \cup Amendments

ASSUME OrdersAssumption ==
  /\ Trucks \cap Amendments = {}
  /\ Of \in [Trucks -> Requests]
  /\ \A q \in Requests : \E t \in Trucks : Of[t] = q
  /\ Qty \in [Trucks -> Nat \ {0}]
  /\ Scenes \subseteq SUBSET Requests
  /\ Dated \subseteq Ilos
  /\ NewQty \subseteq Nat \ {0} /\ Measured \subseteq Nat \ {0}
  /\ Opening \in Nat /\ Hold \in Nat
  /\ "none" \notin Requests \cup Ilos
  /\ IsFiniteSet(Ilos)

VARIABLES
  status,    (* of each request                                            *)
  line,      (* GantryLoadingLine                                          *)
  comp,      (* Compartmentalization of each order                         *)
  amendment, (* OrderAmendment                                             *)
  opening,   (* orders a compartmentalization request has read as open     *)
  expiring,  (* orders the expiry job has selected                         *)
  orders,    (* SAP3C order files in force at ALMA                         *)
  results,   (* SAP3R result files not yet taken in                        *)
  inbound,   (* the order whose result the watcher is about to post        *)
  posted,    (* orders with a loading event                                *)
  reserved,  (* open reservation of each request                           *)
  final      (* FinalQty of the customer                                   *)

gantry == <<orders, results, inbound>>
stock  == <<posted, reserved, final>>
vars   == <<status, line, comp, amendment, opening, expiring, gantry, stock>>

NoComp      == [made |-> FALSE, active |-> FALSE, running |-> FALSE]
NoAmendment == [at |-> "none", to |-> "none", kind |-> "none", qty |-> 0]
NoLine      == [of |-> "none", st |-> "none", active |-> FALSE, amended |-> FALSE,
                qty |-> 0, loaded |-> 0, due |-> FALSE]

-------------------------------------------------------------------------------
Sum(f(_), S) == MapThenSumSet(f, S)

(* iloCommittedStatuses, with the two flags every query of them adds.      *)
Committed(ln) == ln.active /\ ~ln.amended /\ ln.st \in {"open", "running", "inprogress"}

(* iloExpirableStatuses, likewise, on an order past its date.              *)
Expirable(ln) == ln.due /\ ln.active /\ ~ln.amended /\ ln.st \in {"open", "running"}

LinesOf(ls, q) == {l \in Ilos : ls[l].of = q}

(* MUTANT of StillCommitted: orders that were sent to the gantry are done. *)
NotYetSent(ls, q) == {l \in LinesOf(ls, q) : Committed(ls[l]) /\ ls[l].st # "inprogress"}

StillCommitted(ls, q) == {l \in LinesOf(ls, q) : Committed(ls[l])}

(* remainingCommittedILO                                                   *)
Remaining(ls, q) == Sum(LAMBDA l : ls[l].qty - ls[l].loaded, StillCommitted(ls, q))

(* ReserveTx's free stock.  An open reservation names no vessel, date or   *)
(* stock status, so Balances finds no row to subtract it from.             *)
Free == final - Hold

-------------------------------------------------------------------------------
Init ==
  /\ \E asked \in Scenes :
       status = [q \in Requests |-> IF q \in asked THEN "submitted" ELSE "rejected"]
  /\ line = [l \in Ilos |->
       IF l \in Trucks
       THEN [NoLine EXCEPT !.of = Of[l], !.st = "draft", !.active = TRUE, !.qty = Qty[l]]
       ELSE NoLine]
  /\ comp = [l \in Ilos |-> NoComp]
  /\ amendment = [a \in Amendments |-> NoAmendment]
  /\ opening = {} /\ expiring = {} /\ orders = {} /\ results = {} /\ inbound = "none"
  /\ posted = {}
  /\ reserved = [q \in Requests |-> 0]
  /\ final = Opening

(* The quantity asked for; a request whose orders do not add up to it is   *)
(* not submitted (validateEqualTotals).                                    *)
Asked(q) == Sum(LAMBDA l : line[l].qty, LinesOf(line, q))

(* GLRHook.OnComplete, OnGLRApproved: too little free stock fails the      *)
(* approval.                                                               *)
ApproveRequest(q) ==
  /\ status[q] = "submitted"
  /\ Asked(q) <= Free
  /\ status' = [status EXCEPT ![q] = "approved"]
  /\ reserved' = [reserved EXCEPT ![q] = Asked(q)]
  /\ line' = [l \in Ilos |-> IF line[l].of = q THEN [line[l] EXCEPT !.st = "open"] ELSE line[l]]
  /\ UNCHANGED <<comp, amendment, opening, expiring, gantry, posted, final>>

(* GLRHook.OnReject, for good.                                             *)
RejectRequest(q) ==
  /\ status[q] = "submitted"
  /\ status' = [status EXCEPT ![q] = "rejected"]
  /\ UNCHANGED <<line, comp, amendment, opening, expiring, gantry, stock>>

-------------------------------------------------------------------------------
(* Compartmentalization. *)

(* CreateCompartmentalization: the gates, on the order as read.            *)
ReadForComp(l) ==
  /\ l \notin opening
  /\ line[l].active /\ ~line[l].amended /\ line[l].st = "open" /\ ~line[l].due
  /\ ~comp[l].active
  /\ opening' = opening \cup {l}
  /\ UNCHANGED <<status, line, comp, amendment, expiring, gantry, stock>>

(* Its transaction.  DocumentNumber is the order's and unique, so the      *)
(* insert fails for an order that ever had a compartmentalization.         *)
OpenComp(l) ==
  /\ l \in opening
  /\ opening' = opening \ {l}
  /\ IF comp[l].made
     THEN UNCHANGED <<line, comp>>
     ELSE /\ comp' = [comp EXCEPT ![l] = [made |-> TRUE, active |-> TRUE, running |-> FALSE]]
          /\ line' = [line EXCEPT ![l].st = "running"]
  /\ UNCHANGED <<status, amendment, expiring, gantry, stock>>

(* SubmitCompartmentalization, whatever the row's or the order's state.    *)
SubmitComp(l) ==
  /\ comp[l].made /\ ~comp[l].running
  /\ comp' = [comp EXCEPT ![l].running = TRUE]
  /\ UNCHANGED <<status, line, amendment, opening, expiring, gantry, stock>>

(* MUTANT of RejectComp: the order is given back for another one.          *)
RejectCompReopening(l) ==
  /\ comp[l].running
  /\ comp' = [comp EXCEPT ![l].running = FALSE]
  /\ line' = [line EXCEPT ![l].st = "open"]
  /\ UNCHANGED <<status, amendment, opening, expiring, gantry, stock>>

(* CompHook.OnReject, for good.                                            *)
RejectComp(l) ==
  /\ comp[l].running
  /\ comp' = [comp EXCEPT ![l].running = FALSE]
  /\ UNCHANGED <<status, line, amendment, opening, expiring, gantry, stock>>

(* OnCompApproved: the order goes to ALMA and in progress, whatever it was.*)
ApproveComp(l) ==
  /\ comp[l].running
  /\ comp' = [comp EXCEPT ![l].running = FALSE]
  /\ line' = [line EXCEPT ![l].st = "inprogress"]
  /\ orders' = orders \cup {l}
  /\ UNCHANGED <<status, amendment, opening, expiring, results, inbound, stock>>

-------------------------------------------------------------------------------
(* Loading. *)

(* ALMA loads the truck and writes the result file.                        *)
LoadTruck(l) ==
  /\ l \in orders
  /\ orders' = orders \ {l}
  /\ results' = results \cup {l}
  /\ UNCHANGED <<status, line, comp, amendment, opening, expiring, inbound, stock>>

(* MUTANT of CanComplete: MessageID is not unique.                         *)
CanCompleteAgain(l) == line[l].st \in {"open", "running", "inprogress"}

(* The order is open for loading and its event not yet logged.             *)
CanComplete(l) == line[l].st \in {"open", "running", "inprogress"} /\ l \notin posted

(* MUTANT of CompleteLoadingLine: the request is completed by its first    *)
(* truck.                                                                  *)
CompleteAtOnce(l, n) ==
  LET q  == line[l].of
      ls == [line EXCEPT ![l].loaded = n, ![l].st = "loaded"]
  IN /\ CanComplete(l)
     /\ line' = ls
     /\ posted' = posted \cup {l}
     /\ final' = final - n
     /\ reserved' = [reserved EXCEPT ![q] = IF StillCommitted(ls, q) = {} THEN 0 ELSE @]
     /\ status' = [status EXCEPT ![q] = "completed"]

(* CompleteLoadingLine: post the delivery; with the request's last         *)
(* committed order, release its reservation and complete it.               *)
CompleteLoadingLine(l, n) ==
  LET q    == line[l].of
      ls   == [line EXCEPT ![l].loaded = n, ![l].st = "loaded"]
      last == StillCommitted(ls, q) = {}
  IN /\ CanComplete(l)
     /\ line' = ls
     /\ posted' = posted \cup {l}
     /\ final' = final - n
     /\ reserved' = [reserved EXCEPT ![q] = IF last THEN 0 ELSE @]
     /\ status' = [status EXCEPT ![q] = IF last THEN "completed" ELSE @]

(* completeLine: a clerk posts the loading.                                *)
CompleteManually(l, n) ==
  /\ CompleteLoadingLine(l, n)
  /\ UNCHANGED <<comp, amendment, opening, expiring, gantry>>

(* handleInbound, CompleteFromAlma, one file at a time: a result is for an  *)
(* active order in progress; any other is moved to Rejected and forgotten.  *)
ReadResult(l) ==
  /\ inbound = "none" /\ l \in results
  /\ results' = results \ {l}
  /\ inbound' = IF line[l].st = "inprogress" /\ line[l].active THEN l ELSE "none"
  /\ UNCHANGED <<status, line, comp, amendment, opening, expiring, orders, stock>>

(* Its posting, which looks at the order again, but not at the flags.      *)
BookResult(n) ==
  /\ inbound # "none" /\ inbound' = "none"
  /\ IF CanComplete(inbound)
     THEN CompleteLoadingLine(inbound, n)
     ELSE UNCHANGED <<status, line, stock>>
  /\ UNCHANGED <<comp, amendment, opening, expiring, orders, results>>

-------------------------------------------------------------------------------
(* Amendments.  "replace" stands for the kinds that issue a new order:     *)
(* normal, quantity up and down, and product, which keeps the product.     *)

Immediate == {"extend", "batchcancel"}

(* Amendments are interchangeable: the next one is made.                   *)
NextRow == CHOOSE a \in Amendments : amendment[a].at = "none"

(* CreateAmendment: its checks, on the order as read.                      *)
ReadForAmend(a, l) ==
  /\ amendment[a].at = "none" /\ a = NextRow /\ l \in Amending
  /\ ~line[l].amended /\ line[l].active
  /\ line[l].st \in {"open", "running", "inprogress"}
  /\ amendment' = [amendment EXCEPT ![a].at = "read", ![a].to = l]
  /\ UNCHANGED <<status, line, comp, opening, expiring, gantry, stock>>

(* ApplyAmendment to the order l, on the lines ls.  A cancellation means to *)
(* write an order file of type "cancel", but loads the compartmentalization*)
(* without its order, so that almaOrder looks for request 0 and fails; the  *)
(* error is dropped, and the gantry keeps what it was sent.                *)
Applied(ls, a, l, kind, n) ==
  CASE kind = "extend"  -> [ls EXCEPT ![l].due = FALSE, ![l].amended = FALSE, ![l].st = "open"]
    [] kind = "replace" -> [ls EXCEPT
         ![l].active = FALSE, ![l].amended = TRUE,
         ![a] = [ls[l] EXCEPT !.qty = n, !.loaded = 0, !.amended = FALSE,
                              !.active = TRUE, !.st = "open"]]
    [] OTHER -> [ls EXCEPT ![l].st = "cancelled", ![l].active = FALSE, ![l].amended = TRUE]

(* CreateAmendment: park the order, cancel its compartmentalization, and   *)
(* apply an immediate amendment.  Otherwise Initiate follows in its own    *)
(* transaction; when it fails the order stays parked.                      *)
Amend(a, kind, n, initiated) ==
  LET l      == amendment[a].to
      parked == [line EXCEPT ![l].amended = TRUE]
  IN /\ amendment[a].at = "read"
     /\ kind = "replace" \/ n = 0
     /\ kind \in Immediate => ~initiated
     /\ comp' = [comp EXCEPT ![l].active = FALSE]
     /\ line' = IF kind \in Immediate THEN Applied(parked, a, l, kind, n) ELSE parked
     /\ amendment' = [amendment EXCEPT ![a] =
          IF initiated THEN [at |-> "running", to |-> l, kind |-> kind, qty |-> n]
          ELSE [NoAmendment EXCEPT !.to = l,
                                   !.at = IF kind \in Immediate THEN "done" ELSE "failed"]]
     /\ UNCHANGED <<status, opening, expiring, gantry, stock>>

(* AmendHook.OnComplete.                                                   *)
ApproveAmendment(a) ==
  LET m == amendment[a] IN
  /\ m.at = "running"
  /\ amendment' = [amendment EXCEPT ![a] = [NoAmendment EXCEPT !.at = "done", !.to = m.to]]
  /\ line' = Applied(line, a, m.to, m.kind, m.qty)
  /\ UNCHANGED <<status, comp, opening, expiring, gantry, stock>>

(* MUTANT of RejectAmendment: the order is not unparked.                   *)
RejectAmendmentOnly(a, total) ==
  LET l == amendment[a].to IN
  /\ amendment[a].at = "running"
  /\ amendment' = IF total
       THEN [amendment EXCEPT ![a] = [NoAmendment EXCEPT !.at = "done", !.to = l]]
       ELSE amendment
  /\ UNCHANGED <<status, line, comp, opening, expiring, gantry, stock>>

(* AmendHook.OnReject; a soft reject, too, unparks the order, although the *)
(* amendment may yet be approved.                                          *)
RejectAmendment(a, total) ==
  LET l == amendment[a].to IN
  /\ amendment[a].at = "running"
  /\ amendment' = IF total
       THEN [amendment EXCEPT ![a] = [NoAmendment EXCEPT !.at = "done", !.to = l]]
       ELSE amendment
  /\ line' = [line EXCEPT ![l].amended = IF line[l].st = "cancelled" THEN @ ELSE FALSE]
  /\ UNCHANGED <<status, comp, opening, expiring, gantry, stock>>

-------------------------------------------------------------------------------
(* Expiry. *)

(* The date of an order passes, at any time after the request's approval.  *)
Lapse(l) ==
  /\ l \in Dated /\ ~line[l].due /\ line[l].active
  /\ line[l].st \in {"open", "running", "inprogress"}
  /\ line' = [line EXCEPT ![l].due = TRUE]
  /\ UNCHANGED <<status, comp, amendment, opening, expiring, gantry, stock>>

(* MUTANT of ExpireSelect: orders with a compartmentalization are spared.  *)
ExpireSelectUntouched ==
  /\ expiring = {}
  /\ expiring' = {l \in Ilos : Expirable(line[l]) /\ ~comp[l].made}
  /\ expiring' # {}
  /\ UNCHANGED <<status, line, comp, amendment, opening, gantry, stock>>

(* ExpireIlos: the selection.                                              *)
ExpireSelect ==
  /\ expiring = {}
  /\ expiring' = {l \in Ilos : Expirable(line[l])}
  /\ expiring' # {}
  /\ UNCHANGED <<status, line, comp, amendment, opening, gantry, stock>>

(* MUTANT of Expire: the reservations are left as they are.                *)
ExpireKeepingStock(ls) ==
  /\ line' = ls
  /\ UNCHANGED reserved

(* The update of the selected rows, as they were selected, and             *)
(* syncILRReservation of their requests: open reservations only.           *)
Expire(ls) ==
  /\ line' = ls
  /\ reserved' = [q \in Requests |->
       IF reserved[q] > 0 /\ \E l \in expiring : line[l].of = q
       THEN IF Remaining(ls, q) > 0 THEN Remaining(ls, q) ELSE 0
       ELSE reserved[q]]

ExpireWrite ==
  /\ expiring # {}
  /\ Expire([l \in Ilos |-> IF l \in expiring
                            THEN [line[l] EXCEPT !.st = "expired", !.active = FALSE]
                            ELSE line[l]])
  /\ expiring' = {}
  /\ UNCHANGED <<status, comp, amendment, opening, gantry, posted, final>>

-------------------------------------------------------------------------------
Next ==
  \/ \E q \in Requests : ApproveRequest(q) \/ RejectRequest(q)
  \/ \E l \in Ilos : ReadForComp(l) \/ OpenComp(l)
  \/ \E l \in Ilos : SubmitComp(l) \/ RejectComp(l) \/ ApproveComp(l) \/ LoadTruck(l)
  \/ \E l \in Ilos : ReadResult(l)
  \/ \E l \in Ilos, n \in Measured : CompleteManually(l, n)
  \/ \E n \in Measured : BookResult(n)
  \/ \E a \in Amendments, l \in Ilos : ReadForAmend(a, l)
  \/ \E a \in Amendments, kind \in {"replace", "cancel", "extend", "batchcancel"},
        n \in NewQty \cup {0}, initiated \in BOOLEAN : Amend(a, kind, n, initiated)
  \/ \E a \in Amendments : ApproveAmendment(a)
  \/ \E a \in Amendments, total \in BOOLEAN : RejectAmendment(a, total)
  \/ \E l \in Ilos : Lapse(l)
  \/ ExpireSelect
  \/ ExpireWrite

Spec == Init /\ [][Next]_vars

(* The midnight job runs every night.                                      *)
FairSpec == Spec /\ WF_vars(ExpireSelect) /\ WF_vars(ExpireWrite)

-------------------------------------------------------------------------------
Lines == [of : Requests \cup {"none"},
          st : {"none", "draft", "open", "running", "inprogress", "loaded", "cancelled", "expired"},
          active : BOOLEAN, amended : BOOLEAN, qty : Nat, loaded : Nat, due : BOOLEAN]

(* The rows' own columns; no sum enters them.                              *)
RowTypes ==
  /\ status \in [Requests -> {"submitted", "approved", "rejected", "completed"}]
  /\ line \in [Ilos -> Lines]
  /\ comp \in [Ilos -> [made : BOOLEAN, active : BOOLEAN, running : BOOLEAN]]
  /\ amendment \in [Amendments ->
       [at : {"none", "read", "running", "failed", "done"}, to : Ilos \cup {"none"}, qty : Nat,
        kind : {"none", "replace", "cancel", "extend", "batchcancel"}]]
FileTypes ==
  /\ opening \subseteq Ilos /\ expiring \subseteq Ilos
  /\ orders \subseteq Ilos /\ results \subseteq Ilos /\ posted \subseteq Ilos
  /\ inbound \in Ilos \cup {"none"}

(* Rows and files keep their types.                                        *)
TypeOK == RowTypes /\ FileTypes

(* The loaded quantities the orders show are what left the stock, each     *)
(* once, however often an order is sent to the gantry, and whoever reports *)
(* it loaded.                                                              *)
DeliveriesExplainStock ==
  final = Opening - Sum(LAMBDA l : line[l].loaded, posted)

(* An order set aside has an amendment of its own under decision, or one   *)
(* whose approval never started: overlapping amendments of one order,      *)
(* rejections, extensions and the expiry job never leave it aside for good.*)
ParkedAwaitsAmendment ==
  \A l \in Ilos : line[l].amended /\ line[l].active =>
    \E a \in Amendments : amendment[a].to = l /\ amendment[a].at \in {"running", "failed"}

(* The result of a truck is never turned away as long as nobody asked to   *)
(* amend its order and the job did not close it, except when the order has *)
(* been booked already: no compartmentalization read late, submitted again *)
(* or rejected takes an order out of progress while the gantry has it.     *)
Arrived == results \cup {inbound}
LoadingsAreBooked ==
  [][\A l \in Ilos : l \in Arrived /\ l \notin Arrived' =>
       \/ l \in posted' \/ ~line[l].active
       \/ \E a \in Amendments : amendment[a].to = l]_vars

(* A request nobody asked to amend.                                        *)
Untouched(q) == \A a \in Amendments : amendment[a].to \notin LinesOf(line, q)

Owed(q) == {l \in LinesOf(line, q) : Committed(line[l])}

(* An order loaded with more than it asked for and then closed by the      *)
(* expiry job or taken up again: while it counts as committed its surplus  *)
(* is taken off what the request's other orders need (remainingCommittedILO*)
(* adds up RequestedQty - LoadedQty).                                      *)
Overdrawn(q) ==
  \E l \in LinesOf(line, q) \cap posted :
    line[l].loaded > line[l].qty /\ line[l].st # "loaded"

(* Stock an approved request still owes its trucks is reserved, through    *)
(* any order of completions and expiries of its other trucks, as long as   *)
(* no surplus of theirs was counted.                                       *)
OwedStaysReserved ==
  \A q \in Requests :
    (Untouched(q) /\ status[q] \in {"approved", "completed"} /\ ~Overdrawn(q)) =>
      Sum(LAMBDA l : line[l].qty, Owed(q) \ posted) <= reserved[q]

(* And nothing stays reserved for a request that owes no truck anything.   *)
ReleasedWhenNothingOwed ==
  \A q \in Requests : Untouched(q) /\ Owed(q) = {} => reserved[q] = 0

(* A request reads completed only when each of its trucks was loaded or    *)
(* its order closed.                                                       *)
CompletedLoadsEverything ==
  \A q \in Requests : Untouched(q) /\ status[q] = "completed" =>
    \A l \in LinesOf(line, q) : l \in posted \/ ~line[l].active

(* docs/user-guide.md, 8.1: overnight, expired loading orders are closed:  *)
(* there is always a later moment when none of them is left, whatever      *)
(* compartmentalizations, amendments and loadings cross the job.           *)
ExpiredOrdersClosed == []<>(\A l \in Ilos : ~Expirable(line[l]))

(* docs/user-guide.md, 8.1: approval reserves stock so it cannot be        *)
(* promised twice: what is reserved is there, and not on hold.             *)
NotPromisedTwice == Sum(LAMBDA q : reserved[q], Requests) <= final - Hold
================================================================================
