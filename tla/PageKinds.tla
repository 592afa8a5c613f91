------------------------------ MODULE PageKinds ------------------------------
(***************************************************************************)
(* The vocabulary the catalogue of the console's pages is written in: what *)
(* a button asks the server for, what a page shows, and which requests the *)
(* server behind it accepts in which status of the document.               *)
(***************************************************************************)
EXTENDS Sequences

(* A document has two parts that are typed, and often saved, separately:   *)
(* its header and its lines.  A small form has a header only.              *)
Parts == {"head", "rows"}
Statuses == {"draft", "running", "submitted", "returned", "approved", "rejected", "active"}

-----------------------------------------------------------------------------
(* Servers.  edits: the statuses a save is accepted in; submits: those a   *)
(* submission is; soft: what a rejection that may be resubmitted leaves;   *)
(* starts: what a new document is; met: what else a page may be opened on. *)

Server(starts, edits, submits, soft) ==
    [starts |-> starts, edits |-> edits, submits |-> submits, soft |-> soft,
     met |-> IF submits = {} THEN {} ELSE {soft, "approved"}]

(* The stock documents are written once and submitted; a soft rejection    *)
(* leaves them rejected, and the submit handlers look at no status.        *)
StockDocument == Server({"draft"}, {}, Statuses, "rejected")
ReceiptDocument == Server({"draft"}, {"draft"}, Statuses, "rejected")

(* A loading request is the one document whose submission asks for a draft. *)
LoadingRequest == Server({"draft"}, {"draft"}, {"draft"}, "rejected")
CompartmentPlan == Server({"running"}, {"running", "draft", "rejected"}, Statuses, "rejected")

(* An amendment is submitted by being created, some kinds even approved.   *)
AmendmentRequest == Server({"submitted", "approved"}, {}, {}, "rejected")

(* Fee batches, exchange rates and changes of service come back returned.  *)
FeeDocument == Server({"draft"}, {"draft", "returned"}, Statuses, "returned")
BillingRunDocument == Server({"draft"}, {}, Statuses, "returned")

(* A document somebody's approval is asked for. *)
ApprovalTask == [Server({"submitted"}, {}, {}, "returned") EXCEPT !.met = {"returned"}]

(* Catalogue rows, users, roles and settings have no approval. *)
MasterRow == Server({"active"}, {"active"}, {}, "active")

-----------------------------------------------------------------------------
(* Requests. *)

Step(op, parts) == [op |-> op, parts |-> parts]
Save == Step("store", Parts)          \* PUT or POST of all the fields
SaveHead == Step("store", {"head"})
SaveRows == Step("store", {"rows"})
Submit == Step("submit", {})
DeriveRows == Step("derive", {"rows"}) \* the server changes the lines
Remove == Step("remove", {})          \* the row is deleted, or done with
Decide == Step("decide", {})
Aside == Step("aside", {})            \* nothing the page shows depends on it

(* Buttons.  waits: the busy flag a button is disabled by, "" when there   *)
(* is none; raises: the flags its handler raises; at: the statuses it is   *)
(* offered in; after: what the handler does once its last request is       *)
(* answered.                                                               *)

Button(flag, at, steps, after) ==
    [waits |-> flag, raises |-> {flag} \ {""}, at |-> at, place |-> "page",
     steps |-> steps, after |-> after]
InDialog(b) == [b EXCEPT !.place = "dialog"]

(* A handler that begins with the save of another button raises that       *)
(* button's flag for the length of the save.                               *)
Borrowing(flag, b) == [b EXCEPT !.raises = @ \cup {flag}]

(* Create and go to the new document. *)
CreateAndGo(steps) == Button("saving", {"new"}, steps, {"leave"})

-----------------------------------------------------------------------------
(* Pages.  opens: on an empty form, on a row, or on a list; parts: what    *)
(* takes every load that arrives; fields: which of them can be typed into  *)
(* on the page; types: the statuses that allow typing; dialogs and         *)
(* dialogParts: what can be opened and which fields it holds; dialogFlags: *)
(* the flags a dialog starts afresh with, being a component of its own;    *)
(* locked: it cannot be dismissed while a flag is raised; oneBusy: the     *)
(* last click decides the value of the one flag all buttons share.         *)

Page(server, opens, parts, types, buttons) ==
    [server |-> server, opens |-> opens, parts |-> parts, fields |-> parts,
     types |-> types, dialogs |-> {}, dialogParts |-> {}, dialogFlags |-> {},
     locked |-> FALSE, oneBusy |-> FALSE, buttons |-> buttons]

NewPage(server, parts, buttons) == Page(server, "blank", parts, {"new"}, buttons)
DocumentPage(server, parts, types, buttons) == Page(server, "row", parts, types, buttons)
ListPage(server, buttons) == Page(server, "list", {}, {}, buttons)
InlineDialog(page, kinds, parts, types) ==
    [page EXCEPT !.dialogs = kinds, !.dialogParts = parts, !.types = @ \cup types,
                 !.fields = @ \ parts]
WithDialog(page, kinds, parts, types) ==
    [InlineDialog(page, kinds, parts, types) EXCEPT
        !.dialogFlags = UNION {b.raises : b \in {c \in page.buttons : c.place = "dialog"}}]
Locked(page) == [page EXCEPT !.locked = TRUE]
=============================================================================
