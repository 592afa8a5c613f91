----------------------------- MODULE StockPages -----------------------------
(***************************************************************************)
(* The pages of the stock section, src/web/src/app/(dashboard)/stock: in   *)
(* each record what can be typed, which buttons are offered when, what     *)
(* they ask of the server and what the page does with the answer.          *)
(***************************************************************************)
EXTENDS PageKinds

(* Most lists submit a row from the list: no flag guards the button. *)
RowSubmit(at) == Button("", at, <<Submit>>, {"reload"})
SubmitAndReload(at) == Button("busy", at, <<Submit>>, {"reload"})

(* A document with nothing to type, only something to submit. *)
Sheet(server, at) == DocumentPage(server, {}, {}, {SubmitAndReload(at)})

-----------------------------------------------------------------------------
(* In-tank transfers, releases from financial hold, zerolizations.         *)

ITTPage == ListPage(StockDocument, {RowSubmit({"draft"})})
NewITTPage == NewPage(StockDocument, Parts, {CreateAndGo(<<Save>>)})
ITTDocumentPage == Sheet(StockDocument, {"draft", "returned"})

HoldReleaseListPage == ListPage(StockDocument, {RowSubmit({"draft"})})
NewHoldReleasePage == NewPage(StockDocument, Parts, {CreateAndGo(<<Save>>)})
HoldReleaseDocumentPage == Sheet(StockDocument, {"draft", "returned"})

ZerolizationDocumentPage == Sheet(StockDocument, {"draft", "returned"})

(* Pump-over requests and the reports on them.                             *)

PumpOverListPage == ListPage(StockDocument, {RowSubmit({"draft"})})
NewPumpOverPage == NewPage(StockDocument, Parts, {CreateAndGo(<<Save>>)})
PumpOverDocumentPage == Sheet(StockDocument, {"draft"})

PumpOverReportsPage == ListPage(StockDocument, {RowSubmit({"draft"})})
NewPumpOverReportPage == NewPage(StockDocument, Parts, {CreateAndGo(<<Save>>)})
PumpOverReportDocumentPage == Sheet(StockDocument, {"draft", "returned"})

-----------------------------------------------------------------------------
(* Receipts.  The header is a form of the page, a parcel is edited in a    *)
(* dialog; both reload the page, and every load overwrites the header.     *)

ReceiptHeaderForm == {"head"}
NewInternalReceiptPage == NewPage(ReceiptDocument, ReceiptHeaderForm, {CreateAndGo(<<SaveHead>>)})
NewExternalReceiptPage == NewInternalReceiptPage

SaveHeader == Button("busy", {"draft"}, <<SaveHead>>, {"reload"})

(* Submitting saves the header first.                                      *)
SubmitReceipt == Button("busy", {"draft"}, <<SaveHead, Submit>>, {"reload"})
ConvertToFinal == Button("busy", {"approved"}, <<Aside>>, {"leave"})
AllocateLineLoss == Button("busy", {"draft"}, <<DeriveRows>>, {"reload"})
SaveParcel == InDialog(Button("saving", {"draft", "new"}, <<SaveRows>>, {"close", "reload"}))
RemoveParcel == Button("", {"draft"}, <<DeriveRows>>, {"reload"})
ParcelTable == {SaveParcel, RemoveParcel}

EditReceiptPage ==
    InlineDialog(
        DocumentPage(ReceiptDocument, ReceiptHeaderForm, {"draft"},
                     {SaveHeader, SubmitReceipt, ConvertToFinal, AllocateLineLoss}
                     \cup ParcelTable),
        {"old", "new"}, {"rows"}, {"draft", "new"})

-----------------------------------------------------------------------------
(* Loading requests: vessels and orders are edited in dialogs.  What the   *)
(* page does when it opens, to have the stock positions of a draft         *)
(* refreshed, it does before it knows the document, that is never.         *)

LoadingPage == ListPage(LoadingRequest, {RowSubmit({"draft"})})
NewLoadingPage == NewPage(LoadingRequest, Parts, {CreateAndGo(<<Save>>)})

SubmitLoading == RowSubmit({"draft", "returned"})
SaveLine ==
    InDialog(Button("saving", {"draft", "returned", "new"}, <<SaveRows>>, {"close", "reload"}))
RemoveLine == Button("", {"draft", "returned"}, <<DeriveRows>>, {"reload"})
LinesCard == {SaveLine, RemoveLine}
VesselsCard == {SaveLine, RemoveLine}

EditLoadingPage ==
    InlineDialog(
        DocumentPage(LoadingRequest, {}, {}, {SubmitLoading} \cup LinesCard \cup VesselsCard),
        {"old", "new"}, {"rows"}, {"draft", "returned", "new"})

(* Completing an order from the list of deliveries takes it off the list. *)
DeliveriesPage == ListPage(MasterRow, {Button("", {"active"}, <<Remove>>, {"reload"})})

-----------------------------------------------------------------------------
(* Compartmentalizations: the cells are typed into a copy of the document. *)
(* Saving them does not reload; submitting sends nothing of them, reloads  *)
(* and drops the copy.  One busy string serves both buttons.               *)

CompartmentalizationPage == ListPage(CompartmentPlan, {RowSubmit({"draft", "running"})})
NewCompartmentalizationPage ==
    NewPage(CompartmentPlan, {"head"}, {CreateAndGo(<<SaveHead>>)})

SaveCells == Button("save", {"draft", "running"}, <<SaveRows>>, {})
SubmitCells == Button("submit", {"draft", "running"}, <<Submit>>, {"reload", "revert"})

CompartmentalizationDocumentPage ==
    [DocumentPage(CompartmentPlan, {"rows"}, {"draft", "running"}, {SaveCells, SubmitCells})
     EXCEPT !.oneBusy = TRUE]

NewAmendmentPage == NewPage(AmendmentRequest, Parts, {CreateAndGo(<<Save>>)})

StockDocumentPages ==
    {ITTPage, NewITTPage, ITTDocumentPage, HoldReleaseListPage, NewHoldReleasePage,
     HoldReleaseDocumentPage, ZerolizationDocumentPage, PumpOverListPage, NewPumpOverPage,
     PumpOverDocumentPage, PumpOverReportsPage, NewPumpOverReportPage,
     PumpOverReportDocumentPage, NewInternalReceiptPage, NewExternalReceiptPage,
     EditReceiptPage, LoadingPage, NewLoadingPage, EditLoadingPage, DeliveriesPage,
     CompartmentalizationPage, NewCompartmentalizationPage,
     CompartmentalizationDocumentPage, NewAmendmentPage}
=============================================================================
