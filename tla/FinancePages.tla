---------------------------- MODULE FinancePages ----------------------------
(***************************************************************************)
(* The pages of the finance section, src/web/src/app/(dashboard)/(finance).*)
(***************************************************************************)
EXTENDS PageKinds

feeEditable == {"draft", "returned"}

SavePage == Button("saving", feeEditable, <<Save>>, {"reload"})

(* On most fee documents Submit sends nothing of the form, and neither     *)
(* waits for a save nor for itself.                                        *)
SubmitStored == Button("", feeEditable, <<Submit>>, {"reload"})

(* Saves first; only the Save button waits for that save.                  *)
SaveThenSubmit(after) ==
    Borrowing("saving", Button("", feeEditable, <<Save, Submit>>, after))

-----------------------------------------------------------------------------
(* Fee batches.  The list creates a header in a dialog and goes to it.     *)

CreateHeader == InDialog(Button("saving", {"new"}, <<SaveHead>>, {"close", "reload", "leave"}))
FeeBatchList == WithDialog(ListPage(FeeDocument, {CreateHeader}), {"new"}, {"head"}, {"new"})

(* Fixed storage fees: the pricing dialog, a card of phases per product,   *)
(* writes into the lines on the page, which the page then saves.           *)
PhaseBlock == {"rows"}
PricingCard == PhaseBlock
PricingModal == PricingCard
FcfBatchPage ==
    DocumentPage(FeeDocument, {"head"} \cup PricingModal, feeEditable, {SavePage, SubmitStored})

(* Kerosene and throughput fees: the lines are typed in place.             *)
PriceBatchEditor == DocumentPage(FeeDocument, Parts, feeEditable, {SavePage, SubmitStored})

(* Variable storage fees: a product is added, edited or removed by saving  *)
(* the whole document.                                                     *)
CommitProduct ==
    InDialog(Borrowing("saving",
        Button("savingProduct", feeEditable, <<Save>>, {"close", "reload"})))
RemoveProduct == Borrowing("saving", Button("", feeEditable, <<Save>>, {"reload"}))
VsfLines == {CommitProduct, RemoveProduct}
ProductModal == {"rows"}

VariableBatchPage ==
    [WithDialog(
        DocumentPage(FeeDocument, Parts, feeEditable,
            {SavePage, SaveThenSubmit({"reload"})} \cup VsfLines),
        {"old"}, ProductModal, feeEditable) EXCEPT !.dialogFlags = {"savingProduct"}]

(* MI-loss batches take the answer of every save as the new form.  What a   *)
(* product added or removed looks like until the answer, and how the old   *)
(* lists are put back when the request fails, is left out.                 *)
SaveAdopting == Button("saving", feeEditable, <<Save>>, {"adopt"})
AddProduct == Button("saving", feeEditable, <<DeriveRows>>, {"adopt"})
RemoveBatchProduct == Borrowing("saving", Button("", feeEditable, <<DeriveRows>>, {"adopt"}))
RemoveRate == Borrowing("saving", Button("", feeEditable, <<Save>>, {"adopt"}))
AddRate == InDialog(Button("savingRate", {"new"}, <<SaveRows>>, {"adopt", "close"}))
EditRate ==
    InDialog(Borrowing("saving",
        Button("savingRate", feeEditable, <<Save>>, {"adopt", "close"})))
BatchItemsTable == {RemoveBatchProduct, RemoveRate}
MiLossContractModal == {"rows"}

MiLossDocumentPage ==
    [WithDialog(
        DocumentPage(FeeDocument, Parts, feeEditable,
            {SaveAdopting, SaveThenSubmit({"adopt", "reload"}), AddProduct, AddRate, EditRate}
            \cup BatchItemsTable),
        {"old", "new"}, MiLossContractModal, feeEditable \cup {"new"})
     EXCEPT !.dialogFlags = {"savingRate"}]

-----------------------------------------------------------------------------
(* Exchange rates. *)

FxForm == {"head"}
FxPage == WithDialog(ListPage(FeeDocument, {CreateHeader}), {"new"}, FxForm, {"new"})
FxDocumentPage == DocumentPage(FeeDocument, FxForm, feeEditable,
                     {Button("saving", feeEditable, <<SaveHead>>, {"reload"}), SubmitStored})

(* Changes of service: the sheet turns into a form and back, one flag      *)
(* serves both; Submit is only there when the form is not.                 *)
ChangeOfServiceListPage ==
    ListPage(FeeDocument, {Button("", {"draft", "returned"}, <<Submit>>, {"reload"})})
ChangeOfServiceForm == {"head"}
NewChangeOfServicePage ==
    NewPage(FeeDocument, ChangeOfServiceForm, {CreateAndGo(<<SaveHead>>)})
ChangeOfServiceDocumentPage ==
    InlineDialog(
        DocumentPage(FeeDocument, {}, {},
            {Button("busy", feeEditable, <<Submit>>, {"close", "reload"}),
             InDialog(Button("busy", feeEditable, <<SaveHead>>, {"close", "reload"}))}),
        {"old"}, ChangeOfServiceForm, feeEditable)

-----------------------------------------------------------------------------
(* Billing runs are prepared by the engine and only submitted here; the    *)
(* licence list and the engine buttons ask for something and look again.   *)

RunEngine == Button("", Statuses \cup {"none"}, <<Aside>>, {"reload"})
BillingPage == ListPage(BillingRunDocument, {RunEngine})
BillingRunPage ==
    DocumentPage(BillingRunDocument, {}, {}, {Button("busy", feeEditable, <<Submit>>, {"reload"})})
EwuraPage == ListPage(MasterRow, {RunEngine})

(* The code lists behind the contracts: edited in a dialog of the list.    *)
SaveNamed == InDialog(Button("saving", {"active", "new"}, <<SaveHead>>, {"close", "reload"}))
CatalogSetup == WithDialog(ListPage(MasterRow, {SaveNamed}), {"old", "new"}, {"head"}, {"active", "new"})
CycleSetup == CatalogSetup

FinanceDocumentPages ==
    {FeeBatchList, FcfBatchPage, PriceBatchEditor, VariableBatchPage, MiLossDocumentPage,
     FxPage, FxDocumentPage, ChangeOfServiceListPage, NewChangeOfServicePage,
     ChangeOfServiceDocumentPage, BillingPage, BillingRunPage, EwuraPage, CatalogSetup,
     CycleSetup}
=============================================================================
