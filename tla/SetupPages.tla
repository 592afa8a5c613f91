----------------------------- MODULE SetupPages -----------------------------
(***************************************************************************)
(* The catalogues of the stock section, src/web/src/app/(dashboard)/stock/ *)
(* setups, and the files attached to documents.                            *)
(***************************************************************************)
EXTENDS PageKinds

Reload(flag, steps) == Button(flag, {"active"}, steps, {"reload"})
CatalogueForm == {"active", "new"}    \* what a row's form is offered for
SaveRow == InDialog(Button("saving", CatalogueForm, <<SaveHead>>, {"close", "reload"}))
DeleteRow == Reload("deleting", <<Remove>>)

(* One list serves the plain catalogues: a form in a dialog creates or     *)
(* edits a row, which may be dismissed while it saves; a row nothing hangs *)
(* on can be deleted.                                                      *)
MasterCatalogue(forms, kinds) ==
    WithDialog(ListPage(MasterRow, {DeleteRow} \cup forms), kinds, {"head"}, CatalogueForm)
Catalogue(save) == MasterCatalogue({save}, {"old", "new"})

ProductForm == SaveRow
ProductsPage == Catalogue(ProductForm)
CategoryForm == SaveRow
ProductCategoriesPage == Catalogue(CategoryForm)
StatusForm == SaveRow
StatusesPage == Catalogue(StatusForm)
VesselForm == SaveRow
VesselsPage == Catalogue(VesselForm)
DestinationForm == SaveRow
DestinationsPage == Catalogue(DestinationForm)
DistrictForm == SaveRow
DistrictsPage == Catalogue(DistrictForm)
DepotForm == SaveRow
DepotsPage == Catalogue(DepotForm)
TankForm == SaveRow
TanksPage == Catalogue(TankForm)
TransporterForm == SaveRow
TransportersPage == Catalogue(TransporterForm)
DriverForm == SaveRow
DriversPage == Catalogue(DriverForm)

-----------------------------------------------------------------------------
(* Suppliers and customers: creating keeps the dialog open, now on the row *)
(* it has made, so that accounts and files can be added; only the second   *)
(* save, or dismissing it, returns to the list.                            *)

CreateParty == InDialog(Button("saving", {"new"}, <<SaveHead>>, {"know"}))
UpdateParty == InDialog(Button("saving", {"active"}, <<SaveHead>>, {"close", "reload"}))
SupplierForm == {CreateParty, UpdateParty}
SuppliersPage == MasterCatalogue(SupplierForm, {"old", "new"})
CustomerForm == {CreateParty, UpdateParty}
CustomersPage == MasterCatalogue(CustomerForm, {"old", "new"})

(* Their billing accounts are written in a composer of the page itself,    *)
(* which cannot be dismissed while it saves; deleting shares its flag, and *)
(* a row is switched on and off without one.                               *)
SaveAccount == InDialog(Button("saving", {"active", "new"}, <<SaveHead>>, {"close", "reload"}))
BillingAccountsPanel ==
    Locked(InlineDialog(
        ListPage(MasterRow, {SaveAccount, Reload("", <<Aside>>), Reload("saving", <<Remove>>)}),
        {"old", "new"}, {"head"}, {"active", "new"}))

(* Files of a party, and of a document. *)
PartyDocuments ==
    ListPage(MasterRow, {Reload("saving", <<Aside>>), Reload("", <<Aside>>),
                         Reload("saving", <<Remove>>)})
DocumentFiles ==
    ListPage(MasterRow, {Reload("uploading", <<Aside>>), Reload("removing", <<Remove>>)})

-----------------------------------------------------------------------------
(* Trucks: a dialog creates one and goes to its page, where two cards save *)
(* the plates and the calibration apart; either reloads the page, and the  *)
(* load overwrites what is typed in both.                                  *)

TruckForm == InDialog(Button("saving", {"new"}, <<SaveHead>>, {"close", "reload", "leave"}))
TrucksPage == MasterCatalogue({TruckForm}, {"new"})

ConfigCard == Reload("saving", <<SaveHead>>)
SaveCalibration == Reload("savingCalibration", <<SaveRows>>)
AddTank == Reload("", <<DeriveRows>>)
CalibrationCard == {SaveCalibration, AddTank}
TruckConfigurePage ==
    DocumentPage(MasterRow, Parts, {"active"}, {ConfigCard} \cup CalibrationCard)

SetupDocumentPages ==
    {ProductsPage, ProductCategoriesPage, StatusesPage, VesselsPage, DestinationsPage,
     DistrictsPage, DepotsPage, TanksPage, TransportersPage, DriversPage, SuppliersPage,
     CustomersPage, BillingAccountsPanel, PartyDocuments, DocumentFiles, TrucksPage,
     TruckConfigurePage}
=============================================================================
