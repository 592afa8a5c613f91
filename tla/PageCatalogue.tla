---------------------------- MODULE PageCatalogue ----------------------------
(* All the pages of the console; pages that behave alike are one element.  *)
EXTENDS StockPages, FinancePages, SetupPages, AccessPages

AllPages == StockDocumentPages \cup FinanceDocumentPages
            \cup SetupDocumentPages \cup AccessDocumentPages
=============================================================================
