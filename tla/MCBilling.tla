------------------------------- MODULE MCBilling -------------------------------
(* One receipt line, one parcel split off it, and the nightly job together *)
(* with an operator's request.                                             *)
EXTENDS Billing

CONSTANTS p1, k1
SplitOff == [k \in Kids |-> p1]
================================================================================
