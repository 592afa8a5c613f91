------------------------------ MODULE MCPages ------------------------------
(* Every page of the catalogue, each in front of a document of its own. *)
EXTENDS Pages

MCPlans == AllPages
=============================================================================
