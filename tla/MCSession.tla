------------------------------ MODULE MCSession ------------------------------
(* Two tabs of one browser. *)
EXTENDS Session

CONSTANTS x, y
==============================================================================
