------------------------------ MODULE MCWorkflow ------------------------------
(* Small instances of Workflow for TLC.  People are interchangeable, and   *)
(* so are steps: every order of every choice of them is an initial chain.  *)
EXTENDS Workflow, TLC

(* Fee batches, billing runs and changes of service come back returned and *)
(* may be submitted in any status; loading requests come back rejected and *)
(* are submitted as drafts only.                                           *)
BillingFamily == [guarded |-> FALSE, soft |-> "returned", marks |-> TRUE]
LoadingFamily == [guarded |-> TRUE, soft |-> "rejected", marks |-> TRUE]
MCFamilies == {BillingFamily, LoadingFamily}

(* Two submissions, or one and an administrative change.                   *)
MCBounds == {[submissions |-> 2, edits |-> 0], [submissions |-> 1, edits |-> 1]}

Symmetry == Permutations(Users) \cup Permutations(Steps)
===============================================================================
