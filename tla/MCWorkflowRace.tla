---------------------------- MODULE MCWorkflowRace ----------------------------
(* Overlapping requests of two people on one loading request.              *)
EXTENDS WorkflowRace, TLC

LoadingRequests == {[guarded |-> TRUE, soft |-> "rejected", marks |-> TRUE]}
OneSubmission == {[submissions |-> 1, edits |-> 0]}

RaceSymmetry == Permutations(Users) \cup Permutations(Steps)
===============================================================================
