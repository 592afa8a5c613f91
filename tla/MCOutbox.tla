------------------------------- MODULE MCOutbox -------------------------------
(* Small instances of Outbox: two delays, the second one repeating.        *)
EXTENDS Outbox, TLC

MCDelays == <<1, 2>>
RowSymmetry == Permutations(Rows)
DrainSymmetry == Permutations(Drains)
SmallSymmetry == RowSymmetry \cup DrainSymmetry
================================================================================
