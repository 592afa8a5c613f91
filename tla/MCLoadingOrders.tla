---------------------------- MODULE MCLoadingOrders ----------------------------
(* Small instances of LoadingOrders: the gantry measures more than some    *)
(* trucks ask for, and less than others.                                   *)
EXTENDS LoadingOrders

CONSTANTS q1, q2, t1, t2, t3

(* A request for two trucks and one for a single truck, the last one.      *)
PairAndSingle == [t \in Trucks |-> IF t = t3 THEN q2 ELSE q1]
(* Two requests for a truck each.                                          *)
OneEach  == [t \in Trucks |-> IF t = t1 THEN q1 ELSE q2]
Apart    == {{q1}, {q2}}
Together == {{q1, q2}}
Two      == [t \in Trucks |-> 2]
TwoOrFour == [t \in Trucks |-> IF t = t2 THEN 4 ELSE 2]
================================================================================
