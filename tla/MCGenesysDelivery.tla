-------------------------- MODULE MCGenesysDelivery --------------------------
(***************************************************************************)
(* Small instances of GenesysDelivery for TLC.                             *)
(***************************************************************************)
EXTENDS GenesysDelivery

CONSTANTS w1, w2, d1, d2, d3

\* The queue has two copies of w1, d1 and d2, and one of w2.
SecondCopy == [d \in Deliveries |-> IF d = d3 THEN w2 ELSE w1]
=============================================================================
