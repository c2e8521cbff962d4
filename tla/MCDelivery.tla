----------------------------- MODULE MCDelivery -----------------------------
(* A small instance of Delivery for TLC.                                   *)
EXTENDS Delivery

CONSTANTS e1, p1, p2, c1, c2

\* The first row is a sale; the second does not decode.
Bodies ==
  [r \in Rows |->
    [type |-> IF r = 1 THEN "CONFIRMED" ELSE "garbled",
     concert |-> e1, seats |-> 2, cents |-> 10]]
=============================================================================
