---------------------------- MODULE MCInventory -----------------------------
(* Small instances of Inventory for TLC.                                   *)
EXTENDS Inventory

CONSTANTS s1, s2, o1, o2, e1, e2

\* Two seats of one event, both wanted by o1 and one of them by o2.
OneEvent == [s \in Seats |-> e1]
Rivals ==
  [o \in Orders |-> [event |-> e1, seats |-> IF o = o1 THEN {s1, s2} ELSE {s2}]]

\* A seat of each of two events: o1 wants the one of e2, o2 asks for both under e1.
TwoEvents == [s \in Seats |-> IF s = s1 THEN e1 ELSE e2]
MixedSeats ==
  [o \in Orders |-> IF o = o1 THEN [event |-> e2, seats |-> {s2}]
                              ELSE [event |-> e1, seats |-> {s1, s2}]]
=============================================================================
