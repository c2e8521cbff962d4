---------------------------- MODULE MCOrderSaga -----------------------------
(* Small instances of OrderSaga for TLC.                                   *)
EXTENDS OrderSaga, TLC

CONSTANTS s1, s2, o1, o2, o3, e1, k

OneEvent == [s \in Seats |-> e1]

\* Two customers want the same seat; neither sends a key.
OneSeat == [o \in Orders |-> [event |-> e1, seats |-> {s1}]]
NoKeys == [o \in Orders |-> NoKey]
Payable == [o \in Orders |-> 10]

\* o1 and its retry o2 carry one key; o3 reuses it for an amount that payment-svc
\* declines.
OneKey == [o \in Orders |-> k]
Amounts == [o \in Orders |-> IF o = o3 THEN 7 ELSE 10]

\* One order of two seats.
BothSeats == [o \in Orders |-> [event |-> e1, seats |-> {s1, s2}]]

\* Exchanging the two customers, or the call and its retry, changes nothing.
Customers == Permutations({o1, o2})
=============================================================================
