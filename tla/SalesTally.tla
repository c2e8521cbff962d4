----------------------------- MODULE SalesTally -----------------------------
(***************************************************************************)
(* What analytics-svc promises about its read model, without outbox, Kafka *)
(* or redelivery: every order verdict that was recorded adds its numbers   *)
(* to its concert once, at some later time, or never if it was given up.   *)
(***************************************************************************)
EXTENDS Integers

CONSTANTS Messages, Concerts, ConcertOf, Delta(_)

VARIABLES recorded, counted, stats

ZeroStats == [sold |-> 0, revenue |-> 0, confirmed |-> 0, failed |-> 0]

Plus(s, d) ==
  [sold |-> s.sold + d.sold, revenue |-> s.revenue + d.revenue,
   confirmed |-> s.confirmed + d.confirmed, failed |-> s.failed + d.failed]

TallyInit ==
  /\ recorded = {} /\ counted = {}
  /\ stats = [e \in Concerts |-> ZeroStats]

Record(m) == recorded' = recorded \cup {m} /\ UNCHANGED <<counted, stats>>

Count(m) ==
  /\ m \in recorded \ counted
  /\ counted' = counted \cup {m}
  /\ stats' = [stats EXCEPT ![ConcertOf[m]] = Plus(@, Delta(m))]
  /\ UNCHANGED recorded

TallyNext == \E m \in Messages : Record(m) \/ Count(m)

TallySpec == TallyInit /\ [][TallyNext]_<<recorded, counted, stats>>
=============================================================================
