----------------------------- MODULE MCCheckout -----------------------------
(* A small instance of Checkout for TLC.                                   *)
EXTENDS Checkout

CONSTANTS s1, s2

\* Two buyers, one with more seats to choose from and one with more bad luck,
\* and an organizer whose requests fill up the buckets.
MCRoleOf == [ana |-> "user", ben |-> "user", olga |-> "organizer"]
MCPeople == DOMAIN MCRoleOf
MCVisit ==
  [ana  |-> [pages |-> {"event", "order"}, wants |-> {s1}, faults |-> 1, clicks |-> 3],
   ben  |-> [pages |-> {"event"}, wants |-> {s1, s2}, faults |-> 0, clicks |-> 3],
   olga |-> [pages |-> {"organizer"}, wants |-> {}, faults |-> 1, clicks |-> 3]]

\* Nothing fails.
MCCalmVisit == [p \in MCPeople |-> [pages |-> {"event"}, wants |-> {s1}, faults |-> 0, clicks |-> 3]]

MCLimitOf == [orders |-> 2, read |-> 1, write |-> 1, browse |-> 1]
MCMetered == {<<"read", "olga">>, <<"write", "olga">>}

\* At and beyond the largest event; a number that is refused, none, and one
\* beyond the ceiling of the lists that is an event's number as well.
MCSeatCounts == {500, 501}
MCListLimits == {-1, 0, 201}
=============================================================================
