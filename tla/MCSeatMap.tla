----------------------------- MODULE MCSeatMap -----------------------------
(***************************************************************************)
(* SeatMap with one page that shows one seat, a buffer of one update, and  *)
(* a hub with room for the page and one connection it has left behind.     *)
(***************************************************************************)
EXTENDS SeatMap

CONSTANTS s1, b1, concert

MCEventOf == [s \in {s1} |-> concert]
MCWatches == [b \in {b1} |-> concert]
MCConns == 1..3
=============================================================================
