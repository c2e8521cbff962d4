------------------------------ MODULE Purchase ------------------------------
(***************************************************************************)
(* What an idempotency key promises the buyer who sends it, without calls, *)
(* retries, timeouts or services.  A key stands for one purchase of fixed  *)
(* seats.  It may be charged for and its seats be sold to it, all together *)
(* and after the charge; it is decided at most once and the verdict is     *)
(* final.  CONFIRMED is paid for and has its seats; a purchase that failed *)
(* because the seats were gone or the card was declined is never charged.  *)
(***************************************************************************)
CONSTANTS Keys, NoKey, Seats

VARIABLES
  purchase,     \* per key, its purchase
  sold          \* per seat, the key it is sold to, NoKey without one

purchaseVars == <<purchase, sold>>

NotCharged == {"SEATS_UNAVAILABLE", "PAYMENT_DECLINED"}

APurchase ==
  [status : {"NONE", "PENDING", "CONFIRMED", "FAILED"},
   reason : NotCharged \cup {"none", "SERVICE_UNAVAILABLE"},
   seats : SUBSET Seats, paid : BOOLEAN]

Nothing == [status |-> "NONE", reason |-> "none", seats |-> {}, paid |-> FALSE]

PurchaseInit ==
  /\ purchase = [k \in Keys |-> Nothing]
  /\ sold = [s \in Seats |-> NoKey]

Begins(was, now) ==
  was = Nothing /\ now.status = "PENDING" /\ now.reason = "none" /\ ~now.paid

\* A charge and a verdict, or one of them, or neither.
GoesOn(was, now) ==
  /\ was.status # "NONE" /\ now.status # "NONE" /\ now.seats = was.seats
  /\ was.paid => now.paid
  /\ was.status # "PENDING" => now.status = was.status /\ now.reason = was.reason
  /\ now.status = "CONFIRMED" => now.paid
  /\ now.reason \in NotCharged => now.status = "FAILED" /\ ~now.paid

\* All the seats S go to k; none of them was sold to a key before.
Sell(k, S) ==
  /\ \A s \in S : sold[s] = NoKey
  /\ sold' = [s \in Seats |-> IF s \in S THEN k ELSE sold[s]]

\* One purchase makes a step, the others stay as they are.
Step(k, was, now) ==
  /\ now \in APurchase
  /\ purchase' = [purchase EXCEPT ![k] = now]
  /\ \/ Begins(was, now) /\ UNCHANGED sold
     \/ GoesOn(was, now) /\ UNCHANGED sold
     \/ GoesOn(was, now) /\ now.paid /\ now.status # "FAILED" /\ Sell(k, now.seats)
  /\ now.status = "CONFIRMED" => \A s \in now.seats : sold'[s] = k

PurchaseNext == \E k \in Keys : Step(k, purchase[k], purchase'[k])

PurchaseSpec == PurchaseInit /\ [][PurchaseNext]_purchaseVars
=============================================================================
