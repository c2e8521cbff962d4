------------------------------ MODULE SeatSale ------------------------------
(***************************************************************************)
(* What inventory-svc promises about seats, without its database, its      *)
(* cache, its remote calls or its sweeper.  A seat is unborn until its     *)
(* event is created, then free, held by one order, or sold to one order.   *)
(* An order takes and buys its seats all together.  Held seats may be      *)
(* freed at any moment.  A sold seat stays with its buyer.                 *)
(***************************************************************************)
CONSTANTS Seats, Orders, Wanted

VARIABLE seat

Unborn == <<"unborn">>
Free == <<"free">>
HeldBy(o) == <<"held", o>>
SoldTo(o) == <<"sold", o>>

SeatState ==
  {Unborn, Free} \cup {HeldBy(o) : o \in Orders} \cup {SoldTo(o) : o \in Orders}

SaleTypeOK == seat \in [Seats -> SeatState]

SaleInit == seat = [s \in Seats |-> Unborn]

\* Every seat of S moves to the state x, the others stay.
Move(S, x) == seat' = [s \in Seats |-> IF s \in S THEN x ELSE seat[s]]

Open(S) == (\A s \in S : seat[s] = Unborn) /\ Move(S, Free)

Take(o) == (\A s \in Wanted[o] : seat[s] = Free) /\ Move(Wanted[o], HeldBy(o))

GiveUp(S) ==
  /\ \A s \in S : \E o \in Orders : seat[s] = HeldBy(o)
  /\ Move(S, Free)

Buy(o) == (\A s \in Wanted[o] : seat[s] = HeldBy(o)) /\ Move(Wanted[o], SoldTo(o))

SaleNext ==
  \/ \E S \in SUBSET Seats : Open(S) \/ GiveUp(S)
  \/ \E o \in Orders : Take(o) \/ Buy(o)

SaleSpec == SaleInit /\ [][SaleNext]_seat
=============================================================================
