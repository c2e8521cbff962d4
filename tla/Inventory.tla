----------------------------- MODULE Inventory ------------------------------
(***************************************************************************)
(* inventory-svc: the seats table in Postgres, the hold keys in Redis, the *)
(* three seat handlers, and the sweeper that reconciles the two stores.    *)
(*                                                                         *)
(* A handler is a database transaction followed, after the commit, by one  *)
(* Redis command per seat; the transaction is one step (its row locks make *)
(* it atomic at the commit) and every Redis command is a step of its own.  *)
(* A Redis error is logged and ignored, so each command may also do        *)
(* nothing.  The client of this module is any client: it may call the      *)
(* handlers in any order, each at most once per order.                     *)
(***************************************************************************)
EXTENDS Naturals

CONSTANTS
  Seats, Events, Orders,
  NoOrder,        \* SQL NULL in held_by, "no key" in Redis
  EventOf,        \* seats.event_id
  Req,            \* the event and the seats each order asks for
  RedisFaults,    \* whether a Redis command may fail
  MaxRestarts     \* bound: how often inventory-svc restarts

Status == {"NONE", "AVAILABLE", "HELD", "SOLD"}
SeatMethod == {"Reserve", "Confirm", "Release"}

\* validateSeatRequest lets through requests for at least one seat, none twice (and at
\* most 10, which no property depends on).
SeatRequest == [event : Events, seats : {S \in SUBSET Seats : S # {}}]

ASSUME ConstantsOK ==
  /\ NoOrder \notin Orders
  /\ EventOf \in [Seats -> Events]
  /\ Req \in [Orders -> SeatRequest]
  /\ RedisFaults \in BOOLEAN
  /\ MaxRestarts \in Nat

VARIABLES
  status,         \* seats.status, "NONE" before the row exists
  held_by,        \* seats.held_by
  announced,      \* per seat, the <<event, state>> of its outbox row committed last
  hold_key,       \* Redis hold:seat:<id>, the order that set it
  rpc,            \* per order and method, how far the call has come
  todo,           \* per order and method, the Redis commands still to run
  sweep_pc, heldIDs, expired,   \* the sweeper's place and its two lists
  restarts,
  sold_to         \* history: held_by is set to NULL by the sale

seatVars == <<status, held_by, announced, sold_to>>
sweepVars == <<sweep_pc, heldIDs, expired>>
inventoryVars == <<seatVars, hold_key, rpc, todo, sweepVars, restarts>>

\* "redis": committed, Redis commands outstanding, the reply will be "ok".
RpcState == {"none", "sent", "redis", "ok", "refused", "broken"}

InventoryTypeOK ==
  /\ status \in [Seats -> Status]
  /\ held_by \in [Seats -> Orders \cup {NoOrder}]
  /\ announced \in [Seats -> Events \X Status]
  /\ hold_key \in [Seats -> Orders \cup {NoOrder}]
  /\ rpc \in [Orders -> [SeatMethod -> RpcState]]
  /\ todo \in [Orders -> [SeatMethod -> SUBSET Seats]]
  /\ sweep_pc \in {"idle", "check"}
  /\ heldIDs \in SUBSET Seats
  /\ expired \in SUBSET Seats
  /\ restarts \in 0..MaxRestarts
  /\ sold_to \in [Seats -> Orders \cup {NoOrder}]

InventoryInit ==
  /\ status = [s \in Seats |-> "NONE"]
  /\ held_by = [s \in Seats |-> NoOrder]
  /\ announced = [s \in Seats |-> <<EventOf[s], "NONE">>]
  /\ hold_key = [s \in Seats |-> NoOrder]
  /\ rpc = [o \in Orders |-> [m \in SeatMethod |-> "none"]]
  /\ todo = [o \in Orders |-> [m \in SeatMethod |-> {}]]
  /\ sweep_pc = "idle" /\ heldIDs = {} /\ expired = {}
  /\ restarts = 0
  /\ sold_to = [s \in Seats |-> NoOrder]

-----------------------------------------------------------------------------
(* The seats table.                                                        *)

\* Variant: the two columns of the UPDATE change places.
UpdateSeats_Swapped(S, st, h) ==
  /\ status' = [s \in Seats |-> IF s \in S THEN h ELSE status[s]]
  /\ held_by' = [s \in Seats |-> IF s \in S THEN st ELSE held_by[s]]

\* Variant: held_by is not set back to NULL.
UpdateSeats_KeepsHolder(S, st, h) ==
  /\ status' = [s \in Seats |-> IF s \in S THEN st ELSE status[s]]
  /\ held_by' = [s \in Seats |-> IF s \in S /\ h # NoOrder THEN h ELSE held_by[s]]

\* UPDATE seats SET status = st, held_by = h WHERE id = ANY(S)
UpdateSeats(S, st, h) ==
  /\ status' = [s \in Seats |-> IF s \in S THEN st ELSE status[s]]
  /\ held_by' = [s \in Seats |-> IF s \in S THEN h ELSE held_by[s]]

\* emitSeatEvent: the outbox row committed last that lists a seat of S says <<e[s], st>>.
EmitSeatEvent(S, e, st) ==
  announced' = [s \in Seats |-> IF s \in S THEN <<e[s], st>> ELSE announced[s]]

NamedEvent(o) == [s \in Seats |-> Req[o].event]

\* The reply of call m of order o is decided, or its Redis phase begins.
Reply(o, m, r) == rpc' = [rpc EXCEPT ![o][m] = r]

SendSeatCall(o, m) ==
  /\ rpc[o][m] = "none"
  /\ Reply(o, m, "sent")
  /\ UNCHANGED <<seatVars, hold_key, todo, sweepVars, restarts>>

\* One transaction inserts the event and all of its seats.
CreateEvent(e) ==
  LET rows == {s \in Seats : EventOf[s] = e} IN
  /\ rows # {} /\ \A s \in rows : status[s] = "NONE"
  /\ status' = [s \in Seats |-> IF s \in rows THEN "AVAILABLE" ELSE status[s]]
  /\ UNCHANGED <<held_by, announced, sold_to, hold_key, rpc, todo, sweepVars, restarts>>

\* Variant: the SELECT is not scoped to the event.
LockedRows_AnyEvent(o) == {s \in Req[o].seats : status[s] # "NONE"}

\* SELECT ... WHERE id = ANY(seat_ids) AND event_id = e FOR UPDATE
LockedRows(o) ==
  {s \in Req[o].seats : EventOf[s] = Req[o].event /\ status[s] # "NONE"}

CanReserve(o) ==
  /\ LockedRows(o) = Req[o].seats
  /\ \A s \in LockedRows(o) : status[s] = "AVAILABLE"

ReserveSeats(o) ==
  /\ rpc[o]["Reserve"] = "sent"
  /\ CanReserve(o)
  /\ UpdateSeats(Req[o].seats, "HELD", o)
  /\ EmitSeatEvent(Req[o].seats, NamedEvent(o), "HELD")
  /\ Reply(o, "Reserve", "redis")
  /\ todo' = [todo EXCEPT ![o]["Reserve"] = Req[o].seats]
  /\ UNCHANGED <<sold_to, hold_key, sweepVars, restarts>>

ReserveRefused(o) ==
  /\ rpc[o]["Reserve"] = "sent"
  /\ ~CanReserve(o)
  /\ Reply(o, "Reserve", "refused")
  /\ UNCHANGED <<seatVars, hold_key, todo, sweepVars, restarts>>

\* Variant: the UPDATE forgets whose hold it moves.
RowsHeldBy_AnyHolder(o) ==
  {s \in Req[o].seats : EventOf[s] = Req[o].event /\ status[s] = "HELD"}

\* ... WHERE id = ANY(ids) AND event_id = e AND held_by = o AND status = 'HELD'
RowsHeldBy(o) ==
  {s \in Req[o].seats :
     EventOf[s] = Req[o].event /\ held_by[s] = o /\ status[s] = "HELD"}

\* Variant: some row was updated, not every row.
AllRowsMoved_Some(o) == RowsHeldBy(o) # {}

\* tag.RowsAffected() = len(seatIDs)
AllRowsMoved(o) == RowsHeldBy(o) = Req[o].seats

MoveHeldSeats(o, m, new) ==
  /\ rpc[o][m] = "sent"
  /\ \/ /\ AllRowsMoved(o)
        /\ UpdateSeats(RowsHeldBy(o), new, NoOrder)
        /\ EmitSeatEvent(Req[o].seats, NamedEvent(o), new)
        /\ sold_to' = [s \in Seats |-> IF s \in RowsHeldBy(o) /\ new = "SOLD"
                                       THEN o ELSE sold_to[s]]
        /\ Reply(o, m, "redis")
        /\ todo' = [todo EXCEPT ![o][m] = Req[o].seats]
     \/ /\ ~AllRowsMoved(o)
        /\ Reply(o, m, "refused")
        /\ UNCHANGED <<seatVars, todo>>
  /\ UNCHANGED <<hold_key, sweepVars, restarts>>

ConfirmSeats(o) == MoveHeldSeats(o, "Confirm", "SOLD")
ReleaseSeats(o) == MoveHeldSeats(o, "Release", "AVAILABLE")

\* Begin, a query or the commit fails, or Postgres breaks a lock cycle: rollback.
HandlerFails(o, m) ==
  /\ rpc[o][m] = "sent"
  /\ Reply(o, m, "broken")
  /\ UNCHANGED <<seatVars, hold_key, todo, sweepVars, restarts>>

-----------------------------------------------------------------------------
(* The hold keys.                                                          *)

\* SET with holdTTL after a reservation, DEL after a confirm or a release.
TouchKey(o, m, s) ==
  /\ s \in todo[o][m]
  /\ hold_key' = [hold_key EXCEPT ![s] = IF m = "Reserve" THEN o ELSE NoOrder]
  /\ todo' = [todo EXCEPT ![o][m] = @ \ {s}]
  /\ UNCHANGED <<seatVars, rpc, sweepVars, restarts>>

TouchKeyFails(o, m, s) ==
  /\ RedisFaults
  /\ s \in todo[o][m]
  /\ todo' = [todo EXCEPT ![o][m] = @ \ {s}]
  /\ UNCHANGED <<seatVars, hold_key, rpc, sweepVars, restarts>>

HandlerReturns(o, m) ==
  /\ rpc[o][m] = "redis" /\ todo[o][m] = {}
  /\ Reply(o, m, "ok")
  /\ UNCHANGED <<seatVars, hold_key, todo, sweepVars, restarts>>

\* holdTTL has passed since the SET.
KeyExpires(s) ==
  /\ hold_key[s] # NoOrder
  /\ hold_key' = [hold_key EXCEPT ![s] = NoOrder]
  /\ UNCHANGED <<seatVars, rpc, todo, sweepVars, restarts>>

-----------------------------------------------------------------------------
(* The sweeper: list the HELD seats, look up each key, free the expired.   *)

SweepQuery ==
  /\ sweep_pc = "idle"
  /\ heldIDs' = {s \in Seats : status[s] = "HELD"}
  /\ heldIDs' # {}
  /\ expired' = {}
  /\ sweep_pc' = "check"
  /\ UNCHANGED <<seatVars, hold_key, rpc, todo, restarts>>

\* Variant: the answer of EXISTS is read the wrong way round.
SweepCheck_Inverted(s) ==
  /\ sweep_pc = "check" /\ s \in heldIDs
  /\ heldIDs' = heldIDs \ {s}
  /\ expired' = IF hold_key[s] # NoOrder THEN expired \cup {s} ELSE expired
  /\ UNCHANGED <<sweep_pc, seatVars, hold_key, rpc, todo, restarts>>

SweepCheck(s) ==
  /\ sweep_pc = "check" /\ s \in heldIDs
  /\ heldIDs' = heldIDs \ {s}
  /\ expired' = IF hold_key[s] = NoOrder THEN expired \cup {s} ELSE expired
  /\ UNCHANGED <<sweep_pc, seatVars, hold_key, rpc, todo, restarts>>

SweepCheckFails(s) ==
  /\ RedisFaults
  /\ sweep_pc = "check" /\ s \in heldIDs
  /\ heldIDs' = heldIDs \ {s}
  /\ UNCHANGED <<sweep_pc, expired, seatVars, hold_key, rpc, todo, restarts>>

\* Variant: the UPDATE trusts the list and does not look at the status again.
SweptRows_NoRecheck == expired

\* UPDATE ... WHERE id = ANY(expired) AND status = 'HELD' RETURNING id, event_id
SweptRows == {s \in expired : status[s] = "HELD"}

SweepEnds == sweep_pc' = "idle" /\ heldIDs' = {} /\ expired' = {}

SweepRelease ==
  /\ sweep_pc = "check" /\ heldIDs = {} /\ expired # {}
  /\ UpdateSeats(SweptRows, "AVAILABLE", NoOrder)
  /\ EmitSeatEvent(SweptRows, EventOf, "AVAILABLE")
  /\ SweepEnds
  /\ UNCHANGED <<sold_to, hold_key, rpc, todo, restarts>>

\* Nothing expired, or the transaction failed and is logged.
SweepReturns ==
  /\ sweep_pc = "check" /\ heldIDs = {}
  /\ SweepEnds
  /\ UNCHANGED <<seatVars, hold_key, rpc, todo, restarts>>

\* The process dies: Redis commands not yet sent never are, the sweep is lost.
InventoryRestart ==
  /\ restarts < MaxRestarts
  /\ restarts' = restarts + 1
  /\ rpc' = [o \in Orders |-> [m \in SeatMethod |->
               IF rpc[o][m] = "redis" THEN "broken" ELSE rpc[o][m]]]
  /\ todo' = [o \in Orders |-> [m \in SeatMethod |-> {}]]
  /\ SweepEnds
  /\ UNCHANGED <<seatVars, hold_key>>

-----------------------------------------------------------------------------
Sweeper ==
  \/ SweepQuery \/ SweepRelease \/ SweepReturns
  \/ \E s \in Seats : SweepCheck(s) \/ SweepCheckFails(s)

\* What the service does once a call has reached it, on behalf of order o.
Handler(o) ==
  \/ ReserveSeats(o) \/ ReserveRefused(o) \/ ConfirmSeats(o) \/ ReleaseSeats(o)
  \/ \E m \in SeatMethod :
       \/ HandlerFails(o, m) \/ HandlerReturns(o, m)
       \/ \E s \in Seats : TouchKey(o, m, s) \/ TouchKeyFails(o, m, s)

InventoryNext ==
  \/ \E e \in Events : CreateEvent(e)
  \/ \E o \in Orders : Handler(o) \/ \E m \in SeatMethod : SendSeatCall(o, m)
  \/ \E s \in Seats : KeyExpires(s)
  \/ Sweeper \/ InventoryRestart

InventorySpec == InventoryInit /\ [][InventoryNext]_inventoryVars

-----------------------------------------------------------------------------
(* Properties.                                                             *)

\* The seats table, with the buyers it forgets, as the abstract seat sale.
RowView(st, holder, buyer) ==
  CASE st = "NONE" -> <<"unborn">>
    [] st = "AVAILABLE" -> <<"free">>
    [] st = "HELD" -> <<"held", holder>>
    [] st = "SOLD" -> <<"sold", buyer>>

SeatView == [s \in Seats |-> RowView(status[s], held_by[s], sold_to[s])]

Sale == INSTANCE SeatSale
          WITH seat <- SeatView, Wanted <- [o \in Orders |-> Req[o].seats]

\* Whatever the handlers, the late Redis commands, the sweeper and a restart
\* do, the seats table goes through steps of the abstract sale only: a seat is
\* taken from AVAILABLE, bought by its holder together with the order's other
\* seats, and never leaves its buyer.
RefinesSeatSale == Sale!SaleSpec

\* A seat has a holder exactly while it is HELD and a buyer exactly while it is
\* SOLD: every UPDATE moves status and held_by together, the sweeper's included.
HolderMatchesStatus ==
  \A s \in Seats : /\ held_by[s] # NoOrder <=> status[s] = "HELD"
                   /\ sold_to[s] # NoOrder <=> status[s] = "SOLD"

\* ConfirmSeats sells an order all of its seats or none of them, also when the
\* sweeper has already freed some of the order's holds.
AllOrNothingSale ==
  \A o \in Orders :
    LET bought == {s \in Seats : sold_to[s] = o} IN
    bought = {} \/ bought = Req[o].seats

\* The outbox row committed last that lists a seat names the seat's own event and its
\* present status (CreateEvent writes no row): a change of a seat and its
\* announcement are one transaction, and ReserveSeats is scoped to the event.
OutboxAgrees ==
  \A s \in Seats :
    \/ announced[s] = <<EventOf[s], status[s]>>
    \/ announced[s] = <<EventOf[s], "NONE">> /\ status[s] = "AVAILABLE"

\* A hold ends only through its own order's ConfirmSeats or ReleaseSeats, or
\* through the sweeper's UPDATE: no call made for one order touches a seat
\* another order holds.
HoldersOnly ==
  [][\A s \in Seats, o \in Orders :
       held_by[s] = o /\ held_by'[s] # o =>
         \/ rpc[o]["Confirm"] = "sent" /\ status'[s] = "SOLD"
         \/ rpc[o]["Release"] = "sent" /\ status'[s] = "AVAILABLE"
         \/ s \in expired /\ status'[s] = "AVAILABLE"]_inventoryVars
=============================================================================
