--------------------------- MODULE InventoryProofs --------------------------
(* Theorems about inventory-svc, for any seats, orders and requests.        *)
EXTENDS Inventory, TLAPS

\* Setting one entry of a table keeps its type and its other entries.
LEMMA EntryUpdate ==
  ASSUME NEW A, NEW B, NEW f \in [A -> B], NEW a \in A, NEW b \in B
  PROVE  /\ [f EXCEPT ![a] = b] \in [A -> B]
         /\ [f EXCEPT ![a] = b][a] = b
         /\ \A x \in A : x # a => [f EXCEPT ![a] = b][x] = f[x]
OBVIOUS

\* The same for one entry of a table indexed by order and method.
LEMMA TableUpdate ==
  ASSUME NEW A, NEW B, NEW C, NEW f \in [A -> [B -> C]],
         NEW a \in A, NEW b \in B, NEW c \in C
  PROVE  [f EXCEPT ![a][b] = c] \in [A -> [B -> C]]
OBVIOUS

\* What validateSeatRequest guarantees of the request of an order.
LEMMA RequestType ==
  ASSUME NEW o \in Orders
  PROVE  /\ Req[o].seats \in SUBSET Seats
         /\ Req[o].seats # {}
         /\ Req[o].event \in Events
BY ConstantsOK, Zenon DEF SeatRequest

\* What a step that only answers a call does to the table of calls.
LEMMA ReplyType ==
  ASSUME InventoryTypeOK, NEW o \in Orders, NEW m \in SeatMethod,
         NEW r \in RpcState, Reply(o, m, r)
  PROVE  rpc' \in [Orders -> [SeatMethod -> RpcState]]
BY TableUpdate, Zenon DEF InventoryTypeOK, Reply

\* Every step of inventory-svc keeps the types of its state.
LEMMA InventoryTypeStep ==
  ASSUME InventoryTypeOK, [InventoryNext]_inventoryVars
  PROVE  InventoryTypeOK'
<1> USE ConstantsOK DEF InventoryTypeOK, Status, SeatMethod, SeatRequest
<1> USE DEF seatVars, sweepVars
<1> HIDE DEF RpcState
<1>0. {"sent", "redis", "ok", "refused", "broken"} \subseteq RpcState
  BY Zenon DEF RpcState
<1>1. ASSUME NEW e \in Events, CreateEvent(e) PROVE InventoryTypeOK'
  BY <1>1, Zenon DEF CreateEvent
<1>2. ASSUME NEW o \in Orders, NEW m \in SeatMethod,
             SendSeatCall(o, m) \/ HandlerFails(o, m) \/ HandlerReturns(o, m)
      PROVE  InventoryTypeOK'
  <2>1. rpc' \in [Orders -> [SeatMethod -> RpcState]]
    BY <1>0, <1>2, ReplyType DEF SendSeatCall, HandlerFails, HandlerReturns
  <2>2. QED
    BY <1>2, <2>1, Zenon DEF SendSeatCall, HandlerFails, HandlerReturns
<1>3. ASSUME NEW o \in Orders, ReserveSeats(o) PROVE InventoryTypeOK'
  <2>1. rpc' \in [Orders -> [SeatMethod -> RpcState]]
    BY <1>0, <1>3, ReplyType, Zenon DEF ReserveSeats
  <2>2. todo' \in [Orders -> [SeatMethod -> SUBSET Seats]]
    BY <1>3, TableUpdate DEF ReserveSeats
  <2>3. QED
    BY <1>3, <2>1, <2>2, Zenon DEF ReserveSeats, UpdateSeats, EmitSeatEvent, NamedEvent
<1>4. ASSUME NEW o \in Orders, ReserveRefused(o) PROVE InventoryTypeOK'
  <2>1. rpc' \in [Orders -> [SeatMethod -> RpcState]]
    BY <1>0, <1>4, ReplyType, Zenon DEF ReserveRefused
  <2>2. QED
    BY <1>4, <2>1, Zenon DEF ReserveRefused
<1>5. ASSUME NEW o \in Orders, NEW m \in SeatMethod,
             NEW new \in {"SOLD", "AVAILABLE"}, MoveHeldSeats(o, m, new)
      PROVE  InventoryTypeOK'
  <2>1. rpc' \in [Orders -> [SeatMethod -> RpcState]]
    BY <1>0, <1>5, ReplyType DEF MoveHeldSeats
  <2>2. CASE AllRowsMoved(o)
    <3>1. todo' \in [Orders -> [SeatMethod -> SUBSET Seats]]
      <4>1. todo' = [todo EXCEPT ![o][m] = Req[o].seats]
        BY <1>5, <2>2, Zenon DEF MoveHeldSeats
      <4>2. QED
        BY <4>1, RequestType, TableUpdate, Zenon
    <3>2. sold_to' \in [Seats -> Orders \cup {NoOrder}]
      BY <1>5, <2>2, Zenon DEF MoveHeldSeats
    <3>3. QED
      BY <1>5, <2>1, <2>2, <3>1, <3>2
         DEF MoveHeldSeats, UpdateSeats, EmitSeatEvent, NamedEvent
  <2>3. CASE ~AllRowsMoved(o)
    BY <1>5, <2>1, <2>3, Zenon DEF MoveHeldSeats
  <2>4. QED
    BY <2>2, <2>3, Zenon
<1>8. ASSUME NEW o \in Orders, NEW m \in SeatMethod, NEW s \in Seats,
             TouchKey(o, m, s) \/ TouchKeyFails(o, m, s)
      PROVE  InventoryTypeOK'
  <2>1. todo' = [todo EXCEPT ![o][m] = todo[o][m] \ {s}]
    BY <1>8, Zenon DEF TouchKey, TouchKeyFails
  <2>2. todo' \in [Orders -> [SeatMethod -> SUBSET Seats]]
    BY <2>1, TableUpdate
  <2>3. hold_key' \in [Seats -> Orders \cup {NoOrder}]
    <3>1. PICK h \in Orders \cup {NoOrder} :
            hold_key' = hold_key \/ hold_key' = [hold_key EXCEPT ![s] = h]
      BY <1>8, Zenon DEF TouchKey, TouchKeyFails
    <3>2. hold_key \in [Seats -> Orders \cup {NoOrder}]
      OBVIOUS
    <3> HIDE DEF InventoryTypeOK
    <3>3. QED
      BY <3>1, <3>2, EntryUpdate
  <2>4. QED
    BY <1>8, <2>2, <2>3, Zenon DEF TouchKey, TouchKeyFails
<1>9. ASSUME NEW s \in Seats, KeyExpires(s) PROVE InventoryTypeOK'
  BY <1>9, Zenon DEF KeyExpires
<1>10. CASE Sweeper
  <2>1. CASE SweepQuery
    BY <2>1, Zenon DEF SweepQuery
  <2>2. CASE SweepRelease
    BY <2>2, Zenon DEF SweepRelease, SweptRows, SweepEnds, UpdateSeats, EmitSeatEvent
  <2>3. CASE SweepReturns
    BY <2>3, Zenon DEF SweepReturns, SweepEnds
  <2>4. ASSUME NEW s \in Seats, SweepCheck(s) \/ SweepCheckFails(s)
        PROVE  InventoryTypeOK'
    BY <2>4, Zenon DEF SweepCheck, SweepCheckFails
  <2>5. QED
    BY <1>10, <2>1, <2>2, <2>3, <2>4, Zenon DEF Sweeper
<1>11. CASE InventoryRestart
  BY <1>0, <1>11 DEF InventoryRestart, SweepEnds
<1>12. CASE UNCHANGED inventoryVars
  BY <1>12, Zenon DEF inventoryVars
<1>13. QED
  BY <1>1, <1>2, <1>3, <1>4, <1>5, <1>8, <1>9, <1>10, <1>11, <1>12
     DEF InventoryNext, Handler, ConfirmSeats, ReleaseSeats

\* The type invariant of inventory-svc holds in every reachable state.
THEOREM InventoryTypeCorrect == InventorySpec => []InventoryTypeOK
<1>1. InventoryInit => InventoryTypeOK
  BY ConstantsOK DEF InventoryInit, InventoryTypeOK, Status, SeatMethod, SeatRequest, RpcState
<1>2. InventoryTypeOK /\ [InventoryNext]_inventoryVars => InventoryTypeOK'
  BY InventoryTypeStep, Zenon
<1>3. QED
  BY <1>1, <1>2, PTL DEF InventorySpec

-----------------------------------------------------------------------------
(* The steps that change the seats table, and what they do to it.           *)

\* A confirm or release whose UPDATE reached every seat of the order.
Moves(o, new) ==
  /\ rpc[o][IF new = "SOLD" THEN "Confirm" ELSE "Release"] = "sent"
  /\ RowsHeldBy(o) = Req[o].seats
  /\ UpdateSeats(Req[o].seats, new, NoOrder)
  /\ EmitSeatEvent(Req[o].seats, NamedEvent(o), new)
  /\ sold_to' = [s \in Seats |-> IF s \in Req[o].seats /\ new = "SOLD"
                                 THEN o ELSE sold_to[s]]

\* Calls, refusals, errors, Redis commands, the sweeper's reads and a restart
\* leave the seats table alone; what is left are the five transactions.
LEMMA SeatStepCases ==
  ASSUME [InventoryNext]_inventoryVars
  PROVE  \/ UNCHANGED seatVars
         \/ \E e \in Events : CreateEvent(e)
         \/ \E o \in Orders : ReserveSeats(o)
         \/ \E o \in Orders : Moves(o, "SOLD") \/ Moves(o, "AVAILABLE")
         \/ SweepRelease
<1>1. ASSUME NEW o \in Orders, Handler(o)
      PROVE  \/ UNCHANGED seatVars \/ ReserveSeats(o)
             \/ Moves(o, "SOLD") \/ Moves(o, "AVAILABLE")
  <2>1. CASE ConfirmSeats(o)
    BY <2>1, Zenon DEF ConfirmSeats, MoveHeldSeats, AllRowsMoved, Moves
  <2>2. CASE ReleaseSeats(o)
    BY <2>2, Zenon DEF ReleaseSeats, MoveHeldSeats, AllRowsMoved, Moves
  <2>3. QED
    BY <1>1, <2>1, <2>2, Zenon
       DEF Handler, ReserveRefused, HandlerFails, HandlerReturns, TouchKey, TouchKeyFails
<1>2. QED
  BY <1>1, Zenon DEF InventoryNext, SendSeatCall, KeyExpires, InventoryRestart, inventoryVars,
     Sweeper, SweepQuery, SweepReturns, SweepCheck, SweepCheckFails

SeatInv == InventoryTypeOK /\ HolderMatchesStatus /\ AllOrNothingSale /\ OutboxAgrees

\* The three invariants of the seats table are preserved together: AllOrNothing
\* needs HolderMatchesStatus (a seat o holds is sold to nobody), which needs types.
LEMMA SeatInvStep ==
  ASSUME SeatInv, InventoryTypeOK', [InventoryNext]_inventoryVars
  PROVE  SeatInv'
<1> SUFFICES HolderMatchesStatus' /\ AllOrNothingSale' /\ OutboxAgrees'
  BY Zenon DEF SeatInv
<1>0. NoOrder \notin Orders /\ HolderMatchesStatus /\ AllOrNothingSale /\ OutboxAgrees
  BY ConstantsOK, Zenon DEF SeatInv
<1>1. CASE UNCHANGED seatVars
  BY <1>0, <1>1, Zenon DEF seatVars, AllOrNothingSale, HolderMatchesStatus, OutboxAgrees
<1>2. ASSUME NEW e \in Events, CreateEvent(e)
      PROVE  HolderMatchesStatus' /\ AllOrNothingSale' /\ OutboxAgrees'
  <2>1. HolderMatchesStatus' /\ OutboxAgrees'
    BY <1>0, <1>2, Zenon DEF CreateEvent, HolderMatchesStatus, OutboxAgrees
  <2>2. AllOrNothingSale'
    BY <1>0, <1>2, Zenon DEF CreateEvent, AllOrNothingSale
  <2>3. QED
    BY <2>1, <2>2, Zenon
<1>3. ASSUME NEW o \in Orders, ReserveSeats(o)
      PROVE  HolderMatchesStatus' /\ AllOrNothingSale' /\ OutboxAgrees'
  <2>1. \A s \in Req[o].seats : status[s] = "AVAILABLE" /\ EventOf[s] = Req[o].event
    BY <1>3, Zenon DEF ReserveSeats, CanReserve, LockedRows
  <2>2. HolderMatchesStatus'
    BY <1>0, <1>3, <2>1, RequestType, Zenon DEF ReserveSeats, UpdateSeats, HolderMatchesStatus
  <2>3. OutboxAgrees'
    BY <1>0, <1>3, <2>1, RequestType, Zenon
       DEF ReserveSeats, UpdateSeats, EmitSeatEvent, NamedEvent, OutboxAgrees
  <2>4. AllOrNothingSale'
    BY <1>0, <1>3, Zenon DEF ReserveSeats, AllOrNothingSale
  <2>5. QED
    BY <2>2, <2>3, <2>4, Zenon
<1>4. ASSUME NEW o \in Orders, NEW new \in {"SOLD", "AVAILABLE"}, Moves(o, new)
      PROVE  HolderMatchesStatus' /\ AllOrNothingSale' /\ OutboxAgrees'
  <2>1. \A s \in Req[o].seats :
          status[s] = "HELD" /\ held_by[s] = o /\ EventOf[s] = Req[o].event
    BY <1>4, Zenon DEF Moves, RowsHeldBy
  <2>2. HolderMatchesStatus'
    BY <1>0, <1>4, <2>1, RequestType, Zenon DEF Moves, UpdateSeats, HolderMatchesStatus
  <2>3. OutboxAgrees'
    BY <1>0, <1>4, <2>1, RequestType, Zenon
       DEF Moves, UpdateSeats, EmitSeatEvent, NamedEvent, OutboxAgrees
  <2>4. AllOrNothingSale'
    <3> SUFFICES ASSUME NEW p \in Orders
                 PROVE  LET bought == {s \in Seats : sold_to'[s] = p} IN
                        bought = {} \/ bought = Req[p].seats
      BY Zenon DEF AllOrNothingSale
    <3>1. \A s \in Req[o].seats : sold_to[s] = NoOrder
      BY <1>0, <2>1, RequestType, Zenon DEF HolderMatchesStatus
    <3>2. CASE new = "AVAILABLE"
      BY <1>0, <1>4, <3>2, Zenon DEF Moves, AllOrNothingSale
    <3>3. CASE new = "SOLD" /\ p = o
      <4>1. \A s \in Seats : sold_to[s] # o
        <5>1. PICK t : t \in Req[o].seats
          BY RequestType, Zenon
        <5>2. t \notin {s \in Seats : sold_to[s] = o}
          BY <1>0, <3>1, <5>1, RequestType, Zenon
        <5>3. {s \in Seats : sold_to[s] = o} # Req[o].seats
          BY <5>1, <5>2, Zenon
        <5>4. {s \in Seats : sold_to[s] = o} = {}
          BY <1>0, <5>3, Zenon DEF AllOrNothingSale
        <5>5. QED
          BY <5>4, Zenon
      <4>2. \A s \in Seats : sold_to'[s] = o <=> s \in Req[o].seats
        BY <1>4, <3>3, <4>1, Zenon DEF Moves
      <4>3. QED
        BY <3>3, <4>2, RequestType, Zenon
    <3>4. CASE new = "SOLD" /\ p # o
      <4>1. \A s \in Seats : sold_to'[s] = p <=> sold_to[s] = p
        BY <1>0, <1>4, <3>1, <3>4, Zenon DEF Moves
      <4>2. {s \in Seats : sold_to'[s] = p} = {s \in Seats : sold_to[s] = p}
        BY <4>1, Zenon
      <4>3. QED
        BY <1>0, <4>2, Zenon DEF AllOrNothingSale
    <3>5. QED
      BY <3>2, <3>3, <3>4, Zenon
  <2>5. QED
    BY <2>2, <2>3, <2>4, Zenon
<1>5. CASE SweepRelease
  <2>1. HolderMatchesStatus' /\ OutboxAgrees'
    BY <1>0, <1>5, Zenon
       DEF SweepRelease, SweptRows, UpdateSeats, EmitSeatEvent, HolderMatchesStatus, OutboxAgrees
  <2>2. AllOrNothingSale'
    BY <1>0, <1>5, Zenon DEF SweepRelease, AllOrNothingSale
  <2>3. QED
    BY <2>1, <2>2, Zenon
<1>6. QED
  BY <1>1, <1>2, <1>3, <1>4, <1>5, SeatStepCases, Zenon

\* In every reachable state a sale is all or nothing, holders and buyers match
\* the status, and the outbox agrees with the seats table.
THEOREM SeatsCorrect == InventorySpec => [](HolderMatchesStatus /\ AllOrNothingSale /\ OutboxAgrees)
<1>1. InventoryInit => HolderMatchesStatus /\ AllOrNothingSale /\ OutboxAgrees
  BY ConstantsOK DEF InventoryInit, HolderMatchesStatus, AllOrNothingSale, OutboxAgrees
<1>2. InventoryTypeOK /\ InventoryTypeOK' /\ HolderMatchesStatus /\ AllOrNothingSale
        /\ OutboxAgrees /\ [InventoryNext]_inventoryVars
      => (HolderMatchesStatus /\ AllOrNothingSale /\ OutboxAgrees)'
  BY SeatInvStep, Zenon DEF SeatInv
<1>3. QED
  BY <1>1, <1>2, InventoryTypeCorrect, PTL DEF InventorySpec

\* A seat has a holder exactly while it is HELD, a buyer exactly while it is SOLD.
THEOREM HoldersCorrect == InventorySpec => []HolderMatchesStatus
BY SeatsCorrect, PTL

\* The outbox row committed last for every seat agrees with the seats table.
THEOREM OutboxCorrect == InventorySpec => []OutboxAgrees
BY SeatsCorrect, PTL

\* No step takes a hold away from an order except that order's own confirm or
\* release and the sweeper's UPDATE.
THEOREM HoldersOnlyCorrect == InventorySpec => HoldersOnly
<1>1. InventoryTypeOK /\ HolderMatchesStatus /\ [InventoryNext]_inventoryVars =>
      [\A s \in Seats, o \in Orders :
         held_by[s] = o /\ held_by'[s] # o =>
           \/ rpc[o]["Confirm"] = "sent" /\ status'[s] = "SOLD"
           \/ rpc[o]["Release"] = "sent" /\ status'[s] = "AVAILABLE"
           \/ s \in expired /\ status'[s] = "AVAILABLE"]_inventoryVars
  <2> SUFFICES ASSUME InventoryTypeOK, HolderMatchesStatus, [InventoryNext]_inventoryVars,
                      NEW s \in Seats, NEW o \in Orders, held_by[s] = o, held_by'[s] # o
               PROVE  \/ rpc[o]["Confirm"] = "sent" /\ status'[s] = "SOLD"
                      \/ rpc[o]["Release"] = "sent" /\ status'[s] = "AVAILABLE"
                      \/ s \in expired /\ status'[s] = "AVAILABLE"
    OBVIOUS
  <2>1. status[s] = "HELD"
    BY ConstantsOK, Zenon DEF HolderMatchesStatus
  <2>2. CASE UNCHANGED seatVars \/ \E e \in Events : CreateEvent(e)
    BY <2>2, Zenon DEF seatVars, CreateEvent
  <2>3. ASSUME NEW p \in Orders, ReserveSeats(p) PROVE FALSE
    BY <2>1, <2>3, Zenon DEF ReserveSeats, CanReserve, LockedRows, UpdateSeats
  <2>4. ASSUME NEW p \in Orders, NEW new \in {"SOLD", "AVAILABLE"}, Moves(p, new)
        PROVE  \/ rpc[o]["Confirm"] = "sent" /\ status'[s] = "SOLD"
               \/ rpc[o]["Release"] = "sent" /\ status'[s] = "AVAILABLE"
    <3>1. s \in Req[p].seats /\ p = o
      BY <2>4, RequestType, Zenon DEF Moves, UpdateSeats, RowsHeldBy
    <3>2. QED
      BY <2>4, <3>1, Zenon DEF Moves, UpdateSeats
  <2>5. CASE SweepRelease
    BY <2>5, Zenon DEF SweepRelease, SweptRows, UpdateSeats
  <2>6. QED
    BY <2>2, <2>3, <2>4, <2>5, SeatStepCases, Zenon
<1>2. QED
  BY <1>1, InventoryTypeCorrect, SeatsCorrect, PTL DEF InventorySpec, HoldersOnly

-----------------------------------------------------------------------------
(* inventory-svc implements the abstract seat sale.                         *)

\* How one row of the seats table looks to the abstract sale.
LEMMA RowViewOf ==
  ASSUME NEW h, NEW b
  PROVE  /\ RowView("NONE", h, b) = <<"unborn">>
         /\ RowView("AVAILABLE", h, b) = <<"free">>
         /\ RowView("HELD", h, b) = <<"held", h>>
         /\ RowView("SOLD", h, b) = <<"sold", b>>
BY Zenon DEF RowView

\* The same for a seat before and after a step.
LEMMA SeatViewOf ==
  ASSUME NEW s \in Seats
  PROVE  /\ status[s] = "NONE" => SeatView[s] = <<"unborn">>
         /\ status[s] = "AVAILABLE" => SeatView[s] = <<"free">>
         /\ status[s] = "HELD" => SeatView[s] = <<"held", held_by[s]>>
         /\ status[s] = "SOLD" => SeatView[s] = <<"sold", sold_to[s]>>
BY RowViewOf DEF SeatView

\* A row that has its new status looks accordingly, and an untouched row as before.
LEMMA SeatViewNext ==
  ASSUME NEW s \in Seats
  PROVE  /\ status'[s] = "AVAILABLE" => SeatView'[s] = <<"free">>
         /\ status'[s] = "HELD" => SeatView'[s] = <<"held", held_by'[s]>>
         /\ status'[s] = "SOLD" => SeatView'[s] = <<"sold", sold_to'[s]>>
         /\ (status'[s] = status[s] /\ held_by'[s] = held_by[s] /\ sold_to'[s] = sold_to[s])
              => SeatView'[s] = SeatView[s]
<1>1. SeatView'[s] = RowView(status'[s], held_by'[s], sold_to'[s])
  BY Zenon DEF SeatView
<1>2. SeatView[s] = RowView(status[s], held_by[s], sold_to[s])
  BY Zenon DEF SeatView
<1>3. QED
  BY <1>1, <1>2, RowViewOf

\* Every step of inventory-svc is a step of the abstract sale or leaves it alone.
LEMMA SaleStep ==
  ASSUME SeatInv, [InventoryNext]_inventoryVars
  PROVE  [Sale!SaleNext]_SeatView
<1> DEFINE Moved(S, x) ==
      SeatView' = [s \in Seats |-> IF s \in S THEN x ELSE SeatView[s]]
<1>0. SeatView' = [s \in Seats |-> SeatView'[s]]
  BY Zenon DEF SeatView
<1>1. CASE UNCHANGED seatVars
  BY <1>1, Zenon DEF seatVars, SeatView
<1>2. ASSUME NEW e \in Events, CreateEvent(e) PROVE Sale!SaleNext
  <2> DEFINE rows == {s \in Seats : EventOf[s] = e}
  <2>1. \A s \in rows : SeatView[s] = <<"unborn">>
    BY <1>2, SeatViewOf, Zenon DEF CreateEvent
  <2>2. \A s \in Seats : SeatView'[s] = IF s \in rows THEN <<"free">> ELSE SeatView[s]
    BY <1>2, SeatViewNext, Zenon DEF CreateEvent
  <2>3. Moved(rows, <<"free">>)
    BY <1>0, <2>2, Zenon
  <2>4. Sale!Open(rows)
    BY <2>1, <2>3, Zenon DEF Sale!Open, Sale!Move, Sale!Free, Sale!Unborn
  <2>5. QED
    BY <2>4, Zenon DEF Sale!SaleNext
<1>3. ASSUME NEW o \in Orders, ReserveSeats(o) PROVE Sale!SaleNext
  <2>1. \A s \in Req[o].seats : SeatView[s] = <<"free">>
    BY <1>3, RequestType, SeatViewOf, Zenon DEF ReserveSeats, CanReserve
  <2>2. \A s \in Seats :
          SeatView'[s] = IF s \in Req[o].seats THEN <<"held", o>> ELSE SeatView[s]
    BY <1>3, SeatViewNext, Zenon DEF ReserveSeats, UpdateSeats
  <2>3. Moved(Req[o].seats, <<"held", o>>)
    BY <1>0, <2>2, Zenon
  <2>4. Sale!Take(o)
    BY <2>1, <2>3, Zenon DEF Sale!Take, Sale!Move, Sale!Free, Sale!HeldBy
  <2>5. QED
    BY <2>4, Zenon DEF Sale!SaleNext
<1>4. ASSUME NEW o \in Orders, Moves(o, "SOLD") PROVE Sale!SaleNext
  <2>1. \A s \in Req[o].seats : SeatView[s] = <<"held", o>>
    <3>1. \A s \in Req[o].seats : status[s] = "HELD" /\ held_by[s] = o
      BY <1>4, Zenon DEF Moves, RowsHeldBy
    <3>2. QED
      BY <3>1, RequestType, SeatViewOf, Zenon
  <2>2. \A s \in Seats :
          SeatView'[s] = IF s \in Req[o].seats THEN <<"sold", o>> ELSE SeatView[s]
    BY <1>4, SeatViewNext, Zenon DEF Moves, UpdateSeats
  <2>3. Moved(Req[o].seats, <<"sold", o>>)
    BY <1>0, <2>2, Zenon
  <2>4. Sale!Buy(o)
    BY <2>1, <2>3, Zenon DEF Sale!Buy, Sale!Move, Sale!HeldBy, Sale!SoldTo
  <2>5. QED
    BY <2>4, Zenon DEF Sale!SaleNext
<1>5. ASSUME NEW S \in SUBSET Seats, \A s \in S : status[s] = "HELD",
             UpdateSeats(S, "AVAILABLE", NoOrder), UNCHANGED sold_to
      PROVE  Sale!SaleNext
  <2>1. \A s \in S : held_by[s] \in Orders /\ SeatView[s] = <<"held", held_by[s]>>
    <3>1. \A s \in S : held_by[s] \in Orders
      BY <1>5, Zenon DEF SeatInv, HolderMatchesStatus, InventoryTypeOK
    <3>2. QED
      BY <1>5, <3>1, SeatViewOf, Zenon
  <2>2. \A s \in Seats : SeatView'[s] = IF s \in S THEN <<"free">> ELSE SeatView[s]
    BY <1>5, SeatViewNext, Zenon DEF UpdateSeats
  <2>3. Moved(S, <<"free">>)
    BY <1>0, <2>2, Zenon
  <2>4. Sale!GiveUp(S)
    BY <2>1, <2>3, Zenon DEF Sale!GiveUp, Sale!Move, Sale!HeldBy, Sale!Free
  <2>5. QED
    BY <2>4, Zenon DEF Sale!SaleNext
<1>6. ASSUME NEW o \in Orders, Moves(o, "AVAILABLE") PROVE Sale!SaleNext
  <2>1. sold_to' = sold_to
    BY <1>6, Zenon DEF Moves, SeatInv, InventoryTypeOK
  <2>2. \A s \in Req[o].seats : status[s] = "HELD"
    BY <1>6, Zenon DEF Moves, RowsHeldBy
  <2>3. UpdateSeats(Req[o].seats, "AVAILABLE", NoOrder)
    BY <1>6, Zenon DEF Moves
  <2>4. QED
    BY <1>5, <2>1, <2>2, <2>3, RequestType, Zenon
<1>7. CASE SweepRelease
  <2>1. SweptRows \in SUBSET Seats /\ \A s \in SweptRows : status[s] = "HELD"
    BY Zenon DEF SweptRows, SeatInv, InventoryTypeOK
  <2>2. QED
    BY <1>5, <1>7, <2>1, Zenon DEF SweepRelease
<1>8. QED
  BY <1>1, <1>2, <1>3, <1>4, <1>6, <1>7, SeatStepCases, Zenon

\* Every behaviour of inventory-svc is, seen through its seats table, a
\* behaviour of the abstract seat sale.
THEOREM InventoryRefinesSeatSale == InventorySpec => RefinesSeatSale
<1>1. InventoryInit => Sale!SaleInit
  BY RowViewOf DEF InventoryInit, Sale!SaleInit, Sale!Unborn, SeatView
<1>2. InventoryTypeOK /\ HolderMatchesStatus /\ AllOrNothingSale /\ OutboxAgrees
        /\ [InventoryNext]_inventoryVars => [Sale!SaleNext]_SeatView
  BY SaleStep, Zenon DEF SeatInv
<1>3. QED
  BY <1>1, <1>2, InventoryTypeCorrect, SeatsCorrect, PTL
     DEF InventorySpec, RefinesSeatSale, Sale!SaleSpec
=============================================================================
