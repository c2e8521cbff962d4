---------------------------- MODULE OrderSagaInv ----------------------------
(* The inductive invariant of the CreateOrder saga with its two services,  *)
(* and what one step of the saga may touch.                                *)
EXTENDS OrderSaga, InventoryProofs

\* What the orders table, the charge and the calls to inventory-svc look like
\* at each place of CreateOrder.
PlaceInv(o) ==
  /\ saga[o] \in {"start", "replay"} =>
       /\ order_status[o] = "NONE" /\ charge[o] = "none"
       /\ \A m \in SeatMethod : rpc[o][m] = "none"
  /\ saga[o] \in {"reserving", "charging"} =>
       order_status[o] = "PENDING" /\ rpc[o]["Confirm"] = "none" /\ rpc[o]["Release"] = "none"
  /\ saga[o] = "reserving" => charge[o] = "none"
  /\ saga[o] \in {"releasing", "failing"} =>
       order_status[o] = "PENDING" /\ rpc[o]["Confirm"] = "none"
  /\ saga[o] = "confirming" => order_status[o] = "PENDING" /\ charge[o] = "ok"
  /\ saga[o] = "marking" => order_status[o] = "PENDING" /\ rpc[o]["Confirm"] = "ok"

\* What each record of a purchase says of the others, wherever its saga is.
PaidInv(o) ==
  /\ charge[o] = "ok" => payments[o] = "SUCCEEDED"
  /\ payments[o] # "none" => charge[o] # "none"
  /\ charge[o] # "none" => order_status[o] # "NONE"
  /\ rpc[o]["Confirm"] # "none" =>
       charge[o] = "ok" /\ order_status[o] \in {"PENDING", "CONFIRMED"}
  /\ order_status[o] = "CONFIRMED" => rpc[o]["Confirm"] = "ok"

\* The order owns its seats once its ConfirmSeats has committed, and not before.
SoldInv(o) ==
  /\ rpc[o]["Confirm"] \in {"redis", "ok"} => \A s \in Req[o].seats : sold_to[s] = o
  /\ \A s \in Seats : sold_to[s] = o => rpc[o]["Confirm"] # "none"

\* orders_idempotency_idx: one row per key.
KeyInv ==
  \A o, p \in Orders :
    SameKey(o, p) /\ order_status[o] # "NONE" /\ order_status[p] # "NONE" => o = p

SagaInv ==
  /\ SagaTypeOK /\ SeatInv /\ KeyInv /\ OrderOutboxAgrees
  /\ \A o \in Orders : PlaceInv(o) /\ PaidInv(o) /\ SoldInv(o)

-----------------------------------------------------------------------------
(* What one step does to the tables of order-svc and to the calls.         *)

\* A CreateOrder that moves on changes its own place only.
LEMMA GotoEffect ==
  ASSUME SagaTypeOK, NEW o \in Orders, NEW pc, Goto(o, pc)
  PROVE  saga'[o] = pc /\ \A p \in Orders : p # o => saga'[p] = saga[p]
<1>1. saga \in [Orders -> SagaPc]
  BY Zenon DEF SagaTypeOK
<1>2. QED
  BY <1>1, Zenon DEF Goto

\* A transaction of order-svc writes the row and the outbox of its own order.
LEMMA WriteEffect ==
  ASSUME SagaTypeOK, NEW o \in Orders, NEW st, NEW w, NEW e, WriteOrder(o, st, w, e)
  PROVE  /\ order_status'[o] = st /\ order_events'[o] = Append(order_events[o], e)
         /\ \A p \in Orders : p # o => /\ order_status'[p] = order_status[p]
                                       /\ order_events'[p] = order_events[p]
<1>1. DOMAIN order_status = Orders /\ DOMAIN order_events = Orders
  BY Zenon DEF SagaTypeOK
<1>2. QED
  BY <1>1, Zenon DEF WriteOrder

\* The Charge call of an order changes its own entries only.
LEMMA ChargeEffect ==
  ASSUME SagaTypeOK, NEW o \in Orders, NEW r
  PROVE  /\ charge' = [charge EXCEPT ![o] = r] =>
              charge'[o] = r /\ \A p \in Orders : p # o => charge'[p] = charge[p]
         /\ payments' = [payments EXCEPT ![o] = r] =>
              payments'[o] = r /\ \A p \in Orders : p # o => payments'[p] = payments[p]
<1>1. DOMAIN charge = Orders /\ DOMAIN payments = Orders
  BY Zenon DEF SagaTypeOK
<1>2. QED
  BY <1>1, Zenon

\* A reply of inventory-svc changes its own entry only.
LEMMA ReplyEffect ==
  ASSUME InventoryTypeOK, NEW o \in Orders, NEW m \in SeatMethod, NEW r, Reply(o, m, r)
  PROVE  \A p \in Orders, n \in SeatMethod :
           rpc'[p][n] = IF p = o /\ n = m THEN r ELSE rpc[p][n]
<1>1. rpc \in [Orders -> [SeatMethod -> RpcState]]
  BY Zenon DEF InventoryTypeOK
<1>2. QED
  BY <1>1, Zenon DEF Reply

\* A call to inventory-svc touches its own entry only.
LEMMA CallEffect ==
  ASSUME InventoryTypeOK, NEW o \in Orders, NEW m \in SeatMethod, CallInventory(o, m)
  PROVE  \A p \in Orders, n \in SeatMethod :
           rpc'[p][n] = IF ctx[o] /\ p = o /\ n = m THEN "sent" ELSE rpc[p][n]
<1>1. rpc \in [Orders -> [SeatMethod -> RpcState]]
  BY Zenon DEF InventoryTypeOK
<1>2. QED
  BY <1>1, Zenon DEF CallInventory

\* What a step on behalf of one order may write.
TouchesOnly(o) ==
  /\ UNCHANGED saga \/ \E pc \in SagaPc : Goto(o, pc)
  /\ UNCHANGED orderRows \/ \E st, w, e : WriteOrder(o, st, w, e)
  /\ UNCHANGED charge \/ \E r : charge' = [charge EXCEPT ![o] = r]
  /\ UNCHANGED payments \/ \E r : payments' = [payments EXCEPT ![o] = r]
  /\ UNCHANGED inventoryVars \/ \E m \in SeatMethod : CallInventory(o, m)

\* Every step of a call, its charge and its context stays within these bounds.
LEMMA Footprint ==
  ASSUME NEW o \in Orders, CreateOrder(o) \/ Charge(o) \/ ChargeFails(o) \/ CtxDies(o)
  PROVE  TouchesOnly(o)
<1> USE DEF TouchesOnly, paymentVars, callVars
<1>0. /\ {"replay", "reserving", "charging", "confirming", "marking", "releasing",
          "failing", "done"} \subseteq SagaPc
      /\ {"Reserve", "Confirm", "Release"} \subseteq SeatMethod
  BY Zenon DEF SagaPc, SeatMethod
<1>1. CASE InsertOrder(o)
  BY <1>0, <1>1, Zenon DEF InsertOrder, Return
<1>2. CASE InsertDuplicate(o)
  BY <1>0, <1>2, Zenon DEF InsertDuplicate
<1>3. CASE InsertFails(o)
  BY <1>0, <1>3, Zenon DEF InsertFails, Return
<1>4. CASE Replay(o)
  BY <1>0, <1>4, Zenon DEF Replay, Return
<1>5. CASE ReserveReturns(o)
  BY <1>0, <1>5, Zenon DEF ReserveReturns, FailWith, ReleaseThenFail, CallPayment
<1>6. CASE ChargeReturns(o)
  BY <1>0, <1>6, Zenon DEF ChargeReturns, ReleaseThenFail
<1>7. CASE ConfirmReturns(o)
  BY <1>0, <1>7, Zenon DEF ConfirmReturns, Return
<1>8. CASE MarkConfirmed(o)
  BY <1>0, <1>8, Zenon DEF MarkConfirmed, Return
<1>9. CASE ReleaseReturns(o)
  BY <1>0, <1>9, Zenon DEF ReleaseReturns
<1>10. CASE RecordFailure(o)
  BY <1>0, <1>10, Zenon DEF RecordFailure, Return
<1>11. CASE Charge(o)
  BY <1>11, Zenon DEF Charge
<1>12. CASE ChargeFails(o) \/ CtxDies(o)
  BY <1>12, Zenon DEF ChargeFails, CtxDies
<1> HIDE DEF TouchesOnly
<1>13. QED
  BY <1>1, <1>2, <1>3, <1>4, <1>5, <1>6, <1>7, <1>8, <1>9, <1>10, <1>11, <1>12, Zenon
     DEF CreateOrder

\* A step of inventory-svc never makes or forgets a call, and an answer stays.
LEMMA CallsKept ==
  ASSUME InventoryTypeOK, InventoryStep, NEW p \in Orders, NEW n \in SeatMethod
  PROVE  /\ rpc'[p][n] = "none" <=> rpc[p][n] = "none"
         /\ rpc[p][n] = "ok" => rpc'[p][n] = "ok"
<1>1. ASSUME NEW o \in Orders, NEW m \in SeatMethod, NEW r \in {"redis", "ok", "refused", "broken"},
             rpc[o][m] \in {"sent", "redis"}, Reply(o, m, r)
      PROVE  /\ rpc'[p][n] = "none" <=> rpc[p][n] = "none"
             /\ rpc[p][n] = "ok" => rpc'[p][n] = "ok"
  <2>1. rpc'[p][n] = IF p = o /\ n = m THEN r ELSE rpc[p][n]
    BY <1>1, ReplyEffect
  <2>2. QED
    BY <1>1, <2>1, Zenon
<1>2. ASSUME NEW o \in Orders, Handler(o)
      PROVE  \/ UNCHANGED rpc
             \/ \E m \in SeatMethod, r \in {"redis", "ok", "refused", "broken"} :
                  rpc[o][m] \in {"sent", "redis"} /\ Reply(o, m, r)
  <2>1. {"Reserve", "Confirm", "Release"} \subseteq SeatMethod
    BY Zenon DEF SeatMethod
  <2>2. CASE ReserveSeats(o) \/ ReserveRefused(o)
    BY <2>1, <2>2, Zenon DEF ReserveSeats, ReserveRefused
  <2>3. CASE ConfirmSeats(o) \/ ReleaseSeats(o)
    BY <2>1, <2>3, Zenon DEF ConfirmSeats, ReleaseSeats, MoveHeldSeats
  <2>4. ASSUME NEW m \in SeatMethod, HandlerFails(o, m) \/ HandlerReturns(o, m)
        PROVE  \E r \in {"ok", "broken"} : rpc[o][m] \in {"sent", "redis"} /\ Reply(o, m, r)
    BY <2>4, Zenon DEF HandlerFails, HandlerReturns
  <2>5. ASSUME NEW m \in SeatMethod, NEW s \in Seats, TouchKey(o, m, s) \/ TouchKeyFails(o, m, s)
        PROVE  UNCHANGED rpc
    BY <2>5, Zenon DEF TouchKey, TouchKeyFails
  <2>6. QED
    BY <1>2, <2>2, <2>3, <2>4, <2>5, Zenon DEF Handler
<1>3. ASSUME NEW o \in Orders, Handler(o)
      PROVE  /\ rpc'[p][n] = "none" <=> rpc[p][n] = "none"
             /\ rpc[p][n] = "ok" => rpc'[p][n] = "ok"
  BY <1>1, <1>2, <1>3, Zenon
<1>4. CASE InventoryRestart
  BY <1>4, Zenon DEF InventoryRestart
<1>5. QED
  BY <1>3, <1>4, Zenon DEF InventoryStep, CreateEvent, SagaKeyExpires, KeyExpires, Sweeper,
     SweepQuery, SweepRelease, SweepReturns, SweepCheck, SweepCheckFails

\* What PlaceInv, PaidInv and OrderOutboxAgrees say of an order depends on this.
SameRecords(p) ==
  /\ saga'[p] = saga[p] /\ order_status'[p] = order_status[p]
  /\ order_events'[p] = order_events[p]
  /\ charge'[p] = charge[p] /\ payments'[p] = payments[p]
  /\ \A m \in SeatMethod : rpc'[p][m] = rpc[p][m]

\* A step of one call leaves the records of the other orders alone.
LEMMA OthersUntouched ==
  ASSUME SagaTypeOK, NEW o \in Orders, NEW p \in Orders, p # o,
         CreateOrder(o) \/ Charge(o) \/ ChargeFails(o) \/ CtxDies(o)
  PROVE  SameRecords(p)
<1>0. TouchesOnly(o)
  BY Footprint, Zenon
<1>1. saga'[p] = saga[p]
  BY <1>0, GotoEffect, Zenon DEF TouchesOnly
<1>2. order_status'[p] = order_status[p] /\ order_events'[p] = order_events[p]
  <2>1. CASE UNCHANGED orderRows
    BY <2>1, Zenon DEF orderRows
  <2>2. ASSUME NEW st, NEW w, NEW e, WriteOrder(o, st, w, e)
        PROVE  order_status'[p] = order_status[p] /\ order_events'[p] = order_events[p]
    BY <2>2, WriteEffect, Zenon
  <2>3. QED
    BY <1>0, <2>1, <2>2, Zenon DEF TouchesOnly
<1>3. charge'[p] = charge[p] /\ payments'[p] = payments[p]
  BY <1>0, ChargeEffect DEF TouchesOnly
<1>4. \A m \in SeatMethod : rpc'[p][m] = rpc[p][m]
  <2>1. InventoryTypeOK
    BY Zenon DEF SagaTypeOK
  <2>2. CASE UNCHANGED inventoryVars
    BY <2>2, Zenon DEF inventoryVars
  <2>3. ASSUME NEW m \in SeatMethod, CallInventory(o, m)
        PROVE  \A n \in SeatMethod : rpc'[p][n] = rpc[p][n]
    BY <2>1, <2>3, CallEffect
  <2>4. QED
    BY <1>0, <2>2, <2>3, Zenon DEF TouchesOnly
<1>5. QED
  BY <1>1, <1>2, <1>3, <1>4, Zenon DEF SameRecords

\* A call that leaves is one the general client of inventory-svc may make.
LEMMA CallIsSend ==
  ASSUME NEW o \in Orders, NEW m \in SeatMethod, rpc[o][m] = "none", CallInventory(o, m)
  PROVE  [InventoryNext]_inventoryVars
<1>1. CASE ctx[o]
  <2>1. SendSeatCall(o, m)
    BY <1>1, Zenon DEF CallInventory, SendSeatCall, Reply
  <2>2. QED
    BY <2>1, Zenon DEF InventoryNext
<1>2. CASE ~ctx[o]
  BY <1>2, Zenon DEF CallInventory, inventoryVars
<1>3. QED
  BY <1>1, <1>2, Zenon

\* Every step of the composed system is, for inventory-svc, a step it can take
\* with an arbitrary client: no call is made a second time.
LEMMA DrivesInventory ==
  ASSUME \A o \in Orders : PlaceInv(o), [SagaNext]_sagaVars
  PROVE  [InventoryNext]_inventoryVars
<1> USE DEF SeatMethod
<1>1. ASSUME NEW o \in Orders, InsertOrder(o) PROVE [InventoryNext]_inventoryVars
  <2>1. rpc[o]["Reserve"] = "none"
    BY <1>1, Zenon DEF InsertOrder, PlaceInv
  <2>2. CallInventory(o, "Reserve") \/ UNCHANGED inventoryVars
    BY <1>1, Zenon DEF InsertOrder
  <2>3. QED
    BY <2>1, <2>2, CallIsSend, Zenon
<1>2. ASSUME NEW o \in Orders, ReserveReturns(o) PROVE [InventoryNext]_inventoryVars
  <2>1. rpc[o]["Release"] = "none"
    BY <1>2, Zenon DEF ReserveReturns, PlaceInv
  <2>2. CallInventory(o, "Release") \/ UNCHANGED inventoryVars
    BY <1>2, Zenon DEF ReserveReturns, FailWith, ReleaseThenFail
  <2>3. QED
    BY <2>1, <2>2, CallIsSend, Zenon
<1>3. ASSUME NEW o \in Orders, ChargeReturns(o) PROVE [InventoryNext]_inventoryVars
  <2>1. rpc[o]["Release"] = "none" /\ rpc[o]["Confirm"] = "none"
    BY <1>3, Zenon DEF ChargeReturns, PlaceInv
  <2>2. CallInventory(o, "Release") \/ CallInventory(o, "Confirm")
    BY <1>3, Zenon DEF ChargeReturns, ReleaseThenFail
  <2>3. QED
    BY <2>1, <2>2, CallIsSend, Zenon
<1>4. ASSUME NEW o \in Orders,
             \/ InsertDuplicate(o) \/ InsertFails(o) \/ Replay(o) \/ ConfirmReturns(o)
             \/ MarkConfirmed(o) \/ ReleaseReturns(o) \/ RecordFailure(o)
             \/ Charge(o) \/ ChargeFails(o) \/ CtxDies(o)
      PROVE  UNCHANGED inventoryVars
  BY <1>4, Zenon DEF InsertDuplicate, InsertFails, Replay, ConfirmReturns, MarkConfirmed,
     ReleaseReturns, RecordFailure, Charge, ChargeFails, CtxDies
<1>5. CASE InventoryStep
  BY <1>5, Zenon DEF InventoryStep, InventoryNext, SagaKeyExpires
<1>6. CASE OrderCrash \/ UNCHANGED sagaVars
  BY <1>6, Zenon DEF OrderCrash, sagaVars
<1>7. QED
  BY <1>1, <1>2, <1>3, <1>4, <1>5, <1>6, Zenon DEF SagaNext, CreateOrder
=============================================================================
