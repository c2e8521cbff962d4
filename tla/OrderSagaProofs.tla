-------------------------- MODULE OrderSagaProofs ---------------------------
(* Theorems about the CreateOrder saga, for any orders, keys and amounts.   *)
EXTENDS OrderSagaSteps, SequenceTheorems

-----------------------------------------------------------------------------
(* The orders table and its outbox.                                        *)

\* A row of the orders table is inserted once and gets one verdict; the outbox row
\* comes with each.
LEMMA RowSteps ==
  ASSUME SagaTypeOK, [SagaNext]_sagaVars, NEW p \in Orders, PlaceInv(p)
  PROVE  \/ order_status'[p] = order_status[p] /\ order_events'[p] = order_events[p]
         \/ /\ order_status[p] = "NONE" /\ order_status'[p] = "PENDING" /\ ~DuplicateKey(p)
            /\ order_events'[p] = Append(order_events[p], "CREATED")
            /\ \A q \in Orders : q # p => order_status'[q] = order_status[q]
         \/ /\ order_status[p] = "PENDING" /\ order_status'[p] \in {"CONFIRMED", "FAILED"}
            /\ order_events'[p] = Append(order_events[p], order_status'[p])
<1>1. ASSUME InsertOrder(p)
      PROVE  /\ order_status[p] = "NONE" /\ order_status'[p] = "PENDING" /\ ~DuplicateKey(p)
             /\ order_events'[p] = Append(order_events[p], "CREATED")
             /\ \A q \in Orders : q # p => order_status'[q] = order_status[q]
  <2>1. order_status[p] = "NONE" /\ ~DuplicateKey(p)
    BY <1>1, Zenon DEF InsertOrder, PlaceInv
  <2>2. WriteOrder(p, "PENDING", "none", "CREATED")
    BY <1>1, Zenon DEF InsertOrder
  <2>3. QED
    BY <2>1, <2>2, WriteEffect, Zenon
<1>2. ASSUME MarkConfirmed(p) \/ RecordFailure(p)
      PROVE  \/ order_status'[p] = order_status[p] /\ order_events'[p] = order_events[p]
             \/ /\ order_status[p] = "PENDING" /\ order_status'[p] \in {"CONFIRMED", "FAILED"}
                /\ order_events'[p] = Append(order_events[p], order_status'[p])
  <2>1. order_status[p] = "PENDING"
    BY <1>2, Zenon DEF MarkConfirmed, RecordFailure, PlaceInv
  <2>2. UNCHANGED orderRows \/ \E v \in {"CONFIRMED", "FAILED"} : \E w : WriteOrder(p, v, w, v)
    BY <1>2, Zenon DEF MarkConfirmed, RecordFailure
  <2>3. ASSUME NEW v \in {"CONFIRMED", "FAILED"}, NEW w, WriteOrder(p, v, w, v)
        PROVE  order_status'[p] = v /\ order_events'[p] = Append(order_events[p], v)
    BY <2>3, WriteEffect
  <2>4. QED
    BY <2>1, <2>2, <2>3, Zenon DEF orderRows
<1>3. ASSUME CreateOrder(p), ~InsertOrder(p), ~MarkConfirmed(p), ~RecordFailure(p)
      PROVE  UNCHANGED orderRows
  BY <1>3, Zenon DEF CreateOrder, InsertDuplicate, InsertFails, Replay, ReserveReturns, ChargeReturns,
     ConfirmReturns, ReleaseReturns
<1>4. ASSUME NEW o \in Orders, Charge(o) \/ ChargeFails(o) \/ CtxDies(o)
      PROVE  UNCHANGED orderRows
  BY <1>4, Zenon DEF Charge, ChargeFails, CtxDies
<1>5. ASSUME NEW o \in Orders, CreateOrder(o), o # p
      PROVE  order_status'[p] = order_status[p] /\ order_events'[p] = order_events[p]
  BY <1>5, OthersUntouched, Zenon DEF SameRecords
<1>6. ASSUME OrderCrash \/ InventoryStep \/ UNCHANGED sagaVars PROVE UNCHANGED orderRows
  BY <1>6, Zenon DEF OrderCrash, InventoryStep, orderVars, sagaVars
<1>7. CASE \E o \in Orders : CreateOrder(o)
  BY <1>1, <1>2, <1>3, <1>5, <1>7, Zenon DEF orderRows
<1>8. QED
  BY <1>4, <1>6, <1>7, Zenon DEF SagaNext, orderRows

\* The second row of an outbox follows the first.
LEMMA SecondRow ==
  ASSUME NEW S, NEW a \in S, NEW b \in S
  PROVE  Append(<<a>>, b) = <<a, b>>
<1> DEFINE u == <<a>>
           v == <<a, b>>
           w == Append(u, b)
<1>1. u \in Seq(S) /\ Len(u) = 1 /\ u[1] = a
  OBVIOUS
<1>2. v \in Seq(S) /\ Len(v) = 2 /\ v[1] = a /\ v[2] = b
  OBVIOUS
<1> HIDE DEF u, v, w
<1>3. /\ Append(u, b) \in Seq(S) /\ Len(Append(u, b)) = Len(u) + 1
      /\ \A i \in 1 .. Len(u) : Append(u, b)[i] = u[i]
      /\ Append(u, b)[Len(u) + 1] = b
  <2>1. u \in Seq(S)
    BY <1>1, Zenon
  <2>2. QED
    BY <2>1, AppendProperties
<1>4. w \in Seq(S) /\ Len(w) = 2 /\ w[1] = a /\ w[2] = b
  BY <1>1, <1>3 DEF w
<1>5. \A i \in 1 .. 2 : w[i] = v[i]
  BY <1>2, <1>4
<1>6. w = v
  BY <1>2, <1>4, <1>5, SeqEqual, Zenon
<1>7. QED
  BY <1>6, Zenon DEF u, v, w

\* Every step keeps the index unique and the outbox in agreement.
LEMMA RowsStep ==
  ASSUME SagaInv, [SagaNext]_sagaVars
  PROVE  KeyInv' /\ OrderOutboxAgrees'
<1>0. SagaTypeOK /\ KeyInv /\ OrderOutboxAgrees /\ \A o \in Orders : PlaceInv(o)
  BY Zenon DEF SagaInv
<1>1. KeyInv'
  <2> SUFFICES ASSUME NEW o \in Orders, NEW p \in Orders, SameKey(o, p), o # p,
                      order_status'[o] # "NONE", order_status'[p] # "NONE"
               PROVE  FALSE
    BY Zenon DEF KeyInv, SameKey
  <2>1. ~(order_status[o] # "NONE" /\ order_status[p] # "NONE")
    BY <1>0, Zenon DEF KeyInv
  <2>2. CASE order_status[o] = "NONE"
    <3>1. ~DuplicateKey(o) /\ order_status'[p] = order_status[p]
      BY <1>0, <2>2, RowSteps, Zenon
    <3>2. QED
      BY <3>1, Zenon DEF DuplicateKey
  <2>3. CASE order_status[p] = "NONE"
    <3>1. ~DuplicateKey(p) /\ order_status'[o] = order_status[o]
      BY <1>0, <2>3, RowSteps, Zenon
    <3>2. SameKey(p, o)
      BY Zenon DEF SameKey
    <3>3. QED
      BY <3>1, <3>2, Zenon DEF DuplicateKey
  <2>4. QED
    BY <2>1, <2>2, <2>3, Zenon
<1>2. OrderOutboxAgrees'
  <2> DEFINE Told(st) == CASE st = "NONE" -> <<>>
                           [] st = "PENDING" -> <<"CREATED">>
                           [] OTHER -> <<"CREATED", st>>
  <2> SUFFICES ASSUME NEW p \in Orders PROVE order_events'[p] = Told(order_status'[p])
    BY Zenon DEF OrderOutboxAgrees
  <2>1. order_events[p] = Told(order_status[p])
    BY <1>0, Zenon DEF OrderOutboxAgrees
  <2>0. /\ Told("NONE") = <<>> /\ Told("PENDING") = <<"CREATED">>
        /\ \A v \in {"CONFIRMED", "FAILED"} : Told(v) = <<"CREATED", v>>
    OBVIOUS
  <2> HIDE DEF Told
  <2>2. CASE order_status'[p] = order_status[p] /\ order_events'[p] = order_events[p]
    BY <2>1, <2>2, Zenon
  <2>3. CASE /\ order_status[p] = "NONE" /\ order_status'[p] = "PENDING"
             /\ order_events'[p] = Append(order_events[p], "CREATED")
    <3>1. order_events[p] = <<>>
      BY <2>0, <2>1, <2>3, Zenon
    <3>2. order_events'[p] = <<"CREATED">>
      BY <2>3, <3>1
    <3>3. QED
      BY <2>0, <2>3, <3>2, Zenon
  <2>4. CASE /\ order_status[p] = "PENDING" /\ order_status'[p] \in {"CONFIRMED", "FAILED"}
             /\ order_events'[p] = Append(order_events[p], order_status'[p])
    <3>1. order_events[p] = <<"CREATED">>
      BY <2>0, <2>1, <2>4, Zenon
    <3>2. \A e \in {"CONFIRMED", "FAILED"} : Append(<<"CREATED">>, e) = <<"CREATED", e>>
      <4> DEFINE Types == {"CREATED", "CONFIRMED", "FAILED"}
      <4>1. "CREATED" \in Types /\ \A e \in {"CONFIRMED", "FAILED"} : e \in Types
        OBVIOUS
      <4> HIDE DEF Types
      <4>2. QED
        BY <4>1, SecondRow, Zenon
    <3>3. order_events'[p] = <<"CREATED", order_status'[p]>>
      BY <2>4, <3>1, <3>2, Zenon
    <3>4. QED
      BY <2>0, <2>4, <3>3, Zenon
  <2>5. QED
    BY <1>0, <2>2, <2>3, <2>4, RowSteps, Zenon
<1>3. QED
  BY <1>1, <1>2, Zenon

-----------------------------------------------------------------------------
(* The theorems.                                                           *)

\* SagaInv holds initially and is kept by every step.
LEMMA SagaInvInit == SagaInit => SagaInv
<1> SUFFICES ASSUME SagaInit PROVE SagaInv
  OBVIOUS
<1> USE ConstantsOK, SagaConstantsOK DEF SagaInit
<1>1. InventoryTypeOK
  BY DEF InventoryInit, InventoryTypeOK, Status, SeatMethod, SeatRequest, RpcState
<1>2. SagaTypeOK
  BY <1>1 DEF SagaTypeOK, RpcState, Answer, SagaPc
<1>3. SeatInv
  BY <1>1, Zenon DEF SeatInv, InventoryInit, HolderMatchesStatus, AllOrNothingSale, OutboxAgrees
<1>4. KeyInv /\ OrderOutboxAgrees
  BY Zenon DEF KeyInv, OrderOutboxAgrees
<1>5. \A o \in Orders : PlaceInv(o) /\ PaidInv(o) /\ SoldInv(o)
  BY Zenon DEF InventoryInit, PlaceInv, PaidInv, SoldInv, SeatMethod
<1>6. QED
  BY <1>2, <1>3, <1>4, <1>5, Zenon DEF SagaInv

\* The step case: inventory-svc's part comes from its own proof.
LEMMA SagaInvStep == SagaInv /\ [SagaNext]_sagaVars => SagaInv'
<1> SUFFICES ASSUME SagaInv, [SagaNext]_sagaVars PROVE SagaInv'
  OBVIOUS
<1>1. [InventoryNext]_inventoryVars
  BY DrivesInventory, Zenon DEF SagaInv
<1>2. InventoryTypeOK'
  BY <1>1, InventoryTypeStep, Zenon DEF SagaInv, SagaTypeOK
<1>3. SagaTypeOK'
  BY <1>2, SagaTypeStep, Zenon DEF SagaInv
<1>4. SeatInv'
  BY <1>1, <1>2, SeatInvStep, Zenon DEF SagaInv
<1>5. \A o \in Orders : PlaceInv(o)' /\ PaidInv(o)'
  BY RecordsStep, Zenon DEF SagaInv
<1>6. \A o \in Orders : SoldInv(o)'
  BY <1>1, SoldStep, Zenon
<1>7. KeyInv' /\ OrderOutboxAgrees'
  BY RowsStep, Zenon
<1>8. QED
  BY <1>3, <1>4, <1>5, <1>6, <1>7, Zenon DEF SagaInv

\* SagaInv holds in every reachable state of the saga with its two services.
LEMMA SagaInvariant == SagaSpec => []SagaInv
BY SagaInvInit, SagaInvStep, PTL DEF SagaSpec

\* The types of the composed system are kept.
THEOREM SagaTypeCorrect == SagaSpec => []SagaTypeOK
<1>1. SagaInv => SagaTypeOK
  BY Zenon DEF SagaInv
<1>2. QED
  BY <1>1, SagaInvariant, PTL

\* The saga uses inventory-svc as its general client may: every call at most once
\* per order. All that is proved of inventory-svc therefore holds under the saga.
THEOREM SagaRefinesInventory == SagaSpec => RefinesInventory
<1>1. SagaInit => InventoryInit
  BY Zenon DEF SagaInit
<1>2. SagaInv /\ [SagaNext]_sagaVars => [InventoryNext]_inventoryVars
  BY DrivesInventory, Zenon DEF SagaInv
<1>3. QED
  BY <1>1, <1>2, SagaInvariant, PTL DEF SagaSpec, RefinesInventory, InventorySpec

\* A CONFIRMED order was charged and owns all of its seats.
THEOREM ConfirmedCorrect == SagaSpec => []ConfirmedIsPaidAndSold
<1>1. SagaInv => ConfirmedIsPaidAndSold
  <2> SUFFICES ASSUME SagaInv, NEW o \in Orders, order_status[o] = "CONFIRMED"
               PROVE  /\ payments[o] = "SUCCEEDED"
                      /\ \A s \in Req[o].seats : status[s] = "SOLD" /\ sold_to[s] = o
    BY Zenon DEF ConfirmedIsPaidAndSold
  <2>1. rpc[o]["Confirm"] = "ok" /\ payments[o] = "SUCCEEDED"
    BY Zenon DEF SagaInv, PaidInv
  <2>2. \A s \in Req[o].seats : sold_to[s] = o
    BY <2>1, Zenon DEF SagaInv, SoldInv
  <2>3. \A s \in Req[o].seats : status[s] = "SOLD"
    <3>1. \A s \in Seats : sold_to[s] # NoOrder => status[s] = "SOLD"
      BY Zenon DEF SagaInv, SeatInv, HolderMatchesStatus
    <3>2. QED
      BY <2>2, <3>1, ConstantsOK, RequestType, Zenon
  <2>4. QED
    BY <2>1, <2>2, <2>3, Zenon
<1>2. QED
  BY <1>1, SagaInvariant, PTL

\* No seat is sold without its money, and none to an order that failed.
THEOREM SoldCorrect == SagaSpec => []SoldMeansPaid
<1>1. SagaInv => SoldMeansPaid
  BY Zenon DEF SagaInv, SoldInv, PaidInv, SoldMeansPaid
<1>2. QED
  BY <1>1, SagaInvariant, PTL

\* However many calls carry one idempotency key, one of them charges.
THEOREM OneChargeCorrect == SagaSpec => []OneChargePerKey
<1>1. SagaInv => OneChargePerKey
  <2> SUFFICES ASSUME SagaInv, NEW o \in Orders, NEW p \in Orders, o # p, SameKey(o, p),
                      payments[o] = "SUCCEEDED", payments[p] = "SUCCEEDED"
               PROVE  FALSE
    BY Zenon DEF OneChargePerKey
  <2>1. order_status[o] # "NONE" /\ order_status[p] # "NONE"
    BY Zenon DEF SagaInv, PaidInv
  <2>2. QED
    BY <2>1, Zenon DEF SagaInv, KeyInv
<1>2. QED
  BY <1>1, SagaInvariant, PTL

\* The outbox rows of every order tell its life exactly.
THEOREM OrderOutboxCorrect == SagaSpec => []OrderOutboxAgrees
<1>1. SagaInv => OrderOutboxAgrees
  BY Zenon DEF SagaInv
<1>2. QED
  BY <1>1, SagaInvariant, PTL

-----------------------------------------------------------------------------
(* What CreateOrder tells its callers is so, and stays so.                 *)

GivesUp == {"releasing", "failing", "done", "crashed"}

\* The call of p gave up, or will, for reason a: it never gets to ConfirmSeats, and
\* what the reason says of the charge is so for good.
Refusal(p, a) ==
  /\ order_status[p] # "NONE" /\ saga[p] \in GivesUp /\ rpc[p]["Confirm"] = "none"
  /\ a = "SEATS_UNAVAILABLE" => charge[p] = "none"
  /\ a = "PAYMENT_DECLINED" => charge[p] = "refused"

\* An order that is told a reason has it from its own saga or from the row of its
\* key; one that is told CONFIRMED has the ID of that row.
AnswerInv(o) ==
  /\ charge[o] = "refused" => payments[o] = "FAILED"
  /\ saga[o] \in {"releasing", "failing"} => Refusal(o, why[o])
  /\ order_status[o] = "FAILED" => Refusal(o, failure_reason[o])
  /\ answer[o] \in Reason =>
       \E p \in Orders : (p = o \/ SameKey(o, p)) /\ Refusal(p, answer[o])
  /\ answer[o] = "CONFIRMED" =>
       /\ answer_id[o] \in Orders /\ order_status[answer_id[o]] = "CONFIRMED"
       /\ SameRequest(o, answer_id[o]) /\ (answer_id[o] = o \/ SameKey(o, answer_id[o]))

-----------------------------------------------------------------------------
(* How the charge, the place of a call and its reason change.              *)

\* A charge is asked for once, from "reserving", and payment-svc answers it once.
LEMMA ChargeSteps ==
  ASSUME SagaTypeOK, [SagaNext]_sagaVars, NEW p \in Orders
  PROVE  \/ charge'[p] = charge[p] /\ payments'[p] = payments[p]
         \/ saga[p] = "reserving" /\ charge'[p] = "sent"
         \/ charge[p] = "sent" /\ charge'[p] = "refused" /\ payments'[p] = "FAILED"
         \/ charge[p] = "sent" /\ charge'[p] \in {"ok", "broken"}
<1>1. ASSUME NEW o \in Orders, o # p,
             CreateOrder(o) \/ Charge(o) \/ ChargeFails(o) \/ CtxDies(o)
      PROVE  charge'[p] = charge[p] /\ payments'[p] = payments[p]
  BY <1>1, OthersUntouched, Zenon DEF SameRecords
<1>2. ASSUME ReserveReturns(p)
      PROVE  \/ charge'[p] = charge[p] /\ payments'[p] = payments[p]
             \/ saga[p] = "reserving" /\ charge'[p] = "sent"
  <2>1. saga[p] = "reserving" /\ UNCHANGED payments
    BY <1>2, Zenon DEF ReserveReturns
  <2>2. UNCHANGED charge \/ charge' = [charge EXCEPT ![p] = "sent"]
    BY <1>2, Zenon DEF ReserveReturns, CallPayment
  <2>3. QED
    BY <2>1, <2>2, ChargeEffect, Zenon
<1>3. ASSUME CreateOrder(p), ~ReserveReturns(p) PROVE UNCHANGED paymentVars
  BY <1>3, Zenon DEF CreateOrder, InsertOrder, InsertDuplicate, InsertFails, Replay,
     ChargeReturns, ConfirmReturns, MarkConfirmed, ReleaseReturns, RecordFailure
<1>4. ASSUME Charge(p)
      PROVE  /\ charge[p] = "sent"
             /\ \/ charge'[p] = "ok"
                \/ charge'[p] = "refused" /\ payments'[p] = "FAILED"
  BY <1>4, ChargeEffect, Zenon DEF Charge
<1>5. ASSUME ChargeFails(p) PROVE charge[p] = "sent" /\ charge'[p] = "broken"
  BY <1>5, ChargeEffect, Zenon DEF ChargeFails
<1>6. ASSUME CtxDies(p) \/ OrderCrash \/ InventoryStep \/ UNCHANGED sagaVars
      PROVE  UNCHANGED paymentVars
  BY <1>6, Zenon DEF CtxDies, OrderCrash, InventoryStep, sagaVars, orderVars
<1>7. CASE \E o \in Orders : CreateOrder(o) \/ Charge(o) \/ ChargeFails(o) \/ CtxDies(o)
  BY <1>1, <1>2, <1>3, <1>4, <1>5, <1>6, <1>7, Zenon DEF paymentVars
<1>8. QED
  BY <1>6, <1>7, Zenon DEF SagaNext, paymentVars

\* A call that gives up makes no further call but the release, and its charge, if
\* it was not asked for or was declined, stays that way.
LEMMA RefusalKept ==
  ASSUME SagaInv, [SagaNext]_sagaVars, NEW p \in Orders, saga[p] \in GivesUp
  PROVE  /\ saga'[p] \in GivesUp
         /\ order_status[p] # "NONE" => order_status'[p] # "NONE"
         /\ rpc[p]["Confirm"] = "none" => rpc'[p]["Confirm"] = "none"
         /\ charge[p] \in {"none", "refused"} => charge'[p] = charge[p]
<1>0. SagaTypeOK /\ InventoryTypeOK /\ PlaceInv(p) /\ "Confirm" \in SeatMethod
  BY Zenon DEF SagaInv, SagaTypeOK, SeatMethod
<1>1. order_status[p] # "NONE" => order_status'[p] # "NONE"
  BY <1>0, RowSteps, Zenon
<1>2. charge[p] \in {"none", "refused"} => charge'[p] = charge[p]
  BY <1>0, ChargeSteps, Zenon DEF GivesUp
<1>3. ASSUME saga'[p] = saga[p], rpc'[p]["Confirm"] = rpc[p]["Confirm"]
      PROVE  saga'[p] \in GivesUp /\ (rpc[p]["Confirm"] = "none" => rpc'[p]["Confirm"] = "none")
  BY <1>3, Zenon
<1>4. ASSUME CreateOrder(p)
      PROVE  saga'[p] \in GivesUp /\ rpc'[p]["Confirm"] = rpc[p]["Confirm"]
  <2>1. ReleaseReturns(p) \/ RecordFailure(p)
    BY <1>4, Zenon DEF CreateOrder, InsertOrder, InsertDuplicate, InsertFails, Replay, ReserveReturns,
       ChargeReturns, ConfirmReturns, MarkConfirmed, GivesUp
  <2>2. UNCHANGED rpc /\ (Goto(p, "failing") \/ Goto(p, "done"))
    BY <2>1, Zenon DEF ReleaseReturns, RecordFailure, Return, inventoryVars
  <2>3. QED
    BY <1>0, <2>2, GotoEffect, Zenon DEF GivesUp
<1>5. ASSUME NEW o \in Orders, CreateOrder(o) \/ Charge(o) \/ ChargeFails(o) \/ CtxDies(o), o # p
      PROVE  saga'[p] = saga[p] /\ rpc'[p]["Confirm"] = rpc[p]["Confirm"]
  BY <1>0, <1>5, OthersUntouched, Zenon DEF SameRecords
<1>6. ASSUME Charge(p) \/ ChargeFails(p) \/ CtxDies(p) \/ UNCHANGED sagaVars
      PROVE  UNCHANGED <<saga, rpc>>
  BY <1>6, Zenon DEF Charge, ChargeFails, CtxDies, sagaVars, orderVars, callVars, inventoryVars
<1>7. ASSUME OrderCrash
      PROVE  saga'[p] \in {saga[p], "crashed"} /\ UNCHANGED rpc
  BY <1>7, Zenon DEF OrderCrash, inventoryVars
<1>8. ASSUME InventoryStep
      PROVE  UNCHANGED saga /\ (rpc[p]["Confirm"] = "none" => rpc'[p]["Confirm"] = "none")
  BY <1>0, <1>8, CallsKept, Zenon DEF InventoryStep, orderVars, callVars
<1>9. saga'[p] \in GivesUp /\ (rpc[p]["Confirm"] = "none" => rpc'[p]["Confirm"] = "none")
  BY <1>3, <1>4, <1>5, <1>6, <1>7, <1>8, Zenon DEF SagaNext, GivesUp
<1>10. QED
  BY <1>1, <1>2, <1>9, Zenon

\* So a refusal is for good.
LEMMA RefusalStable ==
  ASSUME SagaInv, [SagaNext]_sagaVars, NEW p \in Orders
  PROVE  \A a : Refusal(p, a) =>
           /\ order_status'[p] # "NONE" /\ saga'[p] \in GivesUp /\ rpc'[p]["Confirm"] = "none"
           /\ a = "SEATS_UNAVAILABLE" => charge'[p] = "none"
           /\ a = "PAYMENT_DECLINED" => charge'[p] = "refused"
BY RefusalKept, Zenon DEF Refusal
\* How the reason of a call comes about: a refused reservation was never charged, a
\* declined payment is on record.
LEMMA WhySteps ==
  ASSUME SagaInv, [SagaNext]_sagaVars, NEW p \in Orders, saga'[p] \in {"releasing", "failing"}
  PROVE  \/ saga[p] \in {"releasing", "failing"} /\ why'[p] = why[p]
         \/ why'[p] = "SEATS_UNAVAILABLE" /\ charge'[p] = "none"
         \/ why'[p] = "PAYMENT_DECLINED" /\ charge'[p] = "refused"
         \/ why'[p] = "SERVICE_UNAVAILABLE"
<1>0. SagaTypeOK /\ DOMAIN why = Orders /\ PlaceInv(p)
  BY Zenon DEF SagaInv, SagaTypeOK
<1>1. ASSUME ReserveReturns(p)
      PROVE  \/ why'[p] = "SEATS_UNAVAILABLE" /\ charge'[p] = "none"
             \/ why'[p] = "SERVICE_UNAVAILABLE"
  <2>1. charge[p] = "none"
    BY <1>0, <1>1, Zenon DEF ReserveReturns, PlaceInv
  <2>2. ~Goto(p, "charging")
    BY <1>0, GotoEffect
  <2>3. \/ why' = [why EXCEPT ![p] = "SEATS_UNAVAILABLE"] /\ UNCHANGED charge
        \/ why' = [why EXCEPT ![p] = "SERVICE_UNAVAILABLE"]
    BY <1>1, <2>2, Zenon DEF ReserveReturns, FailWith, ReleaseThenFail
  <2>4. QED
    BY <1>0, <2>1, <2>3, Zenon
<1>2. ASSUME ChargeReturns(p)
      PROVE  \/ why'[p] = "PAYMENT_DECLINED" /\ charge'[p] = "refused"
             \/ why'[p] = "SERVICE_UNAVAILABLE"
  <2>1. ~Goto(p, "confirming")
    BY <1>0, GotoEffect
  <2>2. \/ why' = [why EXCEPT ![p] = "PAYMENT_DECLINED"] /\ charge[p] = "refused"
        \/ why' = [why EXCEPT ![p] = "SERVICE_UNAVAILABLE"]
    BY <1>2, <2>1, Zenon DEF ChargeReturns, ReleaseThenFail, Refused
  <2>3. UNCHANGED charge
    BY <1>2, Zenon DEF ChargeReturns, paymentVars
  <2>4. QED
    BY <1>0, <2>2, <2>3, Zenon
<1>3. ASSUME CreateOrder(p), ~ReserveReturns(p), ~ChargeReturns(p)
      PROVE  saga[p] \in {"releasing", "failing"} /\ UNCHANGED why
  <2>1. UNCHANGED why
    BY <1>3, Zenon DEF CreateOrder, InsertOrder, InsertDuplicate, InsertFails, Replay,
       ConfirmReturns, MarkConfirmed, ReleaseReturns, RecordFailure
  <2>2. ASSUME NEW pc \in {"reserving", "replay", "marking", "done"}, Goto(p, pc) PROVE FALSE
    BY <1>0, <2>2, GotoEffect, Zenon
  <2>3. saga[p] = "releasing"
    BY <1>3, <2>2, Zenon DEF CreateOrder, InsertOrder, InsertDuplicate, InsertFails, Replay,
       ConfirmReturns, MarkConfirmed, ReleaseReturns, RecordFailure, Return
  <2>4. QED
    BY <2>1, <2>3, Zenon
<1>4. ASSUME NEW o \in Orders, o # p, CreateOrder(o)
      PROVE  saga'[p] = saga[p] /\ why'[p] = why[p]
  <2>1. saga'[p] = saga[p]
    BY <1>0, <1>4, OthersUntouched, Zenon DEF SameRecords
  <2>2. UNCHANGED why \/ \E r : why' = [why EXCEPT ![o] = r]
    BY <1>4, Zenon DEF CreateOrder, InsertOrder, InsertDuplicate, InsertFails, Replay, ReserveReturns,
       FailWith, ReleaseThenFail, ChargeReturns, ConfirmReturns, MarkConfirmed, ReleaseReturns,
       RecordFailure
  <2>3. QED
    BY <1>0, <1>4, <2>1, <2>2, Zenon
<1>5. ASSUME NEW o \in Orders, Charge(o) \/ ChargeFails(o) \/ CtxDies(o)
      PROVE  UNCHANGED <<saga, why>>
  BY <1>5, Zenon DEF Charge, ChargeFails, CtxDies, callVars
<1>6. ASSUME OrderCrash PROVE saga'[p] = saga[p] /\ UNCHANGED why
  BY <1>6, Zenon DEF OrderCrash
<1>7. ASSUME InventoryStep \/ UNCHANGED sagaVars PROVE UNCHANGED <<saga, why>>
  BY <1>7, Zenon DEF InventoryStep, sagaVars, orderVars, callVars
<1>8. QED
  BY <1>1, <1>2, <1>3, <1>4, <1>5, <1>6, <1>7, Zenon DEF SagaNext

\* A row fails with the reason its saga gave up for, and keeps it.
LEMMA FailureSteps ==
  ASSUME SagaInv, [SagaNext]_sagaVars, NEW p \in Orders, order_status'[p] = "FAILED"
  PROVE  \/ order_status[p] = "FAILED" /\ failure_reason'[p] = failure_reason[p]
         \/ saga[p] = "failing" /\ failure_reason'[p] = why[p]
<1>0. SagaTypeOK /\ DOMAIN failure_reason = Orders /\ PlaceInv(p)
  BY Zenon DEF SagaInv, SagaTypeOK
<1>1. ASSUME NEW o \in Orders, NEW st, NEW w, NEW e, WriteOrder(o, st, w, e)
      PROVE  /\ failure_reason'[o] = w /\ order_status'[o] = st
             /\ \A q \in Orders : q # o => failure_reason'[q] = failure_reason[q]
  <2>1. order_status'[o] = st
    BY <1>0, <1>1, WriteEffect, Zenon
  <2>2. QED
    BY <1>0, <1>1, <2>1, Zenon DEF WriteOrder
<1>2. ASSUME NEW o \in Orders, o # p, CreateOrder(o)
      PROVE  order_status'[p] = order_status[p] /\ failure_reason'[p] = failure_reason[p]
  <2>1. order_status'[p] = order_status[p]
    BY <1>0, <1>2, OthersUntouched, Zenon DEF SameRecords
  <2>2. TouchesOnly(o)
    BY <1>2, Footprint, Zenon
  <2>3. failure_reason'[p] = failure_reason[p]
    BY <1>1, <1>2, <2>2, Zenon DEF TouchesOnly, orderRows
  <2>4. QED
    BY <2>1, <2>3, Zenon
<1>3. ASSUME CreateOrder(p)
      PROVE  \/ UNCHANGED orderRows
             \/ saga[p] = "failing" /\ failure_reason'[p] = why[p]
  <2>1. \/ UNCHANGED orderRows
        \/ WriteOrder(p, "PENDING", "none", "CREATED")
        \/ WriteOrder(p, "CONFIRMED", "none", "CONFIRMED")
        \/ saga[p] = "failing" /\ WriteOrder(p, "FAILED", why[p], "FAILED")
    BY <1>3, Zenon DEF CreateOrder, InsertOrder, InsertDuplicate, InsertFails, Replay,
       ReserveReturns, ChargeReturns, ConfirmReturns, MarkConfirmed, ReleaseReturns, RecordFailure
  <2>2. QED
    BY <1>1, <2>1, Zenon
<1>4. ASSUME NEW o \in Orders, Charge(o) \/ ChargeFails(o) \/ CtxDies(o)
      PROVE  UNCHANGED orderRows
  BY <1>4, Zenon DEF Charge, ChargeFails, CtxDies
<1>5. ASSUME OrderCrash \/ InventoryStep \/ UNCHANGED sagaVars PROVE UNCHANGED orderRows
  BY <1>5, Zenon DEF OrderCrash, InventoryStep, orderVars, sagaVars
<1>6. QED
  BY <1>2, <1>3, <1>4, <1>5, Zenon DEF SagaNext, orderRows
-----------------------------------------------------------------------------
(* Where an answer comes from.                                             *)

\* What the replay of a key tells is read off the row of the first call.
LEMMA ReplayTells ==
  ASSUME NEW o \in Orders, NEW p \in Orders
  PROVE  \/ ReplayAnswer(o, p) \in {"IDEMPOTENCY_KEY_REUSED", "REQUEST_IN_PROGRESS"}
         \/ ReplayAnswer(o, p) = "CONFIRMED" /\ SameRequest(o, p) /\ order_status[p] = "CONFIRMED"
         \/ ReplayAnswer(o, p) = failure_reason[p] /\ order_status[p] = "FAILED"
BY Zenon DEF ReplayAnswer

\* What the end of a call may tell its caller, naming which order.
Told(o, a, id) ==
  \/ a \notin Reason \cup {"CONFIRMED"}
  \/ a = "CONFIRMED" /\ id = o /\ order_status'[o] = "CONFIRMED"
  \/ a = why[o] /\ saga[o] = "failing"
  \/ \E p \in Orders : /\ SameKey(o, p) /\ SameRequest(o, p) /\ order_status[p] = "CONFIRMED"
                       /\ a = "CONFIRMED" /\ id = p
  \/ \E p \in Orders : SameKey(o, p) /\ order_status[p] = "FAILED" /\ a = failure_reason[p]

\* A call answers from its own saga or from the row of its key, for itself alone.
LEMMA AnswerSteps ==
  ASSUME SagaInv, [SagaNext]_sagaVars, NEW o \in Orders
  PROVE  \/ answer'[o] = answer[o] /\ answer_id'[o] = answer_id[o]
         \/ Told(o, answer'[o], answer_id'[o])
<1>0. SagaTypeOK /\ DOMAIN answer = Orders /\ DOMAIN answer_id = Orders
  BY Zenon DEF SagaInv, SagaTypeOK
<1>1. ASSUME NEW q \in Orders, NEW a, NEW id, Return(q, a, id)
      PROVE  /\ answer'[q] = a /\ answer_id'[q] = id
             /\ q # o => answer'[o] = answer[o] /\ answer_id'[o] = answer_id[o]
  BY <1>0, <1>1, Zenon DEF Return
<1>2. ASSUME NEW q \in Orders, CreateOrder(q)
      PROVE  UNCHANGED <<answer, answer_id>> \/ \E a, id : Return(q, a, id)
  BY <1>2, Zenon DEF CreateOrder, InsertOrder, InsertDuplicate, InsertFails, Replay, ReserveReturns,
     ChargeReturns, ConfirmReturns, MarkConfirmed, ReleaseReturns, RecordFailure
<1>3. Told(o, "INTERNAL", NoOrder)
  BY Zenon DEF Told, Reason
<1>4. ASSUME Replay(o) PROVE Told(o, answer'[o], answer_id'[o])
  <2>1. CASE Return(o, "INTERNAL", NoOrder)
    BY <1>1, <1>3, <2>1, Zenon
  <2>2. ASSUME NEW p \in Orders, SameKey(o, p),
               Return(o, ReplayAnswer(o, p),
                      IF ReplayAnswer(o, p) = "CONFIRMED" THEN p ELSE NoOrder)
        PROVE  Told(o, answer'[o], answer_id'[o])
    <3>1. /\ answer'[o] = ReplayAnswer(o, p)
          /\ ReplayAnswer(o, p) = "CONFIRMED" => answer_id'[o] = p
      BY <1>1, <2>2, Zenon
    <3>2. {"IDEMPOTENCY_KEY_REUSED", "REQUEST_IN_PROGRESS"} \cap (Reason \cup {"CONFIRMED"}) = {}
      BY Zenon DEF Reason
    <3>3. QED
      BY <2>2, <3>1, <3>2, ReplayTells, Zenon DEF Told
  <2>3. QED
    BY <1>4, <2>1, <2>2, Zenon DEF Replay
<1>5. ASSUME MarkConfirmed(o) PROVE Told(o, answer'[o], answer_id'[o])
  <2>1. \/ Return(o, "INTERNAL", NoOrder)
        \/ Return(o, "CONFIRMED", o) /\ WriteOrder(o, "CONFIRMED", "none", "CONFIRMED")
    BY <1>5, Zenon DEF MarkConfirmed
  <2>2. CASE Return(o, "CONFIRMED", o) /\ WriteOrder(o, "CONFIRMED", "none", "CONFIRMED")
    <3>1. order_status'[o] = "CONFIRMED"
      BY <1>0, <2>2, WriteEffect, Zenon
    <3>2. QED
      BY <1>1, <2>2, <3>1, Zenon DEF Told
  <2>3. QED
    BY <1>1, <1>3, <2>1, <2>2, Zenon
<1>6. ASSUME RecordFailure(o) PROVE Told(o, answer'[o], answer_id'[o])
  BY <1>1, <1>6, Zenon DEF RecordFailure, Told
<1>7. ASSUME CreateOrder(o), ~Replay(o), ~MarkConfirmed(o), ~RecordFailure(o)
      PROVE  UNCHANGED <<answer, answer_id>> \/ Return(o, "INTERNAL", NoOrder)
  BY <1>7, Zenon DEF CreateOrder, InsertOrder, InsertDuplicate, InsertFails, ReserveReturns,
     ChargeReturns, ConfirmReturns, ReleaseReturns
<1>8. ASSUME NEW q \in Orders, Charge(q) \/ ChargeFails(q) \/ CtxDies(q)
      PROVE  UNCHANGED <<answer, answer_id>>
  BY <1>8, Zenon DEF Charge, ChargeFails, CtxDies, callVars
<1>9. ASSUME OrderCrash \/ InventoryStep \/ UNCHANGED sagaVars
      PROVE  UNCHANGED <<answer, answer_id>>
  BY <1>9, Zenon DEF OrderCrash, InventoryStep, orderVars, sagaVars, callVars
<1>10. ASSUME CreateOrder(o)
       PROVE  \/ answer'[o] = answer[o] /\ answer_id'[o] = answer_id[o]
              \/ Told(o, answer'[o], answer_id'[o])
  BY <1>1, <1>3, <1>4, <1>5, <1>6, <1>7, <1>10, Zenon
<1>11. ASSUME NEW q \in Orders, q # o, CreateOrder(q)
       PROVE  answer'[o] = answer[o] /\ answer_id'[o] = answer_id[o]
  BY <1>1, <1>2, <1>11, Zenon
<1>12. QED
  BY <1>8, <1>9, <1>10, <1>11, Zenon DEF SagaNext

\* Every step keeps AnswerInv.
LEMMA AnswerInvStep ==
  ASSUME SagaInv, SagaInv', [SagaNext]_sagaVars, \A o \in Orders : AnswerInv(o)
  PROVE  \A o \in Orders : AnswerInv(o)'
<1> SUFFICES ASSUME NEW o \in Orders PROVE AnswerInv(o)'
  OBVIOUS
<1>0. SagaTypeOK /\ PlaceInv(o)' /\ \A p \in Orders : PlaceInv(p)
  BY Zenon DEF SagaInv
<1>1. (charge[o] = "refused" => payments[o] = "FAILED")'
  BY <1>0, ChargeSteps, Zenon DEF AnswerInv
<1>2. (saga[o] \in {"releasing", "failing"} => Refusal(o, why[o]))'
  <2> SUFFICES ASSUME saga'[o] \in {"releasing", "failing"} PROVE Refusal(o, why[o])'
    OBVIOUS
  <2>1. order_status'[o] # "NONE" /\ saga'[o] \in GivesUp /\ rpc'[o]["Confirm"] = "none"
    BY <1>0, Zenon DEF PlaceInv, GivesUp
  <2>2. CASE saga[o] \in {"releasing", "failing"} /\ why'[o] = why[o]
    <3>1. Refusal(o, why[o])
      BY <2>2, Zenon DEF AnswerInv
    <3>2. QED
      BY <2>2, <3>1, RefusalStable, Zenon DEF Refusal
  <2>3. QED
    BY <2>1, <2>2, WhySteps, Zenon DEF Refusal
<1>3. (order_status[o] = "FAILED" => Refusal(o, failure_reason[o]))'
  <2> SUFFICES ASSUME order_status'[o] = "FAILED" PROVE Refusal(o, failure_reason[o])'
    OBVIOUS
  <2>1. Refusal(o, failure_reason'[o])
    BY FailureSteps, Zenon DEF AnswerInv
  <2>2. QED
    BY <2>1, RefusalStable, Zenon DEF Refusal
<1>4. (answer[o] \in Reason =>
         \E p \in Orders : (p = o \/ SameKey(o, p)) /\ Refusal(p, answer[o]))'
  <2> SUFFICES ASSUME answer'[o] \in Reason
               PROVE  \E p \in Orders : (p = o \/ SameKey(o, p)) /\ Refusal(p, answer[o])'
    BY Zenon DEF SameKey
  <2>1. \E p \in Orders : (p = o \/ SameKey(o, p)) /\ Refusal(p, answer'[o])
    <3>1. CASE answer'[o] = answer[o]
      BY <3>1, Zenon DEF AnswerInv
    <3>2. CASE Told(o, answer'[o], answer_id'[o])
      BY <3>2, Zenon DEF Told, AnswerInv, Reason
    <3>3. QED
      BY <3>1, <3>2, AnswerSteps, Zenon
  <2>2. QED
    BY <2>1, RefusalStable, Zenon DEF Refusal
<1>5. (answer[o] = "CONFIRMED" =>
         /\ answer_id[o] \in Orders /\ order_status[answer_id[o]] = "CONFIRMED"
         /\ SameRequest(o, answer_id[o]) /\ (answer_id[o] = o \/ SameKey(o, answer_id[o])))'
  <2>0. \A p \in Orders : order_status[p] = "CONFIRMED" => order_status'[p] = "CONFIRMED"
    BY <1>0, RowSteps, Zenon
  <2>1. ASSUME answer'[o] = "CONFIRMED"
        PROVE  /\ answer_id'[o] \in Orders /\ order_status'[answer_id'[o]] = "CONFIRMED"
               /\ SameRequest(o, answer_id'[o])
               /\ answer_id'[o] = o \/ SameKey(o, answer_id'[o])
    <3>1. CASE answer'[o] = answer[o] /\ answer_id'[o] = answer_id[o]
      BY <2>0, <2>1, <3>1, Zenon DEF AnswerInv
    <3>2. CASE Told(o, answer'[o], answer_id'[o])
      <4>1. why[o] # "CONFIRMED" /\ \A p \in Orders : failure_reason[p] # "CONFIRMED"
        BY <1>0, Zenon DEF SagaTypeOK, Reason
      <4>2. SameRequest(o, o)
        BY Zenon DEF SameRequest
      <4>3. QED
        BY <2>0, <2>1, <3>2, <4>1, <4>2, Zenon DEF Told
    <3>3. QED
      BY <3>1, <3>2, AnswerSteps, Zenon
  <2>2. QED
    BY <2>1, Zenon DEF SameRequest, SameKey
<1>6. QED
  BY <1>1, <1>2, <1>3, <1>4, <1>5, Zenon DEF AnswerInv
-----------------------------------------------------------------------------
(* The theorems.                                                           *)

\* AnswerInv holds in every reachable state.
LEMMA AnswerInvariant == SagaSpec => [](SagaInv /\ \A o \in Orders : AnswerInv(o))
<1>1. SagaInit => \A o \in Orders : AnswerInv(o)
  BY Zenon DEF SagaInit, AnswerInv, Reason
<1>2. SagaInv /\ SagaInv' /\ (\A o \in Orders : AnswerInv(o)) /\ [SagaNext]_sagaVars
      => (\A o \in Orders : AnswerInv(o))'
  BY AnswerInvStep, Zenon
<1>3. QED
  BY <1>1, <1>2, SagaInvariant, PTL DEF SagaSpec

\* A refusal is paid for neither by its own call nor by another call with its key:
\* the key has one row, and only a call with a row charges.
LEMMA RefusedUnpaid ==
  ASSUME SagaInv, \A q \in Orders : AnswerInv(q), NEW p \in Orders, NEW r \in Orders,
         NEW a \in {"SEATS_UNAVAILABLE", "PAYMENT_DECLINED"},
         Refusal(r, a), p = r \/ SameKey(p, r)
  PROVE  payments[p] # "SUCCEEDED"
<1>1. payments[r] # "SUCCEEDED"
  BY Zenon DEF Refusal, SagaInv, PaidInv, AnswerInv
<1>2. ASSUME payments[p] = "SUCCEEDED", SameKey(p, r) PROVE p = r
  <2>1. order_status[p] # "NONE" /\ order_status[r] # "NONE"
    BY <1>2, Zenon DEF Refusal, SagaInv, PaidInv
  <2>2. QED
    BY <1>2, <2>1, Zenon DEF SagaInv, KeyInv
<1>3. QED
  BY <1>1, <1>2, Zenon

\* Whoever was told that the seats were gone or the card was declined is not charged
\* under that key, and the mail about a failed order promises no more than is so.
THEOREM RefusedCorrect == SagaSpec => []RefusedIsNotCharged
<1>1. SagaInv /\ (\A o \in Orders : AnswerInv(o)) => RefusedIsNotCharged
  <2> SUFFICES ASSUME SagaInv, \A q \in Orders : AnswerInv(q), NEW o \in Orders, NEW p \in Orders
               PROVE  /\ /\ answer[o] \in {"SEATS_UNAVAILABLE", "PAYMENT_DECLINED"}
                         /\ p = o \/ SameKey(o, p)
                         => payments[p] # "SUCCEEDED"
                      /\ /\ order_status[o] = "FAILED"
                         /\ chargeNote(failure_reason[o]) = "not charged"
                         => payments[o] # "SUCCEEDED"
    BY Zenon DEF RefusedIsNotCharged
  <2>1. ASSUME answer[o] \in {"SEATS_UNAVAILABLE", "PAYMENT_DECLINED"}, p = o \/ SameKey(o, p)
        PROVE  payments[p] # "SUCCEEDED"
    <3>1. PICK r \in Orders : (r = o \/ SameKey(o, r)) /\ Refusal(r, answer[o])
      BY <2>1, Zenon DEF AnswerInv, Reason
    <3>2. p = r \/ SameKey(p, r)
      BY <2>1, <3>1, Zenon DEF SameKey
    <3>3. QED
      BY <2>1, <3>1, <3>2, RefusedUnpaid, Zenon
  <2>2. ASSUME order_status[o] = "FAILED", chargeNote(failure_reason[o]) = "not charged"
        PROVE  payments[o] # "SUCCEEDED"
    <3>1. failure_reason[o] \in {"SEATS_UNAVAILABLE", "PAYMENT_DECLINED"}
      BY <2>2, Zenon DEF chargeNote
    <3>2. Refusal(o, failure_reason[o])
      BY <2>2, Zenon DEF AnswerInv
    <3>3. QED
      BY <3>1, <3>2, RefusedUnpaid, Zenon
  <2>3. QED
    BY <2>1, <2>2, Zenon
<1>2. QED
  BY <1>1, AnswerInvariant, PTL

\* A caller told CONFIRMED holds the ID of a CONFIRMED order for its own request, and
\* no call with the same key is told that it failed.
THEOREM AnswersCorrect == SagaSpec => []AnswersAgree
<1>1. SagaInv /\ (\A o \in Orders : AnswerInv(o)) => AnswersAgree
  <2> SUFFICES ASSUME SagaInv, \A q \in Orders : AnswerInv(q),
                      NEW o \in Orders, answer[o] = "CONFIRMED"
               PROVE  /\ answer_id[o] \in Orders /\ order_status[answer_id[o]] = "CONFIRMED"
                      /\ SameRequest(o, answer_id[o])
                      /\ \A p \in Orders : SameKey(o, p) => answer[p] \notin Reason
    BY Zenon DEF AnswersAgree
  <2>1. /\ answer_id[o] \in Orders /\ order_status[answer_id[o]] = "CONFIRMED"
        /\ SameRequest(o, answer_id[o]) /\ (answer_id[o] = o \/ SameKey(o, answer_id[o]))
    BY Zenon DEF AnswerInv
  <2>2. ASSUME NEW p \in Orders, SameKey(o, p), answer[p] \in Reason PROVE FALSE
    <3>1. PICK r \in Orders : (r = p \/ SameKey(p, r)) /\ Refusal(r, answer[p])
      BY <2>2, Zenon DEF AnswerInv
    <3>2. SameKey(answer_id[o], r)
      BY <2>1, <2>2, <3>1, Zenon DEF SameKey
    <3>3. answer_id[o] = r
      BY <2>1, <3>1, <3>2, Zenon DEF SagaInv, KeyInv, Refusal
    <3>4. rpc[r]["Confirm"] = "ok"
      BY <2>1, <3>3, Zenon DEF SagaInv, PaidInv
    <3>5. QED
      BY <3>1, <3>4, Zenon DEF Refusal
  <2>3. QED
    BY <2>1, <2>2, Zenon
<1>2. QED
  BY <1>1, AnswerInvariant, PTL
-----------------------------------------------------------------------------
(* A key stands for one purchase: the saga implements module Purchase.     *)

\* A reason is recorded with the failure, and a charge not yet carried out has left
\* no payment.
RowInv(p) ==
  /\ order_status[p] # "FAILED" => failure_reason[p] = "none"
  /\ charge[p] = "sent" => payments[p] = "none"

SameRow(p) ==
  /\ order_status'[p] = order_status[p] /\ failure_reason'[p] = failure_reason[p]
  /\ payments'[p] = payments[p]

\* A row of the payments table is written once, by the Charge call of its order.
LEMMA PaymentSteps ==
  ASSUME SagaTypeOK, [SagaNext]_sagaVars, NEW p \in Orders
  PROVE  payments'[p] = payments[p] \/ (charge[p] = "sent" /\ charge'[p] # "sent")
<1>1. ASSUME NEW o \in Orders, o # p,
             CreateOrder(o) \/ Charge(o) \/ ChargeFails(o) \/ CtxDies(o)
      PROVE  payments'[p] = payments[p]
  BY <1>1, OthersUntouched, Zenon DEF SameRecords
<1>2. ASSUME CreateOrder(p) PROVE UNCHANGED payments
  BY <1>2, Zenon DEF CreateOrder, InsertOrder, InsertDuplicate, InsertFails, Replay, ReserveReturns,
     ChargeReturns, ConfirmReturns, MarkConfirmed, ReleaseReturns, RecordFailure, paymentVars
<1>3. ASSUME Charge(p) PROVE charge[p] = "sent" /\ charge'[p] # "sent"
  <2>1. charge[p] = "sent" /\ (charge'[p] = "ok" \/ charge'[p] = "refused")
    BY <1>3, ChargeEffect, Zenon DEF Charge
  <2>2. QED
    BY <2>1, Zenon
<1>4. ASSUME ChargeFails(p) \/ CtxDies(p) \/ OrderCrash \/ InventoryStep \/ UNCHANGED sagaVars
      PROVE  UNCHANGED payments
  BY <1>4, Zenon DEF ChargeFails, CtxDies, OrderCrash, InventoryStep, sagaVars, orderVars,
     paymentVars
<1>5. QED
  BY <1>1, <1>2, <1>3, <1>4, Zenon DEF SagaNext

\* One row at most is written in a step: inserted, confirmed or failed.
LEMMA RowWrites ==
  ASSUME [SagaNext]_sagaVars
  PROVE  \/ UNCHANGED orderRows
         \/ \E o \in Orders : CreateOrder(o) /\
              \/ WriteOrder(o, "PENDING", "none", "CREATED")
              \/ WriteOrder(o, "CONFIRMED", "none", "CONFIRMED")
              \/ WriteOrder(o, "FAILED", why[o], "FAILED")
<1>1. ASSUME NEW o \in Orders, CreateOrder(o)
      PROVE  \/ UNCHANGED orderRows
             \/ WriteOrder(o, "PENDING", "none", "CREATED")
             \/ WriteOrder(o, "CONFIRMED", "none", "CONFIRMED")
             \/ WriteOrder(o, "FAILED", why[o], "FAILED")
  BY <1>1, Zenon DEF CreateOrder, InsertOrder, InsertDuplicate, InsertFails, Replay,
     ReserveReturns, ChargeReturns, ConfirmReturns, MarkConfirmed, ReleaseReturns, RecordFailure
<1>2. ASSUME NEW o \in Orders, Charge(o) \/ ChargeFails(o) \/ CtxDies(o)
      PROVE  UNCHANGED orderRows
  BY <1>2, Zenon DEF Charge, ChargeFails, CtxDies
<1>3. ASSUME OrderCrash \/ InventoryStep \/ UNCHANGED sagaVars PROVE UNCHANGED orderRows
  BY <1>3, Zenon DEF OrderCrash, InventoryStep, orderVars, sagaVars
<1>4. QED
  BY <1>1, <1>2, <1>3, Zenon DEF SagaNext

\* The two columns of a row that is written, and of the others.
LEMMA ColumnsOf ==
  ASSUME SagaTypeOK, NEW o \in Orders, NEW st, NEW w, NEW e, WriteOrder(o, st, w, e)
  PROVE  /\ order_status'[o] = st /\ failure_reason'[o] = w
         /\ \A p \in Orders : p # o => /\ order_status'[p] = order_status[p]
                                       /\ failure_reason'[p] = failure_reason[p]
<1>1. DOMAIN order_status = Orders /\ DOMAIN failure_reason = Orders
  BY Zenon DEF SagaTypeOK
<1>2. QED
  BY <1>1, Zenon DEF WriteOrder

\* Every step keeps RowInv.
LEMMA RowInvStep ==
  ASSUME SagaInv, [SagaNext]_sagaVars, NEW p \in Orders, RowInv(p)
  PROVE  RowInv(p)'
<1>0. SagaTypeOK /\ PaidInv(p) /\ PlaceInv(p)
  BY Zenon DEF SagaInv
<1>1. order_status'[p] # "FAILED" => failure_reason'[p] = "none"
  <2>1. CASE UNCHANGED orderRows
    BY <2>1, Zenon DEF orderRows, RowInv
  <2>2. ASSUME NEW o \in Orders, NEW st, NEW w, NEW e, WriteOrder(o, st, w, e),
               st = "FAILED" \/ w = "none"
        PROVE  order_status'[p] # "FAILED" => failure_reason'[p] = "none"
    BY <1>0, <2>2, ColumnsOf, Zenon DEF RowInv
  <2>3. QED
    BY <2>1, <2>2, RowWrites, Zenon
<1>2. charge'[p] = "sent" => payments'[p] = "none"
  <2> SUFFICES ASSUME charge'[p] = "sent" PROVE payments'[p] = "none"
    OBVIOUS
  <2>1. payments'[p] = payments[p]
    BY <1>0, PaymentSteps, Zenon
  <2>2. charge[p] \in {"sent", "none"}
    BY <1>0, ChargeSteps, Zenon DEF PlaceInv
  <2>3. QED
    BY <1>0, <2>1, <2>2, Zenon DEF RowInv, PaidInv
<1>3. QED
  BY <1>1, <1>2, Zenon DEF RowInv

\* RowInv holds in every reachable state.
LEMMA RowInvariant == SagaSpec => [](\A p \in Orders : RowInv(p))
<1>1. SagaInit => \A p \in Orders : RowInv(p)
  BY Zenon DEF SagaInit, RowInv
<1>2. SagaInv /\ (\A p \in Orders : RowInv(p)) /\ [SagaNext]_sagaVars
      => (\A p \in Orders : RowInv(p))'
  BY RowInvStep, Zenon
<1>3. QED
  BY <1>1, <1>2, SagaInvariant, PTL DEF SagaSpec

-----------------------------------------------------------------------------
(* What a key shows of the tables.                                         *)

\* The choice among the rows of a key is no choice when there is one.
LEMMA OneRow ==
  ASSUME NEW S, NEW o \in S, \A p \in S : p = o
  PROVE  S # {} /\ (CHOOSE p \in S : TRUE) = o
<1>1. (CHOOSE p \in S : TRUE) \in S
  BY Zenon
<1>2. QED
  BY <1>1, Zenon

\* A key shows the row that has it.
LEMMA ViewOf ==
  ASSUME KeyInv, NEW o \in Orders, KeyOf[o] \in Keys, order_status[o] # "NONE"
  PROVE  PurchaseView[KeyOf[o]] = PurchaseOf(o)
<1> DEFINE k == KeyOf[o]
<1>1. o \in RowsOf(k) /\ \A p \in RowsOf(k) : p = o
  BY SagaConstantsOK, Zenon DEF RowsOf, KeyInv, SameKey
<1>2. RowsOf(k) # {} /\ (CHOOSE p \in RowsOf(k) : TRUE) = o
  BY <1>1, OneRow, Zenon
<1>3. QED
  BY <1>2, Zenon DEF PurchaseView

\* And so after a step.
LEMMA ViewNext ==
  ASSUME KeyInv', NEW o \in Orders, KeyOf[o] \in Keys, order_status'[o] # "NONE"
  PROVE  PurchaseView'[KeyOf[o]] = PurchaseOf(o)'
<1> DEFINE k == KeyOf[o]
<1>1. o \in RowsOf(k)' /\ \A p \in RowsOf(k)' : p = o
  BY SagaConstantsOK, Zenon DEF RowsOf, KeyInv, SameKey
<1>2. RowsOf(k)' # {} /\ (CHOOSE p \in RowsOf(k)' : TRUE) = o
  BY <1>1, OneRow, Zenon
<1>3. QED
  BY <1>2, Zenon DEF PurchaseView

\* A key whose calls are left alone shows what it did before.
LEMMA ViewSame ==
  ASSUME NEW k \in Keys, \A p \in Orders : KeyOf[p] = k => SameRow(p)
  PROVE  PurchaseView'[k] = PurchaseView[k]
<1>1. RowsOf(k)' = RowsOf(k)
  BY Zenon DEF RowsOf, SameRow
<1>2. CASE RowsOf(k) = {}
  BY <1>1, <1>2, Zenon DEF PurchaseView
<1>3. CASE RowsOf(k) # {}
  <2>1. (CHOOSE p \in RowsOf(k) : TRUE) \in RowsOf(k)
    BY <1>3, Zenon
  <2>2. PICK c \in Orders : c = (CHOOSE p \in RowsOf(k) : TRUE) /\ KeyOf[c] = k
    BY <2>1, Zenon DEF RowsOf
  <2>3. PurchaseOf(c)' = PurchaseOf(c)
    BY <2>2, Zenon DEF PurchaseOf, SameRow
  <2>4. PurchaseView[k] = PurchaseOf(c) /\ PurchaseView'[k] = PurchaseOf(c)'
    BY <1>1, <1>3, <2>2, Zenon DEF PurchaseView
  <2>5. QED
    BY <2>3, <2>4, Zenon
<1>4. QED
  BY <1>2, <1>3, Zenon

\* A key without a row shows nothing.
LEMMA ViewNone ==
  ASSUME NEW k \in Keys, \A p \in Orders : KeyOf[p] = k => order_status[p] = "NONE"
  PROVE  PurchaseView[k] = Keyed!Nothing
<1>1. RowsOf(k) = {}
  BY Zenon DEF RowsOf
<1>2. QED
  BY <1>1, Zenon DEF PurchaseView, Keyed!Nothing

\* If no key shows a difference, the purchases are as before.
LEMMA ViewsEqual ==
  ASSUME \A k \in Keys : PurchaseView'[k] = PurchaseView[k]
  PROVE  PurchaseView' = PurchaseView
<1> DEFINE R(k) == IF RowsOf(k) = {}
                   THEN [status |-> "NONE", reason |-> "none", seats |-> {}, paid |-> FALSE]
                   ELSE PurchaseOf(CHOOSE o \in RowsOf(k) : TRUE)
<1>1. PurchaseView = [k \in Keys |-> R(k)] /\ PurchaseView' = [k \in Keys |-> R(k)']
  BY Zenon DEF PurchaseView
<1>2. QED
  BY <1>1, Zenon

\* If one key shows a difference, the others are as before.
LEMMA ViewsExcept ==
  ASSUME NEW k \in Keys, \A j \in Keys : j # k => PurchaseView'[j] = PurchaseView[j]
  PROVE  PurchaseView' = [PurchaseView EXCEPT ![k] = PurchaseView'[k]]
<1> DEFINE R(j) == IF RowsOf(j) = {}
                   THEN [status |-> "NONE", reason |-> "none", seats |-> {}, paid |-> FALSE]
                   ELSE PurchaseOf(CHOOSE o \in RowsOf(j) : TRUE)
<1>1. PurchaseView = [j \in Keys |-> R(j)] /\ PurchaseView' = [j \in Keys |-> R(j)']
  BY Zenon DEF PurchaseView
<1> HIDE DEF R
<1>2. QED
  BY <1>1

-----------------------------------------------------------------------------
(* Every step is a step of one purchase at most.                           *)

\* What an order shows of itself is a purchase.
LEMMA PurchaseType ==
  ASSUME SagaTypeOK', NEW p \in Orders
  PROVE  PurchaseOf(p)' \in Keyed!APurchase
<1>1. order_status'[p] \in {"NONE", "PENDING", "CONFIRMED", "FAILED"}
  BY Zenon DEF SagaTypeOK
<1>2. failure_reason'[p] \in Keyed!NotCharged \cup {"none", "SERVICE_UNAVAILABLE"}
  BY Zenon DEF SagaTypeOK, Reason, Keyed!NotCharged
<1>3. Req[p].seats \in SUBSET Seats /\ (payments'[p] = "SUCCEEDED") \in BOOLEAN
  BY RequestType, Zenon
<1>4. QED
  BY <1>1, <1>2, <1>3, Zenon DEF PurchaseOf, Keyed!APurchase

\* The four columns of a purchase.
LEMMA PurchaseFields ==
  ASSUME NEW p
  PROVE  /\ PurchaseOf(p).status = order_status[p]
         /\ PurchaseOf(p).reason = failure_reason[p]
         /\ PurchaseOf(p).seats = Req[p].seats
         /\ PurchaseOf(p).paid = (payments[p] = "SUCCEEDED")
         /\ PurchaseOf(p)'.status = order_status'[p]
         /\ PurchaseOf(p)'.reason = failure_reason'[p]
         /\ PurchaseOf(p)'.seats = Req[p].seats
         /\ PurchaseOf(p)'.paid = (payments'[p] = "SUCCEEDED")
BY Zenon DEF PurchaseOf

\* The insert begins a purchase: the key had none, and nothing is charged yet.
LEMMA RowStarts ==
  ASSUME SagaInv, [SagaNext]_sagaVars, NEW p \in Orders, RowInv(p)',
         order_status[p] = "NONE", order_status'[p] # "NONE"
  PROVE  /\ ~DuplicateKey(p)
         /\ order_status'[p] = "PENDING" /\ failure_reason'[p] = "none"
         /\ payments'[p] # "SUCCEEDED"
<1>0. SagaTypeOK /\ PlaceInv(p) /\ PaidInv(p)
  BY Zenon DEF SagaInv
<1>1. order_status'[p] = "PENDING" /\ ~DuplicateKey(p)
  BY <1>0, RowSteps, Zenon
<1>2. failure_reason'[p] = "none"
  BY <1>1, Zenon DEF RowInv
<1>3. charge[p] = "none" /\ payments[p] = "none"
  BY <1>0, Zenon DEF PaidInv
<1>4. payments'[p] = "none"
  BY <1>0, <1>3, PaymentSteps, Zenon
<1>5. QED
  BY <1>1, <1>2, <1>4, Zenon

\* After the insert a purchase only goes on: seats and verdict stay, money is not
\* given back, and what the row says of the charge is so.
LEMMA RowGoesOn ==
  ASSUME SagaInv, SagaInv', [SagaNext]_sagaVars, NEW p \in Orders, RowInv(p), RowInv(p)',
         RefusedIsNotCharged', order_status[p] # "NONE"
  PROVE  Keyed!GoesOn(PurchaseOf(p), PurchaseOf(p)')
<1>0. SagaTypeOK /\ PlaceInv(p) /\ PaidInv(p) /\ PaidInv(p)'
  BY Zenon DEF SagaInv
<1>1. order_status'[p] # "NONE"
  BY <1>0, RowSteps, Zenon
<1>2. payments[p] = "SUCCEEDED" => payments'[p] = "SUCCEEDED"
  BY <1>0, PaymentSteps, Zenon DEF RowInv
<1>3. order_status[p] # "PENDING" =>
        order_status'[p] = order_status[p] /\ failure_reason'[p] = failure_reason[p]
  <2> SUFFICES ASSUME order_status[p] # "PENDING"
               PROVE  order_status'[p] = order_status[p] /\ failure_reason'[p] = failure_reason[p]
    OBVIOUS
  <2>1. order_status'[p] = order_status[p]
    BY <1>0, RowSteps, Zenon
  <2>2. CASE order_status[p] = "FAILED"
    BY <1>0, <2>1, <2>2, FailureSteps, Zenon DEF PlaceInv
  <2>3. CASE order_status[p] # "FAILED"
    BY <2>1, <2>3, Zenon DEF RowInv
  <2>4. QED
    BY <2>1, <2>2, <2>3, Zenon
<1>4. order_status'[p] = "CONFIRMED" => payments'[p] = "SUCCEEDED"
  <2>1. "ok" # "none"
    OBVIOUS
  <2>2. QED
    BY <1>0, <2>1, Zenon DEF PaidInv
<1>5. failure_reason'[p] \in Keyed!NotCharged =>
        order_status'[p] = "FAILED" /\ payments'[p] # "SUCCEEDED"
  <2> SUFFICES ASSUME failure_reason'[p] \in {"SEATS_UNAVAILABLE", "PAYMENT_DECLINED"}
               PROVE  order_status'[p] = "FAILED" /\ payments'[p] # "SUCCEEDED"
    BY Zenon DEF Keyed!NotCharged
  <2>1. order_status'[p] = "FAILED"
    BY Zenon DEF RowInv
  <2>2. chargeNote(failure_reason'[p]) = "not charged"
    BY Zenon DEF chargeNote
  <2>3. QED
    BY <2>1, <2>2, Zenon DEF RefusedIsNotCharged
<1>6. QED
  BY <1>1, <1>2, <1>3, <1>4, <1>5, PurchaseFields, Zenon DEF Keyed!GoesOn

\* A step writes to the orders and payments of one call, or to the seats, not both.
LEMMA OneActor ==
  ASSUME SagaTypeOK, [SagaNext]_sagaVars
  PROVE  \/ UNCHANGED <<order_status, failure_reason, payments>>
         \/ /\ UNCHANGED sold_to
            /\ \E o \in Orders : \A p \in Orders : p # o => SameRow(p)
<1>1. ASSUME NEW o \in Orders, CreateOrder(o) \/ Charge(o) \/ ChargeFails(o) \/ CtxDies(o)
      PROVE  UNCHANGED sold_to /\ \A p \in Orders : p # o => SameRow(p)
  <2>1. TouchesOnly(o)
    BY <1>1, Footprint, Zenon
  <2>2. UNCHANGED sold_to
    BY <2>1, Zenon DEF TouchesOnly, CallInventory, inventoryVars, seatVars
  <2>3. ASSUME NEW p \in Orders, p # o PROVE SameRow(p)
    <3>1. payments'[p] = payments[p]
      BY <1>1, <2>3, OthersUntouched, Zenon DEF SameRecords
    <3>2. order_status'[p] = order_status[p] /\ failure_reason'[p] = failure_reason[p]
      <4>1. CASE UNCHANGED orderRows
        BY <4>1, Zenon DEF orderRows
      <4>2. ASSUME NEW st, NEW w, NEW e, WriteOrder(o, st, w, e)
            PROVE  order_status'[p] = order_status[p] /\ failure_reason'[p] = failure_reason[p]
        BY <2>3, <4>2, ColumnsOf, Zenon
      <4>3. QED
        BY <2>1, <4>1, <4>2, Zenon DEF TouchesOnly
    <3>3. QED
      BY <3>1, <3>2, Zenon DEF SameRow
  <2>4. QED
    BY <2>2, <2>3, Zenon
<1>2. ASSUME OrderCrash \/ InventoryStep \/ UNCHANGED sagaVars
      PROVE  UNCHANGED <<order_status, failure_reason, payments>>
  BY <1>2, Zenon DEF OrderCrash, InventoryStep, sagaVars, orderVars, orderRows, paymentVars
<1>3. QED
  BY <1>1, <1>2, Zenon DEF SagaNext

\* Seats that are not sold stay with whom they were.
LEMMA SoldViewSame ==
  ASSUME UNCHANGED sold_to
  PROVE  SoldView' = SoldView
BY Zenon DEF SoldView

\* A CONFIRMED purchase has its seats.
LEMMA ConfirmedHas ==
  ASSUME ConfirmedIsPaidAndSold', NEW o \in Orders, order_status'[o] = "CONFIRMED"
  PROVE  \A s \in Req[o].seats : SoldView'[s] = KeyOf[o]
<1>1. ASSUME NEW s \in Req[o].seats PROVE SoldView'[s] = KeyOf[o]
  <2>1. s \in Seats /\ o # NoOrder
    BY RequestType, ConstantsOK, Zenon
  <2>2. sold_to'[s] = o
    BY Zenon DEF ConfirmedIsPaidAndSold
  <2>3. QED
    BY <2>1, <2>2, Zenon DEF SoldView
<1>2. QED
  BY <1>1, Zenon

\* A call that writes to its own tables makes a step of its key's purchase.
LEMMA CallStep ==
  ASSUME SagaInv, SagaInv', [SagaNext]_sagaVars, RefusedIsNotCharged', ConfirmedIsPaidAndSold',
         \A p \in Orders : RowInv(p) /\ RowInv(p)',
         NEW o \in Orders, UNCHANGED sold_to, \A p \in Orders : p # o => SameRow(p)
  PROVE  [Keyed!PurchaseNext]_<<PurchaseView, SoldView>>
<1>k. PICK k : k = KeyOf[o]
  BY Zenon
<1>0. /\ SagaTypeOK /\ SagaTypeOK' /\ KeyInv /\ KeyInv' /\ SoldView' = SoldView
      /\ NoKey \notin Keys /\ k \in Keys \cup {NoKey}
  BY <1>k, SoldViewSame, SagaConstantsOK, Zenon DEF SagaInv
<1>1. \A j \in Keys : j # k => PurchaseView'[j] = PurchaseView[j]
  BY <1>k, ViewSame, Zenon
<1>2. CASE k = NoKey
  <2>1. \A j \in Keys : PurchaseView'[j] = PurchaseView[j]
    BY <1>0, <1>1, <1>2, Zenon
  <2>2. QED
    BY <1>0, <2>1, ViewsEqual, Zenon
<1>3. CASE k \in Keys /\ order_status'[o] = "NONE"
  <2>1. order_status[o] = "NONE"
    <3>1. PlaceInv(o)
      BY Zenon DEF SagaInv
    <3>2. QED
      BY <1>0, <1>3, <3>1, RowSteps, Zenon
  <2>2. PaidInv(o) /\ PaidInv(o)' /\ RowInv(o) /\ RowInv(o)'
    BY Zenon DEF SagaInv
  <2>3. SameRow(o)
    BY <1>3, <2>1, <2>2, Zenon DEF PaidInv, RowInv, SameRow
  <2>4. \A j \in Keys : PurchaseView'[j] = PurchaseView[j]
    BY <2>3, ViewSame, Zenon
  <2>5. QED
    BY <1>0, <2>4, ViewsEqual, Zenon
<1>4. CASE k \in Keys /\ order_status'[o] # "NONE"
  <2> DEFINE now == PurchaseOf(o)'
  <2>1. PurchaseView'[k] = now
    BY <1>k, <1>0, <1>4, ViewNext, Zenon
  <2>2. now \in Keyed!APurchase
    BY <1>0, PurchaseType, Zenon
  <2>3. PurchaseView' = [PurchaseView EXCEPT ![k] = PurchaseView'[k]]
    BY <1>1, <1>4, ViewsExcept, Zenon
  <2>4. now.status = "CONFIRMED" => \A s \in now.seats : SoldView'[s] = k
    BY <1>k, ConfirmedHas, PurchaseFields, Zenon
  <2>5. Keyed!Begins(PurchaseView[k], now) \/ Keyed!GoesOn(PurchaseView[k], now)
    <3>1. CASE order_status[o] = "NONE"
      <4>1. /\ ~DuplicateKey(o) /\ order_status'[o] = "PENDING"
            /\ failure_reason'[o] = "none" /\ payments'[o] # "SUCCEEDED"
        BY <1>4, <3>1, RowStarts, Zenon
      <4>2. \A p \in Orders : KeyOf[p] = k => order_status[p] = "NONE"
        BY <1>k, <1>0, <1>4, <4>1, Zenon DEF DuplicateKey, SameKey
      <4>3. PurchaseView[k] = Keyed!Nothing
        BY <1>4, <4>2, ViewNone, Zenon
      <4>4. QED
        BY <4>1, <4>3, PurchaseFields, Zenon DEF Keyed!Begins
    <3>2. CASE order_status[o] # "NONE"
      <4>1. PurchaseView[k] = PurchaseOf(o)
        BY <1>k, <1>0, <1>4, <3>2, ViewOf, Zenon
      <4>2. QED
        BY <3>2, <4>1, RowGoesOn, Zenon
    <3>3. QED
      BY <3>1, <3>2, Zenon
  <2>6. Keyed!Step(k, PurchaseView[k], PurchaseView'[k])
    BY <1>0, <2>1, <2>2, <2>3, <2>4, <2>5, Zenon DEF Keyed!Step
  <2>7. QED
    BY <1>4, <2>6, Zenon DEF Keyed!PurchaseNext
<1>5. QED
  BY <1>0, <1>2, <1>3, <1>4, Zenon

\* A ConfirmSeats that commits sells a paid purchase all of its seats; any other step
\* of inventory-svc changes nothing a key shows.
LEMMA SeatsStep ==
  ASSUME SagaInv, SagaInv', [SagaNext]_sagaVars, RefusedIsNotCharged', ConfirmedIsPaidAndSold',
         \A p \in Orders : RowInv(p) /\ RowInv(p)',
         UNCHANGED <<order_status, failure_reason, payments>>
  PROVE  [Keyed!PurchaseNext]_<<PurchaseView, SoldView>>
<1>0. /\ SagaTypeOK /\ SagaTypeOK' /\ KeyInv /\ KeyInv' /\ SeatInv /\ HolderMatchesStatus
      /\ NoOrder \notin Orders /\ NoKey \notin Keys
  BY SagaConstantsOK, ConstantsOK, Zenon DEF SagaInv, SeatInv
<1>1. \A j \in Keys : PurchaseView'[j] = PurchaseView[j]
  BY ViewSame, Zenon DEF SameRow
<1>2. PurchaseView' = PurchaseView
  BY <1>1, ViewsEqual, Zenon
<1>3. CASE UNCHANGED sold_to
  BY <1>2, <1>3, SoldViewSame, Zenon
<1>4. ASSUME NEW o \in Orders, Moves(o, "SOLD")
      PROVE  [Keyed!PurchaseNext]_<<PurchaseView, SoldView>>
  <2>1. PICK k : k = KeyOf[o] /\ k \in Keys \cup {NoKey}
    BY SagaConstantsOK, Zenon
  <2>2. \A s \in Seats : sold_to'[s] = IF s \in Req[o].seats THEN o ELSE sold_to[s]
    BY <1>4, Zenon DEF Moves
  <2>3. \A s \in Req[o].seats : s \in Seats /\ SoldView[s] = NoKey
    <3>1. ASSUME NEW s \in Req[o].seats PROVE s \in Seats /\ SoldView[s] = NoKey
      <4>1. s \in Seats
        BY RequestType, Zenon
      <4>2. status[s] = "HELD"
        BY <1>4, Zenon DEF Moves, RowsHeldBy
      <4>3. sold_to[s] = NoOrder
        BY <1>0, <4>1, <4>2, Zenon DEF HolderMatchesStatus
      <4>4. QED
        BY <4>1, <4>3, Zenon DEF SoldView
    <3>2. QED
      BY <3>1, Zenon
  <2>4. SoldView' = [s \in Seats |-> IF s \in Req[o].seats THEN k ELSE SoldView[s]]
    <3>1. \A s \in Seats : SoldView'[s] = IF s \in Req[o].seats THEN k ELSE SoldView[s]
      BY <1>0, <2>1, <2>2, Zenon DEF SoldView
    <3>2. SoldView' = [s \in Seats |-> SoldView'[s]]
      BY Zenon DEF SoldView
    <3>3. QED
      BY <3>1, <3>2, Zenon
  <2>5. CASE k = NoKey
    <3>1. \A s \in Seats : (IF s \in Req[o].seats THEN k ELSE SoldView[s]) = SoldView[s]
      BY <2>3, <2>5, Zenon
    <3>2. SoldView = [s \in Seats |-> SoldView[s]]
      BY Zenon DEF SoldView
    <3>3. SoldView' = SoldView
      BY <2>4, <3>1, <3>2, Zenon
    <3>4. QED
      BY <1>2, <3>3, Zenon
  <2>6. CASE k \in Keys
    <3> DEFINE now == PurchaseOf(o)'
    <3>1. payments[o] = "SUCCEEDED" /\ order_status[o] \in {"PENDING", "CONFIRMED"}
      <4>1. rpc[o]["Confirm"] = "sent"
        BY <1>4, Zenon DEF Moves
      <4>2. PaidInv(o)
        BY Zenon DEF SagaInv
      <4>3. QED
        BY <4>1, <4>2, Zenon DEF PaidInv
    <3>2. order_status[o] # "NONE" /\ order_status'[o] # "NONE" /\ order_status'[o] # "FAILED"
      BY <3>1, Zenon
    <3>3. PurchaseView[k] = PurchaseOf(o) /\ PurchaseView'[k] = now
      BY <1>0, <2>1, <2>6, <3>2, ViewOf, ViewNext, Zenon
    <3>4. now \in Keyed!APurchase
      BY <1>0, PurchaseType, Zenon
    <3>5. PurchaseView' = [PurchaseView EXCEPT ![k] = PurchaseView'[k]]
      BY <1>1, <2>6, ViewsExcept, Zenon
    <3>6. Keyed!GoesOn(PurchaseOf(o), now)
      BY <3>2, RowGoesOn, Zenon
    <3>7. now.paid /\ now.status # "FAILED" /\ now.seats = Req[o].seats
      BY <3>1, <3>2, PurchaseFields, Zenon
    <3>8. Keyed!Sell(k, now.seats)
      BY <2>3, <2>4, <3>7, Zenon DEF Keyed!Sell
    <3>9. now.status = "CONFIRMED" => \A s \in now.seats : SoldView'[s] = k
      BY <2>1, ConfirmedHas, PurchaseFields, Zenon
    <3>10. Keyed!Step(k, PurchaseView[k], PurchaseView'[k])
      BY <3>3, <3>4, <3>5, <3>6, <3>7, <3>8, <3>9, Zenon DEF Keyed!Step
    <3>11. QED
      BY <2>6, <3>10, Zenon DEF Keyed!PurchaseNext
  <2>7. QED
    BY <2>1, <2>5, <2>6, Zenon
<1>5. UNCHANGED sold_to \/ \E o \in Orders : Moves(o, "SOLD")
  <2>1. [InventoryNext]_inventoryVars
    BY DrivesInventory, Zenon DEF SagaInv
  <2>2. ASSUME NEW o \in Orders, Moves(o, "AVAILABLE") PROVE UNCHANGED sold_to
    <3>1. sold_to' = [s \in Seats |-> sold_to[s]]
      BY <2>2, Zenon DEF Moves
    <3>2. QED
      BY <1>0, <3>1, Zenon DEF SagaTypeOK, InventoryTypeOK
  <2>3. QED
    BY <2>1, <2>2, SeatStepCases, Zenon DEF seatVars, CreateEvent, ReserveSeats, SweepRelease
<1>6. QED
  BY <1>3, <1>4, <1>5, Zenon

\* A key stands for one purchase, however often its call is retried and whatever is
\* lost, late or crashes: seats and verdict are fixed, the charge comes before the
\* sale, CONFIRMED is paid and sold, and a refusal is never charged.
THEOREM SagaRefinesPurchase == SagaSpec => RefinesPurchase
<1>1. SagaInit => Keyed!PurchaseInit
  <2> SUFFICES ASSUME SagaInit PROVE Keyed!PurchaseInit
    OBVIOUS
  <2>1. \A k \in Keys : PurchaseView[k] = Keyed!Nothing
    BY ViewNone, Zenon DEF SagaInit
  <2>2. PurchaseView = [k \in Keys |-> PurchaseView[k]]
    <3> DEFINE R(k) == IF RowsOf(k) = {}
                       THEN [status |-> "NONE", reason |-> "none", seats |-> {}, paid |-> FALSE]
                       ELSE PurchaseOf(CHOOSE o \in RowsOf(k) : TRUE)
    <3>1. PurchaseView = [k \in Keys |-> R(k)]
      BY Zenon DEF PurchaseView
    <3> HIDE DEF R
    <3>2. QED
      BY <3>1
  <2>3. SoldView = [s \in Seats |-> NoKey]
    BY Zenon DEF SagaInit, InventoryInit, SoldView
  <2>4. QED
    BY <2>1, <2>2, <2>3, Zenon DEF Keyed!PurchaseInit
<1>2. SagaInv /\ SagaInv' /\ (\A p \in Orders : RowInv(p)) /\ (\A p \in Orders : RowInv(p))'
        /\ RefusedIsNotCharged' /\ ConfirmedIsPaidAndSold' /\ [SagaNext]_sagaVars
      => [Keyed!PurchaseNext]_<<PurchaseView, SoldView>>
  <2> SUFFICES ASSUME SagaInv, SagaInv', \A p \in Orders : RowInv(p) /\ RowInv(p)',
                      RefusedIsNotCharged', ConfirmedIsPaidAndSold', [SagaNext]_sagaVars
               PROVE  [Keyed!PurchaseNext]_<<PurchaseView, SoldView>>
    BY Zenon
  <2>1. SagaTypeOK
    BY Zenon DEF SagaInv
  <2>2. QED
    BY <2>1, OneActor, CallStep, SeatsStep, Zenon
<1>3. QED
  BY <1>1, <1>2, SagaInvariant, RowInvariant, RefusedCorrect, ConfirmedCorrect, PTL
     DEF SagaSpec, RefinesPurchase, Keyed!PurchaseSpec, Keyed!purchaseVars

\* The whole system implements the abstract seat sale: whatever order-svc does with its
\* calls, a seat is taken from free, bought by its holder with the order's other seats,
\* and never leaves its buyer.
THEOREM SagaRefinesSeatSale == SagaSpec => RefinesSeatSale
BY SagaRefinesInventory, InventoryRefinesSeatSale, PTL DEF RefinesInventory
=============================================================================
