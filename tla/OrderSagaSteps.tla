--------------------------- MODULE OrderSagaSteps ---------------------------
(* Every step of the saga and of its two services keeps the types, what    *)
(* the records of an order say of each other (PlaceInv, PaidInv), and that *)
(* an order owns its seats once its ConfirmSeats has committed, and not    *)
(* before (SoldInv).                                                       *)
EXTENDS OrderSagaInv

-----------------------------------------------------------------------------
(* The types of order-svc's and payment-svc's state.                      *)

\* The type invariant, table by table.
RowTypes ==
  /\ order_status \in [Orders -> {"NONE", "PENDING", "CONFIRMED", "FAILED"}]
  /\ failure_reason \in [Orders -> Reason \cup {"none"}]
  /\ order_events \in [Orders -> Seq({"CREATED", "CONFIRMED", "FAILED"})]

PaymentTypes ==
  /\ payments \in [Orders -> {"none", "SUCCEEDED", "FAILED"}]
  /\ charge \in [Orders -> RpcState \ {"redis"}]

WhyType == why \in [Orders -> Reason \cup {"none"}]

CallTypes ==
  /\ saga \in [Orders -> SagaPc]
  /\ ctx \in [Orders -> BOOLEAN]
  /\ answer \in [Orders -> Answer]
  /\ answer_id \in [Orders -> Orders \cup {NoOrder}]

OrderTypes == RowTypes /\ PaymentTypes /\ WhyType /\ CallTypes /\ crashes \in 0..MaxCrashes

\* The tables are all there is to the type invariant.
LEMMA TypesByTable == SagaTypeOK <=> InventoryTypeOK /\ OrderTypes
BY Zenon DEF SagaTypeOK, OrderTypes, RowTypes, PaymentTypes, WhyType, CallTypes

\* A transaction keeps the types of the orders table and its outbox.
LEMMA WriteTypes ==
  ASSUME RowTypes, NEW o \in Orders, NEW st \in {"PENDING", "CONFIRMED", "FAILED"},
         NEW r \in Reason \cup {"none"}, NEW e \in {"CREATED", "CONFIRMED", "FAILED"},
         WriteOrder(o, st, r, e)
  PROVE  RowTypes'
<1>1. order_status' \in [Orders -> {"NONE", "PENDING", "CONFIRMED", "FAILED"}]
  BY EntryUpdate, Zenon DEF RowTypes, WriteOrder
<1>2. failure_reason' \in [Orders -> Reason \cup {"none"}]
  BY EntryUpdate, Zenon DEF RowTypes, WriteOrder
<1>3. order_events' \in [Orders -> Seq({"CREATED", "CONFIRMED", "FAILED"})]
  <2>1. Append(order_events[o], e) \in Seq({"CREATED", "CONFIRMED", "FAILED"})
    BY DEF RowTypes
  <2>2. order_events' = [order_events EXCEPT ![o] = Append(order_events[o], e)]
    BY Zenon DEF WriteOrder
  <2>3. order_events \in [Orders -> Seq({"CREATED", "CONFIRMED", "FAILED"})]
    BY Zenon DEF RowTypes
  <2>4. QED
    BY <2>1, <2>2, <2>3, EntryUpdate, Zenon
<1>4. QED
  BY <1>1, <1>2, <1>3, Zenon DEF RowTypes

\* A step within the call keeps the types of its locals.
LEMMA GotoTypes ==
  ASSUME CallTypes, NEW o \in Orders, NEW pc \in SagaPc, Goto(o, pc),
         UNCHANGED <<ctx, answer, answer_id>>
  PROVE  CallTypes'
BY EntryUpdate, Zenon DEF CallTypes, Goto

\* The end of a call keeps the types of its locals.
LEMMA ReturnTypes ==
  ASSUME CallTypes, NEW o \in Orders, NEW a \in Answer, NEW p \in Orders \cup {NoOrder},
         Return(o, a, p)
  PROVE  CallTypes'
<1>1. "done" \in SagaPc
  BY Zenon DEF SagaPc
<1>2. saga' \in [Orders -> SagaPc]
  BY <1>1, EntryUpdate, Zenon DEF CallTypes, Return, Goto
<1>3. ctx' \in [Orders -> BOOLEAN]
  BY EntryUpdate, Zenon DEF CallTypes, Return
<1>4. answer' \in [Orders -> Answer]
  BY EntryUpdate, Zenon DEF CallTypes, Return
<1>5. answer_id' \in [Orders -> Orders \cup {NoOrder}]
  BY EntryUpdate, Zenon DEF CallTypes, Return
<1>6. QED
  BY <1>2, <1>3, <1>4, <1>5, Zenon DEF CallTypes

\* A reason to give up is one the row may carry.
LEMMA WhyTypes ==
  ASSUME WhyType, NEW o \in Orders, NEW r \in Reason, why' = [why EXCEPT ![o] = r]
  PROVE  WhyType'
BY EntryUpdate, Zenon DEF WhyType

\* A step of the Charge call keeps the types of payment-svc's side.
LEMMA PaymentTypeStep ==
  ASSUME PaymentTypes, NEW o \in Orders, NEW r \in RpcState \ {"redis"},
         charge' = [charge EXCEPT ![o] = r], payments' \in [Orders -> {"none", "SUCCEEDED", "FAILED"}]
  PROVE  PaymentTypes'
BY EntryUpdate, Zenon DEF PaymentTypes

\* Tables that a step leaves alone keep their types.
LEMMA TypesKept ==
  ASSUME OrderTypes
  PROVE  /\ UNCHANGED orderRows => RowTypes'
         /\ UNCHANGED paymentVars => PaymentTypes'
         /\ UNCHANGED why => WhyType'
         /\ UNCHANGED <<saga, ctx, answer, answer_id>> => CallTypes'
         /\ UNCHANGED crashes => crashes' \in 0..MaxCrashes
<1>1. UNCHANGED orderRows => RowTypes'
  BY Zenon DEF OrderTypes, RowTypes, orderRows
<1>2. UNCHANGED paymentVars => PaymentTypes'
  BY Zenon DEF OrderTypes, PaymentTypes, paymentVars
<1>3. UNCHANGED why => WhyType'
  BY Zenon DEF OrderTypes, WhyType
<1>4. UNCHANGED <<saga, ctx, answer, answer_id>> => CallTypes'
  BY Zenon DEF OrderTypes, CallTypes
<1>5. UNCHANGED crashes => crashes' \in 0..MaxCrashes
  BY Zenon DEF OrderTypes
<1>6. QED
  BY <1>1, <1>2, <1>3, <1>4, <1>5, Zenon

\* Every step keeps the types of order-svc's and payment-svc's state.
LEMMA SagaTypeStep ==
  ASSUME SagaTypeOK, InventoryTypeOK', [SagaNext]_sagaVars
  PROVE  SagaTypeOK'
<1>0. /\ {"none", "sent", "ok", "refused", "broken"} \subseteq RpcState \ {"redis"}
      /\ Reason \cup {"none", "CONFIRMED", "REQUEST_IN_PROGRESS", "IDEMPOTENCY_KEY_REUSED",
                      "INTERNAL"} \subseteq Answer
      /\ {"SEATS_UNAVAILABLE", "PAYMENT_DECLINED", "SERVICE_UNAVAILABLE"} \subseteq Reason
      /\ {"replay", "reserving", "charging", "confirming", "marking", "releasing",
          "failing", "done", "crashed"} \subseteq SagaPc
  BY Zenon DEF RpcState, Answer, Reason, SagaPc
<1>1. OrderTypes
  BY TypesByTable, Zenon
<1>2. RowTypes /\ PaymentTypes /\ WhyType /\ CallTypes /\ crashes \in 0..MaxCrashes
  BY <1>1, Zenon DEF OrderTypes
<1> SUFFICES OrderTypes'
  BY TypesByTable, Zenon DEF SagaTypeOK, OrderTypes, RowTypes, PaymentTypes, WhyType, CallTypes
<1> DEFINE Rest(o) == \/ UNCHANGED <<ctx, answer, answer_id>> /\ \E pc \in SagaPc : Goto(o, pc)
                      \/ \E a \in Answer, p \in Orders \cup {NoOrder} : Return(o, a, p)
           Whys(o) == UNCHANGED why \/ \E r \in Reason : why' = [why EXCEPT ![o] = r]
           Rows(o) == \/ UNCHANGED orderRows
                      \/ \E st \in {"PENDING", "CONFIRMED", "FAILED"}, r \in Reason \cup {"none"},
                            e \in {"CREATED", "CONFIRMED", "FAILED"} : WriteOrder(o, st, r, e)
           Pays(o) == \/ UNCHANGED paymentVars
                      \/ /\ payments' \in [Orders -> {"none", "SUCCEEDED", "FAILED"}]
                         /\ \E r \in RpcState \ {"redis"} : charge' = [charge EXCEPT ![o] = r]
<1>3. ASSUME NEW o \in Orders, Rest(o), Whys(o), Rows(o), Pays(o), UNCHANGED crashes
      PROVE  OrderTypes'
  <2>1. CallTypes'
    BY <1>2, <1>3, GotoTypes, ReturnTypes, Zenon
  <2>2. WhyType'
    BY <1>1, <1>2, <1>3, WhyTypes, TypesKept, Zenon
  <2>3. RowTypes'
    BY <1>1, <1>2, <1>3, WriteTypes, TypesKept
  <2>4. PaymentTypes'
    BY <1>1, <1>2, <1>3, PaymentTypeStep, TypesKept, Zenon
  <2>5. QED
    BY <1>2, <1>3, <2>1, <2>2, <2>3, <2>4, Zenon DEF OrderTypes
<1>4. ASSUME NEW o \in Orders, CreateOrder(o) PROVE OrderTypes'
  <2>1. Rest(o)
    <3>1. \A p \in Orders : ReplayAnswer(o, p) \in Answer
      BY <1>0, <1>2, Zenon DEF ReplayAnswer, RowTypes
    <3>2. why[o] \in Answer
      BY <1>0, <1>2, Zenon DEF WhyType
    <3>3. CASE InsertOrder(o) \/ InsertDuplicate(o) \/ InsertFails(o)
      BY <1>0, <3>3, Zenon DEF InsertOrder, InsertDuplicate, InsertFails
    <3>4. CASE Replay(o)
      BY <1>0, <3>1, <3>4, Zenon DEF Replay
    <3>5. CASE ReserveReturns(o) \/ ChargeReturns(o)
      BY <1>0, <3>5, Zenon DEF ReserveReturns, ChargeReturns, FailWith, ReleaseThenFail
    <3>6. CASE ConfirmReturns(o) \/ MarkConfirmed(o)
      BY <1>0, <3>6, Zenon DEF ConfirmReturns, MarkConfirmed
    <3>7. CASE ReleaseReturns(o) \/ RecordFailure(o)
      BY <1>0, <3>2, <3>7, Zenon DEF ReleaseReturns, RecordFailure
    <3>8. QED
      BY <1>4, <3>3, <3>4, <3>5, <3>6, <3>7, Zenon DEF CreateOrder
  <2>2. Whys(o)
    <3>1. CASE ReserveReturns(o) \/ ChargeReturns(o)
      BY <1>0, <3>1, Zenon DEF ReserveReturns, ChargeReturns, FailWith, ReleaseThenFail
    <3>2. CASE ~(ReserveReturns(o) \/ ChargeReturns(o))
      BY <1>4, <3>2, Zenon DEF CreateOrder, InsertOrder, InsertDuplicate, InsertFails, Replay,
         ConfirmReturns, MarkConfirmed, ReleaseReturns, RecordFailure
    <3>3. QED
      BY <3>1, <3>2, Zenon
  <2>3. Rows(o)
    <3>1. why[o] \in Reason \cup {"none"}
      BY <1>2, Zenon DEF WhyType
    <3>2. CASE InsertOrder(o)
      BY <3>2, Zenon DEF InsertOrder
    <3>3. CASE MarkConfirmed(o)
      BY <3>3, Zenon DEF MarkConfirmed
    <3>4. CASE RecordFailure(o)
      BY <3>1, <3>4, Zenon DEF RecordFailure
    <3>5. CASE ~(InsertOrder(o) \/ MarkConfirmed(o) \/ RecordFailure(o))
      BY <1>4, <3>5, Zenon DEF CreateOrder, InsertDuplicate, InsertFails, Replay, ReserveReturns,
         ChargeReturns, ConfirmReturns, ReleaseReturns
    <3>6. QED
      BY <3>2, <3>3, <3>4, <3>5, Zenon
  <2>4. Pays(o)
    <3>1. CASE ReserveReturns(o)
      <4>1. payments' \in [Orders -> {"none", "SUCCEEDED", "FAILED"}]
        BY <1>2, <3>1, Zenon DEF ReserveReturns, PaymentTypes
      <4>2. UNCHANGED charge \/ charge' = [charge EXCEPT ![o] = "sent"]
        BY <3>1, Zenon DEF ReserveReturns, CallPayment
      <4>3. UNCHANGED payments
        BY <3>1, Zenon DEF ReserveReturns
      <4>4. QED
        BY <1>0, <4>1, <4>2, <4>3, Zenon DEF paymentVars
    <3>2. CASE ~ReserveReturns(o)
      BY <1>4, <3>2, Zenon DEF CreateOrder, InsertOrder, InsertDuplicate, InsertFails, Replay,
         ChargeReturns, ConfirmReturns, MarkConfirmed, ReleaseReturns, RecordFailure
    <3>3. QED
      BY <3>1, <3>2, Zenon
  <2>5. UNCHANGED crashes
    BY <1>4, Zenon DEF CreateOrder, InsertOrder, InsertDuplicate, InsertFails, Replay,
       ReserveReturns, ChargeReturns, ConfirmReturns, MarkConfirmed, ReleaseReturns, RecordFailure
  <2> HIDE DEF Rest, Whys, Rows, Pays
  <2>6. QED
    BY <1>3, <2>1, <2>2, <2>3, <2>4, <2>5, Zenon
<1>5. ASSUME NEW o \in Orders, Charge(o) \/ ChargeFails(o) PROVE OrderTypes'
  <2>1. payments' \in [Orders -> {"none", "SUCCEEDED", "FAILED"}]
    <3>1. CASE Charge(o)
      BY <1>2, <3>1, EntryUpdate, Zenon DEF Charge, PaymentTypes
    <3>2. CASE ChargeFails(o)
      BY <1>2, <3>2, Zenon DEF ChargeFails, PaymentTypes
    <3>3. QED
      BY <1>5, <3>1, <3>2, Zenon
  <2>2. PICK r \in RpcState \ {"redis"} : charge' = [charge EXCEPT ![o] = r]
    BY <1>0, <1>5, Zenon DEF Charge, ChargeFails
  <2>3. PaymentTypes'
    BY <1>2, <2>1, <2>2, PaymentTypeStep, Zenon
  <2>4. UNCHANGED <<orderRows, callVars, crashes>>
    BY <1>5, Zenon DEF Charge, ChargeFails
  <2>5. QED
    BY <1>1, <2>3, <2>4, TypesKept, Zenon DEF OrderTypes, callVars
<1>6. ASSUME NEW o \in Orders, CtxDies(o) PROVE OrderTypes'
  <2>1. CallTypes'
    BY <1>2, <1>6, EntryUpdate, Zenon DEF CtxDies, CallTypes
  <2>2. QED
    BY <1>1, <1>6, <2>1, TypesKept, Zenon DEF CtxDies, OrderTypes
<1>7. CASE OrderCrash
  <2>1. CallTypes'
    <3>1. saga' \in [Orders -> SagaPc]
      BY <1>0, <1>2, <1>7, Zenon DEF OrderCrash, CallTypes
    <3>2. ctx' \in [Orders -> BOOLEAN]
      BY <1>7, Zenon DEF OrderCrash
    <3>3. QED
      BY <1>2, <1>7, <3>1, <3>2, Zenon DEF OrderCrash, CallTypes
  <2>2. crashes' \in 0..MaxCrashes
    BY <1>2, <1>7, SagaConstantsOK DEF OrderCrash
  <2>3. QED
    BY <1>1, <1>7, <2>1, <2>2, TypesKept, Zenon DEF OrderCrash, OrderTypes
<1>8. CASE InventoryStep \/ UNCHANGED sagaVars
  <2>1. UNCHANGED <<orderRows, paymentVars, callVars, crashes>>
    BY <1>8, Zenon DEF InventoryStep, orderVars, sagaVars
  <2>2. QED
    BY <1>1, <2>1, TypesKept, Zenon DEF OrderTypes, callVars
<1>9. QED
  BY <1>4, <1>5, <1>6, <1>7, <1>8, Zenon DEF SagaNext

-----------------------------------------------------------------------------
(* The records of an order.                                                *)

\* A step of CreateOrder keeps what is known of its own order.
LEMMA OwnStep ==
  ASSUME SagaTypeOK, NEW o \in Orders, PlaceInv(o), PaidInv(o), CreateOrder(o)
  PROVE  PlaceInv(o)' /\ PaidInv(o)'
<1>0. /\ "Reserve" \in SeatMethod /\ "Confirm" \in SeatMethod /\ "Release" \in SeatMethod
      /\ InventoryTypeOK
  BY Zenon DEF SeatMethod, SagaTypeOK
<1>1. CASE InsertOrder(o)
  <2>1. saga[o] = "start" /\ UNCHANGED <<charge, payments>>
    BY <1>1, Zenon DEF InsertOrder, paymentVars
  <2>2. saga'[o] \in {"reserving", "done"}
    BY <1>1, GotoEffect, Zenon DEF InsertOrder, Return
  <2>3. order_status'[o] = "PENDING"
    BY <1>1, WriteEffect, Zenon DEF InsertOrder
  <2>4. rpc'[o]["Confirm"] = rpc[o]["Confirm"] /\ rpc'[o]["Release"] = rpc[o]["Release"]
    <3>1. UNCHANGED rpc \/ CallInventory(o, "Reserve")
      BY <1>1, Zenon DEF InsertOrder, inventoryVars
    <3>2. CASE CallInventory(o, "Reserve")
      BY <1>0, <3>2, CallEffect
    <3>3. QED
      BY <3>1, <3>2, Zenon
  <2>5. QED
    BY <1>0, <2>1, <2>2, <2>3, <2>4, Zenon DEF PlaceInv, PaidInv
<1>2. CASE InsertDuplicate(o) \/ InsertFails(o) \/ Replay(o)
  <2>1. saga[o] \in {"start", "replay"} /\ UNCHANGED <<rpc, charge, payments, order_status>>
    BY <1>2, Zenon DEF InsertDuplicate, InsertFails, Replay, inventoryVars, paymentVars, orderRows
  <2>2. saga'[o] \in {"replay", "done"}
    <3>1. Goto(o, "replay") \/ Goto(o, "done")
      BY <1>2, Zenon DEF InsertDuplicate, InsertFails, Replay, Return
    <3>2. QED
      BY <3>1, GotoEffect, Zenon
  <2>3. QED
    BY <1>0, <2>1, <2>2, Zenon DEF PlaceInv, PaidInv
<1>3. CASE ReserveReturns(o)
  <2>1. saga[o] = "reserving" /\ UNCHANGED <<order_status, payments>>
    BY <1>3, Zenon DEF ReserveReturns, orderRows
  <2>2. \/ saga'[o] = "charging" /\ UNCHANGED rpc
        \/ saga'[o] \in {"failing", "releasing"}
    BY <1>3, GotoEffect, Zenon DEF ReserveReturns, FailWith, ReleaseThenFail, inventoryVars
  <2>3. charge'[o] \in {charge[o], "sent"}
    <3>1. UNCHANGED charge \/ charge' = [charge EXCEPT ![o] = "sent"]
      BY <1>3, Zenon DEF ReserveReturns, CallPayment
    <3>2. QED
      BY <3>1, ChargeEffect, Zenon
  <2>4. rpc'[o]["Confirm"] = rpc[o]["Confirm"]
    <3>1. UNCHANGED rpc \/ CallInventory(o, "Release")
      BY <1>3, Zenon DEF ReserveReturns, FailWith, ReleaseThenFail, inventoryVars
    <3>2. CASE CallInventory(o, "Release")
      BY <1>0, <3>2, CallEffect
    <3>3. QED
      BY <3>1, <3>2, Zenon
  <2>5. QED
    BY <1>0, <2>1, <2>2, <2>3, <2>4, Zenon DEF PlaceInv, PaidInv
<1>4. CASE ChargeReturns(o)
  <2>1. saga[o] = "charging" /\ UNCHANGED <<order_status, payments, charge>>
    BY <1>4, Zenon DEF ChargeReturns, orderRows, paymentVars
  <2>2. \/ saga'[o] = "confirming" /\ charge[o] = "ok" /\ CallInventory(o, "Confirm")
        \/ saga'[o] = "releasing" /\ CallInventory(o, "Release")
    BY <1>4, GotoEffect, Zenon DEF ChargeReturns, ReleaseThenFail, Succeeded
  <2>3. CASE saga'[o] = "confirming" /\ charge[o] = "ok"
    BY <2>1, <2>3, Zenon DEF PlaceInv, PaidInv
  <2>4. CASE saga'[o] = "releasing" /\ CallInventory(o, "Release")
    <3>1. rpc'[o]["Confirm"] = rpc[o]["Confirm"]
      BY <1>0, <2>4, CallEffect
    <3>2. QED
      BY <2>1, <2>4, <3>1, Zenon DEF PlaceInv, PaidInv
  <2>5. QED
    BY <2>2, <2>3, <2>4, Zenon
<1>5. CASE ConfirmReturns(o)
  <2>1. saga[o] = "confirming" /\ UNCHANGED <<rpc, order_status, payments, charge>>
    BY <1>5, Zenon DEF ConfirmReturns, inventoryVars, orderRows, paymentVars
  <2>2. saga'[o] = "done" \/ (saga'[o] = "marking" /\ rpc[o]["Confirm"] = "ok")
    <3>1. \/ Succeeded(o, rpc[o]["Confirm"]) /\ Goto(o, "marking")
          \/ Return(o, "INTERNAL", NoOrder)
      BY <1>5, Zenon DEF ConfirmReturns
    <3>2. CASE Succeeded(o, rpc[o]["Confirm"]) /\ Goto(o, "marking")
      BY <3>2, GotoEffect, Zenon DEF Succeeded
    <3>3. CASE Return(o, "INTERNAL", NoOrder)
      BY <3>3, GotoEffect, Zenon DEF Return
    <3>4. QED
      BY <3>1, <3>2, <3>3, Zenon
  <2>3. QED
    BY <1>0, <2>1, <2>2, Zenon DEF PlaceInv, PaidInv
<1>6. CASE MarkConfirmed(o)
  <2>1. saga[o] = "marking" /\ UNCHANGED <<rpc, payments, charge>>
    BY <1>6, Zenon DEF MarkConfirmed, inventoryVars, paymentVars
  <2>2. saga'[o] = "done"
    BY <1>6, GotoEffect, Zenon DEF MarkConfirmed, Return
  <2>3. order_status'[o] \in {order_status[o], "CONFIRMED"}
    BY <1>6, WriteEffect, Zenon DEF MarkConfirmed, orderRows
  <2>4. QED
    BY <1>0, <2>1, <2>2, <2>3, Zenon DEF PlaceInv, PaidInv
<1>7. CASE ReleaseReturns(o)
  <2>1. saga[o] = "releasing" /\ UNCHANGED <<rpc, order_status, payments, charge>>
    BY <1>7, Zenon DEF ReleaseReturns, inventoryVars, orderRows, paymentVars
  <2>2. saga'[o] = "failing"
    BY <1>7, GotoEffect, Zenon DEF ReleaseReturns
  <2>3. QED
    BY <1>0, <2>1, <2>2, Zenon DEF PlaceInv, PaidInv
<1>8. CASE RecordFailure(o)
  <2>1. saga[o] = "failing" /\ UNCHANGED <<rpc, payments, charge>>
    BY <1>8, Zenon DEF RecordFailure, inventoryVars, paymentVars
  <2>2. saga'[o] = "done"
    BY <1>8, GotoEffect, Zenon DEF RecordFailure, Return
  <2>3. order_status'[o] \in {order_status[o], "FAILED"}
    <3>1. UNCHANGED order_status \/ WriteOrder(o, "FAILED", why[o], "FAILED")
      BY <1>8, Zenon DEF RecordFailure, orderRows
    <3>2. QED
      BY <3>1, WriteEffect, Zenon
  <2>4. QED
    BY <1>0, <2>1, <2>2, <2>3, Zenon DEF PlaceInv, PaidInv
<1>9. QED
  BY <1>1, <1>2, <1>3, <1>4, <1>5, <1>6, <1>7, <1>8, Zenon DEF CreateOrder

\* Every step keeps what is known of every order.
LEMMA RecordsStep ==
  ASSUME SagaTypeOK, [SagaNext]_sagaVars, \A o \in Orders : PlaceInv(o) /\ PaidInv(o)
  PROVE  \A o \in Orders : PlaceInv(o)' /\ PaidInv(o)'
<1>0. /\ "Reserve" \in SeatMethod /\ "Confirm" \in SeatMethod /\ "Release" \in SeatMethod
      /\ InventoryTypeOK
  BY Zenon DEF SeatMethod, SagaTypeOK
<1> SUFFICES ASSUME NEW p \in Orders PROVE PlaceInv(p)' /\ PaidInv(p)'
  OBVIOUS
<1>p. PlaceInv(p) /\ PaidInv(p)
  OBVIOUS
<1>1. ASSUME SameRecords(p) PROVE PlaceInv(p)' /\ PaidInv(p)'
  <2>1. PlaceInv(p)'
    <3>1. /\ saga'[p] = saga[p] /\ order_status'[p] = order_status[p] /\ charge'[p] = charge[p]
          /\ rpc'[p]["Confirm"] = rpc[p]["Confirm"] /\ rpc'[p]["Release"] = rpc[p]["Release"]
      BY <1>0, <1>1, Zenon DEF SameRecords
    <3>2. (\A m \in SeatMethod : rpc[p][m] = "none") => \A m \in SeatMethod : rpc'[p][m] = "none"
      BY <1>1, Zenon DEF SameRecords
    <3>3. QED
      BY <1>p, <3>1, <3>2 DEF PlaceInv
  <2>2. PaidInv(p)'
    BY <1>0, <1>1, <1>p, Zenon DEF SameRecords, PaidInv
  <2>3. QED
    BY <2>1, <2>2, Zenon
<1>2. ASSUME CreateOrder(p) PROVE PlaceInv(p)' /\ PaidInv(p)'
  BY <1>2, <1>p, OwnStep, Zenon
<1>3. ASSUME Charge(p) \/ ChargeFails(p) PROVE PlaceInv(p)' /\ PaidInv(p)'
  <2>1. charge[p] = "sent" /\ UNCHANGED <<rpc, order_status, saga>>
    BY <1>3, Zenon DEF Charge, ChargeFails, inventoryVars, orderRows, callVars
  <2>2. \/ charge'[p] = "ok" /\ payments'[p] = "SUCCEEDED"
        \/ charge'[p] \in {"refused", "broken"}
    BY <1>3, ChargeEffect, Zenon DEF Charge, ChargeFails
  <2>3. QED
    BY <1>0, <1>p, <2>1, <2>2, Zenon DEF PlaceInv, PaidInv
<1>4. ASSUME CtxDies(p) PROVE PlaceInv(p)' /\ PaidInv(p)'
  BY <1>1, <1>4, Zenon DEF CtxDies, SameRecords, inventoryVars, orderRows, paymentVars
<1>5. CASE OrderCrash
  <2>1. /\ saga'[p] \in {saga[p], "crashed"}
        /\ UNCHANGED <<rpc, order_status, payments, charge>>
    BY <1>5, Zenon DEF OrderCrash, inventoryVars, orderRows, paymentVars
  <2>2. QED
    BY <1>0, <1>p, <2>1, Zenon DEF PlaceInv, PaidInv
<1>6. CASE InventoryStep
  <2>1. UNCHANGED <<saga, order_status, payments, charge>>
    BY <1>6, Zenon DEF InventoryStep, orderVars, orderRows, paymentVars, callVars
  <2>2. \A m \in SeatMethod : /\ rpc'[p][m] = "none" <=> rpc[p][m] = "none"
                              /\ rpc[p][m] = "ok" => rpc'[p][m] = "ok"
    BY <1>0, <1>6, CallsKept, Zenon
  <2>3. QED
    BY <1>0, <1>p, <2>1, <2>2, Zenon DEF PlaceInv, PaidInv
<1>7. CASE UNCHANGED sagaVars
  BY <1>1, <1>7, Zenon DEF sagaVars, orderVars, inventoryVars, orderRows, paymentVars, callVars,
     SameRecords
<1>8. QED
  BY <1>1, <1>2, <1>3, <1>4, <1>5, <1>6, <1>7, OthersUntouched, Zenon DEF SagaNext

-----------------------------------------------------------------------------
(* Sales.                                                                  *)

\* Only the commit of an order's own ConfirmSeats makes its reply a success, and
\* that commit sells it all of its seats.
LEMMA ConfirmSells ==
  ASSUME InventoryTypeOK, InventoryStep, NEW p \in Orders,
         rpc'[p]["Confirm"] \in {"redis", "ok"}
  PROVE  rpc[p]["Confirm"] \in {"redis", "ok"} \/ Moves(p, "SOLD")
<1>0. {"Reserve", "Confirm", "Release"} \subseteq SeatMethod
  BY Zenon DEF SeatMethod
<1>1. ASSUME NEW o \in Orders, NEW m \in SeatMethod, NEW r, Reply(o, m, r)
      PROVE  \/ rpc'[p]["Confirm"] = rpc[p]["Confirm"]
             \/ p = o /\ m = "Confirm" /\ rpc'[p]["Confirm"] = r
  BY <1>0, <1>1, ReplyEffect
<1>2. ASSUME NEW o \in Orders, ConfirmSeats(o)
      PROVE  rpc[p]["Confirm"] \in {"redis", "ok"} \/ Moves(p, "SOLD")
  <2>1. CASE AllRowsMoved(o)
    <3>1. Moves(o, "SOLD") /\ Reply(o, "Confirm", "redis")
      BY <1>2, <2>1, Zenon DEF ConfirmSeats, MoveHeldSeats, AllRowsMoved, Moves
    <3>2. QED
      BY <1>0, <1>1, <3>1, Zenon
  <2>2. CASE ~AllRowsMoved(o)
    <3>1. Reply(o, "Confirm", "refused")
      BY <1>2, <2>2, Zenon DEF ConfirmSeats, MoveHeldSeats
    <3>2. QED
      BY <1>0, <1>1, <3>1
  <2>3. QED
    BY <2>1, <2>2, Zenon
<1>3. ASSUME NEW o \in Orders, ReserveSeats(o) \/ ReserveRefused(o) \/ ReleaseSeats(o)
      PROVE  rpc[p]["Confirm"] \in {"redis", "ok"}
  <2>1. \E m \in {"Reserve", "Release"}, r \in {"redis", "refused"} : Reply(o, m, r)
    BY <1>3, Zenon DEF ReserveSeats, ReserveRefused, ReleaseSeats, MoveHeldSeats
  <2>2. QED
    BY <1>0, <1>1, <2>1, Zenon
<1>4. ASSUME NEW o \in Orders, NEW m \in SeatMethod, HandlerFails(o, m) \/ HandlerReturns(o, m)
      PROVE  rpc[p]["Confirm"] \in {"redis", "ok"}
  <2>1. \/ Reply(o, m, "broken")
        \/ Reply(o, m, "ok") /\ rpc[o][m] = "redis"
    BY <1>4, Zenon DEF HandlerFails, HandlerReturns
  <2>2. QED
    BY <1>1, <2>1
<1>5. CASE InventoryRestart
  BY <1>0, <1>5, Zenon DEF InventoryRestart
<1>6. ASSUME UNCHANGED rpc PROVE rpc[p]["Confirm"] \in {"redis", "ok"}
  BY <1>6, Zenon
<1>7. ASSUME NEW o \in Orders, Handler(o)
      PROVE  rpc[p]["Confirm"] \in {"redis", "ok"} \/ Moves(p, "SOLD")
  BY <1>2, <1>3, <1>4, <1>6, <1>7, Zenon DEF Handler, TouchKey, TouchKeyFails
<1>8. QED
  BY <1>5, <1>6, <1>7, Zenon DEF InventoryStep, CreateEvent, SagaKeyExpires, KeyExpires,
     Sweeper, SweepQuery, SweepRelease, SweepReturns, SweepCheck, SweepCheckFails

\* A sale is final, and made only while the buyer's ConfirmSeats is on its way.
LEMMA SalesKept ==
  ASSUME SeatInv, [InventoryNext]_inventoryVars, NEW p \in Orders, NEW s \in Seats
  PROVE  /\ sold_to[s] = p => sold_to'[s] = p
         /\ sold_to'[s] = p => sold_to[s] = p \/ rpc[p]["Confirm"] = "sent"
<1>0. sold_to[s] \in Orders => status[s] = "SOLD"
  BY ConstantsOK, Zenon DEF SeatInv, HolderMatchesStatus
<1>1. ASSUME NEW o \in Orders, Moves(o, "SOLD")
      PROVE  /\ sold_to[s] = p => sold_to'[s] = p
             /\ sold_to'[s] = p => sold_to[s] = p \/ rpc[p]["Confirm"] = "sent"
  <2>1. s \in Req[o].seats => status[s] = "HELD"
    BY <1>1, Zenon DEF Moves, RowsHeldBy
  <2>2. sold_to'[s] = IF s \in Req[o].seats THEN o ELSE sold_to[s]
    BY <1>1, Zenon DEF Moves
  <2>3. rpc[o]["Confirm"] = "sent"
    BY <1>1, Zenon DEF Moves
  <2>4. QED
    BY <1>0, <2>1, <2>2, <2>3, Zenon
<1>2. ASSUME NEW o \in Orders, Moves(o, "AVAILABLE") PROVE sold_to'[s] = sold_to[s]
  BY <1>2, Zenon DEF Moves
<1>3. ASSUME UNCHANGED sold_to
      PROVE  /\ sold_to[s] = p => sold_to'[s] = p
             /\ sold_to'[s] = p => sold_to[s] = p \/ rpc[p]["Confirm"] = "sent"
  BY <1>3, Zenon
<1>4. QED
  BY <1>1, <1>2, <1>3, SeatStepCases, Zenon DEF seatVars, CreateEvent, ReserveSeats, SweepRelease

\* Every step keeps the agreement of sales and confirmations.
LEMMA SoldStep ==
  ASSUME SagaInv, [SagaNext]_sagaVars, [InventoryNext]_inventoryVars
  PROVE  \A o \in Orders : SoldInv(o)'
<1>0. "Confirm" \in SeatMethod /\ InventoryTypeOK /\ SeatInv /\ \A o \in Orders : SoldInv(o)
  BY Zenon DEF SeatMethod, SagaInv, SagaTypeOK
<1> SUFFICES ASSUME NEW p \in Orders PROVE SoldInv(p)'
  OBVIOUS
<1>1. CASE InventoryStep
  <2>1. ASSUME rpc'[p]["Confirm"] \in {"redis", "ok"}, NEW s \in Req[p].seats
        PROVE  sold_to'[s] = p
    <3>1. CASE Moves(p, "SOLD")
      BY <3>1, RequestType, Zenon DEF Moves
    <3>2. CASE rpc[p]["Confirm"] \in {"redis", "ok"}
      BY <1>0, <3>2, RequestType, SalesKept, Zenon DEF SoldInv
    <3>3. QED
      BY <1>0, <1>1, <2>1, <3>1, <3>2, ConfirmSells, Zenon
  <2>2. ASSUME NEW s \in Seats, sold_to'[s] = p PROVE rpc'[p]["Confirm"] # "none"
    <3>1. sold_to[s] = p \/ rpc[p]["Confirm"] = "sent"
      BY <1>0, <2>2, SalesKept, Zenon
    <3>2. rpc[p]["Confirm"] # "none"
      BY <1>0, <3>1, Zenon DEF SoldInv
    <3>3. QED
      BY <1>0, <1>1, <3>2, CallsKept, Zenon
  <2>3. QED
    BY <2>1, <2>2, Zenon DEF SoldInv
<1>2. CASE ~InventoryStep
  <2>1. UNCHANGED inventoryVars \/ \E o \in Orders, m \in SeatMethod : CallInventory(o, m)
    <3>1. ASSUME NEW o \in Orders, TouchesOnly(o)
          PROVE  UNCHANGED inventoryVars \/ \E m \in SeatMethod : CallInventory(o, m)
      BY <3>1, Zenon DEF TouchesOnly
    <3>2. CASE OrderCrash \/ UNCHANGED sagaVars
      BY <3>2, Zenon DEF OrderCrash, sagaVars
    <3>3. QED
      BY <1>2, <3>1, <3>2, Footprint, Zenon DEF SagaNext
  <2>2. UNCHANGED sold_to
    BY <2>1, Zenon DEF CallInventory, inventoryVars, seatVars
  <2>3. rpc'[p]["Confirm"] \in {rpc[p]["Confirm"], "sent"}
    <3>1. ASSUME NEW o \in Orders, NEW m \in SeatMethod, CallInventory(o, m)
          PROVE  rpc'[p]["Confirm"] \in {rpc[p]["Confirm"], "sent"}
      BY <1>0, <3>1, CallEffect
    <3>2. CASE UNCHANGED inventoryVars
      BY <3>2, Zenon DEF inventoryVars
    <3>3. QED
      BY <2>1, <3>1, <3>2, Zenon
  <2>4. QED
    BY <1>0, <2>2, <2>3, Zenon DEF SoldInv
<1>3. QED
  BY <1>1, <1>2, Zenon
=============================================================================
