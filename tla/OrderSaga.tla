----------------------------- MODULE OrderSaga ------------------------------
(***************************************************************************)
(* order-svc's CreateOrder saga, composed with inventory-svc (Inventory)   *)
(* and payment-svc.  Every CreateOrder call makes an order ID of its own,  *)
(* so a member of Orders is both one call and the order it may insert.     *)
(*                                                                         *)
(* All remote calls and all SQL of one saga run under the request's ctx.   *)
(* While it is alive a reply may still be lost and a transaction may fail, *)
(* before or after its commit.  Once it is dead (gateway deadline, client  *)
(* gone) nothing more is sent, but what was sent may execute late.         *)
(***************************************************************************)
EXTENDS Inventory, Sequences

CONSTANTS
  Keys, NoKey,
  KeyOf,          \* the (user, idempotency key) of a call, NoKey without one
  AmountOf,       \* amount_cents
  Faults,         \* whether replies get lost and transactions fail
  MaxCrashes      \* bound: how often order-svc crashes

ASSUME SagaConstantsOK ==
  /\ NoKey \notin Keys
  /\ KeyOf \in [Orders -> Keys \cup {NoKey}]
  /\ AmountOf \in [Orders -> Nat]
  /\ Faults \in BOOLEAN
  /\ MaxCrashes \in Nat

VARIABLES
  order_status, failure_reason,   \* the orders table, "NONE" before the insert
  order_events,   \* per order, the types of its outbox rows
  payments,       \* the payments table: the order's row, "none" without one
  charge,         \* how far the Charge call has come
  saga,           \* where the CreateOrder call stands
  why,            \* the reason it is going to fail with
  ctx,            \* whether its context is alive
  answer, answer_id,              \* what the caller got, and the order it names
  crashes

orderRows == <<order_status, failure_reason, order_events>>
paymentVars == <<payments, charge>>
callVars == <<saga, why, ctx, answer, answer_id>>
orderVars == <<orderRows, paymentVars, callVars, crashes>>
sagaVars == <<inventoryVars, orderVars>>

Reason == {"SEATS_UNAVAILABLE", "PAYMENT_DECLINED", "SERVICE_UNAVAILABLE"}
Answer == Reason \cup
  {"none", "CONFIRMED", "REQUEST_IN_PROGRESS", "IDEMPOTENCY_KEY_REUSED", "INTERNAL"}
SagaPc == {"start", "replay", "reserving", "charging", "confirming", "marking",
           "releasing", "failing", "done", "crashed"}

SagaTypeOK ==
  /\ InventoryTypeOK
  /\ order_status \in [Orders -> {"NONE", "PENDING", "CONFIRMED", "FAILED"}]
  /\ failure_reason \in [Orders -> Reason \cup {"none"}]
  /\ order_events \in [Orders -> Seq({"CREATED", "CONFIRMED", "FAILED"})]
  /\ payments \in [Orders -> {"none", "SUCCEEDED", "FAILED"}]
  /\ charge \in [Orders -> RpcState \ {"redis"}]
  /\ saga \in [Orders -> SagaPc]
  /\ why \in [Orders -> Reason \cup {"none"}]
  /\ ctx \in [Orders -> BOOLEAN]
  /\ answer \in [Orders -> Answer]
  /\ answer_id \in [Orders -> Orders \cup {NoOrder}]
  /\ crashes \in 0..MaxCrashes

SagaInit ==
  /\ InventoryInit
  /\ order_status = [o \in Orders |-> "NONE"]
  /\ failure_reason = [o \in Orders |-> "none"]
  /\ order_events = [o \in Orders |-> <<>>]
  /\ payments = [o \in Orders |-> "none"]
  /\ charge = [o \in Orders |-> "none"]
  /\ saga = [o \in Orders |-> "start"]
  /\ why = [o \in Orders |-> "none"]
  /\ ctx = [o \in Orders |-> TRUE]
  /\ answer = [o \in Orders |-> "none"]
  /\ answer_id = [o \in Orders |-> NoOrder]
  /\ crashes = 0

-----------------------------------------------------------------------------
(* Building blocks of the saga's steps.                                    *)

Goto(o, pc) == saga' = [saga EXCEPT ![o] = pc]

\* The call ends with answer a, naming order p; gRPC cancels its context.
Return(o, a, p) ==
  /\ Goto(o, "done")
  /\ ctx' = [ctx EXCEPT ![o] = FALSE]
  /\ answer' = [answer EXCEPT ![o] = a]
  /\ answer_id' = [answer_id EXCEPT ![o] = p]

\* A remote call under the saga's context: it leaves only while that is alive.
CallInventory(o, m) ==
  /\ rpc' = IF ctx[o] THEN [rpc EXCEPT ![o][m] = "sent"] ELSE rpc
  /\ UNCHANGED <<seatVars, hold_key, todo, sweepVars, restarts>>

CallPayment(o) == charge' = IF ctx[o] THEN [charge EXCEPT ![o] = "sent"] ELSE charge

\* Variant: isRefusal takes every error for a refusal.
Refused_AnyError(o, r) == ctx[o] /\ (r = "refused" \/ Faults)

\* Variant: a call outlives its context.
Broken_NotCancelled(o, r) == ctx[o] /\ (r = "broken" \/ Faults)

\* What the saga learns of a call whose server stands at r.
Succeeded(o, r) == ctx[o] /\ r = "ok"
Refused(o, r) == ctx[o] /\ r = "refused"
Broken(o, r) == ~ctx[o] \/ r = "broken" \/ Faults

\* A transaction of order-svc may commit, and may fail or seem to have failed.
TxMayCommit(o) == ctx[o]
TxMayFail(o) == ~ctx[o] \/ Faults

\* Variant: status and failure_reason change places.
WriteOrder_Swapped(o, st, reason, event) ==
  /\ order_status' = [order_status EXCEPT ![o] = reason]
  /\ failure_reason' = [failure_reason EXCEPT ![o] = st]
  /\ order_events' = [order_events EXCEPT ![o] = Append(@, event)]

\* createOrder, transition: the row and its outbox row in one transaction.
WriteOrder(o, st, reason, event) ==
  /\ order_status' = [order_status EXCEPT ![o] = st]
  /\ failure_reason' = [failure_reason EXCEPT ![o] = reason]
  /\ order_events' = [order_events EXCEPT ![o] = Append(@, event)]

SameKey(o, p) == KeyOf[o] # NoKey /\ KeyOf[o] = KeyOf[p]

\* orders_idempotency_idx refuses the row.
DuplicateKey(o) == \E p \in Orders : SameKey(o, p) /\ order_status[p] # "NONE"

-----------------------------------------------------------------------------
(* CreateOrder, step by step.                                              *)

InsertOrder(o) ==
  /\ saga[o] = "start" /\ TxMayCommit(o) /\ ~DuplicateKey(o)
  /\ WriteOrder(o, "PENDING", "none", "CREATED")
  /\ \/ /\ Goto(o, "reserving")
        /\ CallInventory(o, "Reserve")
        /\ UNCHANGED <<ctx, answer, answer_id>>
     \/ /\ TxMayFail(o)                     \* committed, but the reply was lost
        /\ Return(o, "INTERNAL", NoOrder)
        /\ UNCHANGED inventoryVars
  /\ UNCHANGED <<paymentVars, why, crashes>>

InsertDuplicate(o) ==
  /\ saga[o] = "start" /\ TxMayCommit(o) /\ DuplicateKey(o)
  /\ Goto(o, "replay")
  /\ UNCHANGED <<inventoryVars, orderRows, paymentVars, why, ctx, answer, answer_id, crashes>>

InsertFails(o) ==
  /\ saga[o] = "start" /\ TxMayFail(o)
  /\ Return(o, "INTERNAL", NoOrder)
  /\ UNCHANGED <<inventoryVars, orderRows, paymentVars, why, crashes>>

SameRequest(o, p) == Req[o] = Req[p] /\ AmountOf[o] = AmountOf[p]

\* Variant: replay does not compare the requests.
ReplayAnswer_AnyRequest(o, p) ==
  CASE order_status[p] = "CONFIRMED" -> "CONFIRMED"
    [] order_status[p] = "FAILED" -> failure_reason[p]
    [] OTHER -> "REQUEST_IN_PROGRESS"

\* replay: the answer is read off the row of the first call with this key.
ReplayAnswer(o, p) ==
  CASE ~SameRequest(o, p) -> "IDEMPOTENCY_KEY_REUSED"
    [] SameRequest(o, p) /\ order_status[p] = "CONFIRMED" -> "CONFIRMED"
    [] SameRequest(o, p) /\ order_status[p] = "FAILED" -> failure_reason[p]
    [] OTHER -> "REQUEST_IN_PROGRESS"

\* Variant: the retry of a PENDING order takes its saga up again, at the charge.
Replay_Resumes(o) ==
  /\ saga[o] = "replay" /\ ctx[o]
  /\ \E p \in Orders :
       /\ SameKey(o, p) /\ order_status[p] # "NONE"
       /\ LET a == ReplayAnswer(o, p) IN
          \/ /\ a # "REQUEST_IN_PROGRESS"
             /\ Return(o, a, IF a = "CONFIRMED" THEN p ELSE NoOrder)
             /\ UNCHANGED charge
          \/ /\ a = "REQUEST_IN_PROGRESS"
             /\ Goto(o, "charging") /\ CallPayment(o)
             /\ UNCHANGED <<ctx, answer, answer_id>>
  /\ UNCHANGED <<inventoryVars, orderRows, payments, why, crashes>>

Replay(o) ==
  /\ saga[o] = "replay"
  /\ \/ /\ ctx[o]
        /\ \E p \in Orders :
             /\ SameKey(o, p) /\ order_status[p] # "NONE"
             /\ LET a == ReplayAnswer(o, p) IN
                Return(o, a, IF a = "CONFIRMED" THEN p ELSE NoOrder)
     \/ TxMayFail(o) /\ Return(o, "INTERNAL", NoOrder)
  /\ UNCHANGED <<inventoryVars, orderRows, paymentVars, why, crashes>>

\* Give up for this reason: straight to fail(), or through releaseSeats().
FailWith(o, reason) ==
  /\ Goto(o, "failing")
  /\ why' = [why EXCEPT ![o] = reason]
  /\ UNCHANGED inventoryVars

ReleaseThenFail(o, reason) ==
  /\ Goto(o, "releasing")
  /\ why' = [why EXCEPT ![o] = reason]
  /\ CallInventory(o, "Release")

ReserveReturns(o) ==
  /\ saga[o] = "reserving"
  /\ \/ /\ Succeeded(o, rpc[o]["Reserve"])
        /\ Goto(o, "charging") /\ CallPayment(o)
        /\ UNCHANGED <<inventoryVars, why>>
     \/ /\ Refused(o, rpc[o]["Reserve"])
        /\ FailWith(o, "SEATS_UNAVAILABLE")
        /\ UNCHANGED charge
     \/ /\ Broken(o, rpc[o]["Reserve"])
        /\ ReleaseThenFail(o, "SERVICE_UNAVAILABLE")
        /\ UNCHANGED charge
  /\ UNCHANGED <<orderRows, payments, ctx, answer, answer_id, crashes>>

ChargeReturns(o) ==
  /\ saga[o] = "charging"
  /\ \/ /\ Succeeded(o, charge[o])
        /\ Goto(o, "confirming") /\ CallInventory(o, "Confirm")
        /\ UNCHANGED why
     \/ Refused(o, charge[o]) /\ ReleaseThenFail(o, "PAYMENT_DECLINED")
     \/ Broken(o, charge[o]) /\ ReleaseThenFail(o, "SERVICE_UNAVAILABLE")
  /\ UNCHANGED <<orderRows, paymentVars, ctx, answer, answer_id, crashes>>

\* Variant: the error of ConfirmSeats is dropped.
ConfirmReturns_IgnoresError(o) ==
  /\ saga[o] = "confirming"
  /\ \/ Succeeded(o, rpc[o]["Confirm"])
     \/ Refused(o, rpc[o]["Confirm"]) \/ Broken(o, rpc[o]["Confirm"])
  /\ Goto(o, "marking")
  /\ UNCHANGED <<inventoryVars, orderRows, paymentVars, why, ctx, answer, answer_id, crashes>>

\* Variant: an error of ConfirmSeats is compensated like the errors before it.
ConfirmReturns_Compensates(o) ==
  /\ saga[o] = "confirming"
  /\ \/ /\ Succeeded(o, rpc[o]["Confirm"])
        /\ Goto(o, "marking")
        /\ UNCHANGED <<inventoryVars, why>>
     \/ /\ Refused(o, rpc[o]["Confirm"]) \/ Broken(o, rpc[o]["Confirm"])
        /\ ReleaseThenFail(o, "SERVICE_UNAVAILABLE")
  /\ UNCHANGED <<orderRows, paymentVars, ctx, answer, answer_id, crashes>>

\* An error after the charge leaves the order PENDING and the seats alone.
ConfirmReturns(o) ==
  /\ saga[o] = "confirming"
  /\ \/ /\ Succeeded(o, rpc[o]["Confirm"])
        /\ Goto(o, "marking")
        /\ UNCHANGED <<ctx, answer, answer_id>>
     \/ /\ Refused(o, rpc[o]["Confirm"]) \/ Broken(o, rpc[o]["Confirm"])
        /\ Return(o, "INTERNAL", NoOrder)
  /\ UNCHANGED <<inventoryVars, orderRows, paymentVars, why, crashes>>

MarkConfirmed(o) ==
  /\ saga[o] = "marking"
  /\ \/ /\ TxMayCommit(o)
        /\ WriteOrder(o, "CONFIRMED", "none", "CONFIRMED")
        /\ Return(o, "CONFIRMED", o) \/ (TxMayFail(o) /\ Return(o, "INTERNAL", NoOrder))
     \/ /\ TxMayFail(o)
        /\ Return(o, "INTERNAL", NoOrder)
        /\ UNCHANGED orderRows
  /\ UNCHANGED <<inventoryVars, paymentVars, why, crashes>>

\* Variant: a release that did not succeed is sent again.
ReleaseReturns_Retries(o) ==
  /\ saga[o] = "releasing"
  /\ LET r == rpc[o]["Release"] IN
     \/ Succeeded(o, r) /\ Goto(o, "failing") /\ UNCHANGED inventoryVars
     \/ Refused(o, r) /\ Goto(o, "failing") /\ UNCHANGED inventoryVars
     \/ Broken(o, r) /\ Goto(o, "failing") /\ CallInventory(o, "Release")
  /\ UNCHANGED <<orderRows, paymentVars, why, ctx, answer, answer_id, crashes>>

\* releaseSeats: whatever the outcome, it is logged and the saga goes on.
ReleaseReturns(o) ==
  /\ saga[o] = "releasing"
  /\ LET r == rpc[o]["Release"] IN Succeeded(o, r) \/ Refused(o, r) \/ Broken(o, r)
  /\ Goto(o, "failing")
  /\ UNCHANGED <<inventoryVars, orderRows, paymentVars, why, ctx, answer, answer_id, crashes>>

\* Variant: fail updates the row without the outbox row of transition.
RecordFailure_NoEvent(o) ==
  /\ saga[o] = "failing"
  /\ \/ /\ TxMayCommit(o)
        /\ order_status' = [order_status EXCEPT ![o] = "FAILED"]
        /\ failure_reason' = [failure_reason EXCEPT ![o] = why[o]]
        /\ UNCHANGED order_events
     \/ TxMayFail(o) /\ UNCHANGED orderRows
  /\ Return(o, why[o], NoOrder)
  /\ UNCHANGED <<inventoryVars, paymentVars, why, crashes>>

\* fail: an error is logged, the caller gets the reason either way.
RecordFailure(o) ==
  /\ saga[o] = "failing"
  /\ \/ TxMayCommit(o) /\ WriteOrder(o, "FAILED", why[o], "FAILED")
     \/ TxMayFail(o) /\ UNCHANGED orderRows
  /\ Return(o, why[o], NoOrder)
  /\ UNCHANGED <<inventoryVars, paymentVars, why, crashes>>

-----------------------------------------------------------------------------
(* payment-svc, the request's context, and a crash.                        *)

Declines(amount) == amount % 7 = 0

Charge(o) ==
  /\ charge[o] = "sent"
  /\ LET ok == ~Declines(AmountOf[o]) IN
     /\ payments' = [payments EXCEPT ![o] = IF ok THEN "SUCCEEDED" ELSE "FAILED"]
     /\ charge' = [charge EXCEPT ![o] = IF ok THEN "ok" ELSE "refused"]
  /\ UNCHANGED <<inventoryVars, orderRows, callVars, crashes>>

ChargeFails(o) ==
  /\ charge[o] = "sent"
  /\ charge' = [charge EXCEPT ![o] = "broken"]
  /\ UNCHANGED <<inventoryVars, orderRows, payments, callVars, crashes>>

Running(o) == saga[o] \notin {"done", "crashed"}

\* The gateway's deadline passes or the client hangs up.
CtxDies(o) ==
  /\ Running(o) /\ ctx[o]
  /\ ctx' = [ctx EXCEPT ![o] = FALSE]
  /\ UNCHANGED <<inventoryVars, orderRows, paymentVars, saga, why, answer, answer_id, crashes>>

OrderCrash ==
  /\ crashes < MaxCrashes /\ \E o \in Orders : Running(o) /\ saga[o] # "start"
  /\ crashes' = crashes + 1
  /\ LET hit == {o \in Orders : Running(o) /\ saga[o] # "start"} IN
     /\ saga' = [o \in Orders |-> IF o \in hit THEN "crashed" ELSE saga[o]]
     /\ ctx' = [o \in Orders |-> ctx[o] /\ o \notin hit]
  /\ UNCHANGED <<inventoryVars, orderRows, paymentVars, why, answer, answer_id>>

\* The gateway gives a request 8 seconds and a key lives 5 minutes, so a key
\* does not expire while the request that set it is still going on.
SagaKeyExpires(s) ==
  /\ \A o \in Orders : hold_key[s] = o => ~ctx[o]
  /\ KeyExpires(s)

-----------------------------------------------------------------------------
CreateOrder(o) ==
  \/ InsertOrder(o) \/ InsertDuplicate(o) \/ InsertFails(o) \/ Replay(o)
  \/ ReserveReturns(o) \/ ChargeReturns(o) \/ ConfirmReturns(o) \/ MarkConfirmed(o)
  \/ ReleaseReturns(o) \/ RecordFailure(o)

InventoryStep ==
  /\ \/ \E e \in Events : CreateEvent(e)
     \/ \E o \in Orders : Handler(o)
     \/ \E s \in Seats : SagaKeyExpires(s)
     \/ Sweeper \/ InventoryRestart
  /\ UNCHANGED orderVars

SagaNext ==
  \/ \E o \in Orders : CreateOrder(o) \/ Charge(o) \/ ChargeFails(o) \/ CtxDies(o)
  \/ OrderCrash \/ InventoryStep

SagaSpec == SagaInit /\ [][SagaNext]_sagaVars

\* The saga is inside a remote call that has not been answered.
Waiting(o) ==
  LET open == {"sent", "redis"} IN
  \/ saga[o] = "reserving" /\ rpc[o]["Reserve"] \in open
  \/ saga[o] = "charging" /\ charge[o] \in open
  \/ saga[o] = "confirming" /\ rpc[o]["Confirm"] \in open
  \/ saga[o] = "releasing" /\ rpc[o]["Release"] \in open

\* The gateway's deadline always comes, and a goroutine whose call was answered or
\* cancelled goes on.  Nothing is assumed of the servers it waits for, and no
\* reply has to get lost.
CallFairness ==
  \A o \in Orders : /\ WF_sagaVars(CreateOrder(o) /\ (~ctx[o] \/ ~Waiting(o)))
                    /\ WF_sagaVars(CtxDies(o))

\* The ticker keeps the sweeper running, Redis drops a key when its TTL is over,
\* and neither Redis nor Postgres fails the sweeper every time it tries.
SweeperFairness ==
  /\ WF_sagaVars(SweepQuery /\ UNCHANGED orderVars)
  /\ WF_sagaVars(SweepReturns /\ UNCHANGED orderVars)
  /\ SF_sagaVars(SweepRelease /\ UNCHANGED orderVars)
  /\ \A s \in Seats : /\ SF_sagaVars(SweepCheck(s) /\ UNCHANGED orderVars)
                     /\ WF_sagaVars(SagaKeyExpires(s) /\ UNCHANGED orderVars)

SagaFairSpec == SagaSpec /\ CallFairness /\ SweeperFairness

-----------------------------------------------------------------------------
(* Properties.                                                             *)

\* The saga drives inventory-svc only in ways its general client may: every
\* call at most once per order, whatever is retried, lost, late or crashed.
RefinesInventory == InventorySpec

\* A CONFIRMED order was charged and owns every seat it asked for, so no two
\* CONFIRMED orders share a seat: the saga marks an order only after the charge
\* and after ConfirmSeats reached all of its rows.
ConfirmedIsPaidAndSold ==
  \A o \in Orders : order_status[o] = "CONFIRMED" =>
    /\ payments[o] = "SUCCEEDED"
    /\ \A s \in Req[o].seats : status[s] = "SOLD" /\ sold_to[s] = o

\* No seat is sold without its money, and none to an order that failed, not even
\* by a ConfirmSeats that executes after its caller has given up on it.
SoldMeansPaid ==
  \A s \in Seats, o \in Orders : sold_to[s] = o =>
    payments[o] = "SUCCEEDED" /\ order_status[o] \in {"PENDING", "CONFIRMED"}

\* chargeNote: what the mail about a failed order says of the money.
chargeNote(reason) ==
  IF reason \in {"SEATS_UNAVAILABLE", "PAYMENT_DECLINED"} THEN "not charged" ELSE "unknown"

\* A caller who was told that the seats were gone or the card was declined is
\* not charged under that idempotency key, neither before nor after the answer,
\* and the mail about a failed order promises no more than is so.
RefusedIsNotCharged ==
  \A o, p \in Orders :
    /\ answer[o] \in {"SEATS_UNAVAILABLE", "PAYMENT_DECLINED"} /\ (p = o \/ SameKey(o, p))
         => payments[p] # "SUCCEEDED"
    /\ order_status[o] = "FAILED" /\ chargeNote(failure_reason[o]) = "not charged"
         => payments[o] # "SUCCEEDED"

\* The calls that carry one idempotency key take the customer's money once,
\* however many of them race: the unique index lets one of them through.
OneChargePerKey ==
  \A o, p \in Orders :
    o # p /\ SameKey(o, p) => ~(payments[o] = "SUCCEEDED" /\ payments[p] = "SUCCEEDED")

\* A caller told CONFIRMED gets the ID of a CONFIRMED order for its own request,
\* and no call with the same key is told that this request failed.
AnswersAgree ==
  \A o \in Orders : answer[o] = "CONFIRMED" =>
    /\ answer_id[o] \in Orders /\ order_status[answer_id[o]] = "CONFIRMED"
    /\ SameRequest(o, answer_id[o])
    /\ \A p \in Orders : SameKey(o, p) => answer[p] \notin Reason

\* The purchase a key stands for: the row that has the key, if there is one.
RowsOf(k) == {o \in Orders : KeyOf[o] = k /\ order_status[o] # "NONE"}

PurchaseOf(o) ==
  [status |-> order_status[o], reason |-> failure_reason[o],
   seats |-> Req[o].seats, paid |-> payments[o] = "SUCCEEDED"]

PurchaseView ==
  [k \in Keys |-> IF RowsOf(k) = {}
                  THEN [status |-> "NONE", reason |-> "none", seats |-> {}, paid |-> FALSE]
                  ELSE PurchaseOf(CHOOSE o \in RowsOf(k) : TRUE)]

SoldView == [s \in Seats |-> IF sold_to[s] = NoOrder THEN NoKey ELSE KeyOf[sold_to[s]]]

Keyed == INSTANCE Purchase WITH purchase <- PurchaseView, sold <- SoldView

\* However often a call is retried, and whatever is lost, late or crashes, a key
\* stands for one purchase: its seats are fixed by the first call, its charge comes
\* before its sale, and its verdict is given once, rightly, and never changed.
RefinesPurchase == Keyed!PurchaseSpec

\* The outbox rows of an order tell its life exactly: created, then one verdict
\* that is its status ("the status and its announcement can never disagree").
OrderOutboxAgrees ==
  \A o \in Orders :
    order_events[o] = CASE order_status[o] = "NONE" -> <<>>
                        [] order_status[o] = "PENDING" -> <<"CREATED">>
                        [] OTHER -> <<"CREATED", order_status[o]>>

\* Every CreateOrder call comes to an end, with or without answers from the
\* services it calls: the deadline of its context ends every wait.
EveryCallEnds ==
  \A o \in Orders : saga[o] # "start" ~> saga[o] \in {"done", "crashed"}

\* Every hold ends, by its saga or, when that died or its release was lost or the
\* key was never set, by the sweeper: "the hold's own five minute TTL ... is the safety
\* net that frees the seats anyway" (releaseSeats).
HoldsEnd == \A s \in Seats : status[s] = "HELD" ~> status[s] # "HELD"

\* "Releasing the seats now would resell seats that were paid for, so the saga
\* must not" (saga_integration_test.go): once the saga knows of the charge and has
\* gone on to confirm, a PENDING order's seats are sold to nobody else.
PaidSeatsAreKept ==
  \A o \in Orders : order_status[o] = "PENDING" /\ rpc[o]["Confirm"] # "none" =>
    \A s \in Req[o].seats : sold_to[s] \in {o, NoOrder}

\* "You were not charged and the seats were released." (OrderPage.tsx, shown for
\* every FAILED order): a FAILED order has no successful payment.
FailedIsNotCharged ==
  \A o \in Orders : order_status[o] = "FAILED" => payments[o] # "SUCCEEDED"
=============================================================================
