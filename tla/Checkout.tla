------------------------------ MODULE Checkout ------------------------------
(***************************************************************************)
(* A purchase from the browser's side: the event page, the keeper of the   *)
(* idempotency key, the gateway in between, and what order-svc does with   *)
(* the call, also after the gateway has given up on it.                    *)
(*                                                                         *)
(* order-svc is here what its callers see of it (module OrderSaga has its  *)
(* own steps): a key is inserted once, and the saga ends with one of its   *)
(* outcomes, whether or not anybody still waits for it.  The outcome and   *)
(* the reply are two steps, with the deadline in between.  A charge or a   *)
(* sale that is carried out late counts from the end of the saga.  Seats   *)
(* may be refused at any time, since others want them too.  The page's     *)
(* seat map may be behind in any way (module SeatMap has the stream), and  *)
(* a new access token is fetched in one step (module Sessions has the      *)
(* rotation).                                                              *)
(***************************************************************************)
EXTENDS Gateway

CONSTANTS
  Foreign,                   \* an order of somebody else
  Visit,                     \* per person, the pages opened, the seats wanted, and
                             \* as bounds the clicks on Buy and the things that fail
  SeatCounts, ListLimits     \* what is typed into the forms of a page

ASSUME CheckoutConstantsOK ==
  /\ Foreign \notin Keys \cup {NoKey}
  /\ \A p \in People : Visit[p].pages \subseteq {"event", "order", "organizer"}
  /\ SeatCounts \subseteq Int /\ ListLimits \subseteq Int

VARIABLES
  page,         \* per person, the page in the browser
  order,        \* order-svc: per key, the order
  sold,         \* inventory-svc: per seat, the order of this model it is sold to
  let_go        \* history: the keys the keeper has let go after an answer

vars == <<gatewayVars, page, order, sold, let_go>>
shop == <<order, sold>>
limits == <<counter, passed>>

NewOrder == [status |-> "NONE", reason |-> "none", seats |-> {}, charged |-> FALSE]

Opened(at) ==
  [at |-> at, selected |-> {}, pending |-> NoReq, key |-> NoKey,
   kseats |-> {}, mine |-> NoKey, seen |-> "none", clicks |-> 0]

\* One person has a page open; the others are the rivals for the seats.
CheckoutInit ==
  /\ GatewayInit
  /\ \E p \in People : \E at \in Visit[p].pages :
       /\ faults = Visit[p].faults
       /\ at = "organizer" => AtLeast(RoleOf[p], "organizer")
       /\ page = [q \in People |->
                    IF q # p THEN Opened("closed")
                    ELSE [Opened(at) EXCEPT !.mine = IF at = "order" THEN Foreign ELSE @]]
  /\ order = [k \in Keys \cup {Foreign} |-> 
                IF k = Foreign THEN [NewOrder EXCEPT !.status = "CONFIRMED"] ELSE NewOrder]
  /\ sold = [s \in Seats |-> NoKey]
  /\ let_go = {}

-----------------------------------------------------------------------------
(* The keeper of the idempotency key.                                      *)

FreshKeys == {k \in Keys : /\ order[k].status = "NONE" /\ k \notin let_go
                           /\ \A r \in Reqs : req[r].key # k
                           /\ \A p \in People : page[p].key # k}

\* Variant: a key is kept although other seats are chosen.
keyFor_AnySeats(p, seats) == IF page[p].key = NoKey THEN Min(FreshKeys) ELSE page[p].key

\* The pending key for the same seats, in any order; else a new one.
keyFor(p, seats) ==
  IF page[p].key # NoKey /\ page[p].kseats = seats THEN page[p].key ELSE Min(FreshKeys)

\* The headers have come and the body is lost: an error that is no ApiError.
CutOff == [status |-> -2, code |-> "cut_off"]

isUnknownOutcome(a) == a.status \in {0, 504}

\* settle lets the current key go, which need not be the key of the attempt
\* that ended: another purchase may have been started meanwhile.
Settles(a) == ~isUnknownOutcome(a)

-----------------------------------------------------------------------------
(* The page.                                                               *)

\* Of the seats selected those count that the map shows as available.
Chosen(p) == SUBSET page[p].selected

\* A request leaves the browser, perhaps with a token that has run out; nobody
\* listens at a gateway that is down.
Send(p, route, seats, key, n) ==
  \E r \in Reqs, token \in BOOLEAN :
    /\ req[r].stage = "free" /\ \A q \in Reqs : req[q].stage = "free" => r <= q
    /\ IF token THEN UNCHANGED faults ELSE Policy[route].auth /\ Fault
    /\ req' = [req EXCEPT ![r] =
                 [Unsent EXCEPT !.stage = IF gw = "up" THEN "sent" ELSE "answered",
                                !.answer = IF gw = "up" THEN NoAnswer ELSE Dropped,
                                !.from = p, !.route = route, !.token = token,
                                !.seats = seats, !.key = key, !.n = n, !.awaited = TRUE]]
    /\ page' = [page EXCEPT ![p].pending = r,
                            ![p].key = IF route = "create_order" THEN key ELSE @,
                            ![p].clicks = IF route = "create_order" THEN @ + 1 ELSE @,
                            ![p].kseats = IF route = "create_order" THEN seats ELSE @]

\* toggle: order.reset() also detaches the page from a purchase under way.
toggle(p, s) ==
  /\ page[p].at = "event" /\ s \in Visit[p].wants
  /\ page' = [page EXCEPT ![p].pending = NoReq,
                          ![p].selected = CASE s \in @ -> @ \ {s}
                                            [] s \notin @ /\ Cardinality(@) < MaxSeatsPerOrder
                                                 -> @ \cup {s}
                                            [] OTHER -> @]
  /\ UNCHANGED <<gatewayVars, shop, let_go>>

\* The button is disabled without a seat and while a purchase is pending.
MayBuy(p, chosen) == page[p].at = "event" /\ page[p].pending = NoReq /\ chosen # {}

buy(p) ==
  /\ \E chosen \in Chosen(p) :
       /\ MayBuy(p, chosen) /\ page[p].clicks < Visit[p].clicks
       /\ page[p].key = NoKey \/ page[p].kseats # chosen => FreshKeys # {}
       /\ Send(p, "create_order", chosen, keyFor(p, chosen), 0)
  /\ UNCHANGED <<gw, limits, shop, let_go>>

\* useOrder: the order page asks until the order is decided.
PollOrder(p) ==
  /\ page[p].at = "order" /\ page[p].pending = NoReq
  /\ page[p].seen \in {"none", "pending"}
  /\ Send(p, "get_order", {}, page[p].mine, 0)
  /\ UNCHANGED <<gw, limits, shop, let_go>>

\* CreateEventForm: its fields accept more seats than inventory-svc does.
FormAccepts(n) == n \in 1..10000

SubmitEvent(p) ==
  /\ page[p].at = "organizer" /\ page[p].pending = NoReq
  /\ \E n \in SeatCounts : FormAccepts(n) /\ Send(p, "create_event", {}, NoKey, n)
  /\ UNCHANGED <<gw, limits, shop, let_go>>

\* useAnalytics, polled by the organizer's page.
LoadAnalytics(p) ==
  /\ page[p].at = "organizer" /\ page[p].pending = NoReq
  /\ \E n \in ListLimits : Send(p, "analytics", {}, NoKey, n)
  /\ UNCHANGED <<gw, limits, shop, let_go>>

\* useEvents, useEvent
LoadEvents(p) ==
  /\ page[p].at = "organizer" /\ page[p].pending = NoReq
  /\ \E route \in {"list_events", "get_event"}, n \in ListLimits : Send(p, route, {}, NoKey, n)
  /\ UNCHANGED <<gw, limits, shop, let_go>>

\* api: after a 401 a new access token is fetched and the same request, its
\* key included, goes out once more.
Resend(r) ==
  /\ req[r].stage = "answered" /\ req[r].awaited /\ req[r].answer.status = 401
  /\ ~req[r].token /\ gw = "up"
  /\ req' = [req EXCEPT ![r].stage = "sent", ![r].token = TRUE, ![r].answer = NoAnswer]
  /\ UNCHANGED <<gw, limits, faults, page, shop, let_go>>

\* OrderPage: what it shows of an answer; any other error leaves it as it is.
Shown(pg, a) ==
  [pg EXCEPT !.seen = CASE a.status = 200 -> a.code
                        [] a.status = 404 -> "not_found"
                        [] OTHER -> @]

\* EventPage: on to the order, or a failed attempt that is decided and whose
\* seats are no longer selected.
Bought(pg, q, a) ==
  CASE a.status = 201 -> [Opened("order") EXCEPT !.mine = q.key]
    [] a.status # 201 /\ Settles(a) -> [pg EXCEPT !.selected = {}]
    [] OTHER -> pg

\* What the page makes of the answer a to request q.  The keeper settles for
\* every purchase; the page itself only hears of the one it waits for.
Told(pg, r, q, a) ==
  LET kept == IF q.route = "create_order" /\ Settles(a)
              THEN [pg EXCEPT !.key = NoKey, !.kseats = {}] ELSE pg
      idle == [kept EXCEPT !.pending = NoReq]
  IN CASE pg.pending # r -> kept
       [] pg.pending = r /\ q.route = "create_order" -> Bought(idle, q, a)
       [] pg.pending = r /\ q.route = "get_order" -> Shown(idle, a)
       [] OTHER -> idle

Hears(r, a) ==
  LET q == req[r]
      p == q.from
  IN /\ page' = [page EXCEPT ![p] = Told(@, r, q, a)]
     /\ let_go' = IF q.route = "create_order" /\ Settles(a) /\ page[p].at = "event"
                  THEN let_go \cup ({page[p].key} \ {NoKey}) ELSE let_go

Receive(r) ==
  /\ req[r].stage = "answered" /\ req[r].awaited
  /\ Hears(r, req[r].answer)
  /\ req' = [req EXCEPT ![r] = Kept([@ EXCEPT !.awaited = FALSE])]
  /\ UNCHANGED <<gw, limits, faults, shop>>

\* The connection drops while the browser waits, for the answer or for its body.
ConnectionDrops(r) ==
  /\ req[r].awaited
  /\ Fault
  /\ Hears(r, Dropped) \/ (req[r].stage = "answered" /\ Hears(r, CutOff))
  /\ req' = [req EXCEPT ![r] = Kept([@ EXCEPT !.awaited = FALSE])]
  /\ UNCHANGED <<gw, limits, shop>>

-----------------------------------------------------------------------------
(* order-svc, as the gateway sees it.                                      *)

\* The context of the call ends with the gateway's request.
Alive(r) == req[r].stage = "calling"

\* CreateOrder is about to return; nobody minds what it returns to a caller that is gone.
Returns(r, outcome) ==
  req' = [req EXCEPT ![r] = IF Alive(r) THEN [@ EXCEPT !.pc = outcome]
                                        ELSE Kept([@ EXCEPT !.pc = "none"])]

Outcomes == {"created"} \cup DOMAIN httpError
ReplyOf(outcome) == IF outcome = "created" THEN Http(201, "created") ELSE httpError[outcome]

\* What CreateOrder returned arrives: the gateway answers with it if it still waits.
Replies(r) ==
  /\ req[r].pc \in Outcomes
  /\ LET over == [req[r] EXCEPT !.pc = "none"]
     IN  req' = [req EXCEPT ![r] =
                   IF Alive(r) THEN Kept([over EXCEPT !.stage = "answered",
                                                      !.answer = ReplyOf(req[r].pc)])
                               ELSE Kept(over)]
  /\ UNCHANGED <<gw, limits, faults, page, shop, let_go>>

\* Something fails: bad luck while the gateway waits, the rule once it has given up,
\* because the context of the call ends with it.
MayBreak(r) == IF Alive(r) THEN Fault ELSE UNCHANGED faults

failureFor(reason) == IF reason = "none" THEN "SERVICE_UNAVAILABLE" ELSE reason

replay(k, seats) ==
  CASE order[k].seats # seats -> "IDEMPOTENCY_KEY_REUSED"
    [] order[k].seats = seats /\ order[k].status = "CONFIRMED" -> "created"
    [] order[k].seats = seats /\ order[k].status = "FAILED" -> failureFor(order[k].reason)
    [] OTHER -> "REQUEST_IN_PROGRESS"

\* validateCreateOrder: the seats are a set, which has no repetition.
validateCreateOrder(q) == SeatCountOK(Cardinality(q.seats)) /\ q.key \in Keys

Inserts(r) ==
  order' = [order EXCEPT ![req[r].key].status = "PENDING", ![req[r].key].seats = req[r].seats]

\* No row is inserted: the answer comes from the first attempt.
Replays(r) ==
  /\ Returns(r, IF validateCreateOrder(req[r]) THEN replay(req[r].key, req[r].seats)
                                               ELSE "InvalidArgument")
  /\ UNCHANGED order

\* Variant: a key whose order FAILED may be used again.
createOrder_RetriesFailed(r) ==
  /\ req[r].pc = "insert"
  /\ IF validateCreateOrder(req[r]) /\ order[req[r].key].status \in {"NONE", "FAILED"}
     THEN Inserts(r) /\ req' = [req EXCEPT ![r].pc = "saga"]
     ELSE Replays(r)
  /\ UNCHANGED <<gw, limits, faults, page, sold, let_go>>

\* The insert is the idempotency check: one call takes the key and goes on.
createOrder(r) ==
  /\ req[r].pc = "insert"
  /\ IF validateCreateOrder(req[r]) /\ order[req[r].key].status = "NONE"
     THEN Inserts(r) /\ req' = [req EXCEPT ![r].pc = "saga"]
     ELSE Replays(r)
  /\ UNCHANGED <<gw, limits, faults, page, sold, let_go>>

\* The insert fails, or only its reply is lost, or replay cannot read the first attempt.
InsertFails(r) ==
  /\ req[r].pc = "insert" /\ MayBreak(r)
  /\ \/ UNCHANGED order
     \/ validateCreateOrder(req[r]) /\ order[req[r].key].status = "NONE" /\ Inserts(r)
  /\ Returns(r, "Internal")
  /\ UNCHANGED <<gw, limits, page, sold, let_go>>

\* What the saga leaves behind: the order, and the seats it has sold.
Leaves(r, st, reason, charged, sells) ==
  /\ order' = [order EXCEPT ![req[r].key] =
                  [@ EXCEPT !.status = st, !.reason = reason, !.charged = charged]]
  /\ sells => \A s \in req[r].seats : sold[s] = NoKey
  /\ sold' = IF sells THEN [s \in Seats |-> IF s \in req[r].seats THEN req[r].key ELSE sold[s]]
             ELSE sold
  /\ UNCHANGED <<gw, limits, page, let_go>>

InSaga(r) == req[r].pc = "saga"

\* The last transition commits; its own reply may be lost.
Confirm(r) ==
  /\ InSaga(r)
  /\ Leaves(r, "CONFIRMED", "none", TRUE, TRUE)
  /\ \/ Returns(r, "created") /\ UNCHANGED faults
     \/ Returns(r, "Internal") /\ MayBreak(r)

\* fail: somebody else has the seats, or the card is declined.  FAILED is
\* recorded, unless the database fails as well.
Refuse(r) ==
  /\ InSaga(r)
  /\ \E reason \in {"SEATS_UNAVAILABLE", "PAYMENT_DECLINED"} :
       /\ \/ Leaves(r, "FAILED", reason, FALSE, FALSE) /\ UNCHANGED faults
          \/ Leaves(r, "PENDING", "none", FALSE, FALSE) /\ MayBreak(r)
       /\ Returns(r, reason)

\* A service breaks: nobody knows whether the card was charged.
Break(r) ==
  /\ InSaga(r) /\ MayBreak(r)
  /\ \E charged \in BOOLEAN :
       \/ Leaves(r, "FAILED", "SERVICE_UNAVAILABLE", charged, FALSE)
       \/ Leaves(r, "PENDING", "none", charged, FALSE)
  /\ Returns(r, "SERVICE_UNAVAILABLE")

\* Paid, but the seats could not be confirmed or the order not be marked.
Unfinished(r) ==
  /\ InSaga(r) /\ MayBreak(r)
  /\ \E sells \in BOOLEAN : Leaves(r, "PENDING", "none", TRUE, sells)
  /\ Returns(r, "Internal")

\* GetOrder, and the words the gateway has for a status.
GetOrder(k) == IF order[k].status = "NONE" THEN "NotFound" ELSE order[k].status
orderStatusName == [PENDING |-> "pending", CONFIRMED |-> "confirmed", FAILED |-> "failed"]

\* getOrder: an order of somebody else is missing, except for an admin.
OrderShown(r) ==
  LET k == req[r].key
      mine == k # Foreign \/ AtLeast(RoleOf[req[r].from], "admin")
  IN /\ req[r].stage = "calling" /\ req[r].route = "get_order"
     /\ req' = Answer(r, IF GetOrder(k) # "NotFound" /\ mine
                         THEN Http(200, orderStatusName[GetOrder(k)])
                         ELSE httpError["NotFound"])
     /\ UNCHANGED <<gw, limits, faults, page, shop, let_go>>

-----------------------------------------------------------------------------
OrderService(r) ==
  \/ createOrder(r) \/ InsertFails(r) \/ Confirm(r) \/ Refuse(r) \/ Break(r) \/ Unfinished(r)
  \/ Replies(r) \/ OrderShown(r)

PageStep(p) ==
  \/ buy(p) \/ PollOrder(p)
  \/ SubmitEvent(p) \/ LoadAnalytics(p) \/ LoadEvents(p)
  \/ \E s \in Seats : toggle(p, s)

GatewayStep(r) == HandlerStep(r) /\ UNCHANGED <<page, shop, let_go>>
Life == (Drained \/ StartGateway) /\ UNCHANGED <<page, shop, let_go>>
Clock == Tick /\ UNCHANGED <<page, shop, let_go>>
Trouble ==
  /\ \/ Drain
     \/ \E k \in Metered : ExpiryLost(k)
     \/ \E r \in Reqs : GatewayFault(r)
  /\ UNCHANGED <<page, shop, let_go>>

CheckoutNext ==
  \/ \E p \in People : PageStep(p)
  \/ \E r \in Reqs : Receive(r) \/ Resend(r) \/ ConnectionDrops(r)
  \/ \E r \in Reqs : GatewayStep(r)
  \/ \E r \in Reqs : OrderService(r)
  \/ Life \/ Clock \/ Trouble

\* The gateway's goroutines run, its deadline fires and time passes.  Nothing
\* is assumed of the page or of the services.
CheckoutSpec ==
  /\ CheckoutInit /\ [][CheckoutNext]_vars
  /\ \A r \in Reqs : WF_vars(GatewayStep(r))
  /\ WF_vars(Life) /\ WF_vars(Clock)

-----------------------------------------------------------------------------
Working(k) == \E r \in Reqs : req[r].key = k /\ InSaga(r)

(* Properties.                                                             *)

(* What the buyer is told is so: 201 means this order is confirmed, paid   *)
(* and its seats sold to it, "declined" and "seats unavailable" mean it    *)
(* was not charged and will not be confirmed, an order shown is the        *)
(* reader's own or an admin reads it, the keeper never sends one key for   *)
(* two purchases, and no list is longer than its ceiling, with timeouts,   *)
(* retries and calls that go on after the gateway has given up.            *)
AnswersAreTrue ==
  \A r \in Reqs :
    LET q == req[r]
        o == order[q.key]
    IN /\ q.rows <= IF q.route = "analytics" THEN 100 ELSE 200
       /\ q.stage = "answered" /\ q.awaited /\ q.key # NoKey =>
         /\ q.answer.status = 201 =>
              /\ o.status = "CONFIRMED" /\ o.charged /\ o.seats = q.seats
              /\ \A s \in q.seats : sold[s] = q.key
         /\ q.answer.code \in {"seats_unavailable", "payment_declined"} =>
              ~o.charged /\ o.status # "CONFIRMED" /\ ~Working(q.key)
         /\ q.route = "get_order" /\ q.answer.status = 200 =>
              q.key # Foreign \/ RoleOf[q.from] = "admin"
         /\ q.answer.code # "idempotency_key_reused"

\* What the order of a key shows of the purchase.
PurchaseOf(o) ==
  [status |-> o.status, reason |-> o.reason,
   seats |-> IF o.status = "NONE" THEN {} ELSE o.seats, paid |-> o.charged]

PurchaseView == [k \in Keys |-> PurchaseOf(order[k])]

Keyed == INSTANCE Purchase WITH purchase <- PurchaseView

(* Timeouts, retries, a second token and calls that go on alone            *)
(* notwithstanding, a key the browser sends stands for one purchase, as    *)
(* order-svc promises its callers (OrderSaga implements the same promise). *)
RefinesPurchase == Keyed!PurchaseSpec

(* Nobody waits forever on the gateway: every request is answered whatever *)
(* the services do, because of the deadline of each call, and a gateway    *)
(* told to stop has finished its requests and stops.                       *)
EveryRequestEnds ==
  /\ \A r \in Reqs : Busy(r) ~> ~Busy(r)
  /\ gw = "draining" ~> gw = "down"

(* A client that was blocked is not blocked forever, however often it asks *)
(* meanwhile and although its counter may have lost its expiry.            *)
BlockedIsFreed ==
  \A k \in Metered :
    []<>(\E r \in Reqs : req[r].stage = "sent" /\ LimitKey(req[r]) = k)
      => []<>WithinLimit(k)

(* "Any other response, even an error, IS an answer: the server decided":  *)
(* a key the keeper has let go belongs to a purchase that is decided.      *)
AnAnswerIsADecision ==
  \A k \in let_go : order[k].status # "PENDING"
=============================================================================
