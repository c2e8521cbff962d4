# TicketWave: a TLA+ verification project

TicketWave sells seats. A purchase crosses three services and two stores, any of
which may fail in the middle: order-svc runs a saga that reserves the seats in
inventory-svc, charges payment-svc, and confirms the seats; inventory-svc keeps seats
in Postgres and the time limit of a hold in Redis; events leave both services through
transactional outboxes. Around this core stand a gateway, sign-in sessions, consumers
of the events, a live seat map, and the web pages that use them all. The modules here
model the core and its surroundings, TLC checks them on small instances, and TLAPS
proves every safety property that TLC finds to hold, for any number of seats, orders, pages,
requests and replicas. Liveness is checked by TLC alone.

## The parts of the system

| Part | State | Operations | Talks to |
|---|---|---|---|
| inventory-svc | `seats`, `outbox` (Postgres), `hold:seat:*` (Redis) | CreateEvent, ReserveSeats, ConfirmSeats, ReleaseSeats, hold sweeper, queries | Postgres, Redis |
| order-svc | `orders`, `outbox` | CreateOrder (saga, idempotent), GetOrder | inventory-svc, payment-svc |
| payment-svc | `payments` | Charge | Postgres |
| pkg/outbox | `published` flags | poll, publish, mark | Postgres, Kafka |
| pkg/kafka | offsets, dead-letter topics | fetch, handle with retries, dead-letter, commit | Kafka |
| notification-svc | "sent" markers in Redis | mail once per verdict | Kafka, Redis |
| analytics-svc | `processed_messages`, `event_stats` | count each verdict once | Kafka, Postgres |
| realtime-svc | subscriptions and their buffers | subscribe, publish, drop the slow | Kafka, browsers |
| auth-svc | `users`, `refresh_tokens` | register, login, refresh (rotation), logout | Postgres |
| gateway | none of its own | deadline per request, error mapping, rate limit | all services |
| web client | idempotency key, session, seat map | checkout, refresh, stream | gateway, realtime-svc |

What makes it hard: a call may execute although its caller saw an error, or execute
after the caller gave up; compensation runs under the same context that may have
killed the step it compensates; the sweeper acts on two reads made at different
times; Redis commands follow a commit and may be late, lost, or aimed at a seat that
has moved on; retries with one idempotency key race each other; processes crash
between steps; messages are delivered again, or to two consumers at once; what a page
fetched is overtaken by what is pushed to it; a page forgets a request that the
services go on with. `PROJECT.json` lists these hazards with their source lines.

## Modules

* **SeatSale** is the promise: a seat is unborn, free, held by an order, or sold to
  one. It is taken only when free, bought only by its holder together with all the
  other seats of that order, and a sale is final.
* **Inventory** is inventory-svc. `status`, `held_by` and `announced` (the
  outbox row of the last commit that lists the seat; the publisher goes by `created_at`
  instead, which SeatMap models) are the database; `hold_key` is Redis; `rpc` and
  `todo` tell how far each call has come; `sweep_pc`, `heldIDs`, `expired` are the
  sweeper's locals; `sold_to` is a history variable, because the code sets `held_by`
  to NULL on a sale. Its client is arbitrary: any call, in any order, once per order.
* **OrderSaga** extends Inventory with order-svc and payment-svc. A member of
  `Orders` is one CreateOrder call and the order ID that call generates. `saga` is the
  place in `CreateOrder`, `ctx` whether the request's context is alive.
* **Purchase** is what an idempotency key promises its sender: one purchase of fixed seats,
  sold all together and after the charge, decided at most once, and never charged when the
  reason was that the seats were gone or the card was declined. OrderSaga and Checkout
  both implement it.
* **SalesTally** is the promise of analytics: every verdict is counted once.
* **Delivery** is the way of an event: outbox rows, the publishers of all replicas
  (`pkg/outbox`), one partition, the consumers of one group (`pkg/kafka`) with their
  concurrent handlers, and the handler of analytics-svc or of notification-svc. A
  publisher's transaction holds its row locks over the Kafka write, so its steps are
  SELECT, write and commit, and it may end after each. A consumer's steps are the
  fetch of a batch, the attempts of each message, the dead letter and the commit.
* **Sessions** is auth-svc with the cookie endpoints of the gateway and the client's
  `refreshSession` and auth store. A request is sent, executed (Refresh in two steps,
  since it holds a row lock) and answered. The reply comes in two parts, as the browser
  gets it: the headers change the cookie, the body moves the page. Each may be lost.
* **SeatMap** is the live seat map: outbox rows of seat events, the tail, hub and stream
  handlers of realtime-svc, and the page with its EventSource and query cache. A fetch
  of the seat list is asked, read from the database, and applied, as three steps. A handler
  whose connection takes no more is inside a write, where it notices no cancelled context.
* **Gateway** is what every request passes: token, role, rate limit, the checks of the
  handler, the deadline, the translation of errors, panics, and the shutdown. Time
  is counted in ticks for the limiter's windows. Paging and the validation of events
  are here as well.
* **Checkout** extends Gateway with the event, order and organizer pages, KeyKeeper, and
  order-svc as its callers see it: a key is inserted once, the saga ends with one
  of its outcomes, and CreateOrder's reply to the gateway is another step. The deadline may
  come before, between or after them, and a saga that has lost its caller can still end in
  every way. A charge or a sale that executes late is counted when its saga ends. OrderSaga
  has its own steps. The
  two views of order-svc meet in Purchase: what Checkout takes for granted of an order is
  what the saga is proved to do.
* **MCInventory**, **MCOrderSaga**, **MCDelivery**, **MCSessions**, **MCSeatMap** and
  **MCCheckout** hold the instances TLC runs.
* **InventoryProofs**, **OrderSagaProofs**, **DeliveryProofs**, **SessionsProofs**,
  **SeatMapProofs** and **CheckoutProofs** (Gateway and Checkout) hold the theorems about
  these. OrderSagaProofs rests on **OrderSagaInv** (the inductive
  invariant and what a step may touch) and on **OrderSagaSteps**, which shows that every
  step keeps it.

Granularity. A transaction is one step: `FOR UPDATE` and the row locks of `UPDATE`
make ReserveSeats, moveHeldSeats and the sweeper's UPDATE atomic at their commit.
Every Redis command, every remote call and every reply is a step of its own. Some
outcomes need no action of their own. A commit whose reply to inventory-svc was lost
is a commit, failing Redis commands and a lost reply. A Redis command under a dead
context is `TouchKeyFails`. A lock cycle that Postgres breaks is `HandlerFails`. A seat
the sweeper's UPDATE meets too early is one it skipped in `SweepCheckFails`. A message
already sent survives a restart of its server and may execute at any later time.

A hold key does not expire while the context of the request that set it is alive
(`SagaKeyExpires`): the gateway ends a request after 8 seconds and the key lives for
5 minutes. In Inventory alone, where the client is arbitrary, it may expire any time.

Names ending in a suffix (`SweptRows_NoRecheck`, `Replay_Resumes`, ...) are variants: the
definition below them as a plausible mistake would have it. No specification uses
them; each property is violated when its variant replaces the definition.

## Runs

| Run | Instance | Result |
|---|---|---|
| inventory_safety | 2 seats, o1 wants both, o2 one of them; Redis fails | holds: types, HolderMatchesStatus, AllOrNothingSale, HoldersOnly, RefinesSeatSale |
| inventory_events | seats of two events, a request that mixes them; 1 restart | holds: OutboxAgrees |
| saga_rivals | 1 seat, 2 customers, faults everywhere, 1 crash | holds: types, ConfirmedIsPaidAndSold, SoldMeansPaid, OrderOutboxAgrees, RefinesInventory |
| saga_retry | 3 calls with one key: call, retry, other amount (declined); 1 crash | holds: RefusedIsNotCharged, OneChargePerKey, AnswersAgree, RefinesPurchase |
| saga_live | 1 order of 2 seats, faults, 1 crash, 1 restart | holds: EveryCallEnds, HoldsEnd |
| delivery | 2 rows (a sale, one that does not decode), 2 publishers, 2 consumers, 2 faults | holds: types, CommittedIsHandled, OnceWithoutFaults, PublishedIsOnTopic, RefinesTally, EveryRowArrives |
| sessions | 1 page with 2 concurrent calls, 5 tokens, 3 requests, 3 events | holds: OneSuccessor, ReuseEndsSessions, HonestTabNotCaught, OnlyADefiniteNo, EveryCallSettles |
| seatmap | 1 seat changing twice, 1 page, 3 connections, 2 faults | holds: types, HubIsConsistent, StreamedMapIsRight, MapSettles, EveryViewerGetsThrough, ShutdownCompletes |
| checkout | a buyer of 1 seat or a visitor of somebody's order with 1 fault, a buyer choosing among 2 seats, an organizer with 1 fault; 2 keys, 2 requests, 3 clicks on Buy | holds: AnswersAreTrue, BurstBound, RefinesPurchase, EveryRequestEnds, BlockedIsFreed |
| saga_resold | as saga_rivals, no fault at all | **violated**: PaidSeatsAreKept |
| saga_charged | as saga_rivals | **violated**: FailedIsNotCharged |
| checkout_undecided | as checkout, no fault at all | **violated**: AnAnswerIsADecision |

The violated ones are disagreements between the code and what the repository says:

1. *A paid seat can be resold.* ReserveSeats commits, a sweep reads the seat as HELD and
   finds no key, ReserveSeats sets the key, and the sweep frees the seat: the UPDATE
   rechecks the status, not the key or the holder. The window is one Redis round trip,
   and the repository's README promises a hold of 5 minutes. If the charge goes through
   meanwhile, ConfirmSeats is refused, the order stays PENDING and charged, and the next
   customer buys the seat.
2. *A FAILED order may be charged.* After a lost Charge reply the saga records FAILED,
   and the order page tells the customer that they were not charged. The mail of
   notification-svc is more careful: RefusedIsNotCharged says that what `chargeNote`
   promises is so.
3. *A purchase may be forgotten before it is decided.* A click on a seat during a purchase
   enables the button again (`order.reset`), or a 504 does. The next attempt with the same
   key is answered 409 request_in_progress, KeyKeeper takes this for a decision, and
   the click after it is a second purchase while the first is PENDING. The test at
   `idempotency.test.ts:60` lists this 409 among the definite answers, so the code does what
   its author meant; what it does not fit is the reason given at `idempotency.ts:15-17`, that
   with any response "the server decided".

What the models showed besides, short of contradicting a stated promise:

* Sessions. A rotation under way when reuse detection reads the table keeps its new
  token. After a lost reply the cookie holds a used token, and the next refresh trips
  reuse detection, so "a dropped connection must not log the user out" holds as far as
  OnlyADefiniteNo says and no further: the refusal that ends the session comes later, and
  is a definite one. A page and its cookie need not agree. When the headers of a refusal
  arrive and its body does not, the page goes on without a cookie; when a sign-out or a
  login overlaps a refresh, the reply that comes last decides each of the two. A refresh
  reply that arrives after a sign-out signs the page in again. Two tabs share a cookie and not the in-flight promise, which
  is why HonestTabNotCaught speaks of a browser with one page.
* Seat map. A list read before a push may arrive after it and overwrite it, and
  `invalidateQueries` joins the first fetch instead of restarting it: the comment at
  `useSeatStream.ts:15-17` closes a window that these leave open until the 30 second poll.
  StreamedMapIsRight therefore starts from a fetch no push has crossed, and MapSettles
  rests on the poll. A page that subscribes before the tail knows its offset may miss
  updates in the same way. The poll repairs all of this, so MapSettles says that a wrong
  map does not last and nothing about how soon the stream puts it right. Outbox rows are
  published by `created_at`, the start of their transaction, so two changes of a seat may
  be pushed in the wrong order although nothing failed (`RelayDisordered`).
* Checkout. The reply to an earlier, forgotten purchase lets go of the key of a later one.
  A 429, 401 or 503 on a retry lets the key go too, and so does a reply whose body is lost:
  `res.text()` rejects with an error that is no ApiError (`CutOff`). After a 504 the buyer's own
  hold makes the seats unavailable on the page, so that the retry with the same key,
  which the comment at `EventPage.tsx:57-59` describes, is often not possible. The
  organizer's form admits larger events than the service accepts.

A lock cycle between two reservations (the `FOR UPDATE` of ReserveSeats locks rows in no
fixed order) appears
only by what it leaves, a call that fails; saga_live, with its one order, says nothing about
how Postgres breaks it.

Bounds. `MaxRestarts` and `MaxCrashes` bound what the environment does. Two orders are
enough for every conflict between a holder and somebody else; two seats for a request
that is half swept; three calls for one key give a retry and a misuse.
Delivery has two replicas of everything that competes, a publisher's batch smaller than the
backlog and a consumer's as large as it, and as many attempts and faults as it takes to fail, be redelivered and fail
again. One row that does not decode is enough for the dead letters. Five tokens cover a
sign-in, a rotation, its retry, reuse and a new sign-in; three requests cover two that
race and a sign-out. In SeatMap a buffer and a wire of one update are full at once, so
that a second change finds a slow reader; three connections let two old ones linger; and
RelayDisordered shares the budget of the faults. In Checkout three clicks are a purchase,
its retry and the purchase after it; a window of two ticks and a limit of one reach both
sides of a window's edge; limits -1, 0 and 201 are the edges of the paging clamps, 500 and
501 seats those of an event.
All runs but the two of Checkout allow the system to stop (`CHECK_DEADLOCK FALSE`), because
requests, rows, changes and faults are finite and it comes to rest. In Checkout the clock goes on, and
deadlock is checked. `SYMMETRY` exchanges the identical customers, in safety runs only.

Fairness, in saga_live. A deadline always comes, and a goroutine whose call was answered
or cancelled goes on; it is not assumed that a server answers or that a reply is lost.
The ticker keeps the sweeper going, keys expire (weak fairness), and a lookup or an
UPDATE of the sweeper that is tried again and again succeeds at some time (strong
fairness), which is what "safety net" means in the comment of `releaseSeats`.

In the other runs, all weak. delivery: the system does not stand still while a publisher
or a consumer can go on, an unassigned partition gets an owner, and faults are bounded;
every loop of the code is a ticker or a retry. sessions: requests that were sent are
executed and answered or dropped, and promises that were resolved go on; users and
clocks need do nothing. seatmap: realtime-svc with its supervisor and the outbox, each handler,
each EventSource and each page's fetching go on separately, because each is a goroutine or browser task of
its own; the poll is the timer of the query. A handler whose client is gone notices it,
by the failing write of the heartbeat at the latest. A browser reads what has arrived; one
that stays connected and stops reading keeps its handler in a write, and a shutdown then
ends by its 10 second limit, which is `ServerDies`. checkout: each request's goroutine
and its deadline, the process that restarts the gateway, and time. Nothing is assumed of
the pages and of the services behind the gateway.

## Proofs

Every theorem is about all values of the constants that satisfy the named assumptions of
its modules (`ConstantsOK`, `SagaConstantsOK`, `DeliveryConstantsOK`, `SessionsConstantsOK`,
`SeatMapConstantsOK`, `GatewayConstantsOK`, `CheckoutConstantsOK`). These give the constants
their types, keep "none" values apart from the real ones, and ask for finite sets where
something is counted. The bounds on faults, restarts and crashes are arbitrary numbers.

### Seats: InventoryProofs

* `InventoryTypeCorrect`: the type invariant, which is inductive as it stands.
* `SeatsCorrect`, and `HoldersCorrect` and `OutboxCorrect` as its parts: HolderMatchesStatus,
  AllOrNothingSale and OutboxAgrees. None of them is inductive alone. `SeatInv` joins them:
  that a sale is all or nothing needs that a HELD seat has no buyer yet and that a seat
  with a buyer is SOLD. `SeatStepCases` reduces every action to five effects on the seats
  table, so that the invariant is proved once per effect.
* `HoldersOnlyCorrect`: the action property, from the types and the same case lemma.
* `InventoryRefinesSeatSale`: the refinement. A reservation maps to Take, a confirm to
  Buy, a release and a sweep to GiveUp, an event to Open, everything else to a stutter.

### Purchases: OrderSagaInv, OrderSagaSteps, OrderSagaProofs

* `SagaRefinesInventory`: the saga makes each call at most once per order, so it is one of
  the clients Inventory allows. Its steps are then steps of Inventory, and `SeatInvStep`
  and `InventoryTypeStep` are used again instead of being proved again.
  `SagaRefinesSeatSale` follows: the whole purchase sells seats as SeatSale promises.
* `SagaTypeCorrect`, `ConfirmedCorrect`, `SoldCorrect`, `OneChargeCorrect` and
  `OrderOutboxCorrect`: the type invariant and the safety invariants of the saga runs.
* `RefusedCorrect` and `AnswersCorrect`: what callers are told. `AnswerInv` ties each answer
  to where it comes from, the call's own saga or the row of its key.
* `SagaRefinesPurchase`: any number of calls with one key implement one purchase. The
  mapping shows a key as the row that has it; `KeyInv` makes that row unique, so the
  CHOOSE in the mapping has one candidate. `RowInv` adds what a step of the purchase needs
  and no invariant said: a reason comes with the failure, and a Charge that has not been
  executed has left no payment. A late Charge maps to a step that only pays, which is why
  Purchase lets a purchase that FAILED with SERVICE_UNAVAILABLE be charged.

All of them rest on `SagaInv`. What the records of a purchase say of each other cannot be
shown without the place of the saga between them, so `PlaceInv` says what has been sent
and written at each place, `PaidInv` orders the records (row before charge before
ConfirmSeats before CONFIRMED), `SoldInv` ties ConfirmSeats to `sold_to`, and `KeyInv` is
the unique index. Calls that execute after their caller is gone are why `PaidInv` and
`SoldInv` speak of the calls and not of the saga's place. `Footprint` shows once what a
step on behalf of an order may write, so that the cases of an action only have to speak
of its own order; the effects of the building blocks (`GotoEffect`, `WriteEffect`,
`ChargeEffect`, `ReplyEffect`, `CallEffect`) stand for their definitions in the leaves.

### Events: DeliveryProofs

* `DeliveryTypeCorrect`, with `TriesInv`: a handler that may still fail has attempts left.
* `PublishedCorrect`, from `OutboxInv`: the rows a publisher has locked are its own and not
  published, and those it has sent are on the topic.
* `CommittedCorrect`, from `HandlingInv`: below the committed offset, and between it and a
  consumer's position, every message is handled, dead, or in the hands of that consumer.
* `OnceCorrect`, from `QuietInv`: as long as no fault has happened, no row is on the topic
  twice and no message is mailed twice or tried again.
* `DeliveryRefinesTally`: the INSERT ... ON CONFLICT of analytics-svc maps to a count the
  first time and to a stutter afterwards.

### Sessions: SessionsProofs

* `SessionsAgree`: the invariant `SessionsTypes /\ TokenInv`. While a request holds the lock
  of a token's row, the row is as it was read or has expired; a token with an heir is
  revoked; a token is revoked only by a rotation, a sign-out or reuse detection.
* `OneSuccessorCorrect` and `ReuseCorrect` follow from it.
* `DefiniteNoCorrect`, an action property, follows from it as well: a reply that takes the
  cookie away was given to a sign-out or to a refresh whose token was dead, and a dead
  token stays dead until the reply is read.
* `HonestCorrect`, an action property, needs `HonestInv`: while nothing was lost, a browser
  with one page has one refresh under way, a cookie that was exchanged is about to be
  replaced, no token is known to two browsers, and one on its way was never used.

### Seat map: SeatMapProofs

* `SeatMapAgrees`: the invariant `MapInv`, in three layers. `MapTypes` are the types.
  `PlaceInv` says which connection, subscription and page belong together, and that the
  hub's count is the number of subscriptions. `DataInv` follows a status on its way: the
  last row of a seat has its present status; while nothing was reordered, the topic is the
  log as far as it was relayed; what comes last down an open stream about a seat is its
  present status; and a list no push has crossed is right about every seat for which
  nothing is to come.
* `SeatMapTypeCorrect`, `HubCorrect` and `StreamedMapCorrect` follow from it. In the last one
  "everything was delivered" leaves nothing to come, so the list is right.

### Gateway and checkout: CheckoutProofs

* `LimiterAgrees` and `BurstCorrect`. A fixed window may let through twice its limit, and the
  bound is not inductive. `LimiterInv` cuts the window in two: attempts younger than the cut
  were counted by the present counter, older ones by the one before it, and no counter
  before that one reaches into the window, because a counter lives as long as a window.
* `PurchaseAgrees` and `AnswersTrueCorrect`. `CheckInv` says that there is one choice of
  seats per key wherever the key turns up (the function `want`, which no variable holds),
  that one request at most carries out the purchase of a key, that what order-svc records
  is so, and that an answer that is out is true whatever happens next. `Pledge` is the same
  for an answer that is not out: what a call has decided to return stays true while the
  orders of others go on, until the gateway hears it or has given up.
* `CheckoutRefinesPurchase`: `ShopSteps` shows that a step leaves the orders alone, inserts
  one, or ends the saga of one; each maps to a stutter or a step of Purchase.

### Only model-checked

Liveness: EveryCallEnds, HoldsEnd, EveryRowArrives, EveryCallSettles, MapSettles,
EveryViewerGetsThrough, ShutdownCompletes, EveryRequestEnds and BlockedIsFreed. They rest on
weak and strong fairness, hence on ENABLED, which the prover does not handle. The three
violated properties are refuted by TLC's counterexamples. All other properties of the runs
are theorems.

## Not modelled

* Configuration, telemetry, manifests, generated code, page markup and wording hold no
  state of the system.
* The gateway's request ids, log lines, security headers, CSRF header and choice of the
  client address; what `decodeJSON` refuses (content type, size, syntax), since the pages
  send none of it; the syntax of names, addresses and passwords, and password hashing.
* The lifetime of the refresh cookie, which equals that of its token.
* Seat messages that do not decode (the feed logs and skips them), and the "N seats left"
  line of the event page, a second query that is not polled and not refreshed by the stream.
* More than one partition, and the order in which several keys interleave. No handler
  relies on order between keys.

## Plan

1. Several partitions in Delivery, with keys spread over them.
2. The cookie lifetime in Sessions, once it may differ from that of the token.
3. The liveness properties as theorems, when the prover supports ENABLED.
