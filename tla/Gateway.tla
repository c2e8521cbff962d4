------------------------------ MODULE Gateway ------------------------------
(***************************************************************************)
(* The gateway: what every request passes on its way to a service.  The    *)
(* middleware chain (token, role, rate limit), the checks of the handlers, *)
(* the deadline of the call, the translation of the service's answer into  *)
(* an HTTP status, and the shutdown that waits for requests under way.     *)
(*                                                                         *)
(* Time is counted in ticks; a counter in Redis knows how many ticks it    *)
(* has left.  The endpoints that work on the refresh cookie are in module  *)
(* Sessions.                                                               *)
(***************************************************************************)
EXTENDS Integers, Sequences, FiniteSets, FiniteSetsExt

CONSTANTS
  People, RoleOf,             \* who sends requests, and the role in the token
  Reqs, NoReq,                \* requests that may be under way at once
  LimitOf, Window,            \* requests per bucket and window, ticks per window
  Metered,                    \* bound: the buckets, and whose, that may fill up
  Seats, Keys, NoKey,
  MaxSeatsPerOrder,
  EventRows                   \* how many events there are

ASSUME GatewayConstantsOK ==
  /\ Reqs \subseteq Nat /\ NoReq \notin Reqs
  /\ Metered \subseteq {"orders", "read", "write", "browse"} \X People
  /\ Window \in Nat \ {0} /\ \A k \in Metered : LimitOf[k[1]] \in Nat
  /\ Keys \subseteq Nat /\ NoKey \notin Keys
  /\ MaxSeatsPerOrder \in Nat /\ EventRows \in Nat

VARIABLES
  gw,           \* the process: up, draining or down
  req,          \* the requests under way
  counter,      \* Redis: per bucket and person, the attempts and the ticks left
  passed,       \* history: the attempts let through, by their age in ticks
  faults        \* bound: how many things may still fail

gatewayVars == <<gw, req, counter, passed, faults>>

Fault == faults > 0 /\ faults' = faults - 1

-----------------------------------------------------------------------------
(* Roles and routes.                                                       *)

rank == [user |-> 1, organizer |-> 2, admin |-> 3]

\* An unknown role grants nothing, and so does an unknown minimum.
AtLeast(role, min) ==
  role \in DOMAIN rank /\ min \in DOMAIN rank /\ rank[role] >= rank[min]

\* What stands before the handler of a route.
Policy ==
  [create_order |-> [auth |-> TRUE,  organizer |-> FALSE, bucket |-> "orders"],
   get_order    |-> [auth |-> TRUE,  organizer |-> FALSE, bucket |-> "read"],
   create_event |-> [auth |-> TRUE,  organizer |-> TRUE,  bucket |-> "write"],
   analytics    |-> [auth |-> TRUE,  organizer |-> TRUE,  bucket |-> "read"],
   list_events  |-> [auth |-> FALSE, organizer |-> FALSE, bucket |-> "browse"],
   get_event    |-> [auth |-> FALSE, organizer |-> FALSE, bucket |-> "browse"]]

Routes == DOMAIN Policy

-----------------------------------------------------------------------------
(* Answers.                                                                *)

NoAnswer == [status |-> -1, code |-> "none"]
Dropped == [status |-> 0, code |-> "network"]       \* no answer arrived
Http(status, code) == [status |-> status, code |-> code]

\* httpError: a reason wins over the bare gRPC code.
httpError ==
  [SEATS_UNAVAILABLE      |-> Http(409, "seats_unavailable"),
   PAYMENT_DECLINED       |-> Http(402, "payment_declined"),
   SERVICE_UNAVAILABLE    |-> Http(503, "service_unavailable"),
   REQUEST_IN_PROGRESS    |-> Http(409, "request_in_progress"),
   IDEMPOTENCY_KEY_REUSED |-> Http(422, "idempotency_key_reused"),
   InvalidArgument        |-> Http(400, "invalid_argument"),
   Unauthenticated        |-> Http(401, "unauthenticated"),
   PermissionDenied       |-> Http(403, "permission_denied"),
   NotFound               |-> Http(404, "not_found"),
   AlreadyExists          |-> Http(409, "already_exists"),
   FailedPrecondition     |-> Http(409, "conflict"),
   ResourceExhausted      |-> Http(429, "rate_limited"),
   Unavailable            |-> Http(503, "service_unavailable"),
   DeadlineExceeded       |-> Http(504, "timeout"),
   Canceled               |-> Http(499, "canceled"),
   Internal               |-> Http(500, "internal")]

Unsent == [stage |-> "free", from |-> NoReq, route |-> "none", token |-> FALSE, seats |-> {},
           key |-> NoKey, n |-> 0, rows |-> 0, awaited |-> FALSE, answer |-> NoAnswer, pc |-> "none"]

GatewayInit ==
  /\ gw = "up"
  /\ req = [r \in Reqs |-> Unsent]
  /\ counter = [k \in Metered |-> [count |-> 0, ttl |-> 0]]
  /\ passed = [k \in Metered |-> [age \in 0..(Window - 1) |-> 0]]

\* A request nobody waits for and no service works on any more is gone.
Kept(q) == IF q.stage = "answered" /\ ~q.awaited /\ q.pc = "none" THEN Unsent ELSE q

\* The response is written: the browser gets it if it still waits.
Answer(r, a) == [req EXCEPT ![r] = Kept([@ EXCEPT !.stage = "answered", !.answer = a])]

-----------------------------------------------------------------------------
(* What the handlers accept.                                               *)

\* createOrder accepts 1 to 10 seats.
SeatCountOK(n) == n >= 1 /\ n <= MaxSeatsPerOrder

\* queryLimit: the limit a list asks for; zero stands for none given.
LimitGivenOK(n) == n >= 0

\* validateCreateEvent, in inventory-svc.
maxSeatsPerEvent == 500
validateCreateEvent(n) == n >= 1 /\ n <= maxSeatsPerEvent

\* The default and the ceiling of a list, in inventory-svc and analytics-svc.
clampEventLimit(n) == IF n <= 0 THEN 50 ELSE Min({n, 200})
clampLimit(n) == IF n <= 0 THEN 20 ELSE Min({n, 100})

\* The number of rows that come back; every event has statistics here.
ListEvents(n) == Min({clampEventLimit(n), EventRows})
ListEventStats(n) == Min({clampLimit(n), EventRows})

\* An event's id is its number; below zero stands for what is no UUID.
validateEventID(n) == n >= 0
GetEvent(n) ==
  CASE ~validateEventID(n) -> httpError["InvalidArgument"]
    [] validateEventID(n) /\ n \notin 1..EventRows -> httpError["NotFound"]
    [] OTHER -> Http(200, "ok")

BodyOK(q) ==
  CASE q.route = "create_order" -> SeatCountOK(Cardinality(q.seats))
    [] q.route \in {"analytics", "list_events"} -> LimitGivenOK(q.n)
    [] OTHER -> TRUE

-----------------------------------------------------------------------------
(* The middleware chain.                                                   *)

\* authenticate, then requireRole.
Refusal(q) ==
  CASE Policy[q.route].auth /\ ~q.token -> Http(401, "unauthenticated")
    [] Policy[q.route].organizer /\ ~AtLeast(RoleOf[q.from], "organizer")
         -> Http(403, "permission_denied")
    [] OTHER -> NoAnswer

\* byUser, byIP: one person has one address here.
LimitKey(q) == <<Policy[q.route].bucket, q.from>>

\* Counts beyond the first one over the limit are not told apart.
Counted(k) == Min({counter[k].count + 1, LimitOf[k[1]] + 1})

\* Variant: every attempt sets the expiry anew.
allowScript_Slides(k) == [count |-> Counted(k), ttl |-> Window]

\* allowScript: count the attempt, give a counter without expiry one.
allowScript(k) ==
  [count |-> Counted(k),
   ttl |-> IF counter[k].count = 0 \/ counter[k].ttl < 0 THEN Window ELSE counter[k].ttl]

\* Variant: the attempt after the last allowed one passes too.
WithinLimit_OffByOne(k) == counter[k].count <= LimitOf[k[1]]

\* Allow: int(count) <= limit, where count includes this attempt.
WithinLimit(k) == counter[k].count + 1 <= LimitOf[k[1]]

\* The handler has checked its input and calls the service, or refuses.
Handled(r) ==
  LET q == req[r]
  IN IF BodyOK(q)
     THEN [req EXCEPT ![r].stage = "calling",
                      ![r].pc = IF q.route = "create_order" THEN "insert" ELSE @]
     ELSE Answer(r, Http(400, "invalid_argument"))

\* Outside the instance's metered buckets the attempts stay below the limit.
Serve(r) ==
  LET q == req[r]
      k == LimitKey(q)
  IN /\ q.stage = "sent"
     /\ \/ /\ Refusal(q) # NoAnswer
           /\ req' = Answer(r, Refusal(q))
           /\ UNCHANGED <<counter, passed>>
        \/ /\ Refusal(q) = NoAnswer /\ k \notin Metered
           /\ req' = Handled(r)
           /\ UNCHANGED <<counter, passed>>
        \/ /\ Refusal(q) = NoAnswer /\ k \in Metered
           /\ counter' = [counter EXCEPT ![k] = allowScript(k)]
           /\ IF WithinLimit(k)
              THEN req' = Handled(r) /\ passed' = [passed EXCEPT ![k][0] = @ + 1]
              ELSE req' = Answer(r, Http(429, "rate_limited")) /\ UNCHANGED passed
     /\ UNCHANGED <<gw, faults>>

\* Redis is unreachable: the request is let through.
ServeUnlimited(r) ==
  /\ req[r].stage = "sent" /\ Refusal(req[r]) = NoAnswer /\ LimitKey(req[r]) \in Metered
  /\ Fault
  /\ req' = Handled(r)
  /\ UNCHANGED <<gw, counter, passed>>

\* Redis drops a counter whose time is over.
Tick ==
  /\ counter' = [k \in Metered |->
                   IF counter[k].ttl = 1 THEN [count |-> 0, ttl |-> 0]
                   ELSE [counter[k] EXCEPT !.ttl = IF @ > 0 THEN @ - 1 ELSE @]]
  /\ passed' = [k \in Metered |->
                  [age \in 0..(Window - 1) |-> IF age = 0 THEN 0 ELSE passed[k][age - 1]]]
  /\ UNCHANGED <<gw, req, faults>>

\* A counter is left without expiry.
ExpiryLost(k) ==
  /\ counter[k].ttl > 0
  /\ Fault
  /\ counter' = [counter EXCEPT ![k].ttl = -1]
  /\ UNCHANGED <<gw, req, passed>>

-----------------------------------------------------------------------------
(* The calls to the services.                                              *)

\* fail: the call has failed.
Fails(r, outcome) ==
  /\ req[r].stage = "calling"
  /\ req' = Answer(r, httpError[outcome])
  /\ UNCHANGED <<gw, counter, passed>>

\* Variant: the handler calls with the request's own context.
DeadlinePasses_Never(r) == FALSE /\ UNCHANGED gatewayVars

\* callContext: the deadline passes before the service has answered.
DeadlinePasses(r) == Fails(r, "DeadlineExceeded") /\ UNCHANGED faults

\* The connection to the service breaks, or the handler panics.
CallBreaks(r) == Fails(r, "Unavailable") /\ Fault
HandlerPanics(r) == Fails(r, "Internal") /\ Fault

\* The browser went away, which cancels the request's context.
CallCancelled(r) == ~req[r].awaited /\ Fails(r, "Canceled") /\ UNCHANGED faults

\* createEvent: inventory-svc refuses what it cannot seat.
EventCreated(r) ==
  /\ req[r].stage = "calling" /\ req[r].route = "create_event"
  /\ req' = Answer(r, IF validateCreateEvent(req[r].n) THEN Http(201, "created")
                                                      ELSE httpError["InvalidArgument"])
  /\ UNCHANGED <<gw, counter, passed, faults>>

\* The list is written, with as many rows as the service sent.
AnswerRows(r, rows) ==
  [req EXCEPT ![r] = Kept([@ EXCEPT !.stage = "answered", !.answer = Http(200, "ok"),
                                    !.rows = rows])]

EventsListed(r) ==
  /\ req[r].stage = "calling" /\ req[r].route = "list_events"
  /\ req' = AnswerRows(r, ListEvents(req[r].n))
  /\ UNCHANGED <<gw, counter, passed, faults>>

\* getEvent
EventShown(r) ==
  /\ req[r].stage = "calling" /\ req[r].route = "get_event"
  /\ req' = Answer(r, GetEvent(req[r].n))
  /\ UNCHANGED <<gw, counter, passed, faults>>

\* listAnalytics: the numbers first, then the names; without names they are
\* shown all the same.
StatsListed(r) ==
  /\ req[r].stage = "calling" /\ req[r].route = "analytics"
  /\ req' = [req EXCEPT ![r].stage = "naming", ![r].rows = ListEventStats(req[r].n)]
  /\ UNCHANGED <<gw, counter, passed, faults>>

NamesListed(r) ==
  /\ req[r].stage = "naming"
  /\ req' = AnswerRows(r, req[r].rows)
  /\ UNCHANGED <<gw, counter, passed, faults>>

-----------------------------------------------------------------------------
(* The life of the process.                                                *)

Busy(r) == req[r].stage \in {"sent", "calling", "naming"}

\* Shutdown: no new connections, requests under way are finished.
Drain ==
  /\ gw = "up"
  /\ Fault
  /\ gw' = "draining"
  /\ UNCHANGED <<req, counter, passed>>

Drained ==
  /\ gw = "draining" /\ \A r \in Reqs : ~Busy(r)
  /\ gw' = "down"
  /\ UNCHANGED <<req, counter, passed, faults>>

StartGateway ==
  /\ gw = "down"
  /\ gw' = "up"
  /\ UNCHANGED <<req, counter, passed, faults>>

HandlerStep(r) ==
  \/ Serve(r) \/ DeadlinePasses(r) \/ CallCancelled(r)
  \/ EventCreated(r) \/ EventsListed(r) \/ EventShown(r) \/ StatsListed(r) \/ NamesListed(r)

GatewayFault(r) == ServeUnlimited(r) \/ CallBreaks(r) \/ HandlerPanics(r)

-----------------------------------------------------------------------------
(* Properties.                                                             *)

\* The attempts of the given ages that were let through, one by one.
Through(k, ages) == UNION {{age} \X (1..passed[k][age]) : age \in ages}

(* The known weakness of a fixed window, and no more than it: within any   *)
(* stretch as long as the window at most twice the limit passes, with all  *)
(* requests of a person racing for one counter, counters that expire in    *)
(* between or lose their expiry, and while the limiter can be reached.     *)
BurstBound ==
  \A k \in Metered : Cardinality(Through(k, 0..(Window - 1))) <= 2 * LimitOf[k[1]]
=============================================================================
