------------------------------ MODULE SeatMap ------------------------------
(***************************************************************************)
(* The live seat map: seat events relayed to the seat-events topic, the    *)
(* tail and the hub of realtime-svc, one stream handler per connection,    *)
(* and the page that merges pushes with the seat list it fetches.          *)
(*                                                                         *)
(* A connection is one run of the stream handler.  Its subscription holds  *)
(* a buffered channel; wire is what the handler wrote and the browser has  *)
(* not read, with one update more than the sockets hold while the handler  *)
(* is blocked in the write of it.  A fetch of the seat list is asked, read by inventory-svc,    *)
(* and done, so that pushes and changes may fall between any two of these. *)
(***************************************************************************)
EXTENDS Integers, Sequences, FiniteSets, FiniteSetsExt

CONSTANTS
  Seats, EventOf,             \* the seats and the event of each
  Browsers, Watches,          \* the pages and the event each one shows
  Conns, NoConn,              \* connections the server may have at once
  MaxSubscribers, SubscriberBuffer,
  WireCap,                    \* updates the sockets hold before a write blocks
  MaxChanges, MaxFaults       \* bounds: seat changes; cuts, crashes, page exits, and
                              \* rows published again or not in the order of commits

ASSUME SeatMapConstantsOK ==
  /\ Conns \subseteq Nat /\ IsFiniteSet(Conns) /\ NoConn \notin Conns
  /\ \A b \in Browsers : \E s \in Seats : Watches[b] = EventOf[s]
  /\ MaxSubscribers \in Nat /\ SubscriberBuffer \in Nat \ {0}
  /\ WireCap \in Nat \ {0} /\ MaxChanges \in Nat /\ MaxFaults \in Nat

VARIABLES
  db,           \* seats.status
  log,          \* the outbox rows of seat events, in the order they were written
  unsent,       \* the rows no publisher has written to the topic
  topic,        \* seat-events: its one partition
  disordered,   \* history: a row was published twice or out of order
  server,       \* realtime-svc: up, signalled, failed (the tail ended) or down
  tail,         \* messages before the tail's position; -1 until it has one
  hub,          \* closed, count
  conn,         \* per connection, its handler and subscription
  tab,          \* per browser, its EventSource and its query cache
  faults

seatVars == <<db, log, unsent, topic, disordered>>
serverVars == <<server, tail>>
mapVars == <<seatVars, serverVars, hub, conn, tab, faults>>

Statuses == {"AVAILABLE", "HELD", "SOLD"}
Names == {"available", "held", "sold", "unknown"}

\* The column's value as inventory-svc sends it.
toProtoStatus(status) == IF status \in Statuses THEN status ELSE "UNSPECIFIED"

\* The words a fetched seat list uses.
seatStatusName(status) ==
  CASE status = "AVAILABLE" -> "available"
    [] status = "HELD" -> "held"
    [] status = "SOLD" -> "sold"
    [] OTHER -> "unknown"

\* The words a pushed update uses.
SeatStateName(state) ==
  CASE state = "AVAILABLE" -> "available"
    [] state = "HELD" -> "held"
    [] state = "SOLD" -> "sold"
    [] OTHER -> "unknown"

Update == [seat : Seats, state : Names]

ShownSeats(b) == {s \in Seats : EventOf[s] = Watches[b]}

Idle == [phase |-> "free", viewer |-> NoConn, subbed |-> FALSE, open |-> FALSE,
         hello |-> FALSE, buf |-> <<>>, wire |-> <<>>]

ConnOK(c) ==
  /\ conn[c].phase \in {"free", "accepted", "serving", "ended"}
  /\ conn[c].viewer \in Browsers \cup {NoConn}
  /\ conn[c].subbed \in BOOLEAN /\ conn[c].open \in BOOLEAN /\ conn[c].hello \in BOOLEAN
  /\ conn[c].buf \in Seq(Update) /\ Len(conn[c].buf) <= SubscriberBuffer
  /\ conn[c].wire \in Seq(Update) /\ Len(conn[c].wire) <= WireCap + 1

TabOK(b) ==
  /\ tab[b].page \in {"away", "connecting", "requested", "open", "waiting"}
  /\ tab[b].link \in Conns \cup {NoConn}
  /\ tab[b].link # NoConn <=> tab[b].page \in {"requested", "open"}
  /\ tab[b].link # NoConn => /\ conn[tab[b].link].viewer = b
                             /\ conn[tab[b].link].phase # "free"
  /\ tab[b].map \in [ShownSeats(b) -> Names] /\ tab[b].snap \in [ShownSeats(b) -> Names]
  /\ tab[b].fetch \in {"idle", "asked", "read"}
  /\ tab[b].loaded \in BOOLEAN /\ tab[b].clean \in BOOLEAN /\ tab[b].sound \in BOOLEAN

(* Types and limits.  A subscription never queues more than its buffer, no *)
(* page reads from a connection that was given to another one, and a page  *)
(* has a connection exactly while its EventSource waits for or reads one.  *)
SeatMapTypeOK ==
  /\ db \in [Seats -> Statuses]
  /\ Len(log) <= MaxChanges /\ \A i \in DOMAIN log : log[i] \in [seat : Seats, state : Statuses]
  /\ unsent \subseteq DOMAIN log
  /\ \A i \in DOMAIN topic : topic[i] \in DOMAIN log
  /\ disordered \in BOOLEAN
  /\ server \in {"up", "signalled", "failed", "down"}
  /\ tail \in -1..Len(topic)
  /\ hub.closed \in BOOLEAN /\ hub.count \in Int
  /\ \A c \in Conns : ConnOK(c)
  /\ \A b \in Browsers : TabOK(b)
  /\ faults \in 0..MaxFaults

SeatMapInit ==
  /\ db = [s \in Seats |-> "AVAILABLE"]
  /\ log = <<>> /\ unsent = {} /\ topic = <<>> /\ disordered = FALSE
  /\ server = "up" /\ tail = -1
  /\ hub = [closed |-> FALSE, count |-> 0]
  /\ conn = [c \in Conns |-> Idle]
  /\ tab = [b \in Browsers |->
              [page |-> "away", link |-> NoConn, loaded |-> FALSE,
               map |-> [s \in ShownSeats(b) |-> "unknown"], fetch |-> "idle",
               snap |-> [s \in ShownSeats(b) |-> "unknown"],
               clean |-> FALSE, sound |-> FALSE]]
  /\ faults = 0

Fault == faults < MaxFaults /\ faults' = faults + 1

-----------------------------------------------------------------------------
(* inventory-svc and its outbox publisher.                                 *)

\* A transaction of inventory-svc moves a seat and emits the event with it.
ChangeSeat(s, status) ==
  /\ Len(log) < MaxChanges
  /\ <<db[s], status>> \in {<<"AVAILABLE", "HELD">>, <<"HELD", "SOLD">>, <<"HELD", "AVAILABLE">>}
  /\ db' = [db EXCEPT ![s] = status]
  /\ log' = Append(log, [seat |-> s, state |-> status])
  /\ unsent' = unsent \cup {Len(log) + 1}
  /\ UNCHANGED <<topic, disordered, serverVars, hub, conn, tab, faults>>

\* The publisher takes the row that was committed first.
Relay ==
  /\ unsent # {}
  /\ topic' = Append(topic, Min(unsent))
  /\ unsent' = unsent \ {Min(unsent)}
  /\ UNCHANGED <<db, log, disordered, serverVars, hub, conn, tab, faults>>

\* Rows are taken by created_at, the time their transaction began, which without any
\* fault need not be the order of the commits; another replica may have the older row
\* locked, or have published this one and died before marking it.  How often any of
\* this happens is bounded together with the faults.
RelayDisordered(i) ==
  /\ i \in DOMAIN log /\ i # Min(unsent \cup {Len(log) + 1})
  /\ Fault
  /\ topic' = Append(topic, i)
  /\ unsent' = unsent \ {i}
  /\ disordered' = TRUE
  /\ UNCHANGED <<db, log, serverVars, hub, conn, tab>>

-----------------------------------------------------------------------------
(* The hub.                                                                *)

\* The subscriptions of S that remove finds: one removed before is skipped.
Registered_Unchecked(S) == S
Registered(S) == {c \in S : conn[c].subbed}

Unsubscribed(r) == [r EXCEPT !.subbed = FALSE, !.open = FALSE]

Freed(n) == [hub EXCEPT !.count = @ - n]

\* Subscribe, called by the handler of a connection whose request was accepted.
Refused == hub.closed \/ hub.count >= MaxSubscribers

\* Whether the browser still has the connection.
Alive(c) == conn[c].phase # "free" /\ tab[conn[c].viewer].link = c

Subscribe(c) ==
  /\ conn[c].phase = "accepted"
  /\ IF Refused
     THEN /\ conn' = [conn EXCEPT ![c] = Idle]
          /\ tab' = IF Alive(c)
                    THEN [tab EXCEPT ![conn[c].viewer].page = "waiting",
                                     ![conn[c].viewer].link = NoConn]
                    ELSE tab
          /\ UNCHANGED hub
     ELSE /\ conn' = [conn EXCEPT ![c].phase = "serving", ![c].subbed = TRUE,
                                  ![c].open = TRUE, ![c].hello = TRUE]
          /\ hub' = [hub EXCEPT !.count = @ + 1]
          /\ UNCHANGED tab
  /\ UNCHANGED <<seatVars, serverVars, faults>>

\* The handler is in a write, which has no deadline and does not see the context.
Blocked(c) == Alive(c) /\ Len(conn[c].wire) > WireCap

\* What the browser can still get of a stream whose last write was cut short.
Written(wire) == IF Len(wire) > WireCap THEN SubSeq(wire, 1, WireCap) ELSE wire

\* Publish: queue the update for every watcher with room, cut the others off.
Watchers(e) == {c \in Conns : conn[c].subbed /\ Watches[conn[c].viewer] = e}
Slow_OffByOne(S) == {c \in S : Len(conn[c].buf) > SubscriberBuffer}
Slow(S) == {c \in S : Len(conn[c].buf) >= SubscriberBuffer}

Publish_Drops(e, u) ==
  /\ conn' = [c \in Conns |-> IF c \in Watchers(e) \ Slow(Watchers(e))
                              THEN [conn[c] EXCEPT !.buf = Append(@, u)] ELSE conn[c]]
  /\ UNCHANGED hub
Publish(e, u) ==
  LET slow == Registered(Slow(Watchers(e)))
  IN /\ conn' = [c \in Conns |->
                   CASE c \in slow -> Unsubscribed(conn[c])
                     [] c \in Watchers(e) \ slow -> [conn[c] EXCEPT !.buf = Append(@, u)]
                     [] OTHER -> conn[c]]
     /\ hub' = Freed(Cardinality(slow))

\* Close, run by the HTTP server's Shutdown.
CloseHub_KeepsStreams ==
  /\ server \in {"signalled", "failed"} /\ ~hub.closed
  /\ hub' = [hub EXCEPT !.closed = TRUE]
  /\ UNCHANGED <<seatVars, serverVars, conn, tab, faults>>
CloseHub ==
  LET all == Registered(Conns)
  IN /\ server \in {"signalled", "failed"} /\ ~hub.closed
     /\ hub' = [closed |-> TRUE, count |-> hub.count - Cardinality(all)]
     /\ conn' = [c \in Conns |-> IF c \in all THEN Unsubscribed(conn[c]) ELSE conn[c]]
     /\ UNCHANGED <<seatVars, serverVars, tab, faults>>

-----------------------------------------------------------------------------
(* realtime-svc: the tail of the topic and the life of the process.        *)

\* The reader asks the broker for the newest offset when it first connects.
TailStarts ==
  /\ server = "up" /\ tail = -1
  /\ tail' = Len(topic)
  /\ UNCHANGED <<seatVars, server, hub, conn, tab, faults>>

\* The feed's handler: the update a message carries goes to the hub.
Feed(row) ==
  Publish(EventOf[row.seat], [seat |-> row.seat, state |-> SeatStateName(row.state)])

\* A message is handled on the reading goroutine.
TailReads ==
  /\ server = "up" /\ tail >= 0 /\ tail < Len(topic)
  /\ Feed(log[topic[tail + 1]])
  /\ tail' = tail + 1
  /\ UNCHANGED <<seatVars, server, tab, faults>>

\* A signal cancels every request's context; a failed tail only the group's.
StopServer(why) ==
  /\ server = "up" /\ why \in {"signalled", "failed"}
  /\ Fault
  /\ server' = why
  /\ UNCHANGED <<seatVars, tail, hub, conn, tab>>

\* Shutdown returns once no request is being handled.
ServerExits ==
  /\ server \in {"signalled", "failed"}
  /\ \A c \in Conns : conn[c].phase \in {"free", "ended"}
  /\ server' = "down" /\ tail' = -1
  /\ UNCHANGED <<seatVars, hub, conn, tab, faults>>

\* The ten seconds pass, or the process dies: its connections end as they are.
ServerDies ==
  /\ server # "down"
  /\ Fault
  /\ server' = "down" /\ tail' = -1
  /\ conn' = [c \in Conns |-> IF Alive(c) THEN [Unsubscribed(conn[c]) EXCEPT !.phase = "ended",
                                                                             !.wire = Written(@)]
                                          ELSE Idle]
  /\ UNCHANGED <<seatVars, hub, tab>>

StartServer ==
  /\ server = "down"
  /\ server' = "up" /\ tail' = -1
  /\ hub' = [closed |-> FALSE, count |-> 0]
  /\ UNCHANGED <<seatVars, conn, tab, faults>>

-----------------------------------------------------------------------------
(* The stream handler.                                                     *)

\* The handler returns, and its deferred Close removes the subscription.
Return(c) ==
  /\ conn' = [conn EXCEPT ![c] = IF Alive(c) THEN [Unsubscribed(@) EXCEPT !.phase = "ended",
                                                                          !.buf = <<>>]
                                             ELSE Idle]
  /\ hub' = Freed(Cardinality(Registered({c})))
  /\ UNCHANGED <<seatVars, serverVars, tab, faults>>

WriteUpdate(c) ==
  /\ conn[c].phase = "serving" /\ Alive(c) /\ ~Blocked(c)
  /\ conn[c].buf # <<>>
  /\ conn' = [conn EXCEPT ![c].wire = Append(@, Head(conn[c].buf)), ![c].buf = Tail(@)]
  /\ UNCHANGED <<seatVars, serverVars, hub, tab, faults>>

\* A closed channel still yields what was queued before it says it is closed.
StreamCut(c) ==
  /\ conn[c].phase = "serving" /\ ~Blocked(c) /\ ~conn[c].open /\ conn[c].buf = <<>>
  /\ Return(c)

\* The request's context is done, or a write or a heartbeat fails.
ClientGone_Never(c) ==
  /\ conn[c].phase = "serving" /\ server = "signalled" /\ ~Blocked(c)
  /\ Return(c)
ClientGone(c) ==
  /\ conn[c].phase = "serving"
  /\ ~Alive(c) \/ (server = "signalled" /\ ~Blocked(c))
  /\ Return(c)

Handler(c) == Subscribe(c) \/ WriteUpdate(c) \/ StreamCut(c) \/ ClientGone(c)

-----------------------------------------------------------------------------
(* The page: useSeatStream and the seats query.                            *)

\* No answer to a fetch is on its way any more.
Emptied(t, fetch) == [t EXCEPT !.fetch = fetch, !.snap = [s \in DOMAIN t.map |-> "unknown"]]

\* A fetch is clean when it starts while the stream delivers.
Asked(t) == [Emptied(t, "asked") EXCEPT !.clean = t.page = "open" /\ tail >= 0]

\* invalidateQueries restarts a fetch under way, unless the query has no data
\* yet: then it joins the fetch.
Invalidated(t) == IF t.loaded \/ t.fetch = "idle" THEN Asked(t) ELSE t

\* A timer, a mount and a refetch join a fetch under way.
Refetched_Never(t) == t
Refetched(t) == IF t.fetch = "idle" THEN Asked(t) ELSE t

\* The connection is gone, with whatever was still to be read from it.
Unlinked(t, page) == [t EXCEPT !.page = page, !.link = NoConn, !.clean = FALSE, !.sound = FALSE]

HungUp(b) ==
  LET c == tab[b].link
  IN IF c # NoConn /\ conn[c].phase = "ended" THEN [conn EXCEPT ![c] = Idle] ELSE conn

OpenPage(b) ==
  /\ tab[b].page = "away"
  /\ tab' = [tab EXCEPT ![b] = Refetched([@ EXCEPT !.page = "connecting"])]
  /\ UNCHANGED <<seatVars, serverVars, hub, conn, faults>>

\* The effect's cleanup closes the stream; the query cache outlives the page.
LeavePage(b) ==
  /\ tab[b].page # "away"
  /\ Fault
  /\ tab' = [tab EXCEPT ![b] = Unlinked(@, "away")]
  /\ conn' = HungUp(b)
  /\ UNCHANGED <<seatVars, serverVars, hub>>

Connect(b) ==
  LET free == {c \in Conns : conn[c].phase = "free"}
  IN /\ tab[b].page = "connecting" /\ server = "up" /\ free # {}
     /\ tab' = [tab EXCEPT ![b].page = "requested", ![b].link = Min(free)]
     /\ conn' = [conn EXCEPT ![Min(free)] = [Idle EXCEPT !.phase = "accepted", !.viewer = b]]
     /\ UNCHANGED <<seatVars, serverVars, hub, faults>>

\* onopen
StreamOpens(b) ==
  /\ tab[b].page = "requested" /\ conn[tab[b].link].hello
  /\ tab' = [tab EXCEPT ![b] = Invalidated([@ EXCEPT !.page = "open"])]
  /\ conn' = [conn EXCEPT ![tab[b].link].hello = FALSE]
  /\ UNCHANGED <<seatVars, serverVars, hub, faults>>

\* applyUpdate: a list that is not there, or has no such seat, stays as it is.
applyUpdate(t, u) ==
  IF t.loaded /\ u.seat \in DOMAIN t.map THEN [t.map EXCEPT ![u.seat] = u.state] ELSE t.map

\* parseUpdate accepts the three known words only.
parseUpdate(u) == u.state \in {"available", "held", "sold"}

\* A push while a fetched list is on its way is about to be overwritten by it.
SeatsPushed(b) ==
  /\ tab[b].page = "open" /\ conn[tab[b].link].wire # <<>>
  /\ LET u == Head(conn[tab[b].link].wire)
     IN tab' = IF parseUpdate(u)
               THEN [tab EXCEPT ![b].map = applyUpdate(tab[b], u),
                                ![b].clean = @ /\ tab[b].fetch # "read"]
               ELSE tab
  /\ conn' = [conn EXCEPT ![tab[b].link].wire = Tail(@)]
  /\ UNCHANGED <<seatVars, serverVars, hub, faults>>

\* The response ends: the browser reconnects by itself.
StreamEnds(b) ==
  /\ tab[b].page \in {"requested", "open"}
  /\ LET r == conn[tab[b].link] IN r.phase = "ended" /\ ~r.hello /\ r.wire = <<>>
  /\ tab' = [tab EXCEPT ![b] = Unlinked(@, "connecting")]
  /\ conn' = HungUp(b)
  /\ UNCHANGED <<seatVars, serverVars, hub, faults>>

\* The network drops the connection; the server finds out later.
StreamBreaks(b) ==
  /\ tab[b].page \in {"requested", "open"}
  /\ Fault
  /\ tab' = [tab EXCEPT ![b] = Unlinked(@, "connecting")]
  /\ conn' = HungUp(b)
  /\ UNCHANGED <<seatVars, serverVars, hub>>

\* onerror with the EventSource CLOSED: the timer connects again.
Reconnect(b) ==
  /\ tab[b].page = "waiting"
  /\ tab' = [tab EXCEPT ![b].page = "connecting"]
  /\ UNCHANGED <<seatVars, serverVars, hub, conn, faults>>

\* refetchInterval
Poll(b) ==
  /\ tab[b].page # "away" /\ tab[b].fetch = "idle"
  /\ tab' = [tab EXCEPT ![b] = Refetched(@)]
  /\ UNCHANGED <<seatVars, serverVars, hub, conn, faults>>

ListSeats(b) ==
  /\ tab[b].fetch = "asked"
  /\ tab' = [tab EXCEPT ![b].fetch = "read",
                        ![b].snap = [s \in ShownSeats(b) |-> seatStatusName(toProtoStatus(db[s]))]]
  /\ UNCHANGED <<seatVars, serverVars, hub, conn, faults>>

SeatsFetched(b) ==
  /\ tab[b].fetch = "read"
  /\ tab' = [tab EXCEPT ![b] = Emptied([@ EXCEPT !.loaded = TRUE, !.map = tab[b].snap,
                                                          !.sound = tab[b].clean], "idle")]
  /\ UNCHANGED <<seatVars, serverVars, hub, conn, faults>>

\* A failed fetch is retried twice before the query gives up.
FetchFails(b, next) ==
  /\ tab[b].fetch = "read"
  /\ Fault
  /\ next \in {"asked", "idle"}
  /\ tab' = [tab EXCEPT ![b] = Emptied(@, next)]
  /\ UNCHANGED <<seatVars, serverVars, hub, conn>>

EventSource(b) ==
  Connect(b) \/ StreamOpens(b) \/ SeatsPushed(b) \/ StreamEnds(b) \/ Reconnect(b)

Fetching(b) == Poll(b) \/ ListSeats(b) \/ SeatsFetched(b)

-----------------------------------------------------------------------------
Service == Relay \/ TailStarts \/ TailReads \/ CloseHub \/ ServerExits \/ StartServer

SeatMapNext ==
  \/ Service
  \/ \E s \in Seats, status \in Statuses : ChangeSeat(s, status)
  \/ \E i \in 1..MaxChanges : RelayDisordered(i)
  \/ \E why \in {"signalled", "failed"} : StopServer(why)
  \/ ServerDies
  \/ \E c \in Conns : Handler(c)
  \/ \E b \in Browsers :
       \/ EventSource(b) \/ Fetching(b)
       \/ OpenPage(b) \/ LeavePage(b) \/ StreamBreaks(b)
       \/ \E next \in {"asked", "idle"} : FetchFails(b, next)

\* The processes run, timers fire, and a process that is down is restarted.
\* Nothing makes seats change, pages open or faults happen.
SeatMapSpec ==
  /\ SeatMapInit /\ [][SeatMapNext]_mapVars
  /\ WF_mapVars(Service)
  /\ \A c \in Conns : WF_mapVars(Handler(c))
  /\ \A b \in Browsers : WF_mapVars(EventSource(b)) /\ WF_mapVars(Fetching(b))

-----------------------------------------------------------------------------
(* Properties.                                                             *)

(* The hub's bookkeeping survives every order of slow readers, leaving     *)
(* browsers and shutdown: the count is the number of registered            *)
(* subscriptions and within the limit, a channel is open exactly while its *)
(* subscription is registered, so that no update is sent on a closed       *)
(* channel and none is closed twice, and a closed hub has no subscription. *)
HubIsConsistent ==
  server # "down" =>
    /\ hub.count = Cardinality({c \in Conns : conn[c].subbed})
    /\ hub.count \in 0..MaxSubscribers
    /\ \A c \in Conns : conn[c].open <=> conn[c].subbed
    /\ \A c \in Conns : conn[c].subbed => conn[c].phase = "serving"
    /\ hub.closed => \A c \in Conns : ~conn[c].subbed

\* Every change has come down the stream of b to its end.
Delivered(b) ==
  /\ unsent = {} /\ server = "up" /\ tail = Len(topic)
  /\ tab[b].page = "open"
  /\ conn[tab[b].link].open /\ conn[tab[b].link].buf = <<>> /\ conn[tab[b].link].wire = <<>>

MapIsRight(b) == tab[b].loaded /\ tab[b].map = [s \in ShownSeats(b) |-> seatStatusName(toProtoStatus(db[s]))]

(* What the refetch on connect is for.  Once a seat list asked for after   *)
(* the stream opened (and after the tail found its position) has come in   *)
(* with no push between its read and its arrival, pushes alone keep the    *)
(* map right: whenever everything published has been delivered, the page   *)
(* shows the seats as the database has them, however slow readers were cut *)
(* off and whatever was fetched before.                                    *)
StreamedMapIsRight ==
  \A b \in Browsers : tab[b].sound /\ ~disordered /\ Delivered(b) => MapIsRight(b)

(* The safety net.  Whatever was lost, repeated, reordered or overwritten, *)
(* and even if the stream never opens, an open page ends up showing the    *)
(* seats as they are once they stop changing.                              *)
MapSettles == <>[](\A b \in Browsers : tab[b].page # "away" => MapIsRight(b))

(* A page that was cut off, refused or disconnected gets a stream again    *)
(* when the hub has room for all pages: the slots of connections nobody    *)
(* reads any more are freed.                                               *)
EveryViewerGetsThrough ==
  Cardinality(Browsers) <= MaxSubscribers =>
    \A b \in Browsers : []<>(tab[b].page \in {"open", "away"})

(* Shutting down needs no timeout: closing the hub ends the streams, which *)
(* would otherwise stay open, and the process exits.                       *)
ShutdownCompletes == server \in {"signalled", "failed"} ~> server = "down"
=============================================================================
