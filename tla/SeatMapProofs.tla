--------------------------- MODULE SeatMapProofs ---------------------------
(* Theorems about the live seat map, for any seats, events, pages, connections, *)
(* buffer sizes, and any number of changes and faults.                          *)
EXTENDS SeatMap, FiniteSetTheorems, SequenceTheorems, TLAPS

Row == [seat : Seats, state : Statuses]

ConnRec ==
  [phase : {"free", "accepted", "serving", "ended"}, viewer : Browsers \cup {NoConn},
   subbed : BOOLEAN, open : BOOLEAN, hello : BOOLEAN, buf : Seq(Update), wire : Seq(Update)]

TabRec(b) ==
  [page : {"away", "connecting", "requested", "open", "waiting"}, link : Conns \cup {NoConn},
   loaded : BOOLEAN, map : [ShownSeats(b) -> Names], fetch : {"idle", "asked", "read"},
   snap : [ShownSeats(b) -> Names], clean : BOOLEAN, sound : BOOLEAN]

SeatTypes ==
  /\ db \in [Seats -> Statuses]
  /\ log \in Seq(Row) /\ Len(log) <= MaxChanges
  /\ unsent \subseteq 1..Len(log)
  /\ topic \in Seq(Nat) /\ \A i \in 1..Len(topic) : topic[i] \in 1..Len(log)
  /\ disordered \in BOOLEAN

ServerTypes ==
  /\ server \in {"up", "signalled", "failed", "down"}
  /\ tail \in -1..Len(topic)
  /\ hub \in [closed : BOOLEAN, count : Int]
  /\ faults \in 0..MaxFaults

ConnTypes == conn \in [Conns -> ConnRec]
TabTypes == DOMAIN tab = Browsers /\ \A b \in Browsers : tab[b] \in TabRec(b)

MapTypes == SeatTypes /\ ServerTypes /\ ConnTypes /\ TabTypes

-----------------------------------------------------------------------------
(* The invariants.                                                         *)

\* The words for the three states.
Known == {"available", "held", "sold"}

\* A connection's buffers keep their limits, its subscription lives while its handler
\* serves and the hub is open, and nothing was queued before the tail has a position.
ConnInv(c) ==
  /\ Len(conn[c].buf) <= SubscriberBuffer /\ Len(conn[c].wire) <= WireCap + 1
  /\ conn[c].phase = "free" => conn[c] = Idle
  /\ conn[c].phase # "free" => conn[c].viewer \in Browsers
  /\ conn[c].phase = "accepted" => ~conn[c].hello /\ conn[c].buf = <<>> /\ conn[c].wire = <<>>
  /\ conn[c].open <=> conn[c].subbed
  /\ conn[c].subbed => conn[c].phase = "serving" /\ ~hub.closed
  /\ server = "down" => conn[c].phase \in {"free", "ended"}
  /\ tail = -1 /\ conn[c].open => conn[c].buf = <<>> /\ conn[c].wire = <<>>
  /\ \A i \in 1..Len(conn[c].buf) : conn[c].buf[i].state \in Known
  /\ \A i \in 1..Len(conn[c].wire) : conn[c].wire[i].state \in Known

\* A page has a connection of its own exactly while it waits for or reads one, and it
\* trusts its list only while the stream it was fetched under lasts.
LinkInv(b) ==
  /\ tab[b].link # NoConn <=> tab[b].page \in {"requested", "open"}
  /\ tab[b].link # NoConn => conn[tab[b].link].viewer = b /\ conn[tab[b].link].phase # "free"
  /\ tab[b].page = "open" => conn[tab[b].link].phase # "accepted"
  /\ tab[b].clean \/ tab[b].sound =>
       tab[b].page = "open" /\ (conn[tab[b].link].open => tail >= 0)
  /\ tab[b].sound => tab[b].loaded

Subscribed == {c \in Conns : conn[c].subbed}

CountInv ==
  server # "down" => hub.count = Cardinality(Subscribed) /\ hub.count <= MaxSubscribers

Name(s) == seatStatusName(toProtoStatus(db[s]))

\* The last row of a seat tells its present status.
LogInv ==
  \A i \in 1..Len(log) :
    (\A j \in 1..Len(log) : j > i => log[j].seat # log[i].seat) => log[i].state = db[log[i].seat]

\* Without a fault the topic is the log as far as it was relayed.
OrderInv ==
  ~disordered => /\ \A i \in 1..Len(topic) : topic[i] = i
                 /\ unsent = (Len(topic) + 1)..Len(log)

\* A change of seat s that the tail has not read; that is queued in q; whose last one in q
\* says n.
Late(s) == \E i \in 1..Len(log) : i > tail /\ log[i].seat = s
Has(q, s) == \E i \in 1..Len(q) : q[i].seat = s
EndsWith(q, s, n) ==
  \A i \in 1..Len(q) : q[i].seat = s /\ (\A j \in 1..Len(q) : j > i => q[j].seat # s)
                          => q[i].state = n
Pending(c, s) == Late(s) \/ Has(conn[c].buf, s) \/ Has(conn[c].wire, s)

\* What comes last down an open stream about a seat is its present status.
FlowInv(c) ==
  ~disordered /\ conn[c].open =>
    \A s \in Seats : EventOf[s] = Watches[conn[c].viewer] /\ ~Late(s) =>
      /\ EndsWith(conn[c].buf, s, Name(s))
      /\ ~Has(conn[c].buf, s) => EndsWith(conn[c].wire, s, Name(s))

\* A list that no push has crossed is right about every seat for which nothing is to come.
FreshInv(b) ==
  ~disordered /\ tab[b].page = "open" /\ conn[tab[b].link].open =>
    \A s \in ShownSeats(b) :
      /\ tab[b].sound => tab[b].map[s] = Name(s) \/ Pending(tab[b].link, s)
      /\ tab[b].clean /\ tab[b].fetch = "read" =>
           tab[b].snap[s] = Name(s) \/ Pending(tab[b].link, s)

PlaceInv == (\A c \in Conns : ConnInv(c)) /\ (\A b \in Browsers : LinkInv(b)) /\ CountInv
DataInv == /\ LogInv /\ OrderInv
           /\ \A c \in Conns : FlowInv(c)
           /\ \A b \in Browsers : FreshInv(b)

-----------------------------------------------------------------------------
(* Sets of numbers, sequences and names.                                   *)

\* Min picks the least element.
LEMMA MinFact ==
  ASSUME NEW S \in SUBSET Nat, S # {}
  PROVE  Min(S) \in S /\ \A y \in S : Min(S) <= y
<1>1. PICK x \in S : \A y \in S : ~(<<y, x>> \in OpToRel(<, Nat))
  BY WFMin, NatLessThanWellFounded, Zenon
<1>2. \A y \in S : x <= y
  <2> TAKE y \in S
  <2>1. ~(y < x)
    BY <1>1, Zenon DEF OpToRel
  <2>2. QED
    BY <2>1
<1>3. \E z \in S : \A y \in S : z =< y
  BY <1>2, Zenon
<1>4. QED
  BY <1>3, Zenon DEF Min

\* An update queued at the end.
LEMMA QueueEnd ==
  ASSUME NEW q \in Seq(Update), NEW u \in Update, NEW s, NEW n
  PROVE  /\ Append(q, u) \in Seq(Update) /\ Len(Append(q, u)) = Len(q) + 1
         /\ Has(Append(q, u), s) <=> Has(q, s) \/ u.seat = s
         /\ u.seat = s /\ u.state = n => EndsWith(Append(q, u), s, n)
         /\ u.seat # s /\ EndsWith(q, s, n) => EndsWith(Append(q, u), s, n)
<1>1. /\ Append(q, u) \in Seq(Update) /\ Len(Append(q, u)) = Len(q) + 1 /\ Len(q) \in Nat
      /\ \A i \in 1..Len(q) : Append(q, u)[i] = q[i]
      /\ Append(q, u)[Len(q) + 1] = u
  OBVIOUS
<1>2. \A i \in 1..(Len(q) + 1) : i \in 1..Len(q) \/ i = Len(q) + 1
  BY <1>1
<1>3. \A i \in 1..Len(q) : i \in 1..(Len(q) + 1) /\ i < Len(q) + 1
  BY <1>1
<1>4. Len(q) + 1 \in 1..(Len(q) + 1)
  BY <1>1
<1>5. Has(Append(q, u), s) <=> Has(q, s) \/ u.seat = s
  BY <1>1, <1>2, <1>3, <1>4, Zenon DEF Has
<1>6. ASSUME u.seat = s, u.state = n PROVE EndsWith(Append(q, u), s, n)
  BY <1>1, <1>2, <1>3, <1>4, <1>6, Zenon DEF EndsWith
<1>7. ASSUME u.seat # s, EndsWith(q, s, n) PROVE EndsWith(Append(q, u), s, n)
  BY <1>1, <1>2, <1>3, <1>4, <1>7, Zenon DEF EndsWith
<1>8. QED
  BY <1>1, <1>5, <1>6, <1>7, Zenon

\* An update taken from the front.
LEMMA QueueFront ==
  ASSUME NEW q \in Seq(Update), q # <<>>, NEW s, NEW n
  PROVE  /\ Tail(q) \in Seq(Update) /\ Len(Tail(q)) = Len(q) - 1 /\ Head(q) \in Update
         /\ Len(q) > 0 /\ Head(q) = q[1]
         /\ Has(q, s) <=> Head(q).seat = s \/ Has(Tail(q), s)
         /\ EndsWith(q, s, n) => EndsWith(Tail(q), s, n)
         /\ EndsWith(q, s, n) /\ Head(q).seat = s /\ ~Has(Tail(q), s) => Head(q).state = n
<1>1. /\ Tail(q) \in Seq(Update) /\ Len(Tail(q)) = Len(q) - 1 /\ Len(q) \in Nat /\ Len(q) > 0
      /\ Head(q) = q[1] /\ q[1] \in Update
      /\ \A i \in 1..(Len(q) - 1) : Tail(q)[i] = q[i + 1]
  BY HeadTailProperties, ElementOfSeq
<1>2. \A i \in 1..Len(q) : i = 1 \/ (i - 1 \in 1..(Len(q) - 1) /\ Tail(q)[i - 1] = q[i])
  BY <1>1
<1>3. \A i \in 1..(Len(q) - 1) : i + 1 \in 1..Len(q)
  BY <1>1
<1>4. Has(q, s) <=> Head(q).seat = s \/ Has(Tail(q), s)
  BY <1>1, <1>2, <1>3 DEF Has
<1>5. ASSUME EndsWith(q, s, n) PROVE EndsWith(Tail(q), s, n)
  <2>1. SUFFICES ASSUME NEW i \in 1..(Len(q) - 1), Tail(q)[i].seat = s,
                        \A j \in 1..(Len(q) - 1) : j > i => Tail(q)[j].seat # s
                 PROVE  Tail(q)[i].state = n
    BY <1>1, Zenon DEF EndsWith
  <2>2. i + 1 \in 1..Len(q) /\ q[i + 1] = Tail(q)[i]
    BY <1>1, <1>3, Zenon
  <2>3. \A j \in 1..Len(q) : j > i + 1 => q[j].seat # s
    <3> TAKE j \in 1..Len(q)
    <3> HAVE j > i + 1
    <3>1. j - 1 \in 1..(Len(q) - 1) /\ j - 1 > i /\ Tail(q)[j - 1] = q[j]
      BY <1>1, <1>2, <2>1
    <3>2. QED
      BY <2>1, <3>1, Zenon
  <2>4. QED
    BY <1>5, <2>1, <2>2, <2>3, Zenon DEF EndsWith
<1>6. ASSUME EndsWith(q, s, n), Head(q).seat = s, ~Has(Tail(q), s) PROVE Head(q).state = n
  <2>1. \A j \in 1..Len(q) : j > 1 => q[j].seat # s
    BY <1>1, <1>2, <1>6, SMTT(30) DEF Has
  <2>2. QED
    BY <1>1, <1>6, <2>1 DEF EndsWith
<1>7. QED
  BY <1>1, <1>4, <1>5, <1>6, Zenon

\* Nothing is queued in an empty queue.
LEMMA QueueEmpty ==
  ASSUME NEW s, NEW n
  PROVE  ~Has(<<>>, s) /\ EndsWith(<<>>, s, n)
  BY DEF Has, EndsWith

\* A fetched list and a pushed update use the same word for a status of the table.
LEMMA NamesAgree ==
  ASSUME NEW st \in Statuses
  PROVE  seatStatusName(toProtoStatus(st)) = SeatStateName(st) /\ SeatStateName(st) \in Known
  BY Zenon DEF Statuses, seatStatusName, toProtoStatus, SeatStateName, Known

-----------------------------------------------------------------------------
(* What the code does to one connection and to one page, field by field.   *)

IsCut(q, r) ==
  /\ q.phase = r.phase /\ q.viewer = r.viewer /\ q.buf = r.buf /\ q.wire = r.wire
  /\ ~q.subbed /\ ~q.open
IsEnded(q, r) ==
  /\ q.phase = "ended" /\ q.viewer = r.viewer
  /\ q.buf \in {r.buf, <<>>} /\ q.wire \in {r.wire, Written(r.wire)}
  /\ ~q.subbed /\ ~q.open
IsPushed(q, r, u) ==
  /\ q.phase = r.phase /\ q.viewer = r.viewer /\ q.buf = Append(r.buf, u) /\ q.wire = r.wire
  /\ q.subbed = r.subbed /\ q.open = r.open
IsWritten(q, r) ==
  /\ q.phase = r.phase /\ q.viewer = r.viewer
  /\ q.buf = Tail(r.buf) /\ q.wire = Append(r.wire, Head(r.buf))
  /\ q.subbed = r.subbed /\ q.open = r.open
IsServed(q, r) ==
  /\ q.phase = "serving" /\ q.viewer = r.viewer /\ q.buf = r.buf /\ q.wire = r.wire
  /\ q.subbed /\ q.open
IsAccepted(q, b) ==
  /\ q.phase = "accepted" /\ q.viewer = b /\ q.buf = <<>> /\ q.wire = <<>>
  /\ ~q.subbed /\ ~q.open /\ ~q.hello
IsGreeted(q, r) ==
  /\ q.phase = r.phase /\ q.viewer = r.viewer /\ q.buf = r.buf /\ q.wire = r.wire
  /\ q.subbed = r.subbed /\ q.open = r.open
IsRead(q, r) ==
  /\ q.phase = r.phase /\ q.viewer = r.viewer /\ q.buf = r.buf /\ q.wire = Tail(r.wire)
  /\ q.subbed = r.subbed /\ q.open = r.open

\* A free connection.
LEMMA IdleFields ==
  /\ Idle \in ConnRec /\ Idle.phase = "free" /\ Idle.buf = <<>> /\ Idle.wire = <<>>
  /\ ~Idle.subbed /\ ~Idle.open /\ ~Idle.hello
<1>1. <<>> \in Seq(Update)
  OBVIOUS
<1>2. Idle \in ConnRec /\ Idle.phase = "free" /\ Idle.buf = <<>> /\ Idle.wire = <<>>
  BY <1>1, Zenon DEF Idle, ConnRec
<1>3. ~Idle.subbed /\ ~Idle.open /\ ~Idle.hello
  BY Zenon DEF Idle
<1>4. QED
  BY <1>2, <1>3, Zenon

\* What a cut-short write leaves on the wire is a part of what was there.
LEMMA WrittenFits ==
  ASSUME NEW w \in Seq(Update)
  PROVE  /\ Written(w) \in Seq(Update)
         /\ Len(w) <= WireCap + 1 => Len(Written(w)) <= WireCap + 1
         /\ (\A i \in 1..Len(w) : w[i].state \in Known)
              => \A i \in 1..Len(Written(w)) : Written(w)[i].state \in Known
<1>1. CASE Len(w) > WireCap
  <2> DEFINE v == SubSeq(w, 1, WireCap)
  <2>1. Written(w) = v
    BY <1>1, Zenon DEF Written
  <2>2. v \in Seq(Update) /\ Len(v) = WireCap /\ \A i \in 1..Len(v) : v[i] = w[i]
    BY <1>1, SeatMapConstantsOK
  <2> HIDE DEF v
  <2>3. \A i \in 1..Len(v) : i \in 1..Len(w)
    BY <1>1, <2>2, SeatMapConstantsOK
  <2>4. Len(v) <= WireCap + 1
    BY <2>2, SeatMapConstantsOK
  <2>5. QED
    BY <2>1, <2>2, <2>3, <2>4, Zenon
<1>2. CASE ~(Len(w) > WireCap)
  BY <1>2, Zenon DEF Written
<1>3. QED
  BY <1>1, <1>2, Zenon

\* The hub drops a subscription; the handler returns, or dies with its process.
LEMMA CutFields ==
  ASSUME NEW r \in ConnRec
  PROVE  /\ Unsubscribed(r) \in ConnRec /\ IsCut(Unsubscribed(r), r)
         /\ LET e == [Unsubscribed(r) EXCEPT !.phase = "ended", !.wire = Written(@)]
            IN  e \in ConnRec /\ IsEnded(e, r)
         /\ LET e == [Unsubscribed(r) EXCEPT !.phase = "ended", !.buf = <<>>]
            IN  e \in ConnRec /\ IsEnded(e, r)
<1> DEFINE x == [r EXCEPT !.subbed = FALSE, !.open = FALSE]
           w == Written(x.wire)
           y == [x EXCEPT !.phase = "ended", !.wire = w]
           z == [x EXCEPT !.phase = "ended", !.buf = <<>>]
<1>1. x \in ConnRec /\ x.phase = r.phase /\ x.viewer = r.viewer /\ x.buf = r.buf /\ x.wire = r.wire
  BY Zenon DEF ConnRec
<1>2. x.subbed = FALSE /\ x.open = FALSE
  BY Zenon DEF ConnRec
<1>3. Unsubscribed(r) = x
  BY Zenon DEF Unsubscribed
<1> HIDE DEF x
<1>10. [x EXCEPT !.phase = "ended", !.wire = Written(@)] = y
  BY <1>1, Zenon DEF ConnRec
<1>11. x.wire \in Seq(Update)
  BY <1>1, Zenon DEF ConnRec
<1>12. w \in Seq(Update) /\ w = Written(r.wire)
  BY <1>1, <1>11, WrittenFits, Zenon
<1> HIDE DEF w
<1>4. y \in ConnRec /\ y.phase = "ended" /\ y.viewer = x.viewer /\ y.buf = x.buf /\ y.wire = w
  BY <1>1, <1>12, Zenon DEF ConnRec
<1>5. y.subbed = x.subbed /\ y.open = x.open
  BY <1>1, Zenon DEF ConnRec
<1>6. z \in ConnRec /\ z.phase = "ended" /\ z.viewer = x.viewer /\ z.buf = <<>> /\ z.wire = x.wire
  <2>1. <<>> \in Seq(Update)
    OBVIOUS
  <2>2. QED
    BY <1>1, <2>1, Zenon DEF ConnRec
<1>7. z.subbed = x.subbed /\ z.open = x.open
  BY <1>1, Zenon DEF ConnRec
<1> HIDE DEF y, z
<1>8. IsCut(x, r) /\ IsEnded(y, r) /\ IsEnded(z, r)
  BY <1>1, <1>2, <1>4, <1>5, <1>6, <1>7, <1>12, Zenon DEF IsCut, IsEnded
<1>9. QED
  BY <1>1, <1>3, <1>4, <1>6, <1>8, <1>10, Zenon DEF z

\* An update queued, and one written to the socket.
LEMMA PushFields ==
  ASSUME NEW r \in ConnRec, NEW u \in Update
  PROVE  LET e == [r EXCEPT !.buf = Append(@, u)] IN e \in ConnRec /\ IsPushed(e, r, u)
<1> DEFINE q == Append(r.buf, u)
           e == [r EXCEPT !.buf = q]
<1>1. q \in Seq(Update)
  BY DEF ConnRec
<1>2. [r EXCEPT !.buf = Append(@, u)] = e
  BY Zenon DEF ConnRec
<1> HIDE DEF q
<1>3. e \in ConnRec /\ e.phase = r.phase /\ e.viewer = r.viewer /\ e.buf = q /\ e.wire = r.wire
  BY <1>1, Zenon DEF ConnRec
<1>4. e.subbed = r.subbed /\ e.open = r.open
  BY Zenon DEF ConnRec
<1> HIDE DEF e
<1>5. QED
  BY <1>2, <1>3, <1>4, Zenon DEF IsPushed, q

\* streamSeats writes the oldest update of the buffer to the response.
LEMMA WriteFields ==
  ASSUME NEW r \in ConnRec, r.buf # <<>>
  PROVE  LET e == [r EXCEPT !.wire = Append(@, Head(r.buf)), !.buf = Tail(@)]
         IN  e \in ConnRec /\ IsWritten(e, r)
<1> DEFINE w == Append(r.wire, Head(r.buf))
           q == Tail(r.buf)
           e == [r EXCEPT !.wire = w, !.buf = q]
<1>1. r.buf \in Seq(Update) /\ r.wire \in Seq(Update)
  BY Zenon DEF ConnRec
<1>2. Head(r.buf) \in Update /\ q \in Seq(Update)
  BY <1>1, HeadTailProperties, Zenon
<1>3. w \in Seq(Update)
  BY <1>1, <1>2
<1>4. [r EXCEPT !.wire = Append(@, Head(r.buf)), !.buf = Tail(@)] = e
  BY Zenon DEF ConnRec
<1> HIDE DEF q, w
<1>5. e \in ConnRec /\ e.phase = r.phase /\ e.viewer = r.viewer /\ e.buf = q /\ e.wire = w
  BY <1>2, <1>3, Zenon DEF ConnRec
<1>6. e.subbed = r.subbed /\ e.open = r.open
  BY Zenon DEF ConnRec
<1> HIDE DEF e
<1>7. QED
  BY <1>4, <1>5, <1>6, Zenon DEF IsWritten, q, w

\* The browser reads the headers, and an update.
LEMMA ReadFields ==
  ASSUME NEW r \in ConnRec
  PROVE  /\ LET e == [r EXCEPT !.hello = FALSE] IN e \in ConnRec /\ IsGreeted(e, r)
         /\ r.wire # <<>> =>
              LET e == [r EXCEPT !.wire = Tail(@)] IN e \in ConnRec /\ IsRead(e, r)
<1> DEFINE g == [r EXCEPT !.hello = FALSE]
<1>1. /\ g \in ConnRec /\ g.phase = r.phase /\ g.viewer = r.viewer /\ g.buf = r.buf
      /\ g.wire = r.wire
  BY Zenon DEF ConnRec
<1>2. g.subbed = r.subbed /\ g.open = r.open
  BY Zenon DEF ConnRec
<1> HIDE DEF g
<1>3. IsGreeted(g, r)
  BY <1>1, <1>2, Zenon DEF IsGreeted
<1>4. ASSUME r.wire # <<>>
      PROVE  LET e == [r EXCEPT !.wire = Tail(@)] IN e \in ConnRec /\ IsRead(e, r)
  <2> DEFINE w == Tail(r.wire)
             e == [r EXCEPT !.wire = w]
  <2>1. w \in Seq(Update)
    BY <1>4, HeadTailProperties, Zenon DEF ConnRec
  <2>2. [r EXCEPT !.wire = Tail(@)] = e
    BY Zenon DEF ConnRec
  <2> HIDE DEF w
  <2>3. e \in ConnRec /\ e.phase = r.phase /\ e.viewer = r.viewer /\ e.buf = r.buf /\ e.wire = w
    BY <2>1, Zenon DEF ConnRec
  <2>4. e.subbed = r.subbed /\ e.open = r.open
    BY Zenon DEF ConnRec
  <2> HIDE DEF e
  <2>5. QED
    BY <2>2, <2>3, <2>4, Zenon DEF IsRead, w
<1>5. QED
  BY <1>1, <1>3, <1>4, Zenon DEF g

\* A subscription is made, and a request accepted.
LEMMA ServeFields ==
  ASSUME NEW r \in ConnRec, NEW b \in Browsers
  PROVE  /\ LET e == [r EXCEPT !.phase = "serving", !.subbed = TRUE, !.open = TRUE, !.hello = TRUE]
            IN  e \in ConnRec /\ IsServed(e, r)
         /\ LET e == [Idle EXCEPT !.phase = "accepted", !.viewer = b]
            IN  e \in ConnRec /\ IsAccepted(e, b)
<1> DEFINE x == [r EXCEPT !.phase = "serving", !.subbed = TRUE, !.open = TRUE, !.hello = TRUE]
           y == [Idle EXCEPT !.phase = "accepted", !.viewer = b]
<1>1. /\ x \in ConnRec /\ x.phase = "serving" /\ x.viewer = r.viewer /\ x.buf = r.buf
      /\ x.wire = r.wire
  BY Zenon DEF ConnRec
<1>2. x.subbed = TRUE /\ x.open = TRUE
  BY Zenon DEF ConnRec
<1>3. /\ y \in ConnRec /\ y.phase = "accepted" /\ y.viewer = b /\ y.buf = Idle.buf
      /\ y.wire = Idle.wire
  BY IdleFields, Zenon DEF ConnRec
<1>4. y.subbed = Idle.subbed /\ y.open = Idle.open /\ y.hello = Idle.hello
  BY IdleFields, Zenon DEF ConnRec
<1> HIDE DEF x, y
<1>5. IsServed(x, r) /\ IsAccepted(y, b)
  BY <1>1, <1>2, <1>3, <1>4, IdleFields, Zenon DEF IsServed, IsAccepted
<1>6. QED
  BY <1>1, <1>3, <1>5, Zenon DEF x, y

-----------------------------------------------------------------------------

SameStream(t, u) == t.page = u.page /\ t.link = u.link
Parted(t) ==
  t.page \in {"away", "connecting", "waiting"} /\ t.link = NoConn /\ ~t.clean /\ ~t.sound

\* The connection is gone.
LEMMA UnlinkedFields ==
  ASSUME NEW b \in Browsers, NEW t \in TabRec(b), NEW page \in {"away", "connecting"}
  PROVE  Unlinked(t, page) \in TabRec(b) /\ Parted(Unlinked(t, page))
<1> DEFINE e == [t EXCEPT !.page = page, !.link = NoConn, !.clean = FALSE, !.sound = FALSE]
<1>1. e \in TabRec(b) /\ e.page = page /\ e.link = NoConn
  BY Zenon DEF TabRec
<1>2. e.clean = FALSE /\ e.sound = FALSE
  BY Zenon DEF TabRec
<1>3. Unlinked(t, page) = e
  BY Zenon DEF Unlinked
<1> HIDE DEF e
<1>4. QED
  BY <1>1, <1>2, <1>3, Zenon DEF Parted

\* A fetch is dropped or started.
LEMMA EmptiedFields ==
  ASSUME NEW b \in Browsers, NEW t \in TabRec(b), NEW f \in {"idle", "asked"}
  PROVE  LET e == Emptied(t, f)
         IN  /\ e \in TabRec(b) /\ SameStream(e, t) /\ e.map = t.map /\ e.fetch = f
             /\ e.loaded = t.loaded /\ e.clean = t.clean /\ e.sound = t.sound
<1> DEFINE none == [s \in DOMAIN t.map |-> "unknown"]
           e == [t EXCEPT !.fetch = f, !.snap = none]
<1>1. none \in [ShownSeats(b) -> Names]
  BY Zenon DEF TabRec, Names
<1>2. Emptied(t, f) = e
  BY Zenon DEF Emptied
<1> HIDE DEF none
<1>3. e \in TabRec(b) /\ e.page = t.page /\ e.link = t.link /\ e.map = t.map /\ e.fetch = f
  BY <1>1, Zenon DEF TabRec
<1>4. e.loaded = t.loaded /\ e.clean = t.clean /\ e.sound = t.sound
  BY Zenon DEF TabRec
<1> HIDE DEF e
<1>5. QED
  BY <1>2, <1>3, <1>4, Zenon DEF SameStream

\* The page asks for its seats: only the request itself is new.
LEMMA AskedFields ==
  ASSUME NEW b \in Browsers, NEW t \in TabRec(b)
  PROVE  LET e == Asked(t)
         IN  /\ e \in TabRec(b) /\ SameStream(e, t) /\ e.map = t.map /\ e.fetch = "asked"
             /\ e.loaded = t.loaded /\ e.sound = t.sound
             /\ e.clean <=> t.page = "open" /\ tail >= 0
<1> DEFINE x == Emptied(t, "asked")
           now == t.page = "open" /\ tail >= 0
           e == [x EXCEPT !.clean = now]
<1>1. /\ x \in TabRec(b) /\ x.page = t.page /\ x.link = t.link /\ x.map = t.map
      /\ x.fetch = "asked" /\ x.loaded = t.loaded /\ x.sound = t.sound
  BY EmptiedFields, Zenon DEF SameStream
<1>2. now \in BOOLEAN
  OBVIOUS
<1>3. Asked(t) = e
  BY Zenon DEF Asked
<1> HIDE DEF x, now
<1>4. e \in TabRec(b) /\ e.page = x.page /\ e.link = x.link /\ e.map = x.map /\ e.fetch = x.fetch
  BY <1>1, <1>2, Zenon DEF TabRec
<1>5. e.loaded = x.loaded /\ e.clean = now /\ e.sound = x.sound
  BY <1>1, Zenon DEF TabRec
<1> HIDE DEF e
<1>6. QED
  BY <1>1, <1>3, <1>4, <1>5, Zenon DEF SameStream, now

-----------------------------------------------------------------------------
(* What a step leaves alone keeps its invariants.                          *)

Steady == UNCHANGED <<db, log, unsent, topic, disordered, server, tail>> /\ hub'.closed = hub.closed

\* A step that leaves the seats and the events alone keeps what is known of them.
LEMMA SeatsSteady ==
  ASSUME MapTypes, LogInv, OrderInv, UNCHANGED <<db, log, unsent, topic, disordered>>
  PROVE  SeatTypes' /\ LogInv' /\ OrderInv' /\ \A s : Name(s)' = Name(s)
<1>1. SeatTypes'
  BY Zenon DEF MapTypes, SeatTypes
<1>2. LogInv'
  BY Zenon DEF LogInv
<1>3. OrderInv'
  BY Zenon DEF OrderInv
<1>4. \A s : Name(s)' = Name(s)
  BY Zenon DEF Name
<1>5. QED
  BY <1>1, <1>2, <1>3, <1>4, Zenon

\* An unchanged connection stays in order while the hub stays open and the server up.
LEMMA ConnFrame ==
  ASSUME NEW c \in Conns, ConnInv(c), conn'[c] = conn[c],
         conn[c].subbed => ~hub'.closed,
         server' = "down" => server = "down" \/ conn[c].phase \in {"free", "ended"},
         conn[c].open /\ tail' = -1 => tail = -1
  PROVE  ConnInv(c)'
  BY Zenon DEF ConnInv

\* An unchanged page keeps its link while the connection behind it is not reset.
LEMMA LinkFrame ==
  ASSUME NEW b \in Browsers, LinkInv(b), tab'[b] = tab[b],
         tab[b].link # NoConn =>
           /\ conn'[tab[b].link].viewer = conn[tab[b].link].viewer
           /\ conn'[tab[b].link].phase # "free"
           /\ tab[b].page = "open" => conn'[tab[b].link].phase # "accepted"
           /\ tab[b].page = "open" /\ conn'[tab[b].link].open =>
                conn[tab[b].link].open /\ (tail >= 0 => tail' >= 0)
  PROVE  LinkInv(b)'
  BY Zenon DEF LinkInv

\* What a connection has pending still ends with the present status.
LEMMA FlowFrame ==
  ASSUME NEW c \in Conns, FlowInv(c), ~disordered' => ~disordered,
         conn'[c].open => /\ conn[c].open /\ conn'[c].viewer = conn[c].viewer
                          /\ conn'[c].buf = conn[c].buf /\ conn'[c].wire = conn[c].wire,
         ~disordered' => \A s \in Seats : ~Late(s)' => ~Late(s) /\ Name(s)' = Name(s)
  PROVE  FlowInv(c)'
  BY Zenon DEF FlowInv

\* What an unchanged page has or awaits is still right.
LEMMA FreshFrame ==
  ASSUME NEW b \in Browsers, FreshInv(b), tab'[b] = tab[b], ~disordered' => ~disordered,
         ~disordered' /\ tab[b].page = "open" /\ conn'[tab[b].link].open =>
           /\ conn[tab[b].link].open
           /\ \A s \in ShownSeats(b) :
                \/ Pending(tab[b].link, s)'
                \/ Name(s)' = Name(s) /\ ~Pending(tab[b].link, s)
  PROVE  FreshInv(b)'
  BY Zenon DEF FreshInv

\* Which seats have an update the tail has not read depends on log and tail only.
LEMMA LateSteady ==
  ASSUME UNCHANGED <<log, tail>>
  PROVE  \A s : Late(s)' <=> Late(s)
  BY Zenon DEF Late

\* A connection the step does not touch.
LEMMA OtherConn ==
  ASSUME MapTypes, PlaceInv, DataInv, Steady, NEW c \in Conns, conn'[c] = conn[c]
  PROVE  ConnInv(c)' /\ FlowInv(c)'
<1>1. ConnInv(c) /\ FlowInv(c)
  BY Zenon DEF PlaceInv, DataInv
<1>2. conn[c].subbed => ~hub'.closed
  BY <1>1, Zenon DEF ConnInv, Steady
<1>3. ConnInv(c)'
  BY <1>1, <1>2, ConnFrame, Zenon DEF Steady
<1>4. \A s : Name(s)' = Name(s)
  BY SeatsSteady, Zenon DEF DataInv, Steady
<1>5. \A s : Late(s)' <=> Late(s)
  BY LateSteady, Zenon DEF Steady
<1>6. FlowInv(c)'
  BY <1>1, <1>4, <1>5, FlowFrame, Zenon DEF Steady
<1>7. QED
  BY <1>3, <1>6, Zenon

\* A page the step does not touch, nor its connection.
LEMMA OtherPage ==
  ASSUME MapTypes, PlaceInv, DataInv, Steady, NEW b \in Browsers, tab'[b] = tab[b],
         tab[b].link # NoConn => conn'[tab[b].link] = conn[tab[b].link]
  PROVE  LinkInv(b)' /\ FreshInv(b)'
<1>1. LinkInv(b) /\ FreshInv(b)
  BY Zenon DEF PlaceInv, DataInv
<1>2. LinkInv(b)'
  BY <1>1, LinkFrame, Zenon DEF Steady, LinkInv
<1>3. \A s : Name(s)' = Name(s)
  BY SeatsSteady, Zenon DEF DataInv, Steady
<1>4. \A s : Late(s)' <=> Late(s)
  BY LateSteady, Zenon DEF Steady
<1>5. tab[b].page = "open" => tab[b].link # NoConn
  BY <1>1, Zenon DEF LinkInv
<1>6. tab[b].page = "open" => \A s : Pending(tab[b].link, s)' <=> Pending(tab[b].link, s)
  BY <1>4, <1>5, Zenon DEF Pending
<1>7. FreshInv(b)'
  BY <1>1, <1>3, <1>5, <1>6, FreshFrame, Zenon DEF Steady
<1>8. QED
  BY <1>2, <1>7, Zenon

\* A page without a connection.
LEMMA PartedPage ==
  ASSUME NEW b \in Browsers, Parted(tab'[b])
  PROVE  LinkInv(b)' /\ FreshInv(b)'
  BY Zenon DEF Parted, LinkInv, FreshInv

\* One connection, and one page, changed.
LEMMA ConnUpdate ==
  ASSUME ConnTypes, NEW c \in Conns, NEW e \in ConnRec, conn' = [conn EXCEPT ![c] = e]
  PROVE  ConnTypes' /\ conn'[c] = e /\ \A x \in Conns : x # c => conn'[x] = conn[x]
  BY Zenon DEF ConnTypes

\* The same for a page.
LEMMA TabUpdate ==
  ASSUME TabTypes, NEW b \in Browsers, NEW e \in TabRec(b), tab' = [tab EXCEPT ![b] = e]
  PROVE  TabTypes' /\ tab'[b] = e /\ \A x \in Browsers : x # b => tab'[x] = tab[x]
<1>1. DOMAIN tab' = Browsers /\ tab'[b] = e /\ \A x \in Browsers : x # b => tab'[x] = tab[x]
  BY Zenon DEF TabTypes
<1>2. \A x \in Browsers : tab'[x] \in TabRec(x)
  BY <1>1, Zenon DEF TabTypes
<1>3. QED
  BY <1>1, <1>2, Zenon DEF TabTypes

\* The connection of a page is its own.
LEMMA OwnLink ==
  ASSUME MapTypes, PlaceInv, NEW b \in Browsers, tab[b].link # NoConn
  PROVE  /\ tab[b].link \in Conns /\ conn[tab[b].link].viewer = b
         /\ conn[tab[b].link].phase # "free" /\ Alive(tab[b].link)
         /\ \A x \in Browsers : x # b => tab[x].link # tab[b].link
<1>1. tab[b].link \in Conns
  BY Zenon DEF MapTypes, TabTypes, TabRec
<1>2. \A x \in Browsers : LinkInv(x)
  BY Zenon DEF PlaceInv
<1>3. conn[tab[b].link].viewer = b /\ conn[tab[b].link].phase # "free"
  BY <1>2, Zenon DEF LinkInv
<1>4. ASSUME NEW x \in Browsers, x # b PROVE tab[x].link # tab[b].link
  BY <1>2, <1>3, <1>4, Zenon DEF LinkInv
<1>5. QED
  BY <1>1, <1>3, <1>4, Zenon DEF Alive

\* The number of subscriptions.
LEMMA SubscribedFinite == IsFiniteSet(Subscribed) /\ Cardinality(Subscribed) \in Nat
  BY SeatMapConstantsOK, FS_Subset, FS_CardinalityType, Zenon DEF Subscribed

\* The hub's count is right as long as nobody subscribes or leaves.
LEMMA CountSteady ==
  ASSUME CountInv, hub' = hub, server' = server,
         \A c \in Conns : conn'[c].subbed <=> conn[c].subbed
  PROVE  CountInv'
<1>1. Subscribed' = Subscribed
  BY Zenon DEF Subscribed
<1>2. QED
  BY <1>1, Zenon DEF CountInv

-----------------------------------------------------------------------------
(* Seats change and their events are relayed.                              *)

MapInv == MapTypes /\ PlaceInv /\ DataInv

\* Nothing of the server or of a page changed.
LEMMA PlaceSteady ==
  ASSUME MapTypes, PlaceInv, UNCHANGED <<serverVars, hub, conn, tab>>
  PROVE  ConnTypes' /\ TabTypes' /\ PlaceInv'
<1>1. server' = server /\ tail' = tail /\ hub' = hub /\ conn' = conn /\ tab' = tab
  BY Zenon DEF serverVars
<1>2. ConnTypes' /\ TabTypes'
  BY <1>1, Zenon DEF MapTypes, ConnTypes, TabTypes
<1>3. ASSUME NEW c \in Conns PROVE ConnInv(c)'
  BY <1>1, Zenon DEF PlaceInv, ConnInv
<1>4. ASSUME NEW b \in Browsers PROVE LinkInv(b)'
  BY <1>1, Zenon DEF PlaceInv, LinkInv
<1>5. CountInv'
  BY <1>1, CountSteady, Zenon DEF PlaceInv
<1>6. QED
  BY <1>2, <1>3, <1>4, <1>5, Zenon DEF PlaceInv

\* While nothing is out of order, the topic is no longer than the log.
LEMMA TopicFits ==
  ASSUME SeatTypes, OrderInv, ~disordered
  PROVE  Len(topic) <= Len(log) /\ \A i \in 1..Len(topic) : topic[i] = i
<1>1. Len(topic) \in Nat /\ Len(log) \in Nat
  BY DEF SeatTypes
<1>2. \A i \in 1..Len(topic) : topic[i] = i
  BY Zenon DEF OrderInv
<1>3. \A i \in 1..Len(topic) : topic[i] <= Len(log)
  BY <1>1 DEF SeatTypes
<1>4. CASE Len(topic) = 0
  BY <1>1, <1>2, <1>4
<1>5. CASE Len(topic) # 0
  <2>1. Len(topic) \in 1..Len(topic)
    BY <1>1, <1>5
  <2>2. QED
    BY <1>2, <1>3, <2>1, Zenon
<1>6. QED
  BY <1>4, <1>5, Zenon

\* A seat moves: its row comes last in the log, and is late for every stream.
LEMMA ChangeKeeps ==
  ASSUME MapInv, NEW s \in Seats, NEW status \in Statuses, ChangeSeat(s, status)
  PROVE  MapInv'
<1> DEFINE row == [seat |-> s, state |-> status]
           n == Len(log)
<1>1. /\ n < MaxChanges /\ db' = [db EXCEPT ![s] = status] /\ log' = Append(log, row)
      /\ unsent' = unsent \cup {n + 1} /\ topic' = topic /\ disordered' = disordered
  BY Zenon DEF ChangeSeat
<1>2. UNCHANGED <<serverVars, hub, conn, tab, faults>>
  BY Zenon DEF ChangeSeat
<1>3. ConnTypes' /\ TabTypes' /\ PlaceInv'
  BY <1>2, PlaceSteady, Zenon DEF MapInv
<1>4. SeatTypes /\ n \in Nat /\ row \in Row
  BY DEF MapInv, MapTypes, SeatTypes, Row
<1>5. /\ log' \in Seq(Row) /\ Len(log') = n + 1 /\ log'[n + 1] = row
      /\ \A i \in 1..n : log'[i] = log[i]
  BY <1>1, <1>4 DEF SeatTypes
<1>6. SeatTypes'
  <2>1. db' \in [Seats -> Statuses]
    BY <1>1, <1>4, Zenon DEF SeatTypes
  <2>2. Len(log') <= MaxChanges
    BY <1>1, <1>4, <1>5, SeatMapConstantsOK
  <2>3. unsent' \subseteq 1..Len(log')
    <3>1. 1..n \subseteq 1..(n + 1) /\ n + 1 \in 1..(n + 1)
      BY <1>4
    <3>2. unsent \subseteq 1..n
      BY <1>4, Zenon DEF SeatTypes
    <3> HIDE DEF n
    <3>3. QED
      BY <1>1, <1>5, <3>1, <3>2, Zenon
  <2>4. \A i \in 1..Len(topic') : topic'[i] \in 1..Len(log')
    BY <1>1, <1>4, <1>5 DEF SeatTypes
  <2>5. topic' \in Seq(Nat) /\ disordered' \in BOOLEAN
    BY <1>1, <1>4, Zenon DEF SeatTypes
  <2>6. QED
    BY <1>5, <2>1, <2>2, <2>3, <2>4, <2>5, Zenon DEF SeatTypes
<1>7. ServerTypes'
  BY <1>1, <1>2, Zenon DEF MapInv, MapTypes, ServerTypes, serverVars
<1>8. LogInv'
  <2>1. SUFFICES ASSUME NEW i \in 1..(n + 1),
                        \A j \in 1..(n + 1) : j > i => log'[j].seat # log'[i].seat
                 PROVE  log'[i].state = db'[log'[i].seat]
    BY <1>5, Zenon DEF LogInv
  <2>2. CASE i = n + 1
    BY <1>1, <1>4, <1>5, <2>2 DEF SeatTypes
  <2>3. CASE i \in 1..n
    <3>1. log'[i] = log[i] /\ log[i] \in Row
      BY <1>4, <1>5, <2>3 DEF SeatTypes
    <3>2. n + 1 \in 1..(n + 1) /\ n + 1 > i /\ \A j \in 1..n : j \in 1..(n + 1)
      BY <1>4, <2>3
    <3>3. log[i].seat # s
      BY <1>5, <2>1, <3>1, <3>2
    <3>4. \A j \in 1..n : j > i => log[j].seat # log[i].seat
      BY <1>5, <2>1, <3>1, <3>2, Zenon
    <3>5. log[i].state = db[log[i].seat]
      BY <2>3, <3>4, Zenon DEF MapInv, DataInv, LogInv
    <3>6. QED
      BY <1>1, <1>4, <3>1, <3>3, <3>5, Zenon DEF SeatTypes, Row
  <2>4. QED
    BY <1>4, <2>2, <2>3
<1>9. OrderInv'
  <2>1. SUFFICES ASSUME ~disordered
                 PROVE  /\ \A i \in 1..Len(topic') : topic'[i] = i
                        /\ unsent' = (Len(topic') + 1)..Len(log')
    BY <1>1, Zenon DEF OrderInv
  <2>2. Len(topic) <= n /\ (\A i \in 1..Len(topic) : topic[i] = i) /\ Len(topic) \in Nat
    BY <1>4, <2>1, TopicFits DEF MapInv, DataInv, SeatTypes
  <2>3. unsent = (Len(topic) + 1)..n
    BY <2>1, Zenon DEF MapInv, DataInv, OrderInv
  <2>4. QED
    BY <1>1, <1>4, <1>5, <2>2, <2>3, SMTT(30)
<1>10. ASSUME ~disordered', NEW x \in Seats
       PROVE  Late(x)' \/ (~Late(x) /\ Name(x)' = Name(x))
  <2>1. Len(topic) <= n /\ Len(topic) \in Nat
    BY <1>1, <1>4, <1>10, TopicFits DEF MapInv, DataInv, SeatTypes
  <2>2. tail' = tail /\ tail \in Int /\ tail < n + 1
    BY <1>2, <1>4, <2>1 DEF MapInv, MapTypes, ServerTypes, serverVars
  <2>3. CASE x = s
    <3>1. n + 1 \in 1..Len(log') /\ n + 1 > tail' /\ log'[n + 1].seat = s
      BY <1>4, <1>5, <2>2
    <3>2. QED
      BY <2>3, <3>1, Zenon DEF Late
  <2>4. CASE x # s
    <3>1. Name(x)' = Name(x)
      BY <1>1, <1>4, <2>4, Zenon DEF Name, SeatTypes
    <3>2. Late(x) => Late(x)'
      BY <1>4, <1>5, <2>2 DEF Late
    <3>3. QED
      BY <3>1, <3>2, Zenon
  <2>5. QED
    BY <2>3, <2>4, Zenon
<1>11. conn' = conn /\ tab' = tab /\ disordered' = disordered
  BY <1>1, <1>2, Zenon
<1>12. ASSUME NEW c \in Conns PROVE FlowInv(c)'
  BY <1>10, <1>11, FlowFrame, Zenon DEF MapInv, DataInv
<1>13. ASSUME NEW b \in Browsers PROVE FreshInv(b)'
  <2>1. ASSUME ~disordered', NEW x \in ShownSeats(b)
        PROVE  Pending(tab[b].link, x)' \/ (Name(x)' = Name(x) /\ ~Pending(tab[b].link, x))
    BY <1>10, <1>11, <2>1, Zenon DEF Pending, ShownSeats
  <2>2. QED
    BY <1>11, <2>1, FreshFrame, Zenon DEF MapInv, DataInv
<1>14. QED
  BY <1>3, <1>6, <1>7, <1>8, <1>9, <1>12, <1>13, Zenon DEF MapInv, MapTypes, DataInv

\* The oldest row goes out: without a fault it is the next of the log.
LEMMA RelayKeeps ==
  ASSUME MapInv, Relay
  PROVE  MapInv'
<1> DEFINE m == Min(unsent)
           n == Len(topic)
<1>1. /\ unsent # {} /\ topic' = Append(topic, m) /\ unsent' = unsent \ {m}
      /\ db' = db /\ log' = log /\ disordered' = disordered
  BY Zenon DEF Relay
<1>2. UNCHANGED <<serverVars, hub, conn, tab, faults>>
  BY Zenon DEF Relay
<1>3. ConnTypes' /\ TabTypes' /\ PlaceInv'
  BY <1>2, PlaceSteady, Zenon DEF MapInv
<1>4. SeatTypes /\ n \in Nat /\ Len(log) \in Nat /\ unsent \subseteq 1..Len(log)
  BY DEF MapInv, MapTypes, SeatTypes
<1>5. unsent \in SUBSET Nat
  BY <1>4
<1>6. m \in unsent /\ \A y \in unsent : m <= y
  BY <1>1, <1>5, MinFact, Zenon
<1> HIDE DEF m
<1>7. m \in 1..Len(log) /\ m \in Nat
  BY <1>4, <1>5, <1>6, Zenon
<1>8. /\ topic' \in Seq(Nat) /\ Len(topic') = n + 1 /\ topic'[n + 1] = m
      /\ \A i \in 1..n : topic'[i] = topic[i]
  BY <1>1, <1>4, <1>7 DEF SeatTypes
<1>9. SeatTypes'
  <2>1. unsent' \subseteq 1..Len(log')
    BY <1>1, <1>4, Zenon
  <2>2. \A i \in 1..Len(topic') : topic'[i] \in 1..Len(log')
    BY <1>1, <1>4, <1>7, <1>8 DEF SeatTypes
  <2>3. QED
    BY <1>1, <1>4, <1>8, <2>1, <2>2, Zenon DEF SeatTypes
<1>10. ServerTypes'
  <2>1. tail' \in -1..Len(topic')
    BY <1>2, <1>4, <1>8 DEF MapInv, MapTypes, ServerTypes, serverVars
  <2>2. QED
    BY <1>2, <2>1, Zenon DEF MapInv, MapTypes, ServerTypes, serverVars
<1>11. LogInv'
  BY <1>1, Zenon DEF LogInv, MapInv, DataInv
<1>12. OrderInv'
  <2>1. SUFFICES ASSUME ~disordered
                 PROVE  /\ \A i \in 1..Len(topic') : topic'[i] = i
                        /\ unsent' = (Len(topic') + 1)..Len(log')
    BY <1>1, Zenon DEF OrderInv
  <2>2. (\A i \in 1..n : topic[i] = i) /\ unsent = (n + 1)..Len(log)
    BY <2>1, Zenon DEF MapInv, DataInv, OrderInv
  <2>3. m = n + 1
    <3>1. n + 1 <= m /\ m <= Len(log)
      BY <1>4, <1>6, <1>7, <2>2
    <3>2. n + 1 \in unsent
      BY <1>4, <1>7, <2>2, <3>1
    <3>3. QED
      BY <1>4, <1>6, <1>7, <3>1, <3>2
  <2>4. QED
    BY <1>1, <1>4, <1>8, <2>2, <2>3
<1>13. /\ conn' = conn /\ tab' = tab /\ disordered' = disordered
       /\ \A x : Name(x)' = Name(x) /\ (Late(x)' <=> Late(x))
  BY <1>1, <1>2, LateSteady, Zenon DEF Name, serverVars
<1>14. ASSUME NEW c \in Conns PROVE FlowInv(c)'
  BY <1>13, FlowFrame, Zenon DEF MapInv, DataInv
<1>15. ASSUME NEW b \in Browsers PROVE FreshInv(b)'
  <2>1. \A x : Pending(tab[b].link, x)' <=> Pending(tab[b].link, x)
    BY <1>13, Zenon DEF Pending
  <2>2. QED
    BY <1>13, <2>1, FreshFrame, Zenon DEF MapInv, DataInv
<1>16. QED
  BY <1>3, <1>9, <1>10, <1>11, <1>12, <1>14, <1>15, Zenon DEF MapInv, MapTypes, DataInv

\* A row out of order ends what the streams promise.
LEMMA DisorderKeeps ==
  ASSUME MapInv, NEW i \in 1..MaxChanges, RelayDisordered(i)
  PROVE  MapInv'
<1> DEFINE n == Len(topic)
<1>1. /\ i \in DOMAIN log /\ topic' = Append(topic, i) /\ unsent' = unsent \ {i}
      /\ db' = db /\ log' = log /\ disordered' = TRUE
      /\ faults < MaxFaults /\ faults' = faults + 1
  BY Zenon DEF RelayDisordered, Fault
<1>2. UNCHANGED <<serverVars, hub, conn, tab>>
  BY Zenon DEF RelayDisordered
<1>3. ConnTypes' /\ TabTypes' /\ PlaceInv'
  BY <1>2, PlaceSteady, Zenon DEF MapInv
<1>4. SeatTypes /\ n \in Nat /\ Len(log) \in Nat /\ i \in 1..Len(log) /\ i \in Nat
  BY <1>1 DEF MapInv, MapTypes, SeatTypes
<1>5. /\ topic' \in Seq(Nat) /\ Len(topic') = n + 1 /\ topic'[n + 1] = i
      /\ \A k \in 1..n : topic'[k] = topic[k]
  BY <1>1, <1>4 DEF SeatTypes
<1>6. SeatTypes'
  <2>1. unsent' \subseteq 1..Len(log')
    BY <1>1, <1>4, Zenon DEF SeatTypes
  <2>2. \A k \in 1..Len(topic') : topic'[k] \in 1..Len(log')
    BY <1>1, <1>4, <1>5 DEF SeatTypes
  <2>3. disordered' \in BOOLEAN
    BY <1>1, Zenon
  <2>4. QED
    BY <1>1, <1>4, <1>5, <2>1, <2>2, <2>3, Zenon DEF SeatTypes
<1>7. ServerTypes'
  <2>1. tail' \in -1..Len(topic')
    BY <1>2, <1>4, <1>5 DEF MapInv, MapTypes, ServerTypes, serverVars
  <2>2. faults' \in 0..MaxFaults
    BY <1>1, SeatMapConstantsOK DEF MapInv, MapTypes, ServerTypes
  <2>3. QED
    BY <1>2, <2>1, <2>2, Zenon DEF MapInv, MapTypes, ServerTypes, serverVars
<1>8. LogInv'
  BY <1>1, Zenon DEF LogInv, MapInv, DataInv
<1>9. DataInv'
  BY <1>1, <1>8, Zenon DEF DataInv, OrderInv, FlowInv, FreshInv
<1>10. QED
  BY <1>3, <1>6, <1>7, <1>9, Zenon DEF MapInv, MapTypes

-----------------------------------------------------------------------------
(* The process starts, stops and dies.                                     *)

\* Streams that are all cut promise nothing.
LEMMA NothingOpen ==
  ASSUME TabTypes', \A c \in Conns : ~conn'[c].open, \A b \in Browsers : LinkInv(b)'
  PROVE  (\A c \in Conns : FlowInv(c)') /\ (\A b \in Browsers : FreshInv(b)')
<1>1. ASSUME NEW c \in Conns PROVE FlowInv(c)'
  BY Zenon DEF FlowInv
<1>2. ASSUME NEW b \in Browsers PROVE FreshInv(b)'
  <2>1. tab'[b].link \in Conns \cup {NoConn}
    BY Zenon DEF TabTypes, TabRec
  <2>2. tab'[b].page = "open" => tab'[b].link \in Conns
    BY <2>1, Zenon DEF LinkInv
  <2>3. QED
    BY <2>2, Zenon DEF FreshInv
<1>3. QED
  BY <1>1, <1>2, Zenon

\* The tail takes its position: no stream carries anything, and no list is trusted.
LEMMA TailStartKeeps ==
  ASSUME MapInv, TailStarts
  PROVE  MapInv'
<1>1. tail = -1 /\ tail' = Len(topic) /\ server = "up" /\ server' = server
  BY Zenon DEF TailStarts
<1>2. UNCHANGED <<db, log, unsent, topic, disordered, hub, conn, tab, faults>>
  BY Zenon DEF TailStarts, seatVars
<1>3. SeatTypes' /\ LogInv' /\ OrderInv' /\ \A s : Name(s)' = Name(s)
  BY <1>2, SeatsSteady, Zenon DEF MapInv, DataInv
<1>4. Len(topic) \in Nat /\ tail' >= 0 /\ tail' # -1 /\ tail' \in -1..Len(topic')
  BY <1>1, <1>2 DEF MapInv, MapTypes, SeatTypes
<1>5. ServerTypes' /\ ConnTypes' /\ TabTypes'
  BY <1>1, <1>2, <1>4, Zenon DEF MapInv, MapTypes, ServerTypes, ConnTypes, TabTypes
<1>6. ASSUME NEW c \in Conns PROVE ConnInv(c)' /\ FlowInv(c)'
  <2>1. ConnInv(c)
    BY Zenon DEF MapInv, PlaceInv
  <2>2. ConnInv(c)'
    BY <1>1, <1>2, <1>4, <2>1, Zenon DEF ConnInv
  <2>3. conn[c].open => conn[c].buf = <<>> /\ conn[c].wire = <<>>
    BY <1>1, <2>1, Zenon DEF ConnInv
  <2>4. FlowInv(c)'
    BY <1>2, <2>3, QueueEmpty, Zenon DEF FlowInv
  <2>5. QED
    BY <2>2, <2>4
<1>7. ASSUME NEW b \in Browsers PROVE LinkInv(b)' /\ FreshInv(b)'
  <2>1. LinkInv(b)
    BY Zenon DEF MapInv, PlaceInv
  <2>2. LinkInv(b)'
    BY <1>2, <1>4, <2>1, Zenon DEF LinkInv
  <2>3. ~(tail >= 0)
    BY <1>1
  <2>4. tab[b].page = "open" /\ conn[tab[b].link].open => ~tab[b].clean /\ ~tab[b].sound
    BY <2>1, <2>3, Zenon DEF LinkInv
  <2>5. FreshInv(b)'
    BY <1>2, <2>4, Zenon DEF FreshInv
  <2>6. QED
    BY <2>2, <2>5, Zenon
<1>8. CountInv'
  BY <1>1, <1>2, CountSteady, Zenon DEF MapInv, PlaceInv
<1>9. QED
  BY <1>3, <1>5, <1>6, <1>7, <1>8, Zenon DEF MapInv, MapTypes, PlaceInv, DataInv

\* A signal, or the tail's failure.
LEMMA StopKeeps ==
  ASSUME MapInv, NEW why \in {"signalled", "failed"}, StopServer(why)
  PROVE  MapInv'
<1>1. /\ server = "up" /\ server' = why /\ tail' = tail /\ why # "down"
      /\ faults < MaxFaults /\ faults' = faults + 1
  BY Zenon DEF StopServer, Fault
<1>2. UNCHANGED <<db, log, unsent, topic, disordered, hub, conn, tab>>
  BY Zenon DEF StopServer, seatVars
<1>3. SeatTypes' /\ LogInv' /\ OrderInv' /\ \A s : Name(s)' = Name(s)
  BY <1>2, SeatsSteady, Zenon DEF MapInv, DataInv
<1>4. faults' \in 0..MaxFaults
  BY <1>1, SeatMapConstantsOK DEF MapInv, MapTypes, ServerTypes
<1>5. server' \in {"up", "signalled", "failed", "down"}
  BY <1>1, Zenon
<1>6. ServerTypes' /\ ConnTypes' /\ TabTypes'
  BY <1>1, <1>2, <1>4, <1>5, Zenon DEF MapInv, MapTypes, ServerTypes, ConnTypes, TabTypes
<1>7. \A x : Late(x)' <=> Late(x)
  BY <1>1, <1>2, LateSteady, Zenon
<1>8. ASSUME NEW c \in Conns PROVE ConnInv(c)' /\ FlowInv(c)'
  <2>1. ConnInv(c)'
    BY <1>1, <1>2, Zenon DEF MapInv, PlaceInv, ConnInv
  <2>2. FlowInv(c)'
    BY <1>2, <1>3, <1>7, FlowFrame, Zenon DEF MapInv, DataInv
  <2>3. QED
    BY <2>1, <2>2, Zenon
<1>9. ASSUME NEW b \in Browsers PROVE LinkInv(b)' /\ FreshInv(b)'
  <2>1. LinkInv(b)'
    BY <1>1, <1>2, Zenon DEF MapInv, PlaceInv, LinkInv
  <2>2. \A x : Pending(tab[b].link, x)' <=> Pending(tab[b].link, x)
    BY <1>2, <1>7, Zenon DEF Pending
  <2>3. FreshInv(b)'
    BY <1>2, <1>3, <2>2, FreshFrame, Zenon DEF MapInv, DataInv
  <2>4. QED
    BY <2>1, <2>3, Zenon
<1>10. CountInv'
  <2>1. Subscribed' = Subscribed
    BY <1>2, Zenon DEF Subscribed
  <2>2. server # "down"
    BY <1>1, Zenon
  <2>3. QED
    BY <1>1, <1>2, <2>1, <2>2, Zenon DEF CountInv, MapInv, PlaceInv
<1>11. QED
  BY <1>3, <1>6, <1>8, <1>9, <1>10, Zenon DEF MapInv, MapTypes, PlaceInv, DataInv

\* The process exits, and the next one starts: between the two no handler runs.
LEMMA ExitKeeps ==
  ASSUME MapInv, ServerExits \/ StartServer
  PROVE  MapInv'
<1>1. /\ \A c \in Conns : conn[c].phase \in {"free", "ended"}
      /\ server' \in {"up", "down"} /\ tail' = -1
      /\ UNCHANGED <<db, log, unsent, topic, disordered, conn, tab, faults>>
  <2>1. ASSUME NEW c \in Conns, StartServer PROVE conn[c].phase \in {"free", "ended"}
    BY <2>1, Zenon DEF MapInv, PlaceInv, ConnInv, StartServer
  <2>2. QED
    BY <2>1, Zenon DEF ServerExits, StartServer, seatVars
<1>2. hub' = hub \/ hub' = [closed |-> FALSE, count |-> 0]
  BY Zenon DEF ServerExits, StartServer
<1>3. server' # "down" => hub'.count = 0
  BY DEF ServerExits, StartServer
<1>4. hub' \in [closed : BOOLEAN, count : Int]
  <2>1. [closed |-> FALSE, count |-> 0] \in [closed : BOOLEAN, count : Int]
    OBVIOUS
  <2>2. hub \in [closed : BOOLEAN, count : Int]
    BY Zenon DEF MapInv, MapTypes, ServerTypes
  <2>3. QED
    BY <1>2, <2>1, <2>2, Zenon
<1>5. SeatTypes' /\ LogInv' /\ OrderInv'
  BY <1>1, SeatsSteady, Zenon DEF MapInv, DataInv
<1>6. tail' \in -1..Len(topic') /\ server' \in {"up", "signalled", "failed", "down"}
  BY <1>1, <1>5 DEF SeatTypes
<1>7. ServerTypes' /\ ConnTypes' /\ TabTypes'
  BY <1>1, <1>4, <1>6, Zenon DEF MapInv, MapTypes, ServerTypes, ConnTypes, TabTypes
<1>8. ASSUME NEW c \in Conns PROVE ~conn[c].subbed /\ ~conn[c].open /\ ConnInv(c)'
  <2>1. ConnInv(c) /\ conn[c].phase # "serving"
    BY <1>1, Zenon DEF MapInv, PlaceInv
  <2>2. ~conn[c].subbed /\ ~conn[c].open
    BY <2>1, Zenon DEF ConnInv
  <2>3. ConnInv(c)'
    BY <1>1, <2>1, <2>2, ConnFrame, Zenon
  <2>4. QED
    BY <2>2, <2>3, Zenon
<1>9. ASSUME NEW b \in Browsers PROVE LinkInv(b)'
  <2>1. tab[b].link \in Conns \cup {NoConn}
    BY Zenon DEF MapInv, MapTypes, TabTypes, TabRec
  <2>2. LinkInv(b)
    BY Zenon DEF MapInv, PlaceInv
  <2>3. tab[b].link # NoConn => ~conn[tab[b].link].open
    BY <1>8, <2>1, Zenon
  <2>4. QED
    BY <1>1, <2>2, <2>3, LinkFrame, Zenon DEF LinkInv
<1>10. (\A c \in Conns : FlowInv(c)') /\ (\A b \in Browsers : FreshInv(b)')
  BY <1>1, <1>7, <1>8, <1>9, NothingOpen, Zenon
<1>11. CountInv'
  <2>1. Subscribed' = {}
    BY <1>1, <1>8, Zenon DEF Subscribed
  <2>2. QED
    BY <1>3, <2>1, FS_EmptySet, SeatMapConstantsOK DEF CountInv
<1>12. QED
  BY <1>5, <1>7, <1>8, <1>9, <1>10, <1>11, Zenon DEF MapInv, MapTypes, PlaceInv, DataInv

\* A free connection, and what a connection keeps when its subscription is dropped or its
\* handler ends.
LEMMA FreeConn ==
  ASSUME NEW c \in Conns, conn'[c] = Idle
  PROVE  ConnInv(c)' /\ FlowInv(c)' /\ ~conn'[c].open /\ ~conn'[c].subbed
<1>1. Len(<<>>) = 0 /\ 0 <= SubscriberBuffer /\ 0 <= WireCap + 1 /\ \A i : i \notin 1..0
  BY SeatMapConstantsOK
<1>2. "free" # "accepted" /\ "free" \in {"free", "ended"}
  OBVIOUS
<1>3. ConnInv(c)' /\ ~conn'[c].open /\ ~conn'[c].subbed
  BY <1>1, <1>2, IdleFields, Zenon DEF ConnInv
<1>4. QED
  BY <1>3, Zenon DEF FlowInv

\* A connection that ends, or that the hub cuts off, is in order and closed.
LEMMA CutConn ==
  ASSUME NEW c \in Conns, ConnInv(c), conn[c] \in ConnRec,
         conn'[c] = Idle \/ IsEnded(conn'[c], conn[c])
                                      \/ (conn[c].subbed /\ IsCut(conn'[c], conn[c])),
         server' = "down" => conn'[c].phase \in {"free", "ended"},
         conn[c].phase # "free"
  PROVE  ConnInv(c)' /\ ~conn'[c].open /\ ~conn'[c].subbed
<1>1. CASE conn'[c] = Idle
  BY <1>1, FreeConn, Zenon
<1>2. CASE IsEnded(conn'[c], conn[c])
  <2>1. Len(<<>>) = 0 /\ 0 <= SubscriberBuffer /\ \A i : i \notin 1..0
    BY SeatMapConstantsOK
  <2>2. "ended" # "free" /\ "ended" # "accepted" /\ "ended" \in {"free", "ended"}
    OBVIOUS
  <2>3. conn'[c].buf = conn[c].buf \/ conn'[c].buf = <<>>
    BY <1>2, Zenon DEF IsEnded
  <2>4. /\ Len(conn'[c].buf) <= SubscriberBuffer
        /\ \A i \in 1..Len(conn'[c].buf) : conn'[c].buf[i].state \in Known
    BY <2>1, <2>3, Zenon DEF ConnInv
  <2>5. /\ conn[c].wire \in Seq(Update)
        /\ conn'[c].wire = conn[c].wire \/ conn'[c].wire = Written(conn[c].wire)
    BY <1>2, Zenon DEF ConnRec, IsEnded
  <2>6. /\ Len(conn'[c].wire) <= WireCap + 1
        /\ \A i \in 1..Len(conn'[c].wire) : conn'[c].wire[i].state \in Known
    BY <2>5, WrittenFits, Zenon DEF ConnInv
  <2>7. QED
    BY <1>2, <2>2, <2>4, <2>6, Zenon DEF ConnInv, IsEnded
<1>3. CASE conn[c].subbed /\ IsCut(conn'[c], conn[c])
  <2>1. conn[c].phase = "serving"
    BY <1>3, Zenon DEF ConnInv
  <2>2. "serving" # "free" /\ "serving" # "accepted"
    OBVIOUS
  <2>3. QED
    BY <1>3, <2>1, <2>2, Zenon DEF ConnInv, IsCut
<1>4. QED
  BY <1>1, <1>2, <1>3, Zenon

\* Close cuts every subscription.
LEMMA CloseKeeps ==
  ASSUME MapInv, CloseHub
  PROVE  MapInv'
<1> DEFINE all == Registered(Conns)
<1>1. /\ server \in {"signalled", "failed"}
      /\ hub' = [closed |-> TRUE, count |-> hub.count - Cardinality(all)]
      /\ conn' = [c \in Conns |-> IF c \in all THEN Unsubscribed(conn[c]) ELSE conn[c]]
  BY Zenon DEF CloseHub
<1>2. UNCHANGED <<db, log, unsent, topic, disordered, server, tail, tab, faults>>
  BY Zenon DEF CloseHub, seatVars, serverVars
<1>3. all = Subscribed
  BY Zenon DEF Registered, Subscribed
<1>4. server # "down" /\ server' # "down" /\ hub.count \in Int
  BY <1>1, <1>2, Zenon DEF MapInv, MapTypes, ServerTypes
<1>5. hub'.closed = TRUE /\ hub'.count = 0
  BY <1>1, <1>3, <1>4 DEF MapInv, PlaceInv, CountInv
<1>6. SeatTypes' /\ LogInv' /\ OrderInv'
  BY <1>2, SeatsSteady, Zenon DEF MapInv, DataInv
<1>7. ASSUME NEW c \in Conns
      PROVE  /\ conn'[c] \in ConnRec /\ conn'[c].viewer = conn[c].viewer
             /\ conn'[c].phase = conn[c].phase /\ ~conn'[c].open /\ ~conn'[c].subbed
             /\ ConnInv(c)'
  <2>1. ConnInv(c) /\ conn[c] \in ConnRec
    BY Zenon DEF MapInv, PlaceInv, MapTypes, ConnTypes
  <2>2. CASE conn[c].subbed
    <3>1. conn'[c] = Unsubscribed(conn[c])
      BY <1>1, <1>3, <2>2, Zenon DEF Subscribed
    <3>2. conn'[c] \in ConnRec /\ IsCut(conn'[c], conn[c])
      BY <2>1, <3>1, CutFields, Zenon
    <3>3. conn[c].phase = "serving" /\ conn[c].phase # "free"
      BY <2>1, <2>2, Zenon DEF ConnInv
    <3>4. ConnInv(c)' /\ ~conn'[c].open /\ ~conn'[c].subbed
      BY <1>4, <2>1, <2>2, <3>2, <3>3, CutConn, Zenon
    <3>5. QED
      BY <3>2, <3>4, Zenon DEF IsCut
  <2>3. CASE ~conn[c].subbed
    <3>1. conn'[c] = conn[c]
      BY <1>1, <1>3, <2>3, Zenon DEF Subscribed
    <3>2. ConnInv(c)'
      BY <1>2, <1>4, <2>1, <2>3, <3>1, ConnFrame, Zenon
    <3>3. QED
      BY <2>1, <2>3, <3>1, <3>2, Zenon DEF ConnInv
  <2>4. QED
    BY <2>2, <2>3, Zenon
<1>8. ConnTypes' /\ TabTypes'
  BY <1>1, <1>2, <1>7, Zenon DEF ConnTypes, MapInv, MapTypes, TabTypes
<1>9. hub' \in [closed : BOOLEAN, count : Int]
  BY <1>1, <1>3, <1>4, SubscribedFinite
<1>10. ServerTypes'
  BY <1>2, <1>9, Zenon DEF MapInv, MapTypes, ServerTypes
<1>11. ASSUME NEW b \in Browsers PROVE LinkInv(b)'
  <2>1. tab[b].link \in Conns \cup {NoConn}
    BY Zenon DEF MapInv, MapTypes, TabTypes, TabRec
  <2>2. LinkInv(b)
    BY Zenon DEF MapInv, PlaceInv
  <2>3. tab[b].link # NoConn => tab[b].link \in Conns
    BY <2>1, Zenon
  <2>4. QED
    BY <1>2, <1>7, <2>2, <2>3, LinkFrame, Zenon DEF LinkInv
<1>12. (\A c \in Conns : FlowInv(c)') /\ (\A b \in Browsers : FreshInv(b)')
  BY <1>7, <1>8, <1>11, NothingOpen, Zenon
<1>13. CountInv'
  <2>1. Subscribed' = {}
    BY <1>7, Zenon DEF Subscribed
  <2>2. QED
    BY <1>5, <2>1, FS_EmptySet, SeatMapConstantsOK DEF CountInv
<1>14. QED
  BY <1>6, <1>7, <1>8, <1>10, <1>11, <1>12, <1>13, Zenon DEF MapInv, MapTypes, PlaceInv, DataInv

\* The process dies: what it had queued and written stays with the pages that still read it.
LEMMA DeathKeeps ==
  ASSUME MapInv, ServerDies
  PROVE  MapInv'
<1>1. /\ server' = "down" /\ tail' = -1 /\ faults < MaxFaults /\ faults' = faults + 1
      /\ conn' = [c \in Conns |-> IF Alive(c)
                                  THEN [Unsubscribed(conn[c]) EXCEPT !.phase = "ended",
                                                                     !.wire = Written(@)]
                                  ELSE Idle]
  BY Zenon DEF ServerDies, Fault
<1>0. server' = "down" /\ tail' = -1 /\ faults < MaxFaults /\ faults' = faults + 1
  BY <1>1, Zenon
<1>2. UNCHANGED <<db, log, unsent, topic, disordered, hub, tab>>
  BY Zenon DEF ServerDies, seatVars
<1>3. SeatTypes' /\ LogInv' /\ OrderInv'
  BY <1>2, SeatsSteady, Zenon DEF MapInv, DataInv
<1>4. /\ faults' \in 0..MaxFaults /\ tail' \in -1..Len(topic')
      /\ server' \in {"up", "signalled", "failed", "down"}
  BY <1>0, <1>3, SeatMapConstantsOK DEF MapInv, MapTypes, ServerTypes, SeatTypes
<1>5. ServerTypes'
  BY <1>2, <1>4, Zenon DEF MapInv, MapTypes, ServerTypes
<1>6. ASSUME NEW c \in Conns
      PROVE  /\ conn'[c] \in ConnRec /\ ConnInv(c)' /\ ~conn'[c].open
             /\ Alive(c) => conn'[c].viewer = conn[c].viewer /\ conn'[c].phase = "ended"
  <2>1. ConnInv(c) /\ conn[c] \in ConnRec
    BY Zenon DEF MapInv, PlaceInv, MapTypes, ConnTypes
  <2>2. CASE Alive(c)
    <3>1. conn'[c] = [Unsubscribed(conn[c]) EXCEPT !.phase = "ended", !.wire = Written(@)]
      BY <1>1, <2>2, Zenon
    <3>2. conn'[c] \in ConnRec /\ IsEnded(conn'[c], conn[c])
      BY <2>1, <3>1, CutFields, Zenon
    <3>3. conn[c].phase # "free" /\ conn'[c].phase \in {"free", "ended"}
      BY <2>2, <3>2, Zenon DEF Alive, IsEnded
    <3>4. ConnInv(c)' /\ ~conn'[c].open
      BY <2>1, <3>2, <3>3, CutConn, Zenon
    <3>5. QED
      BY <3>2, <3>4, Zenon DEF IsEnded
  <2>3. CASE ~Alive(c)
    <3>1. conn'[c] = Idle
      BY <1>1, <2>3, Zenon
    <3>2. QED
      BY <2>3, <3>1, IdleFields, FreeConn, Zenon
  <2>4. QED
    BY <2>2, <2>3, Zenon
<1>7. ConnTypes' /\ TabTypes'
  BY <1>1, <1>2, <1>6, Zenon DEF ConnTypes, MapInv, MapTypes, TabTypes
<1>8. ASSUME NEW b \in Browsers PROVE LinkInv(b)'
  <2>1. LinkInv(b)
    BY Zenon DEF MapInv, PlaceInv
  <2>2. tab[b].link # NoConn => tab[b].link \in Conns /\ Alive(tab[b].link)
    BY OwnLink, Zenon DEF MapInv
  <2>3. "ended" # "free" /\ "ended" # "accepted"
    OBVIOUS
  <2>4. QED
    BY <1>2, <1>6, <2>1, <2>2, <2>3, LinkFrame, Zenon DEF LinkInv
<1>9. (\A c \in Conns : FlowInv(c)') /\ (\A b \in Browsers : FreshInv(b)')
  BY <1>6, <1>7, <1>8, NothingOpen, Zenon
<1>10. CountInv'
  BY <1>1, Zenon DEF CountInv
<1>11. QED
  BY <1>3, <1>5, <1>6, <1>7, <1>8, <1>9, <1>10, Zenon DEF MapInv, MapTypes, PlaceInv, DataInv

-----------------------------------------------------------------------------
(* The tail reads a message and the hub passes it on.                      *)

\* What Publish does to each connection, and to the count.
LEMMA FeedEffect ==
  ASSUME MapInv, NEW row \in Row, Feed(row), NEW u,
         u = [seat |-> row.seat, state |-> SeatStateName(row.state)]
  PROVE  /\ u \in Update /\ u.seat = row.seat /\ u.state = SeatStateName(row.state)
         /\ u.state \in Known /\ ConnTypes'
         /\ hub'.closed = hub.closed /\ hub' \in [closed : BOOLEAN, count : Int]
         /\ server # "down" /\ server' = server => CountInv'
         /\ \A c \in Conns :
              \/ /\ conn[c].subbed /\ Watches[conn[c].viewer] = EventOf[row.seat]
                 /\ IsCut(conn'[c], conn[c])
              \/ /\ conn[c].subbed /\ Watches[conn[c].viewer] = EventOf[row.seat]
                 /\ Len(conn[c].buf) < SubscriberBuffer /\ IsPushed(conn'[c], conn[c], u)
              \/ /\ ~(conn[c].subbed /\ Watches[conn[c].viewer] = EventOf[row.seat])
                 /\ conn'[c] = conn[c]
<1> DEFINE e == EventOf[row.seat]
           slow == Registered(Slow(Watchers(e)))
<1>1. /\ conn' = [c \in Conns |->
                    CASE c \in slow -> Unsubscribed(conn[c])
                      [] c \in Watchers(e) \ slow -> [conn[c] EXCEPT !.buf = Append(@, u)]
                      [] OTHER -> conn[c]]
      /\ hub' = Freed(Cardinality(slow))
  BY Zenon DEF Feed, Publish
<1>2. u.seat = row.seat /\ u.state = SeatStateName(row.state) /\ row.state \in Statuses
      /\ row.seat \in Seats
  BY Zenon DEF Row
<1>3. u.state \in Known
  BY <1>2, NamesAgree, Zenon
<1>4. u \in Update
  BY <1>2, <1>3, Zenon DEF Update, Names, Known
<1>5. \A c \in Conns : /\ c \in Watchers(e) <=> conn[c].subbed /\ Watches[conn[c].viewer] = e
                       /\ c \in slow <=> c \in Watchers(e) /\ Len(conn[c].buf) >= SubscriberBuffer
  BY Zenon DEF Watchers, Slow, Registered
<1>6. slow \subseteq Subscribed
  BY Zenon DEF Registered, Slow, Watchers, Subscribed
<1> HIDE DEF slow, e
<1>7. ASSUME NEW c \in Conns
      PROVE  /\ conn'[c] \in ConnRec
             /\ \/ c \in slow /\ IsCut(conn'[c], conn[c])
                \/ /\ c \notin slow /\ c \in Watchers(e) /\ Len(conn[c].buf) < SubscriberBuffer
                   /\ IsPushed(conn'[c], conn[c], u)
                \/ c \notin Watchers(e) /\ conn'[c] = conn[c]
  <2>1. conn[c] \in ConnRec /\ Len(conn[c].buf) \in Nat
    BY DEF MapInv, MapTypes, ConnTypes, ConnRec
  <2>2. CASE c \in slow
    <3>1. conn'[c] = Unsubscribed(conn[c])
      BY <1>1, <2>2, Zenon
    <3>2. QED
      BY <2>1, <2>2, <3>1, CutFields, Zenon
  <2>3. CASE c \in Watchers(e) \ slow
    <3>1. conn'[c] = [conn[c] EXCEPT !.buf = Append(@, u)]
      BY <1>1, <2>3, Zenon
    <3>2. Len(conn[c].buf) < SubscriberBuffer
      BY <1>5, <2>1, <2>3, SeatMapConstantsOK
    <3>3. QED
      BY <1>4, <2>1, <2>3, <3>1, <3>2, PushFields, Zenon
  <2>4. CASE c \notin Watchers(e)
    <3>1. c \notin slow
      BY <1>5, <2>4, Zenon
    <3>2. conn'[c] = conn[c]
      BY <1>1, <2>4, <3>1, Zenon
    <3>3. QED
      BY <2>1, <2>4, <3>2, Zenon
  <2>5. QED
    BY <2>2, <2>3, <2>4, Zenon
<1>8. ConnTypes'
  BY <1>1, <1>7, Zenon DEF ConnTypes
<1>9. IsFiniteSet(slow) /\ Cardinality(slow) \in Nat
  BY <1>6, SubscribedFinite, FS_Subset, FS_CardinalityType, Zenon
<1>10. /\ hub' \in [closed : BOOLEAN, count : Int] /\ hub'.count = hub.count - Cardinality(slow)
       /\ hub.count \in Int
  BY <1>1, <1>9 DEF Freed, MapInv, MapTypes, ServerTypes
<1>11. hub'.closed = hub.closed
  BY <1>1, Zenon DEF Freed, MapInv, MapTypes, ServerTypes
<1>12. Subscribed' = Subscribed \ slow
  <2>1. ASSUME NEW c \in Conns PROVE conn'[c].subbed <=> conn[c].subbed /\ c \notin slow
    BY <1>5, <1>7, Zenon DEF IsCut, IsPushed
  <2>2. QED
    BY <2>1, Zenon DEF Subscribed
<1>13. ASSUME server # "down", server' = server PROVE CountInv'
  <2>1. Subscribed \cap slow = slow
    BY <1>6, Zenon
  <2>2. Cardinality(Subscribed') = Cardinality(Subscribed) - Cardinality(slow)
    <3>1. Cardinality(Subscribed \ slow)
            = Cardinality(Subscribed) - Cardinality(Subscribed \cap slow)
      BY SubscribedFinite, FS_Difference, Zenon
    <3>2. QED
      BY <1>12, <2>1, <3>1, Zenon
  <2>3. hub.count = Cardinality(Subscribed) /\ hub.count <= MaxSubscribers
    BY <1>13, Zenon DEF MapInv, PlaceInv, CountInv
  <2>4. QED
    BY <1>9, <1>10, <1>13, <2>2, <2>3, SeatMapConstantsOK DEF CountInv
<1>14. \A c \in Conns :
         \/ conn[c].subbed /\ Watches[conn[c].viewer] = e /\ IsCut(conn'[c], conn[c])
         \/ /\ conn[c].subbed /\ Watches[conn[c].viewer] = e
            /\ Len(conn[c].buf) < SubscriberBuffer /\ IsPushed(conn'[c], conn[c], u)
         \/ ~(conn[c].subbed /\ Watches[conn[c].viewer] = e) /\ conn'[c] = conn[c]
  BY <1>5, <1>7, Zenon
<1>15. QED
  BY <1>2, <1>3, <1>4, <1>8, <1>10, <1>11, <1>13, <1>14 DEF e

\* An update queued on a connection with room.
LEMMA PushedConn ==
  ASSUME NEW c \in Conns, ConnTypes, ConnInv(c), conn[c].subbed,
         NEW u \in Update, u.state \in Known,
         IsPushed(conn'[c], conn[c], u), Len(conn[c].buf) < SubscriberBuffer,
         hub'.closed = hub.closed, server' = server, server # "down", tail' # -1
  PROVE  ConnInv(c)'
<1> DEFINE q == conn[c].buf
<1>1. q \in Seq(Update) /\ Len(q) \in Nat
  BY DEF ConnTypes, ConnRec
<1>2. conn'[c].buf = Append(q, u)
  BY Zenon DEF IsPushed
<1>3. /\ Len(Append(q, u)) = Len(q) + 1 /\ Append(q, u)[Len(q) + 1] = u
      /\ \A i \in 1..Len(q) : Append(q, u)[i] = q[i]
  BY <1>1
<1>4. \A i \in 1..Len(q) : q[i].state \in Known
  BY Zenon DEF ConnInv
<1>5. \A i \in 1..Len(conn'[c].buf) : conn'[c].buf[i].state \in Known
  <2>1. SUFFICES ASSUME NEW i \in 1..(Len(q) + 1) PROVE Append(q, u)[i].state \in Known
    BY <1>2, <1>3, Zenon
  <2>2. i \in 1..Len(q) \/ i = Len(q) + 1
    BY <1>1
  <2>3. QED
    BY <1>3, <1>4, <2>2, Zenon
<1>6. Len(conn'[c].buf) <= SubscriberBuffer
  BY <1>1, <1>2, <1>3, SeatMapConstantsOK
<1>7. conn[c].phase = "serving" /\ "serving" # "free" /\ "serving" # "accepted"
  BY Zenon DEF ConnInv
<1>8. QED
  BY <1>5, <1>6, <1>7, Zenon DEF ConnInv, IsPushed

\* The tail passes on the next change: whoever watches the seat has it queued or is cut off.
LEMMA ReadKeeps ==
  ASSUME MapInv, TailReads
  PROVE  MapInv'
<1> DEFINE k == topic[tail + 1]
           row == log[k]
           u == [seat |-> row.seat, state |-> SeatStateName(row.state)]
<1>1. /\ server = "up" /\ server' = server /\ server # "down" /\ tail >= 0 /\ tail < Len(topic)
      /\ Feed(row) /\ tail' = tail + 1
  BY Zenon DEF TailReads
<1>2. UNCHANGED <<db, log, unsent, topic, disordered, tab, faults>>
  BY Zenon DEF TailReads, seatVars
<1>3. /\ Len(topic) \in Nat /\ Len(log) \in Nat /\ tail \in Int /\ tail + 1 \in 1..Len(topic)
      /\ log \in Seq(Row)
  BY <1>1 DEF MapInv, MapTypes, SeatTypes, ServerTypes
<1>4. k \in 1..Len(log) /\ row \in Row
  BY <1>3 DEF MapInv, MapTypes, SeatTypes
<1>5. SeatTypes' /\ LogInv' /\ OrderInv' /\ \A s : Name(s)' = Name(s)
  BY <1>2, SeatsSteady, Zenon DEF MapInv, DataInv
<1>6. /\ tail' \in -1..Len(topic') /\ tail' # -1 /\ tail' >= 0
  BY <1>1, <1>2, <1>3
<1> HIDE DEF row, u, k
<1>7. /\ u \in Update /\ u.seat = row.seat /\ u.state = SeatStateName(row.state)
      /\ u.state \in Known /\ ConnTypes'
      /\ hub'.closed = hub.closed /\ hub' \in [closed : BOOLEAN, count : Int]
      /\ CountInv'
  BY <1>1, <1>4, FeedEffect, Zenon DEF u
<1>8. \A c \in Conns :
         \/ /\ conn[c].subbed /\ Watches[conn[c].viewer] = EventOf[row.seat]
            /\ IsCut(conn'[c], conn[c])
         \/ /\ conn[c].subbed /\ Watches[conn[c].viewer] = EventOf[row.seat]
            /\ Len(conn[c].buf) < SubscriberBuffer /\ IsPushed(conn'[c], conn[c], u)
         \/ /\ ~(conn[c].subbed /\ Watches[conn[c].viewer] = EventOf[row.seat])
            /\ conn'[c] = conn[c]
  BY <1>1, <1>4, FeedEffect, Zenon DEF u
<1>9. ServerTypes' /\ TabTypes'
  BY <1>1, <1>2, <1>6, <1>7, Zenon DEF MapInv, MapTypes, ServerTypes, TabTypes
<1>10. ASSUME NEW c \in Conns PROVE ConnInv(c)'
  <2>1. ConnInv(c) /\ ConnTypes
    BY Zenon DEF MapInv, PlaceInv, MapTypes
  <2>2. conn[c].subbed => conn[c].phase = "serving"
    BY <2>1, Zenon DEF ConnInv
  <2>3. conn[c].subbed => conn[c].phase # "free"
    BY <2>2, Zenon
  <2>4. CASE conn[c].subbed /\ IsCut(conn'[c], conn[c])
    <3>1. conn[c] \in ConnRec
      BY <2>1, Zenon DEF ConnTypes
    <3>2. QED
      BY <1>1, <2>1, <2>3, <2>4, <3>1, CutConn, Zenon
  <2>5. CASE conn[c].subbed /\ Len(conn[c].buf) < SubscriberBuffer /\ IsPushed(conn'[c], conn[c], u)
    BY <1>1, <1>6, <1>7, <2>1, <2>5, PushedConn, Zenon
  <2>6. CASE conn'[c] = conn[c]
    <3>1. conn[c].subbed => ~hub'.closed
      BY <1>7, <2>1, Zenon DEF ConnInv
    <3>2. QED
      BY <1>1, <1>6, <2>1, <2>6, <3>1, ConnFrame, Zenon
  <2>7. QED
    BY <1>8, <2>4, <2>5, <2>6, Zenon
<1>11. ASSUME NEW b \in Browsers PROVE LinkInv(b)'
  <2>1. LinkInv(b)
    BY Zenon DEF MapInv, PlaceInv
  <2>2. tab[b].link # NoConn => tab[b].link \in Conns
    BY OwnLink, Zenon DEF MapInv
  <2>3. ASSUME tab[b].link # NoConn
        PROVE  LET r == conn[tab[b].link]
                   q == conn'[tab[b].link]
               IN  q.viewer = r.viewer /\ q.phase = r.phase /\ (q.open => r.open)
    BY <1>8, <2>2, <2>3, Zenon DEF IsCut, IsPushed
  <2>4. QED
    BY <1>2, <1>6, <2>1, <2>3, LinkFrame, Zenon DEF LinkInv
<1>12. ASSUME ~disordered PROVE k = tail + 1
  BY <1>3, <1>12, Zenon DEF k, MapInv, DataInv, OrderInv
<1>13. ASSUME ~disordered, NEW s, ~Late(s)', s # row.seat PROVE ~Late(s)
  <2>1. SUFFICES ASSUME NEW i \in 1..Len(log), i > tail, log[i].seat = s PROVE FALSE
    BY Zenon DEF Late
  <2>2. i # tail + 1
    BY <1>12, <1>13, <2>1, Zenon DEF row
  <2>3. i > tail'
    BY <1>1, <1>3, <2>1, <2>2
  <2>4. QED
    BY <1>2, <1>13, <2>1, <2>3, Zenon DEF Late
<1>14. ASSUME ~disordered, NEW s, s = row.seat, ~Late(s)' PROVE u.state = Name(s)
  <2>1. \A j \in 1..Len(log) : j > k => log[j].seat # log[k].seat
    <3>1. k = tail'
      BY <1>1, <1>12, <1>14, Zenon
    <3>2. \A j \in 1..Len(log) : j > tail' => log[j].seat # s
      BY <1>2, <1>14, Zenon DEF Late
    <3>3. QED
      BY <1>14, <3>1, <3>2, Zenon DEF row
  <2>2. row.state = db[row.seat]
    BY <1>4, <2>1, Zenon DEF row, MapInv, DataInv, LogInv
  <2>3. row.state \in Statuses
    BY <1>4, Zenon DEF Row
  <2>4. QED
    BY <1>7, <1>14, <2>2, <2>3, NamesAgree, Zenon DEF Name
<1>15. ASSUME NEW c \in Conns PROVE FlowInv(c)'
  <2>1. SUFFICES ASSUME ~disordered', conn'[c].open, NEW s \in Seats,
                        EventOf[s] = Watches[conn'[c].viewer], ~Late(s)'
                 PROVE  /\ EndsWith(conn'[c].buf, s, Name(s)')
                        /\ ~Has(conn'[c].buf, s) => EndsWith(conn'[c].wire, s, Name(s)')
    BY Zenon DEF FlowInv
  <2>2. FlowInv(c) /\ ConnInv(c) /\ conn[c].buf \in Seq(Update) /\ ~disordered /\ Name(s)' = Name(s)
    BY <1>2, <1>5, <2>1, Zenon DEF MapInv, DataInv, PlaceInv, MapTypes, ConnTypes, ConnRec
  <2>3. CASE /\ conn[c].subbed /\ Watches[conn[c].viewer] = EventOf[row.seat]
             /\ IsPushed(conn'[c], conn[c], u)
    <3>1. /\ conn'[c].viewer = conn[c].viewer /\ conn'[c].wire = conn[c].wire /\ conn[c].open
          /\ conn'[c].buf = Append(conn[c].buf, u)
      BY <2>1, <2>3, Zenon DEF IsPushed
    <3>2. CASE s = row.seat
      <4>1. u.seat = s /\ u.state = Name(s)
        BY <1>7, <1>14, <2>1, <2>2, <3>2, Zenon
      <4>2. EndsWith(Append(conn[c].buf, u), s, Name(s)) /\ Has(Append(conn[c].buf, u), s)
        BY <1>7, <2>2, <4>1, QueueEnd, Zenon
      <4>3. QED
        BY <2>2, <3>1, <4>2, Zenon
    <3>3. CASE s # row.seat
      <4>1. ~Late(s)
        BY <1>13, <2>1, <2>2, <3>3
      <4>2. /\ EndsWith(conn[c].buf, s, Name(s))
            /\ ~Has(conn[c].buf, s) => EndsWith(conn[c].wire, s, Name(s))
        BY <2>1, <2>2, <3>1, <4>1, Zenon DEF FlowInv
      <4>3. u.seat # s
        BY <1>7, <3>3
      <4>4. /\ EndsWith(Append(conn[c].buf, u), s, Name(s))
            /\ Has(Append(conn[c].buf, u), s) <=> Has(conn[c].buf, s)
        BY <1>7, <2>2, <4>2, <4>3, QueueEnd, Zenon
      <4>5. QED
        BY <2>2, <3>1, <4>2, <4>4, Zenon
    <3>4. QED
      BY <3>2, <3>3
  <2>4. CASE /\ ~(conn[c].subbed /\ Watches[conn[c].viewer] = EventOf[row.seat])
             /\ conn'[c] = conn[c]
    <3>1. conn[c].open /\ conn[c].subbed
      BY <2>1, <2>2, <2>4, Zenon DEF ConnInv
    <3>2. s # row.seat
      BY <2>1, <2>4, <3>1, Zenon
    <3>3. ~Late(s)
      BY <1>13, <2>1, <2>2, <3>2
    <3>4. QED
      BY <2>1, <2>2, <2>4, <3>1, <3>3, Zenon DEF FlowInv
  <2>5. ~IsCut(conn'[c], conn[c])
    BY <2>1, Zenon DEF IsCut
  <2>6. QED
    BY <1>8, <2>3, <2>4, <2>5, Zenon
<1>16. ASSUME NEW b \in Browsers PROVE FreshInv(b)'
  <2> DEFINE l == tab[b].link
  <2>1. SUFFICES ASSUME ~disordered', tab[b].page = "open", conn'[l].open
                 PROVE  /\ conn[l].open
                        /\ \A s \in ShownSeats(b) : Pending(l, s) => Pending(l, s)'
    BY <1>2, <1>5, FreshFrame, Zenon DEF MapInv, DataInv
  <2>2. l # NoConn
    BY <2>1, Zenon DEF MapInv, PlaceInv, LinkInv
  <2>3. l \in Conns /\ conn[l].viewer = b
    BY <2>2, OwnLink, Zenon DEF MapInv
  <2>4. ~IsCut(conn'[l], conn[l])
    BY <2>1, Zenon DEF IsCut
  <2>5. conn[l].open /\ conn'[l].wire = conn[l].wire
    BY <1>8, <2>1, <2>3, <2>4, Zenon DEF IsPushed
  <2>6. ConnInv(l) /\ conn[l].buf \in Seq(Update)
    BY <2>3, Zenon DEF MapInv, PlaceInv, MapTypes, ConnTypes, ConnRec
  <2>7. conn[l].subbed
    BY <2>5, <2>6, Zenon DEF ConnInv
  <2>8. ASSUME NEW s \in ShownSeats(b), Late(s) PROVE Late(s)' \/ Has(conn'[l].buf, s)
    <3>1. CASE s # row.seat
      BY <1>2, <1>13, <2>1, <2>8, <3>1
    <3>2. CASE s = row.seat
      <4>1. Watches[conn[l].viewer] = EventOf[row.seat]
        BY <2>3, <3>2, Zenon DEF ShownSeats
      <4>2. conn'[l].buf = Append(conn[l].buf, u)
        BY <1>8, <2>3, <2>4, <2>7, <4>1, Zenon DEF IsPushed
      <4>3. Has(Append(conn[l].buf, u), s)
        BY <1>7, <2>6, <3>2, QueueEnd, Zenon
      <4>4. QED
        BY <4>2, <4>3, Zenon
    <3>3. QED
      BY <3>1, <3>2, Zenon
  <2>9. ASSUME NEW s, Has(conn[l].buf, s) PROVE Has(conn'[l].buf, s)
    <3>1. conn'[l].buf = conn[l].buf \/ conn'[l].buf = Append(conn[l].buf, u)
      BY <1>8, <2>3, <2>4, Zenon DEF IsPushed
    <3>2. Has(Append(conn[l].buf, u), s)
      BY <1>7, <2>6, <2>9, QueueEnd, Zenon
    <3>3. QED
      BY <2>9, <3>1, <3>2, Zenon
  <2>10. QED
    BY <1>2, <2>5, <2>8, <2>9, Zenon DEF Pending
<1>17. QED
  BY <1>5, <1>7, <1>9, <1>10, <1>11, <1>15, <1>16, Zenon DEF MapInv, MapTypes, PlaceInv, DataInv

-----------------------------------------------------------------------------
(* The stream handler.                                                     *)

\* A step of one connection, with at most one page: everything else stays.
LEMMA OneConn ==
  ASSUME MapInv, Steady, ConnTypes', TabTypes', CountInv', faults' \in 0..MaxFaults,
         hub' \in [closed : BOOLEAN, count : Int], NEW c,
         \A x \in Conns : x # c => conn'[x] = conn[x],
         c \in Conns => ConnInv(c)' /\ FlowInv(c)',
         \A b \in Browsers :
           \/ LinkInv(b)' /\ FreshInv(b)'
           \/ tab'[b] = tab[b] /\ tab[b].link # c
  PROVE  MapInv'
<1>1. SeatTypes' /\ LogInv' /\ OrderInv'
  BY SeatsSteady, Zenon DEF MapInv, DataInv, Steady
<1>2. ServerTypes'
  BY Zenon DEF MapInv, MapTypes, ServerTypes, Steady
<1>3. ASSUME NEW x \in Conns PROVE ConnInv(x)' /\ FlowInv(x)'
  <2>1. CASE x = c
    BY <2>1, Zenon
  <2>2. CASE x # c
    BY <2>2, OtherConn, Zenon DEF MapInv
  <2>3. QED
    BY <2>1, <2>2, Zenon
<1>4. ASSUME NEW b \in Browsers PROVE LinkInv(b)' /\ FreshInv(b)'
  <2>1. CASE tab'[b] = tab[b] /\ tab[b].link # c
    <3>1. tab[b].link # NoConn => tab[b].link \in Conns
      BY OwnLink, Zenon DEF MapInv
    <3>2. QED
      BY <2>1, <3>1, OtherPage, Zenon DEF MapInv
  <2>2. QED
    BY <2>1, Zenon
<1>5. QED
  BY <1>1, <1>2, <1>3, <1>4, Zenon DEF MapInv, MapTypes, PlaceInv, DataInv

\* The hub refuses, and the request is answered with 503.
LEMMA RefuseKeeps ==
  ASSUME MapInv, NEW c \in Conns, Subscribe(c), Refused
  PROVE  MapInv'
<1> DEFINE v == conn[c].viewer
           t == [tab[v] EXCEPT !.page = "waiting", !.link = NoConn]
<1>1. /\ conn[c].phase = "accepted" /\ conn' = [conn EXCEPT ![c] = Idle] /\ hub' = hub
      /\ tab' = IF Alive(c) THEN [tab EXCEPT ![v].page = "waiting", ![v].link = NoConn] ELSE tab
  BY Zenon DEF Subscribe
<1>2. UNCHANGED <<db, log, unsent, topic, disordered, server, tail, faults>> /\ Steady
  BY <1>1, Zenon DEF Subscribe, seatVars, serverVars, Steady
<1>3. ConnTypes /\ TabTypes /\ ConnInv(c) /\ "accepted" # "free" /\ "accepted" # "serving"
  BY Zenon DEF MapInv, MapTypes, PlaceInv
<1>4. ConnTypes' /\ conn'[c] = Idle /\ \A x \in Conns : x # c => conn'[x] = conn[x]
  BY <1>1, <1>3, IdleFields, ConnUpdate, Zenon
<1>5. ConnInv(c)' /\ FlowInv(c)' /\ ~conn'[c].subbed
  BY <1>4, FreeConn, Zenon
<1>6. ~conn[c].subbed /\ v \in Browsers
  BY <1>1, <1>3, Zenon DEF ConnInv
<1>7. CountInv'
  <2>1. \A x \in Conns : conn'[x].subbed <=> conn[x].subbed
    BY <1>4, <1>5, <1>6, Zenon
  <2>2. QED
    BY <1>1, <1>2, <2>1, CountSteady, Zenon DEF MapInv, PlaceInv
<1>8. CASE Alive(c)
  <2>1. tab[v] \in TabRec(v) /\ tab[v].link = c /\ c # NoConn
    BY <1>3, <1>6, <1>8, SeatMapConstantsOK, Zenon DEF TabTypes, Alive
  <2>2. tab' = [tab EXCEPT ![v] = t]
    BY <1>1, <1>3, <1>6, <1>8, Zenon DEF TabTypes
  <2>3. t \in TabRec(v) /\ t.page = "waiting" /\ t.link = NoConn
    BY <2>1, Zenon DEF TabRec
  <2>4. t.clean = tab[v].clean /\ t.sound = tab[v].sound
    BY <2>1, Zenon DEF TabRec
  <2> HIDE DEF t
  <2>5. ~tab[v].clean /\ ~tab[v].sound
    BY <1>1, <1>6, <2>1, Zenon DEF MapInv, PlaceInv, LinkInv
  <2>6. Parted(t)
    BY <2>3, <2>4, <2>5, Zenon DEF Parted
  <2>7. TabTypes' /\ tab'[v] = t /\ \A x \in Browsers : x # v => tab'[x] = tab[x]
    BY <1>3, <1>6, <2>2, <2>3, TabUpdate, Zenon
  <2>8. \A x \in Browsers : x # v => tab[x].link # c
    BY <1>6, <2>1, OwnLink, Zenon DEF MapInv
  <2>9. \A b \in Browsers : \/ LinkInv(b)' /\ FreshInv(b)'
                            \/ tab'[b] = tab[b] /\ tab[b].link # c
    BY <2>6, <2>7, <2>8, PartedPage, Zenon
  <2>10. QED
    BY <1>1, <1>2, <1>4, <1>5, <1>7, <2>7, <2>9, OneConn, Zenon
         DEF MapInv, MapTypes, ServerTypes
<1>9. CASE ~Alive(c)
  <2>1. tab' = tab
    BY <1>1, <1>9
  <2>2. TabTypes'
    BY <1>3, <2>1, Zenon DEF TabTypes
  <2>3. \A b \in Browsers : tab[b].link # c
    BY <1>9, OwnLink, SeatMapConstantsOK, Zenon DEF MapInv
  <2>4. QED
    BY <1>1, <1>2, <1>4, <1>5, <1>7, <2>1, <2>2, <2>3, OneConn, ZenonT(60)
         DEF MapInv, MapTypes, ServerTypes
<1>10. QED
  BY <1>8, <1>9

\* The hub takes the subscription.
LEMMA SubscribeKeeps ==
  ASSUME MapInv, NEW c \in Conns, Subscribe(c), ~Refused
  PROVE  MapInv'
<1> DEFINE e == [conn[c] EXCEPT !.phase = "serving", !.subbed = TRUE, !.open = TRUE, !.hello = TRUE]
<1>1. /\ conn[c].phase = "accepted" /\ hub' = [hub EXCEPT !.count = @ + 1] /\ tab' = tab
      /\ conn' = [conn EXCEPT ![c].phase = "serving", ![c].subbed = TRUE,
                              ![c].open = TRUE, ![c].hello = TRUE]
  BY Zenon DEF Subscribe
<1>2. UNCHANGED <<db, log, unsent, topic, disordered, server, tail, faults>>
  BY Zenon DEF Subscribe, seatVars, serverVars
<1>3. /\ ConnTypes /\ TabTypes /\ ConnInv(c) /\ conn[c] \in ConnRec
      /\ hub \in [closed : BOOLEAN, count : Int] /\ ~hub.closed /\ hub.count < MaxSubscribers
  BY SeatMapConstantsOK DEF MapInv, MapTypes, ConnTypes, ServerTypes, PlaceInv, Refused
<1>4. /\ hub' \in [closed : BOOLEAN, count : Int] /\ hub'.count = hub.count + 1
  BY <1>1, <1>3
<1>5. hub'.closed = hub.closed
  BY <1>1, <1>3, Zenon
<1>6. conn' = [conn EXCEPT ![c] = e]
  BY <1>1, <1>3, Zenon DEF ConnTypes
<1>7. e \in ConnRec /\ IsServed(e, conn[c])
  <2>1. conn[c].viewer \in Browsers
    BY <1>1, <1>3, Zenon DEF ConnInv
  <2>2. QED
    BY <1>3, <2>1, ServeFields, Zenon
<1> HIDE DEF e
<1>8. ConnTypes' /\ conn'[c] = e /\ \A x \in Conns : x # c => conn'[x] = conn[x]
  BY <1>3, <1>6, <1>7, ConnUpdate, Zenon
<1>9. Steady
  BY <1>2, <1>5, Zenon DEF Steady
<1>10. /\ conn[c].viewer \in Browsers /\ conn[c].buf = <<>> /\ conn[c].wire = <<>>
       /\ ~conn[c].subbed /\ server # "down"
  <2>1. "accepted" # "free" /\ "accepted" # "serving" /\ "accepted" \notin {"free", "ended"}
    OBVIOUS
  <2>2. QED
    BY <1>1, <1>3, <2>1, Zenon DEF ConnInv
<1>11. ConnInv(c)'
  <2>1. "serving" # "free" /\ "serving" # "accepted"
    OBVIOUS
  <2>2. QED
    BY <1>2, <1>3, <1>5, <1>7, <1>8, <1>10, <2>1, Zenon DEF ConnInv, IsServed
<1>12. FlowInv(c)'
  <2>1. conn'[c].buf = <<>> /\ conn'[c].wire = <<>>
    BY <1>7, <1>8, <1>10, Zenon DEF IsServed
  <2>2. QED
    BY <2>1, QueueEmpty, Zenon DEF FlowInv
<1>13. CountInv'
  <2>1. c \notin Subscribed /\ Subscribed' = Subscribed \cup {c}
    <3>1. \A x \in Conns : conn'[x].subbed <=> x = c \/ conn[x].subbed
      BY <1>7, <1>8, Zenon DEF IsServed
    <3>2. QED
      BY <1>10, <3>1, Zenon DEF Subscribed
  <2>2. Cardinality(Subscribed') = Cardinality(Subscribed) + 1
    BY <2>1, SubscribedFinite, FS_AddElement, Zenon
  <2>3. QED
    BY <1>2, <1>3, <1>4, <1>10, <2>2, SeatMapConstantsOK DEF CountInv, MapInv, PlaceInv
<1>14. ASSUME NEW b \in Browsers, tab[b].link = c PROVE LinkInv(b)' /\ FreshInv(b)'
  <2>1. LinkInv(b) /\ c # NoConn
    BY SeatMapConstantsOK, Zenon DEF MapInv, PlaceInv
  <2>2. tab[b].page # "open" /\ ~tab[b].clean /\ ~tab[b].sound /\ conn[c].viewer = b
    BY <1>1, <1>14, <2>1, Zenon DEF LinkInv
  <2>3. "serving" # "free" /\ conn'[c].viewer = conn[c].viewer /\ conn'[c].phase = "serving"
    BY <1>7, <1>8, Zenon DEF IsServed
  <2>4. LinkInv(b)'
    BY <1>1, <1>14, <2>1, <2>2, <2>3, Zenon DEF LinkInv
  <2>5. FreshInv(b)'
    BY <1>1, <2>2, Zenon DEF FreshInv
  <2>6. QED
    BY <2>4, <2>5, Zenon
<1>15. TabTypes'
  BY <1>1, <1>3, Zenon DEF TabTypes
<1>16. QED
  BY <1>1, <1>2, <1>4, <1>8, <1>9, <1>11, <1>12, <1>13, <1>14, <1>15, OneConn, Zenon
       DEF MapInv, MapTypes, ServerTypes

\* The handler returns: its subscription leaves the hub once.
LEMMA ReturnKeeps ==
  ASSUME MapInv, NEW c \in Conns, conn[c].phase = "serving", Return(c)
  PROVE  MapInv'
<1> DEFINE e == [Unsubscribed(conn[c]) EXCEPT !.phase = "ended", !.buf = <<>>]
           f == IF Alive(c) THEN e ELSE Idle
           gone == Registered({c})
<1>1. hub' = Freed(Cardinality(gone)) /\ conn' = [conn EXCEPT ![c] = f] /\ tab' = tab
  BY Zenon DEF Return, MapInv, MapTypes, ConnTypes
<1>2. UNCHANGED <<db, log, unsent, topic, disordered, server, tail, faults>>
  BY Zenon DEF Return, seatVars, serverVars
<1>3. /\ ConnTypes /\ TabTypes /\ ConnInv(c) /\ conn[c] \in ConnRec
      /\ hub \in [closed : BOOLEAN, count : Int]
  BY Zenon DEF MapInv, MapTypes, ConnTypes, ServerTypes, PlaceInv
<1>4. e \in ConnRec /\ IsEnded(e, conn[c])
  BY <1>3, CutFields, Zenon
<1> HIDE DEF e
<1>5. f \in ConnRec
  BY <1>4, IdleFields, Zenon
<1>6. ConnTypes' /\ conn'[c] = f /\ \A x \in Conns : x # c => conn'[x] = conn[x]
  BY <1>1, <1>3, <1>5, ConnUpdate, Zenon
<1>7. IsFiniteSet(gone) /\ Cardinality(gone) \in Nat
  <2>1. gone \subseteq Conns
    BY Zenon DEF Registered
  <2>2. QED
    BY <2>1, SeatMapConstantsOK, FS_Subset, FS_CardinalityType, Zenon
<1>8. hub' \in [closed : BOOLEAN, count : Int] /\ hub'.count = hub.count - Cardinality(gone)
  BY <1>1, <1>3, <1>7 DEF Freed
<1>9. hub'.closed = hub.closed
  BY <1>1, <1>3, Zenon DEF Freed
<1>10. Steady
  BY <1>2, <1>9, Zenon DEF Steady
<1>11. server # "down" /\ server' = server /\ conn[c].phase # "free"
  BY <1>2, <1>3, Zenon DEF ConnInv
<1>12. ConnInv(c)' /\ ~conn'[c].open /\ ~conn'[c].subbed
  BY <1>3, <1>4, <1>6, <1>11, CutConn, Zenon
<1>13. FlowInv(c)'
  BY <1>12, Zenon DEF FlowInv
<1>14. CountInv'
  <2>1. Subscribed' = Subscribed \ {c}
    BY <1>6, <1>12, Zenon DEF Subscribed
  <2>2. hub.count = Cardinality(Subscribed) /\ hub.count <= MaxSubscribers
    BY <1>11, Zenon DEF MapInv, PlaceInv, CountInv
  <2>3. CASE conn[c].subbed
    <3>1. gone = {c} /\ c \in Subscribed
      BY <2>3, Zenon DEF Registered, Subscribed
    <3>2. Cardinality(gone) = 1
      BY <3>1, FS_Singleton, Zenon
    <3>3. Cardinality(Subscribed') = Cardinality(Subscribed) - 1
      BY <2>1, <3>1, SubscribedFinite, FS_RemoveElement, Zenon
    <3>4. QED
      BY <1>3, <1>8, <2>2, <3>2, <3>3, SeatMapConstantsOK DEF CountInv
  <2>4. CASE ~conn[c].subbed
    <3>1. gone = {} /\ Subscribed' = Subscribed
      BY <2>1, <2>4, Zenon DEF Registered, Subscribed
    <3>2. Cardinality(gone) = 0
      BY <3>1, FS_EmptySet, Zenon
    <3>3. QED
      BY <1>3, <1>8, <2>2, <3>1, <3>2 DEF CountInv
  <2>5. QED
    BY <2>3, <2>4, Zenon
<1>15. ASSUME NEW b \in Browsers, tab[b].link = c PROVE LinkInv(b)' /\ FreshInv(b)'
  <2>1. LinkInv(b) /\ c # NoConn
    BY SeatMapConstantsOK, Zenon DEF MapInv, PlaceInv
  <2>2. Alive(c)
    BY <1>15, <2>1, OwnLink, Zenon DEF MapInv
  <2>3. IsEnded(conn'[c], conn[c]) /\ "ended" # "free" /\ "ended" # "accepted"
    BY <1>4, <1>6, <2>2, Zenon
  <2>4. LinkInv(b)'
    BY <1>1, <1>15, <2>1, <2>3, LinkFrame, Zenon DEF IsEnded
  <2>5. FreshInv(b)'
    BY <1>1, <1>12, <1>15, Zenon DEF FreshInv
  <2>6. QED
    BY <2>4, <2>5, Zenon
<1>16. TabTypes'
  BY <1>1, <1>3, Zenon DEF TabTypes
<1>17. QED
  BY <1>1, <1>2, <1>6, <1>8, <1>10, <1>12, <1>13, <1>14, <1>15, <1>16, OneConn, Zenon
       DEF MapInv, MapTypes, ServerTypes

\* The words queued stay known ones when an update moves on.
LEMMA MovedWords ==
  ASSUME NEW q \in Seq(Update), q # <<>>, NEW w \in Seq(Update),
         \A i \in 1..Len(q) : q[i].state \in Known, \A i \in 1..Len(w) : w[i].state \in Known
  PROVE  /\ Head(q).state \in Known
         /\ \A i \in 1..Len(Tail(q)) : Tail(q)[i].state \in Known
         /\ \A i \in 1..Len(Append(w, Head(q))) : Append(w, Head(q))[i].state \in Known
<1>1. /\ Len(q) \in Nat /\ Len(q) > 0 /\ Head(q) = q[1] /\ Head(q) \in Update
      /\ Len(Tail(q)) = Len(q) - 1
  BY QueueFront
<1>2. \A i \in 1..(Len(q) - 1) : Tail(q)[i] = q[i + 1] /\ i + 1 \in 1..Len(q)
  BY <1>1, HeadTailProperties
<1>3. Head(q).state \in Known
  BY <1>1
<1>4. /\ Len(w) \in Nat /\ Len(Append(w, Head(q))) = Len(w) + 1
      /\ Append(w, Head(q))[Len(w) + 1] = Head(q)
      /\ \A i \in 1..Len(w) : Append(w, Head(q))[i] = w[i]
  BY <1>1
<1>5. \A i \in 1..(Len(w) + 1) : i \in 1..Len(w) \/ i = Len(w) + 1
  BY <1>4
<1>6. QED
  BY <1>1, <1>2, <1>3, <1>4, <1>5

\* The handler writes an update: it moves from the buffer to the socket, in order.
LEMMA WriteKeeps ==
  ASSUME MapInv, NEW c \in Conns, WriteUpdate(c)
  PROVE  MapInv'
<1> DEFINE r == conn[c]
           u == Head(r.buf)
           e == [r EXCEPT !.wire = Append(@, Head(r.buf)), !.buf = Tail(@)]
<1>1. /\ r.phase = "serving" /\ r.buf # <<>> /\ ~(Len(r.wire) > WireCap)
      /\ conn' = [conn EXCEPT ![c].wire = Append(@, Head(conn[c].buf)), ![c].buf = Tail(@)]
      /\ hub' = hub /\ tab' = tab
  BY Zenon DEF WriteUpdate, Blocked
<1>2. UNCHANGED <<db, log, unsent, topic, disordered, server, tail, faults>> /\ Steady
  BY <1>1, Zenon DEF WriteUpdate, seatVars, serverVars, Steady
<1>3. /\ ConnTypes /\ TabTypes /\ ConnInv(c) /\ r \in ConnRec
      /\ r.buf \in Seq(Update) /\ r.wire \in Seq(Update) /\ FlowInv(c)
  BY Zenon DEF MapInv, MapTypes, ConnTypes, ConnRec, PlaceInv, DataInv
<1>4. conn' = [conn EXCEPT ![c] = e]
  BY <1>1, <1>3, Zenon DEF ConnTypes
<1>5. e \in ConnRec /\ IsWritten(e, r)
  BY <1>1, <1>3, WriteFields, Zenon
<1> HIDE DEF e
<1>6. ConnTypes' /\ conn'[c] = e /\ \A x \in Conns : x # c => conn'[x] = conn[x]
  BY <1>3, <1>4, <1>5, ConnUpdate, Zenon
<1>7. /\ conn'[c].buf = Tail(r.buf) /\ conn'[c].wire = Append(r.wire, u)
      /\ conn'[c].phase = r.phase /\ conn'[c].viewer = r.viewer
      /\ conn'[c].subbed = r.subbed /\ conn'[c].open = r.open
  BY <1>5, <1>6, Zenon DEF IsWritten
<1>8. u \in Update /\ Len(Tail(r.buf)) = Len(r.buf) - 1 /\ Len(r.buf) \in Nat
  BY <1>1, <1>3, QueueFront
<1>9. ConnInv(c)'
  <2>1. Len(conn'[c].buf) <= SubscriberBuffer
    BY <1>3, <1>7, <1>8, SeatMapConstantsOK DEF ConnInv
  <2>2. Len(conn'[c].wire) <= WireCap + 1
    BY <1>1, <1>3, <1>7, <1>8, SeatMapConstantsOK
  <2>3. /\ \A i \in 1..Len(conn'[c].buf) : conn'[c].buf[i].state \in Known
        /\ \A i \in 1..Len(conn'[c].wire) : conn'[c].wire[i].state \in Known
    BY <1>1, <1>3, <1>7, MovedWords, Zenon DEF ConnInv
  <2>4. "serving" # "free" /\ "serving" # "accepted"
    OBVIOUS
  <2>5. tail = -1 => ~r.open
    BY <1>1, <1>3, Zenon DEF ConnInv
  <2>6. QED
    BY <1>1, <1>2, <1>3, <1>7, <2>1, <2>2, <2>3, <2>4, <2>5, Zenon DEF ConnInv
<1>10. \A s : Name(s)' = Name(s) /\ (Late(s)' <=> Late(s))
  BY <1>2, LateSteady, Zenon DEF Name
<1>11. FlowInv(c)'
  <2>1. SUFFICES ASSUME ~disordered, r.open, NEW s \in Seats,
                        EventOf[s] = Watches[r.viewer], ~Late(s)
                 PROVE  /\ EndsWith(Tail(r.buf), s, Name(s))
                        /\ ~Has(Tail(r.buf), s) => EndsWith(Append(r.wire, u), s, Name(s))
    BY <1>2, <1>7, <1>10, Zenon DEF FlowInv
  <2>2. /\ EndsWith(r.buf, s, Name(s))
        /\ ~Has(r.buf, s) => EndsWith(r.wire, s, Name(s))
    BY <1>3, <2>1, Zenon DEF FlowInv
  <2>3. EndsWith(Tail(r.buf), s, Name(s))
    BY <1>1, <1>3, <2>2, QueueFront, Zenon
  <2>4. ASSUME ~Has(Tail(r.buf), s) PROVE EndsWith(Append(r.wire, u), s, Name(s))
    <3>1. CASE u.seat = s
      <4>1. u.state = Name(s)
        BY <1>1, <1>3, <2>2, <2>4, <3>1, QueueFront, Zenon
      <4>2. QED
        BY <1>3, <1>8, <3>1, <4>1, QueueEnd
    <3>2. CASE u.seat # s
      <4>1. ~Has(r.buf, s)
        BY <1>1, <1>3, <2>4, <3>2, QueueFront, Zenon
      <4>2. QED
        BY <1>3, <1>8, <2>2, <3>2, <4>1, QueueEnd, Zenon
    <3>3. QED
      BY <3>1, <3>2, Zenon
  <2>5. QED
    BY <2>3, <2>4, Zenon
<1>12. \A s : Pending(c, s) => Late(s) \/ Has(Tail(r.buf), s) \/ Has(Append(r.wire, u), s)
  BY <1>1, <1>3, <1>8, QueueFront, QueueEnd, Zenon DEF Pending
<1>13. ASSUME NEW b \in Browsers, tab[b].link = c PROVE LinkInv(b)' /\ FreshInv(b)'
  <2>1. LinkInv(b) /\ FreshInv(b) /\ tab'[b] = tab[b]
    BY <1>1 DEF MapInv, PlaceInv, DataInv
  <2>2. "serving" # "free" /\ "serving" # "accepted"
    OBVIOUS
  <2>3. LinkInv(b)'
    BY <1>1, <1>2, <1>7, <1>13, <2>1, <2>2, LinkFrame, Zenon
  <2>4. \A s : Pending(c, s) => Pending(tab[b].link, s)'
    BY <1>7, <1>10, <1>12, <1>13, <2>1, Zenon DEF Pending
  <2>5. FreshInv(b)'
    BY <1>2, <1>7, <1>10, <1>13, <2>1, <2>4, FreshFrame, Zenon
  <2>6. QED
    BY <2>3, <2>5
<1>14. TabTypes'
  BY <1>1, <1>3, Zenon DEF TabTypes
<1>15. CountInv'
  <2>1. \A x \in Conns : conn'[x].subbed <=> conn[x].subbed
    BY <1>6, <1>7, Zenon
  <2>2. QED
    BY <1>1, <1>2, <2>1, CountSteady, Zenon DEF MapInv, PlaceInv
<1>16. QED
  BY <1>1, <1>2, <1>6, <1>9, <1>11, <1>13, <1>14, <1>15, OneConn, Zenon
       DEF MapInv, MapTypes, ServerTypes

\* Every step of the handler.
LEMMA HandlerKeeps ==
  ASSUME MapInv, NEW c \in Conns, Handler(c)
  PROVE  MapInv'
<1>1. CASE Subscribe(c)
  BY <1>1, RefuseKeeps, SubscribeKeeps
<1>2. CASE WriteUpdate(c)
  BY <1>2, WriteKeeps, Zenon
<1>3. CASE StreamCut(c) \/ ClientGone(c)
  BY <1>3, ReturnKeeps, Zenon DEF StreamCut, ClientGone
<1>4. QED
  BY <1>1, <1>2, <1>3, Zenon DEF Handler

-----------------------------------------------------------------------------
(* The page.                                                               *)

\* A step of one page that leaves every connection and subscription alone.
LEMMA OnePage ==
  ASSUME MapInv, Steady, hub' = hub, conn' = conn, faults' \in 0..MaxFaults, NEW b \in Browsers,
         NEW e \in TabRec(b), tab' = [tab EXCEPT ![b] = e], LinkInv(b)' /\ FreshInv(b)'
  PROVE  MapInv'
<1>1. TabTypes' /\ \A x \in Browsers : x # b => tab'[x] = tab[x]
  BY TabUpdate, Zenon DEF MapInv, MapTypes
<1>2. ConnTypes' /\ NoConn \notin Conns
  BY SeatMapConstantsOK, Zenon DEF MapInv, MapTypes, ConnTypes
<1>3. CountInv'
  BY CountSteady, Zenon DEF MapInv, PlaceInv, Steady
<1>4. hub' \in [closed : BOOLEAN, count : Int]
  BY Zenon DEF MapInv, MapTypes, ServerTypes
<1>5. SeatTypes' /\ LogInv' /\ OrderInv'
  BY SeatsSteady, Zenon DEF MapInv, DataInv, Steady
<1>6. ServerTypes'
  BY <1>4, Zenon DEF MapInv, MapTypes, ServerTypes, Steady
<1>7. ASSUME NEW x \in Conns PROVE ConnInv(x)' /\ FlowInv(x)'
  BY OtherConn, Zenon DEF MapInv
<1>8. ASSUME NEW x \in Browsers PROVE LinkInv(x)' /\ FreshInv(x)'
  <2>1. CASE x = b
    BY <2>1, Zenon
  <2>2. CASE x # b
    BY <1>1, <2>2, OtherPage, Zenon DEF MapInv
  <2>3. QED
    BY <2>1, <2>2, Zenon
<1>9. QED
  BY <1>1, <1>2, <1>3, <1>5, <1>6, <1>7, <1>8, Zenon DEF MapInv, MapTypes, PlaceInv, DataInv

\* The page loses its connection, and an ended one is freed with it.
LEMMA PartKeeps ==
  ASSUME MapInv, Steady, hub' = hub, faults' \in 0..MaxFaults, NEW b \in Browsers,
         NEW page \in {"away", "connecting"},
         tab' = [tab EXCEPT ![b] = Unlinked(@, page)], conn' = HungUp(b)
  PROVE  MapInv'
<1> DEFINE e == Unlinked(tab[b], page)
           link == tab[b].link
<1>1. /\ ConnTypes /\ TabTypes /\ tab[b] \in TabRec(b) /\ link \in Conns \cup {NoConn}
      /\ tab' = [tab EXCEPT ![b] = e]
  BY Zenon DEF MapInv, MapTypes, TabTypes, TabRec
<1>2. e \in TabRec(b) /\ Parted(e)
  BY <1>1, UnlinkedFields, Zenon
<1> HIDE DEF e
<1>3. TabTypes' /\ tab'[b] = e /\ \A x \in Browsers : x # b => tab'[x] = tab[x]
  BY <1>1, <1>2, TabUpdate, Zenon
<1>4. LinkInv(b)' /\ FreshInv(b)'
  BY <1>2, <1>3, PartedPage, Zenon
<1>5. CASE link # NoConn /\ conn[link].phase = "ended"
  <2> PICK c \in Conns : c = link
    BY <1>1, <1>5, Zenon
  <2>1. c \in Conns /\ conn' = [conn EXCEPT ![c] = Idle]
    BY <1>5, Zenon DEF HungUp
  <2>2. ConnTypes' /\ conn'[c] = Idle /\ \A x \in Conns : x # c => conn'[x] = conn[x]
    BY <1>1, <2>1, IdleFields, ConnUpdate, Zenon
  <2>3. ConnInv(c)' /\ FlowInv(c)' /\ ~conn'[c].subbed
    BY <2>1, <2>2, FreeConn, Zenon
  <2>4. ~conn[c].subbed
    BY <1>5, <2>1 DEF MapInv, PlaceInv, ConnInv
  <2>5. CountInv'
    <3>1. \A x \in Conns : conn'[x].subbed <=> conn[x].subbed
      BY <2>2, <2>3, <2>4, Zenon
    <3>2. QED
      BY <3>1, CountSteady, Zenon DEF MapInv, PlaceInv, Steady
  <2>6. \A x \in Browsers : x # b => tab[x].link # c
    BY <1>5, OwnLink, Zenon DEF MapInv
  <2>7. hub' \in [closed : BOOLEAN, count : Int]
    BY Zenon DEF MapInv, MapTypes, ServerTypes
  <2>8. QED
    BY <1>3, <1>4, <2>2, <2>3, <2>5, <2>6, <2>7, OneConn, Zenon
<1>6. CASE ~(link # NoConn /\ conn[link].phase = "ended")
  <2>1. conn' = conn
    BY <1>6 DEF HungUp
  <2>2. QED
    BY <1>1, <1>2, <1>4, <2>1, OnePage, Zenon
<1>7. QED
  BY <1>5, <1>6

\* The faults stay within their bound.
LEMMA FaultCounted ==
  ASSUME MapInv, faults' = faults \/ Fault
  PROVE  faults' \in 0..MaxFaults
  BY SeatMapConstantsOK DEF MapInv, MapTypes, ServerTypes, Fault

\* The page is left, the response ends, the network drops the connection.
LEMMA LeaveKeeps ==
  ASSUME MapInv, NEW b \in Browsers, LeavePage(b) \/ StreamEnds(b) \/ StreamBreaks(b)
  PROVE  MapInv'
<1>1. /\ Steady /\ hub' = hub /\ conn' = HungUp(b) /\ (faults' = faults \/ Fault)
  BY Zenon DEF LeavePage, StreamEnds, StreamBreaks, seatVars, serverVars, Steady
<1>2. \/ tab' = [tab EXCEPT ![b] = Unlinked(@, "away")]
      \/ tab' = [tab EXCEPT ![b] = Unlinked(@, "connecting")]
  BY Zenon DEF LeavePage, StreamEnds, StreamBreaks
<1>3. faults' \in 0..MaxFaults /\ "away" \in {"away", "connecting"}
      /\ "connecting" \in {"away", "connecting"}
  BY <1>1, FaultCounted, Zenon
<1>4. QED
  BY <1>1, <1>2, <1>3, PartKeeps, Zenon

\* The page opens, and its timer connects again.
LEMMA OpenKeeps ==
  ASSUME MapInv, NEW b \in Browsers, OpenPage(b) \/ Reconnect(b)
  PROVE  MapInv'
<1> DEFINE t == tab[b]
           o == [t EXCEPT !.page = "connecting"]
           e == IF OpenPage(b) THEN Refetched(o) ELSE o
<1>1. /\ t.page \in {"away", "waiting"} /\ conn' = conn /\ hub' = hub
      /\ Steady /\ faults' \in 0..MaxFaults
  <2>1. /\ t.page \in {"away", "waiting"} /\ conn' = conn /\ hub' = hub
        /\ Steady /\ faults' = faults
    BY Zenon DEF OpenPage, Reconnect, Steady, seatVars, serverVars
  <2>2. QED
    BY <2>1, FaultCounted, Zenon
<1>2. t \in TabRec(b) /\ TabTypes /\ LinkInv(b)
  BY Zenon DEF MapInv, MapTypes, TabTypes, PlaceInv
<1>3. tab' = [tab EXCEPT ![b] = e]
  BY <1>2, Zenon DEF OpenPage, Reconnect, TabTypes
<1>4. t.link = NoConn /\ ~t.clean /\ ~t.sound
  <2>1. t.page \notin {"requested", "open"} /\ t.page # "open"
    BY <1>1, Zenon
  <2>2. QED
    BY <1>2, <2>1, Zenon DEF LinkInv
<1>5. o \in TabRec(b) /\ o.page = "connecting" /\ o.link = t.link
  BY <1>2, Zenon DEF TabRec
<1>6. o.clean = t.clean /\ o.sound = t.sound
  BY <1>2, Zenon DEF TabRec
<1> HIDE DEF o
<1>7. Parted(o)
  BY <1>4, <1>5, <1>6, Zenon DEF Parted
<1>8. Asked(o) \in TabRec(b) /\ Parted(Asked(o))
  <2>1. /\ Asked(o) \in TabRec(b) /\ SameStream(Asked(o), o) /\ Asked(o).sound = o.sound
        /\ (Asked(o).clean <=> o.page = "open" /\ tail >= 0)
    BY <1>5, AskedFields, Zenon
  <2>2. "connecting" # "open"
    OBVIOUS
  <2>3. ~Asked(o).clean /\ ~Asked(o).sound
    BY <1>4, <1>5, <1>6, <2>1, <2>2, Zenon
  <2>4. QED
    BY <1>4, <1>5, <2>1, <2>3 DEF Parted, SameStream
<1>9. e \in TabRec(b) /\ Parted(e)
  BY <1>5, <1>7, <1>8, Zenon DEF Refetched
<1> HIDE DEF e
<1>10. tab'[b] = e
  BY <1>2, <1>3, <1>9, TabUpdate, Zenon
<1>11. QED
  BY <1>1, <1>3, <1>9, <1>10, PartedPage, OnePage, Zenon

\* The browser asks for the stream on a connection nobody has.
LEMMA ConnectKeeps ==
  ASSUME MapInv, NEW b \in Browsers, Connect(b)
  PROVE  MapInv'
<1> DEFINE free == {c \in Conns : conn[c].phase = "free"}
           t == tab[b]
           q == [Idle EXCEPT !.phase = "accepted", !.viewer = b]
<1>0. PICK c \in Conns : c = Min(free) /\ conn[c].phase = "free"
  <2>1. free \in SUBSET Nat /\ free # {}
    BY SeatMapConstantsOK, Zenon DEF Connect
  <2>2. Min(free) \in free
    BY <2>1, MinFact, Zenon
  <2>3. QED
    BY <2>2, Zenon
<1> DEFINE e == [t EXCEPT !.page = "requested", !.link = c]
<1>1. /\ t.page = "connecting" /\ server = "up" /\ hub' = hub
      /\ tab' = [tab EXCEPT ![b].page = "requested", ![b].link = c]
      /\ conn' = [conn EXCEPT ![c] = q]
  BY <1>0, Zenon DEF Connect
<1>2. Steady /\ faults' = faults /\ server' = server
  BY <1>1, Zenon DEF Connect, seatVars, serverVars, Steady
<1>3. c \in Conns /\ conn[c].phase = "free"
  BY <1>0, Zenon
<1>4. t \in TabRec(b) /\ TabTypes /\ ConnTypes /\ LinkInv(b) /\ ConnInv(c) /\ Idle \in ConnRec
  BY <1>3, IdleFields, Zenon DEF MapInv, MapTypes, TabTypes, PlaceInv
<1>5. tab' = [tab EXCEPT ![b] = e]
  BY <1>1, <1>4, Zenon DEF TabTypes
<1>6. e \in TabRec(b) /\ e.page = "requested" /\ e.link = c
  BY <1>3, <1>4, Zenon DEF TabRec
<1>7. e.clean = t.clean /\ e.sound = t.sound
  BY <1>4, Zenon DEF TabRec
<1>8. q \in ConnRec /\ IsAccepted(q, b)
  BY <1>4, ServeFields, Zenon
<1> HIDE DEF e, q, t
<1>9. ~t.clean /\ ~t.sound
  <2>1. t.page # "open"
    BY <1>1, Zenon
  <2>2. QED
    BY <1>4, <2>1, Zenon DEF LinkInv, t
<1>10. TabTypes' /\ tab'[b] = e /\ \A x \in Browsers : x # b => tab'[x] = tab[x]
  BY <1>4, <1>5, <1>6, TabUpdate, Zenon
<1>11. ConnTypes' /\ conn'[c] = q /\ \A x \in Conns : x # c => conn'[x] = conn[x]
  BY <1>1, <1>3, <1>4, <1>8, ConnUpdate, Zenon
<1>12. ConnInv(c)' /\ FlowInv(c)' /\ ~conn'[c].subbed
  <2>1. Len(<<>>) = 0 /\ 0 <= SubscriberBuffer /\ 0 <= WireCap + 1 /\ \A i : i \notin 1..0
    BY SeatMapConstantsOK
  <2>2. "accepted" # "free" /\ server' # "down"
    BY <1>1, <1>2, Zenon
  <2>3. QED
    BY <1>8, <1>11, <2>1, <2>2, Zenon DEF IsAccepted, ConnInv, FlowInv
<1>13. LinkInv(b)' /\ FreshInv(b)'
  <2>1. c # NoConn /\ "requested" # "open" /\ "requested" \in {"requested", "open"}
        /\ "accepted" # "free"
    BY <1>3, SeatMapConstantsOK
  <2>2. QED
    BY <1>6, <1>7, <1>8, <1>9, <1>10, <1>11, <2>1, Zenon DEF IsAccepted, LinkInv, FreshInv
<1>14. ASSUME NEW x \in Browsers PROVE tab[x].link # c
  <2>1. c # NoConn
    BY <1>3, SeatMapConstantsOK
  <2>2. QED
    BY <1>3, <2>1, OwnLink, Zenon DEF MapInv
<1>15. CountInv'
  <2>1. ~conn[c].subbed
    BY <1>3, <1>4, Zenon DEF ConnInv
  <2>2. \A x \in Conns : conn'[x].subbed <=> conn[x].subbed
    BY <1>11, <1>12, <2>1, Zenon
  <2>3. QED
    BY <1>1, <1>2, <2>2, CountSteady, Zenon DEF MapInv, PlaceInv
<1>16. faults' \in 0..MaxFaults /\ hub' \in [closed : BOOLEAN, count : Int]
  BY <1>1, <1>2, Zenon DEF MapInv, MapTypes, ServerTypes
<1>17. QED
  BY <1>2, <1>10, <1>11, <1>12, <1>13, <1>14, <1>15, <1>16, OneConn, Zenon

\* onopen: no list is trusted yet, and a fetch that starts now is clean.
LEMMA OnopenKeeps ==
  ASSUME MapInv, NEW b \in Browsers, StreamOpens(b)
  PROVE  MapInv'
<1> DEFINE t == tab[b]
           o == [t EXCEPT !.page = "open"]
           e == Invalidated(o)
<1>0. PICK c \in Conns : c = t.link
  BY OwnLink, Zenon DEF StreamOpens, MapInv, PlaceInv, LinkInv
<1> DEFINE g == [conn[c] EXCEPT !.hello = FALSE]
<1>1. /\ t.page = "requested" /\ conn[c].hello
      /\ tab' = [tab EXCEPT ![b] = Invalidated([@ EXCEPT !.page = "open"])]
      /\ conn' = [conn EXCEPT ![c].hello = FALSE] /\ hub' = hub
  BY <1>0, Zenon DEF StreamOpens
<1>2. Steady /\ faults' = faults /\ server' = server
  BY <1>1, Zenon DEF StreamOpens, seatVars, serverVars, Steady
<1>3. t \in TabRec(b) /\ TabTypes /\ ConnTypes /\ LinkInv(b)
  BY Zenon DEF MapInv, MapTypes, TabTypes, PlaceInv
<1>4. c # NoConn /\ ~t.clean /\ ~t.sound
  <2>1. t.page # "open" /\ t.page \in {"requested", "open"}
    BY <1>1, Zenon
  <2>2. QED
    BY <1>0, <1>3, <2>1, Zenon DEF LinkInv
<1>5. /\ c \in Conns /\ conn[c].viewer = b /\ conn[c].phase # "free"
      /\ \A x \in Browsers : x # b => tab[x].link # c
  BY <1>0, <1>4, OwnLink, Zenon DEF MapInv
<1>6. ConnInv(c) /\ FlowInv(c) /\ conn[c] \in ConnRec
  BY <1>5, Zenon DEF MapInv, MapTypes, ConnTypes, PlaceInv, DataInv
<1>7. tab' = [tab EXCEPT ![b] = e] /\ conn' = [conn EXCEPT ![c] = g]
  BY <1>1, <1>3, <1>5, Zenon DEF TabTypes, ConnTypes
<1>8. g \in ConnRec /\ IsGreeted(g, conn[c])
  BY <1>6, ReadFields, Zenon
<1>9. o \in TabRec(b) /\ o.page = "open" /\ o.link = c
  BY <1>0, <1>3, Zenon DEF TabRec
<1>10. o.clean = t.clean /\ o.sound = t.sound
  BY <1>3, Zenon DEF TabRec
<1> HIDE DEF o, g
<1>11. /\ Asked(o) \in TabRec(b) /\ SameStream(Asked(o), o) /\ Asked(o).fetch = "asked"
       /\ Asked(o).sound = o.sound
       /\ (Asked(o).clean <=> o.page = "open" /\ tail >= 0)
  BY <1>9, AskedFields, Zenon
<1>12. e = o \/ e = Asked(o)
  BY Zenon DEF Invalidated
<1> HIDE DEF e
<1>13. /\ e \in TabRec(b) /\ e.page = "open" /\ e.link = c /\ ~e.sound
       /\ e.clean => tail >= 0 /\ e.fetch = "asked"
  BY <1>4, <1>9, <1>10, <1>11, <1>12, Zenon DEF SameStream
<1>14. TabTypes' /\ tab'[b] = e /\ \A x \in Browsers : x # b => tab'[x] = tab[x]
  BY <1>3, <1>7, <1>13, TabUpdate, Zenon
<1>15. ConnTypes' /\ conn'[c] = g /\ \A x \in Conns : x # c => conn'[x] = conn[x]
  BY <1>3, <1>5, <1>7, <1>8, ConnUpdate, Zenon
<1>16. conn[c].phase # "accepted"
  BY <1>1, <1>6, Zenon DEF ConnInv
<1>17. ConnInv(c)'
  BY <1>2, <1>5, <1>6, <1>8, <1>15, <1>16, Zenon DEF ConnInv, IsGreeted, Steady
<1>18. FlowInv(c)'
  <2>1. \A s : Name(s)' = Name(s) /\ (Late(s)' <=> Late(s))
    BY <1>2, LateSteady DEF Name, Steady
  <2>2. QED
    BY <1>2, <1>6, <1>8, <1>15, <2>1, FlowFrame, Zenon DEF IsGreeted, Steady
<1>19. LinkInv(b)' /\ FreshInv(b)'
  <2>1. "asked" # "read" /\ "open" \in {"requested", "open"}
    OBVIOUS
  <2>2. LinkInv(b)'
    BY <1>2, <1>4, <1>5, <1>8, <1>13, <1>14, <1>15, <1>16, <2>1, Zenon
         DEF LinkInv, IsGreeted, Steady
  <2>3. FreshInv(b)'
    BY <1>13, <1>14, <2>1, Zenon DEF FreshInv
  <2>4. QED
    BY <2>2, <2>3
<1>20. CountInv'
  <2>1. \A x \in Conns : conn'[x].subbed <=> conn[x].subbed
    BY <1>8, <1>15, Zenon DEF IsGreeted
  <2>2. QED
    BY <1>1, <1>2, <2>1, CountSteady, Zenon DEF MapInv, PlaceInv
<1>21. faults' \in 0..MaxFaults /\ hub' \in [closed : BOOLEAN, count : Int]
  BY <1>1, <1>2, Zenon DEF MapInv, MapTypes, ServerTypes
<1>22. QED
  BY <1>2, <1>5, <1>14, <1>15, <1>17, <1>18, <1>19, <1>20, <1>21, OneConn, Zenon

Overlaid(t, u) == [t EXCEPT !.map = applyUpdate(t, u), !.clean = @ /\ t.fetch # "read"]

\* What a push does to the page: the seat's word changes, and a fetched list on its way is
\* no longer clean.
LEMMA PushedPage ==
  ASSUME NEW b \in Browsers, NEW t \in TabRec(b), NEW u \in Update
  PROVE  LET e == Overlaid(t, u)
         IN  /\ e \in TabRec(b) /\ SameStream(e, t) /\ e.fetch = t.fetch
             /\ e.clean <=> t.clean /\ t.fetch # "read"
             /\ e.sound = t.sound /\ e.loaded = t.loaded
             /\ t.loaded => \A s \in ShownSeats(b) :
                              e.map[s] = IF s = u.seat THEN u.state ELSE t.map[s]
<1> DEFINE m == applyUpdate(t, u)
           cl == t.clean /\ t.fetch # "read"
           x == [t EXCEPT !.map = m, !.clean = cl]
<1>1. m \in [ShownSeats(b) -> Names]
  BY Zenon DEF applyUpdate, TabRec, Update
<1>2. t.loaded => \A s \in ShownSeats(b) : m[s] = IF s = u.seat THEN u.state ELSE t.map[s]
  BY Zenon DEF applyUpdate, TabRec
<1>3. Overlaid(t, u) = x
  BY Zenon DEF TabRec, Overlaid
<1>4. cl \in BOOLEAN
  OBVIOUS
<1> HIDE DEF m, cl
<1>5. x \in TabRec(b) /\ x.page = t.page /\ x.link = t.link /\ x.map = m /\ x.fetch = t.fetch
  BY <1>1, <1>4, Zenon DEF TabRec
<1>6. x.clean = cl /\ x.sound = t.sound /\ x.loaded = t.loaded
  BY Zenon DEF TabRec
<1> HIDE DEF x
<1>7. QED
  BY <1>2, <1>3, <1>5, <1>6, Zenon DEF SameStream, cl

\* A push: what it says of its seat is right unless more is to come.
LEMMA PushKeeps ==
  ASSUME MapInv, NEW b \in Browsers, SeatsPushed(b)
  PROVE  MapInv'
<1> DEFINE t == tab[b]
<1>0. PICK c \in Conns : c = t.link
  BY OwnLink, Zenon DEF SeatsPushed, MapInv, PlaceInv, LinkInv
<1> DEFINE r == conn[c]
           u == Head(r.wire)
           e == Overlaid(t, u)
           g == [r EXCEPT !.wire = Tail(@)]
<1>1. /\ t.page = "open" /\ r.wire # <<>> /\ hub' = hub
      /\ tab' = IF parseUpdate(u)
                THEN [tab EXCEPT ![b].map = applyUpdate(tab[b], u),
                                 ![b].clean = @ /\ tab[b].fetch # "read"]
                ELSE tab
      /\ conn' = [conn EXCEPT ![c].wire = Tail(@)]
  BY <1>0, Zenon DEF SeatsPushed
<1>2. Steady /\ faults' = faults /\ server' = server
  BY <1>1, Zenon DEF SeatsPushed, seatVars, serverVars, Steady
<1>3. t \in TabRec(b) /\ TabTypes /\ ConnTypes /\ LinkInv(b) /\ FreshInv(b)
  BY Zenon DEF MapInv, MapTypes, TabTypes, PlaceInv, DataInv
<1>4. c # NoConn
  BY SeatMapConstantsOK, Zenon
<1>5. /\ c \in Conns /\ r.viewer = b /\ r.phase # "free"
      /\ \A x \in Browsers : x # b => tab[x].link # c
  BY <1>0, <1>4, OwnLink, Zenon DEF MapInv
<1>6. /\ ConnInv(c) /\ FlowInv(c) /\ r \in ConnRec /\ r.wire \in Seq(Update)
      /\ r.phase # "accepted"
  BY <1>0, <1>1, <1>3, <1>5 DEF MapInv, MapTypes, ConnTypes, ConnRec, PlaceInv, DataInv, LinkInv
<1>7. /\ u \in Update /\ Len(Tail(r.wire)) = Len(r.wire) - 1 /\ Len(r.wire) \in Nat
      /\ u.state \in Known
      /\ \A i \in 1..Len(Tail(r.wire)) : Tail(r.wire)[i].state \in Known
  <2>1. /\ u \in Update /\ Len(Tail(r.wire)) = Len(r.wire) - 1 /\ Len(r.wire) \in Nat
    BY <1>1, <1>6, QueueFront
  <2>2. \A i \in 1..Len(r.wire) : r.wire[i].state \in Known
    BY <1>6, Zenon DEF ConnInv
  <2>3. QED
    BY <1>1, <1>6, <2>1, <2>2, MovedWords, Zenon
<1>8. tab' = [tab EXCEPT ![b] = e]
  <2>1. parseUpdate(u)
    BY <1>7 DEF parseUpdate, Known
  <2>2. tab' = [tab EXCEPT ![b].map = applyUpdate(t, u), ![b].clean = @ /\ t.fetch # "read"]
    BY <1>1, <2>1, Zenon
  <2> DEFINE x == [t EXCEPT !.map = applyUpdate(t, u), !.clean = @ /\ t.fetch # "read"]
  <2>3. ASSUME NEW m, NEW k
        PROVE  [tab EXCEPT ![b].map = m, ![b].clean = k] =
                 [tab EXCEPT ![b] = [t EXCEPT !.map = m, !.clean = k]]
    BY <1>3, Zenon DEF TabTypes
  <2>4. tab' = [tab EXCEPT ![b] = x]
    BY <2>2, <2>3, Zenon
  <2>5. QED
    BY <2>4, Zenon DEF Overlaid
<1>9. conn' = [conn EXCEPT ![c] = g]
  BY <1>1, <1>3, <1>5, Zenon DEF ConnTypes
<1>10. g \in ConnRec /\ IsRead(g, r)
  BY <1>1, <1>6, ReadFields, Zenon
<1>11. /\ e \in TabRec(b) /\ SameStream(e, t) /\ e.fetch = t.fetch
       /\ e.clean <=> t.clean /\ t.fetch # "read"
       /\ e.sound = t.sound /\ e.loaded = t.loaded
       /\ t.loaded => \A s \in ShownSeats(b) :
                        e.map[s] = IF s = u.seat THEN u.state ELSE t.map[s]
  BY <1>3, <1>7, PushedPage, Zenon
<1> HIDE DEF e, g
<1>12. TabTypes' /\ tab'[b] = e /\ \A x \in Browsers : x # b => tab'[x] = tab[x]
  BY <1>3, <1>8, <1>11, TabUpdate, Zenon
<1>13. ConnTypes' /\ conn'[c] = g /\ \A x \in Conns : x # c => conn'[x] = conn[x]
  BY <1>3, <1>5, <1>9, <1>10, ConnUpdate, Zenon
<1>14. /\ g.phase = r.phase /\ g.viewer = r.viewer /\ g.buf = r.buf /\ g.wire = Tail(r.wire)
       /\ g.subbed = r.subbed /\ g.open = r.open
  BY <1>10, Zenon DEF IsRead
<1>15. ConnInv(c)'
  <2>1. Len(Tail(r.wire)) <= WireCap + 1
    BY <1>6, <1>7, SeatMapConstantsOK DEF ConnInv
  <2>2. tail = -1 => ~r.open
    BY <1>1, <1>6, Zenon DEF ConnInv
  <2>3. QED
    BY <1>2, <1>5, <1>6, <1>7, <1>13, <1>14, <2>1, <2>2, Zenon DEF ConnInv, Steady
<1>16. \A s : Name(s)' = Name(s) /\ (Late(s)' <=> Late(s))
  BY <1>2, LateSteady DEF Name, Steady
<1>17. FlowInv(c)'
  <2>1. \A s : EndsWith(r.wire, s, Name(s)) => EndsWith(Tail(r.wire), s, Name(s))
    BY <1>1, <1>6, QueueFront, Zenon
  <2>2. QED
    BY <1>2, <1>6, <1>13, <1>14, <1>16, <2>1, Zenon DEF FlowInv, Steady
<1>18. LinkInv(b)'
  <2>1. e.page = "open" /\ e.link = c
    BY <1>0, <1>1, <1>11, Zenon DEF SameStream
  <2>2. (e.clean \/ e.sound => (r.open => tail >= 0)) /\ (e.sound => e.loaded)
    BY <1>0, <1>3, <1>11, Zenon DEF LinkInv
  <2>3. tail' = tail /\ "open" \in {"requested", "open"}
    BY <1>2 DEF Steady
  <2>4. QED
    BY <1>4, <1>5, <1>6, <1>12, <1>13, <1>14, <2>1, <2>2, <2>3, Zenon DEF LinkInv
<1>19. FreshInv(b)'
  <2>1. SUFFICES ASSUME ~disordered, r.open, NEW s \in ShownSeats(b), t.sound
                 PROVE  \/ e.map[s] = Name(s)
                        \/ Late(s) \/ Has(r.buf, s) \/ Has(Tail(r.wire), s)
    <3>1. tab'[b].link = c /\ tab'[b].page = "open"
      BY <1>0, <1>1, <1>11, <1>12, Zenon DEF SameStream
    <3>2. ~(tab'[b].clean /\ tab'[b].fetch = "read")
      BY <1>11, <1>12, Zenon
    <3>3. \A z : Pending(tab[b].link, z)' <=> Late(z) \/ Has(r.buf, z) \/ Has(Tail(r.wire), z)
      BY <1>13, <1>14, <1>16, <3>1, Zenon DEF Pending
    <3>4. QED
      BY <1>2, <1>11, <1>12, <1>13, <1>14, <1>16, <3>1, <3>2, <3>3, Zenon DEF FreshInv, Steady
  <2>2. t.map[s] = Name(s) \/ Late(s) \/ Has(r.buf, s) \/ Has(r.wire, s)
    BY <1>0, <1>1, <1>3, <2>1, Zenon DEF FreshInv, Pending
  <2>3. t.loaded
    BY <1>3, <2>1, Zenon DEF LinkInv
  <2>4. Has(r.wire, s) <=> u.seat = s \/ Has(Tail(r.wire), s)
    BY <1>1, <1>6, QueueFront, Zenon
  <2>5. CASE s # u.seat
    <3>1. e.map[s] = t.map[s]
      BY <1>11, <2>3, <2>5
    <3>2. QED
      BY <2>2, <2>4, <2>5, <3>1
  <2>6. CASE s = u.seat
    <3>1. e.map[s] = u.state
      BY <1>11, <2>3, <2>6, Zenon
    <3>2. s \in Seats /\ EventOf[s] = Watches[r.viewer]
      BY <1>5, Zenon DEF ShownSeats
    <3>3. ASSUME ~Late(s), ~Has(r.buf, s), ~Has(Tail(r.wire), s) PROVE u.state = Name(s)
      <4>1. EndsWith(r.wire, s, Name(s))
        BY <1>6, <2>1, <3>2, <3>3, Zenon DEF FlowInv
      <4>2. QED
        BY <1>1, <1>6, <2>6, <3>3, <4>1, QueueFront, Zenon
    <3>4. QED
      BY <3>1, <3>3
  <2>7. QED
    BY <2>5, <2>6, Zenon
<1>20. CountInv'
  <2>1. \A x \in Conns : conn'[x].subbed <=> conn[x].subbed
    BY <1>13, <1>14, Zenon
  <2>2. QED
    BY <1>1, <1>2, <2>1, CountSteady, Zenon DEF MapInv, PlaceInv
<1>21. faults' \in 0..MaxFaults /\ hub' \in [closed : BOOLEAN, count : Int]
  BY <1>1, <1>2, Zenon DEF MapInv, MapTypes, ServerTypes
<1>22. QED
  BY <1>2, <1>5, <1>12, <1>13, <1>15, <1>17, <1>18, <1>19, <1>20, <1>21, OneConn, Zenon

\* A fetch starts, is read, arrives or fails: the stream is as before.
LEMMA FetchKeeps ==
  ASSUME MapInv, NEW b \in Browsers, UNCHANGED <<seatVars, serverVars, hub, conn>>,
         faults' = faults \/ Fault, NEW e \in TabRec(b), tab' = [tab EXCEPT ![b] = e],
         SameStream(e, tab[b]),
         e.clean => tab[b].clean \/ (tab[b].page = "open" /\ tail >= 0),
         e.sound => e.loaded /\ (tab[b].sound \/ tab[b].clean),
         e.sound => \/ tab[b].sound /\ e.map = tab[b].map
                    \/ tab[b].clean /\ tab[b].fetch = "read" /\ e.map = tab[b].snap,
         e.fetch = "read" => e.snap = [s \in ShownSeats(b) |-> Name(s)]
  PROVE  MapInv'
<1> DEFINE t == tab[b]
<1>1. Steady /\ hub' = hub /\ conn' = conn
  BY Zenon DEF Steady, seatVars, serverVars
<1>2. faults' \in 0..MaxFaults
  BY FaultCounted, Zenon
<1>3. TabTypes /\ LinkInv(b) /\ FreshInv(b)
  BY Zenon DEF MapInv, MapTypes, PlaceInv, DataInv
<1>4. tab'[b] = e /\ e.page = t.page /\ e.link = t.link
  BY <1>3, TabUpdate, Zenon DEF SameStream
<1>5. LinkInv(b)'
  BY <1>1, <1>3, <1>4, Zenon DEF LinkInv, Steady
<1>6. \A s : Name(s)' = Name(s) /\ (Pending(tab[b].link, s)' <=> Pending(t.link, s))
  <2>1. \A s : Name(s)' = Name(s) /\ (Late(s)' <=> Late(s))
    BY <1>1, LateSteady DEF Name, Steady
  <2>2. QED
    BY <1>1, <1>4, <2>1, Zenon DEF Pending
<1>7. FreshInv(b)'
  <2>1. SUFFICES ASSUME ~disordered, t.page = "open", conn[t.link].open, NEW s \in ShownSeats(b)
                 PROVE  /\ e.sound => e.map[s] = Name(s) \/ Pending(t.link, s)
                        /\ e.clean /\ e.fetch = "read" => e.snap[s] = Name(s) \/ Pending(t.link, s)
    BY <1>1, <1>4, <1>6, Zenon DEF FreshInv, Steady
  <2>2. /\ t.sound => t.map[s] = Name(s) \/ Pending(t.link, s)
        /\ t.clean /\ t.fetch = "read" => t.snap[s] = Name(s) \/ Pending(t.link, s)
    BY <1>3, <2>1, Zenon DEF FreshInv
  <2>3. e.sound => e.map[s] = Name(s) \/ Pending(t.link, s)
    BY <2>2, Zenon
  <2>4. e.fetch = "read" => e.snap[s] = Name(s)
    BY <2>1, Zenon
  <2>5. QED
    BY <2>3, <2>4, Zenon
<1>8. QED
  BY <1>1, <1>2, <1>5, <1>7, OnePage, Zenon

\* The page fetches its seats once more when the poll is due.
LEMMA PollKeeps ==
  ASSUME MapInv, NEW b \in Browsers, Poll(b)
  PROVE  MapInv'
<1> DEFINE t == tab[b]
           e == Asked(t)
<1>1. t \in TabRec(b) /\ DOMAIN tab = Browsers /\ LinkInv(b)
  BY DEF MapInv, MapTypes, TabTypes, PlaceInv
<1>2. /\ tab' = [tab EXCEPT ![b] = e] /\ faults' = faults
      /\ UNCHANGED <<seatVars, serverVars, hub, conn>>
  BY <1>1, Zenon DEF Poll, Refetched
<1>3. /\ e \in TabRec(b) /\ SameStream(e, t) /\ e.map = t.map /\ e.fetch = "asked"
      /\ e.loaded = t.loaded /\ e.sound = t.sound
      /\ (e.clean <=> t.page = "open" /\ tail >= 0)
  BY <1>1, AskedFields, Zenon
<1> HIDE DEF e
<1>4. "asked" # "read" /\ (t.sound => t.loaded)
  BY <1>1, Zenon DEF LinkInv
<1>5. QED
  BY <1>2, <1>3, <1>4, FetchKeeps, Zenon

\* inventory-svc reads the list of seats.
LEMMA ListKeeps ==
  ASSUME MapInv, NEW b \in Browsers, ListSeats(b)
  PROVE  MapInv'
<1> DEFINE t == tab[b]
           list == [s \in ShownSeats(b) |-> Name(s)]
           e == [t EXCEPT !.fetch = "read", !.snap = list]
<1>1. t \in TabRec(b) /\ DOMAIN tab = Browsers /\ LinkInv(b) /\ db \in [Seats -> Statuses]
  BY Zenon DEF MapInv, MapTypes, TabTypes, PlaceInv, SeatTypes
<1>2. /\ tab' = [tab EXCEPT ![b] = e] /\ faults' = faults
      /\ UNCHANGED <<seatVars, serverVars, hub, conn>>
  BY <1>1, Zenon DEF ListSeats, Name
<1>3. list \in [ShownSeats(b) -> Names]
  <2>1. \A s \in ShownSeats(b) : db[s] \in Statuses
    BY <1>1, Zenon DEF ShownSeats
  <2>2. \A s \in ShownSeats(b) : Name(s) \in Known
    BY <2>1, NamesAgree, Zenon DEF Name
  <2>3. QED
    BY <2>2, Zenon DEF Known, Names
<1> HIDE DEF list
<1>4. /\ e \in TabRec(b) /\ e.page = t.page /\ e.link = t.link /\ e.map = t.map /\ e.fetch = "read"
      /\ e.snap = list
  BY <1>1, <1>3, Zenon DEF TabRec
<1>5. e.clean = t.clean /\ e.sound = t.sound /\ e.loaded = t.loaded
  BY <1>1, Zenon DEF TabRec
<1> HIDE DEF e
<1>6. t.sound => t.loaded
  BY <1>1, Zenon DEF LinkInv
<1>7. SameStream(e, t)
  BY <1>4, Zenon DEF SameStream
<1>8. QED
  BY <1>2, <1>4, <1>5, <1>6, <1>7, FetchKeeps, Zenon DEF list

\* The list arrives at the page and replaces its map.
LEMMA ArriveKeeps ==
  ASSUME MapInv, NEW b \in Browsers, SeatsFetched(b)
  PROVE  MapInv'
<1> DEFINE t == tab[b]
           o == [t EXCEPT !.loaded = TRUE, !.map = t.snap, !.sound = t.clean]
           e == Emptied(o, "idle")
<1>1. t \in TabRec(b) /\ DOMAIN tab = Browsers
  BY Zenon DEF MapInv, MapTypes, TabTypes
<1>2. /\ tab' = [tab EXCEPT ![b] = e] /\ faults' = faults /\ t.fetch = "read"
      /\ UNCHANGED <<seatVars, serverVars, hub, conn>>
  BY <1>1, Zenon DEF SeatsFetched
<1>3. o \in TabRec(b) /\ o.page = t.page /\ o.link = t.link /\ o.map = t.snap
  BY <1>1, Zenon DEF TabRec
<1>4. o.clean = t.clean /\ o.sound = t.clean /\ o.loaded = TRUE
  BY <1>1, Zenon DEF TabRec
<1> HIDE DEF o
<1>5. "idle" \in {"idle", "asked"} /\ "idle" # "read"
  OBVIOUS
<1>6. /\ e \in TabRec(b) /\ SameStream(e, o) /\ e.map = o.map /\ e.fetch = "idle"
      /\ e.loaded = o.loaded /\ e.clean = o.clean /\ e.sound = o.sound
  BY <1>3, <1>5, EmptiedFields, Zenon
<1> HIDE DEF e
<1>7. SameStream(e, t)
  BY <1>3, <1>6, Zenon DEF SameStream
<1>8. QED
  BY <1>2, <1>3, <1>4, <1>5, <1>6, <1>7, FetchKeeps, Zenon

\* The fetch fails and is tried again or given up.
LEMMA FailKeeps ==
  ASSUME MapInv, NEW b \in Browsers, NEW next \in {"asked", "idle"}, FetchFails(b, next)
  PROVE  MapInv'
<1> DEFINE t == tab[b]
           e == Emptied(t, next)
<1>1. t \in TabRec(b) /\ DOMAIN tab = Browsers /\ LinkInv(b)
  BY DEF MapInv, MapTypes, TabTypes, PlaceInv
<1>2. /\ tab' = [tab EXCEPT ![b] = e] /\ Fault
      /\ UNCHANGED <<seatVars, serverVars, hub, conn>>
  BY <1>1, Zenon DEF FetchFails
<1>3. next \in {"idle", "asked"} /\ next # "read"
  OBVIOUS
<1>4. /\ e \in TabRec(b) /\ SameStream(e, t) /\ e.map = t.map /\ e.fetch = next
      /\ e.loaded = t.loaded /\ e.clean = t.clean /\ e.sound = t.sound
  BY <1>1, <1>3, EmptiedFields, Zenon
<1> HIDE DEF e
<1>5. t.sound => t.loaded
  BY <1>1, Zenon DEF LinkInv
<1>6. QED
  BY <1>2, <1>3, <1>4, <1>5, FetchKeeps, Zenon

-----------------------------------------------------------------------------
(* The theorems.                                                           *)

\* The invariant holds at the start, with no change made and no page open.
LEMMA MapStarts ==
  ASSUME SeatMapInit
  PROVE  MapInv
<1>1. ConnTypes
  BY IdleFields, Zenon DEF SeatMapInit, ConnTypes
<1>2. SeatTypes /\ ServerTypes
  <2>1. /\ log = <<>> /\ topic = <<>> /\ unsent = {} /\ tail = -1 /\ faults = 0 /\ server = "up"
        /\ disordered = FALSE /\ hub = [closed |-> FALSE, count |-> 0]
    BY Zenon DEF SeatMapInit
  <2>2. db \in [Seats -> Statuses]
    BY Zenon DEF SeatMapInit, Statuses
  <2>3. /\ log \in Seq(Row) /\ Len(log) <= MaxChanges /\ unsent \subseteq 1..Len(log)
        /\ topic \in Seq(Nat) /\ Len(topic) = 0
    BY <2>1, SeatMapConstantsOK
  <2>4. tail \in -1..Len(topic) /\ faults \in 0..MaxFaults /\ \A i \in 1..Len(topic) : FALSE
    BY <2>1, <2>3, SeatMapConstantsOK
  <2>5. hub \in [closed : BOOLEAN, count : Int] /\ server \in {"up", "signalled", "failed", "down"}
    BY <2>1
  <2>6. disordered \in BOOLEAN
    BY <2>1, Zenon
  <2>7. SeatTypes
    BY <2>2, <2>3, <2>4, <2>6, Zenon DEF SeatTypes
  <2>8. ServerTypes
    BY <2>4, <2>5, Zenon DEF ServerTypes
  <2>9. QED
    BY <2>7, <2>8
<1>3. ASSUME NEW b \in Browsers PROVE tab[b] \in TabRec(b) /\ Parted(tab[b])
  BY <1>3, Zenon DEF SeatMapInit, TabRec, Parted, Names
<1>4. TabTypes
  BY <1>3, Zenon DEF SeatMapInit, TabTypes
<1>5. ASSUME NEW c \in Conns PROVE ConnInv(c) /\ FlowInv(c)
  <2>1. conn[c] = Idle /\ server # "down" /\ "free" # "accepted"
    BY Zenon DEF SeatMapInit
  <2>2. Len(<<>>) = 0 /\ 0 <= SubscriberBuffer /\ 0 <= WireCap + 1 /\ \A i : i \notin 1..0
    BY SeatMapConstantsOK
  <2>3. QED
    BY <2>1, <2>2, IdleFields, Zenon DEF ConnInv, FlowInv
<1>6. ASSUME NEW b \in Browsers PROVE LinkInv(b) /\ FreshInv(b)
  BY <1>3, Zenon DEF Parted, LinkInv, FreshInv
<1>7. CountInv
  <2>1. Subscribed = {}
    BY IdleFields, Zenon DEF SeatMapInit, Subscribed
  <2>2. hub.count = 0 /\ 0 <= MaxSubscribers
    BY SeatMapConstantsOK DEF SeatMapInit
  <2>3. QED
    BY <2>1, <2>2, FS_EmptySet DEF CountInv
<1>8. LogInv /\ OrderInv
  BY DEF SeatMapInit, LogInv, OrderInv
<1>9. QED
  BY <1>1, <1>2, <1>4, <1>5, <1>6, <1>7, <1>8, Zenon DEF MapInv, MapTypes, PlaceInv, DataInv

\* A step that changes nothing.
LEMMA MapStutters ==
  ASSUME MapInv, UNCHANGED mapVars
  PROVE  MapInv'
<1>1. /\ Steady /\ hub' = hub /\ conn' = conn /\ tab' = tab /\ faults' = faults
  BY Zenon DEF mapVars, seatVars, serverVars, Steady
<1>2. ConnTypes' /\ TabTypes'
  BY <1>1, Zenon DEF MapInv, MapTypes, ConnTypes, TabTypes
<1>3. CountInv'
  BY <1>1, CountSteady, Zenon DEF MapInv, PlaceInv, Steady
<1>4. SeatTypes' /\ LogInv' /\ OrderInv'
  BY <1>1, SeatsSteady, Zenon DEF MapInv, DataInv, Steady
<1>5. ServerTypes'
  BY <1>1, Zenon DEF MapInv, MapTypes, ServerTypes, Steady
<1>6. ASSUME NEW x \in Conns PROVE ConnInv(x)' /\ FlowInv(x)'
  BY <1>1, OtherConn, Zenon DEF MapInv
<1>7. ASSUME NEW x \in Browsers PROVE LinkInv(x)' /\ FreshInv(x)'
  BY <1>1, OtherPage, Zenon DEF MapInv
<1>8. QED
  BY <1>2, <1>3, <1>4, <1>5, <1>6, <1>7, Zenon DEF MapInv, MapTypes, PlaceInv, DataInv

\* Every step keeps the invariant.
LEMMA MapStep ==
  ASSUME MapInv, [SeatMapNext]_mapVars
  PROVE  MapInv'
<1>1. CASE Service
  BY <1>1, RelayKeeps, TailStartKeeps, ReadKeeps, CloseKeeps, ExitKeeps DEF Service
<1>2. ASSUME NEW s \in Seats, NEW status \in Statuses, ChangeSeat(s, status) PROVE MapInv'
  BY <1>2, ChangeKeeps, Zenon
<1>3. ASSUME NEW i \in 1..MaxChanges, RelayDisordered(i) PROVE MapInv'
  BY <1>3, DisorderKeeps, Zenon
<1>4. ASSUME NEW why \in {"signalled", "failed"}, StopServer(why) PROVE MapInv'
  BY <1>4, StopKeeps, Zenon
<1>5. CASE ServerDies
  BY <1>5, DeathKeeps, Zenon
<1>6. ASSUME NEW c \in Conns, Handler(c) PROVE MapInv'
  BY <1>6, HandlerKeeps, Zenon
<1>7. ASSUME NEW b \in Browsers, EventSource(b) PROVE MapInv'
  BY <1>7, ConnectKeeps, OnopenKeeps, PushKeeps, LeaveKeeps, OpenKeeps DEF EventSource
<1>8. ASSUME NEW b \in Browsers, Fetching(b) PROVE MapInv'
  BY <1>8, PollKeeps, ListKeeps, ArriveKeeps DEF Fetching
<1>9. ASSUME NEW b \in Browsers, OpenPage(b) \/ LeavePage(b) \/ StreamBreaks(b) PROVE MapInv'
  BY <1>9, OpenKeeps, LeaveKeeps, Zenon
<1>10. ASSUME NEW b \in Browsers, NEW next \in {"asked", "idle"}, FetchFails(b, next) PROVE MapInv'
  BY <1>10, FailKeeps, Zenon
<1>11. CASE UNCHANGED mapVars
  BY <1>11, MapStutters, Zenon
<1>12. QED
  BY <1>1, <1>2, <1>3, <1>4, <1>5, <1>6, <1>7, <1>8, <1>9, <1>10, <1>11, Zenon DEF SeatMapNext

(* The inductive invariant of the live seat map: types and limits, one page per connection,  *)
(* the hub's count, and the content of log, topic, buffers and sockets.                      *)
THEOREM SeatMapAgrees == SeatMapSpec => []MapInv
<1>1. SeatMapInit => MapInv
  BY MapStarts
<1>2. MapInv /\ [SeatMapNext]_mapVars => MapInv'
  BY MapStep, Zenon
<1>3. QED
  BY <1>1, <1>2, PTL DEF SeatMapSpec

(* No subscription queues more than its buffer and no socket more than it holds; no page     *)
(* reads from a connection given to another one (Hub.Subscribe, useSeatStream).              *)
THEOREM SeatMapTypeCorrect == SeatMapSpec => []SeatMapTypeOK
<1>1. MapInv => SeatMapTypeOK
  <2> SUFFICES ASSUME MapInv PROVE SeatMapTypeOK
    OBVIOUS
  <2>1. /\ db \in [Seats -> Statuses] /\ Len(log) <= MaxChanges
        /\ \A i \in DOMAIN log : log[i] \in [seat : Seats, state : Statuses]
        /\ unsent \subseteq DOMAIN log /\ \A i \in DOMAIN topic : topic[i] \in DOMAIN log
    <3>1. SeatTypes /\ DOMAIN log = 1..Len(log) /\ DOMAIN topic = 1..Len(topic)
      BY DEF MapInv, MapTypes, SeatTypes
    <3>2. \A i \in DOMAIN log : log[i] \in Row
      BY <3>1 DEF SeatTypes
    <3>3. QED
      BY <3>1, <3>2, Zenon DEF SeatTypes, Row
  <2>2. disordered \in BOOLEAN
    BY Zenon DEF MapInv, MapTypes, SeatTypes
  <2>3. /\ server \in {"up", "signalled", "failed", "down"} /\ tail \in -1..Len(topic)
        /\ hub.closed \in BOOLEAN /\ hub.count \in Int /\ faults \in 0..MaxFaults
    BY Zenon DEF MapInv, MapTypes, ServerTypes
  <2>4. ASSUME NEW c \in Conns PROVE ConnOK(c)
    <3>1. conn[c] \in ConnRec /\ ConnInv(c)
      BY Zenon DEF MapInv, MapTypes, ConnTypes, PlaceInv
    <3>2. QED
      BY <3>1, Zenon DEF ConnRec, ConnInv, ConnOK
  <2>5. ASSUME NEW b \in Browsers PROVE TabOK(b)
    <3>1. tab[b] \in TabRec(b) /\ LinkInv(b)
      BY Zenon DEF MapInv, MapTypes, TabTypes, PlaceInv
    <3>2. QED
      BY <3>1, Zenon DEF TabRec, LinkInv, TabOK
  <2>6. QED
    BY <2>1, <2>2, <2>3, <2>4, <2>5 DEF SeatMapTypeOK
<1>2. QED
  BY <1>1, SeatMapAgrees, PTL

(* The hub's count is the number of its subscriptions and within the limit, a channel is     *)
(* open exactly while it is registered, and a closed hub has none (Hub.Subscribe, Publish,   *)
(* Close and Subscription.Close).                                                            *)
THEOREM HubCorrect == SeatMapSpec => []HubIsConsistent
<1>1. MapInv => HubIsConsistent
  <2> SUFFICES ASSUME MapInv, server # "down"
               PROVE  /\ hub.count = Cardinality({c \in Conns : conn[c].subbed})
                      /\ hub.count \in 0..MaxSubscribers
                      /\ \A c \in Conns : conn[c].open <=> conn[c].subbed
                      /\ \A c \in Conns : conn[c].subbed => conn[c].phase = "serving"
                      /\ hub.closed => \A c \in Conns : ~conn[c].subbed
    BY Zenon DEF HubIsConsistent
  <2>1. hub.count = Cardinality(Subscribed) /\ hub.count <= MaxSubscribers
    BY Zenon DEF MapInv, PlaceInv, CountInv
  <2>2. hub.count \in 0..MaxSubscribers
    BY <2>1, SubscribedFinite, SeatMapConstantsOK
  <2>3. \A c \in Conns : /\ conn[c].open <=> conn[c].subbed
                         /\ conn[c].subbed => conn[c].phase = "serving" /\ ~hub.closed
    BY Zenon DEF MapInv, PlaceInv, ConnInv
  <2>4. QED
    BY <2>1, <2>2, <2>3, Zenon DEF Subscribed
<1>2. QED
  BY <1>1, SeatMapAgrees, PTL

(* A list fetched under the stream with no push across it stays right by pushes alone:       *)
(* whenever everything has been delivered the page shows the seats as they are               *)
(* (useSeatStream's refetch on open, applyUpdate).                                           *)
THEOREM StreamedMapCorrect == SeatMapSpec => []StreamedMapIsRight
<1>1. MapInv => StreamedMapIsRight
  <2> SUFFICES ASSUME MapInv, NEW b \in Browsers, tab[b].sound, ~disordered, Delivered(b)
               PROVE  MapIsRight(b)
    BY Zenon DEF StreamedMapIsRight
  <2> DEFINE c == tab[b].link
  <2>1. /\ unsent = {} /\ tail = Len(topic) /\ tab[b].page = "open" /\ conn[c].open
        /\ conn[c].buf = <<>> /\ conn[c].wire = <<>>
    BY Zenon DEF Delivered
  <2>2. tab[b].loaded /\ tab[b].map \in [ShownSeats(b) -> Names]
    BY Zenon DEF MapInv, MapTypes, TabTypes, TabRec, PlaceInv, LinkInv
  <2>3. \A s : ~Late(s)
    <3>1. unsent = (Len(topic) + 1)..Len(log) /\ Len(topic) \in Nat /\ Len(log) \in Nat
      BY DEF MapInv, MapTypes, SeatTypes, DataInv, OrderInv
    <3>2. \A i \in 1..Len(log) : ~(i > tail)
      BY <2>1, <3>1
    <3>3. QED
      BY <3>2, Zenon DEF Late
  <2>4. \A s : ~Pending(c, s)
    BY <2>1, <2>3, QueueEmpty, Zenon DEF Pending
  <2>5. \A s \in ShownSeats(b) : tab[b].map[s] = Name(s)
    BY <2>1, <2>4, Zenon DEF MapInv, DataInv, FreshInv
  <2>6. tab[b].map = [s \in ShownSeats(b) |-> seatStatusName(toProtoStatus(db[s]))]
    BY <2>2, <2>5, Zenon DEF Name
  <2>7. QED
    BY <2>2, <2>6, Zenon DEF MapIsRight
<1>2. QED
  BY <1>1, SeatMapAgrees, PTL
=============================================================================
