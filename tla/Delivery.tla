------------------------------ MODULE Delivery ------------------------------
(***************************************************************************)
(* How an order event leaves order-svc and takes effect elsewhere: outbox  *)
(* rows, the publishers of all replicas (pkg/outbox), one partition of the *)
(* topic, the replicas of one consumer group (pkg/kafka), and the group's  *)
(* handler: the projection of analytics-svc or the mailer of               *)
(* notification-svc.  Groups do not share offsets, so the model follows    *)
(* one of the two, chosen at the start.                                    *)
(*                                                                         *)
(* Every failure of the environment (a broken connection, a failing        *)
(* transaction, a crash, a signal, a rebalance) counts as one fault.       *)
(***************************************************************************)
EXTENDS Integers, Sequences, FiniteSets

CONSTANTS
  Rows,           \* outbox rows; their numbers are the order of created_at, id
  Body,           \* what the payload of a row says
  Concerts,
  Publishers, Consumers, NoConsumer,
  PublishBatch,   \* Publisher.batch
  BatchSize, Concurrency, MaxAttempts,      \* ConsumerConfig
  MaxFaults       \* bound: faults in one behaviour

Types == {"CREATED", "CONFIRMED", "FAILED", "garbled"}

ASSUME DeliveryConstantsOK ==
  /\ Rows \subseteq Nat /\ IsFiniteSet(Rows)
  /\ Body \in [Rows -> [type : Types, concert : Concerts, seats : Nat, cents : Nat]]
  /\ NoConsumer \notin Consumers
  /\ {PublishBatch, BatchSize, Concurrency, MaxAttempts} \subseteq Nat \ {0}
  /\ MaxFaults \in Nat

VARIABLES
  outbox,         \* per row: not inserted, unpublished, published
  pub_pc, batch,  \* per publisher: where publishBatch stands, the rows it locked
  topic,          \* the partition: the message-ids in it
  committed,      \* the group's committed offset: messages 1..committed are done
  owner,          \* the consumer the partition is assigned to
  group,          \* the group that is followed
  con_pc, next,   \* per consumer: where Run stands, the next message to fetch
  task,           \* per consumer: the goroutines of the batch, by offset
  dlq,            \* the dead-letter topic
  processed, stats,       \* analytics: processed_messages, event_stats
  marked, mails,          \* notification: Redis markers, mails sent per event
  faults

outboxVars == <<outbox, pub_pc, batch>>
conVars == <<con_pc, next, task>>
groupVars == <<committed, owner, group>>
effects == <<processed, stats, marked, mails>>
deliveryVars == <<outboxVars, topic, groupVars, conVars, dlq, effects, faults>>

Statistics == [sold : Nat, revenue : Nat, confirmed : Nat, failed : Nat]
Task == [st : {"new", "retry", "mailing", "mailed", "parking", "done"},
         tries : 0..MaxAttempts]
NoTasks == <<>>

DeliveryTypeOK ==
  /\ outbox \in [Rows -> {"none", "unpublished", "published"}]
  /\ pub_pc \in [Publishers -> {"idle", "selected", "sent"}]
  /\ batch \in [Publishers -> SUBSET Rows]
  /\ topic \in Seq(Rows)
  /\ committed \in 0..Len(topic)
  /\ owner \in Consumers \cup {NoConsumer}
  /\ group \in {"analytics", "notification"}
  /\ con_pc \in [Consumers -> {"down", "fetching", "working"}]
  /\ next \in [Consumers -> 1..(Len(topic) + 1)]
  /\ DOMAIN task = Consumers
  /\ \A c \in Consumers : /\ DOMAIN task[c] \subseteq 1..Len(topic)
                          /\ task[c] \in [DOMAIN task[c] -> Task]
  /\ dlq \subseteq Rows
  /\ processed \subseteq Rows
  /\ stats \in [Concerts -> Statistics]
  /\ marked \subseteq Rows
  /\ mails \in [Rows -> Nat]
  /\ faults \in 0..MaxFaults

Fault == faults < MaxFaults /\ faults' = faults + 1

-----------------------------------------------------------------------------
(* What a message means to the handlers.                                   *)

\* parse: what an event adds to the statistics of its concert.
Delta(m) ==
  IF Body[m].type = "CONFIRMED"
  THEN [sold |-> Body[m].seats, revenue |-> Body[m].cents, confirmed |-> 1, failed |-> 0]
  ELSE [sold |-> 0, revenue |-> 0, confirmed |-> 0, failed |-> 1]

Tally == INSTANCE SalesTally WITH
  Messages <- Rows, ConcertOf <- [m \in Rows |-> Body[m].concert],
  recorded <- {m \in Rows : outbox[m] # "none"}, counted <- processed

\* parse, compose: only verdicts count, and only verdicts are mailed.
IsVerdict(m) == Body[m].type \in {"CONFIRMED", "FAILED"}

\* What does not decode comes back marked Permanent: it is parked without a retry.
IsPermanent(m) == Body[m].type = "garbled"

\* The handler has an effect for m, or nothing to do for it.
Handled(m) ==
  \/ m \in dlq
  \/ Body[m].type = "CREATED"
  \/ group = "analytics" /\ m \in processed
  \/ group = "notification" /\ mails[m] > 0

\* backlogCollector: the rows that still wait for a publisher.
Backlog == {r \in Rows : outbox[r] = "unpublished"}

DeliveryInit ==
  /\ outbox = [r \in Rows |-> "none"]
  /\ pub_pc = [p \in Publishers |-> "idle"]
  /\ batch = [p \in Publishers |-> {}]
  /\ topic = <<>> /\ committed = 0
  /\ owner = NoConsumer
  /\ group \in {"analytics", "notification"}
  /\ con_pc = [c \in Consumers |-> "down"]
  /\ next = [c \in Consumers |-> 1]
  /\ task = [c \in Consumers |-> NoTasks]
  /\ dlq = {}
  /\ processed = {} /\ stats = [e \in Concerts |-> Tally!ZeroStats]
  /\ marked = {} /\ mails = [r \in Rows |-> 0]
  /\ faults = 0

-----------------------------------------------------------------------------
(* order-svc and its publisher.                                            *)

\* insertOutbox, once the transaction around it commits.
InsertOutbox(r) ==
  /\ outbox[r] = "none"
  /\ outbox' = [outbox EXCEPT ![r] = "unpublished"]
  /\ UNCHANGED <<pub_pc, batch, topic, groupVars, conVars, dlq, effects, faults>>

\* The first n rows of S in the order of created_at, id.
Oldest(S, n) == {r \in S : Cardinality({q \in S : q < r}) < n}

\* S as a sequence in that order: the one increasing sequence that has all of S.
InOrder(S) ==
  {f \in [1..Cardinality(S) -> S] :
     /\ \A i, j \in 1..Cardinality(S) : i < j => f[i] < f[j]
     /\ \A r \in S : \E i \in 1..Cardinality(S) : f[i] = r}

\* The brokers store the batch of p.
AppendBatch(p) == \E messages \in InOrder(batch[p]) : topic' = topic \o messages

\* Variant: FOR UPDATE without SKIP LOCKED's effect, rows of others are read too.
Unlocked_Ignored(p) == Backlog

\* What FOR UPDATE SKIP LOCKED leaves to p.
Unlocked(p) == Backlog \ UNION {batch[q] : q \in Publishers \ {p}}

\* publishBatch: BEGIN and the SELECT.  An empty outbox changes nothing.
SelectRows(p) ==
  /\ pub_pc[p] = "idle" /\ Unlocked(p) # {}
  /\ batch' = [batch EXCEPT ![p] = Oldest(Unlocked(p), PublishBatch)]
  /\ pub_pc' = [pub_pc EXCEPT ![p] = "selected"]
  /\ UNCHANGED <<outbox, topic, groupVars, conVars, dlq, effects, faults>>

Release(p) ==
  /\ pub_pc' = [pub_pc EXCEPT ![p] = "idle"]
  /\ batch' = [batch EXCEPT ![p] = {}]

\* Producer.Publish inside the transaction, acknowledged by all replicas.
WriteMessages(p) ==
  /\ pub_pc[p] = "selected"
  /\ AppendBatch(p)
  /\ pub_pc' = [pub_pc EXCEPT ![p] = "sent"]
  /\ UNCHANGED <<outbox, batch, groupVars, conVars, dlq, effects, faults>>

\* Publish returns an error, after the brokers stored the batch or before; rollback.
WriteFails(p) ==
  /\ pub_pc[p] = "selected" /\ Fault
  /\ UNCHANGED topic \/ AppendBatch(p)
  /\ Release(p)
  /\ UNCHANGED <<outbox, groupVars, conVars, dlq, effects>>

\* Variant: the rows are marked before they are sent.
MarkPublished_First(p) ==
  /\ pub_pc[p] \in {"selected", "sent"}
  /\ outbox' = [r \in Rows |-> IF r \in batch[p] THEN "published" ELSE outbox[r]]
  /\ Release(p)
  /\ UNCHANGED <<topic, groupVars, conVars, dlq, effects, faults>>

\* UPDATE ... published = true, and the commit.
MarkPublished(p) ==
  /\ pub_pc[p] = "sent"
  /\ outbox' = [r \in Rows |-> IF r \in batch[p] THEN "published" ELSE outbox[r]]
  /\ Release(p)
  /\ UNCHANGED <<topic, groupVars, conVars, dlq, effects, faults>>

\* The transaction ends without a commit: the UPDATE or the COMMIT fails, ctx is
\* cancelled, or the process dies.
PublisherStops(p) ==
  /\ pub_pc[p] # "idle" /\ Fault
  /\ Release(p)
  /\ UNCHANGED <<outbox, topic, groupVars, conVars, dlq, effects>>

-----------------------------------------------------------------------------
(* The consumer group.                                                     *)

\* The process of c is up and in Consumer.Run.
StartConsumer(c) ==
  /\ con_pc[c] = "down"
  /\ con_pc' = [con_pc EXCEPT ![c] = "fetching"]
  /\ UNCHANGED <<outboxVars, topic, groupVars, next, task, dlq, effects, faults>>

\* The coordinator gives the partition to c: because nobody alive has it, or in a
\* rebalance that leaves the old owner with a batch in its hands.
Assign(c) ==
  /\ c # owner /\ con_pc[c] = "fetching"
  /\ \/ owner = NoConsumer /\ UNCHANGED faults
     \/ owner # NoConsumer /\ Fault
  /\ owner' = c
  /\ next' = [next EXCEPT ![c] = committed + 1]
  /\ UNCHANGED <<outboxVars, topic, committed, group, con_pc, task, dlq, effects>>

\* Variant: one message too many.
Available_OffByOne(c) == next[c]..(Len(topic) + 1)

Available(c) == next[c]..Len(topic)

\* fetchBatch: one message, and as many more as come within BatchWait.
FetchBatch(c) ==
  /\ con_pc[c] = "fetching" /\ owner = c
  /\ \E last \in Available(c) :
       /\ last < next[c] + BatchSize
       /\ task' = [task EXCEPT ![c] =
            [i \in next[c]..last |-> [st |-> "new", tries |-> 0]]]
       /\ next' = [next EXCEPT ![c] = last + 1]
  /\ con_pc' = [con_pc EXCEPT ![c] = "working"]
  /\ UNCHANGED <<outboxVars, topic, groupVars, dlq, effects, faults>>

\* Run returns an error or the process dies: nothing more is committed, and the group
\* takes the partition back.
Leave(c) ==
  /\ con_pc' = [con_pc EXCEPT ![c] = "down"]
  /\ task' = [task EXCEPT ![c] = NoTasks]
  /\ owner' = IF owner = c THEN NoConsumer ELSE owner

\* FetchMessage fails, ctx is cancelled before the batch is done, or a crash.
ConsumerStops(c) ==
  /\ con_pc[c] # "down" /\ Fault
  /\ Leave(c)
  /\ UNCHANGED <<outboxVars, topic, committed, group, next, dlq, effects>>

-----------------------------------------------------------------------------
(* One message of a batch: handleOne around the group's handler.           *)

\* process: goroutines start in the order of the batch, Concurrency at a time.
Running(c) == {i \in DOMAIN task[c] : task[c][i].st \notin {"new", "done"}}
MayRun(c, i) ==
  \/ task[c][i].st = "retry"
  \/ /\ task[c][i].st = "new"
     /\ \A j \in DOMAIN task[c] : j < i => task[c][j].st # "new"
     /\ Cardinality(Running(c)) < Concurrency

MoveTask(c, i, st) == task' = [task EXCEPT ![c][i].st = st]

unseenByTasks == <<outboxVars, topic, groupVars, con_pc, next>>

\* The handler returns a permanent error, or nil at once for what is no verdict.
HandleOther(c, i) ==
  /\ MayRun(c, i) /\ ~IsVerdict(topic[i])
  /\ MoveTask(c, i, IF IsPermanent(topic[i]) THEN "parking" ELSE "done")
  /\ UNCHANGED <<unseenByTasks, dlq, effects, faults>>

\* Variant: the counters are updated whether or not the message was new.
Apply_NoConflict(m) ==
  /\ processed' = processed \cup {m}
  /\ stats' = [stats EXCEPT ![Body[m].concert] = Tally!Plus(@, Delta(m))]
  /\ UNCHANGED <<marked, mails>>

\* apply: the marker and the counters in one transaction.
Apply(m) ==
  /\ processed' = processed \cup {m}
  /\ stats' = IF m \in processed THEN stats
              ELSE [stats EXCEPT ![Body[m].concert] = Tally!Plus(@, Delta(m))]
  /\ UNCHANGED <<marked, mails>>

\* Projector.Handle.
Project(c, i) ==
  /\ group = "analytics" /\ MayRun(c, i) /\ IsVerdict(topic[i])
  /\ Apply(topic[i])
  /\ MoveTask(c, i, "done")
  /\ UNCHANGED <<unseenByTasks, dlq, faults>>

\* Handler.Handle of notification-svc: Seen, then Send, then Mark.
CheckSeen(c, i) ==
  /\ group = "notification" /\ MayRun(c, i) /\ IsVerdict(topic[i])
  /\ MoveTask(c, i, IF topic[i] \in marked THEN "done" ELSE "mailing")
  /\ UNCHANGED <<unseenByTasks, dlq, effects, faults>>

SendMail(c, i) ==
  /\ task[c][i].st = "mailing"
  /\ mails' = [mails EXCEPT ![topic[i]] = @ + 1]
  /\ MoveTask(c, i, "mailed")
  /\ UNCHANGED <<unseenByTasks, dlq, processed, stats, marked, faults>>

\* A failing Mark is only logged.
MarkSent(c, i) ==
  /\ task[c][i].st = "mailed"
  /\ \/ marked' = marked \cup {topic[i]} /\ UNCHANGED faults
     \/ Fault /\ UNCHANGED marked
  /\ MoveTask(c, i, "done")
  /\ UNCHANGED <<unseenByTasks, dlq, processed, stats, mails>>

\* The handler returns an error: Redis, the mail server or the database failed.  A
\* commit whose reply was lost is an error too.
HandlerFails(c, i) ==
  /\ (MayRun(c, i) /\ IsVerdict(topic[i])) \/ task[c][i].st = "mailing"
  /\ Fault
  /\ LET n == task[c][i].tries + 1
     IN  task' = [task EXCEPT ![c][i] =
                    [st |-> IF n < MaxAttempts THEN "retry" ELSE "parking", tries |-> n]]
  /\ \/ UNCHANGED effects
     \/ group = "analytics" /\ Apply(topic[i])
  /\ UNCHANGED <<unseenByTasks, dlq>>

\* deadLetter.
DeadLetter(c, i) ==
  /\ task[c][i].st = "parking"
  /\ dlq' = dlq \cup {topic[i]}
  /\ MoveTask(c, i, "done")
  /\ UNCHANGED <<unseenByTasks, effects, faults>>

\* Variant: a dead-letter topic that is down costs the message.
DeadLetterFails_Drops(c, i) ==
  /\ task[c][i].st = "parking" /\ Fault
  /\ MoveTask(c, i, "done")
  /\ UNCHANGED <<unseenByTasks, dlq, effects>>

\* The dead-letter topic is down: the error ends process, and with it Run.
DeadLetterFails(c, i) ==
  /\ task[c][i].st = "parking" /\ Fault
  /\ Leave(c)
  /\ UNCHANGED <<outboxVars, topic, committed, group, next, dlq, effects>>

MarkerExpires(m) ==
  /\ m \in marked /\ Fault
  /\ marked' = marked \ {m}
  /\ UNCHANGED <<unseenByTasks, task, dlq, processed, stats, mails>>

\* Variant: the offsets are committed before the handlers are done.
BatchDone_Early(c) == con_pc[c] = "working"

BatchDone(c) ==
  con_pc[c] = "working" /\ \A i \in DOMAIN task[c] : task[c][i].st = "done"

\* CommitMessages accepted.  It does not inherit ctx's cancellation.  Kafka takes the
\* offset even from a member that has lost the partition.
CommitBatch(c) ==
  /\ BatchDone(c)
  /\ committed' = next[c] - 1
  /\ con_pc' = [con_pc EXCEPT ![c] = "fetching"]
  /\ task' = [task EXCEPT ![c] = NoTasks]
  /\ UNCHANGED <<outboxVars, topic, owner, group, next, dlq, effects, faults>>

\* CommitMessages returns an error, after the broker took the offset or before.
CommitFails(c) ==
  /\ BatchDone(c) /\ Fault
  /\ committed' \in {committed, next[c] - 1}
  /\ Leave(c)
  /\ UNCHANGED <<outboxVars, topic, group, next, dlq, effects>>

-----------------------------------------------------------------------------
PublisherNext(p) ==
  SelectRows(p) \/ WriteMessages(p) \/ WriteFails(p) \/ MarkPublished(p) \/ PublisherStops(p)

TaskNext(c, i) ==
  \/ HandleOther(c, i) \/ Project(c, i)
  \/ CheckSeen(c, i) \/ SendMail(c, i) \/ MarkSent(c, i)
  \/ HandlerFails(c, i) \/ DeadLetter(c, i) \/ DeadLetterFails(c, i)

ConsumerNext(c) ==
  \/ StartConsumer(c) \/ Assign(c) \/ FetchBatch(c) \/ ConsumerStops(c)
  \/ \E i \in DOMAIN task[c] : TaskNext(c, i)
  \/ CommitBatch(c) \/ CommitFails(c)

DeliveryNext ==
  \/ \E r \in Rows : InsertOutbox(r) \/ MarkerExpires(r)
  \/ \E p \in Publishers : PublisherNext(p)
  \/ \E c \in Consumers : ConsumerNext(c)

DeliverySpec == DeliveryInit /\ [][DeliveryNext]_deliveryVars

\* What goes on by itself: Run loops for ever, an orchestrator restarts what exited, a
\* partition without owner is assigned, every goroutine of a batch continues.
Progress ==
  \/ \E p \in Publishers : SelectRows(p) \/ WriteMessages(p) \/ MarkPublished(p)
  \/ \E c \in Consumers :
       \/ StartConsumer(c) \/ FetchBatch(c) \/ CommitBatch(c)
       \/ owner = NoConsumer /\ Assign(c)
       \/ \E i \in DOMAIN task[c] : TaskNext(c, i)

\* The system does not stand still while one of these can be done.
DeliveryFairSpec == DeliverySpec /\ WF_deliveryVars(Progress)

-----------------------------------------------------------------------------
(* Properties.                                                             *)

\* "It never skips a message" (Consumer): whatever crashes, rebalances or is committed
\* late, a message below the committed offset was handled or is parked.
CommittedIsHandled == \A i \in 1..committed : Handled(topic[i])

\* "No row is sent twice concurrently": as long as nothing fails, two replicas never
\* put the same row on the topic, and a customer gets one mail per verdict.
OnceWithoutFaults ==
  faults = 0 => /\ \A i, j \in 1..Len(topic) : topic[i] = topic[j] => i = j
                /\ \A m \in Rows : mails[m] <= 1

\* "Published" and "sent" agree (publishBatch): a row that is marked published is on the
\* topic, so no event is lost between the two.
PublishedIsOnTopic ==
  \A r \in Rows : outbox[r] = "published" => \E i \in 1..Len(topic) : topic[i] = r

\* "Counts it exactly once" (Projector.Handle): however often a message is delivered,
\* handled or retried after a lost commit, the statistics move as in SalesTally.
RefinesTally == Tally!TallySpec

\* Every committed outbox row reaches the topic and is handled or parked in the end,
\* although publishers and consumers fail at any step.
EveryRowArrives ==
  \A r \in Rows : (r \in Backlog) ~> (r \notin Backlog /\ Handled(r))
=============================================================================
