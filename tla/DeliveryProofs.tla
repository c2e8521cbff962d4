--------------------------- MODULE DeliveryProofs ---------------------------
(* Theorems about the way of an order event from the outbox to its handler, *)
(* for any rows, publishers, consumers, batch sizes and number of faults.   *)
EXTENDS Delivery, FiniteSetTheorems, SequenceTheorems, TLAPS

Offsets == 1..Len(topic)
OnTopic(r) == \E i \in Offsets : topic[i] = r

-----------------------------------------------------------------------------
(* What one step does to the topic and to the goroutines.                  *)

\* The topic is a log: what is in it stays where it is.
Grows ==
  /\ topic' \in Seq(Rows) /\ Len(topic) \in Nat /\ Len(topic') \in Nat
  /\ Len(topic) <= Len(topic') /\ \A i \in 1..Len(topic) : topic'[i] = topic[i]

\* A stored batch adds every row of the batch once and nothing else.
Adds(S) ==
  LET new == (Len(topic) + 1)..Len(topic') IN
  /\ \A i \in new : topic'[i] \in S
  /\ \A i, j \in new : topic'[i] = topic'[j] => i = j
  /\ \A r \in S : \E i \in new : topic'[i] = r

\* A batch written in the order of created_at, id goes to the end of the topic.
LEMMA AppendEffect ==
  ASSUME topic \in Seq(Rows), NEW S, S \subseteq Rows, NEW messages \in InOrder(S),
         topic' = topic \o messages
  PROVE  Grows /\ Adds(S)
<1> DEFINE n == Cardinality(S)
<1>1. n \in Nat /\ S \subseteq Nat
  <2>1. IsFiniteSet(S) /\ S \subseteq Nat
    BY DeliveryConstantsOK, FS_Subset, Zenon
  <2>2. QED
    BY <2>1, FS_CardinalityType, Zenon
<1>2. /\ messages \in [1..n -> S]
      /\ \A i, j \in 1..n : i < j => messages[i] < messages[j]
      /\ \A r \in S : \E i \in 1..n : messages[i] = r
  BY Zenon DEF InOrder
<1> HIDE DEF n
<1>3. messages \in Seq(Rows) /\ Len(messages) = n
  <2>1. messages \in [1..n -> Rows]
    BY <1>2, Zenon
  <2>2. messages \in Seq(Rows)
    BY <1>1, <2>1
  <2>3. QED
    BY <1>1, <2>1, <2>2
<1>4. /\ topic' \in Seq(Rows) /\ Len(topic') = Len(topic) + n /\ Len(topic) \in Nat
      /\ \A i \in 1..Len(topic) : topic'[i] = topic[i]
      /\ \A i \in (Len(topic) + 1)..Len(topic') : topic'[i] = messages[i - Len(topic)]
  <2>1. /\ topic \o messages \in Seq(Rows)
        /\ Len(topic \o messages) = Len(topic) + Len(messages)
        /\ \A i \in 1 .. Len(topic) + Len(messages) :
             (topic \o messages)[i] =
                IF i <= Len(topic) THEN topic[i] ELSE messages[i - Len(topic)]
    BY <1>3, ConcatProperties, Zenon
  <2>2. Len(topic) \in Nat
    BY LenProperties, Zenon
  <2>3. QED
    BY <1>1, <1>3, <2>1, <2>2
<1>5. Grows
  BY <1>1, <1>4 DEF Grows
<1>6. \A i \in (Len(topic) + 1)..Len(topic') : i - Len(topic) \in 1..n
  BY <1>1, <1>4
<1>7. ASSUME NEW i \in 1..n, NEW j \in 1..n, messages[i] = messages[j] PROVE i = j
  <2>1. messages[i] \in S
    BY <1>2, Zenon
  <2>2. messages[i] \in Nat
    BY <1>1, <2>1, Zenon
  <2>3. i \in Nat /\ j \in Nat
    OBVIOUS
  <2>4. ~(i < j) /\ ~(j < i)
    BY <1>2, <1>7, <2>2, <2>3
  <2>5. QED
    BY <2>3, <2>4
<1>8. ASSUME NEW r \in S
      PROVE  \E i \in (Len(topic) + 1)..Len(topic') : topic'[i] = r
  <2>1. PICK k \in 1..n : messages[k] = r
    BY <1>2, Zenon
  <2>2. /\ Len(topic) + k \in (Len(topic) + 1)..Len(topic')
        /\ (Len(topic) + k) - Len(topic) = k
    BY <1>1, <1>4, <2>1
  <2>3. QED
    BY <1>4, <2>1, <2>2, Zenon
<1>9. ASSUME NEW i \in (Len(topic) + 1)..Len(topic'), NEW j \in (Len(topic) + 1)..Len(topic'),
             topic'[i] = topic'[j]
      PROVE  i = j
  <2>1. i - Len(topic) = j - Len(topic)
    BY <1>4, <1>6, <1>7, <1>9
  <2>2. QED
    BY <1>1, <1>4, <2>1
<1>10. \A i \in (Len(topic) + 1)..Len(topic') : topic'[i] \in S
  BY <1>2, <1>4, <1>6, Zenon
<1>11. QED
  BY <1>5, <1>8, <1>9, <1>10, Zenon DEF Adds

\* A step leaves the topic alone, or a publisher adds the batch it has selected.
LEMMA TopicSteps ==
  ASSUME DeliveryTypeOK, [DeliveryNext]_deliveryVars
  PROVE  /\ Grows
         /\ UNCHANGED topic \/ \E p \in Publishers : pub_pc[p] = "selected" /\ Adds(batch[p])
<1>0. topic \in Seq(Rows) /\ batch \in [Publishers -> SUBSET Rows] /\ Len(topic) \in Nat
  BY LenProperties, Zenon DEF DeliveryTypeOK
<1>1. ASSUME UNCHANGED topic PROVE Grows
  BY <1>0, <1>1 DEF Grows
<1>2. ASSUME NEW p \in Publishers, AppendBatch(p) PROVE Grows /\ Adds(batch[p])
  <2>1. batch[p] \subseteq Rows
    BY <1>0, Zenon
  <2>2. QED
    BY <1>0, <1>2, <2>1, AppendEffect, Zenon DEF AppendBatch
<1>3. ASSUME NEW p \in Publishers, PublisherNext(p)
      PROVE  UNCHANGED topic \/ (pub_pc[p] = "selected" /\ AppendBatch(p))
  BY <1>3, Zenon DEF PublisherNext, SelectRows, WriteMessages, WriteFails, MarkPublished,
     PublisherStops
<1>4. ASSUME NEW r \in Rows, InsertOutbox(r) \/ MarkerExpires(r) PROVE UNCHANGED topic
  BY <1>4, Zenon DEF InsertOutbox, MarkerExpires, unseenByTasks
<1>5. ASSUME NEW c \in Consumers, NEW i, TaskNext(c, i) PROVE UNCHANGED topic
  BY <1>5, Zenon DEF TaskNext, HandleOther, Project, CheckSeen, SendMail, MarkSent, HandlerFails,
     DeadLetter, DeadLetterFails, unseenByTasks
<1>6. ASSUME NEW c \in Consumers, ConsumerNext(c) PROVE UNCHANGED topic
  BY <1>5, <1>6, Zenon DEF ConsumerNext, StartConsumer, Assign, FetchBatch, ConsumerStops,
     CommitBatch,
     CommitFails
<1>7. CASE UNCHANGED deliveryVars
  BY <1>1, <1>7, Zenon DEF deliveryVars
<1>8. QED
  BY <1>1, <1>2, <1>3, <1>4, <1>6, <1>7, Zenon DEF DeliveryNext

\* Goroutine i of consumer c now stands at t, all others where they stood.
SetsTask(c, i, t) ==
  /\ DOMAIN task' = Consumers /\ t \in Task
  /\ \A d \in Consumers : d # c => task'[d] = task[d]
  /\ DOMAIN task'[c] = DOMAIN task[c] /\ task'[c] \in [DOMAIN task[c] -> Task]
  /\ \A j \in DOMAIN task[c] : task'[c][j] = IF j = i THEN t ELSE task[c][j]

\* Writing a goroutine's place leaves every other goroutine alone.
LEMMA PutTaskEffect ==
  ASSUME DeliveryTypeOK, NEW c \in Consumers, NEW i \in DOMAIN task[c], NEW t \in Task,
         task' = [task EXCEPT ![c][i] = t]
  PROVE  SetsTask(c, i, t)
<1>1. DOMAIN task = Consumers /\ task[c] \in [DOMAIN task[c] -> Task]
  BY Zenon DEF DeliveryTypeOK
<1>2. QED
  BY <1>1, Zenon DEF SetsTask

\* MoveTask keeps the number of attempts.
LEMMA MoveTaskEffect ==
  ASSUME DeliveryTypeOK, NEW c \in Consumers, NEW i \in DOMAIN task[c],
         NEW st \in {"new", "retry", "mailing", "mailed", "parking", "done"}, MoveTask(c, i, st)
  PROVE  SetsTask(c, i, [st |-> st, tries |-> task[c][i].tries])
<1> DEFINE t == [st |-> st, tries |-> task[c][i].tries]
<1>1. DOMAIN task = Consumers /\ task[c] \in [DOMAIN task[c] -> Task] /\ task[c][i] \in Task
  BY Zenon DEF DeliveryTypeOK
<1>2. [task[c][i] EXCEPT !.st = st] = t /\ t \in Task
  BY <1>1 DEF Task
<1>3. task' = [task EXCEPT ![c][i] = [task[c][i] EXCEPT !.st = st]]
  BY <1>1, Zenon DEF MoveTask
<1>4. task' = [task EXCEPT ![c][i] = t]
  BY <1>2, <1>3, Zenon
<1> HIDE DEF t
<1>5. QED
  BY <1>2, <1>4, PutTaskEffect, Zenon DEF t

\* A goroutine that still may fail has attempts left.
TriesInv ==
  \A c \in Consumers : \A i \in DOMAIN task[c] :
    task[c][i].st \in {"new", "retry", "mailing"} => task[c][i].tries < MaxAttempts

\* A goroutine's step moves that goroutine, or its error ends Run.
LEMMA TaskSteps ==
  ASSUME DeliveryTypeOK, TriesInv, NEW c \in Consumers, NEW i \in DOMAIN task[c], TaskNext(c, i)
  PROVE  \/ Leave(c) /\ Fault
         \/ /\ UNCHANGED unseenByTasks
            /\ \E t : /\ SetsTask(c, i, t)
                      /\ t.st \in {"new", "retry", "mailing"} => t.tries < MaxAttempts
<1>0. /\ task[c][i] \in Task /\ MaxAttempts \in Nat \ {0}
      /\ task[c][i].st \in {"new", "retry", "mailing"} => task[c][i].tries < MaxAttempts
  BY DeliveryConstantsOK, Zenon DEF DeliveryTypeOK, TriesInv
<1> DEFINE Goal == \E t : /\ SetsTask(c, i, t)
                          /\ t.st \in {"new", "retry", "mailing"} => t.tries < MaxAttempts
<1>1. ASSUME NEW st \in {"mailed", "parking", "done", "mailing"}, MoveTask(c, i, st),
             st = "mailing" => task[c][i].st \in {"new", "retry"}
      PROVE  Goal
  <2> DEFINE t == [st |-> st, tries |-> task[c][i].tries]
  <2>1. t.st = st /\ t.tries = task[c][i].tries
    OBVIOUS
  <2>2. SetsTask(c, i, t)
    BY <1>1, MoveTaskEffect, Zenon
  <2> HIDE DEF t
  <2>3. t.st \in {"new", "retry", "mailing"} => t.tries < MaxAttempts
    BY <1>0, <1>1, <2>1, Zenon
  <2>4. QED
    BY <2>2, <2>3, Zenon
<1>2. ASSUME HandlerFails(c, i) PROVE Goal
  <2> DEFINE n == task[c][i].tries + 1
             t == [st |-> IF n < MaxAttempts THEN "retry" ELSE "parking", tries |-> n]
  <2>1. task[c][i].st \in {"new", "retry", "mailing"} /\ task' = [task EXCEPT ![c][i] = t]
    BY <1>2, Zenon DEF HandlerFails, MayRun
  <2>2. t \in Task /\ (t.st = "retry" => t.tries < MaxAttempts) /\ t.st \in {"retry", "parking"}
    BY <1>0, <2>1 DEF Task
  <2> HIDE DEF t
  <2>3. SetsTask(c, i, t)
    BY <2>1, <2>2, PutTaskEffect, Zenon
  <2>4. QED
    BY <2>2, <2>3, Zenon
<1>3. ASSUME CheckSeen(c, i)
      PROVE  \/ MoveTask(c, i, "done")
             \/ MoveTask(c, i, "mailing") /\ task[c][i].st \in {"new", "retry"}
  BY <1>3, Zenon DEF CheckSeen, MayRun
<1>4. ASSUME \/ HandleOther(c, i) \/ Project(c, i) \/ SendMail(c, i) \/ MarkSent(c, i)
             \/ DeadLetter(c, i)
      PROVE  \E st \in {"mailed", "parking", "done"} : MoveTask(c, i, st)
  BY <1>4, Zenon DEF HandleOther, Project, SendMail, MarkSent, DeadLetter
<1>5. ASSUME DeadLetterFails(c, i) PROVE Leave(c) /\ Fault
  BY <1>5, Zenon DEF DeadLetterFails
<1>6. DeadLetterFails(c, i) \/ UNCHANGED unseenByTasks
  BY Zenon DEF TaskNext, HandleOther, Project, CheckSeen, SendMail, MarkSent, HandlerFails,
     DeadLetter
<1> HIDE DEF Goal
<1>7. DeadLetterFails(c, i) \/ Goal
  BY <1>1, <1>2, <1>3, <1>4, Zenon DEF TaskNext
<1>8. QED
  BY <1>5, <1>6, <1>7, Zenon DEF Goal

\* What a step does to the tables, markers and mails of the handlers: one row of the
\* topic is parked, counted, mailed or marked, or a marker expires.
LEMMA EffectSteps ==
  ASSUME DeliveryTypeOK, [DeliveryNext]_deliveryVars
  PROVE  /\ UNCHANGED group
         /\ \/ UNCHANGED <<dlq, effects>>
            \/ \E r \in Rows : dlq' = dlq \cup {r} /\ UNCHANGED effects
            \/ \E r \in Rows : OnTopic(r) /\ Apply(r) /\ UNCHANGED dlq
            \/ \E r \in Rows : /\ OnTopic(r) /\ mails' = [mails EXCEPT ![r] = @ + 1]
                               /\ UNCHANGED <<dlq, processed, stats, marked>>
            \/ \E r \in Rows : /\ marked' \in {marked \cup {r}, marked \ {r}}
                               /\ UNCHANGED <<dlq, processed, stats, mails>>
<1> DEFINE Goal == /\ UNCHANGED group
         /\ \/ UNCHANGED <<dlq, effects>>
            \/ \E r \in Rows : dlq' = dlq \cup {r} /\ UNCHANGED effects
            \/ \E r \in Rows : OnTopic(r) /\ Apply(r) /\ UNCHANGED dlq
            \/ \E r \in Rows : /\ OnTopic(r) /\ mails' = [mails EXCEPT ![r] = @ + 1]
                               /\ UNCHANGED <<dlq, processed, stats, marked>>
            \/ \E r \in Rows : /\ marked' \in {marked \cup {r}, marked \ {r}}
                               /\ UNCHANGED <<dlq, processed, stats, mails>>
<1>1. ASSUME NEW c \in Consumers, NEW i \in DOMAIN task[c]
      PROVE  topic[i] \in Rows /\ OnTopic(topic[i])
  <2>1. i \in 1..Len(topic) /\ topic \in Seq(Rows)
    BY Zenon DEF DeliveryTypeOK
  <2>2. QED
    BY <2>1, ElementOfSeq, Zenon DEF OnTopic, Offsets
<1>2. ASSUME NEW c \in Consumers, NEW i \in DOMAIN task[c], TaskNext(c, i) PROVE Goal
  <2>1. CASE Project(c, i)
    BY <1>1, <2>1, Zenon DEF Project, unseenByTasks, groupVars
  <2>2. CASE SendMail(c, i)
    BY <1>1, <2>2, Zenon DEF SendMail, unseenByTasks, groupVars
  <2>3. CASE MarkSent(c, i)
    <3>1. UNCHANGED <<group, dlq, processed, stats, mails>>
      BY <2>3, Zenon DEF MarkSent, unseenByTasks, groupVars
    <3>2. marked' = marked \cup {topic[i]} \/ UNCHANGED marked
      BY <2>3, Zenon DEF MarkSent
    <3>3. QED
      BY <1>1, <3>1, <3>2, Zenon DEF effects
  <2>4. CASE HandlerFails(c, i)
    <3>1. UNCHANGED <<group, dlq>> /\ (UNCHANGED effects \/ Apply(topic[i]))
      BY <2>4, Zenon DEF HandlerFails, unseenByTasks, groupVars
    <3>2. QED
      BY <1>1, <3>1, Zenon
  <2>5. CASE DeadLetter(c, i)
    BY <1>1, <2>5, Zenon DEF DeadLetter, unseenByTasks, groupVars
  <2>6. CASE HandleOther(c, i) \/ CheckSeen(c, i) \/ DeadLetterFails(c, i)
    BY <2>6, Zenon DEF HandleOther, CheckSeen, DeadLetterFails, unseenByTasks, groupVars
  <2>7. QED
    BY <1>2, <2>1, <2>2, <2>3, <2>4, <2>5, <2>6, Zenon DEF TaskNext
<1>3. ASSUME NEW c \in Consumers, ConsumerNext(c) PROVE Goal
  <2>1. CASE \E i \in DOMAIN task[c] : TaskNext(c, i)
    BY <1>2, <2>1, Zenon
  <2>2. QED
    BY <1>3, <2>1, Zenon DEF ConsumerNext, StartConsumer, Assign, FetchBatch, ConsumerStops,
       CommitBatch,
       CommitFails, groupVars
<1>4. ASSUME NEW p \in Publishers, PublisherNext(p) PROVE Goal
  BY <1>4, Zenon DEF PublisherNext, SelectRows, WriteMessages, WriteFails, MarkPublished,
     PublisherStops,
     groupVars
<1>5. ASSUME NEW r \in Rows, InsertOutbox(r) \/ MarkerExpires(r) PROVE Goal
  <2>1. CASE InsertOutbox(r)
    BY <2>1, Zenon DEF InsertOutbox, groupVars
  <2>2. CASE MarkerExpires(r)
    BY <2>2, Zenon DEF MarkerExpires, unseenByTasks, groupVars
  <2>3. QED
    BY <1>5, <2>1, <2>2, Zenon
<1>6. ASSUME UNCHANGED deliveryVars PROVE Goal
  BY <1>6, Zenon DEF deliveryVars, groupVars
<1> HIDE DEF Goal
<1>7. Goal
  BY <1>3, <1>4, <1>5, <1>6, Zenon DEF DeliveryNext
<1>8. QED
  BY <1>7, Zenon DEF Goal

\* Effects have their types and are never undone; only markers expire.
LEMMA EffectsKept ==
  ASSUME DeliveryTypeOK, [DeliveryNext]_deliveryVars
  PROVE  /\ UNCHANGED group /\ dlq \subseteq dlq' /\ dlq' \subseteq Rows
         /\ processed \subseteq processed' /\ processed' \subseteq Rows /\ marked' \subseteq Rows
         /\ stats' \in [Concerts -> Statistics] /\ mails' \in [Rows -> Nat]
         /\ \A m \in Rows : mails[m] \in Nat /\ mails[m] <= mails'[m]
<1>0. /\ dlq \subseteq Rows /\ processed \subseteq Rows /\ marked \subseteq Rows
      /\ stats \in [Concerts -> Statistics] /\ mails \in [Rows -> Nat]
  BY Zenon DEF DeliveryTypeOK
<1>1. ASSUME NEW r \in Rows, Apply(r) PROVE stats' \in [Concerts -> Statistics]
  <2>1. Body[r] \in [type : Types, concert : Concerts, seats : Nat, cents : Nat]
    BY DeliveryConstantsOK, Zenon
  <2>2. Delta(r) \in Statistics
    BY <2>1, Zenon DEF Delta, Statistics
  <2>3. \A s, d \in Statistics : Tally!Plus(s, d) \in Statistics
    BY DEF Tally!Plus, Statistics
  <2>4. QED
    BY <1>0, <1>1, <2>1, <2>2, <2>3, Zenon DEF Apply
<1>2. ASSUME NEW r \in Rows, mails' = [mails EXCEPT ![r] = @ + 1]
      PROVE  mails' \in [Rows -> Nat] /\ \A m \in Rows : mails[m] <= mails'[m]
  BY <1>0, <1>2
<1>3. stats' \in [Concerts -> Statistics]
  BY <1>0, <1>1, EffectSteps, Zenon DEF effects
<1>4. mails' \in [Rows -> Nat] /\ \A m \in Rows : mails[m] \in Nat /\ mails[m] <= mails'[m]
  <2>1. UNCHANGED mails \/ \E r \in Rows : mails' = [mails EXCEPT ![r] = @ + 1]
    BY EffectSteps, Zenon DEF effects, Apply
  <2>2. QED
    BY <1>0, <1>2, <2>1
<1>5. dlq \subseteq dlq' /\ dlq' \subseteq Rows
  BY <1>0, EffectSteps, Zenon
<1>6. processed \subseteq processed' /\ processed' \subseteq Rows
  BY <1>0, EffectSteps, Zenon DEF effects, Apply
<1>7. marked' \subseteq Rows
  BY <1>0, EffectSteps, Zenon DEF effects, Apply
<1>8. QED
  BY <1>3, <1>4, <1>5, <1>6, <1>7, EffectSteps, Zenon

\* A consumer leaves for itself alone, and drops its goroutines.
LEMMA LeaveEffect ==
  ASSUME DeliveryTypeOK, NEW c \in Consumers, Leave(c)
  PROVE  /\ DOMAIN task' = Consumers /\ task'[c] = NoTasks
         /\ con_pc' \in [Consumers -> {"down", "fetching", "working"}] /\ con_pc'[c] = "down"
         /\ \A d \in Consumers : d # c => task'[d] = task[d] /\ con_pc'[d] = con_pc[d]
         /\ owner' \in {owner, NoConsumer} /\ owner' # c
<1>1. /\ DOMAIN task = Consumers /\ con_pc \in [Consumers -> {"down", "fetching", "working"}]
      /\ NoConsumer \notin Consumers
  BY DeliveryConstantsOK, Zenon DEF DeliveryTypeOK
<1>2. QED
  BY <1>1, Zenon DEF Leave

\* What a step does to the group and its consumers.
LEMMA ConsumerSteps ==
  ASSUME DeliveryTypeOK, TriesInv, [DeliveryNext]_deliveryVars
  PROVE  \/ UNCHANGED <<committed, owner, conVars>>
         \/ \E c \in Consumers : StartConsumer(c) \/ Assign(c) \/ FetchBatch(c) \/ CommitBatch(c)
         \/ \E c \in Consumers : /\ Leave(c) /\ Fault /\ UNCHANGED <<next, topic>>
                                 /\ \/ UNCHANGED committed
                                    \/ BatchDone(c) /\ committed' = next[c] - 1
         \/ \E c \in Consumers : \E i \in DOMAIN task[c] :
              /\ TaskNext(c, i) /\ UNCHANGED unseenByTasks
              /\ \E t : /\ SetsTask(c, i, t)
                        /\ t.st \in {"new", "retry", "mailing"} => t.tries < MaxAttempts
<1>1. ASSUME NEW c \in Consumers, ConsumerStops(c) \/ CommitFails(c)
      PROVE  /\ Leave(c) /\ Fault /\ UNCHANGED <<next, topic>>
             /\ \/ UNCHANGED committed
                \/ BatchDone(c) /\ committed' = next[c] - 1
  BY <1>1, Zenon DEF ConsumerStops, CommitFails
<1>2. ASSUME NEW c \in Consumers, NEW i \in DOMAIN task[c], TaskNext(c, i)
      PROVE  \/ Leave(c) /\ Fault /\ UNCHANGED <<next, topic, committed>>
             \/ /\ TaskNext(c, i) /\ UNCHANGED unseenByTasks
                /\ \E t : /\ SetsTask(c, i, t)
                          /\ t.st \in {"new", "retry", "mailing"} => t.tries < MaxAttempts
  <2>1. CASE DeadLetterFails(c, i)
    BY <2>1, Zenon DEF DeadLetterFails
  <2>2. CASE /\ UNCHANGED unseenByTasks
             /\ \E t : /\ SetsTask(c, i, t)
                       /\ t.st \in {"new", "retry", "mailing"} => t.tries < MaxAttempts
    BY <1>2, <2>2, Zenon
  <2>3. ~DeadLetterFails(c, i) => UNCHANGED <<next, topic, committed>>
    BY <1>2, Zenon DEF TaskNext, HandleOther, Project, CheckSeen, SendMail, MarkSent, HandlerFails,
       DeadLetter, unseenByTasks, groupVars
  <2>4. QED
    BY <1>2, <2>1, <2>2, <2>3, TaskSteps, Zenon
<1>3. ASSUME NEW p \in Publishers, PublisherNext(p) PROVE UNCHANGED <<committed, owner, conVars>>
  BY <1>3, Zenon DEF PublisherNext, SelectRows, WriteMessages, WriteFails, MarkPublished,
     PublisherStops, groupVars
<1>4. ASSUME NEW r \in Rows, InsertOutbox(r) \/ MarkerExpires(r)
      PROVE  UNCHANGED <<committed, owner, conVars>>
  BY <1>4, Zenon DEF InsertOutbox, MarkerExpires, unseenByTasks, groupVars, conVars
<1>5. ASSUME UNCHANGED deliveryVars PROVE UNCHANGED <<committed, owner, conVars>>
  BY <1>5, Zenon DEF deliveryVars, groupVars
<1>6. QED
  BY <1>1, <1>2, <1>3, <1>4, <1>5, Zenon DEF DeliveryNext, ConsumerNext

\* Only order-svc and the publishers write the outbox table.
LEMMA OutboxSteps ==
  ASSUME [DeliveryNext]_deliveryVars
  PROVE  \/ UNCHANGED outboxVars
         \/ \E r \in Rows : InsertOutbox(r)
         \/ \E p \in Publishers : PublisherNext(p)
<1>1. ASSUME NEW c, NEW i, TaskNext(c, i) PROVE UNCHANGED outboxVars
  BY <1>1, Zenon DEF TaskNext, HandleOther, Project, CheckSeen, SendMail, MarkSent, HandlerFails,
     DeadLetter, DeadLetterFails, unseenByTasks
<1>2. ASSUME NEW c, ConsumerNext(c) PROVE UNCHANGED outboxVars
  BY <1>1, <1>2, Zenon DEF ConsumerNext, StartConsumer, Assign, FetchBatch, ConsumerStops,
     CommitBatch, CommitFails
<1>3. ASSUME NEW r, MarkerExpires(r) PROVE UNCHANGED outboxVars
  BY <1>3, Zenon DEF MarkerExpires, unseenByTasks
<1>4. QED
  BY <1>2, <1>3, Zenon DEF DeliveryNext, deliveryVars

\* A step is free of faults, or counts as one.
LEMMA FaultSteps ==
  ASSUME [DeliveryNext]_deliveryVars
  PROVE  UNCHANGED faults \/ Fault
<1>1. ASSUME NEW c, NEW i, TaskNext(c, i) PROVE UNCHANGED faults \/ Fault
  BY <1>1, Zenon DEF TaskNext, HandleOther, Project, CheckSeen, SendMail, MarkSent, HandlerFails,
     DeadLetter, DeadLetterFails
<1>2. ASSUME NEW c, ConsumerNext(c) PROVE UNCHANGED faults \/ Fault
  BY <1>1, <1>2, Zenon DEF ConsumerNext, StartConsumer, Assign, FetchBatch, ConsumerStops,
     CommitBatch, CommitFails
<1>3. ASSUME NEW p, PublisherNext(p) PROVE UNCHANGED faults \/ Fault
  BY <1>3, Zenon DEF PublisherNext, SelectRows, WriteMessages, WriteFails, MarkPublished,
     PublisherStops
<1>4. ASSUME NEW r, InsertOutbox(r) \/ MarkerExpires(r) PROVE UNCHANGED faults \/ Fault
  BY <1>4, Zenon DEF InsertOutbox, MarkerExpires
<1>5. QED
  BY <1>2, <1>3, <1>4, Zenon DEF DeliveryNext, deliveryVars

-----------------------------------------------------------------------------
(* Types.                                                                  *)

\* The outbox table and the publishers keep their types.
LEMMA OutboxTypes ==
  ASSUME DeliveryTypeOK, [DeliveryNext]_deliveryVars
  PROVE  /\ outbox' \in [Rows -> {"none", "unpublished", "published"}]
         /\ pub_pc' \in [Publishers -> {"idle", "selected", "sent"}]
         /\ batch' \in [Publishers -> SUBSET Rows]
<1>0. /\ outbox \in [Rows -> {"none", "unpublished", "published"}]
      /\ pub_pc \in [Publishers -> {"idle", "selected", "sent"}]
      /\ batch \in [Publishers -> SUBSET Rows]
  BY Zenon DEF DeliveryTypeOK
<1>1. CASE UNCHANGED outboxVars
  BY <1>0, <1>1, Zenon DEF outboxVars
<1>2. ASSUME NEW r \in Rows, InsertOutbox(r)
      PROVE  /\ outbox' \in [Rows -> {"none", "unpublished", "published"}]
             /\ UNCHANGED <<pub_pc, batch>>
  BY <1>0, <1>2, Zenon DEF InsertOutbox
<1>3. ASSUME NEW p \in Publishers, PublisherNext(p)
      PROVE  /\ outbox' \in [Rows -> {"none", "unpublished", "published"}]
             /\ pub_pc' \in [Publishers -> {"idle", "selected", "sent"}]
             /\ batch' \in [Publishers -> SUBSET Rows]
  <2>1. \/ UNCHANGED outbox
        \/ outbox' = [r \in Rows |-> IF r \in batch[p] THEN "published" ELSE outbox[r]]
    BY <1>3, Zenon DEF PublisherNext, SelectRows, WriteMessages, WriteFails, MarkPublished,
       PublisherStops
  <2>2. \E pc \in {"idle", "selected", "sent"} : pub_pc' = [pub_pc EXCEPT ![p] = pc]
    BY <1>3, Zenon DEF PublisherNext, SelectRows, WriteMessages, WriteFails, MarkPublished,
       PublisherStops, Release
  <2>3. UNCHANGED batch \/ \E S \in SUBSET Rows : batch' = [batch EXCEPT ![p] = S]
    <3>1. {} \in SUBSET Rows /\ Oldest(Unlocked(p), PublishBatch) \in SUBSET Rows
      BY Zenon DEF Oldest, Unlocked, Backlog
    <3>2. QED
      BY <1>3, <3>1, Zenon DEF PublisherNext, SelectRows, WriteMessages, WriteFails, MarkPublished,
         PublisherStops, Release
  <2>4. QED
    BY <1>0, <2>1, <2>2, <2>3
<1>4. QED
  BY <1>0, <1>1, <1>2, <1>3, OutboxSteps, Zenon

\* The group's offset, the consumers and their goroutines keep their types, and no
\* goroutine is tried more than MaxAttempts times.
LEMMA ConsumerTypes ==
  ASSUME DeliveryTypeOK, TriesInv, [DeliveryNext]_deliveryVars
  PROVE  /\ committed' \in 0..Len(topic')
         /\ owner' \in Consumers \cup {NoConsumer}
         /\ con_pc' \in [Consumers -> {"down", "fetching", "working"}]
         /\ next' \in [Consumers -> 1..(Len(topic') + 1)]
         /\ DOMAIN task' = Consumers
         /\ \A c \in Consumers : /\ DOMAIN task'[c] \subseteq 1..Len(topic')
                                 /\ task'[c] \in [DOMAIN task'[c] -> Task]
         /\ TriesInv'
<1>0. /\ committed \in 0..Len(topic) /\ owner \in Consumers \cup {NoConsumer}
      /\ con_pc \in [Consumers -> {"down", "fetching", "working"}]
      /\ next \in [Consumers -> 1..(Len(topic) + 1)]
      /\ DOMAIN task = Consumers
      /\ \A c \in Consumers : /\ DOMAIN task[c] \subseteq 1..Len(topic)
                              /\ task[c] \in [DOMAIN task[c] -> Task]
  BY Zenon DEF DeliveryTypeOK
<1>1. Len(topic) \in Nat /\ Len(topic') \in Nat /\ Len(topic) <= Len(topic')
  BY TopicSteps, Zenon DEF Grows
<1>2. /\ committed \in 0..Len(topic') /\ \A i \in 1..Len(topic) : i \in 1..Len(topic')
      /\ next \in [Consumers -> 1..(Len(topic') + 1)]
  BY <1>0, <1>1
<1>3. committed' \in 0..Len(topic')
  <2>1. ASSUME NEW c \in Consumers, committed' = next[c] - 1 PROVE committed' \in 0..Len(topic')
    BY <1>1, <1>2, <2>1
  <2>2. UNCHANGED committed \/ \E c \in Consumers : committed' = next[c] - 1
    BY ConsumerSteps, Zenon DEF StartConsumer, Assign, FetchBatch, CommitBatch, unseenByTasks,
       groupVars
  <2>3. QED
    BY <1>2, <2>1, <2>2, Zenon
<1>4. owner' \in Consumers \cup {NoConsumer}
  BY <1>0, ConsumerSteps, Zenon DEF StartConsumer, Assign, FetchBatch, CommitBatch, Leave,
     unseenByTasks,
     groupVars
<1>5. con_pc' \in [Consumers -> {"down", "fetching", "working"}]
  <2>1. \/ UNCHANGED con_pc
        \/ \E c \in Consumers, pc \in {"down", "fetching", "working"} :
             con_pc' = [con_pc EXCEPT ![c] = pc]
    BY ConsumerSteps, Zenon DEF StartConsumer, Assign, FetchBatch, CommitBatch, Leave,
       unseenByTasks,
       conVars
  <2>2. QED
    BY <1>0, <2>1, Zenon
<1>6. next' \in [Consumers -> 1..(Len(topic') + 1)]
  <2>1. \/ UNCHANGED next
        \/ \E c \in Consumers : next' = [next EXCEPT ![c] = committed + 1]
        \/ \E c \in Consumers : UNCHANGED topic /\ \E last \in Available(c) :
             next' = [next EXCEPT ![c] = last + 1]
    BY ConsumerSteps, Zenon DEF StartConsumer, Assign, FetchBatch, CommitBatch, unseenByTasks,
       conVars
  <2>2. ASSUME NEW c \in Consumers, NEW last \in Available(c), UNCHANGED topic
        PROVE  last + 1 \in 1..(Len(topic') + 1)
    BY <1>0, <1>1, <2>2 DEF Available
  <2>3. committed + 1 \in 1..(Len(topic') + 1)
    BY <1>1, <1>2
  <2>4. QED
    BY <1>2, <2>1, <2>2, <2>3, Zenon
<1> DEFINE TaskOK(d) ==
      /\ DOMAIN task'[d] \subseteq 1..Len(topic')
      /\ task'[d] \in [DOMAIN task'[d] -> Task]
      /\ \A i \in DOMAIN task'[d] :
           task'[d][i].st \in {"new", "retry", "mailing"} => task'[d][i].tries < MaxAttempts
<1>7. ASSUME NEW d \in Consumers, task'[d] = task[d] PROVE TaskOK(d)
  BY <1>0, <1>2, <1>7, Zenon DEF TriesInv
<1>8. ASSUME NEW d \in Consumers, task'[d] = NoTasks PROVE TaskOK(d)
  BY <1>8 DEF NoTasks
<1>9. ASSUME NEW c \in Consumers, FetchBatch(c)
      PROVE  /\ DOMAIN task' = Consumers /\ TaskOK(c)
             /\ \A d \in Consumers : d # c => task'[d] = task[d]
  <2> DEFINE new == [st |-> "new", tries |-> 0]
  <2>1. PICK last \in Available(c) : task' = [task EXCEPT ![c] = [i \in next[c]..last |-> new]]
    BY <1>9, Zenon DEF FetchBatch
  <2>2. new \in Task /\ new.tries < MaxAttempts
    BY DeliveryConstantsOK DEF Task
  <2>3. next[c]..last \subseteq 1..Len(topic')
    BY <1>0, <1>1, <2>1 DEF Available
  <2> HIDE DEF new
  <2>4. /\ DOMAIN task' = Consumers /\ task'[c] = [i \in next[c]..last |-> new]
        /\ \A d \in Consumers : d # c => task'[d] = task[d]
    BY <1>0, <2>1, Zenon
  <2>5. QED
    BY <2>2, <2>3, <2>4, Zenon
<1>10. ASSUME NEW c \in Consumers, NEW i \in DOMAIN task[c], NEW t, SetsTask(c, i, t),
              t.st \in {"new", "retry", "mailing"} => t.tries < MaxAttempts
       PROVE  DOMAIN task' = Consumers /\ \A d \in Consumers : TaskOK(d)
  <2>1. /\ DOMAIN task' = Consumers /\ \A d \in Consumers : d # c => task'[d] = task[d]
        /\ DOMAIN task'[c] = DOMAIN task[c] /\ task'[c] \in [DOMAIN task[c] -> Task]
        /\ \A j \in DOMAIN task[c] : task'[c][j] = IF j = i THEN t ELSE task[c][j]
    BY <1>10, Zenon DEF SetsTask
  <2>2. TaskOK(c)
    BY <1>0, <1>2, <1>10, <2>1, Zenon DEF TriesInv
  <2> HIDE DEF TaskOK
  <2>3. QED
    BY <1>7, <2>1, <2>2, Zenon
<1>11. ASSUME NEW c \in Consumers, CommitBatch(c)
       PROVE  /\ DOMAIN task' = Consumers /\ task'[c] = NoTasks
              /\ \A d \in Consumers : d # c => task'[d] = task[d]
  BY <1>0, <1>11, Zenon DEF CommitBatch
<1>12. ASSUME NEW c \in Consumers, StartConsumer(c) \/ Assign(c) PROVE UNCHANGED task
  BY <1>12, Zenon DEF StartConsumer, Assign
<1> HIDE DEF TaskOK
<1>13. DOMAIN task' = Consumers /\ \A d \in Consumers : TaskOK(d)
  <2>1. CASE UNCHANGED task
    BY <1>0, <1>7, <2>1, Zenon
  <2>2. ASSUME NEW c \in Consumers, FetchBatch(c) \/ CommitBatch(c)
        PROVE  DOMAIN task' = Consumers /\ \A d \in Consumers : TaskOK(d)
    BY <1>7, <1>8, <1>9, <1>11, <2>2, Zenon
  <2>3. ASSUME NEW c \in Consumers, Leave(c)
        PROVE  DOMAIN task' = Consumers /\ \A d \in Consumers : TaskOK(d)
    BY <1>7, <1>8, <2>3, LeaveEffect, Zenon
  <2>4. QED
    BY <1>10, <1>12, <2>1, <2>2, <2>3, ConsumerSteps, Zenon DEF conVars
<1>14. QED
  BY <1>3, <1>4, <1>5, <1>6, <1>13, Zenon DEF TaskOK, TriesInv

\* Every step keeps the types.
LEMMA DeliveryTypeStep ==
  ASSUME DeliveryTypeOK, TriesInv, [DeliveryNext]_deliveryVars
  PROVE  DeliveryTypeOK' /\ TriesInv'
<1>1. topic' \in Seq(Rows)
  BY TopicSteps, Zenon DEF Grows
<1>2. faults' \in 0..MaxFaults
  BY FaultSteps, DeliveryConstantsOK DEF DeliveryTypeOK, Fault
<1>3. group' \in {"analytics", "notification"}
  BY EffectsKept, Zenon DEF DeliveryTypeOK
<1>4. QED
  BY <1>1, <1>2, <1>3, OutboxTypes, ConsumerTypes, EffectsKept, Zenon DEF DeliveryTypeOK

\* The types are right at the start.
LEMMA DeliveryTypeInit == DeliveryInit => DeliveryTypeOK /\ TriesInv
<1> SUFFICES ASSUME DeliveryInit PROVE DeliveryTypeOK /\ TriesInv
  OBVIOUS
<1>1. topic \in Seq(Rows) /\ Len(topic) = 0
  BY DEF DeliveryInit
<1>2. \A c \in Consumers : task[c] = NoTasks /\ DOMAIN task[c] = {}
  BY DEF DeliveryInit, NoTasks
<1>3. stats \in [Concerts -> Statistics] /\ mails \in [Rows -> Nat]
  BY Zenon DEF DeliveryInit, Statistics, Tally!ZeroStats
<1>4. faults \in 0..MaxFaults /\ committed \in 0..0 /\ next \in [Consumers -> 1..1]
  BY DeliveryConstantsOK DEF DeliveryInit
<1>5. DOMAIN task = Consumers /\ \A c \in Consumers : task[c] \in [DOMAIN task[c] -> Task]
  BY <1>2 DEF DeliveryInit, NoTasks
<1>6. TriesInv
  BY <1>2, Zenon DEF TriesInv
<1>7. DeliveryTypeOK
  BY <1>1, <1>2, <1>3, <1>4, <1>5 DEF DeliveryInit, DeliveryTypeOK
<1>8. QED
  BY <1>6, <1>7, Zenon

\* The types of the delivery path are kept.
THEOREM DeliveryTypeCorrect == DeliverySpec => []DeliveryTypeOK
<1>1. DeliveryTypeOK /\ TriesInv /\ [DeliveryNext]_deliveryVars => (DeliveryTypeOK /\ TriesInv)'
  BY DeliveryTypeStep, Zenon
<1>2. QED
  BY <1>1, DeliveryTypeInit, PTL DEF DeliverySpec
-----------------------------------------------------------------------------
(* The outbox and the topic.                                               *)

\* The rows a publisher has locked are unpublished and its own, those it has sent are
\* on the topic, and so is everything that is marked published.
OutboxInv ==
  /\ \A p \in Publishers : batch[p] \subseteq Backlog
  /\ \A p, q \in Publishers : p # q => batch[p] \cap batch[q] = {}
  /\ \A p \in Publishers : pub_pc[p] = "sent" => \A r \in batch[p] : OnTopic(r)
  /\ \A i \in Offsets : outbox[topic[i]] # "none"
  /\ PublishedIsOnTopic

\* A message stays on the topic.
LEMMA OnTopicStable ==
  ASSUME DeliveryTypeOK, [DeliveryNext]_deliveryVars, NEW r, OnTopic(r)
  PROVE  \E i \in 1..Len(topic') : topic'[i] = r
<1>1. PICK i \in 1..Len(topic) : topic[i] = r
  BY Zenon DEF OnTopic, Offsets
<1>2. Grows
  BY TopicSteps, Zenon
<1>3. i \in 1..Len(topic') /\ topic'[i] = r
  BY <1>1, <1>2 DEF Grows
<1>4. QED
  BY <1>3, Zenon

\* What a publisher's step does to its transaction and to the table.
LEMMA PublisherEffect ==
  ASSUME DeliveryTypeOK, OutboxInv, NEW p \in Publishers, PublisherNext(p)
  PROVE  /\ \A q \in Publishers : q # p => batch'[q] = batch[q] /\ pub_pc'[q] = pub_pc[q]
         /\ \/ batch'[p] = {}
            \/ pub_pc'[p] = "selected" /\ batch'[p] \subseteq Unlocked(p)
            \/ pub_pc[p] = "selected" /\ batch'[p] = batch[p] /\ Adds(batch[p])
         /\ \/ UNCHANGED outbox
            \/ /\ outbox' = [r \in Rows |-> IF r \in batch[p] THEN "published" ELSE outbox[r]]
               /\ pub_pc[p] = "sent" /\ batch'[p] = {}
<1>0. pub_pc \in [Publishers -> {"idle", "selected", "sent"}] /\ batch \in [Publishers -> SUBSET Rows]
  BY Zenon DEF DeliveryTypeOK
<1>1. CASE SelectRows(p)
  <2>1. Oldest(Unlocked(p), PublishBatch) \subseteq Unlocked(p)
    BY Zenon DEF Oldest
  <2>2. QED
    BY <1>0, <1>1, <2>1, Zenon DEF SelectRows
<1>2. CASE WriteMessages(p)
  <2>1. Adds(batch[p])
    BY <1>0, <1>2, AppendEffect, Zenon DEF WriteMessages, AppendBatch, DeliveryTypeOK
  <2>2. QED
    BY <1>0, <1>2, <2>1, Zenon DEF WriteMessages
<1>3. CASE WriteFails(p)
  BY <1>0, <1>3, Zenon DEF WriteFails, Release
<1>4. CASE MarkPublished(p)
  BY <1>0, <1>4, Zenon DEF MarkPublished, Release
<1>5. CASE PublisherStops(p)
  BY <1>0, <1>5, Zenon DEF PublisherStops, Release
<1>6. QED
  BY <1>1, <1>2, <1>3, <1>4, <1>5, Zenon DEF PublisherNext

\* The locks of FOR UPDATE SKIP LOCKED keep the batches apart.
LEMMA LocksStep ==
  ASSUME DeliveryTypeOK, OutboxInv, [DeliveryNext]_deliveryVars
  PROVE  /\ \A p \in Publishers : batch'[p] \subseteq Backlog'
         /\ \A p, q \in Publishers : p # q => batch'[p] \cap batch'[q] = {}
<1>0. /\ \A p \in Publishers : batch[p] \subseteq Backlog
      /\ \A p, q \in Publishers : p # q => batch[p] \cap batch[q] = {}
      /\ outbox \in [Rows -> {"none", "unpublished", "published"}]
  BY Zenon DEF OutboxInv, DeliveryTypeOK
<1>1. CASE UNCHANGED outboxVars
  BY <1>0, <1>1, Zenon DEF outboxVars, Backlog
<1>2. ASSUME NEW r \in Rows, InsertOutbox(r)
      PROVE  UNCHANGED batch /\ Backlog \subseteq Backlog'
  BY <1>0, <1>2, Zenon DEF InsertOutbox, Backlog
<1>3. ASSUME NEW o \in Publishers, PublisherNext(o)
      PROVE  /\ \A p \in Publishers : batch'[p] \subseteq Backlog'
             /\ \A p, q \in Publishers : p # q => batch'[p] \cap batch'[q] = {}
  <2>1. \A q \in Publishers : q # o => batch'[q] = batch[q]
    BY <1>3, PublisherEffect, Zenon
  <2>2. \A q \in Publishers : q # o => Unlocked(o) \cap batch[q] = {}
    BY Zenon DEF Unlocked
  <2>3. \A q \in Publishers : q # o => batch'[o] \cap batch[q] = {}
    <3>1. batch'[o] = {} \/ batch'[o] \subseteq Unlocked(o) \/ batch'[o] = batch[o]
      BY <1>3, PublisherEffect, Zenon
    <3>2. QED
      BY <1>0, <2>2, <3>1, Zenon
  <2>4. \A p, q \in Publishers : p # q => batch'[p] \cap batch'[q] = {}
    BY <1>0, <2>1, <2>3, Zenon
  <2>5. CASE UNCHANGED outbox
    <3>1. Backlog' = Backlog
      BY <2>5, Zenon DEF Backlog
    <3>2. batch'[o] \subseteq Backlog
      BY <1>0, <1>3, PublisherEffect, Zenon DEF Unlocked
    <3>3. QED
      BY <1>0, <2>1, <2>4, <3>1, <3>2, Zenon
  <2>6. CASE /\ outbox' = [r \in Rows |-> IF r \in batch[o] THEN "published" ELSE outbox[r]]
             /\ batch'[o] = {}
    <3>1. \A q \in Publishers : q # o => batch[q] \subseteq Backlog'
      BY <1>0, <2>6, Zenon DEF Backlog
    <3>2. QED
      BY <2>1, <2>4, <2>6, <3>1, Zenon
  <2>7. QED
    BY <1>3, <2>5, <2>6, PublisherEffect, Zenon
<1>4. QED
  BY <1>0, <1>1, <1>2, <1>3, OutboxSteps, Zenon

\* What was sent or marked published is on the topic, and the topic has only events of
\* committed transactions.
LEMMA SentStep ==
  ASSUME DeliveryTypeOK, OutboxInv, [DeliveryNext]_deliveryVars
  PROVE  /\ \A p \in Publishers : pub_pc'[p] = "sent" => \A r \in batch'[p] : OnTopic(r)'
         /\ \A i \in Offsets' : outbox'[topic'[i]] # "none"
         /\ PublishedIsOnTopic'
<1>0. /\ \A p \in Publishers : pub_pc[p] = "sent" => \A r \in batch[p] : OnTopic(r)
      /\ outbox \in [Rows -> {"none", "unpublished", "published"}]
      /\ \A p \in Publishers : batch[p] \subseteq Rows /\ batch[p] \subseteq Backlog
      /\ topic \in Seq(Rows)
  BY Zenon DEF OutboxInv, DeliveryTypeOK
<1>1. \A r : OnTopic(r) => OnTopic(r)'
  BY OnTopicStable, Zenon DEF OnTopic, Offsets
<1>2. \A r \in Rows : outbox[r] # "none" => outbox'[r] # "none"
  <2>1. ASSUME NEW r \in Rows, InsertOutbox(r)
        PROVE  \A q \in Rows : outbox[q] # "none" => outbox'[q] # "none"
    BY <1>0, <2>1, Zenon DEF InsertOutbox
  <2>2. ASSUME NEW p \in Publishers, PublisherNext(p)
        PROVE  \A q \in Rows : outbox[q] # "none" => outbox'[q] # "none"
    BY <1>0, <2>2, PublisherEffect
  <2>3. QED
    BY <2>1, <2>2, OutboxSteps, Zenon DEF outboxVars
<1>3. \A p \in Publishers : pub_pc'[p] = "sent" => \A r \in batch'[p] : OnTopic(r)'
  <2>1. ASSUME NEW o \in Publishers, PublisherNext(o), pub_pc'[o] = "sent", NEW r \in batch'[o]
        PROVE  OnTopic(r)'
    <3>1. batch'[o] = batch[o] /\ Adds(batch[o])
      BY <2>1, PublisherEffect, Zenon
    <3>2. Len(topic) \in Nat /\ Len(topic') \in Nat
      BY TopicSteps, Zenon DEF Grows
    <3>3. PICK i \in (Len(topic) + 1)..Len(topic') : topic'[i] = r
      BY <2>1, <3>1, Zenon DEF Adds
    <3>4. i \in 1..Len(topic')
      BY <3>2
    <3>5. QED
      BY <3>3, <3>4, Zenon DEF OnTopic, Offsets
  <2>2. ASSUME NEW o \in Publishers, PublisherNext(o), NEW p \in Publishers, p # o
        PROVE  batch'[p] = batch[p] /\ pub_pc'[p] = pub_pc[p]
    BY <2>2, PublisherEffect, Zenon
  <2>3. CASE UNCHANGED <<pub_pc, batch>>
    BY <1>0, <1>1, <2>3, Zenon
  <2>4. CASE \E o \in Publishers : PublisherNext(o)
    BY <1>0, <1>1, <2>1, <2>2, <2>4, Zenon
  <2>5. QED
    BY <2>3, <2>4, OutboxSteps, Zenon DEF outboxVars, InsertOutbox
<1>4. ASSUME NEW i \in Offsets' PROVE outbox'[topic'[i]] # "none"
  <2>1. Grows
    BY TopicSteps, Zenon
  <2>2. CASE i \in Offsets
    <3>1. topic'[i] = topic[i] /\ topic[i] \in Rows /\ outbox[topic[i]] # "none"
      BY <1>0, <2>1, <2>2, ElementOfSeq, Zenon DEF Grows, Offsets, OutboxInv
    <3>2. QED
      BY <1>2, <3>1, Zenon
  <2>3. CASE i \notin Offsets
    <3>1. i \in (Len(topic) + 1)..Len(topic')
      BY <2>1, <2>3 DEF Grows, Offsets
    <3>2. ~UNCHANGED topic
      BY <2>3, Zenon DEF Offsets
    <3>3. PICK p \in Publishers : Adds(batch[p])
      BY <3>2, TopicSteps, Zenon
    <3>4. topic'[i] \in batch[p]
      BY <3>1, <3>3, Zenon DEF Adds
    <3>5. topic'[i] \in Rows /\ outbox[topic'[i]] # "none"
      BY <1>0, <3>4, Zenon DEF Backlog
    <3>6. QED
      BY <1>2, <3>5, Zenon
  <2>4. QED
    BY <2>2, <2>3, Zenon
<1>5. ASSUME NEW r \in Rows, outbox'[r] = "published" PROVE OnTopic(r)'
  <2>1. CASE outbox[r] = "published"
    BY <1>1, <2>1, Zenon DEF OutboxInv, PublishedIsOnTopic, OnTopic, Offsets
  <2>2. CASE outbox[r] # "published"
    <3>1. ~UNCHANGED outbox
      BY <1>5, <2>2, Zenon
    <3>2. \A q \in Rows : ~InsertOutbox(q)
      BY <1>0, <1>5, <2>2, Zenon DEF InsertOutbox
    <3>3. PICK p \in Publishers : PublisherNext(p)
      BY <3>1, <3>2, OutboxSteps, Zenon DEF outboxVars
    <3>4. pub_pc[p] = "sent" /\ r \in batch[p]
      BY <1>5, <2>2, <3>1, <3>3, PublisherEffect
    <3>5. QED
      BY <1>0, <1>1, <3>4, Zenon
  <2>3. QED
    BY <2>1, <2>2, Zenon
<1>6. QED
  BY <1>3, <1>4, <1>5, Zenon DEF PublishedIsOnTopic, OnTopic, Offsets

\* The types and the outbox invariant hold in every reachable state.
LEMMA OutboxInvariant == DeliverySpec => [](DeliveryTypeOK /\ TriesInv /\ OutboxInv)
<1>1. DeliveryInit => DeliveryTypeOK /\ TriesInv /\ OutboxInv
  <2>1. ASSUME DeliveryInit PROVE OutboxInv
    <3>1. Len(topic) = 0
      BY <2>1, Zenon DEF DeliveryInit
    <3>2. /\ \A p \in Publishers : batch[p] = {} /\ pub_pc[p] = "idle"
          /\ \A r \in Rows : outbox[r] = "none"
          /\ Offsets = {}
      BY <2>1, <3>1 DEF DeliveryInit, Offsets
    <3>3. QED
      BY <3>2, Zenon DEF OutboxInv, PublishedIsOnTopic
  <2>2. QED
    BY <2>1, DeliveryTypeInit, Zenon
<1>2. DeliveryTypeOK /\ TriesInv /\ OutboxInv /\ [DeliveryNext]_deliveryVars
        => (DeliveryTypeOK /\ TriesInv /\ OutboxInv)'
  <2>1. ASSUME DeliveryTypeOK, TriesInv, OutboxInv, [DeliveryNext]_deliveryVars
        PROVE  OutboxInv'
    BY <2>1, LocksStep, SentStep, Zenon DEF OutboxInv
  <2>2. QED
    BY <2>1, DeliveryTypeStep, Zenon
<1>3. QED
  BY <1>1, <1>2, PTL DEF DeliverySpec

\* publishBatch loses no event between the table and the topic, whatever its replicas
\* and the brokers do: a row that is marked published is on the topic.
THEOREM PublishedCorrect == DeliverySpec => []PublishedIsOnTopic
<1>1. OutboxInv => PublishedIsOnTopic
  BY Zenon DEF OutboxInv
<1>2. QED
  BY <1>1, OutboxInvariant, PTL
-----------------------------------------------------------------------------
(* The statistics move as SalesTally says.                                 *)

\* A step that writes the outbox table leaves the handlers' tables alone.
LEMMA CountedApart ==
  ASSUME DeliveryTypeOK, [DeliveryNext]_deliveryVars
  PROVE  \/ UNCHANGED <<processed, stats>>
         \/ UNCHANGED outbox /\ \E r \in Rows : OnTopic(r) /\ Apply(r)
<1>1. ASSUME NEW r \in Rows, InsertOutbox(r) PROVE UNCHANGED <<processed, stats>>
  BY <1>1, Zenon DEF InsertOutbox, effects
<1>2. ASSUME NEW p \in Publishers, PublisherNext(p) PROVE UNCHANGED <<processed, stats>>
  BY <1>2, Zenon DEF PublisherNext, SelectRows, WriteMessages, WriteFails, MarkPublished,
     PublisherStops, effects
<1>3. UNCHANGED <<processed, stats>> \/ \E r \in Rows : OnTopic(r) /\ Apply(r)
  BY EffectSteps, Zenon DEF effects
<1>4. QED
  BY <1>1, <1>2, <1>3, OutboxSteps, Zenon DEF outboxVars

\* Every step records one event, counts one recorded event for the first time, or does
\* neither.
LEMMA TallyStep ==
  ASSUME DeliveryTypeOK, OutboxInv, [DeliveryNext]_deliveryVars
  PROVE  [Tally!TallyNext]_<<{m \in Rows : outbox[m] # "none"}, processed, stats>>
<1> DEFINE recorded == {m \in Rows : outbox[m] # "none"}
<1>0. /\ outbox \in [Rows -> {"none", "unpublished", "published"}]
      /\ \A p \in Publishers : batch[p] \subseteq Backlog
  BY Zenon DEF DeliveryTypeOK, OutboxInv
<1>1. ASSUME NEW r \in Rows, OnTopic(r), Apply(r), UNCHANGED outbox
      PROVE  Tally!TallyNext \/ UNCHANGED <<recorded, processed, stats>>
  <2>1. CASE r \in processed
    BY <1>1, <2>1, Zenon DEF Apply
  <2>2. CASE r \notin processed
    <3>1. outbox[r] # "none"
      BY <1>1, Zenon DEF OnTopic, OutboxInv
    <3>2. [m \in Rows |-> Body[m].concert][r] = Body[r].concert
      BY <1>1, Zenon
    <3>3. /\ r \in recorded \ processed /\ processed' = processed \cup {r} /\ recorded' = recorded
          /\ stats' = [stats EXCEPT ![[m \in Rows |-> Body[m].concert][r]] =
                         Tally!Plus(@, Delta(r))]
      BY <1>1, <2>2, <3>1, <3>2, Zenon DEF Apply
    <3>4. Tally!Count(r)
      BY <3>3, Zenon DEF Tally!Count
    <3>5. QED
      BY <3>4, Zenon DEF Tally!TallyNext
  <2>3. QED
    BY <2>1, <2>2, Zenon
<1>2. ASSUME UNCHANGED <<processed, stats>>
      PROVE  Tally!TallyNext \/ UNCHANGED <<recorded, processed, stats>>
  <2>1. ASSUME NEW r \in Rows, InsertOutbox(r) PROVE Tally!TallyNext
    <3>1. recorded' = recorded \cup {r}
      BY <1>0, <2>1, Zenon DEF InsertOutbox
    <3>2. Tally!Record(r)
      BY <1>2, <3>1, Zenon DEF Tally!Record
    <3>3. QED
      BY <3>2, Zenon DEF Tally!TallyNext
  <2>2. ASSUME NEW p \in Publishers, PublisherNext(p) PROVE recorded' = recorded
    <3>1. \/ UNCHANGED outbox
          \/ outbox' = [r \in Rows |-> IF r \in batch[p] THEN "published" ELSE outbox[r]]
      BY <2>2, PublisherEffect, Zenon
    <3>2. batch[p] \subseteq recorded
      BY <1>0, Zenon DEF Backlog
    <3>3. QED
      BY <1>0, <3>1, <3>2, Zenon
  <2>3. CASE UNCHANGED outbox
    BY <1>2, <2>3, Zenon
  <2>4. QED
    BY <1>2, <2>1, <2>2, <2>3, OutboxSteps, Zenon DEF outboxVars
<1>3. QED
  BY <1>1, <1>2, CountedApart, Zenon

\* Projector.Handle counts exactly once: with any number of publishers, consumers,
\* redeliveries and retries the statistics of analytics-svc implement SalesTally.
THEOREM DeliveryRefinesTally == DeliverySpec => RefinesTally
<1>1. DeliveryInit => Tally!TallyInit
  BY DEF DeliveryInit, Tally!TallyInit
<1>2. DeliveryTypeOK /\ OutboxInv /\ [DeliveryNext]_deliveryVars
        => [Tally!TallyNext]_<<{m \in Rows : outbox[m] # "none"}, processed, stats>>
  BY TallyStep, Zenon
<1>3. QED
  BY <1>1, <1>2, OutboxInvariant, PTL DEF DeliverySpec, RefinesTally, Tally!TallySpec
-----------------------------------------------------------------------------
(* No message is skipped.                                                  *)

\* The message at offset i was handled, has nothing to be handled, or is parked.
HandledAt(i) == Handled(topic[i])

\* Consumer c fetches on from where everything was handled or is in its hands, and a
\* goroutine that is done leaves a handled message.
ConsumerInv(c) ==
  /\ con_pc[c] # "working" => DOMAIN task[c] = {}
  /\ con_pc[c] = "down" => owner # c
  /\ con_pc[c] = "working" \/ owner = c =>
       \A i \in 1..(next[c] - 1) : i \in DOMAIN task[c] \/ HandledAt(i)
  /\ \A i \in DOMAIN task[c] :
       /\ i < next[c]
       /\ task[c][i].st = "done" => HandledAt(i)
       /\ task[c][i].st = "mailing" => group = "notification"
       /\ task[c][i].st = "mailed" => group = "notification" /\ mails[topic[i]] > 0

HandlingInv ==
  /\ \A c \in Consumers : ConsumerInv(c)
  /\ \A m \in marked : mails[m] > 0
  /\ CommittedIsHandled

\* A handled message stays handled: effects are not undone and the topic is a log.
LEMMA HandledStable ==
  ASSUME DeliveryTypeOK, [DeliveryNext]_deliveryVars, NEW i \in 1..Len(topic), HandledAt(i)
  PROVE  HandledAt(i)'
<1>1. topic'[i] = topic[i]
  BY TopicSteps, Zenon DEF Grows
<1>2. topic[i] \in Rows
  BY ElementOfSeq, Zenon DEF DeliveryTypeOK
<1>3. mails[topic[i]] > 0 => mails'[topic[i]] > 0
  <2>1. mails[topic[i]] \in Nat /\ mails'[topic[i]] \in Nat /\ mails[topic[i]] <= mails'[topic[i]]
    BY <1>2, EffectsKept, Zenon
  <2>2. QED
    BY <2>1
<1>4. UNCHANGED group /\ dlq \subseteq dlq' /\ processed \subseteq processed'
  BY EffectsKept, Zenon
<1>5. QED
  BY <1>1, <1>3, <1>4, Zenon DEF HandledAt, Handled

\* What has been mailed stays mailed.
LEMMA MailedStable ==
  ASSUME DeliveryTypeOK, [DeliveryNext]_deliveryVars, NEW m \in Rows, mails[m] > 0
  PROVE  mails'[m] > 0
<1>1. mails[m] \in Nat /\ mails'[m] \in Nat /\ mails[m] <= mails'[m]
  BY EffectsKept, Zenon
<1>2. QED
  BY <1>1

\* Where a goroutine's step leads, and what it has done to the mails by then.
LEMMA TaskOutcome ==
  ASSUME DeliveryTypeOK, HandlingInv, NEW c \in Consumers, NEW i \in DOMAIN task[c],
         TaskNext(c, i), NEW t, SetsTask(c, i, t)
  PROVE  /\ t.st \notin {"new"}
         /\ t.st = "done" => Handled(topic[i])'
         /\ t.st = "mailing" => group = "notification" /\ task[c][i].st \in {"new", "retry"}
         /\ t.st = "retry" => Fault
         /\ \/ UNCHANGED mails /\ t.st # "mailed"
            \/ /\ mails' = [mails EXCEPT ![topic[i]] = @ + 1] /\ group = "notification"
               /\ task[c][i].st = "mailing" /\ t.st = "mailed"
<1> DEFINE m == topic[i]
           Goal == /\ t.st \notin {"new"}
                   /\ t.st = "done" => Handled(topic[i])'
                   /\ t.st = "mailing" =>
                        group = "notification" /\ task[c][i].st \in {"new", "retry"}
                   /\ t.st = "retry" => Fault
                   /\ \/ UNCHANGED mails /\ t.st # "mailed"
                      \/ /\ mails' = [mails EXCEPT ![topic[i]] = @ + 1] /\ group = "notification"
                         /\ task[c][i].st = "mailing" /\ t.st = "mailed"
<1>0. m \in Rows /\ Body[m].type \in Types /\ ConsumerInv(c)
  <2>1. i \in 1..Len(topic) /\ topic \in Seq(Rows)
    BY Zenon DEF DeliveryTypeOK
  <2>2. m \in Rows
    BY <2>1, ElementOfSeq, Zenon
  <2>3. QED
    BY <2>2, DeliveryConstantsOK, Zenon DEF HandlingInv
<1>1. ASSUME NEW st \in {"new", "retry", "mailing", "mailed", "parking", "done"}, MoveTask(c, i, st)
      PROVE  t.st = st
  <2>1. SetsTask(c, i, [st |-> st, tries |-> task[c][i].tries])
    BY <1>1, MoveTaskEffect, Zenon
  <2>2. task'[c][i] = t /\ task'[c][i] = [st |-> st, tries |-> task[c][i].tries]
    BY <2>1, Zenon DEF SetsTask
  <2>3. QED
    BY <2>2
<1>2. CASE HandleOther(c, i)
  <2>1. \/ t.st = "parking"
        \/ t.st = "done" /\ Body[m].type = "CREATED"
    BY <1>0, <1>1, <1>2, Zenon DEF HandleOther, IsVerdict, IsPermanent, Types
  <2>2. UNCHANGED <<topic, mails>>
    BY <1>2, Zenon DEF HandleOther, unseenByTasks, effects
  <2>3. QED
    BY <2>1, <2>2, Zenon DEF Handled
<1>3. CASE Project(c, i)
  <2>1. t.st = "done"
    BY <1>1, <1>3, Zenon DEF Project
  <2>2. UNCHANGED <<topic, mails, group>> /\ group = "analytics" /\ m \in processed'
    BY <1>3, Zenon DEF Project, Apply, unseenByTasks, groupVars
  <2>3. QED
    BY <2>1, <2>2, Zenon DEF Handled
<1>4. CASE CheckSeen(c, i)
  <2>1. UNCHANGED <<topic, mails, group>> /\ group = "notification"
    BY <1>4, Zenon DEF CheckSeen, unseenByTasks, groupVars, effects
  <2>2. \/ t.st = "mailing" /\ task[c][i].st \in {"new", "retry"}
        \/ t.st = "done" /\ m \in marked
    BY <1>1, <1>4, Zenon DEF CheckSeen, MayRun
  <2>3. m \in marked => mails[m] > 0
    BY Zenon DEF HandlingInv
  <2>4. QED
    BY <2>1, <2>2, <2>3, Zenon DEF Handled
<1>5. CASE SendMail(c, i)
  <2>1. t.st = "mailed"
    BY <1>1, <1>5, Zenon DEF SendMail
  <2>2. mails' = [mails EXCEPT ![m] = @ + 1] /\ task[c][i].st = "mailing"
    BY <1>5, Zenon DEF SendMail
  <2>3. group = "notification"
    BY <1>0, <2>2, Zenon DEF ConsumerInv
  <2>4. QED
    BY <2>1, <2>2, <2>3, Zenon
<1>6. CASE MarkSent(c, i)
  <2>1. t.st = "done"
    BY <1>1, <1>6, Zenon DEF MarkSent
  <2>2. UNCHANGED <<topic, mails, group>> /\ task[c][i].st = "mailed"
    BY <1>6, Zenon DEF MarkSent, unseenByTasks, groupVars
  <2>3. group = "notification" /\ mails[m] > 0
    BY <1>0, <2>2, Zenon DEF ConsumerInv
  <2>4. QED
    BY <2>1, <2>2, <2>3, Zenon DEF Handled
<1>7. CASE HandlerFails(c, i)
  <2> DEFINE n == task[c][i].tries + 1
             u == [st |-> IF n < MaxAttempts THEN "retry" ELSE "parking", tries |-> n]
  <2>1. task' = [task EXCEPT ![c][i] = u] /\ Fault /\ UNCHANGED mails
    BY <1>7, Zenon DEF HandlerFails, effects, Apply
  <2>2. u.st \in {"retry", "parking"}
    OBVIOUS
  <2> HIDE DEF u
  <2>3. task'[c][i] = u /\ task'[c][i] = t
    BY <2>1, Zenon DEF SetsTask, DeliveryTypeOK
  <2>4. QED
    BY <2>1, <2>2, <2>3, Zenon
<1>8. CASE DeadLetter(c, i)
  <2>1. t.st = "done"
    BY <1>1, <1>8, Zenon DEF DeadLetter
  <2>2. UNCHANGED <<topic, mails>> /\ m \in dlq'
    BY <1>8, Zenon DEF DeadLetter, unseenByTasks, effects
  <2>3. QED
    BY <2>1, <2>2, Zenon DEF Handled
<1>9. ~DeadLetterFails(c, i)
  <2>1. ASSUME DeadLetterFails(c, i) PROVE FALSE
    <3>1. task'[c] = NoTasks
      BY <2>1, LeaveEffect, Zenon DEF DeadLetterFails
    <3>2. DOMAIN task'[c] = {}
      BY <3>1 DEF NoTasks
    <3>3. QED
      BY <3>2, Zenon DEF SetsTask
  <2>2. QED
    BY <2>1, Zenon
<1>10. QED
  BY <1>2, <1>3, <1>4, <1>5, <1>6, <1>7, <1>8, <1>9, Zenon DEF TaskNext

\* What a consumer does not touch of another leaves the other's invariant true.
LEMMA BystanderStep ==
  ASSUME DeliveryTypeOK, [DeliveryNext]_deliveryVars, NEW d \in Consumers, ConsumerInv(d),
         task'[d] = task[d], next'[d] = next[d], con_pc'[d] = con_pc[d], owner' = d => owner = d
  PROVE  ConsumerInv(d)'
<1>0. /\ next[d] \in 1..(Len(topic) + 1) /\ DOMAIN task[d] \subseteq 1..Len(topic)
      /\ Len(topic) \in Nat
  BY LenProperties, Zenon DEF DeliveryTypeOK
<1>1. \A i \in 1..(next[d] - 1) : i \in 1..Len(topic)
  BY <1>0
<1>2. \A i \in 1..Len(topic) : HandledAt(i) => HandledAt(i)'
  BY HandledStable, Zenon
<1>3. ASSUME NEW i \in 1..Len(topic), mails[topic[i]] > 0 PROVE mails'[topic'[i]] > 0
  <2>1. topic'[i] = topic[i] /\ topic[i] \in Rows
    BY TopicSteps, ElementOfSeq, Zenon DEF Grows, DeliveryTypeOK
  <2>2. QED
    BY <1>3, <2>1, MailedStable, Zenon
<1>4. UNCHANGED group
  BY EffectsKept, Zenon
<1>5. con_pc'[d] = "working" \/ owner' = d =>
        \A i \in 1..(next'[d] - 1) : i \in DOMAIN task'[d] \/ HandledAt(i)'
  BY <1>1, <1>2, Zenon DEF ConsumerInv
<1>6. ASSUME NEW i \in DOMAIN task'[d]
      PROVE  /\ i < next'[d]
             /\ task'[d][i].st = "done" => HandledAt(i)'
             /\ task'[d][i].st = "mailing" => group' = "notification"
             /\ task'[d][i].st = "mailed" => group' = "notification" /\ mails'[topic'[i]] > 0
  BY <1>0, <1>2, <1>3, <1>4, <1>6, Zenon DEF ConsumerInv
<1>7. QED
  BY <1>5, <1>6, Zenon DEF ConsumerInv

\* A goroutine's step keeps the invariant of its own consumer.
LEMMA WorkerStep ==
  ASSUME DeliveryTypeOK, HandlingInv, [DeliveryNext]_deliveryVars, NEW c \in Consumers,
         NEW i \in DOMAIN task[c], TaskNext(c, i), UNCHANGED unseenByTasks, NEW t, SetsTask(c, i, t)
  PROVE  ConsumerInv(c)'
<1>0. /\ next[c] \in 1..(Len(topic) + 1) /\ DOMAIN task[c] \subseteq 1..Len(topic)
      /\ Len(topic) \in Nat /\ ConsumerInv(c)
  BY LenProperties, Zenon DEF DeliveryTypeOK, HandlingInv
<1>1. UNCHANGED <<topic, committed, owner, group, con_pc, next>>
  BY Zenon DEF unseenByTasks, groupVars
<1>2. \A j \in 1..Len(topic) : HandledAt(j) => HandledAt(j)'
  BY HandledStable, Zenon
<1>3. ASSUME NEW j \in 1..Len(topic), mails[topic[j]] > 0 PROVE mails'[topic'[j]] > 0
  <2>1. topic'[j] = topic[j] /\ topic[j] \in Rows
    BY <1>1, ElementOfSeq, Zenon DEF DeliveryTypeOK
  <2>2. QED
    BY <1>3, <2>1, MailedStable, Zenon
<1>4. /\ DOMAIN task'[c] = DOMAIN task[c] /\ task'[c][i] = t
      /\ \A j \in DOMAIN task[c] : j # i => task'[c][j] = task[c][j]
  BY Zenon DEF SetsTask
<1>5. \A j \in 1..(next[c] - 1) : j \in 1..Len(topic)
  BY <1>0
<1>6. con_pc'[c] = "working" \/ owner' = c =>
        \A j \in 1..(next'[c] - 1) : j \in DOMAIN task'[c] \/ HandledAt(j)'
  BY <1>0, <1>1, <1>2, <1>4, <1>5, Zenon DEF ConsumerInv
<1> DEFINE Right(j) ==
      /\ j < next'[c]
      /\ task'[c][j].st = "done" => HandledAt(j)'
      /\ task'[c][j].st = "mailing" => group' = "notification"
      /\ task'[c][j].st = "mailed" => group' = "notification" /\ mails'[topic'[j]] > 0
<1>7. ASSUME NEW j \in DOMAIN task[c], j # i PROVE Right(j)
  BY <1>0, <1>1, <1>2, <1>3, <1>4, <1>7, Zenon DEF ConsumerInv
<1>8. Right(i)
  <2>1. i < next'[c]
    BY <1>0, <1>1, Zenon DEF ConsumerInv
  <2>2. t.st = "done" => HandledAt(i)'
    BY <1>1, TaskOutcome, Zenon DEF HandledAt
  <2>3. t.st = "mailing" => group' = "notification"
    BY <1>1, TaskOutcome, Zenon
  <2>4. ASSUME t.st = "mailed" PROVE group' = "notification" /\ mails'[topic'[i]] > 0
    <3>1. mails' = [mails EXCEPT ![topic[i]] = @ + 1] /\ group = "notification"
      BY <2>4, TaskOutcome, Zenon
    <3>2. topic[i] \in Rows /\ mails \in [Rows -> Nat]
      BY <1>0, ElementOfSeq, Zenon DEF DeliveryTypeOK
    <3>3. mails'[topic[i]] = mails[topic[i]] + 1 /\ mails[topic[i]] \in Nat
      BY <3>1, <3>2, Zenon
    <3>4. mails'[topic[i]] > 0
      BY <3>3
    <3>5. QED
      BY <1>1, <3>1, <3>4, Zenon
  <2>5. QED
    BY <1>4, <2>1, <2>2, <2>3, <2>4, Zenon
<1> HIDE DEF Right
<1>9. \A j \in DOMAIN task'[c] : Right(j)
  BY <1>4, <1>7, <1>8, Zenon
<1>10. con_pc'[c] # "working" => DOMAIN task'[c] = {}
  BY <1>0, <1>1, <1>4, Zenon DEF ConsumerInv
<1>11. con_pc'[c] = "down" => owner' # c
  BY <1>0, <1>1, Zenon DEF ConsumerInv
<1>12. QED
  BY <1>6, <1>9, <1>10, <1>11, Zenon DEF ConsumerInv, Right

\* A marker is set only for a mail that went out.
LEMMA MarkedStep ==
  ASSUME DeliveryTypeOK, HandlingInv, [DeliveryNext]_deliveryVars, NEW m \in marked'
  PROVE  mails'[m] > 0
<1>0. marked \subseteq Rows /\ marked' \subseteq Rows
  BY EffectsKept, Zenon DEF DeliveryTypeOK
<1>1. CASE m \in marked
  BY <1>0, <1>1, MailedStable, Zenon DEF HandlingInv
<1>2. CASE m \notin marked
  <2>1. ASSUME NEW c, NEW i, TaskNext(c, i), ~MarkSent(c, i) PROVE marked' = marked
    BY <2>1, Zenon DEF TaskNext, HandleOther, Project, CheckSeen, SendMail, HandlerFails,
       DeadLetter, DeadLetterFails, effects, Apply
  <2>2. ASSUME NEW c \in Consumers, ConsumerNext(c)
        PROVE  marked' = marked \/ \E i \in DOMAIN task[c] : MarkSent(c, i)
    BY <2>1, <2>2, Zenon DEF ConsumerNext, StartConsumer, Assign, FetchBatch, ConsumerStops,
       CommitBatch, CommitFails, effects
  <2>3. ASSUME NEW p \in Publishers, PublisherNext(p) PROVE marked' = marked
    BY <2>3, Zenon DEF PublisherNext, SelectRows, WriteMessages, WriteFails, MarkPublished,
       PublisherStops, effects
  <2>4. ASSUME NEW r \in Rows, InsertOutbox(r) \/ MarkerExpires(r) PROVE m \notin marked'
    BY <1>2, <2>4, Zenon DEF InsertOutbox, MarkerExpires, effects
  <2>5. PICK c \in Consumers : \E i \in DOMAIN task[c] : MarkSent(c, i)
    <3>1. ~UNCHANGED deliveryVars
      BY <1>2, Zenon DEF deliveryVars, effects
    <3>2. QED
      BY <1>2, <2>2, <2>3, <2>4, <3>1, Zenon DEF DeliveryNext
  <2>6. PICK i \in DOMAIN task[c] : MarkSent(c, i)
    BY <2>5, Zenon
  <2>7. task[c][i].st = "mailed" /\ m = topic[i]
    BY <1>2, <2>6, Zenon DEF MarkSent
  <2>8. mails[m] > 0
    BY <2>7, Zenon DEF HandlingInv, ConsumerInv
  <2>9. QED
    BY <1>0, <2>8, MailedStable, Zenon
<1>3. QED
  BY <1>1, <1>2, Zenon

\* A finished batch leaves everything below the next offset handled.
LEMMA BatchHandled ==
  ASSUME DeliveryTypeOK, HandlingInv, [DeliveryNext]_deliveryVars, NEW c \in Consumers, BatchDone(c)
  PROVE  \A i \in 1..(next[c] - 1) : HandledAt(i) /\ HandledAt(i)'
<1>0. /\ next[c] \in 1..(Len(topic) + 1) /\ Len(topic) \in Nat /\ ConsumerInv(c)
      /\ con_pc[c] = "working"
  BY LenProperties, Zenon DEF DeliveryTypeOK, HandlingInv, BatchDone
<1>1. \A i \in 1..(next[c] - 1) : i \in 1..Len(topic)
  BY <1>0
<1>2. \A i \in 1..(next[c] - 1) : HandledAt(i)
  BY <1>0, Zenon DEF ConsumerInv, BatchDone
<1>3. QED
  BY <1>1, <1>2, HandledStable, Zenon

\* The consumer that starts, takes over, fetches or commits keeps its invariant.
LEMMA OwnStep ==
  ASSUME DeliveryTypeOK, HandlingInv, [DeliveryNext]_deliveryVars, NEW c \in Consumers,
         StartConsumer(c) \/ Assign(c) \/ FetchBatch(c) \/ CommitBatch(c)
  PROVE  ConsumerInv(c)'
<1>0. /\ con_pc \in [Consumers -> {"down", "fetching", "working"}] /\ DOMAIN task = Consumers
      /\ next \in [Consumers -> 1..(Len(topic) + 1)] /\ committed \in 0..Len(topic)
      /\ Len(topic) \in Nat /\ next[c] \in 1..(Len(topic) + 1)
  BY LenProperties, Zenon DEF DeliveryTypeOK
<1>1. ConsumerInv(c) /\ CommittedIsHandled
  BY Zenon DEF HandlingInv
<1>2. \A i \in 1..Len(topic) : HandledAt(i) => HandledAt(i)'
  BY HandledStable, Zenon
<1>3. CASE StartConsumer(c)
  <2>1. /\ con_pc'[c] = "fetching" /\ task'[c] = task[c] /\ owner' = owner
        /\ con_pc[c] = "down"
    BY <1>0, <1>3, Zenon DEF StartConsumer, groupVars
  <2>2. owner' # c /\ DOMAIN task'[c] = {}
    BY <1>1, <2>1, Zenon DEF ConsumerInv
  <2>3. QED
    BY <2>1, <2>2, Zenon DEF ConsumerInv
<1>4. CASE Assign(c)
  <2>1. /\ con_pc[c] = "fetching" /\ con_pc'[c] = "fetching" /\ task'[c] = task[c]
        /\ next'[c] = committed + 1
    BY <1>0, <1>4, Zenon DEF Assign
  <2>2. DOMAIN task'[c] = {}
    BY <1>1, <2>1, Zenon DEF ConsumerInv
  <2>3. \A i \in 1..(next'[c] - 1) : i \in 1..committed /\ i \in 1..Len(topic)
    BY <1>0, <2>1
  <2>4. \A i \in 1..(next'[c] - 1) : HandledAt(i)'
    BY <1>1, <1>2, <2>3, Zenon DEF CommittedIsHandled, HandledAt
  <2>5. QED
    BY <2>1, <2>2, <2>4, Zenon DEF ConsumerInv
<1>5. CASE FetchBatch(c)
  <2>1. con_pc[c] = "fetching" /\ owner = c /\ con_pc'[c] = "working"
    BY <1>0, <1>5, Zenon DEF FetchBatch
  <2>2. PICK last \in Available(c) :
          /\ task' = [task EXCEPT ![c] = [i \in next[c]..last |-> [st |-> "new", tries |-> 0]]]
          /\ next' = [next EXCEPT ![c] = last + 1]
    BY <1>5, Zenon DEF FetchBatch
  <2>3. task'[c] = [i \in next[c]..last |-> [st |-> "new", tries |-> 0]] /\ next'[c] = last + 1
    BY <1>0, <2>2, Zenon
  <2>4. \A i \in 1..(next[c] - 1) : i \in 1..Len(topic) /\ HandledAt(i)
    BY <1>0, <1>1, <2>1 DEF ConsumerInv
  <2>5. DOMAIN task'[c] = next[c]..last /\ \A i \in DOMAIN task'[c] : task'[c][i].st = "new"
    BY <2>3
  <2>6. last \in Int /\ \A i \in next[c]..last : i < next'[c]
    BY <1>0, <2>3 DEF Available
  <2>7. \A i \in 1..(next'[c] - 1) : i \in 1..(next[c] - 1) \/ i \in next[c]..last
    BY <1>0, <2>3, <2>6
  <2>8. \A i \in 1..(next'[c] - 1) : i \in DOMAIN task'[c] \/ HandledAt(i)'
    BY <1>2, <2>4, <2>5, <2>7, Zenon
  <2>9. QED
    BY <2>1, <2>5, <2>6, <2>8, Zenon DEF ConsumerInv
<1>6. CASE CommitBatch(c)
  <2>1. con_pc'[c] = "fetching" /\ task'[c] = NoTasks /\ next'[c] = next[c] /\ BatchDone(c)
    BY <1>0, <1>6, Zenon DEF CommitBatch
  <2>2. DOMAIN task'[c] = {}
    BY <2>1 DEF NoTasks
  <2>3. \A i \in 1..(next'[c] - 1) : HandledAt(i)'
    BY <2>1, BatchHandled, Zenon
  <2>4. QED
    BY <2>1, <2>2, <2>3, Zenon DEF ConsumerInv
<1>7. QED
  BY <1>3, <1>4, <1>5, <1>6, Zenon

\* Every step keeps what is handled, in hand and committed in agreement.
LEMMA HandlingStep ==
  ASSUME DeliveryTypeOK, TriesInv, HandlingInv, [DeliveryNext]_deliveryVars
  PROVE  HandlingInv'
<1>0. /\ con_pc \in [Consumers -> {"down", "fetching", "working"}] /\ DOMAIN task = Consumers
      /\ next \in [Consumers -> 1..(Len(topic) + 1)] /\ committed \in 0..Len(topic)
      /\ Len(topic) \in Nat /\ NoConsumer \notin Consumers
  BY LenProperties, DeliveryConstantsOK, Zenon DEF DeliveryTypeOK
<1>1. \A c \in Consumers : ConsumerInv(c)
  BY Zenon DEF HandlingInv
<1> DEFINE All == \A d \in Consumers : ConsumerInv(d)'
<1>2. ASSUME UNCHANGED <<committed, owner, conVars>> PROVE All
  BY <1>1, <1>2, BystanderStep, Zenon DEF conVars
<1>3. ASSUME NEW c \in Consumers,
             StartConsumer(c) \/ Assign(c) \/ FetchBatch(c) \/ CommitBatch(c)
      PROVE  All
  <2>1. \A d \in Consumers : d # c => task'[d] = task[d]
    BY <1>0, <1>3, Zenon DEF StartConsumer, Assign, FetchBatch, CommitBatch
  <2>2. \A d \in Consumers : d # c => next'[d] = next[d]
    BY <1>0, <1>3, Zenon DEF StartConsumer, Assign, FetchBatch, CommitBatch
  <2>3. \A d \in Consumers : d # c => con_pc'[d] = con_pc[d]
    BY <1>0, <1>3, Zenon DEF StartConsumer, Assign, FetchBatch, CommitBatch
  <2>4. owner' \in {owner, c}
    BY <1>3, Zenon DEF StartConsumer, Assign, FetchBatch, CommitBatch, groupVars
  <2>5. QED
    BY <1>1, <1>3, <2>1, <2>2, <2>3, <2>4, BystanderStep, OwnStep, Zenon
<1>4. ASSUME NEW c \in Consumers, Leave(c), UNCHANGED next PROVE All
  <2>1. \A d \in Consumers : d # c => ConsumerInv(d)'
    BY <1>0, <1>1, <1>4, LeaveEffect, BystanderStep
  <2>2. task'[c] = NoTasks /\ con_pc'[c] = "down" /\ owner' # c
    BY <1>4, LeaveEffect, Zenon
  <2>3. DOMAIN task'[c] = {}
    BY <2>2 DEF NoTasks
  <2>4. ConsumerInv(c)'
    BY <2>2, <2>3, Zenon DEF ConsumerInv
  <2>5. QED
    BY <2>1, <2>4, Zenon
<1>5. ASSUME NEW c \in Consumers, NEW i \in DOMAIN task[c], TaskNext(c, i), UNCHANGED unseenByTasks,
             NEW t, SetsTask(c, i, t)
      PROVE  All
  <2>1. UNCHANGED <<owner, con_pc, next>>
    BY <1>5, Zenon DEF unseenByTasks, groupVars
  <2>2. \A d \in Consumers : d # c => ConsumerInv(d)'
    BY <1>1, <1>5, <2>1, BystanderStep, Zenon DEF SetsTask
  <2>3. ConsumerInv(c)'
    BY <1>5, WorkerStep, Zenon
  <2>4. QED
    BY <2>2, <2>3, Zenon
<1> HIDE DEF All
<1>6. All
  BY <1>2, <1>3, <1>4, <1>5, ConsumerSteps, Zenon
<1>7. \A i \in 1..committed' : HandledAt(i)'
  <2>1. CASE UNCHANGED committed
    <3>1. \A i \in 1..committed : i \in 1..Len(topic) /\ HandledAt(i)
      BY <1>0 DEF HandlingInv, CommittedIsHandled, HandledAt
    <3>2. QED
      BY <2>1, <3>1, HandledStable, Zenon
  <2>2. ASSUME NEW c \in Consumers, BatchDone(c), committed' = next[c] - 1
        PROVE  \A i \in 1..committed' : HandledAt(i)'
    BY <2>2, BatchHandled, Zenon
  <2>3. \/ UNCHANGED committed
        \/ \E c \in Consumers : BatchDone(c) /\ committed' = next[c] - 1
    BY ConsumerSteps, Zenon DEF StartConsumer, Assign, FetchBatch, CommitBatch, unseenByTasks,
       groupVars
  <2>4. QED
    BY <2>1, <2>2, <2>3, Zenon
<1>8. QED
  BY <1>6, <1>7, MarkedStep, Zenon DEF All, HandlingInv, CommittedIsHandled, HandledAt

\* The handling invariant holds in every reachable state.
LEMMA HandlingInvariant == DeliverySpec => [](DeliveryTypeOK /\ TriesInv /\ HandlingInv)
<1>1. DeliveryInit => HandlingInv
  <2> SUFFICES ASSUME DeliveryInit PROVE HandlingInv
    OBVIOUS
  <2>1. \A c \in Consumers : /\ con_pc[c] = "down" /\ task[c] = NoTasks
                             /\ owner # c
    BY DeliveryConstantsOK, Zenon DEF DeliveryInit
  <2>2. DOMAIN NoTasks = {}
    BY DEF NoTasks
  <2>3. \A c \in Consumers : ConsumerInv(c)
    BY <2>1, <2>2, Zenon DEF ConsumerInv
  <2>4. 1..committed = {} /\ marked = {}
    BY DEF DeliveryInit
  <2>5. QED
    BY <2>3, <2>4, Zenon DEF HandlingInv, CommittedIsHandled
<1>2. DeliveryTypeOK /\ TriesInv /\ HandlingInv /\ [DeliveryNext]_deliveryVars
        => (DeliveryTypeOK /\ TriesInv /\ HandlingInv)'
  BY DeliveryTypeStep, HandlingStep, Zenon
<1>3. QED
  BY <1>1, <1>2, DeliveryTypeInit, PTL DEF DeliverySpec

\* The consumer never skips a message: with any number of consumers, crashes, rebalances
\* and late commits, a message below the committed offset was handled or is parked.
THEOREM CommittedCorrect == DeliverySpec => []CommittedIsHandled
<1>1. HandlingInv => CommittedIsHandled
  BY Zenon DEF HandlingInv
<1>2. QED
  BY <1>1, HandlingInvariant, PTL
-----------------------------------------------------------------------------
(* Without faults, everything happens once.                                *)

\* Every row is on the topic once, and marked published by the one who put it there.
TopicOnce ==
  /\ \A i, j \in Offsets : topic[i] = topic[j] => i = j
  /\ \A r \in Rows : OnTopic(r) =>
       \/ outbox[r] = "published"
       \/ \E p \in Publishers : pub_pc[p] = "sent" /\ r \in batch[p]

\* Only the owner of the partition works, no message it has still to fetch or to start
\* has been mailed, and no message twice.
MailsOnce ==
  /\ \A c \in Consumers : con_pc[c] = "working" => owner = c
  /\ \A m \in Rows : mails[m] <= 1 /\ (mails[m] > 0 => OnTopic(m) /\ owner # NoConsumer)
  /\ \A c \in Consumers : owner = c =>
       \A i \in Offsets : i >= next[c] => mails[topic[i]] = 0
  /\ \A c \in Consumers : \A i \in DOMAIN task[c] :
       /\ task[c][i].st # "retry"
       /\ task[c][i].st \in {"new", "mailing"} => mails[topic[i]] = 0

QuietInv == faults = 0 => TopicOnce /\ MailsOnce

\* The only step without a fault that writes to the topic is WriteMessages.
LEMMA QuietTopicSteps ==
  ASSUME DeliveryTypeOK, [DeliveryNext]_deliveryVars, faults' = 0
  PROVE  /\ faults = 0 /\ ~Fault
         /\ UNCHANGED topic \/ \E p \in Publishers : WriteMessages(p)
<1>1. faults = 0 /\ ~Fault
  BY FaultSteps DEF Fault, DeliveryTypeOK
<1>2. ASSUME NEW p \in Publishers, PublisherNext(p)
      PROVE  UNCHANGED topic \/ WriteMessages(p)
  BY <1>1, <1>2, Zenon DEF PublisherNext, SelectRows, WriteFails, MarkPublished, PublisherStops
<1>3. ASSUME NEW r \in Rows, InsertOutbox(r) \/ MarkerExpires(r) PROVE UNCHANGED topic
  BY <1>3, Zenon DEF InsertOutbox, MarkerExpires, unseenByTasks
<1>4. ASSUME NEW c \in Consumers, NEW i, TaskNext(c, i) PROVE UNCHANGED topic
  BY <1>4, Zenon DEF TaskNext, HandleOther, Project, CheckSeen, SendMail, MarkSent, HandlerFails,
     DeadLetter, DeadLetterFails, unseenByTasks
<1>5. ASSUME NEW c \in Consumers, ConsumerNext(c) PROVE UNCHANGED topic
  BY <1>4, <1>5, Zenon DEF ConsumerNext, StartConsumer, Assign, FetchBatch, ConsumerStops,
     CommitBatch, CommitFails
<1>6. QED
  BY <1>1, <1>2, <1>3, <1>5, Zenon DEF DeliveryNext, deliveryVars

\* A batch that is selected has no row that is on the topic already.
LEMMA FreshRows ==
  ASSUME DeliveryTypeOK, OutboxInv, TopicOnce, NEW p \in Publishers, pub_pc[p] = "selected",
         NEW r \in batch[p]
  PROVE  r \in Rows /\ ~OnTopic(r)
<1>1. r \in Rows /\ outbox[r] = "unpublished"
  BY Zenon DEF OutboxInv, Backlog
<1>2. ASSUME OnTopic(r) PROVE FALSE
  <2>1. PICK q \in Publishers : pub_pc[q] = "sent" /\ r \in batch[q]
    BY <1>1, <1>2, Zenon DEF TopicOnce
  <2>2. q # p
    BY <2>1, Zenon
  <2>3. QED
    BY <2>1, <2>2, Zenon DEF OutboxInv
<1>3. QED
  BY <1>1, <1>2, Zenon

\* What a faultless step adds to the topic was not there before.
LEMMA AddsFresh ==
  ASSUME DeliveryTypeOK, OutboxInv, TopicOnce, [DeliveryNext]_deliveryVars, faults' = 0
  PROVE  /\ \A i \in Offsets' : i \notin Offsets => topic'[i] \in Rows /\ ~OnTopic(topic'[i])
         /\ \A i, j \in Offsets' : topic'[i] = topic'[j] => i = j
<1>0. Grows
  BY TopicSteps, Zenon
<1>1. CASE UNCHANGED topic
  BY <1>1, Zenon DEF Offsets, TopicOnce
<1>2. ASSUME NEW p \in Publishers, WriteMessages(p)
      PROVE  /\ \A i \in Offsets' : i \notin Offsets => topic'[i] \in Rows /\ ~OnTopic(topic'[i])
             /\ \A i, j \in Offsets' : topic'[i] = topic'[j] => i = j
  <2>1. Adds(batch[p]) /\ pub_pc[p] = "selected"
    BY <1>2, AppendEffect, Zenon DEF WriteMessages, AppendBatch, DeliveryTypeOK
  <2>2. \A i \in Offsets' : i \in Offsets \/ i \in (Len(topic) + 1)..Len(topic')
    BY <1>0 DEF Grows, Offsets
  <2>3. \A i \in Offsets' : i \notin Offsets => topic'[i] \in Rows /\ ~OnTopic(topic'[i])
    BY <2>1, <2>2, FreshRows, Zenon DEF Adds
  <2>4. \A i \in Offsets : topic'[i] = topic[i]
    BY <1>0, Zenon DEF Grows, Offsets
  <2>5. ASSUME NEW i \in Offsets', NEW j \in Offsets', topic'[i] = topic'[j] PROVE i = j
    <3>1. CASE i \in Offsets /\ j \in Offsets
      BY <2>4, <2>5, <3>1, Zenon DEF TopicOnce
    <3>2. CASE i \notin Offsets /\ j \notin Offsets
      BY <2>1, <2>2, <2>5, <3>2, Zenon DEF Adds
    <3>3. CASE i \in Offsets /\ j \notin Offsets
      BY <2>3, <2>4, <2>5, <3>3, Zenon DEF OnTopic
    <3>4. CASE i \notin Offsets /\ j \in Offsets
      BY <2>3, <2>4, <2>5, <3>4, Zenon DEF OnTopic
    <3>5. QED
      BY <3>1, <3>2, <3>3, <3>4, Zenon
  <2>6. QED
    BY <2>3, <2>5, Zenon
<1>3. QED
  BY <1>1, <1>2, QuietTopicSteps, Zenon

\* Without faults two replicas never put the same row on the topic.
LEMMA TopicOnceStep ==
  ASSUME DeliveryTypeOK, OutboxInv, TopicOnce, [DeliveryNext]_deliveryVars, faults' = 0
  PROVE  TopicOnce'
<1>0. /\ outbox \in [Rows -> {"none", "unpublished", "published"}]
      /\ pub_pc \in [Publishers -> {"idle", "selected", "sent"}]
      /\ batch \in [Publishers -> SUBSET Rows] /\ ~Fault
  BY QuietTopicSteps, Zenon DEF DeliveryTypeOK
<1> DEFINE Marked(r) == \/ outbox'[r] = "published"
                        \/ \E p \in Publishers : pub_pc'[p] = "sent" /\ r \in batch'[p]
<1>1. ASSUME NEW r \in Rows, OnTopic(r) PROVE Marked(r)
  <2>0. \/ outbox[r] = "published"
        \/ \E p \in Publishers : pub_pc[p] = "sent" /\ r \in batch[p]
    BY <1>1, Zenon DEF TopicOnce
  <2>1. CASE UNCHANGED outboxVars
    BY <2>0, <2>1, Zenon DEF outboxVars
  <2>2. ASSUME NEW q \in Rows, InsertOutbox(q) PROVE Marked(r)
    BY <1>0, <2>0, <2>2, Zenon DEF InsertOutbox
  <2>3. ASSUME NEW o \in Publishers, PublisherNext(o) PROVE Marked(r)
    <3>1. CASE SelectRows(o)
      BY <1>0, <2>0, <3>1, Zenon DEF SelectRows
    <3>2. CASE WriteMessages(o)
      BY <1>0, <2>0, <3>2, Zenon DEF WriteMessages
    <3>3. CASE MarkPublished(o)
      BY <1>0, <2>0, <3>3, Zenon DEF MarkPublished, Release
    <3>4. QED
      BY <1>0, <2>3, <3>1, <3>2, <3>3 DEF PublisherNext, WriteFails, PublisherStops
  <2>4. QED
    BY <2>1, <2>2, <2>3, OutboxSteps, Zenon
<1>2. ASSUME NEW r \in Rows, OnTopic(r)', ~OnTopic(r) PROVE Marked(r)
  <2>1. ~UNCHANGED topic
    BY <1>2, Zenon DEF OnTopic, Offsets
  <2>2. PICK p \in Publishers : WriteMessages(p)
    BY <2>1, QuietTopicSteps, Zenon
  <2>3. Adds(batch[p]) /\ pub_pc'[p] = "sent" /\ batch' = batch
    BY <1>0, <2>2, AppendEffect DEF WriteMessages, AppendBatch, DeliveryTypeOK
  <2>4. PICK i \in Offsets' : topic'[i] = r
    BY <1>2, Zenon DEF OnTopic
  <2>5. Grows
    BY TopicSteps, Zenon
  <2>6. i \notin Offsets
    BY <1>2, <2>4, <2>5, Zenon DEF OnTopic, Grows, Offsets
  <2>7. i \in (Len(topic) + 1)..Len(topic')
    BY <2>4, <2>5, <2>6 DEF Grows, Offsets
  <2>8. QED
    BY <2>3, <2>4, <2>7, Zenon DEF Adds
<1> HIDE DEF Marked
<1>3. \A r \in Rows : OnTopic(r)' => Marked(r)
  BY <1>1, <1>2, Zenon
<1>4. QED
  BY <1>3, AddsFresh, Zenon DEF TopicOnce, Marked

\* What a step without a fault does to the consumers and the mails.
LEMMA QuietSteps ==
  ASSUME DeliveryTypeOK, TriesInv, [DeliveryNext]_deliveryVars, faults' = 0
  PROVE  \/ UNCHANGED <<mails, owner, conVars>>
         \/ /\ UNCHANGED <<mails, topic>>
            /\ \E c \in Consumers : \/ StartConsumer(c) \/ FetchBatch(c) \/ CommitBatch(c)
                                    \/ Assign(c) /\ owner = NoConsumer
         \/ \E c \in Consumers : \E i \in DOMAIN task[c] :
              TaskNext(c, i) /\ UNCHANGED unseenByTasks /\ \E t : SetsTask(c, i, t)
<1>0. ~Fault
  BY QuietTopicSteps, Zenon
<1>1. ASSUME NEW c \in Consumers, NEW i \in DOMAIN task[c], TaskNext(c, i)
      PROVE  TaskNext(c, i) /\ UNCHANGED unseenByTasks /\ \E t : SetsTask(c, i, t)
  BY <1>0, <1>1, TaskSteps, Zenon
<1>2. ASSUME NEW c \in Consumers,
             \/ StartConsumer(c) \/ Assign(c) \/ FetchBatch(c) \/ ConsumerStops(c)
             \/ CommitBatch(c) \/ CommitFails(c)
      PROVE  /\ UNCHANGED <<mails, topic>>
             /\ \/ StartConsumer(c) \/ FetchBatch(c) \/ CommitBatch(c)
                \/ Assign(c) /\ owner = NoConsumer
  BY <1>0, <1>2, Zenon DEF StartConsumer, Assign, FetchBatch, CommitBatch, ConsumerStops,
     CommitFails, effects
<1>3. ASSUME NEW p \in Publishers, PublisherNext(p) PROVE UNCHANGED <<mails, owner, conVars>>
  BY <1>3, Zenon DEF PublisherNext, SelectRows, WriteMessages, WriteFails, MarkPublished,
     PublisherStops, groupVars, effects
<1>4. ASSUME NEW r \in Rows, InsertOutbox(r) \/ MarkerExpires(r)
      PROVE  UNCHANGED <<mails, owner, conVars>>
  BY <1>4, Zenon DEF InsertOutbox, MarkerExpires, unseenByTasks, groupVars, conVars, effects
<1>5. ASSUME UNCHANGED deliveryVars PROVE UNCHANGED <<mails, owner, conVars>>
  BY <1>5, Zenon DEF deliveryVars, groupVars, effects
<1>6. QED
  BY <1>1, <1>2, <1>3, <1>4, <1>5, Zenon DEF DeliveryNext, ConsumerNext

\* Without faults a goroutine's step sends its mail only if nobody has.
LEMMA WorkerOnce ==
  ASSUME DeliveryTypeOK, HandlingInv, TopicOnce, MailsOnce, ~Fault,
         NEW c \in Consumers, NEW i \in DOMAIN task[c], TaskNext(c, i),
         UNCHANGED unseenByTasks, NEW t, SetsTask(c, i, t)
  PROVE  MailsOnce'
<1>0. /\ mails \in [Rows -> Nat] /\ topic \in Seq(Rows) /\ Len(topic) \in Nat
      /\ \A d \in Consumers : DOMAIN task[d] \subseteq Offsets
      /\ \A d \in Consumers : next[d] \in Nat
      /\ NoConsumer \notin Consumers
  BY LenProperties, DeliveryConstantsOK DEF DeliveryTypeOK, Offsets
<1>1. UNCHANGED <<topic, owner, con_pc, next>> /\ Offsets' = Offsets
  BY Zenon DEF unseenByTasks, groupVars, Offsets
<1>2. owner = c /\ i < next[c] /\ \A d \in Consumers : d # c => DOMAIN task[d] = {}
  BY Zenon DEF HandlingInv, ConsumerInv, MailsOnce
<1>3. /\ \A d \in Consumers : d # c => task'[d] = task[d]
      /\ DOMAIN task'[c] = DOMAIN task[c] /\ task'[c][i] = t
      /\ \A j \in DOMAIN task[c] : j # i => task'[c][j] = task[c][j]
  BY Zenon DEF SetsTask
<1>4. i \in Offsets /\ topic[i] \in Rows
  BY <1>0, ElementOfSeq, Zenon DEF Offsets
<1>5. t.st # "retry" /\ t.st # "new"
  BY TaskOutcome, Zenon
<1>6. \A r : OnTopic(r)' <=> OnTopic(r)
  BY <1>1, Zenon DEF OnTopic
<1>7. CASE UNCHANGED mails
  <2>1. t.st = "mailing" => mails[topic[i]] = 0
    BY TaskOutcome, Zenon DEF MailsOnce
  <2>2. \A d \in Consumers : \A j \in DOMAIN task'[d] :
          /\ task'[d][j].st # "retry"
          /\ task'[d][j].st \in {"new", "mailing"} => mails'[topic'[j]] = 0
    BY <1>1, <1>2, <1>3, <1>5, <1>7, <2>1 DEF MailsOnce
  <2>3. QED
    BY <1>1, <1>6, <1>7, <2>2, Zenon DEF MailsOnce
<1>8. CASE /\ mails' = [mails EXCEPT ![topic[i]] = @ + 1]
           /\ task[c][i].st = "mailing" /\ t.st = "mailed"
  <2>1. mails[topic[i]] = 0
    BY <1>8, Zenon DEF MailsOnce
  <2>2. /\ mails'[topic[i]] = 1
        /\ \A m \in Rows : m # topic[i] => mails'[m] = mails[m]
    BY <1>0, <1>4, <1>8, <2>1
  <2>3. \A j \in Offsets : j # i => topic[j] # topic[i] /\ topic[j] \in Rows
    BY <1>0, <1>4, ElementOfSeq, Zenon DEF TopicOnce, Offsets
  <2>4. \A j \in Offsets : j # i => mails'[topic'[j]] = mails[topic[j]]
    BY <1>1, <2>2, <2>3, Zenon
  <2>5. \A m \in Rows : mails'[m] <= 1 /\ (mails'[m] > 0 => OnTopic(m)' /\ owner' # NoConsumer)
    <3>1. OnTopic(topic[i])' /\ owner' # NoConsumer
      BY <1>0, <1>1, <1>2, <1>4, <1>6, Zenon DEF OnTopic
    <3>2. mails'[topic[i]] <= 1
      BY <2>2
    <3>3. QED
      BY <1>1, <1>6, <2>2, <3>1, <3>2, Zenon DEF MailsOnce
  <2>6. \A j \in Offsets : j >= next[c] => j # i
    BY <1>0, <1>2, <1>4 DEF Offsets
  <2>7. \A d \in Consumers : owner' = d =>
          \A j \in Offsets' : j >= next'[d] => mails'[topic'[j]] = 0
    BY <1>1, <1>2, <2>4, <2>6, Zenon DEF MailsOnce
  <2>8. ASSUME NEW d \in Consumers, NEW j \in DOMAIN task'[d]
        PROVE  /\ task'[d][j].st # "retry"
               /\ task'[d][j].st \in {"new", "mailing"} => mails'[topic'[j]] = 0
    <3>1. d = c /\ j \in DOMAIN task[c]
      BY <1>2, <1>3, <2>8, Zenon
    <3>2. CASE j = i
      BY <1>3, <1>8, <3>1, <3>2, Zenon
    <3>3. CASE j # i
      <4>1. task'[d][j] = task[c][j] /\ mails'[topic'[j]] = mails[topic[j]]
        BY <1>0, <1>3, <2>4, <3>1, <3>3, Zenon
      <4>2. QED
        BY <3>1, <4>1, Zenon DEF MailsOnce
    <3>4. QED
      BY <3>2, <3>3, Zenon
  <2>9. QED
    BY <1>1, <2>5, <2>7, <2>8, Zenon DEF MailsOnce
<1>9. QED
  BY <1>7, <1>8, TaskOutcome, Zenon

\* Without faults no step mails a message a second time.
LEMMA MailsOnceStep ==
  ASSUME DeliveryTypeOK, TriesInv, OutboxInv, HandlingInv, TopicOnce, MailsOnce,
         [DeliveryNext]_deliveryVars, faults' = 0
  PROVE  MailsOnce'
<1>0. /\ con_pc \in [Consumers -> {"down", "fetching", "working"}] /\ DOMAIN task = Consumers
      /\ next \in [Consumers -> 1..(Len(topic) + 1)] /\ Len(topic) \in Nat
      /\ mails \in [Rows -> Nat] /\ NoConsumer \notin Consumers /\ ~Fault
      /\ \A d \in Consumers : DOMAIN task[d] \subseteq Offsets
  BY LenProperties, DeliveryConstantsOK, QuietTopicSteps, Zenon DEF DeliveryTypeOK, Offsets
<1>1. CASE UNCHANGED <<mails, owner, conVars>>
  <2>1. UNCHANGED <<mails, owner, con_pc, next, task>>
    BY <1>1, Zenon DEF conVars
  <2>2. \A i \in Offsets : i \in Offsets' /\ topic'[i] = topic[i]
    BY TopicSteps DEF Grows, Offsets
  <2>3. \A i \in Offsets' : i \notin Offsets => topic'[i] \in Rows /\ ~OnTopic(topic'[i])
    BY AddsFresh, Zenon
  <2>4. \A i \in Offsets' : i \notin Offsets => mails[topic'[i]] = 0
    <3>1. ASSUME NEW m \in Rows, ~OnTopic(m) PROVE mails[m] = 0
      <4>1. mails[m] \in Nat /\ ~(mails[m] > 0)
        BY <1>0, <3>1, Zenon DEF MailsOnce
      <4>2. QED
        BY <4>1
    <3>2. QED
      BY <2>3, <3>1, Zenon
  <2>5. \A d \in Consumers : owner' = d =>
          \A i \in Offsets' : i >= next'[d] => mails'[topic'[i]] = 0
    BY <2>1, <2>2, <2>4, Zenon DEF MailsOnce
  <2>6. \A d \in Consumers : \A i \in DOMAIN task'[d] :
          /\ task'[d][i].st # "retry"
          /\ task'[d][i].st \in {"new", "mailing"} => mails'[topic'[i]] = 0
    BY <1>0, <2>1, <2>2 DEF MailsOnce
  <2>7. \A r : OnTopic(r) => OnTopic(r)'
    BY <2>2, Zenon DEF OnTopic
  <2>8. QED
    BY <2>1, <2>5, <2>6, <2>7, Zenon DEF MailsOnce
<1>2. ASSUME UNCHANGED <<mails, topic>> PROVE Offsets' = Offsets /\ \A r : OnTopic(r)' <=> OnTopic(r)
  BY <1>2, Zenon DEF Offsets, OnTopic
<1>3. ASSUME UNCHANGED <<mails, topic>>, NEW c \in Consumers, StartConsumer(c) PROVE MailsOnce'
  <2>1. UNCHANGED <<owner, next, task>>
    BY <1>3, Zenon DEF StartConsumer, groupVars
  <2>2. \A d \in Consumers : con_pc'[d] = "working" => con_pc[d] = "working"
    BY <1>0, <1>3, Zenon DEF StartConsumer
  <2>3. QED
    BY <1>2, <1>3, <2>1, <2>2, Zenon DEF MailsOnce
<1>4. ASSUME UNCHANGED <<mails, topic>>, NEW c \in Consumers, Assign(c), owner = NoConsumer
      PROVE  MailsOnce'
  <2>1. UNCHANGED <<con_pc, task>> /\ owner' = c
    BY <1>4, Zenon DEF Assign
  <2>2. \A m \in Rows : mails[m] = 0
    <3>1. \A m \in Rows : mails[m] \in Nat /\ ~(mails[m] > 0)
      BY <1>0, <1>4, Zenon DEF MailsOnce
    <3>2. QED
      BY <3>1
  <2>3. \A d \in Consumers : con_pc[d] # "working"
    BY <1>0, <1>4, Zenon DEF MailsOnce
  <2>4. \A i \in Offsets : topic[i] \in Rows
    BY ElementOfSeq, Zenon DEF DeliveryTypeOK, Offsets
  <2>5. \A d \in Consumers : owner' = d =>
          \A i \in Offsets' : i >= next'[d] => mails'[topic'[i]] = 0
    BY <1>2, <1>4, <2>2, <2>4, Zenon
  <2>6. \A m \in Rows : mails'[m] <= 1 /\ ~(mails'[m] > 0)
    BY <1>4, <2>2
  <2>7. QED
    BY <1>4, <2>1, <2>3, <2>5, <2>6, Zenon DEF MailsOnce
<1>5. ASSUME UNCHANGED <<mails, topic>>, NEW c \in Consumers, FetchBatch(c) PROVE MailsOnce'
  <2>1. owner = c /\ owner' = c
    BY <1>5, Zenon DEF FetchBatch, groupVars
  <2>2. PICK last \in Available(c) :
          /\ task' = [task EXCEPT ![c] = [i \in next[c]..last |-> [st |-> "new", tries |-> 0]]]
          /\ next' = [next EXCEPT ![c] = last + 1]
    BY <1>5, Zenon DEF FetchBatch
  <2>3. /\ task'[c] = [i \in next[c]..last |-> [st |-> "new", tries |-> 0]] /\ next'[c] = last + 1
        /\ \A d \in Consumers : d # c => task'[d] = task[d] /\ next'[d] = next[d]
    BY <1>0, <2>2, Zenon
  <2>4. /\ DOMAIN task'[c] = next[c]..last
        /\ \A i \in DOMAIN task'[c] : task'[c][i].st = "new"
    BY <2>3
  <2>5. \A d \in Consumers : con_pc'[d] = "working" => con_pc[d] = "working" \/ d = c
    BY <1>0, <1>5, Zenon DEF FetchBatch
  <2>6. \A i \in next[c]..last : i \in Offsets /\ i >= next[c]
    BY <1>0 DEF Available, Offsets
  <2>7. \A i \in Offsets : i >= next'[c] => i >= next[c]
    BY <1>0, <2>3 DEF Available, Offsets
  <2>8. \A d \in Consumers : owner' = d =>
          \A i \in Offsets' : i >= next'[d] => mails'[topic'[i]] = 0
    BY <1>2, <1>5, <2>1, <2>7, Zenon DEF MailsOnce
  <2>9. \A i \in DOMAIN task'[c] : mails'[topic'[i]] = 0
    BY <1>5, <2>1, <2>4, <2>6, Zenon DEF MailsOnce
  <2>10. \A d \in Consumers : \A i \in DOMAIN task'[d] :
          /\ task'[d][i].st # "retry"
          /\ task'[d][i].st \in {"new", "mailing"} => mails'[topic'[i]] = 0
    <3>1. ASSUME NEW d \in Consumers, d # c, NEW i \in DOMAIN task'[d]
          PROVE  /\ task'[d][i].st # "retry"
                 /\ task'[d][i].st \in {"new", "mailing"} => mails'[topic'[i]] = 0
      <4>1. task'[d] = task[d]
        BY <2>3, <3>1, Zenon
      <4>2. QED
        BY <1>5, <3>1, <4>1, Zenon DEF MailsOnce
    <3>2. QED
      BY <2>4, <2>9, <3>1, Zenon
  <2>11. QED
    BY <1>2, <1>5, <2>1, <2>5, <2>8, <2>10, Zenon DEF MailsOnce
<1>6. ASSUME UNCHANGED <<mails, topic>>, NEW c \in Consumers, CommitBatch(c) PROVE MailsOnce'
  <2>1. UNCHANGED <<owner, next>>
    BY <1>6, Zenon DEF CommitBatch
  <2>2. \A d \in Consumers : con_pc'[d] = "working" => con_pc[d] = "working"
    BY <1>0, <1>6, Zenon DEF CommitBatch
  <2>3. task'[c] = NoTasks /\ \A d \in Consumers : d # c => task'[d] = task[d]
    BY <1>0, <1>6, Zenon DEF CommitBatch
  <2>4. DOMAIN task'[c] = {}
    BY <2>3 DEF NoTasks
  <2>5. \A d \in Consumers : \A i \in DOMAIN task'[d] :
          /\ task'[d][i].st # "retry"
          /\ task'[d][i].st \in {"new", "mailing"} => mails'[topic'[i]] = 0
    BY <1>6, <2>3, <2>4 DEF MailsOnce
  <2>6. QED
    BY <1>2, <1>6, <2>1, <2>2, <2>5, Zenon DEF MailsOnce
<1>7. QED
  BY <1>0, <1>1, <1>3, <1>4, <1>5, <1>6, QuietSteps, WorkerOnce, Zenon

\* "No row is sent twice concurrently": for any number of replicas, as long as nothing
\* fails, a row is on the topic at most once and a verdict is mailed at most once.
THEOREM OnceCorrect == DeliverySpec => []OnceWithoutFaults
<1>1. DeliveryInit => QuietInv
  <2> SUFFICES ASSUME DeliveryInit PROVE TopicOnce /\ MailsOnce
    BY Zenon DEF QuietInv
  <2>1. Len(topic) = 0
    BY Zenon DEF DeliveryInit
  <2>2. Offsets = {}
    BY <2>1 DEF Offsets
  <2>3. \A c \in Consumers : con_pc[c] = "down" /\ task[c] = NoTasks
    BY Zenon DEF DeliveryInit
  <2>4. \A m \in Rows : mails[m] <= 1 /\ ~(mails[m] > 0)
    BY DEF DeliveryInit
  <2>5. DOMAIN NoTasks = {}
    BY DEF NoTasks
  <2>6. QED
    BY <2>2, <2>3, <2>4, <2>5, Zenon DEF TopicOnce, MailsOnce, OnTopic
<1>2. DeliveryTypeOK /\ TriesInv /\ OutboxInv /\ HandlingInv /\ QuietInv
        /\ [DeliveryNext]_deliveryVars => QuietInv'
  <2>1. ASSUME DeliveryTypeOK, TriesInv, OutboxInv, HandlingInv, QuietInv,
               [DeliveryNext]_deliveryVars, faults' = 0
        PROVE  TopicOnce' /\ MailsOnce'
    <3>1. TopicOnce /\ MailsOnce
      BY <2>1, QuietTopicSteps, Zenon DEF QuietInv
    <3>2. QED
      BY <2>1, <3>1, TopicOnceStep, MailsOnceStep, Zenon
  <2>2. QED
    BY <2>1, Zenon DEF QuietInv
<1>3. QuietInv => OnceWithoutFaults
  BY Zenon DEF QuietInv, TopicOnce, MailsOnce, OnceWithoutFaults, Offsets
<1>4. QED
  BY <1>1, <1>2, <1>3, OutboxInvariant, HandlingInvariant, PTL DEF DeliverySpec
=============================================================================
