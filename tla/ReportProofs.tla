----------------------------- MODULE ReportProofs -----------------------------
(***************************************************************************)
(* Theorems about Report, for any items, reports, commands and any clock:  *)
(* the five invariants of the run report.  All but the type invariant rest *)
(* on what the queue holds (QueueOK, AheadOK) and on what a report's task  *)
(* has not touched before its turn (Fresh).                                *)
(***************************************************************************)
EXTENDS Report, SequenceTheorems, TLAPS

\* The steps of a report's task after its query: they leave everything but
\* its own status, file, tries and copies alone.
LocalStep(r) == \/ Write(r) \/ Deliver(r) \/ Prepare(r) \/ Post(r) \/ NotReady(r)
                \/ CallFails(r) \/ AnswerLost(r) \/ Close(r) \/ SoftLimit(r) \/ Kill(r)

LEMMA DateBounds ==
    \A h \in Int : /\ Date(h) \in Int
                   /\ Date(h) * Day <= h
                   /\ h < (Date(h) + 1) * Day
BY DEF Date, Day

\* The period is clamped, whatever number the command gives.
LEMMA PeriodIsClamped == \A c \in Commands : PeriodDays(c) \in 1..365
<1>1. SUFFICES ASSUME NEW c \in Commands, c # Bare
               PROVE  PeriodDays(c) \in 1..365
  BY DEF PeriodDays
<1>2. c[1] \in Nat /\ c[2] \in {"d", "w", "m"}
  BY <1>1, ReportConstants
<1>3. DaysIn(c[2]) \in {1, 7, 30}
  BY <1>2 DEF DaysIn
<1>4. c[1] * DaysIn(c[2]) \in Int
  BY <1>2, <1>3
<1>5. QED
  BY <1>1, <1>4 DEF PeriodDays

(***************************************************************************)
(* What the two dates of a command mean in hours: the n times 24 hours     *)
(* before it and the rest of its day are inside, and what is inside is     *)
(* less than n + 1 days old and of no later day.                           *)
(***************************************************************************)
THEOREM DatesCoverPeriod ==
    ASSUME NEW asked \in Int, NEW n \in Nat, NEW h \in Int,
           NEW a, a.from = Date(asked - n * Day), a.to = Date(asked)
    PROVE  /\ h >= asked - n * Day /\ Date(h) <= Date(asked)
                  => h \in Start(a)..(End(a) - 1)
           /\ h \in Start(a)..(End(a) - 1)
                  => asked - h < n * Day + Day /\ Date(h) <= Date(asked)
<1> DEFINE f == Date(asked - n * Day)
           t == Date(asked)
           d == Date(h)
<1>1. asked - n * Day \in Int
  BY DEF Day
<1>2. f \in Int /\ f * Day <= asked - n * Day /\ asked - n * Day < (f + 1) * Day
  BY <1>1, DateBounds
<1>3. t \in Int /\ d \in Int /\ d * Day <= h /\ h < (d + 1) * Day
  BY DateBounds
<1>4. Start(a) = f * Day /\ End(a) = (t + 1) * Day
  BY DEF Start, End
<1> HIDE DEF f, t, d
<1>5. /\ h >= asked - n * Day /\ d <= t => h \in (f * Day)..((t + 1) * Day - 1)
      /\ h \in (f * Day)..((t + 1) * Day - 1) => asked - h < n * Day + Day /\ d <= t
  BY <1>2, <1>3 DEF Day
<1>6. QED
  BY <1>4, <1>5 DEF t, d

-----------------------------------------------------------------------------
(***************************************************************************)
(* Types.                                                                  *)
(***************************************************************************)
LEMMA TypeInit == Init => TypeOK
BY ReportConstants DEF Init, TypeOK, NoArgs, NoPast, Never

LEMMA TypeTakes ==
    ASSUME TypeOK, NEW t, Takes(t)
    PROVE  queue' \in Seq(Items \cup Reports)
BY HeadTailProperties DEF TypeOK, Takes

LEMMA TypeItems ==
    ASSUME TypeOK, NEW i \in Items, Publish(i) \/ Process(i) \/ CountdownEnds(i)
    PROVE  TypeOK'
<1>1. queue' \in Seq(Items \cup Reports)
  <2>1. Append(queue, i) \in Seq(Items \cup Reports)
    BY AppendProperties DEF TypeOK
  <2>2. QED
    BY <2>1, TypeTakes DEF Publish, Process, CountdownEnds
<1>2. CASE Publish(i)
  BY <1>1, <1>2 DEF Publish, TypeOK, command
<1>3. CASE Process(i)
  <2>1. state' \in [Items -> {"unsent", "queued", "completed", "failed"}]
    BY <1>3 DEF Process, TypeOK
  <2>2. completed' \in [Items -> (0..Horizon) \cup {Never}]
    BY <1>3 DEF Process, TypeOK
  <2>3. delayed' \subseteq Items /\ retried' \subseteq Items
    BY <1>3 DEF Process, TypeOK
  <2>4. QED
    BY <1>1, <1>3, <2>1, <2>2, <2>3 DEF Process, TypeOK, command
<1>4. CASE CountdownEnds(i)
  BY <1>1, <1>4 DEF CountdownEnds, TypeOK, command
<1>5. QED
  BY <1>2, <1>3, <1>4

LEMMA TypeAsk ==
    ASSUME TypeOK, NEW r \in Reports, NEW c \in Commands, Ask(r, c)
    PROVE  TypeOK'
<1>1. queue' \in Seq(Items \cup Reports)
  BY AppendProperties DEF TypeOK, Ask
<1>2. Args(c) \in [days : 1..365, from : Int, to : Int]
  <2>1. PeriodDays(c) \in 1..365
    BY PeriodIsClamped
  <2>2. now \in Int
    BY ReportConstants DEF TypeOK
  <2>3. now - PeriodDays(c) * Day \in Int
    BY <2>1, <2>2 DEF Day
  <2>4. Date(now) \in Int /\ Date(now - PeriodDays(c) * Day) \in Int
    BY <2>2, <2>3, DateBounds
  <2>5. QED
    BY <2>1, <2>4 DEF Args
<1>3. QED
  BY <1>1, <1>2 DEF Ask, Asked, TypeOK, items

LEMMA TypeQuery ==
    ASSUME TypeOK, NEW r \in Reports, Collect(r) \/ QueryFails(r)
    PROVE  TypeOK'
<1>1. queue' \in Seq(Items \cup Reports)
  BY TypeTakes DEF Collect, QueryFails
<1>2. CASE Collect(r)
  <2>1. Selected(args[r]) \in SUBSET Items
    BY DEF Selected
  <2>2. rows' \in [Reports -> SUBSET Items]
    <3>1. rows' = [rows EXCEPT ![r] = Selected(args[r])] /\ rows \in [Reports -> SUBSET Items]
      BY <1>2 DEF Collect, TypeOK
    <3>2. QED
      BY <2>1, <3>1
  <2>3. status' \in [Reports -> {"unasked", "queued"} \cup Running \cup Ended]
    BY <1>2 DEF Collect, TypeOK, Running, Ended
  <2>4. past' \in [Reports -> [asked : 0..Horizon, ahead : SUBSET Items,
                             known : SUBSET Items]]
    <3>1. past \in [Reports -> [asked : 0..Horizon, ahead : SUBSET Items,
                              known : SUBSET Items]]
      BY DEF TypeOK
    <3>2. past' = [past EXCEPT ![r].known = {i \in Items : state[i] = "completed"}]
      BY <1>2 DEF Collect
    <3>3. QED
      BY <3>1, <3>2
  <2>5. QED
    BY <1>1, <1>2, <2>2, <2>3, <2>4 DEF Collect, TypeOK, items, command
<1>3. CASE QueryFails(r)
  BY <1>1, <1>3 DEF QueryFails, TypeOK, items, command, Ended
<1>4. QED
  BY <1>2, <1>3

LEMMA TypeLocal ==
    ASSUME TypeOK, NEW r \in Reports, LocalStep(r)
    PROVE  TypeOK'
<1>1. copies' \in [Reports -> Seq({"asker", "stranger"})]
  <2>1. Append(copies[r], Addressee(chat[r])) \in Seq({"asker", "stranger"})
    BY AppendProperties DEF TypeOK, Addressee
  <2>2. QED
    BY <2>1 DEF TypeOK, LocalStep, Write, Deliver, Prepare, Post, NotReady, CallFails,
         AnswerLost, Close, SoftLimit, Kill, Arrives
<1>2. tries' \in [Reports -> 0..2]
  <2>1. tries \in [Reports -> 0..2]
    BY DEF TypeOK
  <2>2. tries' = tries \/ (tries[r] < 2 /\ tries' = [tries EXCEPT ![r] = @ + 1])
    BY DEF LocalStep, Write, Deliver, Prepare, Post, NotReady, CallFails,
       AnswerLost, Close, SoftLimit, Kill
  <2>3. QED
    BY <2>1, <2>2
<1>3. file' \in [Reports -> {"none", "torn", "whole"}]
  BY DEF TypeOK, LocalStep, Write, Deliver, Prepare, Post, NotReady, CallFails,
     AnswerLost, Close, Closed, Answered, SoftLimit, Kill
<1>4. status' \in [Reports -> {"unasked", "queued"} \cup Running \cup Ended]
  <2>1. status \in [Reports -> {"unasked", "queued"} \cup Running \cup Ended]
    BY DEF TypeOK
  <2>2. status' = status \/ \E s \in Running \cup Ended : status' = [status EXCEPT ![r] = s]
    <3>1. CASE Write(r) \/ Deliver(r) \/ Prepare(r)
      BY <3>1 DEF Write, Deliver, Prepare, Running, Sending, Preparing, Closing, Ended, Left
    <3>2. CASE Post(r) \/ NotReady(r) \/ CallFails(r) \/ AnswerLost(r) \/ Close(r)
      BY <3>2 DEF Post, NotReady, CallFails, AnswerLost, Close, Closed, Answered,
          Running, Closing, Ended
    <3>3. CASE SoftLimit(r) \/ Kill(r)
      BY <3>3 DEF SoftLimit, Kill, Answered, Running, Closing, Ended, Left
    <3>4. QED
      BY <3>1, <3>2, <3>3 DEF LocalStep
  <2>3. QED
    BY <2>1, <2>2
<1>5. UNCHANGED Rest
  BY DEF LocalStep, Write, Deliver, Prepare, Post, NotReady, CallFails,
     AnswerLost, Close, SoftLimit, Kill
<1>6. QED
  BY <1>1, <1>2, <1>3, <1>4, <1>5 DEF TypeOK, Rest, items, command

LEMMA NextCases ==
    ASSUME Next
    PROVE  \/ \E i \in Items : Publish(i) \/ Process(i) \/ CountdownEnds(i)
           \/ \E r \in Reports, c \in Commands : Ask(r, c)
           \/ \E r \in Reports : Collect(r) \/ QueryFails(r)
           \/ \E r \in Reports : LocalStep(r)
           \/ Tick
BY DEF Next, Report, LocalStep

LEMMA TypeNext == TypeOK /\ [Next]_vars => TypeOK'
<1> SUFFICES ASSUME TypeOK, [Next]_vars PROVE TypeOK'
  OBVIOUS
<1>1. CASE Tick
  BY <1>1, ReportConstants DEF Tick, TypeOK, items, command
<1>2. CASE UNCHANGED vars
  BY <1>2 DEF vars, TypeOK, items, command
<1>3. QED
  BY <1>1, <1>2, NextCases, TypeItems, TypeAsk, TypeQuery, TypeLocal

(***************************************************************************)
(* The variables of the worker, the queue and the reports have their       *)
(* types; a period is always between a day and a year.                     *)
(***************************************************************************)
THEOREM TypeCorrect == Spec => []TypeOK
BY TypeInit, TypeNext, PTL DEF Spec

-----------------------------------------------------------------------------
(***************************************************************************)
(* The queue.  A task waits in one place, and a report is behind every     *)
(* item that was ahead of it.                                              *)
(***************************************************************************)
QueueOK ==
    /\ \A k, l \in 1..Len(queue) : queue[k] = queue[l] => k = l
    /\ \A k \in 1..Len(queue) :
           /\ queue[k] \in Items => state[queue[k]] = "queued" /\ queue[k] \notin delayed
           /\ queue[k] \in Reports => status[queue[k]] = "queued"
    /\ \A i \in delayed : state[i] = "queued" /\ i \in retried
    /\ \A i \in Items : state[i] = "queued" =>
           i \in delayed \/ \E k \in 1..Len(queue) : queue[k] = i

\* Item i will not reach the worker after place k of the queue.
Settled(i, k) == \/ state[i] \in {"completed", "failed"}
                 \/ i \in retried
                 \/ \E l \in 1..(k - 1) : queue[l] = i

AheadOK ==
    \A k \in 1..Len(queue) : queue[k] \in Reports =>
        \A i \in past[queue[k]].ahead : Settled(i, k)

\* What the task of a report has not touched before its turn.
Fresh ==
    \A r \in Reports :
        /\ status[r] \in {"unasked", "queued"} => rows[r] = {} /\ past[r].known = {}
        /\ status[r] \in {"unasked", "queued"} \cup (Running \ Closing) => copies[r] = <<>>
        /\ status[r] \in {"unasked", "queued", "collected"} => file[r] = "none"

\* The dates in a report's task are those of the hour it was asked in.
Dated ==
    \A r \in Reports : status[r] # "unasked" =>
        /\ args[r].days \in 1..365
        /\ args[r].from = Date(past[r].asked - args[r].days * Day)
        /\ args[r].to = Date(past[r].asked)

\* What was completed stays completed.
KnownOK == \A r \in Reports : \A i \in past[r].known : state[i] = "completed"

LEMMA LocalFacts ==
    ASSUME NEW r \in Reports, LocalStep(r)
    PROVE  /\ UNCHANGED Rest
           /\ status[r] \in Running
           /\ status' = status \/ \E s \in Running \cup Ended : status' = [status EXCEPT ![r] = s]
<1>1. UNCHANGED Rest /\ status[r] \in Running
  BY DEF LocalStep, Write, Deliver, Prepare, Post, NotReady, CallFails, AnswerLost, Close,
     SoftLimit, Kill, CanPost, Running, Sending, Preparing, Closing
<1>2. CASE Write(r) \/ Deliver(r) \/ Prepare(r)
  BY <1>1, <1>2 DEF Write, Deliver, Prepare, Running, Sending, Preparing, Closing, Ended, Left
<1>3. CASE Post(r) \/ NotReady(r) \/ CallFails(r) \/ AnswerLost(r) \/ Close(r)
  BY <1>1, <1>3 DEF Post, NotReady, CallFails, AnswerLost, Close, Closed, Answered,
          Running, Closing, Ended
<1>4. CASE SoftLimit(r) \/ Kill(r)
  BY <1>1, <1>4 DEF SoftLimit, Kill, Answered, Running, Closing, Ended, Left
<1>5. QED
  BY <1>2, <1>3, <1>4 DEF LocalStep

LEMMA QueueInit == Init => QueueOK /\ AheadOK
BY DEF Init, QueueOK, AheadOK

\* What taking a task does to the places of the others.
LEMMA Shift ==
    ASSUME TypeOK, NEW t, Takes(t)
    PROVE  /\ queue # <<>> /\ queue[1] = t /\ Len(queue) \in Nat /\ Len(queue) > 0
           /\ Len(queue') = Len(queue) - 1
           /\ \A k \in 1..Len(queue') : queue'[k] = queue[k + 1]
BY HeadTailProperties DEF TypeOK, Takes

LEMMA Last ==
    ASSUME TypeOK, NEW t \in Items \cup Reports, queue' = Append(queue, t)
    PROVE  /\ Len(queue) \in Nat /\ Len(queue') = Len(queue) + 1
           /\ queue'[Len(queue) + 1] = t
           /\ \A k \in 1..Len(queue) : queue'[k] = queue[k]
BY AppendProperties DEF TypeOK

LEMMA QueuePublish ==
    ASSUME TypeOK, QueueOK, AheadOK, NEW i \in Items, Publish(i)
    PROVE  QueueOK' /\ AheadOK'
<1>1. /\ Len(queue) \in Nat /\ Len(queue') = Len(queue) + 1
      /\ queue'[Len(queue) + 1] = i
      /\ \A k \in 1..Len(queue) : queue'[k] = queue[k]
  BY Last DEF Publish
<1>2. \A k \in 1..Len(queue) : queue[k] \in Items \cup Reports
  BY DEF TypeOK
<1>3. /\ state[i] = "unsent" /\ state' = [state EXCEPT ![i] = "queued"]
      /\ UNCHANGED <<delayed, retried, status, past>>
      /\ state \in [Items -> {"unsent", "queued", "completed", "failed"}]
      /\ i \notin Reports
  BY ReportConstants DEF Publish, TypeOK
<1>4. i \notin delayed /\ \A k \in 1..Len(queue) : queue[k] # i
  BY <1>3 DEF QueueOK
<1>5. QueueOK'
  <2>1. (\A k, l \in 1..Len(queue) : queue[k] = queue[l] => k = l)'
    BY <1>1, <1>4 DEF QueueOK
  <2>2. ASSUME NEW k \in 1..Len(queue')
        PROVE  /\ queue'[k] \in Items => state'[queue'[k]] = "queued" /\ queue'[k] \notin delayed'
               /\ queue'[k] \in Reports => status'[queue'[k]] = "queued"
    BY <1>1, <1>3, <1>4 DEF QueueOK
  <2>3. (\A j \in delayed : state[j] = "queued" /\ j \in retried)'
    BY <1>3, <1>4 DEF QueueOK, TypeOK
  <2>4. ASSUME NEW j \in Items, state'[j] = "queued"
        PROVE  j \in delayed' \/ \E k \in 1..Len(queue') : queue'[k] = j
    <3>1. CASE j = i
      BY <1>1, <3>1
    <3>2. CASE j # i
      <4>1. j \in delayed \/ \E k \in 1..Len(queue) : queue[k] = j
        BY <1>3, <2>4, <3>2 DEF QueueOK
      <4>2. QED
        BY <1>1, <1>3, <4>1
    <3>3. QED
      BY <3>1, <3>2
  <2>5. QED
    BY <2>1, <2>2, <2>3, <2>4 DEF QueueOK
<1>6. ASSUME NEW k \in 1..Len(queue'), queue'[k] \in Reports,
             NEW j \in past'[queue'[k]].ahead
      PROVE  Settled(j, k)'
  <2>1. k \in 1..Len(queue) /\ queue'[k] = queue[k]
    BY <1>1, <1>3, <1>6
  <2>2. Settled(j, k)
    BY <1>3, <1>6, <2>1 DEF AheadOK
  <2>3. state[j] \in {"completed", "failed"} => state'[j] \in {"completed", "failed"}
    BY <1>3
  <2>4. QED
    BY <1>1, <1>3, <2>1, <2>2, <2>3 DEF Settled
<1>7. QED
  BY <1>5, <1>6 DEF AheadOK

LEMMA QueueAsk ==
    ASSUME TypeOK, QueueOK, AheadOK, NEW r \in Reports, NEW c \in Commands, Ask(r, c)
    PROVE  QueueOK' /\ AheadOK'
<1>1. /\ Len(queue) \in Nat /\ Len(queue') = Len(queue) + 1
      /\ queue'[Len(queue) + 1] = r
      /\ \A k \in 1..Len(queue) : queue'[k] = queue[k]
  BY Last DEF Ask
<1>2. \A k \in 1..Len(queue) : queue[k] \in Items \cup Reports
  BY DEF TypeOK
<1>3. /\ status[r] = "unasked" /\ status' = [status EXCEPT ![r] = "queued"]
      /\ UNCHANGED <<delayed, retried, state>>
      /\ \A q \in Reports : q # r => past'[q] = past[q]
      /\ past'[r].ahead = {i \in Items : state[i] # "unsent"}
      /\ status \in [Reports -> {"unasked", "queued"} \cup Running \cup Ended]
      /\ r \notin Items
  BY ReportConstants DEF Ask, Asked, TypeOK, items
<1>4. \A k \in 1..Len(queue) : queue[k] # r
  BY <1>3 DEF QueueOK
<1>5. QueueOK'
  <2>1. (\A k, l \in 1..Len(queue) : queue[k] = queue[l] => k = l)'
    BY <1>1, <1>4 DEF QueueOK
  <2>2. ASSUME NEW k \in 1..Len(queue')
        PROVE  /\ queue'[k] \in Items => state'[queue'[k]] = "queued" /\ queue'[k] \notin delayed'
               /\ queue'[k] \in Reports => status'[queue'[k]] = "queued"
    BY <1>1, <1>3, <1>4 DEF QueueOK
  <2>3. (\A j \in delayed : state[j] = "queued" /\ j \in retried)'
    BY <1>3 DEF QueueOK
  <2>4. ASSUME NEW j \in Items, state'[j] = "queued"
        PROVE  j \in delayed' \/ \E k \in 1..Len(queue') : queue'[k] = j
    <3>1. j \in delayed \/ \E k \in 1..Len(queue) : queue[k] = j
      BY <1>3, <2>4 DEF QueueOK
    <3>2. QED
      BY <1>1, <1>3, <3>1
  <2>5. QED
    BY <2>1, <2>2, <2>3, <2>4 DEF QueueOK
<1>6. ASSUME NEW k \in 1..Len(queue'), queue'[k] \in Reports,
             NEW j \in past'[queue'[k]].ahead
      PROVE  Settled(j, k)'
  <2>1. CASE k \in 1..Len(queue)
    <3>1. queue'[k] = queue[k] /\ queue[k] # r
      BY <1>1, <1>4, <2>1
    <3>2. Settled(j, k)
      BY <1>3, <1>6, <2>1, <3>1 DEF AheadOK
    <3>3. QED
      BY <1>1, <1>3, <2>1, <3>2 DEF Settled
  <2>2. CASE k = Len(queue) + 1
    <3>1. j \in Items /\ state[j] # "unsent"
      BY <1>1, <1>3, <1>6, <2>2
    <3>2. state[j] \in {"queued", "completed", "failed"}
      BY <3>1 DEF TypeOK
    <3>3. CASE state[j] = "queued" /\ j \notin delayed
      <4>1. PICK l \in 1..Len(queue) : queue[l] = j
        BY <3>1, <3>3 DEF QueueOK
      <4>2. l \in 1..(k - 1) /\ queue'[l] = j
        BY <1>1, <2>2, <4>1
      <4>3. QED
        BY <4>2 DEF Settled
    <3>4. CASE j \in delayed
      BY <1>3, <3>4 DEF QueueOK, Settled
    <3>5. QED
      BY <1>3, <3>2, <3>3, <3>4 DEF Settled
  <2>3. QED
    BY <1>1, <2>1, <2>2
<1>7. QED
  BY <1>5, <1>6 DEF AheadOK

LEMMA QueueProcess ==
    ASSUME TypeOK, QueueOK, AheadOK, NEW i \in Items, Process(i)
    PROVE  QueueOK' /\ AheadOK'
<1>1. /\ queue[1] = i /\ Len(queue) \in Nat /\ Len(queue) > 0
      /\ Len(queue') = Len(queue) - 1
      /\ \A k \in 1..Len(queue') : queue'[k] = queue[k + 1]
  BY Shift DEF Process
<1>2. /\ UNCHANGED <<status, past>>
      /\ i \notin Reports
      /\ state \in [Items -> {"unsent", "queued", "completed", "failed"}]
  BY ReportConstants DEF Process, TypeOK
<1>3. \/ /\ state' \in {[state EXCEPT ![i] = "completed"], [state EXCEPT ![i] = "failed"]}
         /\ UNCHANGED <<delayed, retried>>
      \/ /\ delayed' = delayed \cup {i} /\ retried' = retried \cup {i}
         /\ UNCHANGED state
  BY DEF Process
<1>4. state[i] = "queued" /\ i \notin delayed
  BY <1>1 DEF QueueOK
<1>5. \A k \in 1..Len(queue') : queue'[k] # i
  BY <1>1 DEF QueueOK
<1>6. ASSUME NEW j \in Items, j # i
      PROVE  /\ state'[j] = state[j]
             /\ (j \in delayed') = (j \in delayed)
             /\ (j \in retried') = (j \in retried)
  <2>1. state'[j] = state[j]
    BY <1>2, <1>3, <1>6
  <2>2. (j \in delayed') = (j \in delayed) /\ (j \in retried') = (j \in retried)
    BY <1>3, <1>6
  <2>3. QED
    BY <2>1, <2>2
<1>7. QueueOK'
  <2>1. (\A k, l \in 1..Len(queue) : queue[k] = queue[l] => k = l)'
    BY <1>1 DEF QueueOK
  <2>2. ASSUME NEW k \in 1..Len(queue')
        PROVE  /\ queue'[k] \in Items => state'[queue'[k]] = "queued" /\ queue'[k] \notin delayed'
               /\ queue'[k] \in Reports => status'[queue'[k]] = "queued"
    <3>1. k + 1 \in 1..Len(queue) /\ queue'[k] = queue[k + 1] /\ queue'[k] # i
      BY <1>1, <1>5
    <3>2. QED
      BY <1>2, <1>6, <3>1 DEF QueueOK
  <2>3. (\A j \in delayed : state[j] = "queued" /\ j \in retried)'
    BY <1>2, <1>3, <1>4 DEF QueueOK, TypeOK
  <2>4. ASSUME NEW j \in Items, state'[j] = "queued"
        PROVE  j \in delayed' \/ \E k \in 1..Len(queue') : queue'[k] = j
    <3>1. CASE j = i
      BY <1>2, <1>3, <2>4, <3>1
    <3>2. CASE j # i /\ j \notin delayed
      <4>1. PICK k \in 1..Len(queue) : queue[k] = j
        BY <1>6, <2>4, <3>2 DEF QueueOK
      <4>2. k - 1 \in 1..Len(queue') /\ queue'[k - 1] = j
        BY <1>1, <3>2, <4>1
      <4>3. QED
        BY <4>2
    <3>3. QED
      BY <1>6, <3>1, <3>2
  <2>5. QED
    BY <2>1, <2>2, <2>3, <2>4 DEF QueueOK
<1>8. ASSUME NEW k \in 1..Len(queue'), queue'[k] \in Reports,
             NEW j \in past'[queue'[k]].ahead
      PROVE  Settled(j, k)'
  <2>1. k + 1 \in 1..Len(queue) /\ queue'[k] = queue[k + 1]
    BY <1>1
  <2>2. j \in Items /\ Settled(j, k + 1)
    BY <1>2, <1>8, <2>1 DEF AheadOK, TypeOK
  <2>3. CASE j = i
    BY <1>2, <1>3, <2>3 DEF Settled
  <2>4. CASE j # i /\ (state[j] \in {"completed", "failed"} \/ j \in retried)
    BY <1>6, <2>2, <2>4 DEF Settled
  <2>5. CASE j # i /\ \E l \in 1..k : queue[l] = j
    <3>1. PICK l \in 1..k : queue[l] = j
      BY <2>5
    <3>2. l - 1 \in 1..(k - 1) /\ queue'[l - 1] = j
      BY <1>1, <2>5, <3>1
    <3>3. QED
      BY <3>2 DEF Settled
  <2>6. QED
    BY <1>1, <2>2, <2>3, <2>4, <2>5 DEF Settled
<1>9. QED
  BY <1>7, <1>8 DEF AheadOK

LEMMA QueueCountdown ==
    ASSUME TypeOK, QueueOK, AheadOK, NEW i \in Items, CountdownEnds(i)
    PROVE  QueueOK' /\ AheadOK'
<1>1. /\ Len(queue) \in Nat /\ Len(queue') = Len(queue) + 1
      /\ queue'[Len(queue) + 1] = i
      /\ \A k \in 1..Len(queue) : queue'[k] = queue[k]
  BY Last DEF CountdownEnds
<1>2. /\ i \in delayed /\ delayed' = delayed \ {i}
      /\ UNCHANGED <<state, retried, status, past>>
      /\ i \notin Reports
  BY ReportConstants DEF CountdownEnds
<1>3. state[i] = "queued" /\ \A k \in 1..Len(queue) : queue[k] # i
  BY <1>2 DEF QueueOK
<1>4. QueueOK'
  <2>1. (\A k, l \in 1..Len(queue) : queue[k] = queue[l] => k = l)'
    BY <1>1, <1>3 DEF QueueOK
  <2>2. ASSUME NEW k \in 1..Len(queue')
        PROVE  /\ queue'[k] \in Items => state'[queue'[k]] = "queued" /\ queue'[k] \notin delayed'
               /\ queue'[k] \in Reports => status'[queue'[k]] = "queued"
    BY <1>1, <1>2, <1>3 DEF QueueOK
  <2>3. (\A j \in delayed : state[j] = "queued" /\ j \in retried)'
    BY <1>2 DEF QueueOK
  <2>4. ASSUME NEW j \in Items, state'[j] = "queued"
        PROVE  j \in delayed' \/ \E k \in 1..Len(queue') : queue'[k] = j
    <3>1. CASE j = i
      BY <1>1, <3>1
    <3>2. CASE j # i
      BY <1>1, <1>2, <2>4, <3>2 DEF QueueOK
    <3>3. QED
      BY <3>1, <3>2
  <2>5. QED
    BY <2>1, <2>2, <2>3, <2>4 DEF QueueOK
<1>5. ASSUME NEW k \in 1..Len(queue'), queue'[k] \in Reports,
             NEW j \in past'[queue'[k]].ahead
      PROVE  Settled(j, k)'
  <2>1. k \in 1..Len(queue) /\ queue'[k] = queue[k]
    BY <1>1, <1>2, <1>5
  <2>2. Settled(j, k)
    BY <1>2, <1>5, <2>1 DEF AheadOK
  <2>3. QED
    BY <1>1, <1>2, <2>1, <2>2 DEF Settled
<1>6. QED
  BY <1>4, <1>5 DEF AheadOK

LEMMA QueueQuery ==
    ASSUME TypeOK, QueueOK, AheadOK, NEW r \in Reports, Collect(r) \/ QueryFails(r)
    PROVE  QueueOK' /\ AheadOK'
<1>1. /\ queue[1] = r /\ Len(queue) \in Nat /\ Len(queue) > 0
      /\ Len(queue') = Len(queue) - 1
      /\ \A k \in 1..Len(queue') : queue'[k] = queue[k + 1]
  BY Shift DEF Collect, QueryFails
<1>2. UNCHANGED <<delayed, state, retried>> /\ r \notin Items
  BY ReportConstants DEF Collect, QueryFails, items
<1>3. \A q \in Reports : q # r => status'[q] = status[q]
  BY DEF Collect, QueryFails, TypeOK
<1>4. \A q \in Reports : past'[q].ahead = past[q].ahead
  <2>1. past \in [Reports -> [asked : 0..Horizon, ahead : SUBSET Items,
                            known : SUBSET Items]]
    BY DEF TypeOK
  <2>2. past' = past \/ \E S : past' = [past EXCEPT ![r].known = S]
    BY DEF Collect, QueryFails
  <2>3. QED
    BY <2>1, <2>2
<1>5. \A k \in 1..Len(queue') : queue'[k] # r
  BY <1>1 DEF QueueOK
<1>6. QueueOK'
  <2>1. (\A k, l \in 1..Len(queue) : queue[k] = queue[l] => k = l)'
    BY <1>1 DEF QueueOK
  <2>2. ASSUME NEW k \in 1..Len(queue')
        PROVE  /\ queue'[k] \in Items => state'[queue'[k]] = "queued" /\ queue'[k] \notin delayed'
               /\ queue'[k] \in Reports => status'[queue'[k]] = "queued"
    <3>1. k + 1 \in 1..Len(queue) /\ queue'[k] = queue[k + 1] /\ queue'[k] # r
      BY <1>1, <1>5
    <3>2. QED
      BY <1>2, <1>3, <3>1 DEF QueueOK
  <2>3. (\A j \in delayed : state[j] = "queued" /\ j \in retried)'
    BY <1>2 DEF QueueOK
  <2>4. ASSUME NEW j \in Items, state'[j] = "queued", j \notin delayed'
        PROVE  \E k \in 1..Len(queue') : queue'[k] = j
    <3>1. PICK k \in 1..Len(queue) : queue[k] = j
      BY <1>2, <2>4 DEF QueueOK
    <3>2. k - 1 \in 1..Len(queue') /\ queue'[k - 1] = j
      BY <1>1, <1>2, <3>1
    <3>3. QED
      BY <3>2
  <2>5. QED
    BY <2>1, <2>2, <2>3, <2>4 DEF QueueOK
<1>7. ASSUME NEW k \in 1..Len(queue'), queue'[k] \in Reports,
             NEW j \in past'[queue'[k]].ahead
      PROVE  Settled(j, k)'
  <2>1. k + 1 \in 1..Len(queue) /\ queue'[k] = queue[k + 1]
    BY <1>1
  <2>2. j \in Items /\ Settled(j, k + 1)
    BY <1>4, <1>7, <2>1 DEF AheadOK, TypeOK
  <2>3. CASE \E l \in 1..k : queue[l] = j
    <3>1. PICK l \in 1..k : queue[l] = j
      BY <2>3
    <3>2. l - 1 \in 1..(k - 1) /\ queue'[l - 1] = j
      BY <1>1, <1>2, <2>2, <3>1
    <3>3. QED
      BY <3>2 DEF Settled
  <2>4. QED
    BY <1>1, <1>2, <2>2, <2>3 DEF Settled
<1>8. QED
  BY <1>6, <1>7 DEF AheadOK

LEMMA QueueLocal ==
    ASSUME TypeOK, QueueOK, AheadOK, NEW r \in Reports, LocalStep(r)
    PROVE  QueueOK' /\ AheadOK'
<1>1. UNCHANGED <<queue, delayed, state, retried, past>> /\ status[r] \in Running
  BY LocalFacts DEF Rest, items
<1>2. \A q \in Reports : status[q] = "queued" => status'[q] = "queued"
  <2>1. status[r] # "queued"
    BY <1>1 DEF Running, Sending, Preparing, Closing
  <2>2. QED
    BY <2>1, LocalFacts DEF TypeOK
<1>3. QueueOK'
  BY <1>1, <1>2 DEF QueueOK
<1>4. AheadOK'
  BY <1>1 DEF AheadOK, Settled
<1>5. QED
  BY <1>3, <1>4

LEMMA QueueNext == TypeOK /\ QueueOK /\ AheadOK /\ [Next]_vars => QueueOK' /\ AheadOK'
<1> SUFFICES ASSUME TypeOK, QueueOK, AheadOK, [Next]_vars PROVE QueueOK' /\ AheadOK'
  OBVIOUS
<1>1. CASE Tick \/ UNCHANGED vars
  BY <1>1 DEF Tick, vars, items, QueueOK, AheadOK, Settled
<1>2. QED
  BY <1>1, NextCases, QueuePublish, QueueProcess, QueueCountdown, QueueAsk, QueueQuery,
     QueueLocal

-----------------------------------------------------------------------------
(***************************************************************************)
(* What a report carries along.                                            *)
(***************************************************************************)
History == Fresh /\ Dated /\ KnownOK

LEMMA HistoryInit == Init => History
BY DEF Init, History, Fresh, Dated, KnownOK, NoPast, Running, Sending, Preparing, Closing

\* The steps of items: they complete nothing that was complete before.
ItemStep == \E i \in Items : Publish(i) \/ Process(i) \/ CountdownEnds(i)

LEMMA ItemFacts ==
    ASSUME TypeOK, QueueOK, ItemStep
    PROVE  /\ UNCHANGED <<command, status, rows, file, tries, copies, past>>
           /\ \A i \in Items : state[i] = "completed" =>
                  state'[i] = "completed" /\ completed'[i] = completed[i]
           /\ \A i \in Items : state[i] = "failed" => state'[i] = "failed"
           /\ retried \subseteq retried'
<1>1. PICK i \in Items : Publish(i) \/ Process(i) \/ CountdownEnds(i)
  BY DEF ItemStep
<1>2. CASE Publish(i) \/ CountdownEnds(i)
  BY <1>2 DEF Publish, CountdownEnds, command, TypeOK
<1>3. CASE Process(i)
  <2>1. state[i] = "queued"
    BY <1>3, Shift DEF QueueOK, Process
  <2>2. /\ state' = state \/ \E x : state' = [state EXCEPT ![i] = x]
        /\ completed' = completed \/ \E x : completed' = [completed EXCEPT ![i] = x]
        /\ retried \subseteq retried'
        /\ UNCHANGED <<chat, args, status, rows, file, tries, copies, past>>
    BY <1>3 DEF Process, command
  <2>3. QED
    BY <2>1, <2>2 DEF TypeOK, command
<1>4. QED
  BY <1>1, <1>2, <1>3

\* The query of report r, when its turn has come.
LEMMA CollectFacts ==
    ASSUME TypeOK, QueueOK, NEW r \in Reports, Collect(r) \/ QueryFails(r)
    PROVE  /\ UNCHANGED <<now, items, command, file, tries, copies>>
           /\ status[r] = "queued"
           /\ \A q \in Reports : q # r => /\ status'[q] = status[q] /\ rows'[q] = rows[q]
                                         /\ past'[q] = past[q]
           /\ past'[r].asked = past[r].asked /\ past'[r].ahead = past[r].ahead
           /\ Collect(r) => /\ status'[r] \in {"collected", "nothing"}
                            /\ rows'[r] = Selected(args[r])
                            /\ past'[r].known = {i \in Items : state[i] = "completed"}
           /\ QueryFails(r) => /\ status'[r] = "failed" /\ rows'[r] = rows[r]
                               /\ past'[r] = past[r]
<1>1. status[r] = "queued"
  BY Shift DEF QueueOK, Collect, QueryFails
<1>2. /\ past \in [Reports -> [asked : 0..Horizon, ahead : SUBSET Items,
                              known : SUBSET Items]]
      /\ rows \in [Reports -> SUBSET Items]
      /\ status \in [Reports -> {"unasked", "queued"} \cup Running \cup Ended]
  BY DEF TypeOK
<1>3. CASE Collect(r)
  <2>1. /\ rows' = [rows EXCEPT ![r] = Selected(args[r])]
        /\ past' = [past EXCEPT ![r].known = {i \in Items : state[i] = "completed"}]
        /\ status' = [status EXCEPT ![r] = IF rows'[r] = {} THEN "nothing" ELSE "collected"]
        /\ UNCHANGED <<now, items, command, file, tries, copies>>
        /\ ~QueryFails(r)
    <3>1. ~QueryFails(r)
      <4>1. ASSUME QueryFails(r) PROVE FALSE
        <5>1. status'[r] = "failed"
          BY <1>2, <4>1 DEF QueryFails
        <5>2. status'[r] \in {"nothing", "collected"}
          BY <1>2, <1>3 DEF Collect
        <5>3. QED
          BY <5>1, <5>2
      <4>2. QED
        BY <4>1
    <3>2. QED
      BY <1>3, <3>1 DEF Collect
  <2>2. QED
    BY <1>1, <1>2, <2>1
<1>4. CASE QueryFails(r)
  <2>1. ~Collect(r)
    <3>1. ASSUME Collect(r) PROVE FALSE
      <4>1. status'[r] = "failed"
        BY <1>2, <1>4 DEF QueryFails
      <4>2. status'[r] \in {"nothing", "collected"}
        BY <1>2, <3>1 DEF Collect
      <4>3. QED
        BY <4>1, <4>2
    <3>2. QED
      BY <3>1
  <2>2. /\ status' = [status EXCEPT ![r] = "failed"]
        /\ UNCHANGED <<now, items, command, rows, file, tries, copies, past>>
    BY <1>4 DEF QueryFails
  <2>3. QED
    BY <1>1, <1>2, <2>1, <2>2
<1>5. QED
  BY <1>3, <1>4

\* A later step of report r: a copy arrives only with the answer to send_file, and
\* the file is gone at the end unless that is one of those in Left.
LEMMA LocalEffects ==
    ASSUME TypeOK, NEW r \in Reports, LocalStep(r)
    PROVE  /\ \A q \in Reports : q # r => /\ status'[q] = status[q] /\ file'[q] = file[q]
                                         /\ copies'[q] = copies[q]
           /\ status'[r] \in (Running \ {"collected"}) \cup (Ended \ {"nothing"})
           /\ \/ /\ copies'[r] = copies[r]
                 /\ status'[r] \in {"posted", "sent"} => status[r] = "posted"
              \/ /\ copies'[r] = Append(copies[r], Addressee(chat[r]))
                 /\ status[r] \in Sending /\ status'[r] \in Closing
           /\ status[r] \in Closing => status'[r] \in Ended
           /\ status'[r] \in {"sent", "failed"} => file'[r] = "none"
<1>1. /\ status \in [Reports -> {"unasked", "queued"} \cup Running \cup Ended]
      /\ file \in [Reports -> {"none", "torn", "whole"}]
      /\ DOMAIN copies = Reports
  BY DEF TypeOK
<1>2. CASE Write(r)
  BY <1>1, <1>2 DEF Write, Running, Sending, Preparing, Closing, Ended, Left
<1>3. CASE Deliver(r)
  BY <1>1, <1>3 DEF Deliver, Running, Sending, Preparing, Closing, Ended, Left
<1>4. CASE Prepare(r)
  BY <1>1, <1>4 DEF Prepare, Running, Sending, Preparing, Closing, Ended, Left
<1>5. CASE Post(r) \/ AnswerLost(r)
  BY <1>1, <1>5 DEF Post, AnswerLost, Arrives, Answered, CanPost,
                    Running, Sending, Preparing, Closing
<1>6. CASE NotReady(r)
  BY <1>1, <1>6 DEF NotReady, CanPost, Answered, Running, Sending, Preparing, Closing, Ended, Left
<1>7. CASE CallFails(r)
  BY <1>1, <1>7 DEF CallFails, Answered, Running, Sending, Preparing, Closing
<1>8. CASE SoftLimit(r)
  BY <1>1, <1>8 DEF SoftLimit, Answered, Running, Sending, Preparing, Closing, Ended, Left
<1>9. CASE Kill(r)
  BY <1>1, <1>9 DEF Kill, Ended, Left
<1>10. CASE Close(r)
  BY <1>1, <1>10 DEF Close, Closed, Closing, Ended, Left
<1>11. QED
  BY <1>2, <1>3, <1>4, <1>5, <1>6, <1>7, <1>8, <1>9, <1>10 DEF LocalStep

LEMMA HistoryAsk ==
    ASSUME TypeOK, History, NEW r \in Reports, NEW c \in Commands, Ask(r, c)
    PROVE  History'
<1>1. /\ UNCHANGED <<state, rows, copies, file>>
      /\ status[r] = "unasked" /\ status'[r] = "queued"
      /\ \A q \in Reports : q # r => /\ status'[q] = status[q] /\ args'[q] = args[q]
                                    /\ past'[q] = past[q]
      /\ args'[r] = Args(c)
      /\ past'[r].asked = now /\ past'[r].known = {}
  BY DEF Ask, Asked, TypeOK, items
<1>2. Fresh'
  BY <1>1 DEF History, Fresh
<1>3. Dated'
  BY <1>1, PeriodIsClamped DEF History, Dated, Args
<1>4. KnownOK'
  BY <1>1 DEF History, KnownOK
<1>5. QED
  BY <1>2, <1>3, <1>4 DEF History

LEMMA HistoryQuery ==
    ASSUME TypeOK, QueueOK, History, NEW r \in Reports, Collect(r) \/ QueryFails(r)
    PROVE  History'
<1>1. /\ UNCHANGED <<state, args, file, copies>>
      /\ status[r] = "queued" /\ status'[r] \in {"collected", "nothing", "failed"}
      /\ \A q \in Reports : q # r => /\ status'[q] = status[q] /\ rows'[q] = rows[q]
                                    /\ past'[q] = past[q]
      /\ past'[r].asked = past[r].asked
      /\ \/ past'[r].known = {i \in Items : state[i] = "completed"}
         \/ past'[r].known = past[r].known
  BY CollectFacts DEF items, command
<1>2. Fresh'
  BY <1>1 DEF History, Fresh, Running, Sending, Preparing, Closing
<1>3. Dated'
  BY <1>1 DEF History, Dated
<1>4. KnownOK'
  BY <1>1 DEF History, KnownOK
<1>5. QED
  BY <1>2, <1>3, <1>4 DEF History

LEMMA HistoryLocal ==
    ASSUME TypeOK, History, NEW r \in Reports, LocalStep(r)
    PROVE  History'
<1>1. UNCHANGED <<state, rows, args, past>> /\ status[r] \in Running
  BY LocalFacts DEF Rest, items, command
<1>2. status[r] # "unasked"
  BY <1>1 DEF Running, Sending, Preparing, Closing
<1>3. Fresh'
  <2>1. ASSUME NEW q \in Reports, q # r
        PROVE  status'[q] = status[q] /\ file'[q] = file[q] /\ copies'[q] = copies[q]
    BY <2>1, LocalEffects
  <2>2. status'[r] \in Running \ Closing => copies'[r] = <<>>
    BY <1>1, LocalEffects DEF Ended, Left, History, Fresh, Running, Sending, Preparing, Closing
  <2>3. status'[r] \notin {"unasked", "queued", "collected"}
    BY LocalEffects DEF Running, Sending, Preparing, Closing, Ended, Left
  <2>4. QED
    BY <1>1, <2>1, <2>2, <2>3 DEF History, Fresh
<1>4. Dated'
  BY <1>1, <1>2, LocalEffects DEF History, Dated
<1>5. KnownOK'
  BY <1>1 DEF History, KnownOK
<1>6. QED
  BY <1>3, <1>4, <1>5 DEF History

LEMMA HistoryNext == TypeOK /\ QueueOK /\ History /\ [Next]_vars => History'
<1> SUFFICES ASSUME TypeOK, QueueOK, History, [Next]_vars PROVE History'
  OBVIOUS
<1>1. CASE Tick \/ UNCHANGED vars
  BY <1>1 DEF Tick, vars, items, command, History, Fresh, Dated, KnownOK
<1>2. CASE ItemStep
  <2>1. /\ UNCHANGED <<args, status, rows, file, copies, past>>
        /\ \A i \in Items : state[i] = "completed" => state'[i] = "completed"
    BY <1>2, ItemFacts DEF command
  <2>2. \A r \in Reports : past[r].known \subseteq Items
    BY DEF TypeOK
  <2>3. QED
    BY <2>1, <2>2 DEF History, Fresh, Dated, KnownOK
<1>3. QED
  BY <1>1, <1>2, NextCases, HistoryAsk, HistoryQuery, HistoryLocal DEF ItemStep

Strong == TypeOK /\ QueueOK /\ AheadOK /\ History

LEMMA StrongInvariant == Spec => []Strong
<1>1. Init => Strong
  BY TypeInit, QueueInit, HistoryInit DEF Strong
<1>2. Strong /\ [Next]_vars => Strong'
  BY TypeNext, QueueNext, HistoryNext DEF Strong
<1>3. QED
  BY <1>1, <1>2, PTL DEF Spec

-----------------------------------------------------------------------------
(***************************************************************************)
(* Whoever asks for n days gets everything completed in the n times 24     *)
(* hours before, and nothing much older, later or foreign: the query takes *)
(* what DatesCoverPeriod says, and what it took does not change.           *)
(***************************************************************************)
Collected == Running \cup {"sent", "nothing", "unaddressed"}

Covers(r) ==
    /\ rows[r] \subseteq Own(past[r].known)
    /\ \A i \in rows[r] :
           /\ past[r].asked - completed[i] < Hours(r) + Day
           /\ Date(completed[i]) <= Date(past[r].asked)
    /\ status[r] \in Collected =>
           \A i \in Own(past[r].known) :
               completed[i] >= past[r].asked - Hours(r)
                   /\ Date(completed[i]) <= Date(past[r].asked) => i \in rows[r]

\* What the query of report r selects.
LEMMA QueryCovers ==
    ASSUME Strong, NEW r \in Reports, status[r] # "unasked", NEW i \in Items,
           state[i] = "completed"
    PROVE  /\ i \in Own(Items) /\ completed[i] >= past[r].asked - Hours(r)
                  /\ Date(completed[i]) <= Date(past[r].asked) => i \in Selected(args[r])
           /\ i \in Selected(args[r]) =>
                  /\ i \notin OtherItems
                  /\ past[r].asked - completed[i] < Hours(r) + Day
                  /\ Date(completed[i]) <= Date(past[r].asked)
<1>1. /\ args[r].days \in Nat
      /\ args[r].from = Date(past[r].asked - args[r].days * Day)
      /\ args[r].to = Date(past[r].asked)
  BY DEF Strong, History, Dated
<1>2. past[r].asked \in Int /\ completed[i] \in Int
  BY ReportConstants DEF Strong, TypeOK, Never
<1>3. /\ completed[i] >= past[r].asked - args[r].days * Day
             /\ Date(completed[i]) <= Date(past[r].asked)
          => completed[i] \in Start(args[r])..(End(args[r]) - 1)
      /\ completed[i] \in Start(args[r])..(End(args[r]) - 1)
          => /\ past[r].asked - completed[i] < args[r].days * Day + Day
             /\ Date(completed[i]) <= Date(past[r].asked)
  BY <1>1, <1>2, DatesCoverPeriod
<1>4. QED
  BY <1>3 DEF Selected, Own, Hours

LEMMA CoversSame ==
    ASSUME NEW r \in Reports, Covers(r), Strong,
           UNCHANGED <<args[r], rows[r], past[r]>>,
           \A i \in past[r].known : completed'[i] = completed[i],
           status'[r] \in Collected => status[r] \in Collected
    PROVE  Covers(r)'
BY DEF Covers, Hours, Own

AllCovered == \A r \in Reports : Covers(r)

LEMMA CoversNext == Strong /\ AllCovered /\ [Next]_vars => AllCovered'
<1> SUFFICES ASSUME Strong, \A r \in Reports : Covers(r), [Next]_vars, NEW r \in Reports
             PROVE  Covers(r)'
  BY DEF AllCovered
<1>0. TypeOK /\ QueueOK /\ History
  BY DEF Strong
<1>1. CASE Tick \/ UNCHANGED vars
  BY <1>1, CoversSame DEF Tick, vars, items, command
<1>2. CASE ItemStep
  <2>1. \A i \in past[r].known : i \in Items /\ state[i] = "completed"
    BY <1>0 DEF TypeOK, History, KnownOK
  <2>2. QED
    BY <1>0, <1>2, <2>1, ItemFacts, CoversSame DEF command
<1>3. ASSUME NEW q \in Reports, NEW c \in Commands, Ask(q, c)
      PROVE  Covers(r)'
  <2>1. UNCHANGED <<completed, rows>>
    BY <1>3 DEF Ask, Asked, items
  <2>2. CASE q = r
    <3>1. rows[r] = {} /\ past'[r].known = {}
      BY <1>0, <1>3, <2>2 DEF Ask, Asked, TypeOK, History, Fresh
    <3>2. QED
      BY <2>1, <3>1 DEF Covers, Own
  <2>3. CASE q # r
    <3>1. UNCHANGED <<args[r], past[r], status[r]>>
      BY <1>0, <1>3, <2>3 DEF Ask, Asked, TypeOK
    <3>2. QED
      BY <2>1, <3>1, CoversSame
  <2>4. QED
    BY <2>2, <2>3
<1>4. ASSUME NEW q \in Reports, Collect(q) \/ QueryFails(q)
      PROVE  Covers(r)'
  <2>1. UNCHANGED <<completed, args>>
    BY <1>0, <1>4, CollectFacts DEF items, command
  <2>2. CASE q # r
    BY <1>0, <1>4, <2>1, <2>2, CollectFacts, CoversSame
  <2>3. CASE q = r /\ Collect(r)
    <3>1. /\ rows'[r] = Selected(args[r]) /\ past'[r].asked = past[r].asked
          /\ past'[r].known = {i \in Items : state[i] = "completed"}
          /\ status[r] # "unasked"
      BY <1>0, <2>3, CollectFacts
    <3>2. QED
      BY <2>1, <3>1, QueryCovers DEF Covers, Own, Hours, Selected
  <2>4. CASE q = r /\ QueryFails(r)
    BY <1>0, <2>1, <2>4, CollectFacts, CoversSame
       DEF Collected, Running, Sending, Preparing, Closing
  <2>5. QED
    BY <1>4, <2>2, <2>3, <2>4
<1>5. ASSUME NEW q \in Reports, LocalStep(q)
      PROVE  Covers(r)'
  <2>1. UNCHANGED <<completed, args, rows, past>> /\ status[q] \in Running
    BY <1>5, LocalFacts DEF Rest, items, command
  <2>2. status'[r] \in Collected => status[r] \in Collected
    BY <1>0, <1>5, <2>1, LocalEffects DEF Collected
  <2>3. QED
    BY <2>1, <2>2, CoversSame
<1>6. QED
  BY <1>1, <1>2, <1>3, <1>4, <1>5, NextCases DEF ItemStep

\* A report has everything completed in the period asked for, and nothing older.
THEOREM PeriodIsCovered == Spec => []CoversThePeriod
<1>1. Init => AllCovered
  BY DEF Init, AllCovered, Covers, NoPast, Own
<1>2. AllCovered => CoversThePeriod
  BY DEF AllCovered, Covers, CoversThePeriod, Collected
<1>3. QED
  BY <1>1, <1>2, CoversNext, StrongInvariant, PTL DEF Spec

-----------------------------------------------------------------------------
(***************************************************************************)
(* What was sent before /report is in the report, but for the exceptions   *)
(* SentBeforeIsReported names: when the query runs nothing is before it in *)
(* the queue (AheadOK), so that every such item has ended or was retried.  *)
(***************************************************************************)
Missing(r, i) ==
    \/ i \in rows[r]
    \/ state[i] = "failed" \/ i \in retried
    \/ /\ state[i] = "completed"
       /\ \/ Date(completed[i]) > Date(past[r].asked)
          \/ completed[i] < past[r].asked - Hours(r)

Accounted == \A r \in Reports : status[r] \in Collected =>
                 \A i \in Own(past[r].ahead) : Missing(r, i)

LEMMA MissingSame ==
    ASSUME NEW r \in Reports, NEW i \in Items, Missing(r, i), Strong,
           UNCHANGED <<args[r], rows[r], past[r]>>,
           state[i] = "completed" => state'[i] = "completed" /\ completed'[i] = completed[i],
           state[i] = "failed" => state'[i] = "failed",
           retried \subseteq retried'
    PROVE  Missing(r, i)'
BY DEF Missing, Hours

LEMMA AccountedNext == Strong /\ Accounted /\ [Next]_vars => Accounted'
<1> SUFFICES ASSUME Strong, Accounted, [Next]_vars, NEW r \in Reports,
                    status'[r] \in Collected, NEW i \in Own(past'[r].ahead)
             PROVE  Missing(r, i)'
  BY DEF Accounted, Own
<1>0. TypeOK /\ QueueOK /\ AheadOK /\ History
  BY DEF Strong
<1>1. CASE Tick \/ UNCHANGED vars
  <2>1. UNCHANGED <<args, rows, past, state, completed, retried, status>>
    BY <1>1 DEF Tick, vars, items, command
  <2>2. QED
    BY <1>0, <2>1, MissingSame DEF Accounted, Own, TypeOK
<1>2. CASE ItemStep
  <2>1. UNCHANGED <<args, rows, past, status>>
    BY <1>0, <1>2, ItemFacts DEF command
  <2>2. i \in Items /\ Missing(r, i)
    BY <1>0, <2>1 DEF Accounted, Own, TypeOK
  <2>3. QED
    BY <1>0, <1>2, <2>1, <2>2, ItemFacts, MissingSame
<1>3. ASSUME NEW q \in Reports, NEW c \in Commands, Ask(q, c)
      PROVE  Missing(r, i)'
  <2>1. q # r
    BY <1>0, <1>3 DEF Ask, Asked, TypeOK, Collected, Running, Sending, Preparing, Closing
  <2>2. UNCHANGED <<args[r], rows, past[r], status[r], state, completed, retried>>
    BY <1>0, <1>3, <2>1 DEF Ask, Asked, TypeOK, items
  <2>3. QED
    BY <1>0, <2>2, MissingSame DEF Accounted, Own, TypeOK
<1>4. ASSUME NEW q \in Reports, Collect(q) \/ QueryFails(q)
      PROVE  Missing(r, i)'
  <2>1. UNCHANGED <<args, state, completed, retried>>
    BY <1>0, <1>4, CollectFacts DEF items, command
  <2>2. CASE q # r
    BY <1>0, <1>4, <2>1, <2>2, CollectFacts, MissingSame DEF Accounted, Own, TypeOK
  <2>3. CASE q = r
    <3>1. Collect(r)
      BY <1>0, <1>4, <2>3, CollectFacts DEF Collected, Running, Sending, Preparing, Closing
    <3>2. /\ rows'[r] = Selected(args[r]) /\ past'[r].asked = past[r].asked
          /\ past'[r].ahead = past[r].ahead /\ status[r] # "unasked"
      BY <1>0, <3>1, CollectFacts
    <3>3. i \in Items /\ i \in Own(Items)
      BY <1>0, <3>2 DEF Own, TypeOK
    <3>4. 1 \in 1..Len(queue) /\ queue[1] = r
      BY <1>0, <3>1, Shift DEF Collect
    <3>5. Settled(i, 1)
      BY <1>0, <3>2, <3>4 DEF AheadOK, Own
    <3>6. state[i] \in {"completed", "failed"} \/ i \in retried
      BY <3>5 DEF Settled
    <3>7. CASE state[i] = "completed"
      <4>1. past[r].asked \in Int /\ completed[i] \in Int /\ Hours(r) \in Int
        <5>1. past[r].asked \in Int /\ completed[i] \in Int
          BY <1>0, <3>3, ReportConstants DEF TypeOK, Never
        <5>2. args[r].days \in 1..365
          BY <1>0, <3>2 DEF History, Dated
        <5>3. QED
          BY <5>1, <5>2 DEF Hours, Day
      <4>2. Date(completed[i]) \in Int /\ Date(past[r].asked) \in Int
        BY <4>1, DateBounds
      <4>3. i \in Selected(args[r]) \/ Date(completed[i]) > Date(past[r].asked)
                \/ completed[i] < past[r].asked - Hours(r)
        BY <3>2, <3>3, <3>7, <4>1, <4>2, QueryCovers
      <4>4. QED
        BY <2>1, <3>2, <3>7, <4>3 DEF Missing, Hours
    <3>8. QED
      BY <2>1, <3>6, <3>7 DEF Missing
  <2>4. QED
    BY <2>2, <2>3
<1>5. ASSUME NEW q \in Reports, LocalStep(q)
      PROVE  Missing(r, i)'
  <2>1. UNCHANGED <<args, rows, past, state, completed, retried>> /\ status[q] \in Running
    BY <1>5, LocalFacts DEF Rest, items, command
  <2>2. status[r] \in Collected
    BY <1>0, <1>5, <2>1, LocalEffects DEF Collected
  <2>3. QED
    BY <1>0, <2>1, <2>2, MissingSame DEF Accounted, Own, TypeOK
<1>6. QED
  BY <1>1, <1>2, <1>3, <1>4, <1>5, NextCases DEF ItemStep

\* What was sent before a report is in it, but for the exceptions the property names.
THEOREM SentBeforeReported == Spec => []SentBeforeIsReported
<1>1. Init => Accounted
  BY DEF Init, Accounted, Collected, Running, Sending, Preparing, Closing
<1>2. Accounted => SentBeforeIsReported
  BY DEF Accounted, Missing, SentBeforeIsReported, Collected
<1>3. QED
  BY <1>1, <1>2, AccountedNext, StrongInvariant, PTL DEF Spec

-----------------------------------------------------------------------------
(***************************************************************************)
(* The delivery: one copy at most, where it was asked for, and no file     *)
(* left.  A task whose send_file has not ended has sent nothing (Fresh),   *)
(* and the end of that sends at most one copy.                             *)
(***************************************************************************)
LEMMA DeliveryNext == Strong /\ ArrivesOnce /\ NoReportLeft /\ [Next]_vars
                          => ArrivesOnce' /\ NoReportLeft'
<1> SUFFICES ASSUME Strong, ArrivesOnce, NoReportLeft, [Next]_vars
             PROVE  ArrivesOnce' /\ NoReportLeft'
  OBVIOUS
<1>0. TypeOK /\ QueueOK /\ History
  BY DEF Strong
<1>1. CASE Tick \/ UNCHANGED vars
  BY <1>1 DEF Tick, vars, items, command, ArrivesOnce, NoReportLeft
<1>2. CASE ItemStep
  BY <1>0, <1>2, ItemFacts DEF command, ArrivesOnce, NoReportLeft
<1>3. ASSUME NEW q \in Reports, NEW c \in Commands, Ask(q, c)
      PROVE  ArrivesOnce' /\ NoReportLeft'
  <2>1. UNCHANGED <<chat, copies, file>> /\ status'[q] = "queued"
        /\ \A r \in Reports : r # q => status'[r] = status[r]
    BY <1>0, <1>3 DEF Ask, Asked, TypeOK, items
  <2>2. QED
    BY <2>1 DEF ArrivesOnce, NoReportLeft, Ended, Left
<1>4. ASSUME NEW q \in Reports, Collect(q) \/ QueryFails(q)
      PROVE  ArrivesOnce' /\ NoReportLeft'
  <2>1. /\ UNCHANGED <<chat, copies, file>> /\ status[q] = "queued"
        /\ status'[q] \in {"collected", "nothing", "failed"}
        /\ \A r \in Reports : r # q => status'[r] = status[r]
    BY <1>0, <1>4, CollectFacts DEF command
  <2>2. file[q] = "none"
    BY <1>0, <2>1 DEF History, Fresh
  <2>3. QED
    BY <2>1, <2>2 DEF ArrivesOnce, NoReportLeft
<1>5. ASSUME NEW q \in Reports, LocalStep(q)
      PROVE  ArrivesOnce' /\ NoReportLeft'
  <2>1. /\ UNCHANGED chat /\ status[q] \in Running
        /\ status[q] \notin Closing => copies[q] = <<>>
    BY <1>0, <1>5, LocalFacts DEF Rest, command, History, Fresh
  <2>2. \/ /\ copies'[q] = copies[q]
           /\ status'[q] \in {"posted", "sent"} => status[q] = "posted"
        \/ copies'[q] = <<Addressee(chat[q])>>
    <3>1. CASE copies'[q] = copies[q] /\ (status'[q] \in {"posted", "sent"} => status[q] = "posted")
      BY <3>1
    <3>2. CASE copies'[q] = Append(copies[q], Addressee(chat[q])) /\ status[q] \in Sending
      <4>1. Append(<<>>, Addressee(chat[q])) = <<Addressee(chat[q])>>
        <5>1. Addressee(chat[q]) \in {"asker", "stranger"} /\ <<>> \in Seq({"asker", "stranger"})
          BY DEF Addressee
        <5>2. QED
          BY <5>1
      <4>2. copies[q] = <<>>
        BY <2>1, <3>2 DEF Sending, Preparing, Closing
      <4>3. QED
        BY <3>2, <4>1, <4>2
    <3>3. QED
      BY <1>0, <1>5, <3>1, <3>2, LocalEffects
  <2>3. Addressee(chat[q]) = "asker"
            \/ chat[q] \in {Chat("MX", "user", TRUE), Chat("MX", "group", FALSE)}
    <3>1. chat[q] \in Chats
      BY <1>0 DEF TypeOK
    <3>2. QED
      BY <3>1 DEF Addressee, Misaddressed, Chats, Chat, Nameless
  <2>4. \A r \in Reports : r # q =>
            status'[r] = status[r] /\ file'[r] = file[r] /\ copies'[r] = copies[r]
    BY <1>0, <1>5, LocalEffects
  <2>5. ArrivesOnce'
    <3>1. Len(copies'[q]) <= 1
      <4>1. Len(copies[q]) <= 1
        BY Zenon DEF ArrivesOnce
      <4>2. Len(<<Addressee(chat[q])>>) <= 1
        OBVIOUS
      <4>3. QED
        BY <2>2, <4>1, <4>2, Zenon
    <3>2. status'[q] \in {"posted", "sent"} => copies'[q] = <<"asker">>
              \/ chat[q] \in {Chat("MX", "user", TRUE), Chat("MX", "group", FALSE)}
      BY <2>2, <2>3 DEF ArrivesOnce
    <3>3. QED
      BY <2>1, <2>4, <3>1, <3>2 DEF ArrivesOnce
  <2>6. NoReportLeft'
    <3>1. status'[q] \in Ended \ Left => file'[q] = "none"
      <4>1. status'[q] \notin {"collected", "nothing"}
        BY <1>0, <1>5, LocalEffects DEF Running, Sending, Preparing, Closing, Ended, Left
      <4>2. status'[q] \in {"sent", "failed"} => file'[q] = "none"
        BY <1>0, <1>5, LocalEffects
      <4>3. QED
        BY <4>1, <4>2 DEF Ended
    <3>2. QED
      BY <2>4, <3>1 DEF NoReportLeft
  <2>7. QED
    BY <2>5, <2>6
<1>6. QED
  BY <1>1, <1>2, <1>3, <1>4, <1>5, NextCases DEF ItemStep

LEMMA DeliveryInit == Init => ArrivesOnce /\ NoReportLeft
BY DEF Init, ArrivesOnce, NoReportLeft, Ended, Left

\* A report arrives at most once, and where it was asked for.
THEOREM ReportArrivesOnce == Spec => []ArrivesOnce
BY DeliveryInit, DeliveryNext, StrongInvariant, PTL DEF Spec

\* Its file is gone when its task ends.
THEOREM ReportIsRemoved == Spec => []NoReportLeft
BY DeliveryInit, DeliveryNext, StrongInvariant, PTL DEF Spec
=============================================================================
