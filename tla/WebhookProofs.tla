----------------------------- MODULE WebhookProofs -----------------------------
(***************************************************************************)
(* For any updates, any number of deliveries of each and every fault: the  *)
(* types of Webhook, that an update is acted on twice only after trouble,  *)
(* and that an item answered 200 is accounted for.  What the session does  *)
(* is taken from SessionProofs: the deliveries are its requests.           *)
(***************************************************************************)
EXTENDS Webhook, SequenceTheorems, TLAPS

Proven == INSTANCE SessionProofs
    WITH NewRequests     <- DeliveriesOf(NewUpdates),
         CompileRequests <- DeliveriesOf(CompileUpdates),
         CommandRequests <- DeliveriesOf(CommandUpdates),
         MessageRequests <- DeliveriesOf(MessageUpdates)

Compiles == DeliveriesOf(CompileUpdates)
Logged   == {log[i] : i \in DOMAIN log}

(***************************************************************************)
(* The invariant.  Who is still served heard nothing, or stopped waiting.  *)
(***************************************************************************)
Hearing ==
    \A d \in Deliveries :
        /\ at[d] \in Going => heard[d] \in {"nothing", "gone"}
        /\ heard[d] = "gone" => d \in trouble

\* A delivery is of this bot, and all earlier ones of its update went wrong.
InOrder ==
    \A d \in Deliveries : at[d] # "unsent" =>
        /\ d[1] \in UpdatesOf(module)
        /\ \A k \in 1..(d[2] - 1) : heard[<<d[1], k>>] \in {"error", "gone"}

\* A delivery that made its change is past the points where an error is answered.
Settled ==
    /\ \A d \in Deliveries \cap Logged : at[d] \in {"dispatch", "count", "reply", "over"}
    /\ \A d \in Session!Elems(published) : at[d] \in {"reply", "over"}
    /\ \A d \in Changed \ trouble : heard[d] # "error"

\* A /compile that drained the session goes on to the broker, or came to harm.
Draining ==
    \A c \in Compiles :
        /\ snapshot[c] # <<>> => pc[c] \in {"enqueue", "processing", "unavailable"}
        /\ pc[c] = "enqueue" => at[c] = "dispatch" \/ c \in trouble

Inv ==
    /\ TypeOK
    /\ Hearing /\ InOrder /\ Settled /\ Draining
    /\ Proven!TypeInv /\ Proven!LogInv /\ Proven!Ledger

-----------------------------------------------------------------------------
(***************************************************************************)
(* Deliveries, and the session they are requests of.                       *)
(***************************************************************************)
LEMMA DeliveryIsPair ==
    ASSUME NEW d \in Deliveries
    PROVE  /\ d[1] \in Updates /\ d[2] \in 1..Attempts /\ d = <<d[1], d[2]>>
           /\ \A k \in 1..Attempts : <<d[1], k>> \in Deliveries
BY DEF Deliveries, DeliveriesOf

LEMMA Kinds ==
    /\ Session!Requests \subseteq Deliveries
    /\ Proven!Requests = Session!Requests
    /\ Compiles \subseteq Session!Requests
    /\ \A d \in Session!Requests : d[1] \in EstimatorUpdates
BY DEF Session!Requests, Proven!Requests, Compiles, Deliveries, DeliveriesOf, Updates,
       EstimatorUpdates

LEMMA SessionAssumptions == Proven!SessionTTLPositive /\ Proven!RequestKindsDisjoint
<1>1. Expiry \notin Proven!Requests
  BY SessionConstants, Kinds
<1>2. QED
  BY <1>1, SessionConstants
     DEF Proven!SessionTTLPositive, Proven!RequestKindsDisjoint, DeliveriesOf

LEMMA SameTypes == Session!TypeOK <=> Proven!TypeOK
BY DEF Session!TypeOK, Proven!TypeOK, Session!Requests, Proven!Requests,
       Session!Waiting, Proven!Waiting, Session!Aborted, Proven!Aborted,
       Session!InFlight, Proven!InFlight, Session!Replied, Proven!Replied

\* A step of the session here is one there.
LEMMA SessionSteps ==
    ASSUME NEW d \in Session!Requests,
           \/ Session!Receive(d) \/ Session!HandleNew(d) \/ Session!Accumulate(d)
           \/ Session!CompileCheck(d) \/ Session!CompileTake(d) \/ Session!Enqueue(d)
           \/ Session!BrokerUnavailable(d) \/ Session!Abort(d)
    PROVE  Proven!Next
<1>1. d \in Proven!Requests
  BY Kinds
<1>2. CASE Session!Receive(d)
  BY <1>1, <1>2
     DEF Proven!Next, Session!Receive, Proven!Receive, Session!Transition, Proven!Transition,
         Session!FirstStep, Proven!FirstStep, Session!Waiting, Proven!Waiting,
         Session!redisVars, Proven!redisVars
<1>3. CASE Session!HandleNew(d) \/ Session!Accumulate(d) \/ Session!CompileTake(d)
  BY <1>1, <1>3
     DEF Proven!Next, Session!HandleNew, Proven!HandleNew, Session!Accumulate, Proven!Accumulate,
         Session!CompileTake, Proven!CompileTake, Session!Transition, Proven!Transition
<1>4. CASE Session!CompileCheck(d) \/ Session!Enqueue(d) \/ Session!BrokerUnavailable(d)
  BY <1>1, <1>4
     DEF Proven!Next, Session!CompileCheck, Proven!CompileCheck, Session!Enqueue, Proven!Enqueue,
         Session!BrokerUnavailable, Proven!BrokerUnavailable, Session!Transition,
         Proven!Transition, Session!redisVars, Proven!redisVars
<1>5. CASE Session!Abort(d)
  BY <1>1, <1>5
     DEF Proven!Next, Session!Abort, Proven!Abort, Session!InFlight, Proven!InFlight,
         Session!Aborted, Proven!Aborted, Session!redisVars, Proven!redisVars
<1>6. QED
  BY <1>2, <1>3, <1>4, <1>5

LEMMA TickIsTick == Session!Tick => Proven!Next
BY DEF Session!Tick, Proven!Next, Proven!Tick, Session!Older, Proven!Older

\* What SessionProofs says of any step of the session.
LEMMA SessionKeeps ==
    ASSUME Inv, [Proven!Next]_Proven!vars
    PROVE  Session!TypeOK' /\ Proven!TypeInv' /\ Proven!LogInv' /\ Proven!Ledger'
<1>1. Proven!TypeInv' /\ Proven!LogInv' /\ Proven!Ledger'
  BY SessionAssumptions, Proven!TypeNext, Proven!LogNext, Proven!LedgerNext DEF Inv
<1>2. Proven!TypeOK'
  BY <1>1 DEF Proven!TypeInv
<1>3. Session!TypeOK'
  BY <1>2
     DEF Session!TypeOK, Proven!TypeOK, Session!Requests, Proven!Requests,
         Session!Waiting, Proven!Waiting, Session!Aborted, Proven!Aborted,
         Session!InFlight, Proven!InFlight, Session!Replied, Proven!Replied
<1>4. QED
  BY <1>1, <1>3

-----------------------------------------------------------------------------
(***************************************************************************)
(* Every step but the clock's is of one delivery, which goes to a place    *)
(* and has then heard v.                                                   *)
(***************************************************************************)
Turn(d, to, v) ==
    /\ at' = [at EXCEPT ![d] = to]
    /\ heard' = [heard EXCEPT ![d] = v]
    /\ \/ to \in Going /\ v \in {"nothing", "gone"}
       \/ to = "over" /\ v \in {"ok", "error", "gone"}
    /\ heard[d] # "nothing" => v = heard[d]
    /\ at[d] = "unsent" => Due(d)
    /\ at[d] # "over"
    /\ v = "gone" => d \in trouble'
    /\ trouble' \in {trouble, trouble \cup {d}}
    /\ reads' \in [Updates -> {"unsent", "message"} \cup Buttons \cup Unreadable]
    /\ module' = module

\* What the same step leaves of the session and of the broker.
Books(d) ==
    /\ published' \in Seq(Deliveries)
    /\ [Proven!Next]_Proven!vars
    /\ Logged' \subseteq Logged \cup {d, Expiry}
    /\ Session!Elems(published)' \subseteq Session!Elems(published) \cup {d}
    /\ d \in Logged' => at'[d] \in {"dispatch", "count", "reply", "over"}
    /\ d \in Session!Elems(published)' => at'[d] \in {"reply", "over"}
    /\ d \in Logged' \cup Session!Elems(published)' /\ heard'[d] = "error" => d \in trouble'
    /\ \A c \in Compiles \ {d} : pc'[c] = pc[c] /\ snapshot'[c] = snapshot[c]
    /\ d \in Compiles =>
          /\ snapshot'[d] # <<>> => pc'[d] \in {"enqueue", "processing", "unavailable"}
          /\ pc'[d] = "enqueue" => at'[d] = "dispatch" \/ d \in trouble'

LEMMA ChangedIs == Changed = (Deliveries \cap Logged) \cup Session!Elems(published)
BY DEF Changed, Logged

LEMMA ChangedAreDelivered ==
    ASSUME Inv
    PROVE  Changed \subseteq Deliveries
<1>1. published \in Seq(Deliveries)
  BY DEF Inv, TypeOK
<1>2. Session!Elems(published) \subseteq Deliveries
  BY <1>1, ElementOfSeq DEF Session!Elems
<1>3. QED
  BY <1>2, ChangedIs

LEMMA TurnKeepsInv ==
    ASSUME Inv, NEW d \in Deliveries, NEW to, NEW v, Turn(d, to, v), Books(d)
    PROVE  Inv'
<1>1. /\ at \in [Deliveries -> Going \cup {"unsent", "over"}]
      /\ heard \in [Deliveries -> {"nothing", "ok", "error", "gone"}]
      /\ trouble \subseteq Deliveries
      /\ published \in Seq(Deliveries)
      /\ \A e \in Deliveries : /\ at[e] = "unsent" => heard[e] = "nothing"
                               /\ at[e] = "over" => heard[e] # "nothing"
  BY DEF Inv, TypeOK
<1>2. /\ at'[d] = to /\ heard'[d] = v /\ trouble \subseteq trouble' /\ trouble' \subseteq Deliveries
      /\ \A e \in Deliveries \ {d} : at'[e] = at[e] /\ heard'[e] = heard[e]
                                     /\ (e \in trouble' <=> e \in trouble)
      /\ module' = module
  BY <1>1 DEF Turn
<1>3. /\ Session!TypeOK' /\ Proven!TypeInv' /\ Proven!LogInv' /\ Proven!Ledger'
  BY SessionKeeps DEF Books
<1>4. TypeOK'
  <2>1. /\ at' \in [Deliveries -> Going \cup {"unsent", "over"}]
        /\ heard' \in [Deliveries -> {"nothing", "ok", "error", "gone"}]
        /\ \A e \in Deliveries : /\ at'[e] = "unsent" => heard'[e] = "nothing"
                                 /\ at'[e] = "over" => heard'[e] # "nothing"
    BY <1>1, <1>2 DEF Turn, Going
  <2>2. published' \in Seq(Deliveries) /\ module' = module
        /\ reads' \in [Updates -> {"unsent", "message"} \cup Buttons \cup Unreadable]
    BY <1>1 DEF Turn, Books
  <2>3. module' \in {"estimator", "finance", "hr"}
    BY <2>2 DEF Inv, TypeOK
  <2>4. QED
    BY <1>2, <1>3, <2>1, <2>2, <2>3 DEF TypeOK
<1>5. Hearing'
  BY <1>2 DEF Turn, Inv, Hearing, Going
<1>6. InOrder'
  <2>1. \A e \in Deliveries : heard[e] \in {"error", "gone"} => heard'[e] \in {"error", "gone"}
    BY <1>1, <1>2 DEF Turn
  <2>2. ASSUME NEW e \in Deliveries, at'[e] # "unsent"
        PROVE  /\ e[1] \in UpdatesOf(module)
               /\ \A k \in 1..(e[2] - 1) : heard[<<e[1], k>>] \in {"error", "gone"}
    <3>1. CASE at[e] # "unsent"
      BY <3>1 DEF Inv, InOrder
    <3>2. CASE at[e] = "unsent"
      <4>1. e = d /\ Due(d)
        BY <1>2, <2>2, <3>2 DEF Turn
      <4>2. d[2] \in 1..Attempts /\ d = <<d[1], d[2]>> /\ Attempts \in Nat
        BY DeliveryIsPair, WebhookConstants
      <4>3. CASE d[2] = 1
        BY <4>1, <4>3 DEF Due
      <4>4. CASE d[2] > 1
        <5> DEFINE b == <<d[1], d[2] - 1>>
        <5>1. d[2] - 1 \in 1..Attempts
          BY <4>2, <4>4
        <5>2. b \in Deliveries /\ b[1] = d[1] /\ b[2] = d[2] - 1
          BY <5>1, DeliveryIsPair
        <5>3. heard[b] \in {"error", "gone"}
          BY <4>1, <4>4 DEF Due
        <5>4. at[b] # "unsent"
          BY <1>1, <5>2, <5>3
        <5>5. \A k \in 1..(b[2] - 1) : heard[<<b[1], k>>] \in {"error", "gone"}
          BY <5>2, <5>4 DEF Inv, InOrder
        <5>6. ASSUME NEW k \in 1..(d[2] - 1)
              PROVE  heard[<<d[1], k>>] \in {"error", "gone"}
          <6>1. k = d[2] - 1 \/ k \in 1..(b[2] - 1)
            BY <4>2, <5>2
          <6>2. QED
            BY <5>2, <5>3, <5>5, <6>1
        <5>7. QED
          BY <4>1, <5>6 DEF Due
      <4>5. QED
        BY <4>2, <4>3, <4>4
    <3>3. QED
      BY <3>1, <3>2
  <2>3. ASSUME NEW e \in Deliveries, NEW k \in 1..(e[2] - 1)
        PROVE  <<e[1], k>> \in Deliveries
    <3>1. e[2] \in 1..Attempts /\ Attempts \in Nat
      BY DeliveryIsPair, WebhookConstants
    <3>2. k \in 1..Attempts
      BY <3>1
    <3>3. QED
      BY <3>2, DeliveryIsPair
  <2>4. QED
    BY <1>2, <2>1, <2>2, <2>3 DEF InOrder
<1>7. Settled'
  <2>1. \A e \in Deliveries \cap Logged' : at'[e] \in {"dispatch", "count", "reply", "over"}
    BY <1>2, SessionConstants DEF Books, Inv, Settled
  <2>2. Session!Elems(published) \subseteq Deliveries
    BY <1>1, ElementOfSeq DEF Session!Elems
  <2>3. \A e \in Session!Elems(published)' : at'[e] \in {"reply", "over"}
    BY <1>2, <2>2 DEF Books, Inv, Settled
  <2>4. ASSUME NEW e \in Changed' \ trouble'
        PROVE  heard'[e] # "error"
    <3>1. Changed' = (Deliveries \cap Logged') \cup Session!Elems(published)'
      BY DEF Changed, Logged
    <3>2. CASE e = d
      BY <2>4, <3>1, <3>2 DEF Books
    <3>3. CASE e # d
      <4>1. e \in Deliveries /\ e \in Changed
        BY <2>2, <2>4, <3>1, <3>3, ChangedIs, SessionConstants DEF Books
      <4>2. QED
        BY <1>2, <2>4, <3>3, <4>1 DEF Inv, Settled
    <3>4. QED
      BY <3>2, <3>3
  <2>5. QED
    BY <2>1, <2>3, <2>4 DEF Settled
<1>8. Draining'
  <2>1. \A c \in Compiles : c \in Deliveries
    BY Kinds
  <2>2. QED
    BY <1>2, <2>1 DEF Books, Inv, Draining, Compiles
<1>9. QED
  BY <1>3, <1>4, <1>5, <1>6, <1>7, <1>8 DEF Inv

-----------------------------------------------------------------------------
(***************************************************************************)
(* The steps that leave the session and the broker alone.                  *)
(***************************************************************************)
Served(d) == \E to, v : Turn(d, to, v) /\ Books(d)

\* A delivery of a bot of another kind is no request of the session.
LEMMA NotOfTheSession ==
    ASSUME Inv, NEW d \in Deliveries, at[d] # "unsent", module # "estimator"
    PROVE  d \notin Session!Requests
<1>1. d[1] \in UpdatesOf(module) /\ module \in {"finance", "hr"}
  BY DEF Inv, InOrder, TypeOK
<1>2. d[1] \in FinanceUpdates
  BY <1>1 DEF UpdatesOf, FinanceUpdates
<1>3. QED
  BY <1>2, Kinds, WebhookConstants

LEMMA Moving ==
    ASSUME Inv, NEW d \in Deliveries, NEW from \in Going, NEW to \in Going, Go(d, from, to),
           UNCHANGED <<module, reads, heard, trouble>>
    PROVE  Turn(d, to, heard[d]) /\ at'[d] = to /\ heard'[d] # "error"
<1>1. heard[d] \in {"nothing", "gone"} /\ (heard[d] = "gone" => d \in trouble)
  BY DEF Go, Inv, Hearing
<1>2. heard' = [heard EXCEPT ![d] = heard[d]] /\ at'[d] = to
  BY DEF Go, Inv, TypeOK
<1>3. reads \in [Updates -> {"unsent", "message"} \cup Buttons \cup Unreadable]
  BY DEF Inv, TypeOK
<1>4. QED
  BY <1>1, <1>2, <1>3 DEF Turn, Go, Going

LEMMA Answering ==
    ASSUME Inv, NEW d \in Deliveries, at[d] \in Going, NEW verdict \in {"ok", "error"},
           Respond(d, verdict), trouble' \in {trouble, trouble \cup {d}},
           UNCHANGED <<module, reads>>
    PROVE  /\ Turn(d, "over", heard'[d]) /\ at'[d] = "over"
           /\ heard'[d] \in {"gone", verdict}
<1>1. heard[d] \in {"nothing", "gone"} /\ (heard[d] = "gone" => d \in trouble)
  BY DEF Inv, Hearing
<1>2. /\ heard'[d] = (IF heard[d] = "gone" THEN "gone" ELSE verdict)
      /\ heard' = [heard EXCEPT ![d] = heard'[d]] /\ at'[d] = "over"
  BY DEF Respond, Inv, TypeOK
<1>3. reads \in [Updates -> {"unsent", "message"} \cup Buttons \cup Unreadable]
  BY DEF Inv, TypeOK
<1>4. QED
  BY <1>1, <1>2, <1>3 DEF Turn, Respond, Going

\* Nothing is written: what there is to show is where the delivery is now.
LEMMA QuietBooks ==
    ASSUME Inv, NEW d \in Deliveries, UNCHANGED <<sessionVars, published>>,
           d \in Logged => at'[d] \in {"dispatch", "count", "reply", "over"},
           d \in Session!Elems(published) => at'[d] \in {"reply", "over"},
           d \in Changed /\ heard'[d] = "error" => d \in trouble',
           d \in Compiles /\ pc[d] = "enqueue" => at'[d] = "dispatch" \/ d \in trouble'
    PROVE  Books(d)
<1>1. UNCHANGED <<log, published, pc, snapshot>> /\ UNCHANGED Proven!vars
  BY DEF sessionVars, Proven!vars
<1>2. Logged' = Logged /\ Session!Elems(published)' = Session!Elems(published)
  BY <1>1 DEF Logged, Session!Elems
<1>3. published \in Seq(Deliveries)
  BY DEF Inv, TypeOK
<1>4. QED
  BY <1>1, <1>2, <1>3, ChangedIs DEF Books, Inv, Draining

LEMMA CallbackServed ==
    ASSUME Inv, NEW d \in Deliveries, AnswerCallback(d) \/ AnswerCallbackFails(d)
    PROVE  Served(d)
<1>1. at[d] = "callback" /\ UNCHANGED <<sessionVars, published>>
  BY DEF AnswerCallback, AnswerCallbackFails, Go
<1>2. d \notin Logged /\ d \notin Session!Elems(published) /\ d \notin Changed
  BY <1>1, ChangedIs DEF Inv, Settled
<1>3. d \in Compiles /\ pc[d] = "enqueue" => d \in trouble
  BY <1>1 DEF Inv, Draining
<1>4. CASE AnswerCallback(d)
  <2>1. Turn(d, "dispatch", heard[d]) /\ trouble' = trouble
    BY <1>4, Moving DEF AnswerCallback, Going
  <2>2. Books(d)
    BY <1>1, <1>2, <1>3, <2>1, QuietBooks
  <2>3. QED
    BY <2>1, <2>2 DEF Served
<1>5. CASE AnswerCallbackFails(d)
  <2>1. Turn(d, "over", heard'[d]) /\ trouble' = trouble
    BY <1>1, <1>5, Answering DEF AnswerCallbackFails, Going
  <2>2. Books(d)
    BY <1>1, <1>2, <1>3, <2>1, QuietBooks
  <2>3. QED
    BY <2>1, <2>2 DEF Served
<1>6. QED
  BY <1>4, <1>5

LEMMA ReplyingServed ==
    ASSUME Inv, NEW d \in Deliveries,
           Count(d) \/ PublishRefused(d) \/ Help(d) \/ UnknownModule(d)
    PROVE  Served(d)
<1>1. /\ at[d] \in {"count", "dispatch"} /\ Go(d, at[d], "reply")
      /\ UNCHANGED <<sessionVars, published, module, reads, heard, trouble>>
  BY DEF Count, PublishRefused, Help, UnknownModule, Go
<1>2. Turn(d, "reply", heard[d]) /\ at'[d] = "reply" /\ heard'[d] # "error"
  BY <1>1, Moving DEF Going
<1>3. ASSUME d \in Compiles, pc[d] = "enqueue"
      PROVE  d \in trouble
  <2>1. d \in Session!Requests
    BY <1>3, Kinds
  <2>2. CASE Count(d)
    BY <1>3, <2>2 DEF Count, Go, Inv, Draining
  <2>3. CASE ~Count(d)
    <3>1. module # "estimator"
      BY <2>3 DEF PublishRefused, Help, UnknownModule, Finance
    <3>2. QED
      BY <1>1, <2>1, <3>1, NotOfTheSession
  <2>4. QED
    BY <2>2, <2>3
<1>4. Books(d)
  BY <1>1, <1>2, <1>3, QuietBooks
<1>5. QED
  BY <1>2, <1>4 DEF Served

LEMMA OverServed ==
    ASSUME Inv, NEW d \in Deliveries, Reply(d) \/ Ignore(d) \/ CountFails(d)
    PROVE  Served(d)
<1>1. /\ at[d] \in Going /\ at[d] # "callback"
      /\ trouble' \in {trouble, trouble \cup {d}}
      /\ UNCHANGED <<sessionVars, published, module, reads>>
      /\ \E verdict \in {"ok", "error"} :
            Respond(d, verdict) /\ (verdict = "error" => d \in trouble')
  BY DEF Reply, Ignore, CountFails, Going
<1>2. /\ Turn(d, "over", heard'[d]) /\ at'[d] = "over"
      /\ heard'[d] = "error" => d \in trouble'
  BY <1>1, Answering
<1>3. ASSUME d \in Compiles, pc[d] = "enqueue"
      PROVE  d \in trouble'
  <2>1. CASE Ignore(d)
    <3>1. d \in Session!Requests /\ module = "finance"
      BY <1>3, <2>1, Kinds DEF Ignore
    <3>2. QED
      BY <2>1, <3>1, NotOfTheSession DEF Ignore
  <2>2. CASE Reply(d) \/ CountFails(d)
    BY <1>1, <1>3, <2>2 DEF Reply, CountFails, Inv, Draining
  <2>3. QED
    BY <2>1, <2>2
<1>4. Books(d)
  BY <1>1, <1>2, <1>3, QuietBooks
<1>5. QED
  BY <1>2, <1>4 DEF Served

\* The messenger stops waiting, or the process dies: either is trouble.
LEMMA TroubleServed ==
    ASSUME Inv, NEW d \in Deliveries, StopWaiting(d) \/ Die(d)
    PROVE  Served(d)
<1>1. /\ at[d] \in Going /\ trouble' = trouble \cup {d}
      /\ heard' = [heard EXCEPT ![d] = "gone"]
      /\ heard[d] \in {"nothing", "gone"}
      /\ UNCHANGED <<sessionVars, published, module, reads>>
  BY DEF StopWaiting, Die, Inv, Hearing
<1>2. heard'[d] = "gone"
  BY <1>1 DEF Inv, TypeOK
<1>3. CASE StopWaiting(d)
  <2>1. /\ at' = [at EXCEPT ![d] = at[d]] /\ at'[d] = at[d]
        /\ reads \in [Updates -> {"unsent", "message"} \cup Buttons \cup Unreadable]
    BY <1>3 DEF StopWaiting, Inv, TypeOK
  <2>2. Turn(d, at[d], "gone")
    BY <1>1, <2>1 DEF Turn, Going
  <2>3. Books(d)
    BY <1>1, <1>2, <2>1, QuietBooks DEF Inv, Settled
  <2>4. QED
    BY <2>2, <2>3 DEF Served
<1>4. CASE Die(d)
  <2>1. /\ at' = [at EXCEPT ![d] = "over"] /\ at'[d] = "over"
        /\ reads \in [Updates -> {"unsent", "message"} \cup Buttons \cup Unreadable]
    BY <1>4 DEF Die, Inv, TypeOK
  <2>2. Turn(d, "over", "gone")
    BY <1>1, <2>1 DEF Turn, Going
  <2>3. Books(d)
    BY <1>1, <1>2, <2>1, QuietBooks
  <2>4. QED
    BY <2>2, <2>3 DEF Served
<1>5. QED
  BY <1>3, <1>4

\* A reading is one of those the type invariant allows.
LEMMA ReadingsAreTyped ==
    ASSUME Inv, NEW d \in Deliveries, NEW r \in Reading(d)
    PROVE  r \in {"unsent", "message"} \cup Buttons \cup Unreadable
<1>1. reads[d[1]] \in {"unsent", "message"} \cup Buttons \cup Unreadable
  BY DeliveryIsPair DEF Inv, TypeOK
<1>2. Readings \subseteq {"message"} \cup Buttons \cup Unreadable
  BY DEF Readings, Telegram, Yandex, Max, Buttons, Unreadable
<1>3. QED
  BY <1>1, <1>2 DEF Reading

LEMMA ArriveServed ==
    ASSUME Inv, NEW d \in Deliveries, Arrive(d)
    PROVE  Served(d)
<1>1. PICK r \in Reading(d) :
         /\ reads' = [reads EXCEPT ![d[1]] = r]
         /\ IF r \in Unreadable
            THEN Respond(d, IF r = "ignored" THEN "ok" ELSE "error")
            ELSE /\ Go(d, "unsent", IF r = "button" THEN "callback" ELSE "dispatch")
                 /\ UNCHANGED heard
  BY DEF Arrive
<1>2. /\ at[d] = "unsent" /\ heard[d] = "nothing" /\ Due(d)
      /\ UNCHANGED <<sessionVars, module, published, trouble>>
  BY DEF Arrive, Due, Inv, TypeOK, Going
<1>3. reads' \in [Updates -> {"unsent", "message"} \cup Buttons \cup Unreadable]
  BY <1>1, ReadingsAreTyped DEF Inv, TypeOK
<1>4. d \notin Logged /\ d \notin Session!Elems(published) /\ d \notin Changed
  BY <1>2, ChangedIs DEF Inv, Settled
<1>5. d \in Compiles /\ pc[d] = "enqueue" => d \in trouble
  BY <1>2 DEF Inv, Draining
<1>6. Books(d)
  BY <1>2, <1>4, <1>5, QuietBooks
<1>7. \E to, v : Turn(d, to, v)
  <2>1. CASE r \in Unreadable
    <3>1. PICK v \in {"ok", "error"} :
             /\ at' = [at EXCEPT ![d] = "over"]
             /\ heard' = [heard EXCEPT ![d] = v]
      <4>1. heard[d] # "gone"
        BY <1>2
      <4>2. QED
        BY <1>1, <2>1, <4>1 DEF Respond
    <3>2. Turn(d, "over", v)
      BY <1>2, <1>3, <3>1 DEF Turn
    <3>3. QED
      BY <3>2
  <2>2. CASE r \notin Unreadable
    <3>1. PICK to \in {"callback", "dispatch"} : at' = [at EXCEPT ![d] = to]
      BY <1>1, <2>2 DEF Go
    <3>2. heard' = [heard EXCEPT ![d] = "nothing"]
      BY <1>1, <1>2, <2>2 DEF Inv, TypeOK
    <3>3. Turn(d, to, "nothing")
      BY <1>2, <1>3, <3>1, <3>2 DEF Turn, Going
    <3>4. QED
      BY <3>3
  <2>3. QED
    BY <2>1, <2>2
<1>8. QED
  BY <1>6, <1>7 DEF Served

-----------------------------------------------------------------------------
(***************************************************************************)
(* The steps of the session, and of the finance branch.                    *)
(***************************************************************************)
LEMMA LoggedGrows ==
    ASSUME NEW S, log \in Seq(S), NEW e \in S, log' = Append(log, e)
    PROVE  Logged' = Logged \cup {e}
<1>1. /\ Append(log, e) \in Seq(S) /\ Len(Append(log, e)) = Len(log) + 1
      /\ \A i \in 1..Len(log) : Append(log, e)[i] = log[i]
      /\ Append(log, e)[Len(log) + 1] = e
  BY AppendProperties
<1>2. /\ DOMAIN log = 1..Len(log) /\ DOMAIN log' = 1..(Len(log) + 1) /\ Len(log) \in Nat
  BY <1>1, LenProperties
<1>3. \A x : x \in Logged' <=> x \in Logged \/ x = e
  BY <1>1, <1>2 DEF Logged
<1>4. QED
  BY <1>3

\* Who is in the log has made a change to the session.
LEMMA LoggedHasWritten ==
    ASSUME Inv, NEW d \in Deliveries, d \in Logged
    PROVE  d \in Session!Requests /\ pc[d] \in Proven!Written
<1>1. log \in Seq(Session!Requests \cup {Expiry})
  BY DEF Inv, TypeOK, Session!TypeOK
<1>2. PICK i \in 1..Len(log) : log[i] = d
  BY <1>1, LenProperties DEF Logged
<1>3. d \in Session!Requests
  BY <1>1, <1>2, ElementOfSeq, SessionConstants
<1>4. QED
  BY <1>2, <1>3, Kinds DEF Inv, Proven!LogInv, Proven!LoggedAreWritten

\* A request moves on, writing itself down at most, and drains the session at most once.
LEMMA SessionMoves ==
    ASSUME Inv, NEW d \in Session!Requests,
           \/ Session!Receive(d) \/ Session!HandleNew(d) \/ Session!Accumulate(d)
           \/ Session!CompileCheck(d) \/ Session!CompileTake(d) \/ Session!Enqueue(d)
           \/ Session!BrokerUnavailable(d)
    PROVE  /\ Proven!Next
           /\ \A q \in Session!Requests \ {d} : pc'[q] = pc[q]
           /\ \A c \in Compiles \ {d} : snapshot'[c] = snapshot[c]
           /\ Logged' \subseteq Logged \cup {d}
           /\ d \in Compiles /\ snapshot'[d] # <<>> =>
                 pc'[d] \in {"enqueue", "processing", "unavailable"}
<1>1. /\ pc \in [Session!Requests -> {Session!Waiting, Session!Aborted}
                                     \cup Session!InFlight \cup Session!Replied]
      /\ snapshot \in [Compiles -> Seq(DeliveriesOf(MessageUpdates))]
      /\ log \in Seq(Session!Requests \cup {Expiry})
  BY DEF Inv, TypeOK, Session!TypeOK, Compiles
<1>2. Proven!Next
  BY SessionSteps
<1>3. \A q \in Session!Requests \ {d} : pc'[q] = pc[q]
  BY <1>1 DEF Session!Receive, Session!HandleNew, Session!Accumulate, Session!CompileCheck,
              Session!CompileTake, Session!Enqueue, Session!BrokerUnavailable,
              Session!Transition
<1>4. CASE Session!HandleNew(d) \/ Session!Accumulate(d) \/ Session!CompileTake(d)
  <2>1. Logged' = Logged \cup {d}
    BY <1>1, <1>4, LoggedGrows
       DEF Session!HandleNew, Session!Accumulate, Session!CompileTake
  <2>2. CASE Session!CompileTake(d)
    BY <1>1, <1>2, <1>3, <2>1, <2>2 DEF Session!CompileTake, Session!Transition
  <2>3. CASE Session!HandleNew(d) \/ Session!Accumulate(d)
    BY <1>1, <1>2, <1>3, <2>1, <2>3
       DEF Session!HandleNew, Session!Accumulate, Session!Transition, Inv, Draining
  <2>4. QED
    BY <1>4, <2>2, <2>3
<1>5. CASE \/ Session!Receive(d) \/ Session!CompileCheck(d)
           \/ Session!Enqueue(d) \/ Session!BrokerUnavailable(d)
  <2>1. UNCHANGED <<log, snapshot>> /\ Logged' = Logged
    BY <1>5 DEF Session!Receive, Session!CompileCheck, Session!Enqueue,
                Session!BrokerUnavailable, Session!redisVars, Logged
  <2>2. d \in Compiles /\ snapshot[d] # <<>> => pc'[d] \in {"processing", "unavailable"}
    BY <1>1, <1>5 DEF Session!Receive, Session!CompileCheck, Session!Enqueue,
                Session!BrokerUnavailable, Session!Transition, Session!Waiting, Inv, Draining
  <2>3. QED
    BY <1>2, <1>3, <2>1, <2>2
<1>6. QED
  BY <1>4, <1>5

LEMMA EstimatorServed ==
    ASSUME Inv, NEW d \in Deliveries, Estimator(d)
    PROVE  Served(d)
<1> DEFINE to == Stage(pc'[d])
<1>1. /\ d \in Session!Requests /\ Go(d, "dispatch", to)
      /\ UNCHANGED <<module, reads, heard, published, trouble>>
      /\ \/ Session!Receive(d) \/ Session!HandleNew(d) \/ Session!Accumulate(d)
         \/ Session!CompileCheck(d) \/ Session!CompileTake(d) \/ Session!Enqueue(d)
         \/ Session!BrokerUnavailable(d)
  BY DEF Estimator
<1>2. /\ to \in {"reply", "count", "dispatch"}
      /\ pc'[d] = "enqueue" => to = "dispatch"
  BY DEF Stage, Session!Replied
<1>3. Turn(d, to, heard[d]) /\ at'[d] = to /\ heard'[d] # "error"
  <2> HIDE DEF to
  <2>1. QED
    BY <1>1, <1>2, Moving DEF Going
<1>4. d \notin Session!Elems(published)
  BY <1>1 DEF Go, Inv, Settled
<1>5. published' = published /\ Session!Elems(published)' = Session!Elems(published)
      /\ published \in Seq(Deliveries)
  BY <1>1 DEF Session!Elems, Inv, TypeOK
<1>6. Books(d)
  <2> HIDE DEF to
  <2>1. QED
    BY <1>1, <1>2, <1>3, <1>4, <1>5, SessionMoves, Kinds DEF Books
<1>7. QED
  BY <1>3, <1>6 DEF Served

LEMMA AnswerLostServed ==
    ASSUME Inv, NEW d \in Deliveries, AnswerLost(d)
    PROVE  Served(d)
<1>1. /\ d \in Session!Requests /\ at[d] = "dispatch"
      /\ Session!HandleNew(d) \/ Session!Accumulate(d) \/ Session!CompileTake(d)
      /\ Respond(d, "error") /\ trouble' = trouble \cup {d}
      /\ UNCHANGED <<module, reads, published>>
  BY DEF AnswerLost
<1>2. Turn(d, "over", heard'[d]) /\ at'[d] = "over"
  BY <1>1, Answering DEF Going
<1>3. published' = published /\ Session!Elems(published)' = Session!Elems(published)
      /\ published \in Seq(Deliveries)
  BY <1>1 DEF Session!Elems, Inv, TypeOK
<1>4. Books(d)
  BY <1>1, <1>2, <1>3, SessionMoves, Kinds DEF Books
<1>5. QED
  BY <1>2, <1>4 DEF Served

\* A step that fails has written nothing.
LEMMA StepFailsServed ==
    ASSUME Inv, NEW d \in Deliveries, StepFails(d)
    PROVE  Served(d)
<1>1. /\ at[d] = "dispatch" /\ Respond(d, "error")
      /\ UNCHANGED <<module, reads, published, trouble>>
      /\ d \in Session!Requests =>
            pc[d] = Session!Waiting \/ pc[d] \in Session!InFlight \ {"enqueue"}
  BY DEF StepFails
<1>2. Turn(d, "over", heard'[d]) /\ at'[d] = "over"
  BY <1>1, Answering DEF Going
<1>3. d \notin Logged /\ d \notin Session!Elems(published) /\ d \notin Changed
  <2>1. d \notin Logged
    BY <1>1, LoggedHasWritten
       DEF Session!Waiting, Session!InFlight, Proven!Written, Proven!Aborted
  <2>2. QED
    BY <1>1, <2>1, ChangedIs DEF Inv, Settled
<1>4. d \in Compiles => snapshot[d] = <<>> /\ pc[d] # "enqueue"
  BY <1>1, Kinds DEF Inv, Draining, Session!Waiting, Session!InFlight
<1>5. Books(d)
  <2>1. CASE UNCHANGED sessionVars
    BY <1>1, <1>2, <1>3, <1>4, <2>1, QuietBooks
  <2>2. CASE d \in Session!Requests /\ Session!Abort(d)
    <3>1. Proven!Next
      BY <2>2, SessionSteps
    <3>2. /\ \A q \in Session!Requests \ {d} : pc'[q] = pc[q]
          /\ pc'[d] # "enqueue" /\ UNCHANGED <<log, snapshot>>
      BY <2>2 DEF Session!Abort, Session!Aborted, Session!redisVars, Inv, TypeOK, Session!TypeOK
    <3>3. /\ Logged' = Logged /\ Session!Elems(published)' = Session!Elems(published)
          /\ published' \in Seq(Deliveries)
      BY <1>1, <3>2 DEF Logged, Session!Elems, Inv, TypeOK
    <3>4. QED
      BY <1>3, <1>4, <3>1, <3>2, <3>3, Kinds DEF Books
  <2>3. QED
    BY <2>1, <2>2 DEF StepFails
<1>6. QED
  BY <1>2, <1>5 DEF Served

LEMMA PublishServed ==
    ASSUME Inv, NEW d \in Deliveries, Publish(d)
    PROVE  Served(d)
<1>1. /\ Go(d, "dispatch", "reply") /\ module = "finance"
      /\ published' = Append(published, d) /\ published \in Seq(Deliveries)
      /\ UNCHANGED <<sessionVars, module, reads, heard, trouble>>
  BY DEF Publish, Finance, Inv, TypeOK
<1>2. Turn(d, "reply", heard[d]) /\ at'[d] = "reply" /\ heard'[d] # "error"
  BY <1>1, Moving DEF Going
<1>3. d \notin Session!Requests
  BY <1>1, NotOfTheSession DEF Go
<1>4. published' \in Seq(Deliveries)
      /\ Session!Elems(published)' = Session!Elems(published) \cup {d}
  <2>1. /\ Len(published) \in Nat /\ Len(published') = Len(published) + 1
        /\ \A i \in 1..Len(published) : published'[i] = published[i]
        /\ published'[Len(published) + 1] = d
        /\ published' \in Seq(Deliveries)
    BY <1>1, AppendProperties, LenProperties
  <2>2. QED
    BY <2>1 DEF Session!Elems
<1>5. UNCHANGED <<log, pc, snapshot>> /\ UNCHANGED Proven!vars /\ Logged' = Logged
  BY <1>1 DEF sessionVars, Proven!vars, Logged
<1>6. Books(d)
  BY <1>2, <1>3, <1>4, <1>5, Kinds DEF Books
<1>7. QED
  BY <1>2, <1>6 DEF Served

-----------------------------------------------------------------------------
\* The clock concerns the session only.
LEMMA ClockKeepsInv ==
    ASSUME Inv, Clock
    PROVE  Inv'
<1>1. UNCHANGED <<module, reads, at, heard, published, trouble, pc, snapshot>>
  BY DEF Clock, webhookVars, Session!Tick
<1>2. Session!TypeOK' /\ Proven!TypeInv' /\ Proven!LogInv' /\ Proven!Ledger'
  BY SessionKeeps, TickIsTick DEF Clock
<1>3. Logged' \subseteq Logged \cup {Expiry}
  <2>1. log \in Seq(Session!Requests \cup {Expiry})
    BY DEF Inv, TypeOK, Session!TypeOK
  <2>2. log' = log \/ log' = Append(log, Expiry)
    BY DEF Clock, Session!Tick
  <2>3. CASE log' = log
    BY <2>3 DEF Logged
  <2>4. CASE log' = Append(log, Expiry)
    <3> DEFINE S == Session!Requests \cup {Expiry}
    <3>1. Expiry \in S /\ log \in Seq(S)
      BY <2>1
    <3> HIDE DEF S
    <3>2. QED
      BY <2>4, <3>1, LoggedGrows
  <2>5. QED
    BY <2>2, <2>3, <2>4
<1>4. TypeOK' /\ Hearing' /\ InOrder' /\ Draining'
  BY <1>1, <1>2 DEF Inv, TypeOK, Hearing, InOrder, Draining
<1>5. Settled'
  <2>1. Session!Elems(published)' = Session!Elems(published)
    BY <1>1 DEF Session!Elems
  <2>2. Changed' = (Deliveries \cap Logged') \cup Session!Elems(published)'
    BY DEF Changed, Logged
  <2>3. Deliveries \cap Logged' \subseteq Logged
    BY <1>3, SessionConstants
  <2>4. Changed' \subseteq Changed
    BY <2>1, <2>2, <2>3, ChangedIs
  <2>5. QED
    BY <1>1, <2>1, <2>3, <2>4 DEF Inv, Settled
<1>6. QED
  BY <1>2, <1>4, <1>5 DEF Inv

LEMMA Invariance == Inv /\ [Next]_vars => Inv'
<1> SUFFICES ASSUME Inv, [Next]_vars
             PROVE  Inv'
  OBVIOUS
<1>1. ASSUME NEW d \in Deliveries, Arrive(d) \/ Handler(d) \/ StopWaiting(d) \/ Die(d)
      PROVE  Inv'
  <2>1. Served(d)
    BY <1>1, ArriveServed, CallbackServed, ReplyingServed, OverServed, TroubleServed,
       EstimatorServed, AnswerLostServed, StepFailsServed, PublishServed DEF Handler
  <2>2. QED
    BY <2>1, TurnKeepsInv DEF Served
<1>2. CASE UNCHANGED vars
  <2>1. /\ UNCHANGED <<module, reads, at, heard, published, trouble, pc, snapshot, log>>
        /\ UNCHANGED Proven!vars
    BY <1>2 DEF vars, sessionVars, webhookVars, Proven!vars
  <2>2. Session!TypeOK' /\ Proven!TypeInv' /\ Proven!LogInv' /\ Proven!Ledger'
    BY <2>1, SessionKeeps
  <2>3. QED
    BY <2>1, <2>2 DEF Inv, TypeOK, Hearing, InOrder, Draining, Settled,
                      Changed, Logged, Session!Elems
<1>3. QED
  BY <1>1, <1>2, ClockKeepsInv DEF Next

LEMMA Initially == Init => Inv
<1> SUFFICES ASSUME Init
             PROVE  Inv
  OBVIOUS
<1>1. Proven!Init
  BY DEF Init, Session!Init, Proven!Init, Session!Requests, Proven!Requests, Session!Waiting,
         Proven!Waiting
<1>2. Proven!TypeInv /\ Proven!LogInv /\ Proven!Ledger
  BY <1>1, SessionAssumptions, Proven!TypeInit, Proven!LogInit, Proven!LedgerInit
<1>3. Session!TypeOK
  BY <1>2, SameTypes DEF Proven!TypeInv
<1>4. log = <<>> /\ published = <<>> /\ Logged = {} /\ Session!Elems(published) = {}
  BY DEF Init, Session!Init, Logged, Session!Elems
<1>5. TypeOK /\ Hearing /\ InOrder
  BY <1>3, <1>4 DEF Init, TypeOK, Hearing, InOrder, Going
<1>6. Settled
  BY <1>4, ChangedIs DEF Settled
<1>7. Draining
  BY Kinds DEF Init, Session!Init, Draining, Compiles, Session!Waiting
<1>8. QED
  BY <1>2, <1>5, <1>6, <1>7 DEF Inv

LEMMA Invariant == Spec => []Inv
BY Initially, Invariance, PTL DEF Spec

-----------------------------------------------------------------------------
\* The variables of the webhook, and those of the session in it, keep their types.
THEOREM TypeCorrect == Spec => []TypeOK
BY Invariant, PTL DEF Inv

(***************************************************************************)
(* An update is acted on twice only after trouble: the later delivery was  *)
(* sent because the earlier one had gone wrong, by InOrder, and one that   *)
(* made its change goes wrong only in trouble, by Settled.                 *)
(***************************************************************************)
THEOREM TwiceOnlyAfterTroubleAlways == Spec => []TwiceOnlyAfterTrouble
<1>1. ASSUME Inv, NEW d \in Changed, NEW e \in Changed, d[1] = e[1], d[2] < e[2]
      PROVE  d \in trouble
  <2>1. d \in Deliveries /\ e \in Deliveries
    BY <1>1, ChangedAreDelivered
  <2>2. d = <<d[1], d[2]>> /\ d[2] \in 1..Attempts /\ e[2] \in 1..Attempts /\ Attempts \in Nat
    BY <2>1, DeliveryIsPair, WebhookConstants
  <2>3. at[e] # "unsent"
    BY <1>1, <2>1, ChangedIs DEF Inv, Settled
  <2>4. d[2] \in 1..(e[2] - 1)
    BY <1>1, <2>2
  <2>5. heard[<<e[1], d[2]>>] \in {"error", "gone"}
    BY <1>1, <2>1, <2>3, <2>4 DEF Inv, InOrder
  <2>6. heard[d] \in {"error", "gone"}
    BY <1>1, <2>2, <2>5
  <2>7. QED
    BY <1>1, <2>1, <2>6 DEF Inv, Settled, Hearing
<1>2. Inv => TwiceOnlyAfterTrouble
  <2> SUFFICES ASSUME Inv, NEW d \in Changed, NEW e \in Changed, d[1] = e[1], d # e
               PROVE  d \in trouble \/ e \in trouble
    BY DEF TwiceOnlyAfterTrouble
  <2>1. d \in Deliveries /\ e \in Deliveries
    BY ChangedAreDelivered
  <2>2. d[2] \in Int /\ e[2] \in Int /\ d[2] # e[2]
    BY <2>1, DeliveryIsPair
  <2>3. QED
    BY <1>1, <2>2
<1>3. QED
  BY <1>2, Invariant, PTL

(***************************************************************************)
(* An item that was accepted is in Redis, was drained by a /compile that   *)
(* is excused, or was given up by a /new or an expiry: by Ledger it is     *)
(* somewhere, and by Draining whoever drained it took it further.          *)
(***************************************************************************)
THEOREM AcceptedIsAccountedForAlways == Spec => []AcceptedIsAccountedFor
<1>1. Inv => AcceptedIsAccountedFor
  <2> SUFFICES ASSUME Inv, NEW d \in Session!Requests, pc[d] = "accepted"
               PROVE  \/ d \in Session!Elems(payload)
                      \/ \E c \in Compiles : d \in Session!Elems(snapshot[c]) /\ Excused(c)
                      \/ \E i, j \in DOMAIN log :
                            i < j /\ log[i] = d /\ log[j] \in DeliveriesOf(NewUpdates) \cup {Expiry}
    BY DEF AcceptedIsAccountedFor, Accepted, Compiles
  <2>1. Proven!Somewhere(d)
    BY Kinds DEF Inv, Proven!Ledger
  <2>2. CASE d \in Proven!Elems(payload)
    BY <2>2 DEF Proven!Elems, Session!Elems
  <2>3. ASSUME NEW c \in Compiles, d \in Proven!Elems(snapshot[c])
        PROVE  d \in Session!Elems(snapshot[c]) /\ Excused(c)
    <3>1. d \in Session!Elems(snapshot[c]) /\ snapshot[c] # <<>>
      BY <2>3 DEF Proven!Elems, Session!Elems
    <3>2. pc[c] = "processing" => c \in Session!Elems(queue)
      BY DEF Inv, Proven!Ledger, Proven!Elems, Session!Elems, Compiles
    <3>3. QED
      BY <3>1, <3>2 DEF Inv, Draining, Excused, Going
  <2>4. CASE Proven!Superseded(d)
    BY <2>4 DEF Proven!Superseded
  <2>5. QED
    BY <2>1, <2>2, <2>3, <2>4 DEF Proven!Somewhere, Compiles
<1>2. QED
  BY <1>1, Invariant, PTL
=============================================================================
