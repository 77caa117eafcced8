---------------------------- MODULE SessionProofs ----------------------------
(***************************************************************************)
(* Theorems about Session, for any number of requests and any TTL: type    *)
(* correctness, that both keys expire together, that an item is handed     *)
(* over at most once, and that the session implements Batching.            *)
(***************************************************************************)
EXTENDS Session, SequenceTheorems, TLAPS

USE SessionTTLPositive

\* Which request may take which step; the guards speak of pc alone.
Steps(r) ==
    \/ Receive(r)
    \/ HandleNew(r)
    \/ Accumulate(r)
    \/ CompileCheck(r)
    \/ CompileTake(r)
    \/ Enqueue(r)
    \/ BrokerUnavailable(r)
    \/ Abort(r)

\* A request stands only where its kind can stand.
PcMatchesKind ==
    \A r \in Requests :
        /\ pc[r] = "new" => r \in NewRequests
        /\ pc[r] = "accumulate" => r \in MessageRequests
        /\ pc[r] \in {"check", "take", "enqueue"} => r \in CompileRequests

TypeInv == TypeOK /\ PcMatchesKind

\* The initial state: no keys, every request still to be delivered.
LEMMA TypeInit == Init => TypeInv
BY DEF Init, TypeInv, TypeOK, PcMatchesKind, Waiting

\* The steps that leave Redis, the snapshots and the log alone.
LEMMA TypeReceive ==
    ASSUME TypeInv, NEW r \in Requests, Receive(r)
    PROVE  TypeInv'
BY RequestKindsDisjoint
   DEF TypeInv, TypeOK, PcMatchesKind, Receive, Transition, FirstStep, Requests,
       Waiting, Aborted, InFlight, Replied, redisVars

LEMMA TypeHandleNew ==
    ASSUME TypeInv, NEW r \in Requests, HandleNew(r)
    PROVE  TypeInv'
BY DEF TypeInv, TypeOK, PcMatchesKind, HandleNew, Transition, Waiting, Aborted,
       InFlight, Replied

LEMMA TypeAccumulate ==
    ASSUME TypeInv, NEW r \in Requests, Accumulate(r)
    PROVE  TypeInv'
<1>1. r \in MessageRequests
  BY DEF TypeInv, PcMatchesKind, Accumulate, Transition
<1>2. payload' \in Seq(MessageRequests) /\ payload' # <<>>
  BY <1>1, AppendProperties DEF TypeInv, TypeOK, Accumulate
<1>3. log' \in Seq(Requests \cup {Expiry})
  BY AppendProperties DEF TypeInv, TypeOK, Accumulate
<1>4. QED
  BY <1>2, <1>3 DEF TypeInv, TypeOK, PcMatchesKind, Accumulate, Transition, Waiting,
       Aborted, InFlight, Replied

LEMMA TypeCompile ==
    ASSUME TypeInv, NEW r \in Requests,
           CompileCheck(r) \/ CompileTake(r) \/ Enqueue(r) \/ BrokerUnavailable(r)
    PROVE  TypeInv'
<1>1. r \in CompileRequests
  BY DEF TypeInv, PcMatchesKind, CompileCheck, CompileTake, Enqueue,
       BrokerUnavailable, Transition
<1>2. CASE CompileCheck(r)
  BY <1>1, <1>2 DEF TypeInv, TypeOK, PcMatchesKind, CompileCheck, Transition,
       Waiting, Aborted, InFlight, Replied, redisVars
<1>3. CASE CompileTake(r)
  BY <1>1, <1>3 DEF TypeInv, TypeOK, PcMatchesKind, CompileTake, Transition,
       Waiting, Aborted, InFlight, Replied
<1>4. CASE Enqueue(r)
  BY <1>1, <1>4 DEF TypeInv, TypeOK, PcMatchesKind, Enqueue, Transition,
       Waiting, Aborted, InFlight, Replied, redisVars
<1>5. CASE BrokerUnavailable(r)
  BY <1>1, <1>5 DEF TypeInv, TypeOK, PcMatchesKind, BrokerUnavailable, Transition,
       Waiting, Aborted, InFlight, Replied, redisVars
<1>6. QED
  BY <1>2, <1>3, <1>4, <1>5

LEMMA TypeAbort ==
    ASSUME TypeInv, NEW r \in Requests, Abort(r)
    PROVE  TypeInv'
BY DEF TypeInv, TypeOK, PcMatchesKind, Abort, Waiting, Aborted, InFlight, Replied,
       redisVars

LEMMA TypeTick ==
    ASSUME TypeInv, Tick
    PROVE  TypeInv'
<1>1. stateTTL' \in 0..SessionTTL /\ payloadTTL' \in 0..SessionTTL
  BY DEF TypeInv, TypeOK, Tick, Older
<1>2. state' \in {"none", "collecting"} /\ (state' = "collecting" <=> stateTTL' > 0)
  BY DEF TypeInv, TypeOK, Tick, Older
<1>3. CASE payloadTTL = 1
  <2>1. payload' = <<>> /\ payloadTTL' = 0
    BY <1>3 DEF Tick, Older
  <2>2. payload' \in Seq(MessageRequests) /\ (payload' # <<>> <=> payloadTTL' > 0)
    BY <2>1
  <2>3. log' \in Seq(Requests \cup {Expiry})
    <3>1. log' = Append(log, Expiry) /\ log \in Seq(Requests \cup {Expiry})
      BY <1>3 DEF Tick, TypeInv, TypeOK
    <3>2. Expiry \in Requests \cup {Expiry}
      OBVIOUS
    <3>3. QED
      BY <3>1, <3>2, AppendProperties
  <2>4. QED
    BY <1>1, <1>2, <2>2, <2>3 DEF TypeInv, TypeOK, PcMatchesKind, Tick
<1>4. CASE payloadTTL # 1
  BY <1>1, <1>2, <1>4 DEF TypeInv, TypeOK, PcMatchesKind, Tick, Older
<1>5. QED
  BY <1>3, <1>4

LEMMA TypeNext == TypeInv /\ [Next]_vars => TypeInv'
<1>. SUFFICES ASSUME TypeInv, [Next]_vars PROVE TypeInv'
  OBVIOUS
<1>1. ASSUME NEW r \in Requests, Steps(r) PROVE TypeInv'
  BY <1>1, TypeReceive, TypeHandleNew, TypeAccumulate, TypeCompile, TypeAbort DEF Steps
<1>2. CASE Tick
  BY <1>2, TypeTick
<1>3. CASE UNCHANGED vars
  BY <1>3 DEF TypeInv, TypeOK, PcMatchesKind, vars
<1>4. QED
  BY <1>1, <1>2, <1>3 DEF Next, Steps

(***************************************************************************)
(* Type correctness of Session: the Redis keys, the program counters and   *)
(* the snapshots of SessionService always hold what the code writes there. *)
(***************************************************************************)
THEOREM TypeCorrect == Spec => []TypeOK
<1>1. TypeInv => TypeOK
  BY DEF TypeInv
<1>2. QED
  BY <1>1, TypeInit, TypeNext, PTL DEF Spec

THEOREM TypeInvariant == Spec => []TypeInv
BY TypeInit, TypeNext, PTL DEF Spec

-----------------------------------------------------------------------------
(***************************************************************************)
(* Both keys expire together: with the type invariant this is inductive,   *)
(* since every MULTI of SessionService either removes the payload, or      *)
(* removes the state, or gives both keys a full TTL.                       *)
(***************************************************************************)
THEOREM KeysExpireTogetherAlways == Spec => []KeysExpireTogether
<1>1. Init => KeysExpireTogether
  BY DEF Init, KeysExpireTogether
<1>2. TypeInv /\ TypeInv' /\ KeysExpireTogether /\ [Next]_vars => KeysExpireTogether'
  <2>. SUFFICES ASSUME TypeInv, TypeInv', KeysExpireTogether, [Next]_vars
                PROVE  KeysExpireTogether'
    OBVIOUS
  <2>1. ASSUME NEW r \in Requests, Steps(r) PROVE KeysExpireTogether'
    BY <2>1 DEF Steps, KeysExpireTogether, TypeInv, TypeOK, Receive, HandleNew, Accumulate,
       CompileCheck, CompileTake, Enqueue, BrokerUnavailable, Abort, redisVars
  <2>2. CASE Tick
    <3>1. CASE payloadTTL = 1
      BY <2>2, <3>1 DEF Tick, KeysExpireTogether
    <3>2. CASE payloadTTL # 1
      BY <2>2, <3>2 DEF Tick, Older, KeysExpireTogether, TypeInv, TypeOK
    <3>3. QED
      BY <3>1, <3>2
  <2>3. CASE UNCHANGED vars
    BY <2>3 DEF vars, KeysExpireTogether
  <2>4. QED
    BY <2>1, <2>2, <2>3 DEF Next, Steps
<1>3. QED
  BY <1>1, <1>2, TypeInvariant, PTL DEF Spec

-----------------------------------------------------------------------------
(***************************************************************************)
(* At most once.  What makes it inductive: an item that is stored anywhere *)
(* belongs to a request that has finished with "accepted", so the request  *)
(* that is about to store one is not stored yet.                           *)
(***************************************************************************)
OnceInv ==
    /\ HandedOverOnce
    /\ \A i \in 1..Len(payload) : pc[payload[i]] = "accepted"
    /\ \A c \in CompileRequests :
          \A i \in 1..Len(snapshot[c]) : pc[snapshot[c][i]] = "accepted"

LEMMA OnceInit == Init => OnceInv
BY DEF Init, OnceInv, HandedOverOnce, Distinct, Elems

\* A step that stores and drains nothing, and takes back no "accepted".
LEMMA OnceQuiet ==
    ASSUME TypeInv, OnceInv, UNCHANGED <<payload, snapshot>>,
           \A r \in Requests : pc[r] = "accepted" => pc'[r] = "accepted"
    PROVE  OnceInv'
<1>1. HandedOverOnce'
  BY DEF OnceInv, HandedOverOnce
<1>2. \A i \in 1..Len(payload) : payload[i] \in Requests
  BY ElementOfSeq DEF TypeInv, TypeOK, Requests
<1>3. \A c \in CompileRequests : \A i \in 1..Len(snapshot[c]) : snapshot[c][i] \in Requests
  BY ElementOfSeq DEF TypeInv, TypeOK, Requests
<1>4. QED
  BY <1>1, <1>2, <1>3 DEF OnceInv

\* A step that empties the payload and touches nothing else that OnceInv speaks of.
LEMMA OnceDrop ==
    ASSUME TypeInv, OnceInv, payload' = <<>>, UNCHANGED snapshot,
           \A r \in Requests : pc[r] = "accepted" => pc'[r] = "accepted"
    PROVE  OnceInv'
<1>1. Len(payload') = 0
  OBVIOUS
<1>2. Distinct(payload') /\ Elems(payload') = {}
  BY <1>1 DEF Distinct, Elems
<1>3. HandedOverOnce'
  BY <1>2 DEF OnceInv, HandedOverOnce
<1>4. \A c \in CompileRequests : \A i \in 1..Len(snapshot[c]) : snapshot[c][i] \in Requests
  BY ElementOfSeq DEF TypeInv, TypeOK, Requests
<1>5. QED
  BY <1>1, <1>3, <1>4 DEF OnceInv

LEMMA OnceAccumulate ==
    ASSUME TypeInv, OnceInv, NEW r \in Requests, Accumulate(r)
    PROVE  OnceInv'
<1>1. r \in MessageRequests /\ pc[r] = "accumulate"
  BY DEF TypeInv, PcMatchesKind, Accumulate, Transition
<1>2. /\ Len(payload') = Len(payload) + 1
      /\ \A i \in 1..Len(payload) : payload'[i] = payload[i]
      /\ payload'[Len(payload) + 1] = r
      /\ Len(payload) \in Nat
  BY <1>1, AppendProperties, LenProperties DEF Accumulate, TypeInv, TypeOK
<1>3. /\ snapshot' = snapshot
      /\ pc'[r] = "accepted"
      /\ \A q \in Requests : pc[q] = "accepted" => pc'[q] = "accepted"
  BY DEF Accumulate, Transition, TypeInv, TypeOK
<1>4. \A i \in 1..Len(payload) : payload[i] \in Requests /\ payload[i] # r
  BY <1>1, ElementOfSeq DEF TypeInv, TypeOK, Requests, OnceInv
<1>5. \A c \in CompileRequests : \A i \in 1..Len(snapshot[c]) :
         snapshot[c][i] \in Requests /\ snapshot[c][i] # r
  BY <1>1, ElementOfSeq DEF TypeInv, TypeOK, Requests, OnceInv
<1>6. Distinct(payload')
  BY <1>2, <1>4 DEF Distinct, OnceInv, HandedOverOnce
<1>7. \A x : x \in Elems(payload') <=> x \in Elems(payload) \/ x = r
  BY <1>2 DEF Elems
<1>8. \A c \in CompileRequests : Elems(snapshot[c]) \cap Elems(payload') = {}
  <2>1. \A c \in CompileRequests : r \notin Elems(snapshot[c])
    BY <1>5 DEF Elems
  <2>2. QED
    BY <2>1, <1>7 DEF OnceInv, HandedOverOnce
<1>9. HandedOverOnce'
  BY <1>3, <1>6, <1>8 DEF OnceInv, HandedOverOnce
<1>10. \A i \in 1..Len(payload') : pc'[payload'[i]] = "accepted"
  BY <1>2, <1>3, <1>4 DEF OnceInv
<1>11. QED
  BY <1>3, <1>5, <1>9, <1>10 DEF OnceInv

LEMMA OnceCompileTake ==
    ASSUME TypeInv, OnceInv, NEW r \in Requests, CompileTake(r)
    PROVE  OnceInv'
<1>1. r \in CompileRequests
  BY DEF TypeInv, PcMatchesKind, CompileTake, Transition
<1>2. /\ snapshot'[r] = payload
      /\ \A c \in CompileRequests \ {r} : snapshot'[c] = snapshot[c]
      /\ payload' = <<>>
  BY <1>1 DEF CompileTake, TypeInv, TypeOK
<1>3. \A q \in Requests : pc[q] = "accepted" => pc'[q] = "accepted"
  BY DEF CompileTake, Transition, TypeInv, TypeOK
<1>4. Len(payload') = 0 /\ Elems(payload') = {}
  BY <1>2 DEF Elems
<1>5. \A c \in CompileRequests : Distinct(snapshot'[c])
  BY <1>2 DEF OnceInv, HandedOverOnce
<1>6. \A c, d \in CompileRequests :
         c # d => Elems(snapshot'[c]) \cap Elems(snapshot'[d]) = {}
  BY <1>2 DEF OnceInv, HandedOverOnce
<1>7. HandedOverOnce'
  <2>1. Distinct(payload')
    BY <1>4 DEF Distinct
  <2>2. QED
    BY <2>1, <1>4, <1>5, <1>6 DEF HandedOverOnce
<1>8. \A i \in 1..Len(payload) : payload[i] \in Requests
  BY ElementOfSeq DEF TypeInv, TypeOK, Requests
<1>9. \A c \in CompileRequests : \A i \in 1..Len(snapshot[c]) : snapshot[c][i] \in Requests
  BY ElementOfSeq DEF TypeInv, TypeOK, Requests
<1>10. \A c \in CompileRequests : \A i \in 1..Len(snapshot'[c]) :
          pc'[snapshot'[c][i]] = "accepted"
  BY <1>2, <1>3, <1>8, <1>9 DEF OnceInv
<1>11. QED
  BY <1>4, <1>7, <1>10 DEF OnceInv

LEMMA OnceNext == TypeInv /\ OnceInv /\ [Next]_vars => OnceInv'
<1>. SUFFICES ASSUME TypeInv, OnceInv, [Next]_vars PROVE OnceInv'
  OBVIOUS
<1>1. ASSUME NEW r \in Requests, Steps(r) PROVE OnceInv'
  <2>1. CASE Accumulate(r)
    BY <2>1, OnceAccumulate
  <2>2. CASE CompileTake(r)
    BY <2>2, OnceCompileTake
  <2>3. CASE HandleNew(r)
    BY <2>3, OnceDrop DEF HandleNew, Transition, TypeInv, TypeOK
  <2>4. CASE Receive(r) \/ CompileCheck(r) \/ Enqueue(r) \/ BrokerUnavailable(r) \/ Abort(r)
    BY <2>4, OnceQuiet DEF Receive, CompileCheck, Enqueue, BrokerUnavailable, Abort,
       Transition, redisVars, TypeInv, TypeOK, Waiting, InFlight
  <2>5. QED
    BY <1>1, <2>1, <2>2, <2>3, <2>4 DEF Steps
<1>2. CASE Tick
  BY <1>2, OnceDrop, OnceQuiet DEF Tick
<1>3. CASE UNCHANGED vars
  BY <1>3, OnceQuiet DEF vars
<1>4. QED
  BY <1>1, <1>2, <1>3 DEF Next, Steps

(***************************************************************************)
(* No accumulated item is handed to Celery twice, for any number of        *)
(* concurrent /compile, /new and message requests.                         *)
(***************************************************************************)
THEOREM HandedOverOnceAlways == Spec => []HandedOverOnce
<1>1. OnceInv => HandedOverOnce
  BY DEF OnceInv
<1>2. QED
  BY <1>1, OnceInit, OnceNext, TypeInvariant, PTL DEF Spec

-----------------------------------------------------------------------------
(***************************************************************************)
(* Session implements Batching.  The refinement needs two facts: a request *)
(* that still has its write ahead of it is not in the log yet, and the     *)
(* payload is the tail of the log after its latest entry that is not a     *)
(* message.                                                                *)
(***************************************************************************)
Written == {"started", "accepted", "enqueue", "processing", "unavailable", Aborted}

LoggedAreWritten ==
    \A i \in 1..Len(log) : log[i] \in Requests => pc[log[i]] \in Written

IsTail(s, h, k) ==
    /\ Len(s) = Len(h) - k
    /\ \A i \in 1..Len(s) : s[i] = h[k + i]

PayloadIsTail == \E k \in 0..Len(log) : Abstract!IsCut(log, k) /\ IsTail(payload, log, k)

LogInv == LoggedAreWritten /\ PayloadIsTail

LEMMA LogInit == Init => LogInv
BY DEF Init, LogInv, LoggedAreWritten, PayloadIsTail, IsTail, Abstract!IsCut

\* Appending an entry that is not a message makes the empty sequence the tail.
LEMMA CutAtEnd ==
    ASSUME NEW S, NEW h \in Seq(S), NEW e \in S, e \notin MessageRequests
    PROVE  \E k \in 0..Len(Append(h, e)) :
              /\ Abstract!IsCut(Append(h, e), k)
              /\ IsTail(<<>>, Append(h, e), k)
<1>. DEFINE g == Append(h, e)
            k == Len(h) + 1
<1>1. Len(h) \in Nat /\ Len(g) = k /\ g[k] = e
  BY AppendProperties, LenProperties
<1>2. k \in 0..Len(g) /\ Len(<<>>) = Len(g) - k
  BY <1>1
<1>. HIDE DEF g
<1>3. Abstract!IsCut(g, k) /\ IsTail(<<>>, g, k)
  BY <1>1, <1>2 DEF Abstract!IsCut, IsTail
<1>4. QED
  BY <1>2, <1>3 DEF g

\* Appending a message to the log and to its tail keeps the tail a tail.
LEMMA TailGrows ==
    ASSUME NEW S, NEW h \in Seq(S), NEW s \in Seq(S), NEW e \in S, e \in MessageRequests,
           NEW k \in 0..Len(h), Abstract!IsCut(h, k), IsTail(s, h, k)
    PROVE  /\ k \in 0..Len(Append(h, e))
           /\ Abstract!IsCut(Append(h, e), k)
           /\ IsTail(Append(s, e), Append(h, e), k)
<1>. DEFINE g == Append(h, e)
            t == Append(s, e)
<1>1. /\ Len(h) \in Nat
      /\ Len(g) = Len(h) + 1
      /\ \A i \in 1..Len(h) : g[i] = h[i]
      /\ g[Len(h) + 1] = e
  BY AppendProperties, LenProperties
<1>2. /\ Len(s) \in Nat
      /\ Len(t) = Len(s) + 1
      /\ \A i \in 1..Len(s) : t[i] = s[i]
      /\ t[Len(s) + 1] = e
  BY AppendProperties, LenProperties
<1>. HIDE DEF g, t
<1>3. k \in 0..Len(g)
  BY <1>1
<1>4. Abstract!IsCut(g, k)
  BY <1>1, <1>3 DEF Abstract!IsCut
<1>5. IsTail(t, g, k)
  <2>1. Len(s) = Len(h) - k /\ Len(t) = Len(g) - k /\ k + Len(t) = Len(g)
    BY <1>1, <1>2 DEF IsTail
  <2>2. ASSUME NEW i \in 1..Len(s) PROVE t[i] = g[k + i]
    <3>1. t[i] = s[i] /\ s[i] = h[k + i]
      BY <1>2 DEF IsTail
    <3>2. k + i \in 1..Len(h)
      BY <2>1, <1>1, <1>2
    <3>3. QED
      BY <3>1, <3>2, <1>1
  <2>3. t[Len(t)] = g[k + Len(t)]
    BY <2>1, <1>1, <1>2
  <2>4. QED
    BY <2>1, <2>2, <2>3, <1>2 DEF IsTail
<1>6. QED
  BY <1>3, <1>4, <1>5 DEF g, t

\* A request appended to the log has reached Written and nobody has left it.
LEMMA LoggedGrows ==
    ASSUME TypeInv, LoggedAreWritten, NEW r \in Requests, log' = Append(log, r),
           NEW to \in Written, pc' = [pc EXCEPT ![r] = to]
    PROVE  LoggedAreWritten'
<1>1. /\ Len(log') = Len(log) + 1
      /\ \A i \in 1..Len(log) : log'[i] = log[i]
      /\ log'[Len(log) + 1] = r
      /\ Len(log) \in Nat
  BY AppendProperties, LenProperties DEF TypeInv, TypeOK
<1>2. \A q \in Requests : pc[q] \in Written => pc'[q] \in Written
  BY DEF TypeInv, TypeOK
<1>3. pc'[r] \in Written
  BY DEF TypeInv, TypeOK
<1>4. QED
  BY <1>1, <1>2, <1>3 DEF LoggedAreWritten

\* A step that leaves the log and the payload alone and takes back no write.
LEMMA LogQuiet ==
    ASSUME LogInv, UNCHANGED <<log, payload>>,
           \A r \in Requests : pc[r] \in Written => pc'[r] \in Written
    PROVE  LogInv'
BY DEF LogInv, LoggedAreWritten, PayloadIsTail

LEMMA LogNext == TypeInv /\ LogInv /\ [Next]_vars => LogInv'
<1>. SUFFICES ASSUME TypeInv, LogInv, [Next]_vars PROVE LogInv'
  OBVIOUS
<1>. log \in Seq(Requests \cup {Expiry})
  BY DEF TypeInv, TypeOK
<1>1. ASSUME NEW r \in Requests, Steps(r) PROVE LogInv'
  <2>1. CASE Accumulate(r)
    <3>1. r \in MessageRequests
      BY <2>1 DEF TypeInv, PcMatchesKind, Accumulate, Transition
    <3>2. LoggedAreWritten'
      BY <2>1, LoggedGrows DEF Accumulate, Transition, LogInv, Written
    <3>3. PICK k \in 0..Len(log) : Abstract!IsCut(log, k) /\ IsTail(payload, log, k)
      BY DEF LogInv, PayloadIsTail
    <3>4. payload \in Seq(Requests \cup {Expiry})
      BY ElementOfSeq, SeqMonotonic DEF TypeInv, TypeOK, Requests
    <3>5. /\ k \in 0..Len(log')
          /\ Abstract!IsCut(log', k)
          /\ IsTail(payload', log', k)
      BY <2>1, <3>1, <3>3, <3>4, TailGrows DEF Accumulate
    <3>6. QED
      BY <3>2, <3>5 DEF LogInv, PayloadIsTail
  <2>2. CASE HandleNew(r) \/ CompileTake(r)
    <3>1. r \notin MessageRequests
      BY <2>2, RequestKindsDisjoint
         DEF TypeInv, PcMatchesKind, HandleNew, CompileTake, Transition
    <3>2. log' = Append(log, r) /\ payload' = <<>>
      BY <2>2 DEF HandleNew, CompileTake
    <3>3. LoggedAreWritten'
      BY <2>2, <3>2, LoggedGrows DEF HandleNew, CompileTake, Transition, LogInv, Written
    <3>4. PayloadIsTail'
      BY <3>1, <3>2, CutAtEnd DEF PayloadIsTail
    <3>5. QED
      BY <3>3, <3>4 DEF LogInv
  <2>3. CASE Receive(r) \/ CompileCheck(r) \/ Enqueue(r) \/ BrokerUnavailable(r) \/ Abort(r)
    BY <2>3, LogQuiet DEF Receive, CompileCheck, Enqueue, BrokerUnavailable, Abort,
       Transition, redisVars, TypeInv, TypeOK, Waiting, InFlight, Written, Aborted
  <2>4. QED
    BY <1>1, <2>1, <2>2, <2>3 DEF Steps
<1>2. CASE Tick
  <2>1. CASE payloadTTL = 1
    <3>1. log' = Append(log, Expiry) /\ payload' = <<>> /\ pc' = pc
      BY <1>2, <2>1 DEF Tick
    <3>2. Expiry \notin Requests /\ Expiry \notin MessageRequests
      BY RequestKindsDisjoint DEF Requests
    <3>3. /\ Len(log) \in Nat
          /\ Len(log') = Len(log) + 1
          /\ \A i \in 1..Len(log) : log'[i] = log[i]
          /\ log'[Len(log) + 1] = Expiry
      BY <3>1, AppendProperties, LenProperties
    <3>4. LoggedAreWritten'
      BY <3>1, <3>2, <3>3 DEF LogInv, LoggedAreWritten
    <3>5. PayloadIsTail'
      BY <3>1, <3>2, CutAtEnd DEF PayloadIsTail
    <3>6. QED
      BY <3>4, <3>5 DEF LogInv
  <2>2. CASE payloadTTL # 1
    BY <1>2, <2>2, LogQuiet DEF Tick
  <2>3. QED
    BY <2>1, <2>2
<1>3. CASE UNCHANGED vars
  BY <1>3, LogQuiet DEF vars
<1>4. QED
  BY <1>1, <1>2, <1>3 DEF Next, Steps

LEMMA LogInvariant == Spec => []LogInv
BY LogInit, LogNext, TypeInvariant, PTL DEF Spec

\* A request whose write is still ahead of it is not in the abstract log.
LEMMA UnwrittenNotLogged ==
    ASSUME TypeInv, LogInv, NEW r \in Requests, pc[r] \notin Written
    PROVE  r \notin Abstract!Logged
BY DEF LogInv, LoggedAreWritten, Abstract!Logged

(***************************************************************************)
(* Every /compile that drains the payload receives, in order, exactly the  *)
(* items accumulated since the latest /new, /compile or expiry: so         *)
(* SessionService implements the batch that Batching promises.             *)
(***************************************************************************)
THEOREM Refinement == Spec => ImplementsBatching
<1>1. Init => Abstract!Init
  BY DEF Init, Abstract!Init
<1>2. TypeInv /\ LogInv /\ [Next]_vars => [Abstract!Next]_Abstract!vars
  <2>. SUFFICES ASSUME TypeInv, LogInv, [Next]_vars
                PROVE  [Abstract!Next]_Abstract!vars
    OBVIOUS
  <2>1. ASSUME NEW r \in Requests, Steps(r) PROVE [Abstract!Next]_Abstract!vars
    <3>1. CASE Accumulate(r)
      <4>1. r \in MessageRequests /\ r \notin Abstract!Logged
        BY <3>1, UnwrittenNotLogged
           DEF TypeInv, PcMatchesKind, Accumulate, Transition, Written, Aborted
      <4>2. Abstract!Accept(r)
        BY <3>1, <4>1 DEF Accumulate, Abstract!Accept
      <4>3. QED
        BY <4>1, <4>2 DEF Abstract!Next
    <3>2. CASE HandleNew(r)
      <4>1. r \in NewRequests /\ r \notin Abstract!Logged
        BY <3>2, UnwrittenNotLogged
           DEF TypeInv, PcMatchesKind, HandleNew, Transition, Written, Aborted
      <4>2. Abstract!Open(r)
        BY <3>2, <4>1 DEF HandleNew, Abstract!Open
      <4>3. QED
        BY <4>1, <4>2 DEF Abstract!Next
    <3>3. CASE CompileTake(r)
      <4>1. r \in CompileRequests /\ r \notin Abstract!Logged
        BY <3>3, UnwrittenNotLogged
           DEF TypeInv, PcMatchesKind, CompileTake, Transition, Written, Aborted
      <4>2. PICK k \in 0..Len(log) : Abstract!IsCut(log, k) /\ IsTail(payload, log, k)
        BY DEF LogInv, PayloadIsTail
      <4>3. payload = [i \in 1..(Len(log) - k) |-> log[k + i]]
        <5>1. payload = [i \in 1..Len(payload) |-> payload[i]]
          BY LenProperties DEF TypeInv, TypeOK
        <5>2. QED
          BY <4>2, <5>1 DEF IsTail
      <4>4. Abstract!Take(r)
        BY <3>3, <4>1, <4>2, <4>3 DEF CompileTake, Abstract!Take
      <4>5. QED
        BY <4>1, <4>4 DEF Abstract!Next
    <3>4. CASE Receive(r) \/ CompileCheck(r) \/ Enqueue(r) \/ BrokerUnavailable(r) \/ Abort(r)
      BY <3>4 DEF Receive, CompileCheck, Enqueue, BrokerUnavailable, Abort, Abstract!vars
    <3>5. QED
      BY <2>1, <3>1, <3>2, <3>3, <3>4 DEF Steps
  <2>2. CASE Tick
    BY <2>2 DEF Tick, Abstract!Next, Abstract!Expire, Abstract!vars
  <2>3. CASE UNCHANGED vars
    BY <2>3 DEF vars, Abstract!vars
  <2>4. QED
    BY <2>1, <2>2, <2>3 DEF Next, Steps
<1>3. QED
  BY <1>1, <1>2, TypeInvariant, LogInvariant, PTL DEF Spec, ImplementsBatching, Abstract!Spec

-----------------------------------------------------------------------------
(***************************************************************************)
(* What becomes of an accepted item: it is in the payload or in what a     *)
(* /compile drained, or the log shows, after it, a /new or the expiry of   *)
(* the payload.  A /compile has drained nothing before it took, and a      *)
(* message to Celery is one that the reply speaks of.                      *)
(***************************************************************************)
Superseded(d) ==
    \E i, j \in DOMAIN log : i < j /\ log[i] = d /\ log[j] \in NewRequests \cup {Expiry}

Somewhere(d) ==
    \/ d \in Elems(payload)
    \/ \E c \in CompileRequests : d \in Elems(snapshot[c])
    \/ Superseded(d)

Ledger ==
    /\ \A c \in CompileRequests : pc[c] \notin Written => snapshot[c] = <<>>
    /\ \A c \in CompileRequests : pc[c] = "processing" => c \in Elems(queue)
    /\ \A d \in Requests : pc[d] = "accepted" => Somewhere(d)

LEMMA LedgerInit == Init => Ledger
BY DEF Init, Ledger, Waiting, Requests

\* Appending keeps what there is and adds the new element.
LEMMA ElemsOfAppend ==
    ASSUME NEW S, NEW s \in Seq(S), NEW e \in S
    PROVE  Elems(Append(s, e)) = Elems(s) \cup {e}
<1>1. /\ Len(s) \in Nat /\ Len(Append(s, e)) = Len(s) + 1
      /\ \A i \in 1..Len(s) : Append(s, e)[i] = s[i]
      /\ Append(s, e)[Len(s) + 1] = e
  BY AppendProperties, LenProperties
<1>2. QED
  BY <1>1 DEF Elems

\* What was superseded stays so: the log only grows.
LEMMA SupersededForGood ==
    ASSUME TypeInv, NEW d, Superseded(d),
           log' = log \/ \E e \in Requests \cup {Expiry} : log' = Append(log, e)
    PROVE  Superseded(d)'
<1>1. PICK i, j \in DOMAIN log : i < j /\ log[i] = d /\ log[j] \in NewRequests \cup {Expiry}
  BY DEF Superseded
<1>2. CASE log' = log
  BY <1>1, <1>2 DEF Superseded
<1>3. ASSUME NEW e \in Requests \cup {Expiry}, log' = Append(log, e)
      PROVE  Superseded(d)'
  <2>1. log \in Seq(Requests \cup {Expiry}) /\ Len(log) \in Nat /\ DOMAIN log = 1..Len(log)
    BY LenProperties DEF TypeInv, TypeOK
  <2>2. /\ Append(log, e) \in Seq(Requests \cup {Expiry})
        /\ Len(Append(log, e)) = Len(log) + 1
        /\ \A k \in 1..Len(log) : Append(log, e)[k] = log[k]
    BY <2>1, AppendProperties
  <2>3. DOMAIN log' = 1..(Len(log) + 1)
    BY <1>3, <2>1, <2>2, LenProperties
  <2>4. i \in DOMAIN log' /\ j \in DOMAIN log'
    BY <2>1, <2>3
  <2>5. log'[i] = d /\ log'[j] = log[j]
    BY <1>1, <1>3, <2>1, <2>2
  <2>6. QED
    BY <1>1, <2>4, <2>5 DEF Superseded
<1>4. QED
  BY <1>2, <1>3

\* A /new or an expiry supersedes what is in the payload, since it is in the log.
LEMMA DroppedIsSuperseded ==
    ASSUME TypeInv, LogInv, NEW e \in NewRequests \cup {Expiry}, log' = Append(log, e),
           NEW d \in Elems(payload)
    PROVE  Superseded(d)'
<1>1. PICK k \in 0..Len(log) : IsTail(payload, log, k)
  BY DEF LogInv, PayloadIsTail
<1>2. PICK i \in 1..Len(payload) : payload[i] = d
  BY DEF Elems
<1>3. /\ log \in Seq(Requests \cup {Expiry}) /\ e \in Requests \cup {Expiry}
      /\ Len(log) \in Nat /\ Len(payload) \in Nat
  BY LenProperties DEF TypeInv, TypeOK, Requests
<1>4. k + i \in 1..Len(log) /\ log[k + i] = d
  BY <1>1, <1>2, <1>3 DEF IsTail
<1>5. /\ DOMAIN log' = 1..(Len(log) + 1)
      /\ log'[k + i] = d /\ log'[Len(log) + 1] = e
  BY <1>3, <1>4, AppendProperties
<1>6. k + i \in DOMAIN log' /\ Len(log) + 1 \in DOMAIN log' /\ k + i < Len(log) + 1
  BY <1>3, <1>4, <1>5
<1>7. QED
  BY <1>5, <1>6 DEF Superseded

\* A step that takes nothing out of what is held, and accepts nothing.
LEMMA LedgerQuiet ==
    ASSUME TypeInv, Ledger, UNCHANGED <<payload, snapshot, log>>,
           \A c \in CompileRequests : pc[c] \in Written => pc'[c] \in Written,
           \A c \in CompileRequests : pc'[c] = "processing" => c \in Elems(queue'),
           \A d \in Requests : pc'[d] = "accepted" => pc[d] = "accepted"
    PROVE  Ledger'
BY DEF Ledger, Somewhere, Superseded

LEMMA LedgerHandleNew ==
    ASSUME TypeInv, LogInv, Ledger, NEW r \in Requests, HandleNew(r)
    PROVE  Ledger'
<1>1. /\ r \in NewRequests /\ log' = Append(log, r) /\ UNCHANGED <<snapshot, queue>>
      /\ \A q \in Requests : (pc[q] \in Written => pc'[q] \in Written)
                             /\ (pc'[q] \in {"accepted", "processing"} => pc'[q] = pc[q])
  BY DEF HandleNew, Transition, TypeInv, TypeOK, PcMatchesKind, Written
<1>2. ASSUME NEW d \in Requests, pc'[d] = "accepted"
      PROVE  Somewhere(d)'
  BY <1>1, <1>2, SupersededForGood, DroppedIsSuperseded DEF Ledger, Somewhere
<1>3. QED
  BY <1>1, <1>2 DEF Ledger, Requests

LEMMA LedgerAccumulate ==
    ASSUME TypeInv, Ledger, NEW r \in Requests, Accumulate(r)
    PROVE  Ledger'
<1>1. /\ r \in MessageRequests /\ log' = Append(log, r) /\ UNCHANGED <<snapshot, queue>>
      /\ \A q \in Requests \ {r} : pc'[q] = pc[q]
      /\ r \notin CompileRequests
  BY RequestKindsDisjoint DEF Accumulate, Transition, TypeInv, TypeOK, PcMatchesKind
<1>2. Elems(payload') = Elems(payload) \cup {r}
  BY <1>1, ElemsOfAppend DEF Accumulate, TypeInv, TypeOK
<1>3. ASSUME NEW d \in Requests, pc'[d] = "accepted"
      PROVE  Somewhere(d)'
  BY <1>1, <1>2, <1>3, SupersededForGood DEF Ledger, Somewhere
<1>4. QED
  BY <1>1, <1>3 DEF Ledger, Requests

LEMMA LedgerCompileTake ==
    ASSUME TypeInv, Ledger, NEW r \in Requests, CompileTake(r)
    PROVE  Ledger'
<1>1. /\ r \in CompileRequests /\ log' = Append(log, r) /\ UNCHANGED queue
      /\ pc[r] = "take" /\ pc'[r] = "enqueue"
      /\ \A q \in Requests \ {r} : pc'[q] = pc[q]
      /\ snapshot'[r] = payload
      /\ \A c \in CompileRequests \ {r} : snapshot'[c] = snapshot[c]
  BY DEF CompileTake, Transition, TypeInv, TypeOK, PcMatchesKind
<1>2. Elems(snapshot[r]) = {}
  BY <1>1 DEF Ledger, Written, Aborted, Elems
<1>3. ASSUME NEW d \in Requests, pc'[d] = "accepted"
      PROVE  Somewhere(d)'
  <2>1. Somewhere(d)
    BY <1>1, <1>3 DEF Ledger
  <2>2. CASE d \in Elems(payload)
    BY <1>1, <2>2 DEF Somewhere
  <2>3. ASSUME NEW c \in CompileRequests, d \in Elems(snapshot[c])
        PROVE  Somewhere(d)'
    BY <1>1, <1>2, <2>3 DEF Somewhere
  <2>4. CASE Superseded(d)
    BY <1>1, <2>4, SupersededForGood DEF Somewhere
  <2>5. QED
    BY <2>1, <2>2, <2>3, <2>4 DEF Somewhere
<1>4. QED
  BY <1>1, <1>3 DEF Ledger, Requests, Written

LEMMA LedgerNext == TypeInv /\ LogInv /\ Ledger /\ [Next]_vars => Ledger'
<1>. SUFFICES ASSUME TypeInv, LogInv, Ledger, [Next]_vars PROVE Ledger'
  OBVIOUS
<1>1. ASSUME NEW r \in Requests, Steps(r) PROVE Ledger'
  <2>1. CASE Enqueue(r)
    <3>1. /\ r \in CompileRequests /\ UNCHANGED <<payload, snapshot, log>>
          /\ pc'[r] = "processing" /\ \A q \in Requests \ {r} : pc'[q] = pc[q]
          /\ queue' = Append(queue, r)
      BY <2>1 DEF Enqueue, Transition, redisVars, TypeInv, TypeOK, PcMatchesKind
    <3>2. Elems(queue') = Elems(queue) \cup {r}
      BY <3>1, ElemsOfAppend DEF TypeInv, TypeOK
    <3>3. \A c \in CompileRequests : pc'[c] = "processing" => c \in Elems(queue')
      BY <3>1, <3>2 DEF Ledger, Requests
    <3>4. QED
      BY <3>1, <3>3, LedgerQuiet DEF Requests, Written
  <2>2. CASE Receive(r) \/ CompileCheck(r) \/ BrokerUnavailable(r) \/ Abort(r)
    <3>1. /\ UNCHANGED <<payload, snapshot, queue, log>>
          /\ \A q \in Requests \ {r} : pc'[q] = pc[q]
          /\ pc'[r] \notin {"accepted", "processing"}
          /\ pc[r] \in Written => pc'[r] \in Written
      BY <2>2 DEF Receive, FirstStep, CompileCheck, BrokerUnavailable, Abort, Transition,
         redisVars, TypeInv, TypeOK, Waiting, InFlight, Written, Aborted, Requests
    <3>2. \A c \in CompileRequests : pc'[c] = "processing" => c \in Elems(queue')
      BY <3>1 DEF Ledger, Requests
    <3>3. QED
      BY <3>1, <3>2, LedgerQuiet DEF Requests
  <2>3. QED
    BY <1>1, <2>1, <2>2, LedgerHandleNew, LedgerAccumulate, LedgerCompileTake DEF Steps
<1>2. CASE Tick
  <2>1. CASE payloadTTL = 1
    <3>1. log' = Append(log, Expiry) /\ UNCHANGED <<pc, snapshot, queue>>
      BY <1>2, <2>1 DEF Tick
    <3>2. ASSUME NEW d \in Requests, pc'[d] = "accepted"
          PROVE  Somewhere(d)'
      BY <3>1, <3>2, SupersededForGood, DroppedIsSuperseded DEF Ledger, Somewhere
    <3>3. QED
      BY <3>1, <3>2 DEF Ledger
  <2>2. CASE payloadTTL # 1
    BY <1>2, <2>2, LedgerQuiet DEF Tick, Ledger
  <2>3. QED
    BY <2>1, <2>2
<1>3. CASE UNCHANGED vars
  BY <1>3, LedgerQuiet DEF vars, Ledger
<1>4. QED
  BY <1>1, <1>2, <1>3 DEF Next, Steps

LEMMA LedgerInvariant == Spec => []Ledger
BY LedgerInit, LedgerNext, TypeInvariant, LogInvariant, PTL DEF Spec

(***************************************************************************)
(* What accumulate stored leaves Redis only into a snapshot, by a /new or  *)
(* with the TTL of the payload: a /compile overwrites no snapshot, since a *)
(* request takes once.                                                     *)
(***************************************************************************)
THEOREM NoItemVanishesEver == Spec => NoItemVanishes
<1>1. TypeInv /\ Ledger /\ [Next]_vars =>
         [ \/ Held \subseteq Held'
           \/ \E r \in NewRequests : HandleNew(r)
           \/ Tick /\ payloadTTL = 1 ]_vars
  <2>. SUFFICES ASSUME TypeInv, Ledger, Next
                PROVE  \/ Held \subseteq Held'
                       \/ \E r \in NewRequests : HandleNew(r)
                       \/ Tick /\ payloadTTL = 1
    OBVIOUS
  <2>1. ASSUME NEW r \in Requests, Steps(r)
        PROVE  Held \subseteq Held' \/ \E q \in NewRequests : HandleNew(q)
    <3>1. CASE HandleNew(r)
      BY <3>1 DEF HandleNew, Transition, TypeInv, PcMatchesKind
    <3>2. CASE Accumulate(r)
      <4>1. Elems(payload') = Elems(payload) \cup {r}
        BY <3>2, ElemsOfAppend DEF Accumulate, Transition, TypeInv, TypeOK, PcMatchesKind
      <4>2. QED
        BY <3>2, <4>1 DEF Accumulate, Held
    <3>3. CASE CompileTake(r)
      <4>1. /\ r \in CompileRequests /\ pc[r] = "take" /\ snapshot'[r] = payload
            /\ \A c \in CompileRequests \ {r} : snapshot'[c] = snapshot[c]
        BY <3>3 DEF CompileTake, Transition, TypeInv, TypeOK, PcMatchesKind
      <4>2. Elems(snapshot[r]) = {}
        BY <4>1 DEF Ledger, Written, Aborted, Elems
      <4>3. QED
        BY <4>1, <4>2 DEF Held
    <3>4. CASE Receive(r) \/ CompileCheck(r) \/ Enqueue(r) \/ BrokerUnavailable(r) \/ Abort(r)
      BY <3>4 DEF Receive, CompileCheck, Enqueue, BrokerUnavailable, Abort, redisVars, Held
    <3>5. QED
      BY <2>1, <3>1, <3>2, <3>3, <3>4 DEF Steps
  <2>2. CASE Tick
    BY <2>2 DEF Tick, Held
  <2>3. QED
    BY <2>1, <2>2 DEF Next, Steps
<1>2. QED
  BY <1>1, TypeInvariant, LedgerInvariant, PTL DEF Spec, NoItemVanishes
=============================================================================
