------------------------------- MODULE Session -------------------------------
(***************************************************************************)
(* The accumulation session of one user: SessionService (Redis keys        *)
(* session:{user}:state and session:{user}:payload with their TTLs) and    *)
(* the estimator branch of HookRouterService that drives it.               *)
(*                                                                         *)
(* Every webhook delivery is a request with a program counter; a step of a *)
(* request is the code between two awaits that touch Redis or the broker,  *)
(* and steps of different requests interleave as coroutines of the API     *)
(* process do.  A Redis MULTI is one step.  A repeated delivery of an      *)
(* update is simply another request: the code keeps no record of updates   *)
(* it has seen.  The keys of different users are disjoint, so one user is  *)
(* all there is to model.                                                  *)
(*                                                                         *)
(* The files key is deleted together with the payload and never written,   *)
(* so it has no variable.  The text of replies is left out; which reply a  *)
(* request ends with is the final value of its program counter.            *)
(***************************************************************************)
EXTENDS Integers, Sequences

CONSTANTS NewRequests,      \* deliveries of "/new"
          CompileRequests,  \* deliveries of "/compile"
          CommandRequests,  \* deliveries of any other command
          MessageRequests,  \* deliveries of a text, file or voice message
          SessionTTL,       \* SESSION_TTL in ticks of the modelled clock
          Expiry            \* log entry: Redis expired the payload key

Requests == NewRequests \cup CompileRequests \cup CommandRequests \cup MessageRequests

ASSUME SessionTTLPositive == SessionTTL \in Nat \ {0}
ASSUME RequestKindsDisjoint ==
    /\ NewRequests \cap CompileRequests = {}
    /\ NewRequests \cap CommandRequests = {}
    /\ NewRequests \cap MessageRequests = {}
    /\ CompileRequests \cap CommandRequests = {}
    /\ CompileRequests \cap MessageRequests = {}
    /\ CommandRequests \cap MessageRequests = {}
    /\ Expiry \notin Requests

VARIABLES
    state,        \* session:{user}:state, "none" when the key is absent
    stateTTL,     \* ticks until Redis expires it, 0 when the key has no TTL
    payload,      \* session:{user}:payload, the requests whose items it holds
    payloadTTL,
    pc,           \* where each request is; the last value names the reply
    snapshot,     \* snapshot[c]: the items request c drained, <<>> before
    queue,        \* compile_session messages the broker accepted, by request
    log           \* history: the order in which requests changed the session

redisVars == <<state, stateTTL, payload, payloadTTL>>
vars == <<state, stateTTL, payload, payloadTTL, pc, snapshot, queue, log>>

Waiting  == "waiting"
InFlight == {"new", "check", "take", "enqueue", "accumulate"}
Replied  == {"started", "accepted", "prompted", "unknown",
             "nosession", "processing", "unavailable"}
Aborted  == "aborted"

Transition(r, from, to) ==
    /\ pc[r] = from
    /\ pc' = [pc EXCEPT ![r] = to]

Elems(s) == {s[i] : i \in 1..Len(s)}

Init ==
    /\ state = "none"
    /\ stateTTL = 0
    /\ payload = <<>>
    /\ payloadTTL = 0
    /\ pc = [r \in Requests |-> Waiting]
    /\ snapshot = [c \in CompileRequests |-> <<>>]
    /\ queue = <<>>
    /\ log = <<>>

(***************************************************************************)
(* _dispatch_estimator up to its first write: get_state, then the branch   *)
(* on the kind of the envelope.  A message keeps the answer it got here    *)
(* for its later decision; a command does not look at it.                  *)
(***************************************************************************)
FirstStep(r) ==
    CASE r \in NewRequests     -> "new"
      [] r \in CompileRequests -> "check"
      [] r \in CommandRequests -> "unknown"
      [] r \in MessageRequests -> IF state = "collecting" THEN "accumulate" ELSE "prompted"

Receive(r) ==
    /\ Transition(r, Waiting, FirstStep(r))
    /\ UNCHANGED <<redisVars, snapshot, queue, log>>

\* A slip in handle_new: the old payload survives the reset.
HandleNewKeepsPayload(r) ==
    /\ Transition(r, "new", "started")
    /\ state' = "collecting"
    /\ stateTTL' = SessionTTL
    /\ UNCHANGED <<payload, payloadTTL>>
    /\ log' = Append(log, r)
    /\ UNCHANGED <<snapshot, queue>>

\* A slip in handle_new: SET without ex.
HandleNewWithoutTTL(r) ==
    /\ Transition(r, "new", "started")
    /\ state' = "collecting"
    /\ stateTTL' = 0
    /\ payload' = <<>>
    /\ payloadTTL' = 0
    /\ log' = Append(log, r)
    /\ UNCHANGED <<snapshot, queue>>

\* SessionService.handle_new: one MULTI that deletes the keys and sets the state.
HandleNew(r) ==
    /\ Transition(r, "new", "started")
    /\ state' = "collecting"
    /\ stateTTL' = SessionTTL
    /\ payload' = <<>>
    /\ payloadTTL' = 0
    /\ log' = Append(log, r)
    /\ UNCHANGED <<snapshot, queue>>

\* A slip in accumulate: the TTL of the state key is not refreshed.
AccumulateForgetsState(r) ==
    /\ Transition(r, "accumulate", "accepted")
    /\ payload' = Append(payload, r)
    /\ payloadTTL' = SessionTTL
    /\ UNCHANGED <<state, stateTTL>>
    /\ log' = Append(log, r)
    /\ UNCHANGED <<snapshot, queue>>

\* A slip in accumulate: the payload key gets no TTL of its own.
AccumulateNoExpire(r) ==
    /\ Transition(r, "accumulate", "accepted")
    /\ payload' = Append(payload, r)
    /\ stateTTL' = IF state = "collecting" THEN SessionTTL ELSE 0
    /\ UNCHANGED <<state, payloadTTL>>
    /\ log' = Append(log, r)
    /\ UNCHANGED <<snapshot, queue>>

(***************************************************************************)
(* SessionService.accumulate: RPUSH, then EXPIRE on both keys, in one      *)
(* MULTI.  It does not look at the state: EXPIRE of an absent state key    *)
(* does nothing and the RPUSH creates the payload again.                   *)
(***************************************************************************)
Accumulate(r) ==
    /\ Transition(r, "accumulate", "accepted")
    /\ payload' = Append(payload, r)
    /\ payloadTTL' = SessionTTL
    /\ stateTTL' = IF state = "collecting" THEN SessionTTL ELSE 0
    /\ log' = Append(log, r)
    /\ UNCHANGED <<state, snapshot, queue>>

\* handle_compile, first await: get_state and the early return.
CompileCheck(r) ==
    /\ Transition(r, "check", IF state = "collecting" THEN "take" ELSE "nosession")
    /\ UNCHANGED <<redisVars, snapshot, queue, log>>

\* A slip in handle_compile: the payload key is left out of the DELETE.
CompileTakeKeepsPayload(r) ==
    /\ Transition(r, "take", "enqueue")
    /\ snapshot' = [snapshot EXCEPT ![r] = payload]
    /\ state' = "none"
    /\ stateTTL' = 0
    /\ UNCHANGED <<payload, payloadTTL>>
    /\ log' = Append(log, r)
    /\ UNCHANGED queue

\* A slip in handle_compile: DELETE queued before LRANGE in the MULTI.
CompileTakeDeletesFirst(r) ==
    /\ Transition(r, "take", "enqueue")
    /\ snapshot' = [snapshot EXCEPT ![r] = <<>>]
    /\ state' = "none"
    /\ stateTTL' = 0
    /\ payload' = <<>>
    /\ payloadTTL' = 0
    /\ log' = Append(log, r)
    /\ UNCHANGED queue

\* handle_compile, second await: LRANGE and DELETE in one MULTI.
CompileTake(r) ==
    /\ Transition(r, "take", "enqueue")
    /\ snapshot' = [snapshot EXCEPT ![r] = payload]
    /\ state' = "none"
    /\ stateTTL' = 0
    /\ payload' = <<>>
    /\ payloadTTL' = 0
    /\ log' = Append(log, r)
    /\ UNCHANGED queue

\* send_task("compile_session", snapshot) accepted by the broker.
Enqueue(r) ==
    /\ Transition(r, "enqueue", "processing")
    /\ queue' = Append(queue, r)
    /\ UNCHANGED <<redisVars, snapshot, log>>

\* A slip in the dispatch: OperationalError is logged, and the reply says "processing".
BrokerErrorIgnored(r) ==
    /\ Transition(r, "enqueue", "processing")
    /\ UNCHANGED <<redisVars, snapshot, queue, log>>

\* send_task raises OperationalError: a reply, and the drained items are gone.
BrokerUnavailable(r) ==
    /\ Transition(r, "enqueue", "unavailable")
    /\ UNCHANGED <<redisVars, snapshot, queue, log>>

\* A Redis error at an await, or the end of the process, ends the request there.
Abort(r) ==
    /\ pc[r] \in InFlight
    /\ pc' = [pc EXCEPT ![r] = Aborted]
    /\ UNCHANGED <<redisVars, snapshot, queue, log>>

(***************************************************************************)
(* Time passes in Redis: every key with a TTL gets one tick older, and a   *)
(* key whose TTL runs out is gone.                                         *)
(***************************************************************************)
Older(ttl) == IF ttl > 0 THEN ttl - 1 ELSE 0

Tick ==
    /\ stateTTL > 0 \/ payloadTTL > 0
    /\ stateTTL' = Older(stateTTL)
    /\ state' = IF stateTTL = 1 THEN "none" ELSE state
    /\ payloadTTL' = Older(payloadTTL)
    /\ IF payloadTTL = 1
       THEN payload' = <<>> /\ log' = Append(log, Expiry)
       ELSE UNCHANGED <<payload, log>>
    /\ UNCHANGED <<pc, snapshot, queue>>

Next ==
    \/ \E r \in Requests :
          \/ Receive(r)
          \/ HandleNew(r)
          \/ Accumulate(r)
          \/ CompileCheck(r)
          \/ CompileTake(r)
          \/ Enqueue(r)
          \/ BrokerUnavailable(r)
          \/ Abort(r)
    \/ Tick

\* Only the clock is fair: nothing obliges a messenger to deliver anything.
Spec == Init /\ [][Next]_vars /\ WF_vars(Tick)

-----------------------------------------------------------------------------
(***************************************************************************)
(* Type invariant: the Redis keys of SessionService hold what the code     *)
(* writes to them, the state key exists exactly while it has a TTL, and    *)
(* the payload key has a TTL exactly while it holds items.                 *)
(***************************************************************************)
TypeOK ==
    /\ state \in {"none", "collecting"}
    /\ stateTTL \in 0..SessionTTL
    /\ payload \in Seq(MessageRequests)
    /\ payloadTTL \in 0..SessionTTL
    /\ pc \in [Requests -> {Waiting, Aborted} \cup InFlight \cup Replied]
    /\ snapshot \in [CompileRequests -> Seq(MessageRequests)]
    /\ queue \in Seq(CompileRequests)
    /\ log \in Seq(Requests \cup {Expiry})
    /\ state = "collecting" <=> stateTTL > 0
    /\ payload # <<>> <=> payloadTTL > 0

(***************************************************************************)
(* No accumulated item is handed to Celery twice: whatever the requests in *)
(* flight did, an item is at most once in the payload and all snapshots    *)
(* that handle_compile ever returned.                                      *)
(***************************************************************************)
Distinct(s) == \A i, j \in 1..Len(s) : s[i] = s[j] => i = j

HandedOverOnce ==
    /\ Distinct(payload)
    /\ \A c \in CompileRequests :
          /\ Distinct(snapshot[c])
          /\ Elems(snapshot[c]) \cap Elems(payload) = {}
          /\ \A d \in CompileRequests \ {c} :
                Elems(snapshot[c]) \cap Elems(snapshot[d]) = {}

(***************************************************************************)
(* While a session is collecting, the items accumulated in it cannot       *)
(* expire before the session does: accumulate leaves both keys with the    *)
(* same time to live and nothing later tells them apart.                   *)
(***************************************************************************)
KeysExpireTogether ==
    state = "collecting" /\ payload # <<>> => payloadTTL = stateTTL

(***************************************************************************)
(* An item that accumulate stored leaves Redis only into the snapshot of a *)
(* /compile, by a /new, or because the payload reached its TTL.            *)
(***************************************************************************)
Held == Elems(payload) \cup UNION {Elems(snapshot[c]) : c \in CompileRequests}

NoItemVanishes ==
    [][ \/ Held \subseteq Held'
        \/ \E r \in NewRequests : HandleNew(r)
        \/ Tick /\ payloadTTL = 1 ]_vars

(***************************************************************************)
(* The session keys do what the abstract batch does: each /compile that    *)
(* drains the payload gets, in the order of arrival, exactly the items     *)
(* accumulated since the latest /new, /compile or expiry.                  *)
(***************************************************************************)
Abstract == INSTANCE Batching
    WITH Items <- MessageRequests, Openers <- NewRequests, Takers <- CompileRequests,
         batch <- snapshot

ImplementsBatching == Abstract!Spec

(***************************************************************************)
(* Auto-cleanup: whatever requests did or left undone, Redis is always     *)
(* going to be rid of both keys again ("TTL: 3600 seconds (1 hour) -       *)
(* auto-cleanup for stale sessions").                                      *)
(***************************************************************************)
StaleKeysAreCleaned == []<>(state = "none" /\ payload = <<>>)

=============================================================================
