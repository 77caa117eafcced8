------------------------------ MODULE Batching ------------------------------
(***************************************************************************)
(* What the batch mode of the bot promises one user, without Redis keys,   *)
(* time-to-live counters or handlers in flight: a log records in order     *)
(* every message accepted, every batch opened, every batch taken and every *)
(* expiry, and a batch is taken as exactly the messages logged since the   *)
(* latest entry that was not a message.  Session.tla implements it.        *)
(***************************************************************************)
EXTENDS Integers, Sequences

CONSTANTS Items,     \* messages that can be accepted
          Openers,   \* requests that open a new batch
          Takers,    \* requests that take the batch
          Expiry     \* the log entry for a batch dropped because of its age

VARIABLES log,       \* the accepted events, oldest first
          batch      \* batch[t] is what taker t received, <<>> before that

vars == <<log, batch>>

Logged == {log[i] : i \in 1..Len(log)}

\* The entries of h after position k are messages, the one at k is not.
IsCut(h, k) ==
    /\ k \in 0..Len(h)
    /\ k > 0 => h[k] \notin Items
    /\ \A i \in (k + 1)..Len(h) : h[i] \in Items

Init ==
    /\ log = <<>>
    /\ batch = [t \in Takers |-> <<>>]

Accept(i) ==
    /\ i \notin Logged
    /\ log' = Append(log, i)
    /\ UNCHANGED batch

Open(o) ==
    /\ o \notin Logged
    /\ log' = Append(log, o)
    /\ UNCHANGED batch

Take(t) ==
    /\ t \notin Logged
    /\ \E k \in 0..Len(log) :
          /\ IsCut(log, k)
          /\ batch' = [batch EXCEPT ![t] = [i \in 1..(Len(log) - k) |-> log[k + i]]]
    /\ log' = Append(log, t)

Expire ==
    /\ log' = Append(log, Expiry)
    /\ UNCHANGED batch

Next ==
    \/ \E i \in Items : Accept(i)
    \/ \E o \in Openers : Open(o)
    \/ \E t \in Takers : Take(t)
    \/ Expire

Spec == Init /\ [][Next]_vars
=============================================================================
