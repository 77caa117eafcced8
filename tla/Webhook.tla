------------------------------- MODULE Webhook -------------------------------
(***************************************************************************)
(* The updates one user sends to one bot: handle_webhook, process_webhook  *)
(* and the dispatch to the estimator branch, which is the component        *)
(* Session, or to the finance branch.  A messenger delivers an update      *)
(* again until a delivery of it is answered 200 or it gives up; the code   *)
(* recognises no repetition, so every delivery is a request of its own in  *)
(* Session.  Accounts in different messengers may belong to one user.      *)
(*                                                                         *)
(* A step is the code between two awaits that touch the database, Redis,   *)
(* the broker or the messenger.  The checks of the bot's row are the       *)
(* matter of BotAdmin, accounts without a user that of AccountLink; what a *)
(* message says beyond being a command is left out.                        *)
(***************************************************************************)
EXTENDS Integers, Sequences, FiniteSets

CONSTANTS NewUpdates, CompileUpdates, CommandUpdates, MessageUpdates,
                            \* updates for an estimator bot, as in Session
          StreamUpdates,    \* for a finance bot: texts and files,
          ReportUpdates,    \*   "/report",
          HelpUpdates,      \*   any other command,
          PressUpdates,     \*   buttons
          ButtonUpdates,    \* updates that a button can send as well
          Attempts,         \* deliveries of an update before the messenger gives up
          MaxRepeats,       \* repeated deliveries in a behaviour
          SessionTTL, Expiry,
          Faults            \* which parts of the environment may fail

EstimatorUpdates == NewUpdates \cup CompileUpdates \cup CommandUpdates \cup MessageUpdates
FinanceUpdates   == StreamUpdates \cup ReportUpdates \cup HelpUpdates \cup PressUpdates
Updates          == EstimatorUpdates \cup FinanceUpdates

DeliveriesOf(updates) == updates \X (1..Attempts)
Deliveries == DeliveriesOf(Updates)

ASSUME WebhookConstants ==
    /\ Attempts \in Nat \ {0} /\ MaxRepeats \in Nat
    /\ EstimatorUpdates \cap FinanceUpdates = {}
    /\ Faults \subseteq {"storage", "broker", "messenger", "process", "patience"}

ASSUME SessionConstants ==  \* what Session assumes
    /\ SessionTTL \in Nat \ {0}
    /\ NewUpdates \cap CompileUpdates = {}
    /\ NewUpdates \cap CommandUpdates = {}
    /\ NewUpdates \cap MessageUpdates = {}
    /\ CompileUpdates \cap CommandUpdates = {}
    /\ CompileUpdates \cap MessageUpdates = {}
    /\ CommandUpdates \cap MessageUpdates = {}
    /\ Expiry \notin Deliveries

VARIABLES
    state, stateTTL, payload, payloadTTL, pc, snapshot, queue, log,   \* see Session
    module,       \* the bot's module_type
    reads,        \* what parse_webhook makes of each update, "unsent" before
    at,           \* where each delivery is
    heard,        \* what the messenger heard of it: "nothing" yet, "ok", "error",
                  \*   or "gone" when it stopped waiting or the connection broke
    published,    \* stream and report messages the broker accepted, by delivery
    trouble       \* history: deliveries that died, that the messenger stopped
                  \*   waiting for, or that failed in Redis after their change

Session == INSTANCE Session
    WITH NewRequests     <- DeliveriesOf(NewUpdates),
         CompileRequests <- DeliveriesOf(CompileUpdates),
         CommandRequests <- DeliveriesOf(CommandUpdates),
         MessageRequests <- DeliveriesOf(MessageUpdates)

sessionVars == <<state, stateTTL, payload, payloadTTL, pc, snapshot, queue, log>>
webhookVars == <<module, reads, at, heard, published, trouble>>
vars == <<sessionVars, webhookVars>>

Going == {"callback", "dispatch", "count", "reply"}

Init ==
    /\ Session!Init
    /\ module \in {"estimator", "finance", "hr"}
    /\ reads = [u \in Updates |-> "unsent"]
    /\ at = [d \in Deliveries |-> "unsent"]
    /\ heard = [d \in Deliveries |-> "nothing"]
    /\ published = <<>>
    /\ trouble = {}

-----------------------------------------------------------------------------
(***************************************************************************)
(* What becomes of an update in parse_webhook: a message; a button, which  *)
(* Telegram and MAX want answered; or a ValueError or KeyError, as for an  *)
(* update of another type or without a sender, which process_webhook turns *)
(* into 400 and handle_webhook, for Telegram, into 200.                    *)
(***************************************************************************)
Telegram(form) ==
    CASE form = "callback_query"                -> "button"
      [] form \in {"message", "edited_message"} -> "message"
      [] OTHER                                  -> "ignored"

Yandex(form) ==
    CASE form = "bot_request" -> "silent_button"
      [] form = "message"     -> "message"
      [] OTHER                -> "refused"

Max(form) ==
    CASE form = "message_callback" -> "button"
      [] form = "message_created"  -> "message"
      [] OTHER                     -> "refused"

Readings == {Telegram(form) : form \in {"callback_query", "message", "edited_message", "other"}}
            \cup {Yandex(form) : form \in {"bot_request", "message", "other"}}
            \cup {Max(form) : form \in {"message_callback", "message_created", "other"}}

Buttons    == {"button", "silent_button"}
Unreadable == {"ignored", "refused"}

\* Whatever a button of a finance bot says; an update no adapter reads says nothing.
CanBe(u, reading) ==
    CASE reading \in Buttons    -> u \in ButtonUpdates \cup PressUpdates
      [] reading = "message"    -> u \notin PressUpdates
      [] reading \in Unreadable -> u \in MessageUpdates \cup StreamUpdates

\* A slip in process_webhook: a return in its finally takes the status away.
RespondNothing(d, verdict) ==
    /\ at' = [at EXCEPT ![d] = "over"]
    /\ UNCHANGED heard

(***************************************************************************)
(* The delivery is answered.  The messenger hears it if it still listens.  *)
(***************************************************************************)
Respond(d, verdict) ==
    /\ at' = [at EXCEPT ![d] = "over"]
    /\ heard' = [heard EXCEPT ![d] = IF @ = "gone" THEN @ ELSE verdict]

Go(d, from, to) == at[d] = from /\ at' = [at EXCEPT ![d] = to]

Repeats == Cardinality({d \in Deliveries : d[2] > 1 /\ at[d] # "unsent"})

UpdatesOf(bot) ==
    CASE bot = "estimator" -> EstimatorUpdates
      [] bot = "finance"   -> FinanceUpdates
      [] OTHER             -> StreamUpdates

Due(d) ==
    /\ at[d] = "unsent"
    /\ d[1] \in UpdatesOf(module)
    /\ d[2] > 1 => heard[<<d[1], d[2] - 1>>] \in {"error", "gone"} /\ Repeats < MaxRepeats

Reading(d) ==
    IF d[2] > 1 THEN {reads[d[1]]}
    ELSE {r \in Readings : CanBe(d[1], r)}

\* The messenger delivers an update: the envelope is parsed and its user resolved.
Arrive(d) ==
    /\ Due(d)
    /\ \E r \in Reading(d) :
          /\ reads' = [reads EXCEPT ![d[1]] = r]
          /\ IF r \in Unreadable
             THEN Respond(d, IF r = "ignored" THEN "ok" ELSE "error")
             ELSE /\ Go(d, "unsent", IF r = "button" THEN "callback" ELSE "dispatch")
                  /\ UNCHANGED heard
    /\ UNCHANGED <<sessionVars, module, published, trouble>>

\* answer_callback: a network error is logged and forgotten.
AnswerCallback(d) ==
    /\ Go(d, "callback", "dispatch")
    /\ UNCHANGED <<sessionVars, module, reads, heard, published, trouble>>

\* An HTTP error, as for a button pressed too long ago, is not caught.
AnswerCallbackFails(d) ==
    /\ "messenger" \in Faults
    /\ at[d] = "callback"
    /\ Respond(d, "error")
    /\ UNCHANGED <<sessionVars, module, reads, published, trouble>>

-----------------------------------------------------------------------------
\* Where the handler is after a step of the session: at its reply, or before an await.
Stage(p) ==
    CASE p \in Session!Replied \ {"accepted"} -> "reply"
      [] p = "accepted"                       -> "count"
      [] OTHER                                -> "dispatch"

\* The steps of _dispatch_estimator that Session describes.
Estimator(d) ==
    /\ d \in Session!Requests
    /\ \/ Session!Receive(d)
       \/ Session!HandleNew(d)
       \/ Session!Accumulate(d)
       \/ Session!CompileCheck(d)
       \/ Session!CompileTake(d)
       \/ Session!Enqueue(d)
       \/ "broker" \in Faults /\ Session!BrokerUnavailable(d)
    /\ Go(d, "dispatch", Stage(pc'[d]))
    /\ UNCHANGED <<module, reads, heard, published, trouble>>

\* LLEN, for the number in the reply.
Count(d) ==
    /\ Go(d, "count", "reply")
    /\ UNCHANGED <<sessionVars, module, reads, heard, published, trouble>>

\* A database error before the user is known, or a Redis error: 500, and nothing is done.
StepFails(d) ==
    /\ "storage" \in Faults
    /\ at[d] = "dispatch"
    /\ \/ /\ d \in Session!Requests /\ pc[d] \in Session!InFlight \ {"enqueue"}
          /\ Session!Abort(d)
       \/ /\ d \in Session!Requests => pc[d] = Session!Waiting
          /\ UNCHANGED sessionVars
    /\ Respond(d, "error")
    /\ UNCHANGED <<module, reads, published, trouble>>

\* Redis executes a MULTI and the answer is lost.
AnswerLost(d) ==
    /\ "storage" \in Faults
    /\ at[d] = "dispatch" /\ d \in Session!Requests
    /\ Session!HandleNew(d) \/ Session!Accumulate(d) \/ Session!CompileTake(d)
    /\ Respond(d, "error")
    /\ trouble' = trouble \cup {d}
    /\ UNCHANGED <<module, reads, published>>

\* LLEN fails when the item is already stored.
CountFails(d) ==
    /\ "storage" \in Faults
    /\ at[d] = "count"
    /\ Respond(d, "error")
    /\ trouble' = trouble \cup {d}
    /\ UNCHANGED <<sessionVars, module, reads, published>>

-----------------------------------------------------------------------------
Finance(d, updates) == module = "finance" /\ d[1] \in updates /\ reads[d[1]] = "message"

\* send_task of process_stream_item or generate_report.
Publish(d) ==
    /\ Finance(d, StreamUpdates \cup ReportUpdates)
    /\ Go(d, "dispatch", "reply")
    /\ published' = Append(published, d)
    /\ UNCHANGED <<sessionVars, module, reads, heard, trouble>>

PublishRefused(d) ==
    /\ "broker" \in Faults
    /\ Finance(d, StreamUpdates \cup ReportUpdates)
    /\ Go(d, "dispatch", "reply")
    /\ UNCHANGED <<sessionVars, module, reads, heard, published, trouble>>

Help(d) ==
    /\ Finance(d, HelpUpdates)
    /\ Go(d, "dispatch", "reply")
    /\ UNCHANGED <<sessionVars, module, reads, heard, published, trouble>>

\* A button of a finance bot is answered and ignored.
Ignore(d) ==
    /\ module = "finance" /\ reads[d[1]] \in Buttons
    /\ at[d] = "dispatch"
    /\ Respond(d, "ok")
    /\ UNCHANGED <<sessionVars, module, reads, published, trouble>>

\* A module without a branch gets a reply that says so.
UnknownModule(d) ==
    /\ module = "hr"
    /\ Go(d, "dispatch", "reply")
    /\ UNCHANGED <<sessionVars, module, reads, heard, published, trouble>>

-----------------------------------------------------------------------------
\* A slip in the dispatch: send_text in place of _safe_send.
ReplyRaises(d) ==
    /\ at[d] = "reply"
    /\ Respond(d, "ok") \/ ("messenger" \in Faults /\ Respond(d, "error"))
    /\ UNCHANGED <<sessionVars, module, reads, published, trouble>>

\* _safe_send: whatever send_text raises is logged, and the update answered 200.
Reply(d) ==
    /\ at[d] = "reply"
    /\ Respond(d, "ok")
    /\ UNCHANGED <<sessionVars, module, reads, published, trouble>>

\* The messenger stops waiting for an answer.
StopWaiting(d) ==
    /\ "patience" \in Faults
    /\ at[d] \in Going /\ heard[d] = "nothing"
    /\ heard' = [heard EXCEPT ![d] = "gone"]
    /\ trouble' = trouble \cup {d}
    /\ UNCHANGED <<sessionVars, module, reads, at, published>>

\* The process ends, and with it the request; others may be in another process.
Die(d) ==
    /\ "process" \in Faults
    /\ at[d] \in Going
    /\ at' = [at EXCEPT ![d] = "over"]
    /\ heard' = [heard EXCEPT ![d] = "gone"]
    /\ trouble' = trouble \cup {d}
    /\ UNCHANGED <<sessionVars, module, reads, published>>

Clock == Session!Tick /\ UNCHANGED webhookVars

Handler(d) ==
    \/ AnswerCallback(d) \/ AnswerCallbackFails(d)
    \/ Estimator(d) \/ Count(d) \/ StepFails(d) \/ AnswerLost(d) \/ CountFails(d)
    \/ Publish(d) \/ PublishRefused(d) \/ Help(d) \/ Ignore(d) \/ UnknownModule(d)
    \/ Reply(d)

Next ==
    \/ \E d \in Deliveries : Arrive(d) \/ Handler(d) \/ StopWaiting(d) \/ Die(d)
    \/ Clock

Spec == Init /\ [][Next]_vars

-----------------------------------------------------------------------------
(***************************************************************************)
(* Type invariant: Session's, and whoever delivers hears something in the  *)
(* end, but only of what was delivered.                                    *)
(***************************************************************************)
TypeOK ==
    /\ Session!TypeOK
    /\ module \in {"estimator", "finance", "hr"}
    /\ reads \in [Updates -> {"unsent", "message"} \cup Buttons \cup Unreadable]
    /\ at \in [Deliveries -> Going \cup {"unsent", "over"}]
    /\ heard \in [Deliveries -> {"nothing", "ok", "error", "gone"}]
    /\ published \in Seq(Deliveries)
    /\ trouble \subseteq Deliveries
    /\ \A d \in Deliveries :
          /\ at[d] = "unsent" => heard[d] = "nothing"
          /\ at[d] = "over" => heard[d] # "nothing"

(***************************************************************************)
(* Redelivery is harmless as far as the code can make it so: an update     *)
(* changes the session, or is published, twice only if a delivery of it    *)
(* that made the change was given up by the messenger, died, or met a      *)
(* Redis error right after its change.  In particular a reply that cannot  *)
(* be sent never makes the messenger repeat what was done.                 *)
(***************************************************************************)
Changed == {d \in Deliveries : \E i \in DOMAIN log : log[i] = d} \cup Session!Elems(published)

TwiceOnlyAfterTrouble ==
    \A d, e \in Changed : d[1] = e[1] /\ d # e => d \in trouble \/ e \in trouble

(***************************************************************************)
(* What becomes of an item that was accepted and answered 200: it waits    *)
(* in the session, or a /compile handed it to Celery, is about to, said    *)
(* that the system is unavailable, or died or failed after it had drained  *)
(* the session; or the session was begun anew or expired after it.         *)
(***************************************************************************)
Accepted == {d \in Session!Requests : pc[d] = "accepted" /\ heard[d] = "ok"}

Excused(c) ==
    \/ c \in Session!Elems(queue) \/ at[c] \in Going
    \/ pc[c] = "unavailable" \/ c \in trouble

AcceptedIsAccountedFor ==
    \A d \in Accepted :
        \/ d \in Session!Elems(payload)
        \/ \E c \in DeliveriesOf(CompileUpdates) : d \in Session!Elems(snapshot[c]) /\ Excused(c)
        \/ \E i, j \in DOMAIN log :
              i < j /\ log[i] = d /\ log[j] \in DeliveriesOf(NewUpdates) \cup {Expiry}
=============================================================================
