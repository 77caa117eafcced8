-------------------------------- MODULE Report --------------------------------
(***************************************************************************)
(* The /report command of a finance bot: the period it asks for, which the *)
(* router turns into two dates; the generate_report task, which collects   *)
(* the projects completed between them and writes their rows to a CSV      *)
(* file; and send_file of the three messengers, which delivers it.  The    *)
(* worker's one child runs tasks in the order they were published, but a   *)
(* task that is retried waits for its countdown outside the queue.         *)
(*                                                                         *)
(* Time is counted in hours.  The task of an item is one step here (module *)
(* Tasks has its inside), and an item stands for the rows of its project.  *)
(***************************************************************************)
EXTENDS Integers, Sequences

CONSTANTS Items,       \* texts and files sent to the company's finance bots
          OtherItems,  \* those of them that went to another bot
          Reports,     \* /report commands
          Commands,    \* what they may say: <<n, unit>>, or Bare
          Bare,        \* "/report" and everything the pattern does not match
          TickHours,   \* the clock advances by this much
          Horizon,     \* ... up to here
          Faults       \* the parts of the environment that may fail

ASSUME ReportConstants ==
    /\ OtherItems \subseteq Items /\ Items \cap Reports = {}
    /\ Commands \subseteq (Nat \X {"d", "w", "m"}) \cup {Bare}
    /\ Bare \notin Nat \X {"d", "w", "m"}
    /\ TickHours \in Nat \ {0} /\ Horizon \in Nat
    /\ Faults \subseteq {"database", "disk", "limits", "messenger", "provider"}

VARIABLES now,        \* the clock, UTC, in hours
          queue,      \* published tasks, oldest first
          delayed,    \* items whose task is waiting to be retried
          completed,  \* the hour an item's project was completed, or Never
          state,      \* what became of an item
          chat,       \* the chat a report is asked in
          args,       \* the arguments of a report's task
          status,     \* how far a report's task is
          rows,       \* the items whose rows it collected
          file,       \* its CSV on the worker's disk
          tries,      \* how often MAX answered attachment.not.ready
          copies,     \* where copies of the file arrived
          retried,    \* history: the items that ever had to be retried
          past        \* history: what a report is compared with, see NoPast

vars == <<now, queue, delayed, completed, state, chat, args, status, rows,
          file, tries, copies, retried, past>>
items   == <<delayed, completed, state, retried>>
command == <<chat, args>>

Never == -1
Day == 24
Date(hour) == hour \div Day

(***************************************************************************)
(* _parse_report_period.  A slip: the lower clamp is gone.                 *)
(***************************************************************************)
DaysIn(unit) == CASE unit = "d" -> 1 [] unit = "w" -> 7 [] unit = "m" -> 30

PeriodMayBeZero(c) ==
    IF c = Bare THEN 7
    ELSE LET days == c[1] * DaysIn(c[2]) IN IF days > 365 THEN 365 ELSE days

PeriodDays(c) ==
    IF c = Bare THEN 7
    ELSE LET days == c[1] * DaysIn(c[2])
         IN  IF days < 1 THEN 1 ELSE IF days > 365 THEN 365 ELSE days

Args(c) == [days |-> PeriodDays(c),
            from |-> Date(now - PeriodDays(c) * Day),
            to   |-> Date(now)]
NoArgs == [days |-> 0, from |-> 0, to |-> 0]

\* The hours the query selects: from the first one of the first day up to,
\* and without, the end of the last day.  A slip: the last day is left out.
Start(a) == a.from * Day
EndWithoutToday(a) == a.to * Day
End(a) == (a.to + 1) * Day

(***************************************************************************)
(* A Telegram chat, a Yandex chat and one without an id (the adapter finds *)
(* one only for a chat of type private), and on MAX a group or a person,   *)
(* whose number has more than eight digits or not.                         *)
(***************************************************************************)
Chat(m, kind, long) == [messenger |-> m, kind |-> kind, long |-> long]
Nameless == Chat("YM", "nameless", FALSE)
Chats == {Chat("TG", "group", TRUE), Chat("YM", "group", TRUE), Nameless}
            \cup {Chat("MX", k, l) : k \in {"group", "user"}, l \in BOOLEAN}

\* send_file takes a long number for a chat's and a short one for a user's.
Misaddressed(c) == c.messenger = "MX" /\ c.long # (c.kind = "group")
Addressee(c) == IF Misaddressed(c) THEN "stranger" ELSE "asker"

Preparing == {"opened", "addressed"}
Sending == Preparing \cup {"uploaded"}
Closing == {"posted", "refused"}
Running == {"collected", "written"} \cup Sending \cup Closing
Left == {"unwritten", "killed", "cut short", "unaddressed", "unclosed"}
Ended == Left \cup {"sent", "nothing", "failed"}

\* What a report is compared with: when it was asked for, which items had
\* been published by then, and which were completed when the query ran.
NoPast == [asked |-> 0, ahead |-> {}, known |-> {}]

TypeOK ==
    /\ now \in 0..Horizon
    /\ queue \in Seq(Items \cup Reports)
    /\ delayed \subseteq Items
    /\ completed \in [Items -> (0..Horizon) \cup {Never}]
    /\ state \in [Items -> {"unsent", "queued", "completed", "failed"}]
    /\ chat \in [Reports -> Chats]
    /\ args \in [Reports -> [days : 1..365, from : Int, to : Int] \cup {NoArgs}]
    /\ status \in [Reports -> {"unasked", "queued"} \cup Running \cup Ended]
    /\ rows \in [Reports -> SUBSET Items]
    /\ file \in [Reports -> {"none", "torn", "whole"}]
    /\ tries \in [Reports -> 0..2]
    /\ copies \in [Reports -> Seq({"asker", "stranger"})]
    /\ retried \subseteq Items
    /\ past \in [Reports -> [asked : 0..Horizon, ahead : SUBSET Items,
                             known : SUBSET Items]]

Init ==
    /\ now = 0 /\ queue = <<>> /\ delayed = {}
    /\ completed = [i \in Items |-> Never]
    /\ state = [i \in Items |-> "unsent"]
    /\ chat \in [Reports -> Chats]
    /\ args = [r \in Reports |-> NoArgs]
    /\ status = [r \in Reports |-> "unasked"]
    /\ rows = [r \in Reports |-> {}]
    /\ file = [r \in Reports |-> "none"]
    /\ tries = [r \in Reports |-> 0]
    /\ copies = [r \in Reports |-> <<>>]
    /\ retried = {} /\ past = [r \in Reports |-> NoPast]

-----------------------------------------------------------------------------
(* The router publishes a task for every item and every /report command. *)

Publish(i) ==
    /\ state[i] = "unsent"
    /\ state' = [state EXCEPT ![i] = "queued"]
    /\ queue' = Append(queue, i)
    /\ UNCHANGED <<now, delayed, completed, command, status, rows, file, tries,
                   copies, retried, past>>

Asked(r, c) ==
    /\ status[r] = "unasked"
    /\ args' = [args EXCEPT ![r] = Args(c)]
    /\ status' = [status EXCEPT ![r] = "queued"]
    /\ past' = [past EXCEPT ![r] = [asked |-> now,
                                    ahead |-> {i \in Items : state[i] # "unsent"},
                                    known |-> {}]]
    /\ UNCHANGED <<now, items, chat, rows, file, tries, copies>>

\* A slip: reports jump the queue.
AskFirst(r, c) == Asked(r, c) /\ queue' = <<r>> \o queue

Ask(r, c) == Asked(r, c) /\ queue' = Append(queue, r)

-----------------------------------------------------------------------------
(* The worker.  Its child is free when no report is being made. *)

Free == \A r \in Reports : status[r] \notin Running
Takes(t) == Free /\ queue # <<>> /\ Head(queue) = t /\ queue' = Tail(queue)

\* process_stream_item ends for good, or the provider's network error has it
\* retried.  The bound: an item is retried once.
Process(i) ==
    /\ Takes(i)
    /\ \/ /\ state' = [state EXCEPT ![i] = "completed"]
          /\ completed' = [completed EXCEPT ![i] = now]
          /\ UNCHANGED <<delayed, retried>>
       \/ /\ "provider" \in Faults
          /\ state' = [state EXCEPT ![i] = "failed"]
          /\ UNCHANGED <<delayed, completed, retried>>
       \/ /\ "provider" \in Faults /\ i \notin retried
          /\ delayed' = delayed \cup {i}
          /\ retried' = retried \cup {i}
          /\ UNCHANGED <<state, completed>>
    /\ UNCHANGED <<now, command, status, rows, file, tries, copies, past>>

CountdownEnds(i) ==
    /\ i \in delayed
    /\ delayed' = delayed \ {i}
    /\ queue' = Append(queue, i)
    /\ UNCHANGED <<now, completed, state, command, status, rows, file, tries,
                   copies, retried, past>>

Tick ==
    /\ now + TickHours <= Horizon
    /\ now' = now + TickHours
    /\ UNCHANGED <<queue, items, command, status, rows, file, tries, copies, past>>

\* generate_report: the query.  Without rows a text is sent instead of a file
\* (a nameless chat gets nothing: the messenger refuses it).
Selected(a) == {i \in Items \ OtherItems :
                    state[i] = "completed" /\ completed[i] \in Start(a)..(End(a) - 1)}

Collect(r) ==
    /\ Takes(r)
    /\ rows' = [rows EXCEPT ![r] = Selected(args[r])]
    /\ past' = [past EXCEPT ![r].known = {i \in Items : state[i] = "completed"}]
    /\ status' = [status EXCEPT ![r] = IF rows'[r] = {} THEN "nothing"
                                       ELSE "collected"]
    /\ UNCHANGED <<now, items, command, file, tries, copies>>

\* A database error is not among those the task is retried for.
QueryFails(r) ==
    /\ "database" \in Faults
    /\ Takes(r)
    /\ status' = [status EXCEPT ![r] = "failed"]
    /\ UNCHANGED <<now, items, command, rows, file, tries, copies, past>>

\* What the remaining steps of a report leave alone.
Rest == <<now, queue, items, command, rows, past>>

\* _write_report_csv: an OSError leaves what was written.
Write(r) ==
    /\ status[r] = "collected"
    /\ \/ /\ file' = [file EXCEPT ![r] = "whole"]
          /\ status' = [status EXCEPT ![r] = "written"]
       \/ /\ "disk" \in Faults
          /\ file' \in {file, [file EXCEPT ![r] = "torn"]}
          /\ status' = [status EXCEPT ![r] = "unwritten"]
    /\ UNCHANGED <<Rest, tries, copies>>

-----------------------------------------------------------------------------
(* _deliver_artifact and send_file. *)

\* Without a chat id nothing is sent and nothing is removed.
Deliver(r) ==
    /\ status[r] = "written"
    /\ status' = [status EXCEPT ![r] = IF chat[r] = Nameless THEN "unaddressed"
                                       ELSE "opened"]
    /\ UNCHANGED <<Rest, file, tries, copies>>

\* MAX: the upload URL, then the upload.
Prepare(r) ==
    /\ status[r] \in Preparing /\ chat[r].messenger = "MX"
    /\ status' = [status EXCEPT ![r] = IF @ = "opened" THEN "addressed" ELSE "uploaded"]
    /\ UNCHANGED <<Rest, file, tries, copies>>

CanPost(r) == status[r] = (IF chat[r].messenger = "MX" THEN "uploaded" ELSE "opened")
Arrives(r) == copies' = [copies EXCEPT ![r] = Append(@, Addressee(chat[r]))]

\* What send_file came to; the file goes in the finally that follows.
Answered(r, outcome) == status' = [status EXCEPT ![r] = outcome] /\ UNCHANGED file

Post(r) ==
    /\ CanPost(r)
    /\ Arrives(r)
    /\ Answered(r, "posted")
    /\ UNCHANGED <<Rest, tries>>

\* MAX is still working on the upload: three tries in all.
NotReady(r) ==
    /\ CanPost(r) /\ chat[r].messenger = "MX"
    /\ IF tries[r] < 2
       THEN tries' = [tries EXCEPT ![r] = @ + 1] /\ UNCHANGED <<status, file>>
       ELSE Answered(r, "refused") /\ UNCHANGED tries
    /\ UNCHANGED <<Rest, copies>>

\* A call is refused or lost on its way.
CallFails(r) ==
    /\ status[r] \in Sending
    /\ "messenger" \in Faults \/ Misaddressed(chat[r])
    /\ Answered(r, "refused")
    /\ UNCHANGED <<Rest, tries, copies>>

\* The answer to the message that carries the file is lost: send_file makes a
\* ValueError of it, for which neither it nor the task tries again.  A slip:
\* it counts as one of the three tries.
AnswerLostRetried(r) ==
    /\ "messenger" \in Faults
    /\ CanPost(r) /\ tries[r] < 2
    /\ Arrives(r)
    /\ tries' = [tries EXCEPT ![r] = @ + 1]
    /\ UNCHANGED <<Rest, status, file>>

AnswerLost(r) ==
    /\ "messenger" \in Faults
    /\ CanPost(r)
    /\ Arrives(r)
    /\ Answered(r, "refused")
    /\ UNCHANGED <<Rest, tries>>

\* The finally of _send: the adapter's client is closed, then the file goes,
\* whatever send_file came to.  A slip: only once it has been sent.
Closed(r) == status' = [status EXCEPT ![r] = IF @ = "posted" THEN "sent" ELSE "failed"]

CloseWhenSent(r) ==
    /\ status[r] \in Closing
    /\ Closed(r)
    /\ file' = IF status[r] = "posted" THEN [file EXCEPT ![r] = "none"] ELSE file
    /\ UNCHANGED <<Rest, tries, copies>>

Close(r) ==
    /\ status[r] \in Closing
    /\ Closed(r)
    /\ file' = [file EXCEPT ![r] = "none"]
    /\ UNCHANGED <<Rest, tries, copies>>

\* The soft limit raises in the task: the finally removes the file if send_file
\* was still running; if the limit comes before that, or in aclose, which stands
\* before the unlink, nobody does.  An error of aclose does the same.
SoftLimit(r) ==
    /\ "limits" \in Faults
    /\ \/ status[r] \in Sending /\ Answered(r, "refused")
       \/ status[r] \in Closing /\ Answered(r, "unclosed")
       \/ /\ status[r] \in {"collected", "written"}
          /\ status' = [status EXCEPT ![r] = "cut short"]
          /\ file' \in {file, [file EXCEPT ![r] =
                                   IF status[r] = "collected" THEN "torn" ELSE @]}
    /\ UNCHANGED <<Rest, tries, copies>>

Kill(r) ==
    /\ "limits" \in Faults
    /\ status[r] \in Running
    /\ status' = [status EXCEPT ![r] = "killed"]
    /\ UNCHANGED <<Rest, file, tries, copies>>

Report(r) == \/ Collect(r) \/ QueryFails(r) \/ Write(r) \/ Deliver(r)
             \/ Prepare(r) \/ Post(r) \/ NotReady(r) \/ CallFails(r)
             \/ AnswerLost(r) \/ Close(r) \/ SoftLimit(r) \/ Kill(r)

Next == \/ \E i \in Items : Publish(i) \/ Process(i) \/ CountdownEnds(i)
        \/ \E r \in Reports : (\E c \in Commands : Ask(r, c)) \/ Report(r)
        \/ Tick

Spec == Init /\ [][Next]_vars

-----------------------------------------------------------------------------
(***************************************************************************)
(* CoversThePeriod: whoever asks for n days gets everything completed in   *)
(* the n times 24 hours before they asked, and whatever is completed after *)
(* that up to the query, the same day; what is older than n + 1 days, of a *)
(* later day or another bot's is not in the file.  The two ends of         *)
(* _parse_report_period are dates, those of the query moments.             *)
(***************************************************************************)
Own(S) == S \ OtherItems
Hours(r) == args[r].days * Day

CoversThePeriod ==
    \A r \in Reports : LET p == past[r] IN
        /\ rows[r] \subseteq Own(p.known)
        /\ \A i \in rows[r] :
               /\ p.asked - completed[i] < Hours(r) + Day
               /\ Date(completed[i]) <= Date(p.asked)
        /\ status[r] \in Running \cup {"sent", "nothing", "unaddressed"} =>
               \A i \in Own(p.known) :
                   completed[i] >= p.asked - Hours(r)
                       /\ Date(completed[i]) <= Date(p.asked) => i \in rows[r]

(***************************************************************************)
(* SentBeforeIsReported: what was sent to the bot before /report is in the *)
(* report, although it may not have been looked at by then: the worker     *)
(* takes it first.  Three kinds of items are missing without a word: those *)
(* whose task failed or was being retried, and those processed on the next *)
(* day, because date_to was set when the command came.                     *)
(***************************************************************************)
SentBeforeIsReported ==
    \A r \in Reports : status[r] \in Running \cup {"sent", "nothing", "unaddressed"} =>
        \A i \in Own(past[r].ahead) :
            \/ i \in rows[r]
            \/ state[i] = "failed" \/ i \in retried
            \/ /\ state[i] = "completed"
               /\ \/ Date(completed[i]) > Date(past[r].asked)
                  \/ completed[i] < past[r].asked - Hours(r)

(***************************************************************************)
(* ArrivesOnce: a report arrives at most once, whatever is lost, and where *)
(* it was asked for, except that on MAX a number whose length contradicts  *)
(* its kind is somebody else's.                                            *)
(***************************************************************************)
ArrivesOnce ==
    \A r \in Reports :
        /\ Len(copies[r]) <= 1
        /\ status[r] \in {"posted", "sent"} =>
               \/ copies[r] = <<"asker">>
               \/ chat[r] \in {Chat("MX", "user", TRUE), Chat("MX", "group", FALSE)}

(***************************************************************************)
(* NoReportLeft: a report's file is gone when its task ends, unless it     *)
(* could not be written, the chat has no id, or the task was stopped:      *)
(* killed, or by the soft limit before the delivery began or while the     *)
(* adapter was being closed (the five ways in Left).                       *)
(***************************************************************************)
NoReportLeft ==
    \A r \in Reports : status[r] \in Ended \ Left => file[r] = "none"
=============================================================================
