-------------------------------- MODULE Tasks --------------------------------
(***************************************************************************)
(* The Celery tasks compile_session and process_stream_item: one worker    *)
(* child (--concurrency=1) takes a message, opens a database session, adds *)
(* and flushes a project, runs the module handler, commits, and tells the  *)
(* user.  An exception rolls the open session back, tries to mark the      *)
(* project failed in a second session, and is raised again: Celery queues  *)
(* the message anew for an httpx.RequestError until max_retries, and drops *)
(* it otherwise.  Messages are acknowledged when an attempt starts, so an  *)
(* attempt whose process is killed is not repeated.                        *)
(*                                                                         *)
(* Left out: the countdown before a retry (any delay is a stutter), what   *)
(* the handler computes (only which of its outcomes it has), and chats     *)
(* without an id, whose deliveries are in Report.                          *)
(***************************************************************************)
EXTENDS Integers, Sequences

CONSTANTS StreamTasks,    \* process_stream_item messages
          CompileTasks,   \* compile_session messages
          FinanceTasks,   \* tasks whose handler is _finance_module_handler
          MaxRetries,     \* max_retries of the task decorator
          None,
          Faults          \* which parts of the environment may fail

Tasks    == StreamTasks \cup CompileTasks
Attempts == 0..MaxRetries

ASSUME TaskConstants ==
    /\ StreamTasks \cap CompileTasks = {}
    /\ StreamTasks \subseteq FinanceTasks
    /\ FinanceTasks \subseteq Tasks
    /\ MaxRetries \in Nat
    /\ None \notin Tasks
    /\ Faults \subseteq {"database", "disk", "limits", "messenger"}

VARIABLES
    where,      \* unsent, queued, running, succeeded, failed or lost
    retries,    \* self.request.retries of the task's message
    current,    \* the task the worker child runs
    pc,         \* where in its body the attempt is
    hasId,      \* project_id is set: the flush has happened
    exc,        \* the exception in flight, "retry" for an httpx.RequestError
    result,     \* what the handler returned
    project,    \* committed status of the project of each attempt
    files,      \* CSV files of attempts on the worker's disk
    told,       \* messages the user received for each task
    aiFailed,   \* history: the last attempt lost both AI providers
    cut,        \* history: attempts cut short between opening their file and delivering it
    unrecorded  \* history: completed attempts whose failure could not be written back

attempt == <<current, pc, hasId, exc, result>>
mishaps == <<cut, unrecorded>>
vars == <<where, retries, current, pc, hasId, exc, result, project, files, told, aiFailed, cut,
          unrecorded>>

Final == {"succeeded", "failed", "lost"}
NoResult == [rows |-> FALSE, artifact |-> FALSE, fallback_failed |-> FALSE]

Init ==
    /\ where = [t \in Tasks |-> "unsent"]
    /\ retries = [t \in Tasks |-> 0]
    /\ current = None
    /\ pc = "idle"
    /\ hasId = FALSE
    /\ exc = None
    /\ result = NoResult
    /\ project = [t \in Tasks |-> [a \in Attempts |-> "absent"]]
    /\ files = {}
    /\ told = [t \in Tasks |-> <<>>]
    /\ aiFailed = [t \in Tasks |-> FALSE]
    /\ cut = {}
    /\ unrecorded = {}

\* The router's send_task reached the broker.
Publish(t) ==
    /\ where[t] = "unsent"
    /\ where' = [where EXCEPT ![t] = "queued"]
    /\ UNCHANGED <<retries, attempt, project, files, told, aiFailed, mishaps>>

\* A slip in the deployment: a message is taken while the child is busy.
StartWhileBusy(t) ==
    /\ where[t] = "queued"
    /\ where' = [where EXCEPT ![t] = "running"]
    /\ current' = t
    /\ pc' = "create"
    /\ hasId' = FALSE
    /\ exc' = None
    /\ result' = NoResult
    /\ UNCHANGED <<retries, project, files, told, aiFailed, mishaps>>

\* The worker takes a message (and acknowledges it) when its child is free.
Start(t) ==
    /\ current = None
    /\ where[t] = "queued"
    /\ where' = [where EXCEPT ![t] = "running"]
    /\ current' = t
    /\ pc' = "create"
    /\ hasId' = FALSE
    /\ exc' = None
    /\ result' = NoResult
    /\ aiFailed' = [aiFailed EXCEPT ![t] = FALSE]
    /\ UNCHANGED <<retries, project, files, told, mishaps>>

Attempt == <<current, retries[current]>>

Goto(from, to) == current # None /\ pc = from /\ pc' = to

\* An exception leaves the body; leaving the with block rolls the session back.
Raise(from, e) == Goto(from, "except") /\ exc' = e

\* session.add and session.flush: an id, and a row only this transaction sees.
CreateProject ==
    /\ Goto("create", "handle")
    /\ hasId' = TRUE
    /\ UNCHANGED <<where, retries, current, exc, result, project, files, told, aiFailed, mishaps>>

CreateFails ==
    /\ "database" \in Faults
    /\ Raise("create", "fatal")
    /\ UNCHANGED <<where, retries, current, hasId, result, project, files, told, aiFailed, mishaps>>

Returns(from, rows, artifact) ==
    /\ Goto(from, "commit")
    /\ result' = [NoResult EXCEPT !.rows = rows, !.artifact = artifact]
    /\ UNCHANGED <<where, retries, current, hasId, exc, project, told, mishaps>>

\* The estimator and hr stubs, and the finance handler when the AI found no rows.
HandleNoRows ==
    /\ Returns("handle", FALSE, FALSE)
    /\ UNCHANGED <<files, aiFailed>>

\* The finance handler with rows: _write_csv opens the file ...
HandleRows ==
    /\ current \in FinanceTasks
    /\ Goto("handle", "write")
    /\ files' = files \cup {Attempt}
    /\ UNCHANGED <<where, retries, current, hasId, exc, result, project, told, aiFailed, mishaps>>

\* ... writes it, and the handler returns its path.
WriteCsv ==
    /\ Returns("write", TRUE, TRUE)
    /\ UNCHANGED <<files, aiFailed>>

\* Both providers failed: the pipeline's fallback_failed does not reach the
\* dictionary the handler returns when there are no rows.
HandleProvidersFail ==
    /\ current \in FinanceTasks
    /\ Returns("handle", FALSE, FALSE)
    /\ aiFailed' = [aiFailed EXCEPT ![current] = TRUE]
    /\ UNCHANGED files

\* An unknown module, no text to work on, a CSV that cannot be opened; or, in the finance
\* handler, an AI connection error that is not a timeout.
HandleRaises ==
    /\ \E e \in {"fatal", "retry"} :
          /\ e = "retry" => current \in FinanceTasks
          /\ Raise("handle", e)
    /\ UNCHANGED <<where, retries, current, hasId, result, project, files, told, aiFailed, mishaps>>

CutShort == cut' = cut \cup (files \cap {Attempt}) /\ UNCHANGED unrecorded

\* An error after the file was opened leaves it torn, under a name nobody has.
WriteFails ==
    /\ "disk" \in Faults
    /\ Raise("write", "fatal")
    /\ CutShort
    /\ UNCHANGED <<where, retries, current, hasId, result, project, files, told, aiFailed>>

SetStatus(s) == project' = [project EXCEPT ![current][retries[current]] = s]

Commit ==
    /\ Goto("commit", "send")
    /\ SetStatus("completed")
    /\ UNCHANGED <<where, retries, current, hasId, exc, result, files, told, aiFailed, mishaps>>

CommitFails ==
    /\ "database" \in Faults
    /\ Raise("commit", "fatal")
    /\ CutShort
    /\ UNCHANGED <<where, retries, current, hasId, result, project, files, told, aiFailed>>

\* What this attempt has to say to the user, <<>> for nothing.
Reply ==
    IF current \in StreamTasks
    THEN IF result.fallback_failed THEN <<"apology">>
         ELSE IF result.rows THEN <<"result">> ELSE <<>>
    ELSE IF result.artifact THEN <<"result">> ELSE <<>>

\* _deliver_artifact removes the file whether or not it was delivered;
\* process_stream_item sends text and leaves its file alone.
Unlinked == IF current \in CompileTasks
            THEN files \ {Attempt} ELSE files

Deliver == told' = [told EXCEPT ![current] = @ \o Reply]

Send ==
    /\ Goto("send", "return")
    /\ Deliver
    /\ files' = Unlinked
    /\ UNCHANGED <<where, retries, current, hasId, exc, result, project, aiFailed, mishaps>>

\* A slip in an adapter: a network error while sending is not turned into ValueError.
SendFailsRetryably ==
    /\ "messenger" \in Faults
    /\ Reply # <<>>
    /\ Raise("send", "retry")
    /\ Deliver \/ UNCHANGED told
    /\ files' = Unlinked
    /\ UNCHANGED <<where, retries, current, hasId, result, project, aiFailed, mishaps>>

\* A slip in delivery: the artifact is removed only after it was sent.
SendFailsKeepsFile ==
    /\ "messenger" \in Faults
    /\ Reply # <<>>
    /\ Raise("send", "fatal")
    /\ Deliver \/ UNCHANGED told
    /\ UNCHANGED <<where, retries, current, hasId, result, project, files, aiFailed, mishaps>>

\* The adapters turn httpx.RequestError into ValueError and let HTTP errors
\* through: neither is retried.  The message may have arrived all the same.
SendFails ==
    /\ "messenger" \in Faults
    /\ Reply # <<>>
    /\ Raise("send", "fatal")
    /\ Deliver \/ UNCHANGED told
    /\ files' = Unlinked
    /\ UNCHANGED <<where, retries, current, hasId, result, project, aiFailed, mishaps>>

Idle == current' = None /\ pc' = "idle" /\ hasId' = FALSE /\ exc' = None /\ result' = NoResult

Return ==
    /\ pc = "return"
    /\ where' = [where EXCEPT ![current] = "succeeded"]
    /\ Idle
    /\ UNCHANGED <<retries, project, files, told, aiFailed, mishaps>>

\* SoftTimeLimitExceeded, an Exception, raised wherever the body happens to be.
SoftLimit ==
    /\ "limits" \in Faults
    /\ \E from \in {"create", "handle", "write", "commit", "send", "return"} :
          Raise(from, "fatal")
    /\ CutShort
    /\ UNCHANGED <<where, retries, current, hasId, result, project, files, told, aiFailed>>

\* A slip in the except branch: it logs and leaves the project alone.
RecordFailureOnlyLogs ==
    /\ Goto("except", "raise")
    /\ UNCHANGED <<where, retries, current, hasId, exc, result, project, files, told, aiFailed, mishaps>>

(***************************************************************************)
(* The except branch: a second session looks the project up by its id and, *)
(* if it finds it, commits the status "failed".  It finds only what the    *)
(* first session had committed.                                            *)
(***************************************************************************)
RecordFailure ==
    /\ Goto("except", "raise")
    /\ IF hasId /\ project[current][retries[current]] # "absent"
       THEN SetStatus("failed") ELSE UNCHANGED project
    /\ UNCHANGED <<where, retries, current, hasId, exc, result, files, told, aiFailed, mishaps>>

\* An exception in there, the time limit included, is logged and swallowed.
RecordFailureFails ==
    /\ "database" \in Faults \/ "limits" \in Faults
    /\ hasId
    /\ Goto("except", "raise")
    /\ unrecorded' = unrecorded \cup {a \in {Attempt} : project[current][a[2]] = "completed"}
    /\ UNCHANGED <<where, retries, current, hasId, exc, result, project, files, told, aiFailed, cut>>

\* A slip in the retry: the count of the new message is the old one.
ReraiseForgetsCount ==
    /\ pc = "raise"
    /\ IF exc = "retry" /\ retries[current] < MaxRetries
       THEN where' = [where EXCEPT ![current] = "queued"]
       ELSE where' = [where EXCEPT ![current] = "failed"]
    /\ Idle
    /\ UNCHANGED <<retries, project, files, told, aiFailed, mishaps>>

\* raise: autoretry_for publishes the message again, or the task has failed.
Reraise ==
    /\ pc = "raise"
    /\ IF exc = "retry" /\ retries[current] < MaxRetries
       THEN /\ where' = [where EXCEPT ![current] = "queued"]
            /\ retries' = [retries EXCEPT ![current] = @ + 1]
       ELSE /\ where' = [where EXCEPT ![current] = "failed"]
            /\ UNCHANGED retries
    /\ Idle
    /\ UNCHANGED <<project, files, told, aiFailed, mishaps>>

\* The hard time limit or the end of the worker: nobody runs the except branch.
Kill ==
    /\ "limits" \in Faults
    /\ current # None
    /\ where' = [where EXCEPT ![current] = "lost"]
    /\ Idle
    /\ CutShort
    /\ UNCHANGED <<retries, project, files, told, aiFailed>>

Body ==
    \/ CreateProject \/ CreateFails
    \/ HandleNoRows \/ HandleRows \/ HandleProvidersFail \/ HandleRaises
    \/ WriteCsv \/ WriteFails
    \/ Commit \/ CommitFails
    \/ Send \/ SendFails
    \/ Return
    \/ RecordFailure \/ RecordFailureFails
    \/ Reraise

Worker == Body \/ \E t \in Tasks : Start(t)

Next ==
    \/ \E t \in Tasks : Publish(t)
    \/ Worker
    \/ SoftLimit
    \/ Kill

\* restart: always keeps a worker running; nothing obliges the router to publish.
Spec == Init /\ [][Next]_vars /\ WF_vars(Worker)

-----------------------------------------------------------------------------
(***************************************************************************)
(* Type invariant: the worker runs exactly the task that is "running", and *)
(* a project id exists only while an attempt does.                         *)
(***************************************************************************)
TypeOK ==
    /\ where \in [Tasks -> {"unsent", "queued", "running"} \cup Final]
    /\ retries \in [Tasks -> Attempts]
    /\ current \in Tasks \cup {None}
    /\ pc \in {"idle", "create", "handle", "write", "commit", "send", "return", "except", "raise"}
    /\ hasId \in BOOLEAN
    /\ exc \in {None, "fatal", "retry"}
    /\ result \in [rows : BOOLEAN, artifact : BOOLEAN, fallback_failed : BOOLEAN]
    /\ project \in [Tasks -> [Attempts -> {"absent", "completed", "failed"}]]
    /\ files \subseteq Tasks \X Attempts
    /\ told \in [Tasks -> Seq({"result", "apology"})]
    /\ aiFailed \in [Tasks -> BOOLEAN]
    /\ cut \subseteq Tasks \X Attempts /\ unrecorded \subseteq Tasks \X Attempts
    /\ \A t \in Tasks : where[t] = "running" <=> current = t
    /\ current = None <=> pc = "idle"

(***************************************************************************)
(* However often a task is retried, at most one of its attempts leaves a   *)
(* project behind: nothing that can fail after the commit is retried.      *)
(***************************************************************************)
OneProjectPerTask ==
    \A t \in Tasks : \A a, b \in Attempts :
        project[t][a] # "absent" /\ project[t][b] # "absent" => a = b

(***************************************************************************)
(* The user hears of a task at most once, and only of a result that is     *)
(* committed, whichever step of the attempt fails or is cut short.         *)
(***************************************************************************)
ToldOnceAfterCommit ==
    \A t \in Tasks :
        /\ Len(told[t]) <= 1
        /\ told[t] # <<>> => \E a \in Attempts : project[t][a] # "absent"

(***************************************************************************)
(* A failed task never leaves a project that still says "completed": the   *)
(* except branch corrects the status of a result it could not deliver,     *)
(* unless the database or the time limit strikes it a second time there.   *)
(***************************************************************************)
FailedTaskHasNoCompletedProject ==
    \A t \in Tasks : where[t] = "failed" =>
        \A a \in Attempts : project[t][a] = "completed" => <<t, a>> \in unrecorded

(***************************************************************************)
(* compile_session leaves no CSV behind: _deliver_artifact removes it even *)
(* when the messenger refuses it.  Only an attempt cut short between       *)
(* opening the file and delivering it, by a write or a commit that fails   *)
(* or a time limit, leaves one.                                            *)
(***************************************************************************)
CompileLeavesNoFile ==
    \A t \in CompileTasks : where[t] \in Final =>
        \A a \in Attempts : <<t, a>> \in files => <<t, a>> \in cut

(***************************************************************************)
(* Every queued message comes to an end, retries included.                 *)
(***************************************************************************)
EveryTaskEnds == \A t \in Tasks : where[t] = "queued" ~> where[t] \in Final

-----------------------------------------------------------------------------
(***************************************************************************)
(* What the docstring of compile_session and a test of process_stream_item *)
(* say: a task that fails marks its project "failed".                      *)
(***************************************************************************)
FailureIsRecorded ==
    \A t \in Tasks : where[t] = "failed" =>
        \E a \in Attempts : project[t][a] = "failed"

(***************************************************************************)
(* What a test of process_stream_item says: when both AI providers fail,   *)
(* the user is sent an apology.                                            *)
(***************************************************************************)
ProviderFailureIsTold ==
    \A t \in StreamTasks :
        where[t] = "succeeded" /\ aiFailed[t] => told[t] = <<"apology">>
=============================================================================
