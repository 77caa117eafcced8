----------------------------- MODULE TasksProofs -----------------------------
(***************************************************************************)
(* For any messages and any max_retries, under every fault: the types of   *)
(* Tasks and its four safety invariants.                                   *)
(***************************************************************************)
EXTENDS Tasks, TLAPS

\* The committed status of the project of a task's latest attempt.
Latest(t) == project[t][retries[t]]

(***************************************************************************)
(* Only the latest attempt of a task may have committed: an attempt has    *)
(* nothing in the database before its commit, and is retried only for what *)
(* happens before it.                                                      *)
(***************************************************************************)
OnlyTheLatest ==
    \A t \in Tasks : \A a \in Attempts : a # retries[t] => project[t][a] = "absent"

CommitsLast ==
    /\ \A t \in Tasks : where[t] \in {"unsent", "queued"} => Latest(t) = "absent"
    /\ pc \in {"create", "handle", "write", "commit"} => Latest(current) = "absent"
    /\ pc \in {"send", "return"} => Latest(current) = "completed"
    /\ pc \in {"except", "raise"} /\ exc = "retry" => Latest(current) = "absent"

\* An attempt that has committed knows the id of its project.
KnowsItsProject ==
    /\ pc \in {"handle", "write", "commit", "send", "return"} => hasId
    /\ pc = "except" /\ Latest(current) = "completed" => hasId

\* Nothing is said before the send, and one thing at most by it.
SaysItOnce ==
    /\ \A t \in Tasks : told[t] \in {<<>>, <<"result">>, <<"apology">>}
    /\ \A t \in Tasks : told[t] # <<>> => Latest(t) # "absent"
    /\ pc = "send" => told[current] = <<>>

\* What the except branch has seen to stays seen to when the task fails.
Corrected ==
    /\ pc = "raise" /\ Latest(current) = "completed" => Attempt \in unrecorded
    /\ \A t \in Tasks :
          where[t] = "failed" /\ Latest(t) = "completed" => <<t, retries[t]>> \in unrecorded

\* A file of a compile attempt is on its way to the delivery, or was cut short.
FilesAreDelivered ==
    \A t \in CompileTasks : \A a \in Attempts : <<t, a>> \in files =>
        \/ <<t, a>> \in cut
        \/ current = t /\ a = retries[t] /\ pc \in {"write", "commit", "send"}

Inv ==
    /\ TypeOK
    /\ OnlyTheLatest /\ CommitsLast /\ KnowsItsProject
    /\ SaysItOnce /\ Corrected /\ FilesAreDelivered

USE TaskConstants

LEMMA InvInit == Init => Inv
<1> SUFFICES ASSUME Init PROVE Inv
  OBVIOUS
<1>0. 0 \in Attempts /\ \A t \in Tasks : t # None
  BY DEF Attempts
<1>1. TypeOK
  <2>1. /\ project \in [Tasks -> [Attempts -> {"absent", "completed", "failed"}]]
        /\ told \in [Tasks -> Seq({"result", "apology"})]
        /\ result \in [rows : BOOLEAN, artifact : BOOLEAN, fallback_failed : BOOLEAN]
    BY DEF Init, NoResult
  <2>2. /\ where \in [Tasks -> {"unsent", "queued", "running"} \cup Final]
        /\ retries \in [Tasks -> Attempts]
        /\ aiFailed \in [Tasks -> BOOLEAN]
    BY <1>0 DEF Init
  <2>3. QED
    BY <1>0, <2>1, <2>2 DEF Init, TypeOK
<1>2. OnlyTheLatest /\ CommitsLast /\ KnowsItsProject
  <2>1. \A t \in Tasks : \A a \in Attempts : project[t][a] = "absent"
    BY DEF Init
  <2>2. \A t \in Tasks : retries[t] \in Attempts
    BY <1>0 DEF Init
  <2>3. pc = "idle"
    BY DEF Init
  <2>4. QED
    BY <2>1, <2>2, <2>3 DEF OnlyTheLatest, CommitsLast, KnowsItsProject, Latest
<1>3. SaysItOnce /\ Corrected /\ FilesAreDelivered
  BY DEF Init, SaysItOnce, Corrected, FilesAreDelivered
<1>4. QED
  BY <1>1, <1>2, <1>3 DEF Inv

\* A busy worker has a task and an attempt.
LEMMA Busy ==
    ASSUME Inv, current # None
    PROVE  /\ current \in Tasks
           /\ where[current] = "running"
           /\ retries[current] \in Attempts
           /\ Attempt \in Tasks \X Attempts
BY DEF Inv, TypeOK, Attempt

-----------------------------------------------------------------------------
(***************************************************************************)
(* Steps of the body that neither touch the database nor say anything.     *)
(***************************************************************************)
Quiet ==
    \/ CreateProject \/ CreateFails
    \/ HandleNoRows \/ HandleRows \/ HandleProvidersFail \/ HandleRaises
    \/ WriteCsv \/ WriteFails
    \/ CommitFails \/ SoftLimit

LEMMA QuietKeepsInv ==
    ASSUME Inv, Quiet
    PROVE  Inv'
<1>1. /\ current # None
      /\ UNCHANGED <<where, retries, current, project, told, unrecorded>>
  BY DEF Quiet, CreateProject, CreateFails, HandleNoRows, HandleRows, HandleProvidersFail,
         HandleRaises, WriteCsv, WriteFails, CommitFails, SoftLimit, CutShort, mishaps, Returns,
         Raise, Goto
<1> USE <1>1
<1>2. TypeOK'
  <2>1. CASE CreateProject
    BY <2>1 DEF CreateProject, Goto, mishaps, Inv, TypeOK
  <2>2. CASE CreateFails
    BY <2>2 DEF CreateFails, Raise, Goto, mishaps, Inv, TypeOK
  <2>3. CASE HandleNoRows \/ HandleRows \/ HandleProvidersFail \/ WriteCsv
    BY <2>3, Busy DEF HandleNoRows, HandleRows, HandleProvidersFail, WriteCsv, Returns, Goto,
                      NoResult, mishaps, Inv, TypeOK
  <2>4. CASE HandleRaises
    BY <2>4 DEF HandleRaises, Raise, Goto, mishaps, Inv, TypeOK
  <2>5. CASE WriteFails \/ CommitFails \/ SoftLimit
    BY <2>5, Busy DEF WriteFails, CommitFails, SoftLimit, CutShort, Raise, Goto, Inv, TypeOK
  <2>6. QED
    BY <2>1, <2>2, <2>3, <2>4, <2>5 DEF Quiet
<1>3. /\ OnlyTheLatest' /\ SaysItOnce' /\ Corrected'
      /\ CommitsLast' /\ KnowsItsProject'
  <2>1. OnlyTheLatest'
    BY DEF Inv, OnlyTheLatest
  <2>2. /\ pc' \notin {"send", "raise", "return"}
        /\ pc' = "except" /\ exc' = "retry" => pc = "handle"
        /\ pc' \in {"create", "handle", "write", "commit"} =>
              pc \in {"create", "handle", "write", "commit"}
        /\ pc' \in {"handle", "write", "commit"} => hasId'
        /\ pc' = "except" =>
              hasId' = hasId /\ pc \in {"create", "handle", "write", "commit", "send", "return"}
    BY DEF Quiet, CreateProject, CreateFails, HandleNoRows, HandleRows, HandleProvidersFail,
           HandleRaises, WriteCsv, WriteFails, CommitFails, SoftLimit, Returns, Raise, Goto, Inv,
           CommitsLast, KnowsItsProject
  <2>3. SaysItOnce' /\ Corrected'
    BY <2>2 DEF Inv, SaysItOnce, Corrected, Latest
  <2>4. CommitsLast'
    BY <2>2 DEF Inv, CommitsLast, Latest
  <2>5. KnowsItsProject'
    BY <2>2 DEF Inv, CommitsLast, KnowsItsProject, Latest
  <2>6. QED
    BY <2>1, <2>3, <2>4, <2>5
<1>4. FilesAreDelivered'
  <2>1. CASE CreateProject \/ CreateFails \/ HandleRaises
    BY <2>1 DEF CreateProject, CreateFails, HandleRaises, Raise, Goto, mishaps, Inv,
                FilesAreDelivered
  <2>2. CASE HandleNoRows \/ HandleRows \/ HandleProvidersFail \/ WriteCsv
    BY <2>2 DEF HandleNoRows, HandleRows, HandleProvidersFail, WriteCsv, Returns, Goto, mishaps,
                Attempt, Inv, FilesAreDelivered
  <2>3. CASE WriteFails \/ CommitFails \/ SoftLimit
    BY <2>3 DEF WriteFails, CommitFails, SoftLimit, CutShort, Raise, Goto, Attempt, Inv,
                FilesAreDelivered
  <2>4. QED
    BY <2>1, <2>2, <2>3 DEF Quiet
<1>5. QED
  BY <1>2, <1>3, <1>4 DEF Inv

-----------------------------------------------------------------------------
(***************************************************************************)
(* The commit, the send, and the except branch.                            *)
(***************************************************************************)
LEMMA CommitKeepsInv ==
    ASSUME Inv, Commit
    PROVE  Inv'
<1>1. /\ current \in Tasks /\ where[current] = "running" /\ retries[current] \in Attempts
      /\ current # None
  BY Busy DEF Commit, Goto
<1>2. TypeOK'
  BY <1>1 DEF Commit, SetStatus, Goto, mishaps, Inv, TypeOK
<1>3. /\ \A t \in Tasks : \A a \in Attempts :
            project'[t][a] = IF t = current /\ a = retries[current]
                             THEN "completed" ELSE project[t][a]
      /\ pc = "commit" /\ pc' = "send"
      /\ UNCHANGED <<where, retries, current, hasId, exc, result, files, told, aiFailed, mishaps>>
  BY <1>1 DEF Commit, SetStatus, Goto, Inv, TypeOK
<1>4. \A t \in Tasks : retries[t] \in Attempts
  BY DEF Inv, TypeOK
<1>5. OnlyTheLatest'
  BY <1>1, <1>3 DEF Inv, OnlyTheLatest
<1>7. CommitsLast' /\ KnowsItsProject'
  BY <1>1, <1>3, <1>4 DEF Inv, CommitsLast, KnowsItsProject, Latest
<1>8. SaysItOnce'
  BY <1>1, <1>3, <1>4 DEF Inv, CommitsLast, SaysItOnce, Latest
<1>9. Corrected'
  <2>1. \A t \in Tasks : where[t] = "failed" => t # current /\ Latest(t)' = Latest(t)
    BY <1>1, <1>3, <1>4 DEF Latest
  <2>2. QED
    BY <1>3, <2>1 DEF Inv, Corrected, mishaps
<1>10. FilesAreDelivered'
  BY <1>3 DEF Inv, FilesAreDelivered, mishaps
<1>11. QED
  BY <1>2, <1>5, <1>7, <1>8, <1>9, <1>10 DEF Inv

LEMMA ReplyIsOne == Reply \in {<<>>, <<"result">>, <<"apology">>}
BY DEF Reply

\* Sending: the told sequence was empty, and holds the reply or nothing.
LEMMA SendingKeepsInv ==
    ASSUME Inv, Send \/ SendFails
    PROVE  Inv'
<1>1. /\ current # None /\ pc = "send"
      /\ UNCHANGED <<where, retries, current, hasId, result, project, aiFailed, mishaps>>
      /\ files' = Unlinked
      /\ Deliver \/ UNCHANGED told
      /\ \/ pc' = "return" /\ UNCHANGED exc
         \/ pc' = "except" /\ exc' = "fatal"
  BY DEF Send, SendFails, Raise, Goto
<1>2. /\ current \in Tasks /\ where[current] = "running" /\ retries[current] \in Attempts
  BY <1>1, Busy
<1>3. /\ told' \in [Tasks -> Seq({"result", "apology"})]
      /\ \A t \in Tasks : told'[t] \in {<<>>, <<"result">>, <<"apology">>}
      /\ \A t \in Tasks : t # current => told'[t] = told[t]
  <2>1. CASE UNCHANGED told
    BY <2>1 DEF Inv, TypeOK, SaysItOnce
  <2>2. CASE Deliver
    <3>1. told[current] = <<>>
      BY <1>1 DEF Inv, SaysItOnce
    <3>2. told' = [told EXCEPT ![current] = <<>> \o Reply]
      BY <2>2, <3>1, <1>2 DEF Deliver, Inv, TypeOK
    <3>3. <<>> \o Reply \in {<<>>, <<"result">>, <<"apology">>}
      BY ReplyIsOne
    <3>4. {<<>>, <<"result">>, <<"apology">>} \subseteq Seq({"result", "apology"})
      OBVIOUS
    <3>5. QED
      BY <1>2, <3>2, <3>3, <3>4 DEF Inv, TypeOK, SaysItOnce
  <2>3. QED
    BY <1>1, <2>1, <2>2
<1>4. files' \subseteq files /\ (current \in CompileTasks => files' = files \ {Attempt})
  BY <1>1 DEF Unlinked
<1>5. TypeOK'
  BY <1>1, <1>3, <1>4 DEF mishaps, Inv, TypeOK
<1>6. OnlyTheLatest' /\ CommitsLast' /\ KnowsItsProject'
  BY <1>1 DEF Inv, OnlyTheLatest, CommitsLast, KnowsItsProject, Latest
<1>7. SaysItOnce'
  BY <1>1, <1>2, <1>3 DEF Inv, CommitsLast, SaysItOnce, Latest
<1>8. Corrected'
  BY <1>1 DEF mishaps, Inv, Corrected, Latest
<1>9. FilesAreDelivered'
  BY <1>1, <1>4 DEF mishaps, Attempt, Inv, FilesAreDelivered
<1>10. QED
  BY <1>5, <1>6, <1>7, <1>8, <1>9 DEF Inv

\* The except branch leaves "completed" only where it could not write.
LEMMA RecordFailureKeepsInv ==
    ASSUME Inv, RecordFailure
    PROVE  Inv'
<1>1. /\ current # None /\ pc = "except" /\ pc' = "raise"
      /\ UNCHANGED <<where, retries, current, hasId, exc, result, files, told, aiFailed, mishaps>>
  BY DEF RecordFailure, Goto
<1>2. /\ current \in Tasks /\ where[current] = "running" /\ retries[current] \in Attempts
  BY <1>1, Busy
<1>3. /\ project' \in [Tasks -> [Attempts -> {"absent", "completed", "failed"}]]
      /\ \A t \in Tasks : \A a \in Attempts :
            t # current \/ a # retries[current] => project'[t][a] = project[t][a]
      /\ Latest(current)' # "completed"
      /\ Latest(current)' = "absent" <=> Latest(current) = "absent"
  <2>1. CASE hasId /\ project[current][retries[current]] # "absent"
    <3>1. project' = [project EXCEPT ![current][retries[current]] = "failed"]
      BY <2>1 DEF RecordFailure, SetStatus
    <3>2. Latest(current)' = "failed"
      BY <1>1, <1>2, <3>1 DEF Latest, Inv, TypeOK
    <3>3. QED
      BY <1>2, <2>1, <3>1, <3>2 DEF Latest, Inv, TypeOK
  <2>2. CASE ~(hasId /\ project[current][retries[current]] # "absent")
    <3>1. UNCHANGED project
      BY <2>2 DEF RecordFailure
    <3>2. Latest(current) # "completed"
      BY <1>1, <2>2 DEF Inv, KnowsItsProject, Latest
    <3>3. QED
      BY <1>1, <3>1, <3>2 DEF Latest, Inv, TypeOK
  <2>3. QED
    BY <2>1, <2>2
<1>4. \A t \in Tasks : retries[t] \in Attempts
  BY DEF Inv, TypeOK
<1>5. TypeOK'
  BY <1>1, <1>3 DEF mishaps, Inv, TypeOK
<1>6. OnlyTheLatest' /\ KnowsItsProject'
  BY <1>1, <1>2, <1>3 DEF Inv, OnlyTheLatest, KnowsItsProject
<1>7. CommitsLast'
  BY <1>1, <1>2, <1>3, <1>4 DEF Inv, CommitsLast, Latest
<1>8. SaysItOnce'
  BY <1>1, <1>2, <1>3, <1>4 DEF Inv, SaysItOnce, Latest
<1>9. Corrected' /\ FilesAreDelivered'
  BY <1>1, <1>2, <1>3, <1>4 DEF mishaps, Inv, Corrected, FilesAreDelivered, Latest
<1>10. QED
  BY <1>5, <1>6, <1>7, <1>8, <1>9 DEF Inv

LEMMA RecordFailureFailsKeepsInv ==
    ASSUME Inv, RecordFailureFails
    PROVE  Inv'
<1>1. /\ current # None /\ pc = "except" /\ pc' = "raise"
      /\ UNCHANGED <<where, retries, current, hasId, exc, result, project, files, told, aiFailed,
                     cut>>
      /\ unrecorded' = unrecorded \cup {a \in {Attempt} : project[current][a[2]] = "completed"}
  BY DEF RecordFailureFails, Goto
<1>2. /\ unrecorded \subseteq unrecorded'
      /\ unrecorded' \subseteq Tasks \X Attempts
      /\ Latest(current) = "completed" => Attempt \in unrecorded'
  BY <1>1, Busy DEF Latest, Attempt, Inv, TypeOK
<1>3. TypeOK'
  BY <1>1, <1>2 DEF Inv, TypeOK
<1>4. OnlyTheLatest' /\ CommitsLast' /\ KnowsItsProject' /\ SaysItOnce'
  BY <1>1 DEF Inv, OnlyTheLatest, CommitsLast, KnowsItsProject, SaysItOnce, Latest
<1>5. Corrected' /\ FilesAreDelivered'
  BY <1>1, <1>2 DEF Inv, Corrected, FilesAreDelivered, Latest, Attempt
<1>6. QED
  BY <1>3, <1>4, <1>5 DEF Inv

-----------------------------------------------------------------------------
(***************************************************************************)
(* The ways an attempt ends, and the ways one begins.                      *)
(***************************************************************************)
Ends == Return \/ Reraise \/ Kill

\* A task that is queued anew has no project and has said nothing.
LEMMA EndsKeepsInv ==
    ASSUME Inv, Ends
    PROVE  Inv'
<1>1. /\ current \in Tasks /\ where[current] = "running" /\ retries[current] \in Attempts
      /\ current # None /\ Attempt \in Tasks \X Attempts
  <2>1. current # None
    BY DEF Ends, Return, Reraise, Kill, Inv, TypeOK
  <2>2. QED
    BY <2>1, Busy
<1>2. /\ current' = None /\ pc' = "idle" /\ hasId' = FALSE /\ exc' = None
      /\ UNCHANGED <<project, files, told, aiFailed, unrecorded>>
  BY DEF Ends, Return, Reraise, Kill, Idle, CutShort, mishaps
<1>3. /\ cut \subseteq cut' /\ cut' \subseteq Tasks \X Attempts
      /\ <<current, retries[current]>> \in files /\ pc \in {"write", "commit", "send"} =>
            <<current, retries[current]>> \in cut'
  BY <1>1 DEF Ends, Return, Reraise, Kill, CutShort, mishaps, Attempt, Inv, TypeOK
<1>4. /\ where' \in [Tasks -> {"unsent", "queued", "running"} \cup Final]
      /\ where'[current] # "running"
      /\ \A t \in Tasks : t # current => where'[t] = where[t]
      /\ where'[current] \notin {"unsent"}
      /\ where'[current] = "failed" => pc = "raise"
      /\ where'[current] = "queued" => pc = "raise" /\ exc = "retry"
  BY <1>1 DEF Ends, Return, Reraise, Kill, Final, Inv, TypeOK
<1>5. \/ UNCHANGED retries /\ where'[current] # "queued"
      \/ /\ retries[current] < MaxRetries
         /\ retries' = [retries EXCEPT ![current] = @ + 1]
         /\ where'[current] = "queued"
  BY <1>1 DEF Ends, Return, Reraise, Kill, Inv, TypeOK
<1>6. /\ retries' \in [Tasks -> Attempts]
      /\ \A t \in Tasks : t # current => retries'[t] = retries[t]
      /\ retries'[current] # retries[current] => where'[current] = "queued"
      /\ where'[current] = "queued" => retries'[current] # retries[current]
  <2>1. CASE UNCHANGED retries /\ where'[current] # "queued"
    BY <2>1 DEF Inv, TypeOK
  <2>2. CASE /\ retries[current] < MaxRetries
             /\ retries' = [retries EXCEPT ![current] = @ + 1]
             /\ where'[current] = "queued"
    <3>1. retries[current] + 1 \in Attempts /\ retries[current] + 1 # retries[current]
      BY <1>1, <2>2 DEF Attempts
    <3>2. QED
      BY <1>1, <2>2, <3>1 DEF Inv, TypeOK
  <2>3. QED
    BY <1>5, <2>1, <2>2
<1>7. TypeOK'
  <2>1. result' \in [rows : BOOLEAN, artifact : BOOLEAN, fallback_failed : BOOLEAN]
    <3>1. result' = NoResult
      BY DEF Ends, Return, Reraise, Kill, Idle
    <3>2. QED
      BY <3>1 DEF NoResult
  <2>2. \A t \in Tasks : where'[t] = "running" <=> current' = t
    BY <1>1, <1>2, <1>4 DEF Inv, TypeOK
  <2>3. QED
    BY <1>1, <1>2, <1>3, <1>4, <1>6, <2>1, <2>2 DEF Inv, TypeOK
<1>8. \A a \in Attempts : where'[current] = "queued" => project[current][a] = "absent"
  BY <1>1, <1>4 DEF Inv, OnlyTheLatest, CommitsLast, Latest
<1>9. OnlyTheLatest' /\ CommitsLast' /\ KnowsItsProject'
  BY <1>1, <1>2, <1>4, <1>6, <1>8 DEF Inv, TypeOK, OnlyTheLatest, CommitsLast, KnowsItsProject,
                                     Latest
<1>10. SaysItOnce'
  <2>1. where'[current] = "queued" => told[current] = <<>>
    BY <1>1, <1>8 DEF Inv, SaysItOnce, Latest
  <2>2. ASSUME NEW t \in Tasks, told[t] # <<>>
        PROVE  project[t][retries'[t]] # "absent"
    <3>1. retries'[t] = retries[t]
      BY <1>6, <2>1, <2>2
    <3>2. QED
      BY <2>2, <3>1 DEF Inv, SaysItOnce, Latest
  <2>3. QED
    BY <1>2, <2>2 DEF Inv, SaysItOnce, Latest
<1>11. Corrected'
  BY <1>1, <1>2, <1>4, <1>6 DEF Inv, TypeOK, Corrected, Latest, Attempt
<1>12. FilesAreDelivered'
  BY <1>1, <1>2, <1>3 DEF Inv, TypeOK, FilesAreDelivered
<1>13. QED
  BY <1>7, <1>9, <1>10, <1>11, <1>12 DEF Inv

LEMMA PublishKeepsInv ==
    ASSUME Inv, NEW t \in Tasks, Publish(t)
    PROVE  Inv'
<1>1. /\ where' = [where EXCEPT ![t] = "queued"] /\ where[t] = "unsent"
      /\ UNCHANGED <<retries, attempt, project, files, told, aiFailed, mishaps>>
  BY DEF Publish
<1>2. TypeOK'
  BY <1>1 DEF attempt, mishaps, Inv, TypeOK
<1>3. OnlyTheLatest' /\ CommitsLast' /\ KnowsItsProject' /\ SaysItOnce'
  BY <1>1 DEF attempt, Inv, TypeOK, OnlyTheLatest, CommitsLast, KnowsItsProject, SaysItOnce, Latest
<1>4. Corrected' /\ FilesAreDelivered'
  BY <1>1 DEF attempt, mishaps, Inv, TypeOK, Corrected, FilesAreDelivered, Latest, Attempt
<1>5. QED
  BY <1>2, <1>3, <1>4 DEF Inv

LEMMA StartKeepsInv ==
    ASSUME Inv, NEW t \in Tasks, Start(t)
    PROVE  Inv'
<1>1. /\ current = None /\ where[t] = "queued" /\ t # None
      /\ where' = [where EXCEPT ![t] = "running"]
      /\ current' = t /\ pc' = "create" /\ hasId' = FALSE /\ exc' = None
      /\ result' = NoResult
      /\ aiFailed' = [aiFailed EXCEPT ![t] = FALSE]
      /\ UNCHANGED <<retries, project, files, told, mishaps>>
  BY DEF Start
<1>2. TypeOK'
  <2>1. result' \in [rows : BOOLEAN, artifact : BOOLEAN, fallback_failed : BOOLEAN]
    BY <1>1 DEF NoResult
  <2>2. QED
    BY <1>1, <2>1 DEF mishaps, Inv, TypeOK
<1>3. OnlyTheLatest' /\ CommitsLast' /\ KnowsItsProject' /\ SaysItOnce'
  BY <1>1 DEF Inv, TypeOK, OnlyTheLatest, CommitsLast, KnowsItsProject, SaysItOnce, Latest
<1>4. Corrected'
  BY <1>1 DEF mishaps, Inv, TypeOK, Corrected, Latest
<1>5. FilesAreDelivered'
  BY <1>1 DEF mishaps, Inv, TypeOK, FilesAreDelivered
<1>6. QED
  BY <1>2, <1>3, <1>4, <1>5 DEF Inv

LEMMA InvNext == Inv /\ [Next]_vars => Inv'
<1> SUFFICES ASSUME Inv, [Next]_vars
             PROVE  Inv'
  OBVIOUS
<1>1. CASE Quiet
  BY <1>1, QuietKeepsInv
<1>2. CASE Commit
  BY <1>2, CommitKeepsInv
<1>3. CASE Send \/ SendFails
  BY <1>3, SendingKeepsInv
<1>4. CASE RecordFailure \/ RecordFailureFails
  BY <1>4, RecordFailureKeepsInv, RecordFailureFailsKeepsInv
<1>5. CASE Ends
  BY <1>5, EndsKeepsInv
<1>6. CASE \E t \in Tasks : Publish(t) \/ Start(t)
  BY <1>6, PublishKeepsInv, StartKeepsInv
<1>7. CASE UNCHANGED vars
  BY <1>7 DEF vars, Inv, TypeOK, OnlyTheLatest, CommitsLast, KnowsItsProject, SaysItOnce,
              Corrected, FilesAreDelivered, Latest, Attempt
<1>8. QED
  BY <1>1, <1>2, <1>3, <1>4, <1>5, <1>6, <1>7 DEF Next, Worker, Body, Quiet, Ends

LEMMA Invariant == Spec => []Inv
BY InvInit, InvNext, PTL DEF Spec

-----------------------------------------------------------------------------
\* One child runs one attempt, of a task that is "running".
THEOREM TypeCorrect == Spec => []TypeOK
BY Invariant, PTL DEF Inv

\* However often a task is retried, one attempt at most leaves a project.
THEOREM OneProjectPerTaskAlways == Spec => []OneProjectPerTask
<1>1. Inv => OneProjectPerTask
  BY DEF Inv, OnlyTheLatest, OneProjectPerTask
<1>2. QED
  BY <1>1, Invariant, PTL

\* The user hears of a task at most once, and only of a committed result.
THEOREM ToldOnceAfterCommitAlways == Spec => []ToldOnceAfterCommit
<1>1. Inv => ToldOnceAfterCommit
  <2> SUFFICES ASSUME Inv, NEW t \in Tasks
               PROVE  /\ Len(told[t]) <= 1
                      /\ told[t] # <<>> => \E a \in Attempts : project[t][a] # "absent"
    BY DEF ToldOnceAfterCommit
  <2>1. Len(told[t]) <= 1
    <3>1. told[t] = <<>> \/ told[t] = <<"result">> \/ told[t] = <<"apology">>
      BY DEF Inv, SaysItOnce
    <3>2. Len(<<>>) <= 1 /\ Len(<<"result">>) <= 1 /\ Len(<<"apology">>) <= 1
      OBVIOUS
    <3>3. QED
      BY <3>1, <3>2
  <2>2. told[t] # <<>> => \E a \in Attempts : project[t][a] # "absent"
    BY DEF Inv, TypeOK, SaysItOnce, Latest
  <2>3. QED
    BY <2>1, <2>2
<1>2. QED
  BY <1>1, Invariant, PTL

\* A failed task leaves no project that says "completed", but for a second fault.
THEOREM FailedTaskHasNoCompletedProjectAlways == Spec => []FailedTaskHasNoCompletedProject
<1>1. Inv => FailedTaskHasNoCompletedProject
  BY DEF Inv, TypeOK, OnlyTheLatest, Corrected, Latest, FailedTaskHasNoCompletedProject
<1>2. QED
  BY <1>1, Invariant, PTL

\* compile_session leaves a CSV, whole or torn, only where it was cut short before the delivery.
THEOREM CompileLeavesNoFileAlways == Spec => []CompileLeavesNoFile
<1>1. Inv => CompileLeavesNoFile
  BY DEF Inv, TypeOK, FilesAreDelivered, CompileLeavesNoFile, Tasks, Final
<1>2. QED
  BY <1>1, Invariant, PTL
=============================================================================
