---------------------------- MODULE BotAdminProofs ----------------------------
(***************************************************************************)
(* For any bots, requests, forms, secrets and updates, under every fault:  *)
(* the types of BotAdmin, that a bot is registered before it is seen, that *)
(* edits and toggles do not undo each other, and, where only MAX bots have *)
(* secrets, that the messenger is not turned away.                         *)
(***************************************************************************)
EXTENDS BotAdmin, TLAPS

(***************************************************************************)
(* What a running request has in hand.  A creator has its bot for itself.  *)
(* Whoever else runs read a row of the same type, and changes what its     *)
(* kind changes: only rotating requests go to the messenger, a toggle      *)
(* flips the status it read, and an edit keeps it.                         *)
(***************************************************************************)
Creating ==
    \A r \in Creators : Running(r) =>
        /\ job[r].read = NoRow /\ row[BotOf(r)] = NoRow /\ pc[r] # "unregister"
        /\ \A q \in Requests : Running(q) /\ BotOf(q) = BotOf(r) => q = r
        /\ pc[r] = "register" => sub[BotOf(r)] = NoSub
        /\ pc[r] = "commit" => sub[BotOf(r)] = Told(job[r].write)

Changing ==
    \A r \in Requests \ Creators : Running(r) =>
        /\ job[r].read # NoRow /\ row[BotOf(r)] # NoRow
        /\ job[r].read.type = row[BotOf(r)].type /\ job[r].write.type = row[BotOf(r)].type
        /\ pc[r] = "register" => Rotates(job[r])

ByKind ==
    /\ \A r \in Editors : Running(r) => job[r].write.status = job[r].read.status
    /\ \A r \in Togglers : Running(r) =>
          /\ job[r].write.status # job[r].read.status
          /\ job[r].write.secret = job[r].read.secret
          /\ job[r].write.module = job[r].read.module
          /\ job[r].write.config = job[r].read.config

\* Requests that overlap have met each other.
Meeting ==
    \A r, q \in Requests :
        Running(r) /\ Running(q) /\ BotOf(r) = BotOf(q) /\ r # q =>
            Kinds(q, job[q]) \subseteq met[r]

\* What a request that met none of a kind has read is still so.
StillSo ==
    /\ \A r \in Togglers : Running(r) /\ "toggle" \notin met[r] =>
          row[BotOf(r)].status = job[r].read.status
    /\ \A r \in Editors : Running(r) /\ "edit" \notin met[r] =>
          /\ row[BotOf(r)].module = job[r].read.module
          /\ row[BotOf(r)].config = job[r].read.config

RotationsAreKnown == \A r \in Requests : Running(r) /\ Rotates(job[r]) => BotOf(r) \in rotated

Basic ==
    /\ TypeOK
    /\ Creating /\ Changing /\ ByKind /\ Meeting /\ StillSo
    /\ RotationsAreKnown /\ RegisteredBeforeVisible

-----------------------------------------------------------------------------
Rotating(b) == \E r \in Requests : Running(r) /\ BotOf(r) = b /\ Rotates(job[r])

\* A rotation that runs alone and unharmed has left the messenger what it wanted.
CleanRotation ==
    \A r \in Requests : Running(r) /\ Rotates(job[r]) /\ RanAlone(r) =>
        /\ pc[r] = "register" => sub[BotOf(r)] = NoSub
        /\ pc[r] = "commit" => sub[BotOf(r)] = Told(job[r].write)

TrustIsDeserved ==
    \A b \in Bots : trusted[b] =>
        row[b] # NoRow /\ sub[b] = Told(row[b]) /\ ~Rotating(b)

\* Only MAX bots have secrets.
OnlyMaxHasSecrets ==
    /\ \A b \in Bots : row[b] # NoRow /\ row[b].type # "MX" => row[b].secret = None
    /\ \A r \in Requests : Running(r) /\ job[r].write.type # "MX" => job[r].write.secret = None

CalmIsWelcome ==
    /\ \A u \in Updates : sent[u] = None => answer[u] = 0
    /\ \A u \in calm :
          /\ answer[u] \notin {401, 404} /\ sent[u] # None
          /\ row[sent[u].bot] # NoRow /\ ~Rotating(sent[u].bot)
          /\ row[sent[u].bot].secret \in {None, sent[u].secret}

Trusting == Basic /\ CleanRotation /\ TrustIsDeserved /\ OnlyMaxHasSecrets /\ CalmIsWelcome

USE BotAdminConstants, NoRowIsNone, NoneIsNoRecord

-----------------------------------------------------------------------------
(***************************************************************************)
(* Operators.                                                              *)
(***************************************************************************)
Columns == {"type", "secret", "status", "module", "config"}

\* What is written keeps every column the request did not change.
LEMMA WrittenRow ==
    ASSUME NEW current \in Rows, NEW j \in Jobs, j.read # NoRow
    PROVE  /\ Written(current, j) \in Rows
           /\ \A c \in Columns : Written(current, j)[c] =
                 IF j.write[c] # j.read[c] THEN j.write[c] ELSE current[c]
<1>1. DOMAIN current = Columns /\ j.read \in Rows /\ j.write \in Rows
  BY DEF Rows, Jobs, Columns
<1>2. Written(current, j) =
        [c \in Columns |-> IF j.write[c] # j.read[c] THEN j.write[c] ELSE current[c]]
  BY <1>1 DEF Written
<1>3. Written(current, j) =
        [type   |-> IF j.write.type # j.read.type THEN j.write.type ELSE current.type,
         secret |-> IF j.write.secret # j.read.secret THEN j.write.secret ELSE current.secret,
         status |-> IF j.write.status # j.read.status THEN j.write.status ELSE current.status,
         module |-> IF j.write.module # j.read.module THEN j.write.module ELSE current.module,
         config |-> IF j.write.config # j.read.config THEN j.write.config ELSE current.config]
  BY <1>2 DEF Columns
<1>4. Written(current, j) \in Rows
  BY <1>1, <1>3 DEF Rows
<1>5. QED
  BY <1>2, <1>4

\* Unless a request rotates the secret, the messenger need not be told.
LEMMA ToldTheSame ==
    ASSUME NEW current \in Rows, NEW j \in Jobs, j.read # NoRow, ~Rotates(j),
           j.read.type = current.type, j.write.type = current.type
    PROVE  Told(Written(current, j)) = Told(current)
<1>1. /\ Written(current, j).type =
            IF j.write.type # j.read.type THEN j.write.type ELSE current.type
      /\ Written(current, j).secret =
            IF j.write.secret # j.read.secret THEN j.write.secret ELSE current.secret
  BY WrittenRow DEF Columns
<1>2. QED
  BY <1>1 DEF Told, Rotates

LEMMA GivenIsSecret ==
    ASSUME NEW b, NEW type, NEW current \in Secrets \cup {None},
           NEW s \in FormSecrets(type), NEW g \in Given(b, type, current, s)
    PROVE  /\ g \in Secrets \cup {None} /\ (type = "MX" => g # None)
           /\ g # current => type \in SecretTypes \cup {"MX"}
BY DEF Given, Fresh, FormSecrets

\* What a running request has in hand.
LEMMA InHand ==
    ASSUME TypeOK, NEW r \in Requests, Running(r)
    PROVE  /\ job[r] \in Jobs /\ BotOf(r) \in Bots /\ BotOf(r) = job[r].bot
           /\ job[r].read \in Rows \cup {NoRow} /\ job[r].write \in Rows
           /\ row[BotOf(r)] \in Rows \cup {NoRow}
           /\ sub[BotOf(r)] \in Secrets \cup {None, NoSub}
           /\ Told(job[r].write) \in Secrets \cup {None}
<1>1. job[r] \in Jobs
  BY DEF TypeOK
<1>2. job[r].bot \in Bots /\ job[r].read \in Rows \cup {NoRow} /\ job[r].write \in Rows
  BY <1>1 DEF Jobs
<1>3. Told(job[r].write) \in Secrets \cup {None}
  BY <1>2 DEF Told, Rows
<1>4. QED
  BY <1>1, <1>2, <1>3 DEF BotOf, TypeOK

LEMMA BasicInit == Init => Basic
<1> SUFFICES ASSUME Init PROVE Basic
  OBVIOUS
<1>1. PICK there \in SUBSET Seeded, known \in SUBSET Seeded,
           s \in Secrets \cup {None}, f \in Forms :
         /\ row = [b \in Bots |-> IF b \in there THEN SeedRow(s, f) ELSE NoRow]
         /\ sub = [b \in Bots |-> IF b \in known THEN s ELSE NoSub]
         /\ trusted = [b \in Bots |-> b \in known]
         /\ rotated = there
  BY DEF Init
<1>2. SeedRow(s, f) \in Rows
  BY DEF SeedRow, Rows
<1>3. \A r \in Requests : ~Running(r)
  BY DEF Init, Running
<1>4. TypeOK
  <2>1. /\ row \in [Bots -> Rows \cup {NoRow}]
        /\ sub \in [Bots -> Secrets \cup {None, NoSub}]
        /\ trusted \in [Bots -> BOOLEAN]
        /\ rotated \subseteq Bots
    BY <1>1, <1>2
  <2>2. QED
    BY <1>3, <2>1 DEF Init, TypeOK
<1>5. RegisteredBeforeVisible
  BY <1>1 DEF RegisteredBeforeVisible
<1>6. QED
  BY <1>3, <1>4, <1>5
     DEF Basic, Creating, Changing, ByKind, Meeting, StillSo, RotationsAreKnown, Requests

-----------------------------------------------------------------------------
(***************************************************************************)
(* The request begins.                                                     *)
(***************************************************************************)
Starts(r, j, place) ==
    /\ j \in Jobs /\ pc[r] = "idle" /\ place \in {"unregister", "register", "commit"}
    /\ r \in Creators =>
          /\ j.read = NoRow /\ row[j.bot] = NoRow /\ sub[j.bot] = NoSub
          /\ RunningFor(j.bot) = {} /\ place = "register"
    /\ r \notin Creators =>
          /\ j.read = row[j.bot] /\ row[j.bot] # NoRow /\ j.write.type = j.read.type
          /\ place \in {"unregister", "commit"} /\ (place = "unregister" <=> Rotates(j))
    /\ r \in Editors => j.write.status = j.read.status
    /\ r \in Togglers =>
          /\ j.write.status # j.read.status /\ j.write.secret = j.read.secret
          /\ j.write.module = j.read.module /\ j.write.config = j.read.config
    /\ r \notin Togglers /\ j.write.type = "MX" => j.write.secret # None
    /\ j.write.type \in SecretTypes \cup {"MX"}
          \/ j.write.secret = IF r \in Creators THEN None ELSE j.read.secret

LEMMA CreateStarts ==
    ASSUME TypeOK, NEW r \in Requests, Create(r)
    PROVE  \E j, place : Starts(r, j, place) /\ Begin(r, j, place)
<1>1. PICK b \in Bots, type \in Types, f \in Forms :
         /\ row[b] = NoRow /\ sub[b] = NoSub /\ RunningFor(b) = {}
         /\ \E s \in FormSecrets(type) : \E secret \in Given(b, type, None, s) :
               Begin(r, [bot |-> b, read |-> NoRow,
                         write |-> [type |-> type, secret |-> secret, status |-> "active",
                                    module |-> f, config |-> f]], "register")
  BY DEF Create
<1>2. PICK s \in FormSecrets(type) : \E secret \in Given(b, type, None, s) :
               Begin(r, [bot |-> b, read |-> NoRow,
                         write |-> [type |-> type, secret |-> secret, status |-> "active",
                                    module |-> f, config |-> f]], "register")
  BY <1>1
<1>3. PICK secret \in Given(b, type, None, s) :
               Begin(r, [bot |-> b, read |-> NoRow,
                         write |-> [type |-> type, secret |-> secret, status |-> "active",
                                    module |-> f, config |-> f]], "register")
  BY <1>2
<1> DEFINE w == [type |-> type, secret |-> secret, status |-> "active", module |-> f, config |-> f]
           j == [bot |-> b, read |-> NoRow, write |-> w]
<1>4. /\ secret \in Secrets \cup {None} /\ (type = "MX" => secret # None)
      /\ secret # None => type \in SecretTypes \cup {"MX"}
  BY GivenIsSecret
<1>5. w \in Rows /\ j \in Jobs
  BY <1>4 DEF Rows, Jobs
<1>6. Starts(r, j, "register")
  BY <1>1, <1>4, <1>5 DEF Starts, Create
<1>7. QED
  BY <1>3, <1>6

LEMMA EditStarts ==
    ASSUME TypeOK, NEW r \in Requests, Edit(r)
    PROVE  \E j, place : Starts(r, j, place) /\ Begin(r, j, place)
<1>1. PICK b \in Bots, f \in Forms :
         /\ row[b] # NoRow
         /\ \E s \in FormSecrets(row[b].type) :
               \E secret \in Given(b, row[b].type, row[b].secret, s) :
                  LET j == EditTo(b, secret, f)
                  IN  Begin(r, j, IF Rotates(j) THEN "unregister" ELSE "commit")
  BY DEF Edit
<1>2. PICK s \in FormSecrets(row[b].type) :
         \E secret \in Given(b, row[b].type, row[b].secret, s) :
            LET j == EditTo(b, secret, f)
            IN  Begin(r, j, IF Rotates(j) THEN "unregister" ELSE "commit")
  BY <1>1
<1>3. PICK secret \in Given(b, row[b].type, row[b].secret, s) :
            LET j == EditTo(b, secret, f)
            IN  Begin(r, j, IF Rotates(j) THEN "unregister" ELSE "commit")
  BY <1>2
<1> DEFINE w == [row[b] EXCEPT !.secret = secret, !.module = f, !.config = f]
           j == EditTo(b, secret, f)
           place == IF Rotates(j) THEN "unregister" ELSE "commit"
<1>4. row[b] \in Rows /\ row[b].secret \in Secrets \cup {None}
  BY <1>1 DEF TypeOK, Rows
<1>5. /\ secret \in Secrets \cup {None} /\ (row[b].type = "MX" => secret # None)
      /\ secret # row[b].secret => row[b].type \in SecretTypes \cup {"MX"}
  BY <1>4, GivenIsSecret
<1>6. /\ w \in Rows /\ w.type = row[b].type /\ w.status = row[b].status /\ w.secret = secret
      /\ w.module = f /\ w.config = f
  BY <1>4, <1>5 DEF Rows
<1>7. j \in Jobs /\ j.bot = b /\ j.read = row[b] /\ j.write = w
  BY <1>4, <1>6 DEF EditTo, Jobs
<1>8. Starts(r, j, place)
  <2>1. r \in Editors /\ pc[r] = "idle"
    BY DEF Edit
  <2>2. QED
    BY <1>1, <1>5, <1>6, <1>7, <2>1 DEF Starts
<1>9. QED
  BY <1>3, <1>8

LEMMA ToggleStarts ==
    ASSUME TypeOK, NEW r \in Requests, Toggle(r)
    PROVE  \E j, place : Starts(r, j, place) /\ Begin(r, j, place)
<1>1. PICK b \in Bots :
         /\ row[b] # NoRow
         /\ Begin(r, [bot |-> b, read |-> row[b],
                      write |-> [row[b] EXCEPT !.status = Flip(@)]], "commit")
  BY DEF Toggle
<1> DEFINE w == [row[b] EXCEPT !.status = Flip(@)]
           j == [bot |-> b, read |-> row[b], write |-> w]
<1>2. row[b] \in Rows /\ Flip(row[b].status) \in {"active", "inactive"} \ {row[b].status}
  BY <1>1 DEF TypeOK, Rows, Flip
<1>3. /\ w \in Rows /\ w.type = row[b].type /\ w.secret = row[b].secret
      /\ w.status # row[b].status /\ w.module = row[b].module /\ w.config = row[b].config
  BY <1>2 DEF Rows
<1>4. j \in Jobs
  BY <1>2, <1>3 DEF Jobs
<1>5. Starts(r, j, "commit")
  <2>1. r \in Togglers /\ pc[r] = "idle"
    BY DEF Toggle
  <2>2. ~Rotates(j)
    BY <1>3 DEF Rotates
  <2>3. QED
    BY <1>1, <1>3, <1>4, <2>1, <2>2 DEF Starts
<1>6. QED
  BY <1>1, <1>5

LEMMA BeginKeepsBasic ==
    ASSUME Basic, NEW r \in Requests, NEW j, NEW place, Starts(r, j, place), Begin(r, j, place)
    PROVE  Basic'
<1>1. /\ UNCHANGED <<row, sub, sent, answer, failed>>
      /\ pc' = [pc EXCEPT ![r] = place]
      /\ job' = [job EXCEPT ![r] = j]
      /\ rotated' = IF Rotates(j) THEN rotated \cup {j.bot} ELSE rotated
      /\ j \in Jobs /\ j.bot \in Bots /\ ~Running(r)
      /\ place \in {"unregister", "register", "commit"}
  BY DEF Begin, Starts, Running, Jobs
<1>2. /\ job'[r] = j /\ pc'[r] = place /\ Running(r)'
      /\ \A q \in Requests \ {r} :
            job'[q] = job[q] /\ pc'[q] = pc[q] /\ (Running(q)' <=> Running(q))
  BY <1>1 DEF Running, Basic, TypeOK
<1>3. /\ met'[r] = UNION {Kinds(q, job[q]) : q \in RunningFor(j.bot)}
      /\ \A q \in RunningFor(j.bot) : met'[q] = met[q] \cup Kinds(r, j)
      /\ \A q \in Requests \ {r} : met[q] \subseteq met'[q]
      /\ met' \in [Requests -> SUBSET {"secret", "edit", "toggle"}]
  <2>1. r \notin RunningFor(j.bot) /\ RunningFor(j.bot) \subseteq Requests
    BY <1>1 DEF RunningFor
  <2>2. \A q, k : Kinds(q, k) \subseteq {"secret", "edit", "toggle"}
    BY DEF Kinds
  <2>3. met' = [q \in Requests |->
                  IF q = r THEN UNION {Kinds(o, job[o]) : o \in RunningFor(j.bot)}
                  ELSE IF q \in RunningFor(j.bot) THEN met[q] \cup Kinds(r, j) ELSE met[q]]
    BY DEF Begin
  <2>4. UNION {Kinds(o, job[o]) : o \in RunningFor(j.bot)} \subseteq {"secret", "edit", "toggle"}
    BY <2>2
  <2>5. \A q \in Requests : met[q] \subseteq {"secret", "edit", "toggle"}
    BY DEF Basic, TypeOK
  <2>6. QED
    BY <2>1, <2>2, <2>3, <2>4, <2>5
<1>4. \A q \in Requests \ {r} :
         Running(q) /\ BotOf(q) = j.bot =>
            q \in RunningFor(j.bot) /\ Kinds(q, job[q]) \subseteq met'[r]
                                    /\ Kinds(r, j) \subseteq met'[q]
  BY <1>3 DEF RunningFor
<1>5. TypeOK'
  <2>1. /\ pc' \in [Requests -> {"idle", "unregister", "register", "commit", "done", "failed"}]
        /\ job' \in [Requests -> Jobs \cup {None}]
        /\ rotated' \subseteq Bots
    BY <1>1 DEF Basic, TypeOK
  <2>2. trusted' \in [Bots -> BOOLEAN] /\ calm' \subseteq Updates
    <3>1. trusted' = [trusted EXCEPT ![j.bot] = @ /\ ~Rotates(j)]
      BY DEF Begin
    <3>2. trusted \in [Bots -> BOOLEAN] /\ (~Rotates(j)) \in BOOLEAN
      BY DEF Basic, TypeOK
    <3>3. (trusted[j.bot] /\ ~Rotates(j)) \in BOOLEAN
      OBVIOUS
    <3>4. QED
      BY <1>1, <3>1, <3>2, <3>3 DEF Begin, Basic, TypeOK
  <2>3. \A q \in Requests :
          /\ Running(q)' <=> job'[q] # None
          /\ pc'[q] = "unregister" => Rotates(job'[q])
          /\ Running(q)' /\ q \notin Togglers /\ job'[q].write.type = "MX" =>
                job'[q].write.secret # None
    BY <1>1, <1>2 DEF Starts, Basic, TypeOK
  <2>4. QED
    BY <1>1, <1>3, <2>1, <2>2, <2>3 DEF Basic, TypeOK
<1>6. /\ BotOf(r)' = j.bot
      /\ \A q \in Requests \ {r} : BotOf(q)' = BotOf(q)
  BY <1>2 DEF BotOf
<1>7. Creating'
  <2>1. ASSUME NEW q \in Creators, Running(q)', q # r
        PROVE  BotOf(q) # j.bot
    <3>1. q \in Requests /\ Running(q) /\ row[BotOf(q)] = NoRow
      BY <1>2, <2>1 DEF Requests, Basic, Creating
    <3>2. r \notin Creators => row[j.bot] # NoRow
      BY DEF Starts
    <3>3. r \in Creators => RunningFor(j.bot) = {}
      BY DEF Starts
    <3>4. QED
      BY <2>1, <3>1, <3>2, <3>3 DEF RunningFor
  <2>2. ASSUME r \in Creators
        PROVE  \A q \in Requests \ {r} : ~(Running(q) /\ BotOf(q) = j.bot)
    BY <2>2 DEF Starts, RunningFor
  <2>3. QED
    BY <1>1, <1>2, <1>6, <2>1, <2>2 DEF Starts, Basic, Creating, Requests
<1>8. Changing'
  BY <1>1, <1>2, <1>6 DEF Starts, Basic, Changing
<1>9. ByKind'
  BY <1>2 DEF Starts, Basic, ByKind, Requests
<1>10. Meeting'
  BY <1>2, <1>3, <1>4, <1>6 DEF Basic, Meeting
<1>11. StillSo'
  BY <1>1, <1>2, <1>3, <1>6 DEF Starts, Basic, StillSo, Requests
<1>12. RotationsAreKnown' /\ RegisteredBeforeVisible'
  BY <1>1, <1>2, <1>6 DEF Basic, RotationsAreKnown, RegisteredBeforeVisible
<1>13. QED
  BY <1>5, <1>7, <1>8, <1>9, <1>10, <1>11, <1>12 DEF Basic

-----------------------------------------------------------------------------
(***************************************************************************)
(* A call of the messenger: the request goes on, and the subscription of   *)
(* its bot is s.  A creator goes on only with what it asked for, and so    *)
(* does every other for which no call fails and nothing is in the way.     *)
(***************************************************************************)
Calls(r, s) ==
    /\ sub' = [sub EXCEPT ![BotOf(r)] = s]
    /\ s \in Secrets \cup {None, NoSub}
    /\ \/ pc[r] = "unregister" /\ pc' = [pc EXCEPT ![r] = "register"]
       \/ pc[r] = "register" /\ pc' = [pc EXCEPT ![r] = "commit"]
    /\ r \in Creators => s = Told(job[r].write)
    /\ failed' \in {failed, failed \cup {r}}
    /\ r \notin failed' =>
          /\ pc[r] = "unregister" => s = NoSub
          /\ pc[r] = "register" /\ sub[BotOf(r)] = NoSub => s = Told(job[r].write)
    /\ UNCHANGED <<row, job, sent, answer, met, rotated, trusted, calm>>

LEMMA OutcomesAreSecrets ==
    ASSUME TypeOK, NEW r \in Requests, pc[r] = "register"
    PROVE  Outcomes(r) \cup {sub[BotOf(r)]} \subseteq Secrets \cup {None, NoSub}
<1>1. Running(r)
  BY DEF Running
<1>2. QED
  BY <1>1, InHand DEF Outcomes

LEMMA UnregisteringCalls ==
    ASSUME Basic, NEW r \in Requests, Unregister(r) \/ UnregisterFails(r)
    PROVE  \E s : Calls(r, s)
<1>1. pc[r] = "unregister" /\ Running(r)
  BY DEF Unregister, UnregisterFails, Running
<1>2. r \notin Creators
  BY <1>1 DEF Basic, Creating
<1>3. sub[BotOf(r)] \in Secrets \cup {None, NoSub}
  BY <1>1, InHand DEF Basic
<1>4. QED
  BY <1>1, <1>2, <1>3 DEF Unregister, UnregisterFails, Subscribed, history, Calls

LEMMA RegisteringCalls ==
    ASSUME Basic, NEW r \in Requests, Register(r) \/ (RegisterFails(r) /\ r \notin Creators)
    PROVE  \E s : Calls(r, s)
<1>1. pc[r] = "register" /\ Running(r)
  BY DEF Register, RegisterFails, Running
<1>2. Outcomes(r) \cup {sub[BotOf(r)]} \subseteq Secrets \cup {None, NoSub}
  BY <1>1, OutcomesAreSecrets DEF Basic
<1>3. /\ sub[BotOf(r)] = NoSub => Outcomes(r) = {Told(job[r].write)}
      /\ r \in Creators => sub[BotOf(r)] = NoSub
  BY <1>1 DEF Basic, Creating, Outcomes
<1>4. CASE Register(r)
  BY <1>1, <1>2, <1>3, <1>4 DEF Register, Subscribed, history, Calls
<1>5. CASE RegisterFails(r) /\ r \notin Creators
  BY <1>1, <1>2, <1>5 DEF RegisterFails, GoOn, Subscribed, Calls
<1>6. QED
  BY <1>4, <1>5

LEMMA CallKeepsBasic ==
    ASSUME Basic, NEW r \in Requests, NEW s, Calls(r, s)
    PROVE  Basic'
<1>1. /\ Running(r) /\ Running(r)' /\ BotOf(r) \in Bots
      /\ UNCHANGED <<row, job, sent, answer, met, rotated, trusted, calm>>
      /\ \A q \in Requests : (Running(q)' <=> Running(q)) /\ BotOf(q)' = BotOf(q)
      /\ \A q \in Requests \ {r} : pc'[q] = pc[q]
  <2>1. Running(r)
    BY DEF Calls, Running
  <2>2. QED
    BY <2>1, InHand DEF Calls, Running, BotOf, Basic, TypeOK
<1>2. TypeOK'
  BY <1>1 DEF Calls, Basic, TypeOK
<1>3. Creating'
  <2>1. ASSUME NEW q \in Creators, Running(q), q # r
        PROVE  sub'[BotOf(q)] = sub[BotOf(q)]
    BY <1>1, <2>1 DEF Calls, Basic, TypeOK, Creating, Requests
  <2>2. r \in Creators => /\ pc'[r] = "commit"
                          /\ sub'[BotOf(r)] = Told(job[r].write)
    BY <1>1 DEF Calls, Basic, TypeOK, Creating
  <2>3. QED
    BY <1>1, <2>1, <2>2 DEF Basic, Creating, Requests
<1>4. Changing'
  BY <1>1 DEF Calls, Basic, TypeOK, Changing
<1>5. ByKind' /\ Meeting' /\ StillSo' /\ RotationsAreKnown'
  BY <1>1 DEF Basic, ByKind, Meeting, StillSo, RotationsAreKnown, Requests
<1>6. RegisteredBeforeVisible'
  <2>1. ASSUME row[BotOf(r)] # NoRow
        PROVE  BotOf(r) \in rotated
    <3>1. r \notin Creators
      BY <1>1, <2>1 DEF Basic, Creating
    <3>2. Rotates(job[r])
      BY <1>1, <3>1 DEF Calls, Basic, TypeOK, Changing
    <3>3. QED
      BY <1>1, <3>2 DEF Basic, RotationsAreKnown
  <2>2. QED
    BY <1>1, <2>1 DEF Calls, Basic, TypeOK, RegisteredBeforeVisible
<1>7. QED
  BY <1>2, <1>3, <1>4, <1>5, <1>6 DEF Basic

-----------------------------------------------------------------------------
(***************************************************************************)
(* The request is over without a commit; a creator may leave a             *)
(* subscription behind, to a bot that nobody will ever see.                *)
(***************************************************************************)
GivesUp(r, s) ==
    /\ Running(r)
    /\ End(r, "failed")
    /\ sub' = [sub EXCEPT ![BotOf(r)] = s]
    /\ s \in Secrets \cup {None, NoSub}
    /\ s # sub[BotOf(r)] => r \in Creators
    /\ UNCHANGED <<row, sent, answer, rotated, trusted, calm>>

LEMMA FailingGivesUp ==
    ASSUME Basic, NEW r \in Requests, Abort(r) \/ (RegisterFails(r) /\ r \in Creators)
    PROVE  \E s : GivesUp(r, s)
<1>1. Running(r)
  BY DEF Abort, RegisterFails, Running
<1>2. CASE Abort(r)
  <2>1. sub' = [sub EXCEPT ![BotOf(r)] = sub[BotOf(r)]]
    BY <1>1, <1>2, InHand DEF Abort, Basic, TypeOK
  <2>2. QED
    BY <1>1, <1>2, <2>1, InHand DEF Abort, hook, GivesUp, Basic
<1>3. CASE RegisterFails(r) /\ r \in Creators
  <2>1. pc[r] = "register"
    BY <1>3 DEF RegisterFails
  <2>2. Outcomes(r) \cup {sub[BotOf(r)]} \subseteq Secrets \cup {None, NoSub}
    BY <2>1, OutcomesAreSecrets DEF Basic
  <2>3. QED
    BY <1>1, <1>3, <2>2 DEF RegisterFails, Subscribed, GivesUp
<1>4. QED
  BY <1>2, <1>3

\* When a request has ended nothing about it is kept, and the others are as they were.
LEMMA Ended ==
    ASSUME Basic, NEW r \in Requests, Running(r), NEW place \in {"done", "failed"}, End(r, place)
    PROVE  /\ ~Running(r)' /\ job'[r] = None /\ pc'[r] = place
           /\ \A q \in Requests \ {r} :
                 /\ Running(q)' <=> Running(q)
                 /\ job'[q] = job[q] /\ pc'[q] = pc[q] /\ met'[q] = met[q]
                 /\ BotOf(q)' = BotOf(q)
           /\ \A q \in Requests : Running(q)' => q # r
           /\ failed' \subseteq failed
           /\ \A q \in Requests \ {r} : q \in failed' <=> q \in failed
BY DEF End, Running, BotOf, Basic, TypeOK

LEMMA EndedTypes ==
    ASSUME Basic, NEW r \in Requests, Running(r), NEW place \in {"done", "failed"}, End(r, place)
    PROVE  /\ pc' \in [Requests -> {"idle", "unregister", "register", "commit", "done", "failed"}]
           /\ job' \in [Requests -> Jobs \cup {None}]
           /\ met' \in [Requests -> SUBSET {"secret", "edit", "toggle"}]
           /\ failed' \subseteq Requests
           /\ \A q \in Requests :
                 /\ Running(q)' <=> job'[q] # None
                 /\ pc'[q] = "unregister" => Rotates(job'[q])
                 /\ Running(q)' /\ q \notin Togglers /\ job'[q].write.type = "MX" =>
                       job'[q].write.secret # None
<1>1. /\ pc' \in [Requests -> {"idle", "unregister", "register", "commit", "done", "failed"}]
      /\ job' \in [Requests -> Jobs \cup {None}]
      /\ met' \in [Requests -> SUBSET {"secret", "edit", "toggle"}]
      /\ failed' \subseteq Requests
  BY DEF End, Basic, TypeOK
<1>2. \A q \in Requests :
         /\ Running(q)' <=> job'[q] # None
         /\ pc'[q] = "unregister" => Rotates(job'[q])
         /\ Running(q)' /\ q \notin Togglers /\ job'[q].write.type = "MX" =>
               job'[q].write.secret # None
  BY Ended DEF Basic, TypeOK
<1>3. QED
  BY <1>1, <1>2

LEMMA GivingUpKeepsBasic ==
    ASSUME Basic, NEW r \in Requests, NEW s, GivesUp(r, s)
    PROVE  Basic'
<1>1. /\ Running(r) /\ BotOf(r) \in Bots /\ End(r, "failed")
      /\ UNCHANGED <<row, sent, answer, rotated, trusted, calm>>
  BY InHand DEF GivesUp, Basic
<1>2. TypeOK'
  BY <1>1, EndedTypes DEF GivesUp, Basic, TypeOK
<1>3. \A b \in Bots : sub'[b] # sub[b] => r \in Creators /\ b = BotOf(r)
  BY <1>1 DEF GivesUp, Basic, TypeOK
<1>4. ASSUME NEW q \in Creators, Running(q)'
      PROVE  sub'[BotOf(q)] = sub[BotOf(q)]
  <2>1. q \in Requests \ {r} /\ Running(q) /\ BotOf(q) \in Bots
    BY <1>1, <1>4, Ended, InHand DEF Requests, Basic
  <2>2. BotOf(q) # BotOf(r)
    BY <1>1, <1>4, <2>1 DEF Basic, Creating
  <2>3. QED
    BY <1>3, <2>1, <2>2
<1>5. Creating'
  BY <1>1, <1>4, Ended DEF Basic, Creating, Requests
<1>6. Changing' /\ ByKind' /\ Meeting' /\ StillSo' /\ RotationsAreKnown'
  BY <1>1, Ended DEF Basic, Changing, ByKind, Meeting, StillSo, RotationsAreKnown, Requests
<1>7. RegisteredBeforeVisible'
  BY <1>1, <1>3 DEF Basic, Creating, RegisteredBeforeVisible
<1>8. QED
  BY <1>2, <1>5, <1>6, <1>7 DEF Basic

-----------------------------------------------------------------------------
(***************************************************************************)
(* The commit.                                                             *)
(***************************************************************************)
LEMMA CommitWrites ==
    ASSUME Basic, NEW r \in Requests, Commit(r)
    PROVE  /\ Running(r) /\ BotOf(r) \in Bots /\ End(r, "done") /\ pc[r] = "commit"
           /\ row' = [row EXCEPT ![BotOf(r)] = Written(@, job[r])]
           /\ row'[BotOf(r)] \in Rows
           /\ UNCHANGED <<sub, sent, answer, calm, rotated>>
           /\ r \in Creators => row'[BotOf(r)] = job[r].write
           /\ r \notin Creators =>
                 /\ row[BotOf(r)] \in Rows /\ job[r] \in Jobs /\ job[r].read # NoRow
                 /\ row'[BotOf(r)].type = row[BotOf(r)].type
                 /\ \A c \in Columns : row'[BotOf(r)][c] =
                       IF job[r].write[c] # job[r].read[c]
                       THEN job[r].write[c] ELSE row[BotOf(r)][c]
                 /\ ~Rotates(job[r]) => Told(row'[BotOf(r)]) = Told(row[BotOf(r)])
<1>1. /\ Running(r) /\ End(r, "done") /\ pc[r] = "commit"
      /\ row' = [row EXCEPT ![BotOf(r)] = Written(@, job[r])]
      /\ UNCHANGED <<sub, sent, answer, calm, rotated>>
  BY DEF Commit, Running, hook
<1>2. BotOf(r) \in Bots /\ job[r] \in Jobs /\ row[BotOf(r)] \in Rows \cup {NoRow}
      /\ job[r].write \in Rows
  BY <1>1, InHand DEF Basic
<1>3. row'[BotOf(r)] = Written(row[BotOf(r)], job[r])
  BY <1>1, <1>2 DEF Basic, TypeOK
<1>4. CASE r \in Creators
  <2>1. row'[BotOf(r)] = job[r].write
    BY <1>1, <1>3, <1>4 DEF Basic, Creating, Written
  <2>2. QED
    BY <1>1, <1>2, <1>4, <2>1
<1>5. CASE r \notin Creators
  <2>1. /\ row[BotOf(r)] \in Rows /\ job[r].read # NoRow
        /\ job[r].read.type = row[BotOf(r)].type /\ job[r].write.type = row[BotOf(r)].type
    BY <1>1, <1>2, <1>5 DEF Basic, Changing
  <2>2. /\ row'[BotOf(r)] \in Rows
        /\ \A c \in Columns : row'[BotOf(r)][c] =
              IF job[r].write[c] # job[r].read[c] THEN job[r].write[c] ELSE row[BotOf(r)][c]
    BY <1>2, <1>3, <2>1, WrittenRow
  <2>3. row'[BotOf(r)].type = row[BotOf(r)].type
    BY <2>1, <2>2 DEF Columns
  <2>4. ~Rotates(job[r]) => Told(row'[BotOf(r)]) = Told(row[BotOf(r)])
    BY <1>2, <1>3, <2>1, ToldTheSame
  <2>5. QED
    BY <1>1, <1>2, <1>5, <2>1, <2>2, <2>3, <2>4
<1>6. QED
  BY <1>4, <1>5

\* What the requests that go on think of their row remains true.
LEMMA CommitKeepsBasic ==
    ASSUME Basic, NEW r \in Requests, Commit(r)
    PROVE  Basic'
<1> DEFINE b == BotOf(r)
<1>1. /\ Running(r) /\ b \in Bots /\ End(r, "done") /\ pc[r] = "commit"
      /\ row'[b] \in Rows /\ row'[b] # NoRow
      /\ \A x \in Bots \ {b} : row'[x] = row[x]
      /\ UNCHANGED <<sub, sent, answer, calm, rotated>>
  BY CommitWrites DEF Basic, TypeOK
<1>2. TypeOK'
  <2>1. row' \in [Bots -> Rows \cup {NoRow}]
    BY <1>1, CommitWrites DEF Basic, TypeOK
  <2>2. trusted' \in [Bots -> BOOLEAN]
    BY DEF Commit, RanAlone, Basic, TypeOK
  <2>3. QED
    BY <1>1, <2>1, <2>2, EndedTypes DEF Basic, TypeOK
<1>3. ASSUME NEW q \in Requests, Running(q)'
      PROVE  /\ q # r /\ Running(q) /\ BotOf(q) \in Bots /\ BotOf(q)' = BotOf(q)
             /\ job'[q] = job[q] /\ pc'[q] = pc[q] /\ met'[q] = met[q]
             /\ BotOf(q) = b => r \notin Creators /\ q \notin Creators
                                /\ Kinds(r, job[r]) \subseteq met[q]
  <2>1. q # r /\ Running(q) /\ BotOf(q)' = BotOf(q)
        /\ job'[q] = job[q] /\ pc'[q] = pc[q] /\ met'[q] = met[q]
    BY <1>1, <1>3, Ended
  <2>2. BotOf(q) \in Bots
    BY <2>1, InHand DEF Basic
  <2>3. QED
    BY <1>1, <2>1, <2>2 DEF Basic, Creating, Meeting
<1>4. Creating'
  BY <1>1, <1>3 DEF Basic, Creating, Requests
<1>5. Changing'
  <2>1. ASSUME NEW q \in Requests \ Creators, Running(q)'
        PROVE  row'[BotOf(q)] # NoRow /\ row'[BotOf(q)].type = row[BotOf(q)].type
    BY <1>1, <1>3, <2>1, CommitWrites DEF Basic, Changing
  <2>2. QED
    BY <1>3, <2>1 DEF Basic, Changing
<1>6. ByKind' /\ Meeting'
  BY <1>3 DEF Basic, ByKind, Meeting, Requests
<1>7. StillSo'
  <2>1. ASSUME NEW q \in Togglers, Running(q)', "toggle" \notin met'[q]
        PROVE  row'[BotOf(q)].status = row[BotOf(q)].status
    <3>1. BotOf(q) # b \/ r \in Editors
      BY <1>3, <2>1 DEF Kinds, Requests
    <3>2. r \in Editors => row'[b].status = row[b].status
      BY <1>1, CommitWrites DEF Columns, Basic, ByKind
    <3>3. QED
      BY <1>1, <1>3, <2>1, <3>1, <3>2 DEF Requests
  <2>2. ASSUME NEW q \in Editors, Running(q)', "edit" \notin met'[q]
        PROVE  /\ row'[BotOf(q)].module = row[BotOf(q)].module
               /\ row'[BotOf(q)].config = row[BotOf(q)].config
    <3>1. BotOf(q) # b \/ r \in Togglers
      BY <1>3, <2>2 DEF Kinds, Requests
    <3>2. r \in Togglers => row'[b].module = row[b].module /\ row'[b].config = row[b].config
      BY <1>1, CommitWrites DEF Columns, Basic, ByKind
    <3>3. QED
      BY <1>1, <1>3, <2>2, <3>1, <3>2 DEF Requests
  <2>3. QED
    BY <1>3, <2>1, <2>2 DEF Basic, StillSo, Requests
<1>8. RotationsAreKnown'
  BY <1>1, <1>3 DEF Basic, RotationsAreKnown
<1>9. RegisteredBeforeVisible'
  <2>1. ASSUME b \notin rotated
        PROVE  sub[b] = Told(row'[b])
    <3>1. CASE r \in Creators
      BY <1>1, <3>1, CommitWrites DEF Basic, Creating
    <3>2. CASE r \notin Creators
      <4>1. ~Rotates(job[r])
        BY <1>1, <2>1 DEF Basic, RotationsAreKnown
      <4>2. row[b] # NoRow /\ Told(row'[b]) = Told(row[b])
        BY <3>2, <4>1, CommitWrites
      <4>3. QED
        BY <1>1, <2>1, <4>2 DEF Basic, RegisteredBeforeVisible
    <3>3. QED
      BY <3>1, <3>2
  <2>2. QED
    BY <1>1, <2>1 DEF Basic, RegisteredBeforeVisible
<1>10. QED
  BY <1>2, <1>4, <1>5, <1>6, <1>7, <1>8, <1>9 DEF Basic

\* Updates touch nothing that requests have to do with.
LEMMA UpdatesKeepBasic ==
    ASSUME Basic, NEW u \in Updates, Send(u) \/ Answer(u)
    PROVE  Basic'
<1>1. UNCHANGED <<row, sub, pc, job, met, failed, rotated, trusted>>
  BY DEF Send, Answer, history
<1>2. TypeOK'
  <2>1. CASE Send(u)
    <3>1. PICK b \in Bots :
             /\ sub[b] # NoSub
             /\ sent' = [sent EXCEPT ![u] = [bot |-> b, secret |-> sub[b]]]
             /\ calm' = IF trusted[b] THEN calm \cup {u} ELSE calm
      BY <2>1 DEF Send
    <3>2. [bot |-> b, secret |-> sub[b]] \in Sendings
      BY <3>1 DEF Sendings, Basic, TypeOK
    <3>3. sent' \in [Updates -> Sendings \cup {None}] /\ calm' \subseteq Updates
      BY <3>1, <3>2 DEF Basic, TypeOK
    <3>4. QED
      BY <1>1, <2>1, <3>3 DEF Send, Running, Basic, TypeOK
  <2>2. CASE Answer(u)
    <3>1. \A bot, secret : StatusFor(bot, secret) \in {200, 401, 403, 404}
      BY DEF StatusFor
    <3>2. QED
      BY <1>1, <2>2, <3>1 DEF Answer, history, Running, Basic, TypeOK
  <2>3. QED
    BY <2>1, <2>2
<1>3. QED
  BY <1>1, <1>2 DEF Basic, Creating, Changing, ByKind, Meeting, StillSo, RotationsAreKnown,
                    RegisteredBeforeVisible, Running, BotOf

-----------------------------------------------------------------------------
\* Every step, in the terms of the lemmas above.
Steps(r) ==
    \/ \E j, place : Starts(r, j, place) /\ Begin(r, j, place)
    \/ \E s : Calls(r, s)
    \/ \E s : GivesUp(r, s)
    \/ Commit(r)

LEMMA NextSteps ==
    ASSUME Basic, Next
    PROVE  (\E r \in Requests : Steps(r)) \/ (\E u \in Updates : Send(u) \/ Answer(u))
<1>1. ASSUME NEW r \in Requests, Create(r) \/ Edit(r) \/ Toggle(r)
      PROVE  Steps(r)
  BY <1>1, CreateStarts, EditStarts, ToggleStarts DEF Steps, Basic
<1>2. ASSUME NEW r \in Requests,
             Unregister(r) \/ UnregisterFails(r) \/ Register(r) \/ RegisterFails(r) \/ Abort(r)
      PROVE  Steps(r)
  BY <1>2, UnregisteringCalls, RegisteringCalls, FailingGivesUp DEF Steps
<1>3. QED
  BY <1>1, <1>2 DEF Next, Steps

LEMMA BasicNext == Basic /\ [Next]_vars => Basic'
<1> SUFFICES ASSUME Basic, [Next]_vars
             PROVE  Basic'
  OBVIOUS
<1>1. CASE Next
  <2>1. ASSUME NEW r \in Requests, Steps(r)
        PROVE  Basic'
    BY <2>1, BeginKeepsBasic, CallKeepsBasic, GivingUpKeepsBasic, CommitKeepsBasic DEF Steps
  <2>2. QED
    BY <1>1, <2>1, NextSteps, UpdatesKeepBasic
<1>2. CASE UNCHANGED vars
  BY <1>2 DEF vars, Running, BotOf, Basic, TypeOK, Creating, Changing, ByKind, Meeting, StillSo,
              RotationsAreKnown, RegisteredBeforeVisible
<1>3. QED
  BY <1>1, <1>2

LEMMA BasicInvariant == Spec => []Basic
BY BasicInit, BasicNext, PTL DEF Spec

-----------------------------------------------------------------------------
(***************************************************************************)
(* From here on only MAX bots have secrets, as create_bot says of them.    *)
(***************************************************************************)
LEMMA TrustingInit == Init => Trusting
<1> SUFFICES ASSUME Init PROVE Trusting
  OBVIOUS
<1>1. PICK there \in SUBSET Seeded, known \in SUBSET Seeded,
           s \in Secrets \cup {None}, f \in Forms :
         /\ known \subseteq there
         /\ row = [b \in Bots |-> IF b \in there THEN SeedRow(s, f) ELSE NoRow]
         /\ sub = [b \in Bots |-> IF b \in known THEN s ELSE NoSub]
         /\ trusted = [b \in Bots |-> b \in known]
         /\ rotated = there
  BY DEF Init
<1>2. SeedRow(s, f) \in Rows /\ SeedRow(s, f).type = "MX" /\ Told(SeedRow(s, f)) = s
  BY DEF SeedRow, Rows, Told
<1>3. \A r \in Requests : ~Running(r)
  BY DEF Init, Running
<1>4. CleanRotation /\ OnlyMaxHasSecrets
  BY <1>1, <1>2, <1>3 DEF CleanRotation, OnlyMaxHasSecrets
<1>5. TrustIsDeserved
  <2>1. ASSUME NEW b \in Bots, trusted[b]
        PROVE  row[b] # NoRow /\ sub[b] = Told(row[b])
    <3>1. b \in known /\ b \in there
      BY <1>1, <2>1
    <3>2. row[b] = SeedRow(s, f) /\ sub[b] = s
      BY <1>1, <3>1
    <3>3. QED
      BY <1>2, <3>2
  <2>2. QED
    BY <1>3, <2>1 DEF TrustIsDeserved, Rotating
<1>6. CalmIsWelcome
  BY DEF Init, CalmIsWelcome
<1>7. QED
  BY <1>4, <1>5, <1>6, BasicInit DEF Trusting

LEMMA BeginKeepsTrust ==
    ASSUME SecretTypes \subseteq {"MX"}, Trusting, NEW r \in Requests, NEW j, NEW place,
           Starts(r, j, place), Begin(r, j, place)
    PROVE  Trusting'
<1>1. /\ UNCHANGED <<row, sub, sent, answer, failed>>
      /\ j \in Jobs /\ j.bot \in Bots /\ ~Running(r)
      /\ trusted' = [trusted EXCEPT ![j.bot] = @ /\ ~Rotates(j)]
      /\ calm' = {u \in calm : sent[u].bot = j.bot => ~Rotates(j)}
  BY DEF Begin, Starts, Running, Jobs
<1>2. /\ job'[r] = j /\ pc'[r] = place /\ Running(r)' /\ BotOf(r)' = j.bot
      /\ \A q \in Requests \ {r} :
            /\ job'[q] = job[q] /\ pc'[q] = pc[q] /\ met[q] \subseteq met'[q]
            /\ BotOf(q)' = BotOf(q) /\ (Running(q)' <=> Running(q))
  BY DEF Begin, Starts, Running, BotOf, Trusting, Basic, TypeOK
<1>3. \A b : Rotating(b)' => Rotating(b) \/ (b = j.bot /\ Rotates(j))
  BY <1>2 DEF Rotating
<1>4. CleanRotation'
  <2>1. Rotates(j) => place = "unregister"
    BY DEF Starts, Rotates
  <2>2. QED
    BY <1>1, <1>2, <2>1 DEF Trusting, CleanRotation, RanAlone
<1>5. TrustIsDeserved'
  <2>1. ASSUME NEW b \in Bots, trusted'[b]
        PROVE  trusted[b] /\ (b = j.bot => ~Rotates(j))
    BY <1>1, <2>1 DEF Trusting, Basic, TypeOK
  <2>2. QED
    BY <1>1, <1>3, <2>1 DEF Trusting, TrustIsDeserved
<1>6. OnlyMaxHasSecrets'
  <2>1. j.write.type # "MX" => j.write.secret = None
    <3>1. r \notin Creators => j.read = row[j.bot] /\ row[j.bot] # NoRow
                               /\ j.write.type = row[j.bot].type
      BY DEF Starts
    <3>2. r \notin Creators /\ j.write.type # "MX" => j.read.secret = None
      BY <1>1, <3>1 DEF Trusting, OnlyMaxHasSecrets
    <3>3. QED
      BY <3>2 DEF Starts
  <2>2. QED
    BY <1>1, <1>2, <2>1 DEF Trusting, OnlyMaxHasSecrets
<1>7. CalmIsWelcome'
  BY <1>1, <1>3 DEF Trusting, CalmIsWelcome
<1>8. QED
  BY <1>4, <1>5, <1>6, <1>7, BeginKeepsBasic DEF Trusting

\* A rotation that ran alone so far has met no other that goes to the messenger.
LEMMA CallKeepsTrust ==
    ASSUME Trusting, NEW r \in Requests, NEW s, Calls(r, s)
    PROVE  Trusting'
<1>1. /\ Running(r) /\ BotOf(r) \in Bots
      /\ UNCHANGED <<row, job, sent, answer, met, rotated, trusted, calm>>
      /\ \A q \in Requests : (Running(q)' <=> Running(q)) /\ BotOf(q)' = BotOf(q)
      /\ \A q \in Requests \ {r} : pc'[q] = pc[q]
      /\ \A b \in Bots \ {BotOf(r)} : sub'[b] = sub[b]
      /\ sub'[BotOf(r)] = s
      /\ failed \subseteq failed'
  <2>1. Running(r)
    BY DEF Calls, Running
  <2>2. QED
    BY <2>1, InHand DEF Calls, Running, BotOf, Trusting, Basic, TypeOK
<1>2. r \in Creators \/ Rotates(job[r])
  BY <1>1 DEF Calls, Trusting, Basic, TypeOK, Changing
<1>3. CleanRotation'
  <2> SUFFICES ASSUME NEW q \in Requests, Running(q), Rotates(job[q]), RanAlone(q)'
               PROVE  /\ pc'[q] = "register" => sub'[BotOf(q)] = NoSub
                      /\ pc'[q] = "commit" => sub'[BotOf(q)] = Told(job[q].write)
    BY <1>1 DEF CleanRotation
  <2>1. RanAlone(q) /\ q \notin failed'
    BY <1>1 DEF RanAlone
  <2>2. CASE q = r
    <3>1. pc[r] = "register" => sub[BotOf(r)] = NoSub
      BY <2>1, <2>2 DEF Trusting, CleanRotation
    <3>2. \/ pc[r] = "unregister" /\ pc'[r] = "register" /\ s = NoSub
          \/ pc[r] = "register" /\ pc'[r] = "commit" /\ s = Told(job[r].write)
      BY <2>1, <2>2, <3>1 DEF Calls, Trusting, Basic, TypeOK
    <3>3. QED
      BY <1>1, <2>2, <3>2
  <2>3. CASE q # r
    <3>1. BotOf(q) # BotOf(r)
      <4> SUFFICES ASSUME BotOf(q) = BotOf(r)
                   PROVE  FALSE
        OBVIOUS
      <4>1. r \notin Creators
        BY <1>1, <2>3 DEF Trusting, Basic, Creating
      <4>2. "secret" \in Kinds(r, job[r])
        BY <1>2, <4>1 DEF Kinds
      <4>3. Kinds(r, job[r]) \subseteq met[q]
        BY <1>1, <2>3 DEF Trusting, Basic, Meeting
      <4>4. QED
        BY <2>1, <4>2, <4>3 DEF RanAlone
    <3>2. BotOf(q) \in Bots
      BY InHand DEF Trusting, Basic
    <3>3. QED
      BY <1>1, <2>1, <2>3, <3>1, <3>2 DEF Trusting, CleanRotation
  <2>4. QED
    BY <2>2, <2>3
<1>4. TrustIsDeserved'
  <2>1. ~trusted[BotOf(r)]
    <3>1. r \in Creators => row[BotOf(r)] = NoRow
      BY <1>1 DEF Trusting, Basic, Creating
    <3>2. Rotates(job[r]) => Rotating(BotOf(r))
      BY <1>1 DEF Rotating
    <3>3. QED
      BY <1>1, <1>2, <3>1, <3>2 DEF Trusting, TrustIsDeserved
  <2>2. QED
    BY <1>1, <2>1 DEF Trusting, TrustIsDeserved, Rotating
<1>5. OnlyMaxHasSecrets' /\ CalmIsWelcome'
  BY <1>1 DEF Trusting, OnlyMaxHasSecrets, CalmIsWelcome, Rotating
<1>6. QED
  BY <1>3, <1>4, <1>5, CallKeepsBasic DEF Trusting

LEMMA GivingUpKeepsTrust ==
    ASSUME Trusting, NEW r \in Requests, NEW s, GivesUp(r, s)
    PROVE  Trusting'
<1>1. /\ Running(r) /\ BotOf(r) \in Bots /\ End(r, "failed")
      /\ UNCHANGED <<row, sent, answer, rotated, trusted, calm>>
      /\ \A b \in Bots : sub'[b] # sub[b] => r \in Creators /\ b = BotOf(r)
  BY InHand DEF GivesUp, Trusting, Basic, TypeOK
<1>2. ASSUME NEW q \in Requests, Running(q)'
      PROVE  /\ q # r /\ Running(q) /\ BotOf(q)' = BotOf(q) /\ BotOf(q) \in Bots
             /\ job'[q] = job[q] /\ pc'[q] = pc[q] /\ met'[q] = met[q]
             /\ q \in failed' <=> q \in failed
             /\ sub'[BotOf(q)] = sub[BotOf(q)]
  <2>1. /\ q # r /\ Running(q) /\ BotOf(q)' = BotOf(q)
        /\ job'[q] = job[q] /\ pc'[q] = pc[q] /\ met'[q] = met[q]
        /\ q \in failed' <=> q \in failed
    BY <1>1, <1>2, Ended DEF Trusting
  <2>2. BotOf(q) \in Bots
    BY <2>1, InHand DEF Trusting, Basic
  <2>3. r \in Creators => BotOf(q) # BotOf(r)
    BY <1>1, <2>1 DEF Trusting, Basic, Creating
  <2>4. QED
    BY <1>1, <2>1, <2>2, <2>3
<1>3. \A b : Rotating(b)' => Rotating(b)
  BY <1>2 DEF Rotating
<1>4. CleanRotation' /\ OnlyMaxHasSecrets'
  BY <1>1, <1>2 DEF Trusting, CleanRotation, OnlyMaxHasSecrets, RanAlone
<1>5. TrustIsDeserved'
  <2>1. r \in Creators => row[BotOf(r)] = NoRow
    BY <1>1 DEF Trusting, Basic, Creating
  <2>2. QED
    BY <1>1, <1>3, <2>1 DEF Trusting, TrustIsDeserved
<1>6. CalmIsWelcome'
  BY <1>1, <1>3 DEF Trusting, CalmIsWelcome
<1>7. QED
  BY <1>4, <1>5, <1>6, GivingUpKeepsBasic DEF Trusting

LEMMA CommitKeepsTrust ==
    ASSUME Trusting, NEW r \in Requests, Commit(r)
    PROVE  Trusting'
<1>0. PICK b \in Bots : b = BotOf(r)
  BY CommitWrites DEF Trusting
<1> USE <1>0
<1>1. /\ Running(r) /\ b \in Bots /\ End(r, "done") /\ pc[r] = "commit"
      /\ row'[b] \in Rows /\ row'[b] # NoRow
      /\ \A x \in Bots \ {b} : row'[x] = row[x]
      /\ UNCHANGED <<sub, sent, answer, calm, rotated>>
  BY CommitWrites DEF Trusting, Basic, TypeOK
<1>2. ASSUME NEW q \in Requests, Running(q)'
      PROVE  /\ q # r /\ Running(q) /\ BotOf(q)' = BotOf(q)
             /\ job'[q] = job[q] /\ pc'[q] = pc[q] /\ met'[q] = met[q]
             /\ q \in failed' <=> q \in failed
  BY <1>1, <1>2, Ended DEF Trusting
<1>3. \A x : Rotating(x)' => \E q \in Requests \ {r} :
                                Running(q) /\ BotOf(q) = x /\ Rotates(job[q])
  BY <1>2 DEF Rotating
<1>4. CleanRotation'
  BY <1>1, <1>2 DEF Trusting, CleanRotation, RanAlone
<1>5. OnlyMaxHasSecrets'
  <2>1. row'[b].type # "MX" => row'[b].secret = None
    <3>1. CASE r \in Creators
      BY <1>1, <3>1, CommitWrites DEF Trusting, OnlyMaxHasSecrets
    <3>2. CASE r \notin Creators
      <4>1. /\ row[b] \in Rows /\ row'[b].type = row[b].type
            /\ row'[b].secret \in {job[r].write.secret, row[b].secret}
        BY <3>2, CommitWrites DEF Trusting, Columns
      <4>2. job[r].write.type = row[b].type
        BY <1>1, <3>2 DEF Trusting, Basic, Changing
      <4>3. QED
        BY <1>1, <4>1, <4>2 DEF Trusting, OnlyMaxHasSecrets
    <3>3. QED
      BY <3>1, <3>2
  <2>2. QED
    BY <1>1, <1>2, <2>1 DEF Trusting, OnlyMaxHasSecrets
<1>6. TrustIsDeserved'
  <2>1. ASSUME r \in Creators \/ Rotates(job[r]), RanAlone(r)
        PROVE  sub[b] = Told(row'[b]) /\ ~Rotating(b)'
    <3>1. CASE r \in Creators
      <4>1. sub[b] = Told(row'[b])
        BY <1>1, <3>1, CommitWrites DEF Trusting, Basic, Creating
      <4>2. QED
        BY <1>1, <1>3, <3>1, <4>1 DEF Trusting, Basic, Creating
    <3>2. CASE r \notin Creators
      <4>1. sub[b] = Told(job[r].write)
        BY <1>1, <2>1, <3>2 DEF Trusting, CleanRotation
      <4>2. /\ job[r].write.type = row[b].type /\ job[r].read.type = row[b].type
            /\ row'[b].type = row[b].type /\ row'[b].secret = job[r].write.secret
        BY <1>1, <2>1, <3>2, CommitWrites DEF Trusting, Basic, Changing, Columns, Rotates
      <4>3. ~Rotating(b)'
        <5> SUFFICES ASSUME NEW q \in Requests \ {r}, Running(q), BotOf(q) = b, Rotates(job[q])
                     PROVE  FALSE
          BY <1>3
        <5>1. "secret" \in Kinds(q, job[q]) /\ Kinds(q, job[q]) \subseteq met[r]
          BY <1>1 DEF Kinds, Trusting, Basic, Meeting
        <5>2. QED
          BY <2>1, <5>1 DEF RanAlone
      <4>4. QED
        BY <4>1, <4>2, <4>3 DEF Told
    <3>3. QED
      BY <3>1, <3>2
  <2>2. ASSUME r \notin Creators, ~Rotates(job[r]), trusted[b]
        PROVE  sub[b] = Told(row'[b]) /\ ~Rotating(b)'
    BY <1>1, <1>3, <2>2, CommitWrites DEF Trusting, TrustIsDeserved, Rotating
  <2>3. ASSUME NEW x \in Bots \ {b}, trusted'[x]
        PROVE  trusted[x]
    BY <2>3 DEF Commit
  <2>4. trusted'[b] => IF r \in Creators \/ Rotates(job[r]) THEN RanAlone(r) ELSE trusted[b]
    BY <1>1 DEF Commit, Trusting, Basic, TypeOK
  <2>5. QED
    BY <1>1, <1>3, <2>1, <2>2, <2>3, <2>4 DEF Trusting, TrustIsDeserved, Rotating
<1>7. CalmIsWelcome'
  <2>1. ASSUME NEW u \in calm, sent[u].bot = b
        PROVE  row'[b].secret \in {None, sent[u].secret}
    <3>1. row[b] # NoRow /\ ~Rotating(b) /\ row[b].secret \in {None, sent[u].secret}
      BY <2>1 DEF Trusting, CalmIsWelcome
    <3>2. r \notin Creators /\ ~Rotates(job[r])
      BY <1>1, <3>1 DEF Trusting, Basic, Creating, Rotating
    <3>3. /\ row[b] \in Rows /\ job[r].read # NoRow
          /\ row'[b].secret = IF job[r].write.secret # job[r].read.secret
                              THEN job[r].write.secret ELSE row[b].secret
      BY <3>2, CommitWrites DEF Trusting, Columns
    <3>4. job[r].write.type = row[b].type /\ job[r].read.type = row[b].type
      BY <1>1, <3>2 DEF Trusting, Basic, Changing
    <3>5. job[r].write.secret # job[r].read.secret => job[r].write.secret = None
      BY <1>1, <3>2, <3>3, <3>4 DEF Rotates, Trusting, OnlyMaxHasSecrets
    <3>6. QED
      BY <3>1, <3>3, <3>5
  <2>2. ASSUME NEW u \in calm
        PROVE  /\ row'[sent[u].bot] # NoRow /\ ~Rotating(sent[u].bot)'
               /\ row'[sent[u].bot].secret \in {None, sent[u].secret}
    <3>1. sent[u].bot \in Bots
      BY <2>2 DEF Trusting, CalmIsWelcome, Basic, TypeOK, Sendings
    <3>2. QED
      BY <1>1, <1>3, <2>1, <2>2, <3>1 DEF Trusting, CalmIsWelcome, Rotating
  <2>3. QED
    BY <1>1, <2>2 DEF Trusting, CalmIsWelcome
<1>8. QED
  BY <1>4, <1>5, <1>6, <1>7, CommitKeepsBasic DEF Trusting

\* An update sent to a trusted bot carries the secret of its row.
LEMMA UpdatesKeepTrust ==
    ASSUME Trusting, NEW u \in Updates, Send(u) \/ Answer(u)
    PROVE  Trusting'
<1>1. /\ UNCHANGED <<row, sub, pc, job, met, failed, rotated, trusted>>
      /\ \A b : Rotating(b)' <=> Rotating(b)
  BY DEF Send, Answer, history, Rotating, Running, BotOf
<1>2. CleanRotation' /\ TrustIsDeserved' /\ OnlyMaxHasSecrets'
  BY <1>1 DEF Trusting, CleanRotation, TrustIsDeserved, OnlyMaxHasSecrets, RanAlone, Running, BotOf
<1>3. CASE Send(u)
  <2>1. PICK b \in Bots :
           /\ sub[b] # NoSub
           /\ sent' = [sent EXCEPT ![u] = [bot |-> b, secret |-> sub[b]]]
           /\ calm' = IF trusted[b] THEN calm \cup {u} ELSE calm
    BY <1>3 DEF Send
  <2> DEFINE m == [bot |-> b, secret |-> sub[b]]
  <2>2. m \in Sendings /\ m # None
    BY <2>1 DEF Sendings, Trusting, Basic, TypeOK
  <2>3. /\ sent'[u] = m /\ answer' = answer /\ answer[u] = 0 /\ u \notin calm
        /\ \A v \in Updates \ {u} : sent'[v] = sent[v]
    BY <1>3, <2>1 DEF Send, Trusting, CalmIsWelcome, Basic, TypeOK
  <2>4. trusted[b] => /\ row[b] # NoRow /\ ~Rotating(b)
                      /\ row[b].secret \in {None, sub[b]}
    BY DEF Trusting, TrustIsDeserved, OnlyMaxHasSecrets, Told
  <2>5. m.bot = b /\ m.secret = sub[b]
    OBVIOUS
  <2>6. CalmIsWelcome'
    <3>1. \A v \in Updates : sent'[v] = None => answer'[v] = 0
      BY <2>2, <2>3 DEF Trusting, CalmIsWelcome
    <3>2. ASSUME NEW v \in calm'
          PROVE  /\ answer'[v] \notin {401, 404} /\ sent'[v] # None
                 /\ row'[sent'[v].bot] # NoRow /\ ~Rotating(sent'[v].bot)
                 /\ row'[sent'[v].bot].secret \in {None, sent'[v].secret}
      <4>1. CASE v = u
        BY <1>1, <2>1, <2>2, <2>3, <2>4, <2>5, <4>1
      <4>2. CASE v # u
        BY <1>1, <2>1, <2>3, <4>2 DEF Trusting, CalmIsWelcome, Basic, TypeOK
      <4>3. QED
        BY <4>1, <4>2
    <3>3. QED
      BY <1>1, <3>1, <3>2 DEF CalmIsWelcome
  <2>7. QED
    BY <1>2, <1>3, <2>6, UpdatesKeepBasic DEF Trusting
<1>4. CASE Answer(u)
  <2>1. /\ UNCHANGED <<sent, calm>> /\ sent[u] # None
        /\ answer' = [answer EXCEPT ![u] = StatusFor(row[sent[u].bot], sent[u].secret)]
    BY <1>4 DEF Answer, history
  <2>2. u \in calm => answer'[u] \in {200, 403}
    BY <2>1 DEF StatusFor, Trusting, CalmIsWelcome, Basic, TypeOK
  <2>3. CalmIsWelcome'
    BY <1>1, <2>1, <2>2 DEF Trusting, CalmIsWelcome, Basic, TypeOK
  <2>4. QED
    BY <1>2, <1>4, <2>3, UpdatesKeepBasic DEF Trusting
<1>5. QED
  BY <1>3, <1>4

LEMMA TrustingNext ==
    ASSUME SecretTypes \subseteq {"MX"}
    PROVE  Trusting /\ [Next]_vars => Trusting'
<1> SUFFICES ASSUME Trusting, [Next]_vars
             PROVE  Trusting'
  OBVIOUS
<1>1. CASE Next
  <2>1. ASSUME NEW r \in Requests, Steps(r)
        PROVE  Trusting'
    BY <2>1, BeginKeepsTrust, CallKeepsTrust, GivingUpKeepsTrust, CommitKeepsTrust DEF Steps
  <2>2. QED
    BY <1>1, <2>1, NextSteps, UpdatesKeepTrust DEF Trusting
<1>2. CASE UNCHANGED vars
  <2>1. Basic'
    BY <1>2, BasicNext DEF Trusting
  <2>2. \A b : Rotating(b)' <=> Rotating(b)
    BY <1>2 DEF vars, Rotating, Running, BotOf
  <2>3. QED
    BY <1>2, <2>1, <2>2 DEF vars, Running, BotOf, RanAlone, Trusting, CleanRotation,
                            TrustIsDeserved, OnlyMaxHasSecrets, CalmIsWelcome
<1>3. QED
  BY <1>1, <1>2

-----------------------------------------------------------------------------
\* The variables keep their types; no creation or edit leaves a MAX bot without a secret.
THEOREM TypeCorrect == Spec => []TypeOK
BY BasicInvariant, PTL DEF Basic

\* A bot that is seen is known to the messenger, until an edit changes its secret.
THEOREM RegisteredBeforeVisibleAlways == Spec => []RegisteredBeforeVisible
BY BasicInvariant, PTL DEF Basic

(***************************************************************************)
(* Edits and toggles do not undo each other: by StillSo a request that met *)
(* none of its kind changes the row as it read it, and by ByKind it writes *)
(* no column of the other kind.                                            *)
(***************************************************************************)
THEOREM LoneRequestsCountAlways == Spec => LoneRequestsCount
<1> DEFINE OnlyToggles ==
              \A b \in Bots :
                  row[b] # NoRow /\ row'[b].status # row[b].status =>
                      \E r \in Togglers : Commits(r) /\ BotOf(r) = b
           TogglesCount ==
              \A r \in Togglers :
                  Commits(r) /\ "toggle" \notin met[r] =>
                      row'[BotOf(r)].status # row[BotOf(r)].status
           EditsCount ==
              \A r \in Editors :
                  Commits(r) /\ "edit" \notin met[r] =>
                      /\ row'[BotOf(r)].module = job[r].write.module
                      /\ row'[BotOf(r)].config = job[r].write.config
<1>1. Basic /\ [Next]_vars => [OnlyToggles /\ TogglesCount /\ EditsCount]_vars
  <2> SUFFICES ASSUME Basic, Next
               PROVE  OnlyToggles /\ TogglesCount /\ EditsCount
    OBVIOUS
  <2>1. ASSUME ~UNCHANGED row
        PROVE  \E r \in Requests : Commit(r)
    BY <2>1, NextSteps DEF Steps, Begin, Calls, GivesUp, Send, Answer
  <2>2. ASSUME NEW r \in Requests, Commits(r)
        PROVE  Commit(r)
    <3>1. PICK q \in Requests : Steps(q)
      BY <2>2, NextSteps DEF Commits, Send, Answer
    <3>2. q = r
      BY <2>2, <3>1 DEF Steps, Commits, Begin, Calls, GivesUp, Commit, End, Basic, TypeOK
    <3>3. QED
      BY <2>2, <3>1, <3>2 DEF Steps, Commits, Starts, Begin, Calls, GivesUp, End, Basic, TypeOK
  <2>3. OnlyToggles
    <3> SUFFICES ASSUME NEW b \in Bots, row[b] # NoRow, row'[b].status # row[b].status
                 PROVE  \E r \in Togglers : Commits(r) /\ BotOf(r) = b
      OBVIOUS
    <3>1. PICK r \in Requests : Commit(r)
      BY <2>1
    <3>2. b = BotOf(r) /\ Running(r) /\ Commits(r)
      BY <3>1, CommitWrites, Ended DEF Commits, Basic, TypeOK
    <3>3. r \notin Creators
      BY <3>2 DEF Basic, Creating
    <3>4. r \notin Editors
      BY <3>1, <3>2, <3>3, CommitWrites DEF Columns, Basic, ByKind
    <3>5. QED
      BY <3>2, <3>3, <3>4 DEF Requests
  <2>4. TogglesCount
    <3> SUFFICES ASSUME NEW r \in Togglers, Commits(r), "toggle" \notin met[r]
                 PROVE  row'[BotOf(r)].status # row[BotOf(r)].status
      OBVIOUS
    <3>1. Commit(r) /\ r \in Requests /\ r \notin Creators
      BY <2>2 DEF Requests
    <3>2. Running(r) /\ row[BotOf(r)].status = job[r].read.status
      BY <3>1, CommitWrites DEF Basic, StillSo
    <3>3. row'[BotOf(r)].status = job[r].write.status
      BY <3>1, <3>2, CommitWrites DEF Columns, Basic, ByKind
    <3>4. QED
      BY <3>2, <3>3 DEF Basic, ByKind
  <2>5. EditsCount
    <3> SUFFICES ASSUME NEW r \in Editors, Commits(r), "edit" \notin met[r]
                 PROVE  /\ row'[BotOf(r)].module = job[r].write.module
                        /\ row'[BotOf(r)].config = job[r].write.config
      OBVIOUS
    <3>1. Commit(r) /\ r \in Requests /\ r \notin Creators
      BY <2>2 DEF Requests
    <3>2. /\ row[BotOf(r)].module = job[r].read.module
          /\ row[BotOf(r)].config = job[r].read.config
      BY <3>1, CommitWrites DEF Basic, StillSo
    <3>3. QED
      BY <3>1, <3>2, CommitWrites DEF Columns
  <2>6. QED
    BY <2>3, <2>4, <2>5
<1>2. QED
  BY <1>1, BasicInvariant, PTL DEF Spec, LoneRequestsCount

(***************************************************************************)
(* An update sent to a bot whose secret was last changed by a request that *)
(* ran alone and unharmed is refused only for the status, unless its       *)
(* secret was changed since.  This needs that only MAX bots have secrets:  *)
(* one given for another bot is never told to the messenger.               *)
(***************************************************************************)
THEOREM NobodyIsTurnedAwayAlways ==
    ASSUME SecretTypes \subseteq {"MX"}
    PROVE  Spec => []NobodyIsTurnedAway
<1>1. Trusting /\ [Next]_vars => Trusting'
  BY TrustingNext
<1>2. Trusting => NobodyIsTurnedAway
  BY DEF Trusting, CalmIsWelcome, NobodyIsTurnedAway
<1>3. QED
  BY <1>1, <1>2, TrustingInit, PTL DEF Spec
=============================================================================
