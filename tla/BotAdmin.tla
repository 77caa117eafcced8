------------------------------- MODULE BotAdmin -------------------------------
(***************************************************************************)
(* Bot administration of the cabinet: create_bot, edit_bot, toggle_bot,    *)
(* and the head of process_webhook, which checks the row they write.  A    *)
(* bot is a row of bot_instances and a subscription at the messenger; the  *)
(* two are changed one after the other, in requests that overlap, and      *)
(* nothing undoes the one when the other fails.                            *)
(*                                                                         *)
(* A request loads the row, changes its copy and writes back, at its       *)
(* commit, the columns it changed.  Bots are of one company.  A form that  *)
(* is refused and a bot that does not exist change nothing and have no     *)
(* action here.                                                            *)
(***************************************************************************)
EXTENDS FiniteSets

CONSTANTS Bots,
          Seeded,         \* MAX bots a migration may have inserted, subscribed by hand if at all
          Types,          \* messenger_type
          Secrets,        \* enough that a fresh one is always left
          SecretTypes,    \* types for which the form may carry a secret
          Forms,          \* what a form says besides the secret: module and routing
          Creators, Editors, Togglers,   \* requests of the cabinet
          Updates,        \* updates of the messenger
          None, NoRow, NoSub,
          Faults          \* a subset of {"max", "crash"}

Requests == Creators \cup Editors \cup Togglers

ASSUME BotAdminConstants ==
    /\ Seeded \subseteq Bots
    /\ "MX" \in Types
    /\ SecretTypes \subseteq Types
    /\ None \notin Secrets \cup Bots
    /\ NoSub \notin Secrets \cup {None}
    /\ Creators \cap Editors = {} /\ Creators \cap Togglers = {} /\ Editors \cap Togglers = {}
    /\ Faults \subseteq {"max", "crash"}

Rows == [type : Types, secret : Secrets \cup {None}, status : {"active", "inactive"},
         module : Forms, config : Forms]

Jobs == [bot : Bots, read : Rows \cup {NoRow}, write : Rows]
Sendings == [bot : Bots, secret : Secrets \cup {None}]

ASSUME NoRowIsNone == NoRow \notin Rows
ASSUME NoneIsNoRecord == None \notin Jobs \cup Sendings

VARIABLES
    row,        \* bot_instances
    sub,        \* the secret each bot is subscribed with at the messenger, or NoSub
    pc, job,    \* per request: where it is; its bot, the row it read, the row it wants
    sent,       \* per update: the bot it is for and the secret in its header
    answer,     \* and the status it was answered with, 0 before that
    met,        \* history: what a request did not do alone: "secret", "edit", "toggle"
    failed,     \* history: running requests for which a call of the messenger failed
    rotated,    \* history: bots seeded, or whose secret an edit set out to change
    trusted,    \* history: bots whose last change of the secret ran alone and unharmed
    calm        \* history: updates whose bot was trusted from sending on

hook    == <<sent, answer, calm>>
history == <<met, failed, rotated, trusted, calm>>
vars    == <<row, sub, pc, job, sent, answer, met, failed, rotated, trusted, calm>>

SeedRow(s, f) == [type |-> "MX", secret |-> s, status |-> "active", module |-> f, config |-> f]

Init ==
    /\ \E there, known \in SUBSET Seeded, s \in Secrets \cup {None}, f \in Forms :
          /\ known \subseteq there
          /\ row = [b \in Bots |-> IF b \in there THEN SeedRow(s, f) ELSE NoRow]
          /\ sub = [b \in Bots |-> IF b \in known THEN s ELSE NoSub]
          /\ trusted = [b \in Bots |-> b \in known]
          /\ rotated = there
    /\ pc = [r \in Requests |-> "idle"]
    /\ job = [r \in Requests |-> None]
    /\ sent = [u \in Updates |-> None]
    /\ answer = [u \in Updates |-> 0]
    /\ met = [r \in Requests |-> {}]
    /\ failed = {}
    /\ calm = {}

-----------------------------------------------------------------------------
BotOf(r)   == job[r].bot
Running(r) == pc[r] \in {"unregister", "register", "commit"}

\* The request changes the secret of a MAX bot that is there.
Rotates(j) == j.read # NoRow /\ j.read.type = "MX" /\ j.write.secret # j.read.secret

RunningFor(b) == {r \in Requests : Running(r) /\ BotOf(r) = b}

\* What uuid4 returns is no secret this bot ever had to do with.
Fresh(b) ==
    Secrets \ ({sub[b]} \cup {row[x].secret : x \in {b} \ {y \in Bots : row[y] = NoRow}}
               \cup {job[r].write.secret : r \in RunningFor(b)})

\* A slip: nothing makes up a secret where the form has none.
GivenNeverFresh(b, type, current, s) == IF s # None THEN {s} ELSE {current}

\* The secret after a form with secret s: a MAX bot that has none gets a fresh one.
Given(b, type, current, s) ==
    IF s # None THEN {s} ELSE IF type = "MX" /\ current = None THEN Fresh(b) ELSE {current}

FormSecrets(type) == {None} \cup IF type \in SecretTypes THEN Secrets ELSE {}

Kinds(r, j) == {IF r \in Togglers THEN "toggle" ELSE "edit"}
               \cup IF Rotates(j) THEN {"secret"} ELSE {}

\* The request has read what it needs and goes on at place.
Begin(r, j, place) ==
    LET others == RunningFor(j.bot)
    IN  /\ pc' = [pc EXCEPT ![r] = place]
        /\ job' = [job EXCEPT ![r] = j]
        /\ met' = [q \in Requests |->
                      IF q = r THEN UNION {Kinds(o, job[o]) : o \in others}
                      ELSE IF q \in others THEN met[q] \cup Kinds(r, j) ELSE met[q]]
        /\ rotated' = IF Rotates(j) THEN rotated \cup {j.bot} ELSE rotated
        /\ trusted' = [trusted EXCEPT ![j.bot] = @ /\ ~Rotates(j)]
        /\ calm' = {u \in calm : sent[u].bot = j.bot => ~Rotates(j)}
        /\ UNCHANGED <<row, sub, sent, answer, failed>>

\* create_bot up to its first await: the id is new.
Create(r) ==
    /\ r \in Creators
    /\ pc[r] = "idle"
    /\ \E b \in Bots, type \in Types, f \in Forms :
          /\ row[b] = NoRow
          /\ sub[b] = NoSub
          /\ RunningFor(b) = {}
          /\ \E s \in FormSecrets(type) : \E secret \in Given(b, type, None, s) :
                Begin(r, [bot |-> b, read |-> NoRow,
                          write |-> [type |-> type, secret |-> secret, status |-> "active",
                                     module |-> f, config |-> f]], "register")

EditTo(b, secret, f) ==
    [bot |-> b, read |-> row[b],
     write |-> [row[b] EXCEPT !.secret = secret, !.module = f, !.config = f]]

\* A slip: the new secret is registered over the old subscription.
EditSkipsUnregister(r) ==
    /\ r \in Editors
    /\ pc[r] = "idle"
    /\ \E b \in Bots, f \in Forms :
          /\ row[b] # NoRow
          /\ \E s \in FormSecrets(row[b].type) : \E secret \in Given(b, row[b].type, row[b].secret, s) :
                LET j == EditTo(b, secret, f)
                IN  Begin(r, j, IF Rotates(j) THEN "register" ELSE "commit")

\* edit_bot up to its first call: only a new secret of a MAX bot goes to the messenger.
Edit(r) ==
    /\ r \in Editors
    /\ pc[r] = "idle"
    /\ \E b \in Bots, f \in Forms :
          /\ row[b] # NoRow
          /\ \E s \in FormSecrets(row[b].type) : \E secret \in Given(b, row[b].type, row[b].secret, s) :
                LET j == EditTo(b, secret, f)
                IN  Begin(r, j, IF Rotates(j) THEN "unregister" ELSE "commit")

Flip(status) == IF status = "active" THEN "inactive" ELSE "active"

\* toggle_bot up to its commit.
Toggle(r) ==
    /\ r \in Togglers
    /\ pc[r] = "idle"
    /\ \E b \in Bots :
          /\ row[b] # NoRow
          /\ Begin(r, [bot |-> b, read |-> row[b],
                       write |-> [row[b] EXCEPT !.status = Flip(@)]], "commit")

-----------------------------------------------------------------------------
(* Calls of the messenger.  One that fails may have been carried out. *)

Subscribed(b, s) == sub' = [sub EXCEPT ![b] = s]

Unregister(r) ==
    /\ pc[r] = "unregister"
    /\ pc' = [pc EXCEPT ![r] = "register"]
    /\ Subscribed(BotOf(r), NoSub)
    /\ UNCHANGED <<row, job, sent, answer, history>>

\* The failure is logged, and the registration tried all the same.
UnregisterFails(r) ==
    /\ pc[r] = "unregister"
    /\ "max" \in Faults \/ sub[BotOf(r)] = NoSub
    /\ pc' = [pc EXCEPT ![r] = "register"]
    /\ \E s \in {NoSub, sub[BotOf(r)]} : Subscribed(BotOf(r), s)
    /\ failed' = failed \cup {r}
    /\ UNCHANGED <<row, job, sent, answer, met, rotated, trusted, calm>>

\* Only MAX is told the secret; the other adapters take the parameter and ignore it.
Told(w) == IF w.type = "MX" THEN w.secret ELSE None

\* Nothing says whether a second registration of a URL replaces the first.
Outcomes(r) == {Told(job[r].write)} \cup ({sub[BotOf(r)]} \ {NoSub})

Register(r) ==
    /\ pc[r] = "register"
    /\ pc' = [pc EXCEPT ![r] = "commit"]
    /\ \E s \in Outcomes(r) : Subscribed(BotOf(r), s)
    /\ UNCHANGED <<row, job, sent, answer, history>>

\* The request is over, and with it what was kept about it.
End(r, place) ==
    /\ pc' = [pc EXCEPT ![r] = place]
    /\ job' = [job EXCEPT ![r] = None]
    /\ met' = [met EXCEPT ![r] = {}]
    /\ failed' = failed \ {r}

GoOn(r) ==
    /\ pc' = [pc EXCEPT ![r] = "commit"]
    /\ failed' = failed \cup {r}
    /\ UNCHANGED <<job, met>>

\* A slip: the failure is logged, as in edit_bot, and the bot inserted.
RegisterFailsQuietly(r) ==
    /\ "max" \in Faults
    /\ pc[r] = "register"
    /\ \E s \in Outcomes(r) \cup {sub[BotOf(r)]} : Subscribed(BotOf(r), s)
    /\ GoOn(r)
    /\ UNCHANGED <<row, sent, answer, rotated, trusted, calm>>

\* create_bot gives up, edit_bot logs it and saves.
RegisterFails(r) ==
    /\ "max" \in Faults
    /\ pc[r] = "register"
    /\ \E s \in Outcomes(r) \cup {sub[BotOf(r)]} : Subscribed(BotOf(r), s)
    /\ IF r \in Creators THEN End(r, "failed") ELSE GoOn(r)
    /\ UNCHANGED <<row, sent, answer, rotated, trusted, calm>>

\* A slip: the whole copy is written back.
WrittenWhole(current, j) == j.write

\* The UPDATE names the columns the request changed, the INSERT all of them.
Written(current, j) ==
    IF j.read = NoRow THEN j.write
    ELSE [c \in DOMAIN current |->
             IF j.write[c] # j.read[c] THEN j.write[c] ELSE current[c]]

RanAlone(r) == r \notin failed /\ "secret" \notin met[r]

Commit(r) ==
    /\ pc[r] = "commit"
    /\ row' = [row EXCEPT ![BotOf(r)] = Written(@, job[r])]
    /\ trusted' = IF r \in Creators \/ Rotates(job[r])
                  THEN [trusted EXCEPT ![BotOf(r)] = RanAlone(r)] ELSE trusted
    /\ End(r, "done")
    /\ UNCHANGED <<sub, hook, rotated>>

\* The database fails, a call raises something else, or the process ends.
Abort(r) ==
    /\ "crash" \in Faults
    /\ Running(r)
    /\ End(r, "failed")
    /\ UNCHANGED <<row, sub, hook, rotated, trusted>>

-----------------------------------------------------------------------------
\* The messenger sends an update to a bot it knows.
Send(u) ==
    /\ sent[u] = None
    /\ \E b \in Bots :
          /\ sub[b] # NoSub
          /\ sent' = [sent EXCEPT ![u] = [bot |-> b, secret |-> sub[b]]]
          /\ calm' = IF trusted[b] THEN calm \cup {u} ELSE calm
    /\ UNCHANGED <<row, sub, pc, job, answer, met, failed, rotated, trusted>>

(***************************************************************************)
(* The head of process_webhook.  The type in the URL is the one given at   *)
(* registration, which the row keeps, so the check for another type has    *)
(* nothing to refuse.                                                      *)
(***************************************************************************)
StatusFor(bot, secret) ==
    IF bot = NoRow THEN 404
    ELSE IF bot.secret # None /\ secret # bot.secret THEN 401
    ELSE IF bot.status # "active" THEN 403
    ELSE 200

Answer(u) ==
    /\ sent[u] # None
    /\ answer[u] = 0
    /\ answer' = [answer EXCEPT ![u] = StatusFor(row[sent[u].bot], sent[u].secret)]
    /\ UNCHANGED <<row, sub, pc, job, sent, history>>

Next ==
    \/ \E r \in Requests :
          \/ Create(r) \/ Edit(r) \/ Toggle(r)
          \/ Unregister(r) \/ UnregisterFails(r)
          \/ Register(r) \/ RegisterFails(r)
          \/ Commit(r) \/ Abort(r)
    \/ \E u \in Updates : Send(u) \/ Answer(u)

Spec == Init /\ [][Next]_vars

-----------------------------------------------------------------------------
(***************************************************************************)
(* Type invariant: a MAX bot the cabinet has created or edited has a       *)
(* secret, and only a request that changes one is busy with the messenger  *)
(* of a bot that is there.                                                 *)
(***************************************************************************)
TypeOK ==
    /\ row \in [Bots -> Rows \cup {NoRow}]
    /\ sub \in [Bots -> Secrets \cup {None, NoSub}]
    /\ pc \in [Requests -> {"idle", "unregister", "register", "commit", "done", "failed"}]
    /\ job \in [Requests -> Jobs \cup {None}]
    /\ sent \in [Updates -> Sendings \cup {None}]
    /\ answer \in [Updates -> {0, 200, 401, 403, 404}]
    /\ met \in [Requests -> SUBSET {"secret", "edit", "toggle"}]
    /\ failed \subseteq Requests
    /\ rotated \subseteq Bots
    /\ trusted \in [Bots -> BOOLEAN]
    /\ calm \subseteq Updates
    /\ \A r \in Requests :
          /\ Running(r) <=> job[r] # None
          /\ pc[r] = "unregister" => Rotates(job[r])
          /\ Running(r) /\ r \notin Togglers /\ job[r].write.type = "MX" =>
                job[r].write.secret # None

(***************************************************************************)
(* create_bot registers before it inserts: a bot of the cabinet is seen    *)
(* only when the messenger knows it, with the secret it was created with,  *)
(* and this stays so until an edit changes the secret.                     *)
(***************************************************************************)
RegisteredBeforeVisible ==
    \A b \in Bots \ rotated : row[b] # NoRow => sub[b] = Told(row[b])

(***************************************************************************)
(* The messenger is turned away only if the secret of the bot was being    *)
(* changed after the update was sent, or was last changed by requests that *)
(* overlapped or met a failure.  Toggles, other edits and creations do not *)
(* matter, and one rotation that runs alone repairs what went wrong.       *)
(***************************************************************************)
NobodyIsTurnedAway == \A u \in calm : answer[u] \notin {401, 404}

Commits(r) == pc[r] = "commit" /\ pc'[r] = "done"

(***************************************************************************)
(* An edit and a toggle do not undo each other, although each commits a    *)
(* row it read before the other wrote.  A toggle that overlaps no other    *)
(* toggle changes the status, and nothing but a toggle ever does.  An edit *)
(* that overlaps no other edit leaves the module and the routing of its    *)
(* own form, although only the columns that changed are written.           *)
(***************************************************************************)
LoneRequestsCount ==
    [][/\ \A b \in Bots :
             row[b] # NoRow /\ row'[b].status # row[b].status =>
                 \E r \in Togglers : Commits(r) /\ BotOf(r) = b
       /\ \A r \in Togglers :
             Commits(r) /\ "toggle" \notin met[r] =>
                 row'[BotOf(r)].status # row[BotOf(r)].status
       /\ \A r \in Editors :
             Commits(r) /\ "edit" \notin met[r] =>
                 /\ row'[BotOf(r)].module = job[r].write.module
                 /\ row'[BotOf(r)].config = job[r].write.config]_vars
=============================================================================
