----------------------------- MODULE AccountLink -----------------------------
(***************************************************************************)
(* How a messenger account becomes a user's: process_webhook from the      *)
(* resolution of the user to the end of the request, link_by_otp with its  *)
(* two kinds of codes, the endpoint /otp/verify, and the transaction that  *)
(* get_db_session commits only after the response was sent.                *)
(*                                                                         *)
(* One messenger type is modelled, hence one column of the users table,    *)
(* unique over all companies.  A request reads what is committed; its own  *)
(* write stays invisible, but locks its row and its value of the unique    *)
(* column, until it commits or rolls back (READ COMMITTED).  Updates that  *)
(* were not answered with 200 are delivered again.                         *)
(*                                                                         *)
(* The register and users routers write the same table without a code:     *)
(* people register, edit any of their own columns and, like anybody's row  *)
(* by a superuser, are edited and deleted while requests are under way.    *)
(*                                                                         *)
(* How codes are generated is OTP.tla's matter: here a code is simply      *)
(* issued, over whatever its key held, and lapses at any time.             *)
(***************************************************************************)
EXTENDS Integers, FiniteSets

CONSTANTS Accounts,        \* messenger_user_id values
          Companies,       \* each with one active bot
          Users,           \* ids for users who register
          CompanyOf,       \* the company each of them registers with
          Members,         \* those who have registered before
          Shadows,         \* ids for users created by an invite
          Codes,
          HookRequests,    \* webhook updates
          ApiRequests,     \* calls of /otp/verify
          None,
          MaxIssues,       \* bound: codes issued in a behaviour
          MaxDeliveries,   \* bound: deliveries of one update
          Edited,          \* bound: the users the cabinet edits or deletes
          Faults           \* which of "database", "messenger", "crash" happen

Requests == HookRequests \cup ApiRequests
People   == Users \cup Shadows
Issues   == 1..MaxIssues

ASSUME AccountLinkConstants ==
    /\ None \notin Accounts \cup Companies \cup People \cup Codes
    /\ Users \cap Shadows = {}
    /\ Companies \cap People = {}
    /\ HookRequests \cap ApiRequests = {}
    /\ CompanyOf \in [Users -> Companies]
    /\ Edited \subseteq People
    /\ Members \subseteq Users
    /\ MaxIssues \in Nat /\ MaxDeliveries \in Nat \ {0}
    /\ Faults \subseteq {"database", "messenger", "crash"}

VARIABLES
    otp, invite,    \* otp_reverse:{code} and invite:{code}, by the issue they hold
    company,        \* committed users: company_id, None for no such row
    account,        \* committed users: telegram_id (or yandex_id, or max_id)
    gone,           \* the ids of deleted users, which no user gets again
    pc, msg,        \* where each request is, and what it asks for
    grant,          \* the issue a request has redeemed, 0 for none
    row,            \* the row its transaction writes, None for none
    status,         \* the HTTP status of the response, 0 before there is one
    deliveries,
    issuedTo,       \* history: the user or the company each issue was for
    uses            \* history: how many committed links each issue led to

redis == <<otp, invite>>
table == <<company, account, gone>>
vars  == <<otp, invite, company, account, gone, pc, msg, grant, row, status, deliveries,
           issuedTo, uses>>

Issued == {n \in Issues : issuedTo[n] # None}

Init ==
    /\ otp = [c \in Codes |-> 0]
    /\ invite = [c \in Codes |-> 0]
    /\ company = [p \in People |-> IF p \in Members THEN CompanyOf[p] ELSE None]
    /\ account = [p \in People |-> None]
    /\ gone = {}
    /\ pc = [r \in Requests |-> "idle"]
    /\ msg = [r \in Requests |-> None]
    /\ grant = [r \in Requests |-> 0]
    /\ row = [r \in Requests |-> None]
    /\ status = [r \in Requests |-> 0]
    /\ deliveries = [r \in Requests |-> 0]
    /\ issuedTo = [n \in Issues |-> None]
    /\ uses = [n \in Issues |-> 0]

-----------------------------------------------------------------------------
(* The Redis side: codes come and go. *)

Record(n, to) == n = Cardinality(Issued) + 1 /\ issuedTo' = [issuedTo EXCEPT ![n] = to]

\* generate_code for a user of the cabinet, who may be deleted once authenticated.
IssueOtp(c, u) ==
    /\ company[u] # None \/ u \in gone
    /\ \E n \in Issues : Record(n, u) /\ otp' = [otp EXCEPT ![c] = n]
    /\ UNCHANGED <<invite, table, pc, msg, grant, row, status, deliveries, uses>>

\* generate_invite_code for the company of a user of the cabinet.
IssueInvite(c, k) ==
    /\ \E n \in Issues : Record(n, k) /\ invite' = [invite EXCEPT ![c] = n]
    /\ UNCHANGED <<otp, table, pc, msg, grant, row, status, deliveries, uses>>

Lapse(c) ==
    /\ \/ otp[c] # 0 /\ otp' = [otp EXCEPT ![c] = 0] /\ UNCHANGED invite
       \/ invite[c] # 0 /\ invite' = [invite EXCEPT ![c] = 0] /\ UNCHANGED otp
    /\ UNCHANGED <<table, pc, msg, grant, row, status, deliveries, issuedTo, uses>>

-----------------------------------------------------------------------------
Goto(r, from, to) == pc[r] = from /\ pc' = [pc EXCEPT ![r] = to]

\* An update from an account reaches the bot of a company: a code, or any other text.
Arrive(r) ==
    /\ r \in HookRequests
    /\ Goto(r, "idle", "resolve")
    /\ \E a \in Accounts, k \in Companies, c \in Codes \cup {None} :
          msg' = [msg EXCEPT ![r] = [account |-> a, company |-> k, code |-> c]]
    /\ deliveries' = [deliveries EXCEPT ![r] = 1]
    /\ UNCHANGED <<redis, table, grant, row, status, issuedTo, uses>>

\* The messenger repeats an update it got no 200 for.
Redeliver(r) ==
    /\ r \in HookRequests
    /\ status[r] # 200
    /\ deliveries[r] < MaxDeliveries
    /\ Goto(r, "done", "resolve")
    /\ deliveries' = [deliveries EXCEPT ![r] = @ + 1]
    /\ status' = [status EXCEPT ![r] = 0]
    /\ UNCHANGED <<redis, table, msg, grant, row, issuedTo, uses>>

\* verify_otp hands a code and an account to link_by_otp without resolving anybody.
ArriveApi(r) ==
    /\ r \in ApiRequests
    /\ Goto(r, "idle", "redeem")
    /\ \E a \in Accounts, c \in Codes :
          msg' = [msg EXCEPT ![r] = [account |-> a, company |-> None, code |-> c]]
    /\ deliveries' = [deliveries EXCEPT ![r] = 1]
    /\ UNCHANGED <<redis, table, grant, row, status, issuedTo, uses>>

Known(a, k) == \E p \in People : company[p] = k /\ account[p] = a

\* _resolve_user, then dispatch, OTP interception or a prompt.
Resolve(r) ==
    /\ Goto(r, "resolve",
            IF Known(msg[r].account, msg[r].company) THEN "respond"
            ELSE IF msg[r].code = None THEN "prompt" ELSE "redeem")
    /\ UNCHANGED <<redis, table, msg, grant, row, status, deliveries, issuedTo, uses>>

\* A slip in the reverse lookup: the key survives.
RedeemKeepsCode(r) ==
    /\ pc[r] = "redeem"
    /\ LET n == otp[msg[r].code]
       IN  /\ n # 0
           /\ Goto(r, "redeem", "find")
           /\ grant' = [grant EXCEPT ![r] = n]
           /\ row' = [row EXCEPT ![r] = issuedTo[n]]
           /\ UNCHANGED <<redis, table, msg, status, deliveries, issuedTo, uses>>

\* link_by_otp, step 1: verify_code_by_value finds the user of the code.
Redeem(r) ==
    /\ pc[r] = "redeem"
    /\ LET n == otp[msg[r].code]
       IN  /\ n # 0
           /\ Goto(r, "redeem", "find")
           /\ otp' = [otp EXCEPT ![msg[r].code] = 0]
           /\ grant' = [grant EXCEPT ![r] = n]
           /\ row' = [row EXCEPT ![r] = issuedTo[n]]
           /\ UNCHANGED <<invite, table, msg, status, deliveries, issuedTo, uses>>

\* ... or does not.
RedeemUnknown(r) ==
    /\ pc[r] = "redeem"
    /\ otp[msg[r].code] = 0
    /\ Goto(r, "redeem", "invite")
    /\ UNCHANGED <<redis, table, msg, grant, row, status, deliveries, issuedTo, uses>>

\* The ids a new user may get; which of them it is makes no difference.
Fresh == {s \in Shadows : /\ company[s] = None /\ s \notin gone
                          /\ \A q \in Requests : row[q] # s}

\* A slip in the fallback: the shadow user of an earlier invite is taken again.
RedeemInviteReusesShadow(r) ==
    /\ pc[r] = "invite"
    /\ LET n == invite[msg[r].code]
       IN  /\ n # 0
           /\ Goto(r, "invite", "link")
           /\ invite' = [invite EXCEPT ![msg[r].code] = 0]
           /\ grant' = [grant EXCEPT ![r] = n]
           /\ \E s \in Shadows : row' = [row EXCEPT ![r] = s]
           /\ UNCHANGED <<otp, table, msg, status, deliveries, issuedTo, uses>>

\* Step 2: the code is an invite, which adds and flushes a shadow user.
RedeemInvite(r) ==
    /\ pc[r] = "invite"
    /\ LET n == invite[msg[r].code]
       IN  /\ n # 0
           /\ Goto(r, "invite", "link")
           /\ invite' = [invite EXCEPT ![msg[r].code] = 0]
           /\ grant' = [grant EXCEPT ![r] = n]
           /\ Fresh # {}
           /\ row' = [row EXCEPT ![r] = CHOOSE s \in Fresh : TRUE]
           /\ UNCHANGED <<otp, table, msg, status, deliveries, issuedTo, uses>>

\* link_by_otp returns None: the bot says so, and the endpoint answers 404.
NotLinked(r, from) ==
    IF r \in ApiRequests
    THEN Goto(r, from, "done") /\ status' = [status EXCEPT ![r] = 404]
    ELSE Goto(r, from, "reply") /\ UNCHANGED status

Linked(r) == IF r \in ApiRequests THEN "respond" ELSE "reply"

\* The code is neither kind's.
RedeemFails(r) ==
    /\ pc[r] = "invite"
    /\ invite[msg[r].code] = 0
    /\ NotLinked(r, "invite")
    /\ UNCHANGED <<redis, table, msg, grant, row, deliveries, issuedTo, uses>>

(***************************************************************************)
(* session.get reads the user of the code.  An account that is the user's  *)
(* already leaves nothing to flush; otherwise whatever the row holds by    *)
(* the time of the flush is overwritten.                                   *)
(***************************************************************************)
Find(r) ==
    /\ pc[r] = "find"
    /\ company[row[r]] # None
    /\ IF account[row[r]] = msg[r].account
       THEN /\ Goto(r, "find", Linked(r))
            /\ grant' = [grant EXCEPT ![r] = 0]
            /\ row' = [row EXCEPT ![r] = None]
       ELSE Goto(r, "find", "link") /\ UNCHANGED <<grant, row>>
    /\ UNCHANGED <<redis, table, msg, status, deliveries, issuedTo, uses>>

\* ... who was deleted meanwhile: the code is used up, and answered like an unknown one.
FindNobody(r) ==
    /\ pc[r] = "find"
    /\ company[row[r]] = None
    /\ grant' = [grant EXCEPT ![r] = 0]
    /\ row' = [row EXCEPT ![r] = None]
    /\ NotLinked(r, "find")
    /\ UNCHANGED <<redis, table, msg, deliveries, issuedTo, uses>>

\* Transactions with a flushed write that is not committed yet.
Writing == {q \in Requests : row[q] # None /\ pc[q] \in {"reply", "respond", "commit"}}

\* The values of the unique column such a transaction puts in place and out of place.
Held(q) == {msg[q].account, account[row[q]]} \ {None}

\* A write of a user's row and account waits for the transactions that have either ...
Blocked(p, a) == \E q \in Writing : row[q] = p \/ a \in Held(q)

\* ... and fails if the account is another user's.
Taken(p, a) == \E x \in People \ {p} : account[x] = a

\* The row was deleted between the read and the flush.
Lost(r) == row[r] \in Users /\ company[row[r]] = None

\* A slip in the migration: the column is not unique.
LinkWithoutUnique(r) ==
    /\ pc[r] = "link"
    /\ \A q \in Writing : row[q] # row[r]
    /\ ~Lost(r)
    /\ Goto(r, "link", Linked(r))
    /\ UNCHANGED <<redis, table, msg, grant, row, status, deliveries, issuedTo, uses>>

\* setattr and the flush that writes the account.
Link(r) ==
    /\ pc[r] = "link"
    /\ ~Lost(r)
    /\ ~Blocked(row[r], msg[r].account)
    /\ ~Taken(row[r], msg[r].account)
    /\ Goto(r, "link", Linked(r))
    /\ UNCHANGED <<redis, table, msg, grant, row, status, deliveries, issuedTo, uses>>

\* A slip in get_db_session: the exception leaves the transaction open.
FailKeepsTransaction(r) ==
    /\ pc' = [pc EXCEPT ![r] = "done"]
    /\ UNCHANGED <<grant, row>>
    /\ status' = [status EXCEPT ![r] = IF @ = 0 THEN 500 ELSE @]

\* The transaction is rolled back and the request over.
Fail(r) ==
    /\ pc' = [pc EXCEPT ![r] = "done"]
    /\ grant' = [grant EXCEPT ![r] = 0]
    /\ row' = [row EXCEPT ![r] = None]
    /\ status' = [status EXCEPT ![r] = IF @ = 0 THEN 500 ELSE @]

\* Another user has the account: IntegrityError, which nobody catches.
LinkViolatesUnique(r) ==
    /\ pc[r] = "link"
    /\ ~Lost(r)
    /\ ~Blocked(row[r], msg[r].account)
    /\ Taken(row[r], msg[r].account)
    /\ Fail(r)
    /\ UNCHANGED <<redis, table, msg, deliveries, issuedTo, uses>>

\* The update of a deleted row matches none: StaleDataError, which nobody catches.
LinkLosesRow(r) ==
    /\ pc[r] = "link"
    /\ Lost(r)
    /\ Fail(r)
    /\ UNCHANGED <<redis, table, msg, deliveries, issuedTo, uses>>

\* _handle_unknown_user tells the result and survives whatever sending raises.
Reply(r) ==
    /\ Goto(r, "reply", "respond")
    /\ UNCHANGED <<redis, table, msg, grant, row, status, deliveries, issuedTo, uses>>

\* The prompt for an account that is not linked; a network error is only logged.
Prompt(r) ==
    /\ Goto(r, "prompt", "respond")
    /\ UNCHANGED <<redis, table, msg, grant, row, status, deliveries, issuedTo, uses>>

\* An HTTP error of the messenger is not a ValueError.
PromptRaises(r) ==
    /\ "messenger" \in Faults
    /\ pc[r] = "prompt"
    /\ Fail(r)
    /\ UNCHANGED <<redis, table, msg, deliveries, issuedTo, uses>>

\* The response leaves before the exit code of get_db_session runs.
Respond(r) ==
    /\ Goto(r, "respond", "commit")
    /\ status' = [status EXCEPT ![r] = 200]
    /\ UNCHANGED <<redis, table, msg, grant, row, deliveries, issuedTo, uses>>

Persist(r) ==
    IF row[r] = None
    THEN UNCHANGED <<table, uses>>
    ELSE /\ account' = [account EXCEPT ![row[r]] = msg[r].account]
         /\ company' = [company EXCEPT ![row[r]] = IF @ = None THEN issuedTo[grant[r]] ELSE @]
         /\ uses' = [uses EXCEPT ![grant[r]] = @ + 1]

\* A slip in get_db_session: nothing is committed and the session stays open.
CommitForgotten(r) ==
    /\ pc[r] = "commit"
    /\ UNCHANGED vars

Commit(r) ==
    /\ Goto(r, "commit", "done")
    /\ Persist(r)
    /\ grant' = [grant EXCEPT ![r] = 0]
    /\ row' = [row EXCEPT ![r] = None]
    /\ UNCHANGED <<redis, gone, msg, status, deliveries, issuedTo>>

CommitFails(r) ==
    /\ "database" \in Faults
    /\ pc[r] = "commit"
    /\ Fail(r)
    /\ UNCHANGED <<redis, table, msg, deliveries, issuedTo, uses>>

\* The process ends, or Redis or the database fails, at an await.
Abort(r) ==
    /\ "crash" \in Faults
    /\ pc[r] \notin {"idle", "done"}
    /\ Fail(r)
    /\ UNCHANGED <<redis, table, msg, deliveries, issuedTo, uses>>

-----------------------------------------------------------------------------
(***************************************************************************)
(* The routers of fastapi-users.  Each request is one short transaction    *)
(* that commits before the answer; one the database refuses changes        *)
(* nothing and has no step.                                                *)
(***************************************************************************)
InCabinet == UNCHANGED <<redis, pc, msg, grant, row, status, deliveries, issuedTo, uses>>

\* POST /auth/register: UserManager.create adds a user without an account.
Register(u) ==
    /\ company[u] = None /\ u \notin gone
    /\ company' = [company EXCEPT ![u] = CompanyOf[u]]
    /\ UNCHANGED <<account, gone>>
    /\ InCabinet

\* PATCH /users/me and /users/{id}: any account that is free, or none, and any company.
EditUser(p) ==
    /\ company[p] # None
    /\ \E a \in Accounts \cup {None}, k \in Companies :
          /\ ~Blocked(p, a)
          /\ a # None => ~Taken(p, a)
          /\ account' = [account EXCEPT ![p] = a]
          /\ company' = [company EXCEPT ![p] = k]
    /\ UNCHANGED gone
    /\ InCabinet

\* DELETE /users/{id} of a user who owns no project.
DeleteUser(p) ==
    /\ company[p] # None
    /\ \A q \in Writing : row[q] # p
    /\ company' = [company EXCEPT ![p] = None]
    /\ account' = [account EXCEPT ![p] = None]
    /\ gone' = gone \cup {p}
    /\ InCabinet

\* What the server does with a request it has while nothing fails.
Step(r) ==
    \/ Resolve(r)
    \/ Redeem(r) \/ RedeemUnknown(r)
    \/ RedeemInvite(r) \/ RedeemFails(r)
    \/ Find(r) \/ FindNobody(r)
    \/ Link(r) \/ LinkViolatesUnique(r) \/ LinkLosesRow(r)
    \/ Reply(r) \/ Prompt(r)
    \/ Respond(r)
    \/ Commit(r)

Next ==
    \/ \E c \in Codes, u \in Users : IssueOtp(c, u)
    \/ \E c \in Codes, k \in Companies : IssueInvite(c, k)
    \/ \E c \in Codes : Lapse(c)
    \/ \E u \in Users : Register(u)
    \/ \E p \in Edited : EditUser(p) \/ DeleteUser(p)
    \/ \E r \in Requests :
          \/ Arrive(r) \/ Redeliver(r) \/ ArriveApi(r)
          \/ Step(r)
          \/ PromptRaises(r) \/ CommitFails(r) \/ Abort(r)

\* A handler that can run is run; nobody has to send anything.
Spec == Init /\ [][Next]_vars /\ \A r \in Requests : WF_vars(Step(r))

-----------------------------------------------------------------------------
(***************************************************************************)
(* Type invariant: a request has a row to write exactly between the        *)
(* redemption of a code and the end of its transaction, and a row has an   *)
(* account only if it exists, which no deleted one does.                   *)
(***************************************************************************)
Places == {"idle", "resolve", "prompt", "redeem", "invite", "find", "link", "reply",
           "respond", "commit", "done"}

TypeOK ==
    /\ otp \in [Codes -> Issues \cup {0}]
    /\ invite \in [Codes -> Issues \cup {0}]
    /\ company \in [People -> Companies \cup {None}]
    /\ account \in [People -> Accounts \cup {None}]
    /\ gone \subseteq People
    /\ pc \in [Requests -> Places]
    /\ msg \in [Requests -> {None} \cup
                   [account : Accounts, company : Companies \cup {None}, code : Codes \cup {None}]]
    /\ grant \in [Requests -> Issues \cup {0}]
    /\ row \in [Requests -> People \cup {None}]
    /\ status \in [Requests -> {0, 200, 404, 500}]
    /\ deliveries \in [Requests -> 0..MaxDeliveries]
    /\ issuedTo \in [Issues -> Users \cup Companies \cup {None}]
    /\ uses \in [Issues -> Nat]
    /\ \A r \in Requests :
          /\ row[r] # None => pc[r] \in {"find", "link", "reply", "respond", "commit"}
          /\ row[r] # None <=> grant[r] # 0
          /\ pc[r] \in {"find", "link"} => row[r] # None
    /\ \A p \in People :
          /\ account[p] # None => company[p] # None
          /\ company[p] # None => p \notin gone

(***************************************************************************)
(* A code that was issued links at most one account, once, however often   *)
(* the update is delivered and whoever else sends the same digits.         *)
(***************************************************************************)
OneLinkPerCode == \A n \in Issues : uses[n] <= 1

(***************************************************************************)
(* No two users ever share an account, so _resolve_user, which fails when  *)
(* it finds two, always finds at most one.                                 *)
(***************************************************************************)
AccountResolvesToOne ==
    \A p, q \in People : account[p] # None /\ account[p] = account[q] => p = q

(***************************************************************************)
(* Apart from the cabinet, which registers, edits and deletes, the account *)
(* of an existing user changes only when a request commits that redeemed a *)
(* code issued to this very user, and no such request moves a user to      *)
(* another company or brings a deleted one back; a user an invite adds     *)
(* appears with an account, in the company whose invite was redeemed.      *)
(***************************************************************************)
OnlyOwnCodeMovesAccount ==
    [][\A p \in People :
          <<company[p], account[p]>>' # <<company[p], account[p]>> =>
              \/ p \in Users /\ Register(p)
              \/ p \in Edited /\ (EditUser(p) \/ DeleteUser(p))
              \/ \E r \in Requests :
                    /\ pc[r] = "commit" /\ pc'[r] = "done"
                    /\ account'[p] = msg[r].account
                    /\ IF company[p] # None
                       THEN issuedTo[grant[r]] = p /\ company'[p] = company[p]
                       ELSE issuedTo[grant[r]] = company'[p] /\ p \notin gone]_vars

(***************************************************************************)
(* Requests wait for each other's rows and accounts, never in a circle:    *)
(* every request that arrives comes to an end.                             *)
(***************************************************************************)
EveryRequestEnds == \A r \in Requests : pc[r] # "idle" ~> pc[r] = "done"

-----------------------------------------------------------------------------
(***************************************************************************)
(* What the docstring of handle_webhook says: "For TG: always returns 200".*)
(***************************************************************************)
TelegramGets200 == \A r \in HookRequests : status[r] \in {0, 200}
=============================================================================
