-------------------------- MODULE AccountLinkProofs --------------------------
(***************************************************************************)
(* For any accounts, companies, users, codes, requests and bounds, under   *)
(* every fault: the types of AccountLink, that a code links once, that no  *)
(* two users share an account, and that only its own code, or the cabinet, *)
(* moves a user.                                                           *)
(***************************************************************************)
EXTENDS AccountLink, FiniteSetTheorems, TLAPS

Messages == [account : Accounts, company : Companies \cup {None}, code : Codes \cup {None}]

\* A request that has arrived says what it wants; one that redeems has a code.
Asked ==
    \A r \in Requests :
        /\ pc[r] # "idle" => msg[r] \in Messages
        /\ pc[r] \in {"redeem", "invite"} => msg[r].code \in Codes

\* Issues are numbered in their order, so that the next number is a new one.
InOrder == \E k \in 0..MaxIssues : Issued = 1..k

\* Where an issue is kept tells whom it was for.
RightKind ==
    /\ \A c \in Codes : otp[c] # 0 => issuedTo[otp[c]] \in Users
    /\ \A c \in Codes : invite[c] # 0 => issuedTo[invite[c]] \in Companies
    /\ \A r \in Requests : grant[r] # 0 =>
          \/ row[r] \in Users /\ issuedTo[grant[r]] = row[r]
          \/ row[r] \in Shadows /\ issuedTo[grant[r]] \in Companies

(***************************************************************************)
(* An issue is under one key, or with one request, or used up.  Kinds keep *)
(* the two kinds of keys apart.                                            *)
(***************************************************************************)
OnePlace ==
    /\ \A c, d \in Codes : otp[c] # 0 /\ otp[c] = otp[d] => c = d
    /\ \A c, d \in Codes : invite[c] # 0 /\ invite[c] = invite[d] => c = d
    /\ \A r, q \in Requests : grant[r] # 0 /\ grant[r] = grant[q] => r = q
    /\ \A c \in Codes : \A r \in Requests :
          grant[r] # 0 => grant[r] # otp[c] /\ grant[r] # invite[c]
    /\ \A n \in Issues : uses[n] # 0 =>
          /\ uses[n] = 1 /\ issuedTo[n] # None
          /\ \A c \in Codes : otp[c] # n /\ invite[c] # n
          /\ \A r \in Requests : grant[r] # n

\* A user an invite is about to add is nobody else's and not there yet.
NewUsers ==
    \A r \in Requests : row[r] \in Shadows =>
        /\ company[row[r]] = None /\ row[r] \notin gone
        /\ \A q \in Requests : row[q] = row[r] => q = r

(***************************************************************************)
(* What the database's locks give: two open writes differ in their rows    *)
(* and in their accounts, the account of an open write is no other user's, *)
(* and a user it changes is not deleted.                                   *)
(***************************************************************************)
Locks ==
    /\ \A q, s \in Writing :
          row[q] = row[s] \/ msg[q].account = msg[s].account => q = s
    /\ \A q \in Writing : \A p \in People \ {row[q]} : account[p] # msg[q].account
    /\ \A q \in Writing : row[q] \in Users => company[row[q]] # None

Inv ==
    /\ TypeOK
    /\ Asked /\ InOrder /\ RightKind /\ OnePlace
    /\ NewUsers /\ Locks /\ AccountResolvesToOne

USE AccountLinkConstants

LEMMA InvInit == Init => Inv
<1> SUFFICES ASSUME Init PROVE Inv
  OBVIOUS
<1>1. TypeOK
  BY DEF Init, TypeOK, People, Issues, Places
<1>2. Asked /\ RightKind /\ OnePlace
  BY DEF Init, Asked, RightKind, OnePlace
<1>3. InOrder
  <2>1. Issued = 1..0
    BY DEF Init, Issued, Issues
  <2>2. QED
    BY <2>1 DEF InOrder
<1>4. NewUsers
  BY DEF Init, NewUsers, People
<1>5. Locks /\ AccountResolvesToOne
  BY DEF Init, Locks, Writing, AccountResolvesToOne, People
<1>6. QED
  BY <1>1, <1>2, <1>3, <1>4, <1>5 DEF Inv

\* A number that Record takes is that of no issue yet.
LEMMA RecordIsNew ==
    ASSUME InOrder, NEW n \in Issues, NEW to, Record(n, to)
    PROVE  issuedTo[n] = None /\ Issued = 1..(n - 1)
<1>1. PICK k \in 0..MaxIssues : Issued = 1..k
  BY DEF InOrder
<1>2. Cardinality(1..k) = k
  BY FS_Interval
<1>3. n = k + 1
  BY <1>1, <1>2 DEF Record
<1>4. n \notin Issued
  BY <1>1, <1>3
<1>5. QED
  BY <1>1, <1>3, <1>4 DEF Issued, Issues

LEMMA RecordKeepsOrder ==
    ASSUME TypeOK, InOrder, NEW n \in Issues, NEW to \in Users \cup Companies, Record(n, to)
    PROVE  InOrder'
<1>1. Issued = 1..(n - 1) /\ n \in 1..MaxIssues
  BY RecordIsNew DEF Issues
<1>2. Issued' = 1..n
  <2>1. \A m \in Issues : issuedTo'[m] # None <=> m = n \/ issuedTo[m] # None
    BY DEF Record, TypeOK, People
  <2>2. Issued' = Issued \cup {n}
    BY <2>1 DEF Issued
  <2>3. QED
    BY <1>1, <2>2
<1>3. QED
  BY <1>1, <1>2 DEF InOrder

-----------------------------------------------------------------------------
(***************************************************************************)
(* Codes come and go.                                                      *)
(***************************************************************************)
LEMMA IssueOtpKeepsInv ==
    ASSUME Inv, NEW c \in Codes, NEW u \in Users, IssueOtp(c, u)
    PROVE  Inv'
<1>1. PICK n \in Issues : Record(n, u) /\ otp' = [otp EXCEPT ![c] = n]
  BY DEF IssueOtp
<1>2. issuedTo[n] = None /\ InOrder'
  BY <1>1, RecordIsNew, RecordKeepsOrder DEF Inv
<1>3. /\ issuedTo' = [issuedTo EXCEPT ![n] = u] /\ n \in 1..MaxIssues /\ n # 0
      /\ UNCHANGED <<invite, table, pc, msg, grant, row, status, deliveries, uses>>
  BY <1>1 DEF IssueOtp, Record, Issues
<1>4. TypeOK'
  BY <1>1, <1>3 DEF table, Inv, TypeOK
<1>5. Asked' /\ NewUsers' /\ Locks' /\ AccountResolvesToOne'
  BY <1>3 DEF table, Inv, Asked, NewUsers, Locks, Writing, AccountResolvesToOne
<1>6. /\ \A d \in Codes : otp[d] # n /\ invite[d] # n
      /\ \A r \in Requests : grant[r] # n
      /\ uses[n] = 0
  BY <1>2, <1>3 DEF Inv, RightKind, OnePlace, People
<1>7. RightKind'
  BY <1>1, <1>3, <1>6 DEF Inv, TypeOK, RightKind
<1>8. OnePlace'
  BY <1>1, <1>3, <1>6 DEF Inv, TypeOK, OnePlace, People
<1>9. QED
  BY <1>2, <1>4, <1>5, <1>7, <1>8 DEF Inv

LEMMA IssueInviteKeepsInv ==
    ASSUME Inv, NEW c \in Codes, NEW k \in Companies, IssueInvite(c, k)
    PROVE  Inv'
<1>1. PICK n \in Issues : Record(n, k) /\ invite' = [invite EXCEPT ![c] = n]
  BY DEF IssueInvite
<1>2. issuedTo[n] = None /\ InOrder'
  BY <1>1, RecordIsNew, RecordKeepsOrder DEF Inv
<1>3. /\ issuedTo' = [issuedTo EXCEPT ![n] = k] /\ n \in 1..MaxIssues /\ n # 0
      /\ UNCHANGED <<otp, table, pc, msg, grant, row, status, deliveries, uses>>
  BY <1>1 DEF IssueInvite, Record, Issues
<1>4. TypeOK'
  BY <1>1, <1>3 DEF table, Inv, TypeOK
<1>5. Asked' /\ NewUsers' /\ Locks' /\ AccountResolvesToOne'
  BY <1>3 DEF table, Inv, Asked, NewUsers, Locks, Writing, AccountResolvesToOne
<1>6. /\ \A d \in Codes : otp[d] # n /\ invite[d] # n
      /\ \A r \in Requests : grant[r] # n
      /\ uses[n] = 0
  BY <1>2, <1>3 DEF Inv, RightKind, OnePlace, People
<1>7. RightKind'
  BY <1>1, <1>3, <1>6 DEF Inv, TypeOK, RightKind
<1>8. OnePlace'
  BY <1>1, <1>3, <1>6 DEF Inv, TypeOK, OnePlace, People
<1>9. QED
  BY <1>2, <1>4, <1>5, <1>7, <1>8 DEF Inv

LEMMA LapseKeepsInv ==
    ASSUME Inv, NEW c \in Codes, Lapse(c)
    PROVE  Inv'
<1>1. /\ UNCHANGED <<table, pc, msg, grant, row, status, deliveries, issuedTo, uses>>
      /\ \/ otp' = [otp EXCEPT ![c] = 0] /\ UNCHANGED invite
         \/ invite' = [invite EXCEPT ![c] = 0] /\ UNCHANGED otp
  BY DEF Lapse
<1>2. /\ otp' \in [Codes -> Issues \cup {0}] /\ invite' \in [Codes -> Issues \cup {0}]
      /\ \A d \in Codes : otp'[d] \in {otp[d], 0} /\ invite'[d] \in {invite[d], 0}
  BY <1>1 DEF Inv, TypeOK
<1>3. TypeOK' /\ Asked' /\ InOrder' /\ NewUsers' /\ Locks' /\ AccountResolvesToOne'
  BY <1>1, <1>2 DEF table, Inv, TypeOK, Asked, InOrder, Issued, NewUsers, Locks, Writing,
                    AccountResolvesToOne
<1>4. RightKind' /\ OnePlace'
  BY <1>1, <1>2 DEF Inv, RightKind, OnePlace, Issues
<1>5. QED
  BY <1>3, <1>4 DEF Inv

-----------------------------------------------------------------------------
(***************************************************************************)
(* The cabinet writes only where no open transaction has a lock.           *)
(***************************************************************************)
LEMMA CabinetKeepsInv ==
    ASSUME Inv, InCabinet, TypeOK', NewUsers', Locks', AccountResolvesToOne'
    PROVE  Inv'
BY DEF InCabinet, redis, Inv, Asked, InOrder, Issued, RightKind, OnePlace

LEMMA RegisterKeepsInv ==
    ASSUME Inv, NEW u \in Users, Register(u)
    PROVE  Inv'
<1>1. /\ company[u] = None /\ u \notin gone /\ u \in People /\ CompanyOf[u] \in Companies
      /\ company' = [company EXCEPT ![u] = CompanyOf[u]]
      /\ UNCHANGED <<account, gone>>
      /\ UNCHANGED <<otp, invite, pc, msg, grant, row, status, deliveries, issuedTo, uses>>
  BY DEF Register, InCabinet, redis, People
<1>2. /\ company' \in [People -> Companies \cup {None}]
      /\ \A p \in People : company'[p] = IF p = u THEN CompanyOf[u] ELSE company[p]
      /\ CompanyOf[u] # None
  BY <1>1 DEF Inv, TypeOK
<1>3. TypeOK'
  BY <1>1, <1>2 DEF Inv, TypeOK
<1>4. NewUsers'
  BY <1>1, <1>2 DEF Inv, NewUsers, People
<1>5. Locks' /\ AccountResolvesToOne'
  BY <1>1, <1>2 DEF Inv, Locks, Writing, AccountResolvesToOne, People
<1>6. QED
  BY <1>3, <1>4, <1>5, CabinetKeepsInv DEF Register

LEMMA EditUserKeepsInv ==
    ASSUME Inv, NEW p \in People, EditUser(p)
    PROVE  Inv'
<1>1. PICK a \in Accounts \cup {None}, k \in Companies :
         /\ ~Blocked(p, a)
         /\ a # None => ~Taken(p, a)
         /\ account' = [account EXCEPT ![p] = a]
         /\ company' = [company EXCEPT ![p] = k]
  BY DEF EditUser
<1>2. UNCHANGED <<otp, invite, pc, msg, grant, row, status, deliveries, issuedTo, uses>>
  BY DEF EditUser, InCabinet, redis
<1>3. company[p] # None /\ gone' = gone
  BY DEF EditUser
<1>4. /\ \A x \in People : account'[x] = IF x = p THEN a ELSE account[x]
      /\ \A x \in People : company'[x] = IF x = p THEN k ELSE company[x]
      /\ k # None
  BY <1>1 DEF Inv, TypeOK
<1>5. TypeOK'
  <2>1. /\ account' \in [People -> Accounts \cup {None}]
        /\ company' \in [People -> Companies \cup {None}]
    BY <1>1 DEF Inv, TypeOK
  <2>2. \A x \in People : /\ account'[x] # None => company'[x] # None
                          /\ company'[x] # None => x \notin gone'
    BY <1>3, <1>4 DEF Inv, TypeOK
  <2>3. gone' \subseteq People
    BY <1>3 DEF Inv, TypeOK
  <2>4. QED
    BY <1>2, <2>1, <2>2, <2>3 DEF Inv, TypeOK
<1>6. NewUsers'
  <2>1. \A r \in Requests : row[r] \in Shadows => row[r] # p /\ row[r] \in People
    BY <1>3 DEF Inv, NewUsers, People
  <2>2. QED
    BY <1>2, <1>3, <1>4, <2>1 DEF Inv, NewUsers
<1>7. \A q \in Writing : row[q] # p /\ msg[q].account # a
  <2>1. \A q \in Writing : msg[q].account \in Accounts
    BY DEF Inv, TypeOK, Asked, Writing, Messages
  <2>2. QED
    BY <1>1, <2>1 DEF Blocked, Held
<1>8. Writing' = Writing
  BY <1>2 DEF Writing
<1>9. Locks'
  <2>1. \A q \in Writing : row[q] \in People
    BY DEF Inv, TypeOK, Writing
  <2>2. \A q \in Writing : \A x \in People \ {row[q]} : account'[x] # msg[q].account
    BY <1>4, <1>7 DEF Inv, Locks
  <2>3. \A q \in Writing : row[q] \in Users => company'[row[q]] # None
    BY <1>4, <1>7, <2>1 DEF Inv, Locks
  <2>4. QED
    BY <1>2, <1>8, <2>2, <2>3 DEF Inv, Locks
<1>10. AccountResolvesToOne'
  BY <1>1, <1>4 DEF Taken, Inv, AccountResolvesToOne
<1>11. QED
  BY <1>5, <1>6, <1>9, <1>10, CabinetKeepsInv DEF EditUser

LEMMA DeleteUserKeepsInv ==
    ASSUME Inv, NEW p \in People, DeleteUser(p)
    PROVE  Inv'
<1>1. /\ company[p] # None /\ gone' = gone \cup {p}
      /\ \A q \in Writing : row[q] # p
      /\ UNCHANGED <<otp, invite, pc, msg, grant, row, status, deliveries, issuedTo, uses>>
  BY DEF DeleteUser, InCabinet, redis
<1>2. /\ \A x \in People : account'[x] = IF x = p THEN None ELSE account[x]
      /\ \A x \in People : company'[x] = IF x = p THEN None ELSE company[x]
      /\ account' \in [People -> Accounts \cup {None}]
      /\ company' \in [People -> Companies \cup {None}]
  BY DEF DeleteUser, Inv, TypeOK
<1>3. TypeOK'
  <2>1. \A x \in People : /\ account'[x] # None => company'[x] # None
                          /\ company'[x] # None => x \notin gone'
    BY <1>1, <1>2 DEF Inv, TypeOK
  <2>2. QED
    BY <1>1, <1>2, <2>1 DEF Inv, TypeOK
<1>4. NewUsers'
  <2>1. \A r \in Requests : row[r] \in Shadows => row[r] # p /\ row[r] \in People
    BY <1>1 DEF Inv, NewUsers, People
  <2>2. QED
    BY <1>1, <1>2, <2>1 DEF Inv, NewUsers
<1>5. Writing' = Writing
  BY <1>1 DEF Writing
<1>6. Locks'
  <2>1. \A q \in Writing : msg[q].account \in Accounts /\ row[q] \in People
    BY DEF Inv, TypeOK, Asked, Writing, Messages
  <2>2. \A q \in Writing : \A x \in People \ {row[q]} : account'[x] # msg[q].account
    BY <1>2, <2>1 DEF Inv, Locks
  <2>3. \A q \in Writing : row[q] \in Users => company'[row[q]] # None
    BY <1>1, <1>2, <2>1 DEF Inv, Locks
  <2>4. QED
    BY <1>1, <1>5, <2>2, <2>3 DEF Inv, Locks
<1>7. AccountResolvesToOne'
  BY <1>2 DEF Inv, AccountResolvesToOne
<1>8. QED
  BY <1>3, <1>4, <1>6, <1>7, CabinetKeepsInv DEF DeleteUser

-----------------------------------------------------------------------------
(***************************************************************************)
(* Steps that neither redeem nor write.                                    *)
(***************************************************************************)
Quiet(r) ==
    \/ Arrive(r) \/ Redeliver(r) \/ ArriveApi(r) \/ Resolve(r)
    \/ RedeemUnknown(r) \/ RedeemFails(r)
    \/ Reply(r) \/ Prompt(r) \/ Respond(r)

LEMMA QuietKeepsInv ==
    ASSUME Inv, NEW r \in Requests, Quiet(r)
    PROVE  Inv'
<1>1. UNCHANGED <<otp, invite, company, account, gone, grant, row, issuedTo, uses>>
  BY DEF Quiet, Arrive, Redeliver, ArriveApi, Resolve, RedeemUnknown, RedeemFails, Reply, Prompt,
         Respond, NotLinked, redis, table
<1>2. TypeOK'
  <2>1. /\ pc' \in [Requests -> Places]
        /\ row[r] # None => pc'[r] \in {"find", "link", "reply", "respond", "commit"}
        /\ pc'[r] \notin {"find", "link"}
        /\ \A q \in Requests \ {r} : pc'[q] = pc[q]
    BY DEF Quiet, Arrive, Redeliver, ArriveApi, Resolve, RedeemUnknown, RedeemFails, Reply,
           Prompt, Respond, NotLinked, Goto, Places, Inv, TypeOK
  <2>2. status' \in [Requests -> {0, 200, 404, 500}]
    BY DEF Quiet, Arrive, Redeliver, ArriveApi, Resolve, RedeemUnknown, RedeemFails, Reply,
           Prompt, Respond, NotLinked, Inv, TypeOK
  <2>3. deliveries' \in [Requests -> 0..MaxDeliveries]
    BY DEF Quiet, Arrive, Redeliver, ArriveApi, Resolve, RedeemUnknown, RedeemFails, Reply,
           Prompt, Respond, NotLinked, Inv, TypeOK
  <2>4. msg' \in [Requests -> {None} \cup
                   [account : Accounts, company : Companies \cup {None}, code : Codes \cup {None}]]
    BY DEF Quiet, Arrive, Redeliver, ArriveApi, Resolve, RedeemUnknown, RedeemFails, Reply,
           Prompt, Respond, NotLinked, Inv, TypeOK
  <2>5. QED
    BY <1>1, <2>1, <2>2, <2>3, <2>4 DEF Inv, TypeOK
<1>3. Asked'
  <2>1. CASE Arrive(r) \/ ArriveApi(r)
    <3>1. PICK m \in Messages :
             /\ msg' = [msg EXCEPT ![r] = m]
             /\ pc'[r] \notin {"redeem", "invite"} \/ m.code \in Codes
             /\ \A q \in Requests \ {r} : pc'[q] = pc[q]
      BY <2>1 DEF Arrive, ArriveApi, Goto, Messages, Inv, TypeOK
    <3>2. QED
      BY <3>1 DEF Inv, TypeOK, Asked
  <2>2. CASE Resolve(r)
    BY <2>2 DEF Resolve, Goto, Messages, Inv, TypeOK, Asked
  <2>3. CASE Redeliver(r) \/ RedeemUnknown(r) \/ RedeemFails(r) \/ Reply(r) \/ Prompt(r)
             \/ Respond(r)
    BY <2>3 DEF Redeliver, RedeemUnknown, RedeemFails, Reply, Prompt, Respond, NotLinked,
                Goto, Inv, TypeOK,
                Asked
  <2>4. QED
    BY <2>1, <2>2, <2>3 DEF Quiet
<1>4. InOrder' /\ RightKind' /\ OnePlace' /\ NewUsers' /\ AccountResolvesToOne'
  BY <1>1 DEF Inv, InOrder, Issued, RightKind, OnePlace, NewUsers, AccountResolvesToOne
<1>5. Writing' = Writing /\ \A q \in Writing : msg'[q] = msg[q]
  BY DEF Quiet, Arrive, Redeliver, ArriveApi, Resolve, RedeemUnknown, RedeemFails, Reply, Prompt,
         Respond, NotLinked, Goto, Inv, TypeOK, Writing
<1>6. Locks'
  BY <1>1, <1>5 DEF Inv, Locks
<1>7. QED
  BY <1>2, <1>3, <1>4, <1>6 DEF Inv

\* The steps that give up what was redeemed, with or without the end of the request.
LEMMA ReleaseKeepsInv ==
    ASSUME Inv, NEW r \in Requests, pc[r] # "idle", NEW to \in {"reply", "respond", "done"},
           pc' = [pc EXCEPT ![r] = to],
           grant' = [grant EXCEPT ![r] = 0],
           row' = [row EXCEPT ![r] = None],
           status' \in [Requests -> {0, 200, 404, 500}],
           UNCHANGED <<redis, table, msg, deliveries, issuedTo, uses>>
    PROVE  Inv'
<1>1. TypeOK'
  <2>1. /\ pc' \in [Requests -> Places]
        /\ grant' \in [Requests -> Issues \cup {0}]
        /\ row' \in [Requests -> People \cup {None}]
    BY DEF Places, Inv, TypeOK
  <2>2. \A q \in Requests :
          /\ row'[q] # None => pc'[q] \in {"find", "link", "reply", "respond", "commit"}
          /\ row'[q] # None <=> grant'[q] # 0
          /\ pc'[q] \in {"find", "link"} => row'[q] # None
    BY DEF Inv, TypeOK
  <2>3. QED
    BY <2>1, <2>2 DEF redis, table, Inv, TypeOK
<1>2. Asked' /\ InOrder'
  BY DEF Inv, TypeOK, Asked, InOrder, Issued
<1>3. /\ \A q \in Requests : grant'[q] = (IF q = r THEN 0 ELSE grant[q])
                          /\ row'[q] = (IF q = r THEN None ELSE row[q])
      /\ None \notin Shadows
  BY DEF Inv, TypeOK, People
<1>4. RightKind' /\ OnePlace' /\ NewUsers'
  <2>1. UNCHANGED <<otp, invite, company, issuedTo, uses>>
    BY DEF redis, table
  <2>2. RightKind'
    BY <1>3, <2>1 DEF Inv, RightKind
  <2>3. OnePlace'
    BY <1>3, <2>1 DEF Inv, OnePlace, Issues
  <2>4. NewUsers'
    BY <1>3, <2>1 DEF Inv, NewUsers, table
  <2>5. QED
    BY <2>2, <2>3, <2>4
<1>5. Writing' = Writing \ {r}
  BY <1>3 DEF Writing, Inv, TypeOK
<1>6. Locks' /\ AccountResolvesToOne'
  BY <1>3, <1>5 DEF table, Inv, Locks, Writing, AccountResolvesToOne
<1>7. QED
  BY <1>1, <1>2, <1>4, <1>6 DEF Inv

LEMMA FailKeepsInv ==
    ASSUME Inv, NEW r \in Requests, Fail(r), pc[r] # "idle",
           UNCHANGED <<redis, table, msg, deliveries, issuedTo, uses>>
    PROVE  Inv'
<1>1. status' \in [Requests -> {0, 200, 404, 500}]
  BY DEF Fail, Inv, TypeOK
<1>2. QED
  BY <1>1, ReleaseKeepsInv DEF Fail

LEMMA FindKeepsInv ==
    ASSUME Inv, NEW r \in Requests, Find(r) \/ FindNobody(r)
    PROVE  Inv'
<1>1. /\ pc[r] = "find" /\ UNCHANGED <<redis, table, msg, deliveries, issuedTo, uses>>
      /\ status' \in [Requests -> {0, 200, 404, 500}]
  BY DEF Find, FindNobody, NotLinked, Inv, TypeOK
<1>2. CASE pc'[r] = "link"
  <2>1. /\ pc' = [pc EXCEPT ![r] = "link"] /\ row[r] # None
        /\ UNCHANGED <<grant, row, status>>
    BY <1>1, <1>2 DEF Find, FindNobody, NotLinked, Linked, Goto, Inv, TypeOK
  <2>2. TypeOK'
    BY <1>1, <2>1 DEF redis, table, Places, Inv, TypeOK
  <2>3. Asked' /\ InOrder' /\ RightKind' /\ OnePlace' /\ NewUsers' /\ AccountResolvesToOne'
    BY <1>1, <2>1 DEF redis, table, Inv, TypeOK, Asked, InOrder, Issued, RightKind, OnePlace,
                      NewUsers, AccountResolvesToOne
  <2>4. Writing' = Writing
    BY <1>1, <2>1 DEF Writing, Inv, TypeOK
  <2>5. Locks'
    BY <1>1, <2>1, <2>4 DEF table, Inv, Locks
  <2>6. QED
    BY <2>2, <2>3, <2>5 DEF Inv
<1>3. CASE pc'[r] # "link"
  <2>1. \E to \in {"reply", "respond", "done"} : pc' = [pc EXCEPT ![r] = to]
    BY <1>1, <1>3 DEF Find, FindNobody, NotLinked, Linked, Goto, Inv, TypeOK
  <2>2. grant' = [grant EXCEPT ![r] = 0] /\ row' = [row EXCEPT ![r] = None]
    BY <1>1, <1>3 DEF Find, FindNobody, Goto, Inv, TypeOK
  <2>3. QED
    BY <1>1, <2>1, <2>2, ReleaseKeepsInv
<1>4. QED
  BY <1>2, <1>3

-----------------------------------------------------------------------------
(***************************************************************************)
(* The redemptions, the write and the commit.                              *)
(***************************************************************************)
LEMMA RedeemKeepsInv ==
    ASSUME Inv, NEW r \in Requests, Redeem(r)
    PROVE  Inv'
<1> DEFINE c == msg[r].code
           n == otp[c]
<1>1. c \in Codes /\ n \in Issues /\ n # 0 /\ row[r] = None
  BY DEF Redeem, Inv, TypeOK, Asked
<1>2. /\ pc[r] = "redeem" /\ pc' = [pc EXCEPT ![r] = "find"]
      /\ otp' = [otp EXCEPT ![c] = 0]
      /\ grant' = [grant EXCEPT ![r] = n]
      /\ row' = [row EXCEPT ![r] = issuedTo[n]]
      /\ UNCHANGED <<invite, table, msg, status, deliveries, issuedTo, uses>>
  BY DEF Redeem, Goto
<1>3. issuedTo[n] \in Users /\ issuedTo[n] \in People /\ issuedTo[n] # None
  BY <1>1 DEF Inv, RightKind, People
<1>4. TypeOK'
  BY <1>1, <1>2, <1>3 DEF table, Places, Inv, TypeOK
<1>5. Asked' /\ InOrder' /\ AccountResolvesToOne'
  BY <1>2 DEF table, Inv, TypeOK, Asked, InOrder, Issued, AccountResolvesToOne
<1>6. RightKind'
  BY <1>1, <1>2, <1>3 DEF Inv, TypeOK, RightKind
<1>7. \A d \in Codes : otp[d] = n => d = c
  BY <1>1 DEF Inv, OnePlace
<1>8. (\A d \in Codes : invite[d] # n) /\ (\A q \in Requests : grant[q] # n) /\ uses[n] = 0
  BY <1>1, <1>3 DEF Inv, RightKind, OnePlace, People
<1>9. OnePlace'
  BY <1>1, <1>2, <1>7, <1>8 DEF Inv, TypeOK, OnePlace, Issues
<1>10. NewUsers'
  BY <1>2, <1>3 DEF table, Inv, TypeOK, NewUsers
<1>11. Writing' = Writing /\ \A q \in Writing : row'[q] = row[q]
  BY <1>1, <1>2 DEF Writing, Inv, TypeOK
<1>12. Locks'
  BY <1>2, <1>11 DEF table, Inv, Locks
<1>13. QED
  BY <1>4, <1>5, <1>6, <1>9, <1>10, <1>12 DEF Inv

LEMMA RedeemInviteKeepsInv ==
    ASSUME Inv, NEW r \in Requests, RedeemInvite(r)
    PROVE  Inv'
<1> DEFINE c == msg[r].code
           n == invite[c]
<1>1. c \in Codes /\ n \in Issues /\ n # 0 /\ row[r] = None
  BY DEF RedeemInvite, Inv, TypeOK, Asked
<1>2. PICK p \in Fresh : row' = [row EXCEPT ![r] = p]
  <2>1. (CHOOSE s \in Fresh : TRUE) \in Fresh
    BY DEF RedeemInvite
  <2>2. QED
    BY <2>1 DEF RedeemInvite
<1>3. /\ p \in Shadows /\ company[p] = None /\ p \notin gone
      /\ \A q \in Requests : row[q] # p
  BY DEF Fresh
<1>4. /\ pc[r] = "invite" /\ pc' = [pc EXCEPT ![r] = "link"]
      /\ invite' = [invite EXCEPT ![c] = 0]
      /\ grant' = [grant EXCEPT ![r] = n]
      /\ UNCHANGED <<otp, table, msg, status, deliveries, issuedTo, uses>>
  BY DEF RedeemInvite, Goto
<1>5. issuedTo[n] \in Companies /\ p \in People /\ p # None
  BY <1>1, <1>3 DEF Inv, RightKind, People
<1>6. TypeOK'
  BY <1>1, <1>2, <1>3, <1>4, <1>5 DEF table, Places, Inv, TypeOK
<1>7. Asked' /\ InOrder' /\ AccountResolvesToOne'
  BY <1>4 DEF table, Inv, TypeOK, Asked, InOrder, Issued, AccountResolvesToOne
<1>8. RightKind'
  BY <1>1, <1>2, <1>3, <1>4, <1>5 DEF Inv, TypeOK, RightKind
<1>9. \A d \in Codes : invite[d] = n => d = c
  BY <1>1 DEF Inv, OnePlace
<1>10. (\A d \in Codes : otp[d] # n) /\ (\A q \in Requests : grant[q] # n) /\ uses[n] = 0
  BY <1>1, <1>5 DEF Inv, RightKind, OnePlace, People
<1>11. OnePlace'
  BY <1>1, <1>4, <1>9, <1>10 DEF Inv, TypeOK, OnePlace, Issues
<1>12. NewUsers'
  BY <1>2, <1>3, <1>4, <1>5 DEF table, Inv, TypeOK, NewUsers, People
<1>13. Writing' = Writing /\ \A q \in Writing : row'[q] = row[q]
  BY <1>1, <1>2, <1>4 DEF Writing, Inv, TypeOK
<1>14. Locks'
  BY <1>4, <1>13 DEF table, Inv, Locks
<1>15. QED
  BY <1>6, <1>7, <1>8, <1>11, <1>12, <1>14 DEF Inv

\* The flush takes the locks, and waits while another transaction has them.
LEMMA LinkKeepsInv ==
    ASSUME Inv, NEW r \in Requests, Link(r)
    PROVE  Inv'
<1>1. /\ pc[r] = "link" /\ pc'[r] \in {"reply", "respond"} /\ pc' = [pc EXCEPT ![r] = pc'[r]]
      /\ UNCHANGED <<redis, table, msg, grant, row, status, deliveries, issuedTo, uses>>
  BY DEF Link, Goto, Linked, Inv, TypeOK
<1>2. TypeOK'
  BY <1>1 DEF redis, table, Places, Inv, TypeOK
<1>3. Asked' /\ InOrder' /\ RightKind' /\ OnePlace' /\ NewUsers' /\ AccountResolvesToOne'
  BY <1>1 DEF redis, table, Inv, TypeOK, Asked, InOrder, Issued, RightKind, OnePlace, NewUsers,
              AccountResolvesToOne
<1>4. Writing' = Writing \cup {r}
  BY <1>1 DEF Writing, Inv, TypeOK
<1>5. Locks'
  <2>1. \A q \in Writing :
           row[q] # row[r] /\ msg[q].account # msg[r].account /\ account[row[q]] # msg[r].account
    <3>1. msg[r].account \in Accounts /\ \A q \in Writing : msg[q].account \in Accounts
      BY <1>1 DEF Inv, TypeOK, Asked, Writing, Messages
    <3>2. QED
      BY <3>1 DEF Link, Blocked, Held
  <2>2. /\ \A x \in People \ {row[r]} : account[x] # msg[r].account
        /\ row[r] \in Users => company[row[r]] # None
    BY DEF Link, Taken, Lost
  <2>3. QED
    BY <1>1, <1>4, <2>1, <2>2 DEF table, Inv, Locks
<1>6. QED
  BY <1>2, <1>3, <1>5 DEF Inv

\* The commit of a request that has nothing to write.
LEMMA CommitNothingKeepsInv ==
    ASSUME Inv, NEW r \in Requests, Commit(r), row[r] = None
    PROVE  Inv'
<1>1. /\ UNCHANGED <<redis, table, msg, grant, row, status, deliveries, issuedTo, uses>>
      /\ pc[r] = "commit" /\ pc' = [pc EXCEPT ![r] = "done"]
  BY DEF Commit, Goto, Persist, Inv, TypeOK
<1>2. TypeOK'
  BY <1>1 DEF redis, table, Places, Inv, TypeOK
<1>3. Asked' /\ InOrder' /\ RightKind' /\ OnePlace' /\ NewUsers' /\ AccountResolvesToOne'
  BY <1>1 DEF redis, table, Inv, TypeOK, Asked, InOrder, Issued, RightKind, OnePlace, NewUsers,
              AccountResolvesToOne
<1>4. Writing' = Writing
  BY <1>1 DEF Writing, Inv, TypeOK
<1>5. Locks'
  BY <1>1, <1>4 DEF table, Inv, Locks
<1>6. QED
  BY <1>2, <1>3, <1>5 DEF Inv

\* What the commit of a link does to the table.
LEMMA CommitLinks ==
    ASSUME Inv, NEW r \in Requests, Commit(r), row[r] # None
    PROVE  /\ r \in Writing
           /\ row[r] \in People /\ grant[r] \in Issues /\ msg[r].account \in Accounts
           /\ account' = [account EXCEPT ![row[r]] = msg[r].account]
           /\ company' = [company EXCEPT ![row[r]] =
                             IF row[r] \in Users THEN @ ELSE issuedTo[grant[r]]]
           /\ row[r] \in Users => issuedTo[grant[r]] = row[r]
           /\ row[r] \notin Users => issuedTo[grant[r]] \in Companies
           /\ row[r] \in Users <=> company[row[r]] # None
           /\ row[r] \notin gone
<1>1. /\ pc[r] = "commit" /\ msg[r] \in Messages /\ row[r] \in People /\ grant[r] \in Issues
  BY DEF Commit, Goto, Inv, TypeOK, Asked
<1>2. r \in Writing /\ msg[r].account \in Accounts
  BY <1>1 DEF Writing, Messages
<1>3. /\ row[r] \in Users => issuedTo[grant[r]] = row[r]
      /\ row[r] \notin Users => issuedTo[grant[r]] \in Companies
  BY <1>1 DEF Inv, RightKind, Issues, People
<1>4. (row[r] \in Users <=> company[row[r]] # None) /\ row[r] \notin gone
  BY <1>1, <1>2 DEF Inv, TypeOK, NewUsers, Locks, People
<1>5. /\ account' = [account EXCEPT ![row[r]] = msg[r].account]
      /\ company' = [company EXCEPT ![row[r]] = IF @ = None THEN issuedTo[grant[r]] ELSE @]
  BY DEF Commit, Persist
<1>6. QED
  BY <1>1, <1>2, <1>3, <1>4, <1>5

LEMMA CommitLinkKeepsInv ==
    ASSUME Inv, NEW r \in Requests, Commit(r), row[r] # None
    PROVE  Inv'
<1> DEFINE p == row[r]
           n == grant[r]
<1>1. /\ r \in Writing /\ p \in People /\ n \in Issues /\ n # 0 /\ p # None
      /\ msg[r].account \in Accounts
  BY CommitLinks DEF Issues
<1>2. /\ pc[r] = "commit" /\ pc' = [pc EXCEPT ![r] = "done"]
      /\ grant' = [grant EXCEPT ![r] = 0]
      /\ row' = [row EXCEPT ![r] = None]
      /\ uses' = [uses EXCEPT ![n] = @ + 1]
      /\ UNCHANGED <<otp, invite, gone, msg, status, deliveries, issuedTo>>
  BY DEF Commit, Goto, Persist, redis
<1>3. /\ \A q \in People : account'[q] = IF q = p THEN msg[r].account ELSE account[q]
      /\ \A q \in People \ {p} : company'[q] = company[q]
      /\ company'[p] \in Companies
      /\ p \in Users => company'[p] = company[p]
  BY <1>1, CommitLinks DEF Inv, TypeOK
<1>4. TypeOK'
  <2>1. account' \in [People -> Accounts \cup {None}]
        /\ company' \in [People -> Companies \cup {None}]
        /\ uses' \in [Issues -> Nat]
    BY <1>1, <1>2, CommitLinks DEF Inv, TypeOK
  <2>2. \A q \in People : /\ account'[q] # None => company'[q] # None
                          /\ company'[q] # None => q \notin gone'
    BY <1>2, <1>3, CommitLinks DEF Inv, TypeOK
  <2>3. /\ pc' \in [Requests -> Places]
        /\ grant' \in [Requests -> Issues \cup {0}]
        /\ row' \in [Requests -> People \cup {None}]
    BY <1>2 DEF Places, Inv, TypeOK
  <2>4. \A q \in Requests :
          /\ row'[q] # None => pc'[q] \in {"find", "link", "reply", "respond", "commit"}
          /\ row'[q] # None <=> grant'[q] # 0
          /\ pc'[q] \in {"find", "link"} => row'[q] # None
    BY <1>2 DEF Inv, TypeOK
  <2>5. gone' \subseteq People /\ UNCHANGED <<otp, invite, msg, status, deliveries, issuedTo>>
    BY <1>2 DEF Inv, TypeOK
  <2>6. QED
    BY <2>1, <2>2, <2>3, <2>4, <2>5 DEF Inv, TypeOK
<1>5. Asked' /\ InOrder'
  BY <1>2 DEF Inv, TypeOK, Asked, InOrder, Issued
<1>6. \A q \in Requests : grant'[q] = (IF q = r THEN 0 ELSE grant[q])
                       /\ row'[q] = (IF q = r THEN None ELSE row[q])
  BY <1>2 DEF Inv, TypeOK
<1>7. RightKind'
  BY <1>2, <1>6 DEF Inv, RightKind
<1>8. uses[n] = 0 /\ issuedTo[n] # None
  BY <1>1, CommitLinks DEF Inv, TypeOK, OnePlace, People
<1>9. OnePlace'
  <2>1. \A m \in Issues : uses'[m] = IF m = n THEN 1 ELSE uses[m]
    BY <1>1, <1>2, <1>8 DEF Inv, TypeOK
  <2>2. /\ \A c \in Codes : otp[c] # n /\ invite[c] # n
        /\ \A q \in Requests \ {r} : grant[q] # n
    BY <1>1 DEF Inv, OnePlace
  <2>3. n # 0
    BY <1>1
  <2>4. QED
    BY <1>2, <1>6, <1>8, <2>1, <2>2, <2>3 DEF Inv, OnePlace, Issues
<1>10. NewUsers'
  <2>1. ASSUME NEW q \in Requests, row'[q] \in Shadows
        PROVE  /\ company'[row'[q]] = None /\ row'[q] \notin gone'
               /\ \A x \in Requests : row'[x] = row'[q] => x = q
    <3>1. q # r /\ row'[q] = row[q]
      BY <1>6, <2>1 DEF People
    <3>2. row[q] # p
      BY <1>1, <2>1, <3>1 DEF Inv, NewUsers
    <3>3. QED
      BY <1>2, <1>3, <1>6, <2>1, <3>1, <3>2 DEF Inv, NewUsers, People
  <2>2. QED
    BY <2>1 DEF NewUsers
<1>11. Writing' = Writing \ {r}
  BY <1>2, <1>6 DEF Writing, Inv, TypeOK
<1>12. Locks'
  <2>1. \A q \in Writing' : q \in Writing /\ q \in Requests /\ q # r /\ row'[q] = row[q]
    BY <1>6, <1>11 DEF Writing
  <2>2. \A q \in Writing' : msg[q].account # msg[r].account
    BY <1>1, <2>1 DEF Inv, Locks
  <2>3. \A q \in Writing' : row[q] \in Users => company'[row[q]] # None
    BY <1>1, <1>3, <2>1 DEF Inv, Locks, People
  <2>4. QED
    BY <1>2, <1>3, <2>1, <2>2, <2>3 DEF Inv, Locks
<1>13. AccountResolvesToOne'
  <2>1. \A q \in People \ {p} : account[q] # msg[r].account
    BY <1>1 DEF Inv, Locks
  <2>2. QED
    BY <1>3, <2>1 DEF Inv, AccountResolvesToOne
<1>14. QED
  BY <1>4, <1>5, <1>7, <1>9, <1>10, <1>12, <1>13 DEF Inv

LEMMA InvNext == Inv /\ [Next]_vars => Inv'
<1> SUFFICES ASSUME Inv, [Next]_vars
             PROVE  Inv'
  OBVIOUS
<1>1. CASE \E c \in Codes, u \in Users : IssueOtp(c, u)
  BY <1>1, IssueOtpKeepsInv
<1>2. CASE \E c \in Codes, k \in Companies : IssueInvite(c, k)
  BY <1>2, IssueInviteKeepsInv
<1>3. CASE \E c \in Codes : Lapse(c)
  BY <1>3, LapseKeepsInv
<1>4. ASSUME NEW r \in Requests, Quiet(r)
      PROVE  Inv'
  BY <1>4, QuietKeepsInv
<1>5. ASSUME NEW r \in Requests,
             \/ LinkViolatesUnique(r) \/ LinkLosesRow(r)
             \/ PromptRaises(r) \/ CommitFails(r) \/ Abort(r)
      PROVE  Inv'
  <2>1. /\ Fail(r) /\ pc[r] # "idle"
        /\ UNCHANGED <<redis, table, msg, deliveries, issuedTo, uses>>
    BY <1>5 DEF LinkViolatesUnique, LinkLosesRow, PromptRaises, CommitFails, Abort
  <2>2. QED
    BY <2>1, FailKeepsInv
<1>6. ASSUME NEW r \in Requests,
             \/ Redeem(r) \/ RedeemInvite(r) \/ Find(r) \/ FindNobody(r)
             \/ Link(r) \/ Commit(r)
      PROVE  Inv'
  BY <1>6, RedeemKeepsInv, RedeemInviteKeepsInv, FindKeepsInv, LinkKeepsInv, CommitNothingKeepsInv,
     CommitLinkKeepsInv
<1>7. CASE (\E u \in Users : Register(u)) \/ (\E p \in Edited : EditUser(p) \/ DeleteUser(p))
  BY <1>7, RegisterKeepsInv, EditUserKeepsInv, DeleteUserKeepsInv
<1>8. CASE UNCHANGED vars
  BY <1>8 DEF vars, Inv, TypeOK, Asked, InOrder, Issued, RightKind, OnePlace, NewUsers, Locks,
              Writing, AccountResolvesToOne
<1>9. QED
  BY <1>1, <1>2, <1>3, <1>4, <1>5, <1>6, <1>7, <1>8 DEF Next, Step, Quiet

LEMMA Invariant == Spec => []Inv
BY InvInit, InvNext, PTL DEF Spec

-----------------------------------------------------------------------------
\* A request has a row to write exactly while it has redeemed a code.
THEOREM TypeCorrect == Spec => []TypeOK
BY Invariant, PTL DEF Inv

\* A code that was issued links at most one account, once.
THEOREM OneLinkPerCodeAlways == Spec => []OneLinkPerCode
<1>1. Inv => OneLinkPerCode
  BY DEF Inv, TypeOK, OnePlace, OneLinkPerCode
<1>2. QED
  BY <1>1, Invariant, PTL

\* No two users ever share an account.
THEOREM AccountResolvesToOneAlways == Spec => []AccountResolvesToOne
BY Invariant, PTL DEF Inv

(***************************************************************************)
(* Besides the cabinet only a commit changes the table, in one row, and by *)
(* CommitLinks to what the code behind it says.                            *)
(***************************************************************************)
THEOREM OnlyOwnCodeMovesAccountAlways == Spec => OnlyOwnCodeMovesAccount
<1> DEFINE Moved(p) == <<company[p], account[p]>>' # <<company[p], account[p]>>
           Allowed(p) ==
              \/ p \in Users /\ Register(p)
              \/ p \in Edited /\ (EditUser(p) \/ DeleteUser(p))
              \/ \E r \in Requests :
                    /\ pc[r] = "commit" /\ pc'[r] = "done"
                    /\ account'[p] = msg[r].account
                    /\ IF company[p] # None
                       THEN issuedTo[grant[r]] = p /\ company'[p] = company[p]
                       ELSE issuedTo[grant[r]] = company'[p] /\ p \notin gone
<1>1. Inv /\ [Next]_vars => [\A p \in People : Moved(p) => Allowed(p)]_vars
  <2> SUFFICES ASSUME Inv, Next, NEW p \in People, Moved(p),
                      ~(p \in Users /\ Register(p)),
                      ~(p \in Edited /\ (EditUser(p) \/ DeleteUser(p)))
               PROVE  Allowed(p)
    OBVIOUS
  <2>1. \A u \in Users : ~Register(u)
    BY DEF Register, Inv, TypeOK
  <2>2. \A x \in Edited : ~EditUser(x) /\ ~DeleteUser(x)
    BY DEF EditUser, DeleteUser, Inv, TypeOK
  <2>3. PICK r \in Requests : Commit(r)
    <3>1. ~UNCHANGED table
      BY DEF table
    <3>2. QED
      BY <2>1, <2>2, <3>1
         DEF Next, Step, IssueOtp, IssueInvite, Lapse, Arrive, Redeliver, ArriveApi, Resolve,
             Redeem, RedeemUnknown, RedeemInvite, RedeemFails, Find, FindNobody, Link,
             LinkViolatesUnique, LinkLosesRow, Reply, Prompt, Respond, PromptRaises,
             CommitFails, Abort
  <2>4. row[r] # None
    BY <2>3 DEF Commit, Persist, table
  <2>5. p = row[r]
    BY <2>3, <2>4, CommitLinks DEF Inv, TypeOK
  <2>6. pc[r] = "commit" /\ pc'[r] = "done"
    BY <2>3 DEF Commit, Goto, Inv, TypeOK
  <2>7. /\ account'[p] = msg[r].account
        /\ IF company[p] # None
           THEN issuedTo[grant[r]] = p /\ company'[p] = company[p]
           ELSE issuedTo[grant[r]] = company'[p] /\ p \notin gone
    BY <2>3, <2>4, <2>5, CommitLinks DEF Inv, TypeOK
  <2>8. QED
    BY <2>6, <2>7
<1>2. QED
  BY <1>1, Invariant, PTL DEF Spec, OnlyOwnCodeMovesAccount
=============================================================================
