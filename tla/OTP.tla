--------------------------------- MODULE OTP ---------------------------------
(***************************************************************************)
(* OTPService: one-time codes that let a messenger account be linked to a  *)
(* user.  Three Redis keys per code: otp:{user}, otp_reverse:{code} and    *)
(* otp_rate:{user}, each with a TTL.  generate_code runs in several tabs   *)
(* of one user at once and awaits Redis between its check of the rate key, *)
(* each check for a collision and the MULTI that writes; redeeming a code  *)
(* is one Lua script.                                                      *)
(***************************************************************************)
EXTENDS Integers, FiniteSets

CONSTANTS Users,
          Codes,          \* the six-digit values
          Tabs,           \* requests one user can have in flight at once
          None,           \* an absent key
          OTPTTL,         \* OTP_TTL in ticks
          RateTTL,        \* RATE_LIMIT_TTL in ticks
          MaxTries,       \* MAX_COLLISION_RETRIES
          CabinetVerify   \* whether anything calls verify_code (nothing in the app does)

Requests == Users \X Tabs
UserOf(p) == p[1]

ASSUME OTPConstants ==
    /\ None \notin Users \cup Codes
    /\ RateTTL \in Nat \ {0}
    /\ OTPTTL \in Nat
    /\ RateTTL < OTPTTL
    /\ MaxTries \in Nat \ {0}
    /\ CabinetVerify \in BOOLEAN

VARIABLES
    otp, otpTTL,          \* otp:{user}
    reverse, reverseTTL,  \* otp_reverse:{code}
    rateTTL,              \* otp_rate:{user}; the key exists while this is positive
    pc, tries, code,      \* generate_code of each request
    shown,                \* history: shown[u][c], ticks u may still use the c on the screen
    sinceIssue,           \* history: ticks since a code was last written for u, at most RateTTL
    untold                \* history: codes in the reverse keys that nobody was shown

keys    == <<otp, otpTTL, reverse, reverseTTL, rateTTL>>
gens    == <<pc, tries, code>>
history == <<shown, sinceIssue, untold>>
vars    == <<otp, otpTTL, reverse, reverseTTL, rateTTL, pc, tries, code,
             shown, sinceIssue, untold>>

Init ==
    /\ otp = [u \in Users |-> None]
    /\ otpTTL = [u \in Users |-> 0]
    /\ reverse = [c \in Codes |-> None]
    /\ reverseTTL = [c \in Codes |-> 0]
    /\ rateTTL = [u \in Users |-> 0]
    /\ pc = [p \in Requests |-> "idle"]
    /\ tries = [p \in Requests |-> 0]
    /\ code = [p \in Requests |-> None]
    /\ shown = [u \in Users |-> [c \in Codes |-> 0]]
    /\ sinceIssue = [u \in Users |-> RateTTL]
    /\ untold = {}

\* The rate key is absent; with it present RateLimitExceeded ends the request.
CheckRate(p) ==
    /\ pc[p] = "idle"
    /\ rateTTL[UserOf(p)] = 0
    /\ pc' = [pc EXCEPT ![p] = "pick"]
    /\ UNCHANGED <<keys, tries, code, history>>

\* A random code whose reverse key is absent ends the loop.
PickFree(p) ==
    /\ pc[p] = "pick"
    /\ \E c \in Codes :
          /\ reverse[c] = None
          /\ code' = [code EXCEPT ![p] = c]
    /\ pc' = [pc EXCEPT ![p] = "write"]
    /\ UNCHANGED <<keys, tries, history>>

\* A random code collides and there are tries left.
PickCollides(p) ==
    /\ pc[p] = "pick"
    /\ \E c \in Codes : reverse[c] # None
    /\ tries[p] + 1 < MaxTries
    /\ tries' = [tries EXCEPT ![p] = @ + 1]
    /\ UNCHANGED <<keys, pc, code, history>>

\* The last try collides too: the code comes from the clock, unchecked.
PickFromClock(p) ==
    /\ pc[p] = "pick"
    /\ \E c \in Codes : reverse[c] # None
    /\ tries[p] + 1 = MaxTries
    /\ \E c \in Codes : code' = [code EXCEPT ![p] = c]
    /\ pc' = [pc EXCEPT ![p] = "write"]
    /\ UNCHANGED <<keys, tries, history>>

Reset(p) ==
    /\ pc' = [pc EXCEPT ![p] = "idle"]
    /\ tries' = [tries EXCEPT ![p] = 0]
    /\ code' = [code EXCEPT ![p] = None]

\* What one MULTI does to the two keys of the code, and to the rate key.
SetsCode(u, c) ==
    /\ otp' = [otp EXCEPT ![u] = c]
    /\ otpTTL' = [otpTTL EXCEPT ![u] = OTPTTL]
    /\ reverse' = [reverse EXCEPT ![c] = u]
    /\ reverseTTL' = [reverseTTL EXCEPT ![c] = OTPTTL]
    /\ sinceIssue' = [sinceIssue EXCEPT ![u] = 0]
SetsRate(u) == rateTTL' = [rateTTL EXCEPT ![u] = RateTTL]

\* The response with the code arrives.
Shows(u, c) ==
    /\ shown' = [shown EXCEPT ![u][c] = OTPTTL]
    /\ untold' = untold \ {c}

\* A slip in generate_code: otp:{user} is set without ex.
WriteWithoutTTL(p) ==
    LET u == UserOf(p)
        c == code[p]
    IN  /\ pc[p] = "write"
        /\ otp' = [otp EXCEPT ![u] = c]
        /\ reverse' = [reverse EXCEPT ![c] = u]
        /\ reverseTTL' = [reverseTTL EXCEPT ![c] = OTPTTL]
        /\ sinceIssue' = [sinceIssue EXCEPT ![u] = 0]
        /\ SetsRate(u) /\ Shows(u, c)
        /\ Reset(p)
        /\ UNCHANGED otpTTL

\* A slip in generate_code: the pipeline leaves out the rate key.
WriteForgetsRate(p) ==
    /\ pc[p] = "write"
    /\ SetsCode(UserOf(p), code[p]) /\ Shows(UserOf(p), code[p])
    /\ Reset(p)
    /\ UNCHANGED rateTTL

\* The MULTI that writes the three keys; the code is returned to the user.
Write(p) ==
    /\ pc[p] = "write"
    /\ SetsCode(UserOf(p), code[p]) /\ SetsRate(UserOf(p))
    /\ Shows(UserOf(p), code[p])
    /\ Reset(p)

\* The MULTI ran and its answer is lost, or the process ends before the response:
\* the keys are there, and nobody is told.
WriteAnswerLost(p) ==
    /\ pc[p] = "write"
    /\ SetsCode(UserOf(p), code[p]) /\ SetsRate(UserOf(p))
    /\ untold' = untold \cup {code[p]}
    /\ Reset(p)
    /\ UNCHANGED shown

\* A Redis error, or the end of the process, before the MULTI ran.
Abort(p) ==
    /\ pc[p] # "idle"
    /\ Reset(p)
    /\ UNCHANGED <<keys, history>>

\* A slip in the Lua script: GET instead of GETDEL.
VerifyByValueKeepsReverse(c) ==
    LET u == reverse[c]
    IN  /\ u # None
        /\ UNCHANGED <<reverse, reverseTTL>>
        /\ otp' = [otp EXCEPT ![u] = None]
        /\ otpTTL' = [otpTTL EXCEPT ![u] = 0]
        /\ shown' = [shown EXCEPT ![u][c] = 0]
        /\ untold' = untold \ {c}
        /\ UNCHANGED <<rateTTL, gens, sinceIssue>>

(***************************************************************************)
(* verify_code_by_value: the bot turns a code into the user it belongs to. *)
(* The script deletes the reverse key of this code and the otp key of the  *)
(* user, whatever code that one holds.  An unknown code changes nothing.   *)
(***************************************************************************)
VerifyByValue(c) ==
    LET u == reverse[c]
    IN  /\ u # None
        /\ reverse' = [reverse EXCEPT ![c] = None]
        /\ reverseTTL' = [reverseTTL EXCEPT ![c] = 0]
        /\ otp' = [otp EXCEPT ![u] = None]
        /\ otpTTL' = [otpTTL EXCEPT ![u] = 0]
        /\ shown' = [shown EXCEPT ![u][c] = 0]
        /\ untold' = untold \ {c}
        /\ UNCHANGED <<rateTTL, gens, sinceIssue>>

\* verify_code: both GETDELs run before the stored code is compared with c.
VerifyCode(u, c) ==
    /\ CabinetVerify
    /\ otp[u] # None \/ reverse[c] # None
    /\ otp' = [otp EXCEPT ![u] = None]
    /\ otpTTL' = [otpTTL EXCEPT ![u] = 0]
    /\ reverse' = [reverse EXCEPT ![c] = None]
    /\ reverseTTL' = [reverseTTL EXCEPT ![c] = 0]
    /\ shown' = IF otp[u] = c THEN [shown EXCEPT ![u][c] = 0] ELSE shown
    /\ untold' = untold \ {c}
    /\ UNCHANGED <<rateTTL, gens, sinceIssue>>

Older(ttl) == IF ttl > 0 THEN ttl - 1 ELSE 0

Tick ==
    /\ otp' = [u \in Users |-> IF otpTTL[u] = 1 THEN None ELSE otp[u]]
    /\ otpTTL' = [u \in Users |-> Older(otpTTL[u])]
    /\ reverse' = [c \in Codes |-> IF reverseTTL[c] = 1 THEN None ELSE reverse[c]]
    /\ reverseTTL' = [c \in Codes |-> Older(reverseTTL[c])]
    /\ rateTTL' = [u \in Users |-> Older(rateTTL[u])]
    /\ shown' = [u \in Users |-> [c \in Codes |-> Older(shown[u][c])]]
    /\ sinceIssue' = [u \in Users |-> IF sinceIssue[u] < RateTTL
                                      THEN sinceIssue[u] + 1 ELSE RateTTL]
    /\ untold' = {c \in untold : reverseTTL[c] > 1}
    /\ UNCHANGED gens

Next ==
    \/ \E p \in Requests :
          \/ CheckRate(p)
          \/ PickFree(p)
          \/ PickCollides(p)
          \/ PickFromClock(p)
          \/ Write(p)
          \/ WriteAnswerLost(p)
          \/ Abort(p)
    \/ \E c \in Codes : VerifyByValue(c)
    \/ \E u \in Users, c \in Codes : VerifyCode(u, c)
    \/ Tick

Spec == Init /\ [][Next]_vars

-----------------------------------------------------------------------------
(***************************************************************************)
(* Type invariant: every key holds what generate_code writes there and     *)
(* exists exactly while it has a TTL.                                      *)
(***************************************************************************)
TypeOK ==
    /\ otp \in [Users -> Codes \cup {None}]
    /\ otpTTL \in [Users -> 0..OTPTTL]
    /\ reverse \in [Codes -> Users \cup {None}]
    /\ reverseTTL \in [Codes -> 0..OTPTTL]
    /\ rateTTL \in [Users -> 0..RateTTL]
    /\ pc \in [Requests -> {"idle", "pick", "write"}]
    /\ tries \in [Requests -> 0..(MaxTries - 1)]
    /\ code \in [Requests -> Codes \cup {None}]
    /\ shown \in [Users -> [Codes -> 0..OTPTTL]]
    /\ sinceIssue \in [Users -> 0..RateTTL]
    /\ untold \subseteq {c \in Codes : reverse[c] # None}
    /\ \A u \in Users : otp[u] # None <=> otpTTL[u] > 0
    /\ \A c \in Codes : reverse[c] # None <=> reverseTTL[c] > 0

(***************************************************************************)
(* The bot accepts a code for a user only while it is that user's: shown   *)
(* to the user at most OTP_TTL ago and not redeemed since, however many    *)
(* tabs and users race for the same value; or nobody was told of it, the   *)
(* answer of its MULTI being lost.  It speaks of the user a code leads to. *)
(* Another one may still see it on the screen, whose code it was until a   *)
(* racing tab or the clock, unchecked, chose it again.                     *)
(***************************************************************************)
CodeIsTheUsers ==
    \A c \in Codes :
        reverse[c] # None => shown[reverse[c]][c] = reverseTTL[c] \/ c \in untold

(***************************************************************************)
(* Only requests that overlap can get around the rate limit: none passes   *)
(* its check less than RATE_LIMIT_TTL after the user's latest code.  Two   *)
(* which both passed it before either wrote may write within that time.    *)
(***************************************************************************)
RateLimitGate ==
    [][\A p \in Requests :
          pc[p] = "idle" /\ pc'[p] # "idle" => sinceIssue[UserOf(p)] = RateTTL]_vars

=============================================================================
