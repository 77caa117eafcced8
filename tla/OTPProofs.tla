------------------------------ MODULE OTPProofs ------------------------------
(***************************************************************************)
(* For any users, codes, tabs and times to live: the types of OTP, that    *)
(* the bot accepts a code that somebody was shown only for the user it was *)
(* shown to, and that only requests that overlap get around the rate limit.*)
(***************************************************************************)
EXTENDS OTP, TLAPS

\* A request that is about to write has chosen a code.
Chosen == \A p \in Requests : pc[p] = "write" => code[p] \in Codes

\* The rate key and the clock since the latest code tell the same time.
RateClock == \A u \in Users : rateTTL[u] + sinceIssue[u] = RateTTL

Inv == TypeOK /\ Chosen /\ CodeIsTheUsers /\ RateClock

USE OTPConstants

LEMMA RequestUser == \A p \in Requests : UserOf(p) \in Users
BY DEF Requests, UserOf

LEMMA InvInit == Init => Inv
<1>1. Init => TypeOK
  BY DEF Init, TypeOK
<1>2. Init => Chosen /\ CodeIsTheUsers /\ RateClock
  BY DEF Init, Chosen, CodeIsTheUsers, RateClock
<1>3. QED
  BY <1>1, <1>2 DEF Inv

-----------------------------------------------------------------------------
(***************************************************************************)
(* The steps of generate_code before its MULTI leave the keys alone.       *)
(***************************************************************************)
Picking(p) == CheckRate(p) \/ PickFree(p) \/ PickCollides(p) \/ PickFromClock(p) \/ Abort(p)

LEMMA PickingKeepsInv ==
    ASSUME Inv, NEW p \in Requests, Picking(p)
    PROVE  Inv'
<1>1. UNCHANGED <<keys, history>>
  BY DEF Picking, CheckRate, PickFree, PickCollides, PickFromClock, Abort
<1>2. /\ pc' \in [Requests -> {"idle", "pick", "write"}]
      /\ tries' \in [Requests -> 0..(MaxTries - 1)]
      /\ code' \in [Requests -> Codes \cup {None}]
      /\ Chosen'
  <2>1. CASE CheckRate(p)
    BY <2>1 DEF CheckRate, Inv, TypeOK, Chosen
  <2>2. CASE PickFree(p)
    BY <2>2 DEF PickFree, Inv, TypeOK, Chosen
  <2>3. CASE PickCollides(p)
    BY <2>3 DEF PickCollides, Inv, TypeOK, Chosen
  <2>4. CASE PickFromClock(p)
    BY <2>4 DEF PickFromClock, Inv, TypeOK, Chosen
  <2>5. CASE Abort(p)
    BY <2>5 DEF Abort, Reset, Inv, TypeOK, Chosen
  <2>6. QED
    BY <2>1, <2>2, <2>3, <2>4, <2>5 DEF Picking
<1>3. QED
  BY <1>1, <1>2 DEF keys, history, Inv, TypeOK, CodeIsTheUsers, RateClock

-----------------------------------------------------------------------------
(***************************************************************************)
(* The steps that write the keys: the MULTI, the two ways to redeem, and   *)
(* the clock.                                                              *)
(***************************************************************************)
LEMMA WriteKeepsInv ==
    ASSUME Inv, NEW p \in Requests, Write(p) \/ WriteAnswerLost(p)
    PROVE  Inv'
<1> DEFINE u == UserOf(p)
           c == code[p]
<1>1. u \in Users /\ c \in Codes /\ c # None /\ u # None
  BY RequestUser DEF Write, WriteAnswerLost, Inv, Chosen
<1>2. /\ pc[p] = "write" /\ SetsCode(u, c) /\ SetsRate(u) /\ Reset(p)
      /\ Shows(u, c) \/ (shown' = shown /\ untold' = untold \cup {c})
  BY DEF Write, WriteAnswerLost
<1>3. TypeOK'
  <2>1. otp' \in [Users -> Codes \cup {None}] /\ otpTTL' \in [Users -> 0..OTPTTL]
        /\ reverse' \in [Codes -> Users \cup {None}] /\ reverseTTL' \in [Codes -> 0..OTPTTL]
        /\ rateTTL' \in [Users -> 0..RateTTL] /\ sinceIssue' \in [Users -> 0..RateTTL]
    BY <1>1, <1>2 DEF SetsCode, SetsRate, Inv, TypeOK
  <2>2. /\ pc' \in [Requests -> {"idle", "pick", "write"}]
        /\ tries' \in [Requests -> 0..(MaxTries - 1)]
        /\ code' \in [Requests -> Codes \cup {None}]
    BY <1>2 DEF Reset, Inv, TypeOK
  <2>3. shown' \in [Users -> [Codes -> 0..OTPTTL]]
    <3>1. shown \in [Users -> [Codes -> 0..OTPTTL]] /\ OTPTTL \in 0..OTPTTL
      BY DEF Inv, TypeOK
    <3>2. CASE Shows(u, c)
      BY <1>1, <3>1, <3>2 DEF Shows
    <3>3. QED
      BY <1>2, <3>1, <3>2
  <2>4. /\ \A v \in Users : otp'[v] # None <=> otpTTL'[v] > 0
        /\ \A d \in Codes : reverse'[d] # None <=> reverseTTL'[d] > 0
        /\ \A d \in Codes : reverse[d] # None => reverse'[d] # None
    BY <1>1, <1>2 DEF SetsCode, Inv, TypeOK
  <2>5. untold' \subseteq {d \in Codes : reverse'[d] # None}
    BY <1>1, <1>2, <2>4 DEF SetsCode, Shows, Inv, TypeOK
  <2>6. QED
    BY <2>1, <2>2, <2>3, <2>4, <2>5 DEF TypeOK
<1>4. Chosen'
  BY <1>2 DEF Reset, Inv, TypeOK, Chosen
<1>5. CodeIsTheUsers'
  BY <1>1, <1>2 DEF SetsCode, Shows, Inv, TypeOK, CodeIsTheUsers
<1>6. RateClock'
  BY <1>1, <1>2 DEF SetsCode, SetsRate, Inv, TypeOK, RateClock
<1>7. QED
  BY <1>3, <1>4, <1>5, <1>6 DEF Inv

LEMMA VerifyByValueKeepsInv ==
    ASSUME Inv, NEW c \in Codes, VerifyByValue(c)
    PROVE  Inv'
<1> DEFINE u == reverse[c]
<1>1. u \in Users
  BY DEF VerifyByValue, Inv, TypeOK
<1>2. TypeOK'
  BY <1>1 DEF VerifyByValue, gens, Inv, TypeOK
<1>3. CodeIsTheUsers'
  BY <1>1 DEF VerifyByValue, Inv, TypeOK, CodeIsTheUsers
<1>4. QED
  BY <1>2, <1>3 DEF VerifyByValue, gens, Inv, Chosen, RateClock

LEMMA VerifyCodeKeepsInv ==
    ASSUME Inv, NEW u \in Users, NEW c \in Codes, VerifyCode(u, c)
    PROVE  Inv'
<1>1. TypeOK'
  BY DEF VerifyCode, gens, Inv, TypeOK
<1>2. CodeIsTheUsers'
  BY DEF VerifyCode, Inv, TypeOK, CodeIsTheUsers
<1>3. QED
  BY <1>1, <1>2 DEF VerifyCode, gens, Inv, Chosen, RateClock

LEMMA TickKeepsInv ==
    ASSUME Inv, Tick
    PROVE  Inv'
<1>1. TypeOK'
  BY DEF Tick, Older, gens, Inv, TypeOK
<1>2. Chosen'
  BY DEF Tick, gens, Inv, Chosen
<1>3. CodeIsTheUsers'
  BY DEF Tick, Older, Inv, TypeOK, CodeIsTheUsers
<1>4. RateClock'
  BY DEF Tick, Older, Inv, TypeOK, RateClock
<1>5. QED
  BY <1>1, <1>2, <1>3, <1>4 DEF Inv

LEMMA InvNext == Inv /\ [Next]_vars => Inv'
<1> SUFFICES ASSUME Inv, [Next]_vars
             PROVE  Inv'
  OBVIOUS
<1>1. CASE \E p \in Requests : Picking(p)
  BY <1>1, PickingKeepsInv
<1>2. CASE \E p \in Requests : Write(p) \/ WriteAnswerLost(p)
  BY <1>2, WriteKeepsInv
<1>3. CASE \E c \in Codes : VerifyByValue(c)
  BY <1>3, VerifyByValueKeepsInv
<1>4. CASE \E u \in Users, c \in Codes : VerifyCode(u, c)
  BY <1>4, VerifyCodeKeepsInv
<1>5. CASE Tick
  BY <1>5, TickKeepsInv
<1>6. CASE UNCHANGED vars
  BY <1>6 DEF vars, Inv, TypeOK, Chosen, CodeIsTheUsers, RateClock
<1>7. QED
  BY <1>1, <1>2, <1>3, <1>4, <1>5, <1>6 DEF Next, Picking

LEMMA Invariant == Spec => []Inv
BY InvInit, InvNext, PTL DEF Spec

-----------------------------------------------------------------------------
\* Every key holds what generate_code writes and exists while it has a TTL.
THEOREM TypeCorrect == Spec => []TypeOK
BY Invariant, PTL DEF Inv

\* The bot accepts a code that was shown only for the user it was shown to, while it is valid.
THEOREM CodeIsTheUsersAlways == Spec => []CodeIsTheUsers
BY Invariant, PTL DEF Inv

(***************************************************************************)
(* Only CheckRate lets a request begin, with the rate key absent, which by *)
(* RateClock means that the user's latest code is RATE_LIMIT_TTL ago.      *)
(***************************************************************************)
THEOREM RateLimitGateAlways == Spec => RateLimitGate
<1> DEFINE Gate == \A p \in Requests :
               pc[p] = "idle" /\ pc'[p] # "idle" => sinceIssue[UserOf(p)] = RateTTL
<1>1. Inv /\ [Next]_vars => [Gate]_vars
  <2> SUFFICES ASSUME Inv, Next, NEW p \in Requests, pc[p] = "idle", pc'[p] # "idle"
               PROVE  sinceIssue[UserOf(p)] = RateTTL
    OBVIOUS
  <2>1. CheckRate(p)
    <3>1. ~(\E c \in Codes : VerifyByValue(c)) /\ ~Tick
      BY DEF VerifyByValue, Tick, gens
    <3>2. ~(\E u \in Users, c \in Codes : VerifyCode(u, c))
      BY DEF VerifyCode, gens
    <3>3. PICK q \in Requests : \/ CheckRate(q) \/ PickFree(q) \/ PickCollides(q)
                                \/ PickFromClock(q) \/ Write(q) \/ WriteAnswerLost(q)
                                \/ Abort(q)
      BY <3>1, <3>2 DEF Next
    <3>4. q = p
      BY <3>3 DEF CheckRate, PickFree, PickCollides, PickFromClock, Write, WriteAnswerLost,
                  Abort, Reset, Inv, TypeOK
    <3>5. QED
      BY <3>3, <3>4 DEF PickFree, PickCollides, PickFromClock, Write, WriteAnswerLost, Abort
  <2>2. rateTTL[UserOf(p)] = 0 /\ UserOf(p) \in Users
    BY <2>1, RequestUser DEF CheckRate
  <2>3. QED
    BY <2>2 DEF Inv, TypeOK, RateClock
<1>2. QED
  BY <1>1, Invariant, PTL DEF Spec, RateLimitGate
=============================================================================
