---------------------------- MODULE LoginDefences ----------------------------
(***************************************************************************)
(* What stands between a guesser and an account: the lockout of            *)
(* src/services/loginAttemptService.js and the scores and blocks of        *)
(* riskScoringService.js, with the guard of loginAbuseGuardMiddleware.js,  *)
(* the login handlers of authController.js and the scoring of              *)
(* securityEventService.js.                                                *)
(*                                                                         *)
(* One process and one client address: every key of the three maps starts  *)
(* with the address, and a process knows its own maps only.  The services  *)
(* never wait, so that a step of a handler, from one await to the next,    *)
(* sees and changes them at once.  Time is counted in minutes.             *)
(***************************************************************************)
EXTENDS Integers, Sequences, FiniteSets

CONSTANTS
    Clients,           \* who sends requests from the address, one at a time each
    Accounts,          \* e-mail addresses, with an account or not
    Admins,            \* those whose account is an administrator's
    WithOtp,           \* those whose login always asks for a second factor
    Anyone,            \* the key of the address alone
    MaxFailedAttempts, \* loginMaxFailedAttempts
    AdminMinimum,      \* the least threshold of an administrator: 5 in the code
    Window,            \* loginLockWindowSeconds
    LockMax,           \* loginLockMaxSeconds
    EVENT_WEIGHTS,     \* the weights of the events below
    Decay,             \* riskScoreDecayPerMinute
    Medium, High,      \* riskMediumThreshold and riskHighThreshold
    Critical,          \* riskCriticalThreshold
    BlockDuration,     \* riskBlockDurationSeconds
    Unfamiliar,        \* the points a new address or browser may add
    MaxArrivals,       \* bound on the requests sent
    Time,              \* bound on the clock: the instants it shows
    LastArrival,       \* bound on when requests are sent
    Faults             \* may the database fail and the process restart?

Events == {"failed_login_attempt", "login_rate_limit_triggered", "otp_failed_attempt",
           "otp_challenge_replay_detected"}

ASSUME PeopleAssumption ==
    /\ Admins \subseteq WithOtp /\ WithOtp \subseteq Accounts
    /\ Anyone \notin Accounts /\ "none" \notin Accounts \cup {Anyone}
ASSUME SettingsAssumption ==
    /\ {MaxFailedAttempts, AdminMinimum, Window, LockMax, Decay, Medium, High,
        Critical, BlockDuration, MaxArrivals, LastArrival} \subseteq Nat
    /\ MaxFailedAttempts > 0 /\ AdminMinimum > 0 /\ Critical > 0
    /\ EVENT_WEIGHTS \in [Events -> Nat]
    /\ Unfamiliar \subseteq Nat
    /\ Time \subseteq Nat /\ 1 \in Time /\ 0 \notin Time
ASSUME FaultsAssumption == Faults \in BOOLEAN

VARIABLES
    now,       \* the clock of the process, from 1: the code keeps 0 for "never"
    attempts,  \* attemptsByKey
    scores,    \* scoreStore
    blocks,    \* blockStore: until when a key is blocked
    req,       \* the request each client has in flight, or its last one
    arrivals,  \* the requests sent so far
    history    \* history: what the process recorded since it started

vars == <<now, attempts, scores, blocks, req, arrivals, history>>

Keys == Accounts \cup {Anyone}
larger(a, b) == IF a > b THEN a ELSE b
smaller(a, b) == IF a < b THEN a ELSE b

\* A failure is a pair of its number and its time: two of one instant are two.
State == [failedAt: SUBSET (Nat \X Time), blockedUntil: Nat, breachCount: Nat,
          lastFailureAt: Nat]
NoState == [failedAt |-> {}, blockedUntil |-> 0, breachCount |-> 0, lastFailureAt |-> 0]
Score == [score: Nat, updatedAt: Nat]
NoScore == [score |-> 0, updatedAt |-> 0]

\* A client at "code" holds a challenge and may answer it; "since" is how much had
\* been recorded when the guard let the request pass, "pastLock" whether the account
\* was locked then, under another spelling of its e-mail address.
Phase == {"idle", "password", "code", "session"}
Request == [phase: Phase, account: Keys, since: Nat, pastLock: BOOLEAN]
NoRequest == [phase |-> "idle", account |-> Anyone, since |-> 0, pastLock |-> FALSE]

Record == [what: {"failed", "code", "lastCode", "replay", "right", "session"}, account: Keys,
           locked: Keys \cup {"none"}, at: Time]

Init ==
    /\ now = 1
    /\ attempts = [k \in Keys |-> NoState]
    /\ scores = [k \in Keys |-> NoScore]
    /\ blocks = [k \in Keys |-> 0]
    /\ req = [c \in Clients |-> NoRequest]
    /\ arrivals = 0
    /\ history = <<>>

Note(c, what, locked) ==
    history' = Append(history, [what |-> what, account |-> req[c].account,
                                locked |-> locked, at |-> now])

Answer(c) == req' = [req EXCEPT ![c] = NoRequest]
Advance(c, phase) == req' = [req EXCEPT ![c] = [NoRequest EXCEPT !.phase = phase,
                                                             !.account = req[c].account]]

-----------------------------------------------------------------------------
(* riskScoringService.js                                                    *)

\* Mutant: the decayed score is not kept above zero.
getScoreEntry_NoFloor(k) ==
    [score |-> scores[k].score - (now - scores[k].updatedAt) * Decay, updatedAt |-> now]

getScoreEntry(k) ==
    [score |-> larger(scores[k].score - (now - scores[k].updatedAt) * Decay, 0),
     updatedAt |-> now]

\* Mutant: the decayed score is saved under the time of the former one.
recordRiskEvent_DecaysTwice(k, weight) ==
    LET score == getScoreEntry(k).score + weight
        since == IF scores[k].score = 0 THEN now ELSE scores[k].updatedAt
    IN  /\ scores' = [scores EXCEPT ![k] = [score |-> score, updatedAt |-> since]]
        /\ blocks' = IF score >= Critical
                      THEN [blocks EXCEPT ![k] = now + BlockDuration] ELSE blocks

recordRiskEvent(k, weight) ==
    LET score == getScoreEntry(k).score + weight
    IN  IF weight = 0 THEN UNCHANGED <<scores, blocks>>
        ELSE /\ scores' = [scores EXCEPT ![k] = [score |-> score, updatedAt |-> now]]
             /\ blocks' = IF score >= Critical
                          THEN [blocks EXCEPT ![k] = now + BlockDuration] ELSE blocks

RiskBlocked(k) == blocks[k] > now

\* isRiskBlocked of the keys of K: a block that is over is deleted.
Unblocked(K) == [k \in Keys |-> IF k \in K /\ ~RiskBlocked(k) THEN 0 ELSE blocks[k]]

\* What a refused code weighs: the failure may be the one too many for the limiter
\* of SecondFactor, a second event of the same instant.
CodeWeight(what) ==
    CASE what = "code"      -> EVENT_WEIGHTS["otp_failed_attempt"]
      [] what = "lastCode" -> EVENT_WEIGHTS["otp_failed_attempt"]
                               + EVENT_WEIGHTS["login_rate_limit_triggered"]
      [] what = "replay"    -> EVENT_WEIGHTS["otp_challenge_replay_detected"]

\* The score of evaluateLoginRisk, in tenths of a point.
LoginRisk(a, failedAttempts, unfamiliar) ==
    10 * ((IF a \in Admins THEN 20 ELSE 0) + 3 * failedAttempts + unfamiliar)
    + 4 * getScoreEntry(Anyone).score + 6 * getScoreEntry(a).score

\* Its level is not low: a login of medium, high or critical risk steps up.
StepsUp(risk) == \E threshold \in {Medium, High, Critical} : risk >= 10 * threshold

-----------------------------------------------------------------------------
(* loginAttemptService.js                                                   *)

Locked(k) == attempts[k].blockedUntil > now

getThreshold(isAdmin) ==
    IF isAdmin THEN larger(MaxFailedAttempts \div 2, AdminMinimum) ELSE MaxFailedAttempts

pruneWindow(s) ==
    [s EXCEPT !.failedAt = {f \in @ : f[2] >= now - Window},
              !.breachCount = IF s.lastFailureAt # 0 /\ now - s.lastFailureAt > LockMax
                              THEN 0 ELSE @]

calculateLockSeconds(breachCount, isAdmin) ==
    smaller(Window * 2^larger(breachCount - 1, 0) * (IF isAdmin THEN 2 ELSE 1), LockMax)

\* One more failure, before it is compared with the threshold.
Counted(s) ==
    [pruneWindow(s) EXCEPT !.failedAt = @ \cup {<<Len(history) + 1, now>>},
                           !.lastFailureAt = now]

Reaches(s, isAdmin) == Cardinality(Counted(s).failedAt) >= getThreshold(isAdmin)

\* Mutant: the failures that locked the key are kept.
AfterFailure_KeepsFailures(s, isAdmin) ==
    IF ~Reaches(s, isAdmin) THEN Counted(s)
    ELSE LET breaches == pruneWindow(s).breachCount + 1
         IN  [Counted(s) EXCEPT !.breachCount = breaches,
                  !.blockedUntil = now + calculateLockSeconds(breaches, isAdmin)]

\* Mutant: the lock is as long as the count of locks before it says.
AfterFailure_CountsLate(s, isAdmin) ==
    IF ~Reaches(s, isAdmin) THEN Counted(s)
    ELSE LET breaches == pruneWindow(s).breachCount
         IN  [failedAt |-> {}, breachCount |-> breaches + 1, lastFailureAt |-> now,
              blockedUntil |-> now + calculateLockSeconds(breaches, isAdmin)]

AfterFailure(s, isAdmin) ==
    IF ~Reaches(s, isAdmin) THEN Counted(s)
    ELSE LET breaches == pruneWindow(s).breachCount + 1
         IN  [failedAt |-> {}, breachCount |-> breaches, lastFailureAt |-> now,
              blockedUntil |-> now + calculateLockSeconds(breaches, isAdmin)]

\* The keys the failure of a login is counted for: it throws at the first it locks.
Charged(a) == IF Reaches(attempts[Anyone], a \in Admins) THEN {Anyone} ELSE {Anyone, a}
LockedBy(a) ==
    IF Reaches(attempts[Anyone], a \in Admins) THEN Anyone
    ELSE IF Reaches(attempts[a], a \in Admins) THEN a ELSE "none"

recordFailedLogin(c) ==
    LET a == req[c].account
        event == IF LockedBy(a) = "none" THEN "failed_login_attempt"
                                         ELSE "login_rate_limit_triggered"
    IN  /\ attempts' = [k \in Keys |-> IF k \in Charged(a)
                            THEN AfterFailure(attempts[k], a \in Admins) ELSE attempts[k]]
        /\ recordRiskEvent(Anyone, EVENT_WEIGHTS[event])
        /\ Answer(c)
        /\ Note(c, "failed", LockedBy(a))

-----------------------------------------------------------------------------
(* POST /auth/login                                                         *)

LetPass(c, a, asStored) ==
    req' = [req EXCEPT ![c] = [phase |-> "password", account |-> a,
                               since |-> Len(history), pastLock |-> ~asStored /\ Locked(a)]]

\* A lock that is over is forgotten as it is met.
Forgotten(met) ==
    [k \in Keys |-> IF k \in met /\ ~Locked(k) THEN [attempts[k] EXCEPT !.blockedUntil = 0]
                                               ELSE attempts[k]]

\* The keys the guard looks up: it runs before normalizeEmail, on the e-mail address
\* as it was typed, but for blanks and case.  Failures are counted and locks are set
\* under normalized addresses: if the typed one differs from what normalizeEmail makes
\* of it (a dot, a sub-address), there is never anything under its key.
LookedUp(a, asStored) == IF asStored THEN {Anyone, a} ELSE {Anyone}

\* Mutant: only the lock of the account is looked at.
loginAbuseGuard_AccountOnly(c, a, asStored) ==
    LET open == ~RiskBlocked(Anyone)
        keys == LookedUp(a, asStored) \ {Anyone}
    IN  /\ blocks' = Unblocked({Anyone})
        /\ attempts' = Forgotten(IF open THEN keys ELSE {})
        /\ IF open /\ \A k \in keys : ~Locked(k) THEN LetPass(c, a, asStored)
                                                ELSE UNCHANGED req

\* The guard: the block of the address, then its lock, then that of the account.
loginAbuseGuard(c, a, asStored) ==
    LET open == ~RiskBlocked(Anyone)
        keys == LookedUp(a, asStored)
        met == IF ~open THEN {} ELSE IF Locked(Anyone) THEN {Anyone} ELSE keys
    IN  /\ blocks' = Unblocked({Anyone})
        /\ attempts' = Forgotten(met)
        /\ IF open /\ \A k \in keys : ~Locked(k) THEN LetPass(c, a, asStored)
                                                ELSE UNCHANGED req

Arrives ==
    /\ arrivals < MaxArrivals /\ now <= LastArrival
    /\ arrivals' = arrivals + 1

SendLogin(c) ==
    /\ req[c].phase = "idle"
    /\ Arrives
    /\ \E a \in Accounts, asStored \in BOOLEAN : loginAbuseGuard(c, a, asStored)
    /\ UNCHANGED <<now, scores, history>>

\* authenticateUser returns nobody, the role of the account is looked up, and the
\* failure is recorded; nothing of the maps is used in between.
FailLogin(c) ==
    /\ req[c].phase = "password"
    /\ recordFailedLogin(c)
    /\ UNCHANGED <<now, arrivals>>

\* The right password: the block of the account is asked for, the risk is
\* evaluated, and both counters are deleted.
RightPassword(c) ==
    LET a == req[c].account
        failed(k) == Cardinality(pruneWindow(attempts[k]).failedAt)
        failedAttempts == larger(failed(Anyone), failed(a))
    IN  /\ req[c].phase = "password"
        /\ blocks' = Unblocked({a})
        /\ IF RiskBlocked(a)
           THEN Answer(c) /\ UNCHANGED <<attempts, scores, history>>
           ELSE /\ attempts' = [attempts EXCEPT ![Anyone] = NoState, ![a] = NoState]
                /\ scores' = [scores EXCEPT ![Anyone] = getScoreEntry(Anyone),
                                            ![a] = getScoreEntry(a)]
                /\ \E u \in Unfamiliar :
                      IF a \in WithOtp \/ StepsUp(LoginRisk(a, failedAttempts, u))
                      THEN Advance(c, "code") ELSE Advance(c, "session")
                /\ Note(c, "right", "none")
        /\ UNCHANGED <<now, arrivals>>

\* POST /auth/otp/verify-login, which no guard precedes.  A challenge already used
\* is an event of the address, a wrong code one of the account.
WrongCode(c) ==
    /\ req[c].phase = "code"
    /\ Arrives
    /\ \E what \in {"code", "lastCode", "replay"} :
          /\ recordRiskEvent(IF what = "replay" THEN Anyone ELSE req[c].account,
                             CodeWeight(what))
          /\ Note(c, what, "none")
    /\ UNCHANGED <<now, attempts, req>>

RightCode(c) ==
    /\ req[c].phase = "code"
    /\ Advance(c, "session")
    /\ UNCHANGED <<now, attempts, scores, blocks, arrivals, history>>

\* Mutant: the score of the address is cleared with that of the account.
OpenSession_ClearsAddress(c) ==
    /\ req[c].phase = "session"
    /\ scores' = [scores EXCEPT ![req[c].account] = NoScore, ![Anyone] = NoScore]
    /\ Answer(c)
    /\ Note(c, "session", "none")
    /\ UNCHANGED <<now, attempts, blocks, arrivals>>

\* The context of the login is saved, and clearRiskForPrincipal runs.
OpenSession(c) ==
    /\ req[c].phase = "session"
    /\ scores' = [scores EXCEPT ![req[c].account] = NoScore]
    /\ Answer(c)
    /\ Note(c, "session", "none")
    /\ UNCHANGED <<now, attempts, blocks, arrivals>>

-----------------------------------------------------------------------------

\* A password that is right but of an address not verified, or a query that fails:
\* the answer leaves the maps alone.
Forsake(c) ==
    /\ req[c].phase # "idle"
    /\ Answer(c)
    /\ UNCHANGED <<now, attempts, scores, blocks, arrivals, history>>

\* A new process starts with empty maps; requests in flight are lost.
Restart ==
    /\ Faults
    /\ history # <<>>
    /\ attempts' = [k \in Keys |-> NoState]
    /\ scores' = [k \in Keys |-> NoScore]
    /\ blocks' = [k \in Keys |-> 0]
    /\ req' = [c \in Clients |-> IF req[c].phase = "code" THEN req[c] ELSE NoRequest]
    /\ history' = <<>>
    /\ UNCHANGED <<now, arrivals>>

Tick ==
    /\ now' \in {t \in Time : t > now /\ \A u \in Time : u <= now \/ t <= u}
    /\ UNCHANGED <<attempts, scores, blocks, req, arrivals, history>>

\* Every request of the bound was sent and answered.
Quiescent ==
    /\ arrivals = MaxArrivals \/ now > LastArrival
    /\ \A c \in Clients : req[c].phase = "idle"
    /\ UNCHANGED vars

Next ==
    \/ \E c \in Clients :
          SendLogin(c) \/ FailLogin(c) \/ RightPassword(c) \/ WrongCode(c)
          \/ RightCode(c) \/ OpenSession(c) \/ Forsake(c)
    \/ Restart
    \/ Tick
    \/ Quiescent

Spec == Init /\ [][Next]_vars
=============================================================================
