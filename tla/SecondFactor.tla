---------------------------- MODULE SecondFactor ----------------------------
(***************************************************************************)
(* The second factor of one account: the enrolment of a secret, the codes  *)
(* and recovery codes checked at login, to disable it and to step up, as   *)
(* in src/services/otpService.js and src/controllers/authController.js,    *)
(* with the one-time tokens those flows hand out and consume               *)
(* (replayProtectionService.js, adminStepUpMiddleware.js).                 *)
(*                                                                         *)
(* A request is served once and its handler is cut at its awaits.  Secrets, *)
(* recovery codes and tokens are named by the request that generated them. *)
(***************************************************************************)
EXTENDS Integers, FiniteSets

CONSTANTS
    Requests,   \* the requests of a behaviour
    Initial,    \* names the enrolment and the login made before a behaviour begins
    None,       \* no secret, no token, and a code that matches nothing
    CodeCount,  \* recovery codes of an enrolment, 8 in the code
    MaxFailed,  \* otpMaxFailedAttempts
    TokenLife,  \* otpChallengeExpiresIn and adminStepUpExpiresIn
    MaxTime,    \* bound on the clock
    UniqueIndex, \* is the unique index of the used tokens built? config/db.js:64
                \* builds none in production
    Faults      \* may operations fail, processes die and clients go away?

ASSUME NamesAssumption == Initial # None /\ Requests \cap {Initial, None} = {}
ASSUME CountsAssumption == {CodeCount, MaxFailed, TokenLife, MaxTime} \subseteq Nat
ASSUME OtpFlagsAssumption == {UniqueIndex, Faults} \subseteq BOOLEAN

VARIABLES
    now,         \* the clock
    account,     \* the fields of the account that concern the second factor
    tokens,      \* when the challenges and step-up tokens handed out expire
    usedTokens,  \* the used-token collection, restricted to these tokens
    attempts,    \* the points otpAttemptLimiter counts for the account
    signedIn,    \* does a client hold an access token?
    opened,      \* history: what each consumed token opened, and when
    req          \* the requests: where their handler stands, its reply

vars == <<now, account, tokens, usedTokens, attempts, signedIn, opened, req>>

Secret == Requests \cup {Initial}
Code == [by: Secret, n: 1..CodeCount]
\* Nobody takes a recovery code for the code of a secret.
ASSUME CodesAssumption == Code \cap (Secret \cup {None}) = {}
AllCodes(by) == {c \in Code : c.by = by}
Account == [role: {"admin", "voter"}, secret: Secret \cup {None}, temp: Secret \cup {None}, enabled: BOOLEAN,
            codes: SUBSET Code, version: Nat]
\* What ensureDefaultAdmin and registerUser create, and an account enrolled before.
NewAccount(role) == [role |-> role, secret |-> None, temp |-> None,
                     enabled |-> role = "admin", codes |-> {}, version |-> 0]
Enrolled(role) == [role |-> role, secret |-> Initial, temp |-> None, enabled |-> TRUE,
                   codes |-> AllCodes(Initial), version |-> 1]
NoSnapshot == NewAccount("voter")

IsAdmin == account.role = "admin"

Token == [kind: {"none", "challenge", "stepUp"}, expiresAt: 0..(MaxTime + TokenLife)]
NoToken == [kind |-> "none", expiresAt |-> 0]
UsedToken == [token: Secret, expiresAt: 0..(MaxTime + TokenLife)]
Opening == [token: Secret, by: Requests, at: 0..MaxTime]

Kind == {"none", "login", "verify", "setup", "confirm", "disable", "stepUp", "sensitive"}
Phase == {"new", "find", "decide", "unused", "check", "spend", "failed", "store",
          "issue", "consume", "done"}
Reply == {"none", "challenge", "session", "replay", "limited", "invalid", "secret",
          "enabled", "disabled", "refused", "token", "allowed", "error"}
Request == [kind: Kind, phase: Phase, token: Secret \cup {None},
            cred: Secret \cup Code \cup {None}, snap: Account, reply: Reply]
NotSent == [kind |-> "none", phase |-> "new", token |-> None, cred |-> None,
            snap |-> NoSnapshot, reply |-> "none"]

Init ==
    /\ now = 0
    /\ \E role \in {"admin", "voter"} :
          \/ account = NewAccount(role) /\ signedIn = FALSE
          \/ account = Enrolled(role) /\ signedIn = TRUE
    /\ tokens = [t \in Secret |-> IF t = Initial THEN [kind |-> "challenge", expiresAt |-> TokenLife]
                                               ELSE NoToken]
    /\ usedTokens = {}
    /\ attempts = 0
    /\ opened = {}
    /\ req = [r \in Requests |-> NotSent]

-----------------------------------------------------------------------------
(* What clients send.                                                      *)

Shown == {q \in Requests : req[q].reply = "secret"} \cup {Initial}
HandedOut == {c \in Code : c.by = Initial \/ req[c.by].reply \in {"enabled", "session"}}
\* A signed token is refused from its expiry on, before anything is read.
Valid(kind) == {t \in Secret : tokens[t].kind = kind /\ now < tokens[t].expiresAt}

Start(r, kind, phase, token, cred) ==
    req' = [req EXCEPT ![r] = [NotSent EXCEPT !.kind = kind, !.phase = phase,
                                              !.token = token, !.cred = cred]]

\* The routes of src/routes/authRoutes.js that touch the second factor.
Send(r) ==
    /\ req[r].phase = "new"
    /\ \/ Start(r, "login", "find", None, None)
       \/ \E t \in Valid("challenge"), c \in Shown \cup HandedOut \cup {None} :
             Start(r, "verify", "find", t, c)
       \/ \E t \in Valid("challenge") \cup (IF signedIn THEN {None} ELSE {}) :
             \/ Start(r, "setup", "find", t, None)
             \/ \E c \in Shown \cup {None} : Start(r, "confirm", "find", t, c)
       \/ /\ signedIn
          /\ \E c \in Shown \cup HandedOut \cup {None} :
                \/ Start(r, "disable", "find", None, c)
                \/ IsAdmin /\ Start(r, "stepUp", "find", None, c)
       \/ \E t \in Valid("stepUp") : signedIn /\ Start(r, "sensitive", "consume", t, None)
    /\ UNCHANGED <<now, account, tokens, usedTokens, attempts, signedIn, opened>>

-----------------------------------------------------------------------------

Answer(r, reply) == req' = [req EXCEPT ![r].phase = "done", ![r].snap = NoSnapshot,
                                       ![r].reply = reply]
Advance(r, phase) == req' = [req EXCEPT ![r].phase = phase]

\* Mutant: the lifetime is counted twice.
HandOut_TwoLifetimes(r, kind) ==
    tokens' = [tokens EXCEPT ![r] = [kind |-> kind, expiresAt |-> now + 2 * TokenLife]]

HandOut(r, kind) == tokens' = [tokens EXCEPT ![r] =
                                  [kind |-> kind, expiresAt |-> now + TokenLife]]

\* What a login does with the account comes after the comparison of the password.
AfterFind(kind, token) ==
    IF kind = "login" THEN "decide" ELSE IF token # None THEN "unused" ELSE "check"

\* authenticateUser, resolveUserFromOtpChallenge, resolveOtpActor: the account is
\* read.
Find(r) ==
    /\ req[r].phase = "find"
    /\ req' = [req EXCEPT ![r].snap = account,
                          ![r].phase = AfterFind(req[r].kind, req[r].token)]
    /\ UNCHANGED <<now, account, tokens, usedTokens, attempts, signedIn, opened>>

\* isOtpRequired
OtpRequired(user) == user.role = "admin" \/ user.enabled

\* The session is open once its cookies are set, also when what follows fails.
OpenSession(r, reply) ==
    signedIn' = TRUE /\ (Answer(r, reply) \/ (Faults /\ Answer(r, "error")))

\* The rest of login, with the right password, on the account that was read; the
\* score of the risk may require the second factor of anyone.
Login(r) ==
    /\ req[r].phase = "decide"
    /\ \/ HandOut(r, "challenge") /\ Answer(r, "challenge") /\ UNCHANGED signedIn
       \/ ~OtpRequired(req[r].snap) /\ OpenSession(r, "session") /\ UNCHANGED tokens
    /\ UNCHANGED <<now, account, usedTokens, attempts, opened>>

Consumed(t) == \E u \in usedTokens : u.token = t

Consume(r, expiresAt) == usedTokens' = usedTokens \cup
                             {[token |-> req[r].token, expiresAt |-> expiresAt]}

\* Mutant: the token is consumed before the code is checked.
AssertUnused_Consumes(r) ==
    /\ req[r].phase = "unused"
    /\ IF Consumed(req[r].token) THEN Answer(r, "replay") /\ UNCHANGED usedTokens
       ELSE Consume(r, tokens[req[r].token].expiresAt) /\ Advance(r, "check")
    /\ UNCHANGED <<now, account, tokens, attempts, signedIn, opened>>

\* assertOneTimeTokenUnused
AssertUnused(r) ==
    /\ req[r].phase = "unused"
    /\ IF Consumed(req[r].token) THEN Answer(r, "replay") ELSE Advance(r, "check")
    /\ UNCHANGED <<now, account, tokens, usedTokens, attempts, signedIn, opened>>

\* assertOtpAttemptAllowed guards a verification at login only.
Limited(r) == req[r].kind = "verify" /\ attempts >= MaxFailed

\* Where a handler goes on once its code was found right, and what a verification
\* at login resets then.
AfterCode(kind) == CASE kind = "verify" -> "consume"
                     [] kind = "stepUp" -> "issue"
                     [] OTHER -> "store"
ResetAttempts(r) == attempts' = IF req[r].kind = "verify" THEN 0 ELSE attempts

\* verifyOtpCodeForLogin on the account that was read: the code of its secret, or
\* one of its recovery codes, to be spent.
CheckCode(r) ==
    LET s == req[r].snap
        c == req[r].cred
    IN  /\ req[r].phase = "check" /\ req[r].kind \in {"verify", "disable", "stepUp"}
        /\ \/ Limited(r) /\ Answer(r, "limited") /\ UNCHANGED attempts
           \/ /\ ~Limited(r) /\ s.secret # None /\ c = s.secret
              /\ Advance(r, AfterCode(req[r].kind)) /\ ResetAttempts(r)
           \/ /\ ~Limited(r) /\ s.secret # None /\ c \in s.codes
              /\ Advance(r, "spend") /\ UNCHANGED attempts
           \/ /\ ~Limited(r) /\ (s.secret = None \/ c \notin s.codes \cup {s.secret})
              /\ Advance(r, "failed") /\ UNCHANGED attempts
        /\ UNCHANGED <<now, account, tokens, usedTokens, signedIn, opened>>

\* recordFailedOtpAttempt counts the failures of a verification at login.
FailCode(r, reply) ==
    IF req[r].kind = "verify"
    THEN attempts' = attempts + 1 /\ Answer(r, IF attempts + 1 > MaxFailed THEN "limited" ELSE reply)
    ELSE UNCHANGED attempts /\ Answer(r, reply)

RecordFailure(r) ==
    /\ req[r].phase = "failed"
    /\ FailCode(r, "invalid")
    /\ UNCHANGED <<now, account, tokens, usedTokens, signedIn, opened>>

\* The save of an array of codes names the version of the document it read.
VersionMatches(r) == account.version = req[r].snap.version

\* Mutant: the shortened array is saved whatever the version.
SpendCode_NoVersion(r) ==
    LET left == req[r].snap.codes \ {req[r].cred}
    IN  /\ req[r].phase = "spend"
        /\ account' = [account EXCEPT !.codes = left]
        /\ req' = [req EXCEPT ![r].snap.codes = left, ![r].phase = AfterCode(req[r].kind)]
        /\ ResetAttempts(r)
        /\ UNCHANGED <<now, tokens, usedTokens, signedIn, opened>>

\* verifyAndConsumeRecoveryCode; a version that moved on makes the save throw.
SpendCode(r) ==
    LET left == req[r].snap.codes \ {req[r].cred}
    IN  /\ req[r].phase = "spend"
        /\ \/ /\ VersionMatches(r)
              /\ account' = [account EXCEPT !.codes = left, !.version = @ + 1]
              /\ \/ /\ req' = [req EXCEPT ![r].snap.codes = left, ![r].snap.version = @ + 1,
                                           ![r].phase = AfterCode(req[r].kind)]
                    /\ ResetAttempts(r)
                 \/ Faults /\ FailCode(r, "error")
           \/ ~VersionMatches(r) /\ FailCode(r, "error") /\ UNCHANGED account
        /\ UNCHANGED <<now, tokens, usedTokens, signedIn, opened>>

-----------------------------------------------------------------------------
(* Enrolment, and its end.                                                 *)

\* startOtpSetup: the save sends the new secret and nothing else.
StartSetup(r) ==
    /\ req[r].phase = "check" /\ req[r].kind = "setup"
    /\ account' = [account EXCEPT !.temp = r]
    /\ Answer(r, "secret") \/ (Faults /\ Answer(r, "error"))
    /\ UNCHANGED <<now, tokens, usedTokens, attempts, signedIn, opened>>

\* verifyOtpSetup: the code must be that of the pending secret.
CheckSetup(r) ==
    LET s == req[r].snap
    IN  /\ req[r].phase = "check" /\ req[r].kind = "confirm"
        /\ IF s.temp # None /\ req[r].cred = s.temp THEN Advance(r, "store")
                                                   ELSE Answer(r, "invalid")
        /\ UNCHANGED <<now, account, tokens, usedTokens, attempts, signedIn, opened>>

\* Mutant: the codes of the former enrolment stay.
StoreSecret_KeepsCodes(r) ==
    /\ req[r].phase = "store" /\ req[r].kind = "confirm"
    /\ account' = [account EXCEPT !.secret = req[r].snap.temp, !.temp = None, !.enabled = TRUE,
                                  !.codes = @ \cup AllCodes(r), !.version = @ + 1]
    /\ IF req[r].token = None THEN Answer(r, "enabled") ELSE Advance(r, "consume")
    /\ UNCHANGED <<now, tokens, usedTokens, attempts, signedIn, opened>>

\* Its save replaces the array of codes, and sends otpEnabled only if the document
\* it read had it false.
StoreSecret(r) ==
    /\ req[r].phase = "store" /\ req[r].kind = "confirm"
    /\ \/ /\ VersionMatches(r)
          /\ account' = [role |-> account.role, secret |-> req[r].snap.temp, temp |-> None,
                         enabled |-> account.enabled \/ ~req[r].snap.enabled,
                         codes |-> AllCodes(r), version |-> account.version + 1]
          /\ \/ IF req[r].token = None THEN Answer(r, "enabled") ELSE Advance(r, "consume")
             \/ Faults /\ Answer(r, "error")
       \/ ~VersionMatches(r) /\ Answer(r, "error") /\ UNCHANGED account
    /\ UNCHANGED <<now, tokens, usedTokens, attempts, signedIn, opened>>

\* Mutant: the codes are removed without naming a version or moving it on.
Disable_NoVersion(r) ==
    /\ req[r].phase = "store" /\ req[r].kind = "disable"
    /\ \/ IsAdmin /\ Answer(r, "refused") /\ UNCHANGED account
       \/ /\ ~IsAdmin
          /\ account' = [account EXCEPT !.secret = None, !.temp = None, !.codes = {},
                                        !.enabled = @ /\ ~req[r].snap.enabled]
          /\ Answer(r, "disabled")
    /\ UNCHANGED <<now, tokens, usedTokens, attempts, signedIn, opened>>

\* disableOtpForUser: disableOtp did not select the pending secret, so that its save
\* always sends it, as it sends the secret; whether it sends the flag and the codes
\* depends on the document it read, and only the codes bring the version into play.
Disable(r) ==
    LET s == req[r].snap
        cleared == [account EXCEPT !.secret = None, !.temp = None,
                                   !.enabled = @ /\ ~s.enabled]
    IN  /\ req[r].phase = "store" /\ req[r].kind = "disable"
        /\ \/ IsAdmin /\ Answer(r, "refused") /\ UNCHANGED account
           \/ /\ ~IsAdmin /\ (s.codes # {} => VersionMatches(r))
              /\ account' = IF s.codes = {} THEN cleared
                            ELSE [cleared EXCEPT !.codes = {}, !.version = @ + 1]
              /\ Answer(r, "disabled") \/ (Faults /\ Answer(r, "error"))
           \/ /\ ~IsAdmin /\ s.codes # {} /\ ~VersionMatches(r)
              /\ Answer(r, "error") /\ UNCHANGED account
        /\ UNCHANGED <<now, tokens, usedTokens, attempts, signedIn, opened>>

-----------------------------------------------------------------------------
(* Tokens.                                                                 *)

\* issueAdminStepUpToken
IssueStepUp(r) ==
    /\ req[r].phase = "issue"
    /\ HandOut(r, "stepUp") /\ Answer(r, "token")
    /\ UNCHANGED <<now, account, usedTokens, attempts, signedIn, opened>>

Open(r) == opened' = opened \cup {[token |-> req[r].token, by |-> r, at |-> now]}

\* Mutant: the used token is forgotten at once.
ConsumeToken_ShortLived(r) ==
    /\ req[r].phase = "consume"
    /\ ~Consumed(req[r].token)
    /\ Consume(r, now) /\ Open(r)
    /\ OpenSession(r, IF req[r].kind = "sensitive" THEN "allowed" ELSE "session")
    /\ UNCHANGED <<now, account, tokens, attempts>>

\* consumeOneTimeToken until the token would have expired: only the index refuses a
\* second creation.  Then the session opens, or the request goes through to the
\* sensitive action.
ConsumeToken(r) ==
    /\ req[r].phase = "consume"
    /\ \/ /\ ~(UniqueIndex /\ Consumed(req[r].token))
          /\ Consume(r, tokens[req[r].token].expiresAt)
          /\ \/ /\ Open(r)
                /\ OpenSession(r, IF req[r].kind = "sensitive" THEN "allowed" ELSE "session")
             \/ Faults /\ Answer(r, "error") /\ UNCHANGED <<signedIn, opened>>
       \/ /\ UniqueIndex /\ Consumed(req[r].token)
          /\ Answer(r, "replay") /\ UNCHANGED <<usedTokens, signedIn, opened>>
    /\ UNCHANGED <<now, account, tokens, attempts>>

-----------------------------------------------------------------------------

\* A recovery code cannot be saved: that counts as a wrong code.
Fails(r) ==
    /\ Faults
    /\ req[r].phase = "spend" /\ FailCode(r, "error")
    /\ UNCHANGED <<now, account, tokens, usedTokens, signedIn, opened>>

\* Any other operation fails, the client goes away, or the process dies.
Lose(r) ==
    /\ Faults
    /\ req[r].phase \notin {"new", "done"}
    /\ Answer(r, "error")
    /\ UNCHANGED <<now, account, tokens, usedTokens, attempts, signedIn, opened>>

\* The window of otpAttemptLimiter ends, or the process that keeps it restarts.
WindowEnds ==
    /\ attempts > 0
    /\ attempts' = 0
    /\ UNCHANGED <<now, account, tokens, usedTokens, signedIn, opened, req>>

\* The TTL monitor of the database, sooner or later.
ExpireToken ==
    \E u \in usedTokens :
        /\ u.expiresAt <= now
        /\ usedTokens' = usedTokens \ {u}
        /\ UNCHANGED <<now, account, tokens, attempts, signedIn, opened, req>>

Tick ==
    /\ now < MaxTime
    /\ now' = now + 1
    /\ UNCHANGED <<account, tokens, usedTokens, attempts, signedIn, opened, req>>

\* Every request of the bound was served and the clock stands at its own.
Quiescent ==
    /\ \A r \in Requests : req[r].phase = "done"
    /\ now = MaxTime
    /\ UNCHANGED vars

Serve(r) ==
    \/ Login(r) \/ Find(r) \/ AssertUnused(r) \/ CheckCode(r)
    \/ SpendCode(r) \/ RecordFailure(r)
    \/ StartSetup(r) \/ CheckSetup(r) \/ StoreSecret(r) \/ Disable(r)
    \/ IssueStepUp(r) \/ ConsumeToken(r)

Next ==
    \/ \E r \in Requests : Send(r) \/ Serve(r) \/ Fails(r) \/ Lose(r)
    \/ WindowEnds \/ ExpireToken \/ Tick
    \/ Quiescent

Spec == Init /\ [][Next]_vars
=============================================================================
