----------------------- MODULE SecondFactorProperties -----------------------
(***************************************************************************)
(* What the second factor promises.                                        *)
(***************************************************************************)
EXTENDS SecondFactor, TLC

OtpRequestSymmetry == Permutations(Requests)

\* Every variable holds what the code can put in it.
OtpTypeOK ==
    /\ now \in 0..MaxTime
    /\ account \in Account
    /\ tokens \in [Secret -> Token]
    /\ usedTokens \subseteq UsedToken
    /\ attempts \in Nat
    /\ signedIn \in BOOLEAN
    /\ opened \subseteq Opening
    /\ req \in [Requests -> Request]

\* Until it expires, a challenge opens one session and a step-up token lets one
\* request through, whichever handlers find it unused at the same time
\* (authController.js:253, 319; adminStepUpMiddleware.js:27).
OneUsePerToken ==
    \A x, y \in opened :
        x.token = y.token /\ {x.at, y.at} \subseteq 0..(tokens[x.token].expiresAt - 1)
            => x = y

Accepted(r) ==
    /\ req[r].cred \in Code
    /\ \/ req[r].phase \in {"store", "issue", "consume"}
       \/ req[r].reply \in {"session", "disabled", "refused", "token"}

\* A recovery code is accepted once, whatever reads it at the same time: a login,
\* a step-up or the end of the second factor (otpService.js:30-46).
RecoveryCodeOnce ==
    \A a, b \in Requests :
        Accepted(a) /\ Accepted(b) /\ req[a].cred = req[b].cred => a = b

\* The recovery codes of an account come from the enrolment of its secret, also
\* when enrolments, uses of codes and disablings overlap (otpService.js:112-116).
CodesMatchSecret ==
    account.secret # None =>
        \A c \in account.codes :
            account.secret = IF c.by = Initial THEN Initial ELSE req[c.by].cred

\* A client told that its token is a replay used it before, or lost it to a request
\* that used it or failed at it: a wrong code does not spend the challenge
\* (authController.js:236-264).
ReplayedTokenUsed ==
    \A r \in Requests :
        req[r].phase = "done" /\ req[r].reply = "replay" =>
            \E q \in Requests \ {r} :
                /\ req[q].token = req[r].token
                /\ req[q].phase = "done"
                /\ req[q].reply \in {"session", "allowed", "error"}

\* Every recovery code of one enrolment was presented.
CodesExhausted ==
    \E by \in Secret : \A c \in AllCodes(by) : \E r \in Requests : req[r].cred = c

\* The flag and the secret of the stored account agree, an administrator's flag is
\* always set.
Agreed ==
    /\ IsAdmin => account.enabled
    /\ IsAdmin \/ CodesExhausted \/ (account.enabled <=> account.secret # None)

\* The step opens a session on the password of r alone.
OpensUnasked(r) ==
    /\ req[r].kind = "login" /\ req'[r] # req[r]
    /\ req'[r].reply = "session" \/ (signedIn' /\ ~signedIn)

\* A login opens a session on its password alone only if the account it read, some
\* awaits before, was no administrator's and had no secret.
UnaskedHadNoSecret ==
    \A r \in Requests : OpensUnasked(r) =>
        /\ req[r].snap.role # "admin"
        /\ CodesExhausted \/ req[r].snap.secret = None

\* A stored secret is asked for at login, although login decides on the flag and the
\* role (authController.js:173): flag and secret are saved apart, the flag only if it
\* differs from the document that was read, and enrolments, disablings and uses of
\* codes overlap; what orders their saves is the version of the array of recovery
\* codes, and therefore only as long as there are codes left to replace
\* (otpService.js:112-116, 141-150).  Nothing is said of a secret stored after the
\* login read the account: that login may open a session without asking for it.
SecretEnforced == [][Agreed' /\ UnaskedHadNoSecret]_vars

=============================================================================
