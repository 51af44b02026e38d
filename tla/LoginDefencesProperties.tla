----------------------- MODULE LoginDefencesProperties -----------------------
(***************************************************************************)
(* What lockout and risk scoring promise, told from the history of what    *)
(* the process has recorded since it started.                              *)
(***************************************************************************)
EXTENDS LoginDefences, FiniteSetsExt

\* Every variable holds what the code can put in it.
DefencesTypeOK ==
    /\ now \in Time
    /\ attempts \in [Keys -> State]
    /\ scores \in [Keys -> Score]
    /\ blocks \in [Keys -> Nat]
    /\ req \in [Clients -> Request]
    /\ arrivals \in Nat
    /\ history \in Seq(Record)

-----------------------------------------------------------------------------

Failed(i) == history[i].what = "failed"

\* The step records one thing more, the failure of c's login.
Guesses(c) ==
    /\ Len(history') = Len(history) + 1
    /\ Failed(Len(history))'
    /\ req'[c] # req[c]

\* The i-th record is a failure that was counted for the key k.
CountsFor(i, k) ==
    Failed(i) /\ (k = Anyone \/ (k = history[i].account /\ history[i].locked # Anyone))

\* The counting for k starts anew after the i-th record.
StartsAnew(i, k) ==
    \/ Failed(i) /\ history[i].locked = k
    \/ history[i].what = "right" /\ k \in {Anyone, history[i].account}

\* The failures that speak for a lock of k by the i-th record: within the window,
\* since the last lock and the last success.
Evidence(i, k) ==
    {j \in 1..i : /\ CountsFor(j, k)
                  /\ history[j].at >= history[i].at - Window
                  /\ \A m \in j..(i - 1) : ~StartsAnew(m, k)}

\* A failure locks a key when, and only when, enough failures speak for it, none
\* of which counted for a former lock or preceded a success: whatever requests of
\* voters and administrators overlap, and although the failure that locks the
\* address is never counted for the account.  And a standing lock was set, at most
\* LockMax before its end, by a failure no success has followed
\* (loginAttemptService.js:38-43, 104-137, 139-145).
LocksAreEarned ==
    /\ \A i \in DOMAIN history, k \in Keys : CountsFor(i, k) =>
          (history[i].locked = k <=>
              Cardinality(Evidence(i, k)) >= getThreshold(history[i].account \in Admins))
    /\ \A k \in Keys : Locked(k) =>
          \E i \in DOMAIN history :
              /\ history[i].locked = k
              /\ attempts[k].blockedUntil <= history[i].at + LockMax
              /\ \A m \in (i + 1)..Len(history) : StartsAnew(m, k) => Failed(m)

\* A standing lock is lifted early by nothing but a restart, a success that had been
\* admitted before the lock was set and, the lock of an account but never that of the
\* client address, a success that another spelling of the e-mail address took past
\* the lock: the guard looks up the address as it was typed
\* (loginAttemptService.js:139-145 next to the guard at
\* loginAbuseGuardMiddleware.js:18, before normalizeEmail at authRoutes.js:40).
LocksHold ==
    [][\A k \in Keys : Locked(k) /\ attempts'[k].blockedUntil < attempts[k].blockedUntil =>
          \/ Restart
          \/ \E c \in Clients :
                /\ RightPassword(c)
                /\ k \in {Anyone, req[c].account}
                /\ \/ \E i \in (req[c].since + 1)..Len(history) : history[i].locked = k
                   \/ k # Anyone /\ req[c].pastLock]_vars

\* A failure never makes a standing lock shorter, although a voter's lock is half
\* as long as an administrator's, the doubling is capped, and the count of locks is
\* forgotten after a while (loginAttemptService.js:33-43, 114-116).
FailureNeverShortensLock ==
    [][\A c \in Clients, k \in Keys :
          Locked(k) /\ Guesses(c) => attempts'[k].blockedUntil >= attempts[k].blockedUntil]_vars

-----------------------------------------------------------------------------

WeightFor(i, k) ==
    CASE Failed(i) /\ k = Anyone ->
            EVENT_WEIGHTS[IF history[i].locked = "none" THEN "failed_login_attempt"
                                                       ELSE "login_rate_limit_triggered"]
      [] history[i].what \in {"code", "lastCode"} /\ k = history[i].account ->
            CodeWeight(history[i].what)
      [] history[i].what = "replay" /\ k = Anyone -> CodeWeight("replay")
      [] OTHER -> 0

\* What the records of the numbers in S added to the score of k.
Weight(k, S) == SumFunctionOnSet([i \in DOMAIN history |-> WeightFor(i, k)], S)

Cleared(i, k) == history[i].what = "session" /\ history[i].account = k

\* What is left at the time t of the events on k among the first n records: the
\* worst of their tails, each losing Decay per minute from its first event on.
Level(k, n, t) ==
    LET tails == {m \in 1..n : WeightFor(m, k) > 0 /\ \A i \in m..n : ~Cleared(i, k)}
        left(m) == Weight(k, m..n) - Decay * (t - history[m].at)
    IN  Max({0} \cup {left(m) : m \in tails})

\* The score, decayed in steps whenever it is read or written, is what the events
\* say; and a key is blocked if and only if an event filled it less than a block
\* ago, whether or not its score has decayed or was cleared since
\* (riskScoringService.js:26-62, 130-132).
RiskMatchesEvents ==
    \A k \in Keys :
        /\ getScoreEntry(k).score = Level(k, Len(history), now)
        /\ RiskBlocked(k) <=>
              \E n \in DOMAIN history :
                  /\ WeightFor(n, k) > 0
                  /\ Level(k, n, history[n].at) >= Critical
                  /\ history[n].at + BlockDuration > now

\* Nobody buys guesses with a login of their own: a guess was admitted only while
\* the guesses recorded before, from any of the last duration of a block on, weighed
\* less than the critical threshold plus what has decayed from that one to the last
\* record before the admission; the successes in between reset every counter but that
\* (authController.js:171, 212, loginAbuseGuardMiddleware.js:8-16).
GuessesRationed ==
    [][\A c \in Clients : Guesses(c) =>
          LET n == req[c].since
          IN  \A m \in 1..n : history[m].at > now - BlockDuration =>
                 Weight(Anyone, {j \in m..n : Failed(j)})
                 - Decay * (history[n].at - history[m].at) < Critical]_vars

=============================================================================
