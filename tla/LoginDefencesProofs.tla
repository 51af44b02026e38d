------------------------- MODULE LoginDefencesProofs -------------------------
(***************************************************************************)
(* What lockout and risk scoring promise, for any clients, accounts,       *)
(* limits, weights and times, with or without restarts.                    *)
(***************************************************************************)
EXTENDS LoginDefencesProperties, FiniteSums

-----------------------------------------------------------------------------
(* Types.                                                                   *)

\* The clock and the settings are natural numbers.
LEMMA Numbers ==
    /\ Time \subseteq Nat
    /\ Window \in Nat /\ LockMax \in Nat /\ Decay \in Nat /\ Critical \in Nat
    /\ BlockDuration \in Nat /\ Critical > 0
    /\ MaxFailedAttempts \in Nat /\ AdminMinimum \in Nat
BY SettingsAssumption

\* The key of the address is not an account, and "none" is no key.
LEMMA KeysApart == Anyone \in Keys /\ Anyone \notin Accounts /\ "none" \notin Keys
BY PeopleAssumption DEF Keys

\* A lock is a number of minutes, and no longer than the longest.
LEMMA LockSeconds ==
    ASSUME NEW b \in Nat, NEW isAdmin \in BOOLEAN
    PROVE  /\ calculateLockSeconds(b, isAdmin) \in Nat
           /\ calculateLockSeconds(b, isAdmin) <= LockMax
<1>1. larger(b - 1, 0) \in Nat
  BY DEF larger
<1>2. 2^larger(b - 1, 0) \in Nat
  BY <1>1, PowerType
<1>3. Window * 2^larger(b - 1, 0) * (IF isAdmin THEN 2 ELSE 1) \in Nat
  <2>1. \A p \in Nat, q \in {1, 2} : Window * p * q \in Nat
    BY Numbers
  <2> QED BY <1>2, <2>1
<1> QED BY <1>3, Numbers DEF calculateLockSeconds, smaller

\* The state of a key stays one through a failure.
LEMMA AfterFailureType ==
    ASSUME now \in Time, history \in Seq(Record), NEW s \in State, NEW isAdmin \in BOOLEAN
    PROVE  /\ pruneWindow(s) \in State
           /\ Counted(s) \in State
           /\ AfterFailure(s, isAdmin) \in State
<1>1. now \in Nat
  BY Numbers
<1>2. pruneWindow(s) \in State
  BY DEF pruneWindow, State
<1>3. Counted(s) \in State
  <2>1. <<Len(history) + 1, now>> \in Nat \X Time
    OBVIOUS
  <2> QED BY <1>1, <1>2, <2>1 DEF Counted, State
<1>4. pruneWindow(s).breachCount + 1 \in Nat
  BY <1>2 DEF State
<1>5. now + calculateLockSeconds(pruneWindow(s).breachCount + 1, isAdmin) \in Nat
  <2>1. calculateLockSeconds(pruneWindow(s).breachCount + 1, isAdmin) \in Nat
    BY <1>4, LockSeconds
  <2> QED BY <1>1, <2>1
<1>6. CASE ~Reaches(s, isAdmin)
  BY <1>2, <1>3, <1>6 DEF AfterFailure
<1>7. CASE Reaches(s, isAdmin)
  <2> DEFINE b == pruneWindow(s).breachCount + 1
  <2>1. AfterFailure(s, isAdmin) =
          [failedAt |-> {}, breachCount |-> b, lastFailureAt |-> now,
           blockedUntil |-> now + calculateLockSeconds(b, isAdmin)]
    BY <1>7 DEF AfterFailure
  <2> HIDE DEF b
  <2>2. AfterFailure(s, isAdmin) \in State
    BY <1>1, <1>4, <1>5, <2>1 DEF State, b
  <2> QED BY <1>2, <1>3, <2>2
<1> QED BY <1>6, <1>7

\* What a key holds at the start.
LEMMA NoStateType == NoState \in State
BY DEF NoState, State

\* The decayed score is a score.
LEMMA ScoreEntryType ==
    ASSUME DefencesTypeOK, NEW k \in Keys
    PROVE  getScoreEntry(k) \in Score
BY Numbers DEF DefencesTypeOK, getScoreEntry, Score, larger

\* The weights of the refused codes.
LEMMA CodeWeightType ==
    ASSUME NEW what \in {"code", "lastCode", "replay"}
    PROVE  CodeWeight(what) \in Nat
<1>1. EVENT_WEIGHTS \in [Events -> Nat]
  BY SettingsAssumption
<1>2. CASE what = "code"
  BY <1>1, <1>2 DEF CodeWeight, Events
<1>3. CASE what = "lastCode"
  <2>1. CodeWeight(what) = EVENT_WEIGHTS["otp_failed_attempt"]
                            + EVENT_WEIGHTS["login_rate_limit_triggered"]
    BY <1>3 DEF CodeWeight
  <2>2. /\ EVENT_WEIGHTS["otp_failed_attempt"] \in Nat
        /\ EVENT_WEIGHTS["login_rate_limit_triggered"] \in Nat
    BY <1>1 DEF Events
  <2> QED BY <2>1, <2>2
<1>4. CASE what = "replay"
  BY <1>1, <1>4 DEF CodeWeight, Events
<1> QED BY <1>2, <1>3, <1>4

\* An event changes scores and blocks within their types.
LEMMA RiskEventType ==
    ASSUME DefencesTypeOK, NEW k \in Keys, NEW w \in Nat, recordRiskEvent(k, w)
    PROVE  scores' \in [Keys -> Score] /\ blocks' \in [Keys -> Nat]
<1>1. getScoreEntry(k).score + w \in Nat /\ now \in Nat
  BY ScoreEntryType, Numbers DEF Score, DefencesTypeOK
<1>2. now + BlockDuration \in Nat
  BY <1>1, Numbers
<1> DEFINE score == getScoreEntry(k).score + w
<1>3. [score |-> score, updatedAt |-> now] \in Score
  BY <1>1 DEF Score
<1>4. /\ scores' = scores \/ scores' = [scores EXCEPT ![k] = [score |-> score, updatedAt |-> now]]
      /\ blocks' = blocks \/ blocks' = [blocks EXCEPT ![k] = now + BlockDuration]
  BY DEF recordRiskEvent
<1>5. scores \in [Keys -> Score] /\ blocks \in [Keys -> Nat]
  BY DEF DefencesTypeOK
<1> HIDE DEF score
<1> QED BY <1>2, <1>3, <1>4, <1>5

\* A block that is over is forgotten.
LEMMA UnblockedType ==
    ASSUME DefencesTypeOK, NEW K
    PROVE  Unblocked(K) \in [Keys -> Nat]
BY DEF DefencesTypeOK, Unblocked

\* An answered request is no request, and one that advances is one.
LEMMA RequestType ==
    ASSUME DefencesTypeOK, NEW c \in Clients
    PROVE  /\ Answer(c) => req' \in [Clients -> Request]
           /\ \A p \in Phase : Advance(c, p) => req' \in [Clients -> Request]
<1>1. NoRequest \in Request
  BY KeysApart DEF NoRequest, Request, Phase
<1>2. req \in [Clients -> Request]
  BY DEF DefencesTypeOK
<1>3. ASSUME NEW p \in Phase, Advance(c, p)
      PROVE  req' \in [Clients -> Request]
  <2>1. req' = [req EXCEPT ![c] = [NoRequest EXCEPT !.phase = p, !.account = req[c].account]]
    BY <1>3 DEF Advance
  <2>2. [NoRequest EXCEPT !.phase = p, !.account = req[c].account] \in Request
    BY <1>1, <1>2 DEF Request
  <2> QED BY <1>2, <2>1, <2>2
<1> QED BY <1>1, <1>2, <1>3 DEF Answer

\* A sequence that is appended to keeps what it had.
LEMMA AppendFacts ==
    ASSUME NEW T, NEW s \in Seq(T), NEW e \in T
    PROVE  /\ Append(s, e) \in Seq(T) /\ Len(Append(s, e)) = Len(s) + 1
           /\ DOMAIN s = 1..Len(s) /\ DOMAIN Append(s, e) = 1..(Len(s) + 1)
           /\ \A i \in 1..Len(s) : Append(s, e)[i] = s[i]
           /\ Append(s, e)[Len(s) + 1] = e
OBVIOUS

\* What is noted is a record.
LEMMA NoteType ==
    ASSUME DefencesTypeOK, NEW c \in Clients, NEW locked \in Keys \cup {"none"},
           NEW what \in {"failed", "code", "lastCode", "replay", "right", "session"},
           Note(c, what, locked)
    PROVE  history' \in Seq(Record)
<1>1. [what |-> what, account |-> req[c].account, locked |-> locked, at |-> now] \in Record
  BY DEF DefencesTypeOK, Record, Request
<1>2. history \in Seq(Record)
  BY DEF DefencesTypeOK
<1> QED BY <1>1, <1>2, AppendFacts DEF Note

\* The key that is locked.
LEMMA LockedByType ==
    ASSUME NEW a \in Keys PROVE LockedBy(a) \in {Anyone, a, "none"}
BY DEF LockedBy

\* The failure of a login keeps the types.
LEMMA FailType ==
    ASSUME DefencesTypeOK, NEW c \in Clients, FailLogin(c)
    PROVE  DefencesTypeOK'
<1> DEFINE a == req[c].account
           event == IF LockedBy(a) = "none" THEN "failed_login_attempt"
                                            ELSE "login_rate_limit_triggered"
<1>1. a \in Keys /\ LockedBy(a) \in Keys \cup {"none"}
  BY LockedByType, KeysApart DEF DefencesTypeOK, Request
<1>2. attempts' \in [Keys -> State]
  <2>1. \A k \in Keys : AfterFailure(attempts[k], a \in Admins) \in State
    <3>1. (a \in Admins) \in BOOLEAN
      OBVIOUS
    <3> HIDE DEF a
    <3> QED BY <3>1, AfterFailureType DEF DefencesTypeOK
  <2>2. attempts' = [k \in Keys |-> IF k \in Charged(a)
                        THEN AfterFailure(attempts[k], a \in Admins) ELSE attempts[k]]
    BY DEF FailLogin, recordFailedLogin
  <2> HIDE DEF a
  <2> QED BY <2>1, <2>2 DEF DefencesTypeOK
<1>3. EVENT_WEIGHTS[event] \in Nat
  BY SettingsAssumption DEF Events
<1>4. scores' \in [Keys -> Score] /\ blocks' \in [Keys -> Nat]
  <2>1. recordRiskEvent(Anyone, EVENT_WEIGHTS[event])
    BY DEF FailLogin, recordFailedLogin
  <2> HIDE DEF event
  <2> QED BY <1>3, <2>1, KeysApart, RiskEventType
<1>5. req' \in [Clients -> Request]
  BY RequestType DEF FailLogin, recordFailedLogin
<1>6. history' \in Seq(Record)
  BY <1>1, NoteType DEF FailLogin, recordFailedLogin
<1> QED BY <1>2, <1>4, <1>5, <1>6 DEF FailLogin, DefencesTypeOK

\* The right password keeps the types.
LEMMA RightPasswordType ==
    ASSUME DefencesTypeOK, NEW c \in Clients, RightPassword(c)
    PROVE  DefencesTypeOK'
<1> DEFINE a == req[c].account
<1>1. blocks' \in [Keys -> Nat]
  BY UnblockedType DEF RightPassword
<1>2. CASE RiskBlocked(a)
  <2>1. Answer(c) /\ UNCHANGED <<attempts, scores, history, now, arrivals>>
    BY <1>2 DEF RightPassword
  <2> QED BY <1>1, <2>1, RequestType DEF DefencesTypeOK
<1>3. CASE ~RiskBlocked(a)
  <2>1. /\ attempts' = [attempts EXCEPT ![Anyone] = NoState, ![a] = NoState]
        /\ scores' = [scores EXCEPT ![Anyone] = getScoreEntry(Anyone),
                                    ![a] = getScoreEntry(a)]
        /\ Advance(c, "code") \/ Advance(c, "session")
        /\ Note(c, "right", "none")
        /\ UNCHANGED <<now, arrivals>>
    BY <1>3 DEF RightPassword
  <2>2. attempts' \in [Keys -> State]
    BY <2>1, NoStateType DEF DefencesTypeOK
  <2>3. a \in Keys
    BY DEF DefencesTypeOK, Request
  <2>4. getScoreEntry(Anyone) \in Score /\ getScoreEntry(a) \in Score
    BY <2>3, KeysApart, ScoreEntryType
  <2>5. scores' \in [Keys -> Score]
    BY <2>1, <2>4 DEF DefencesTypeOK
  <2>6. req' \in [Clients -> Request]
    BY <2>1, RequestType DEF Phase
  <2>7. history' \in Seq(Record)
    BY <2>1, NoteType
  <2> QED BY <1>1, <2>1, <2>2, <2>5, <2>6, <2>7 DEF DefencesTypeOK
<1> QED BY <1>2, <1>3

\* The guard keeps the types.
LEMMA SendType ==
    ASSUME DefencesTypeOK, NEW c \in Clients, SendLogin(c)
    PROVE  DefencesTypeOK'
<1>1. PICK a \in Accounts, asStored \in BOOLEAN : loginAbuseGuard(c, a, asStored)
  BY DEF SendLogin
<1>2. blocks' \in [Keys -> Nat]
  BY <1>1, UnblockedType DEF loginAbuseGuard
<1>3. \A k \in Keys : [attempts[k] EXCEPT !.blockedUntil = 0] \in State /\ attempts[k] \in State
  BY DEF DefencesTypeOK, State
<1>4. attempts' \in [Keys -> State]
  BY <1>1, <1>3 DEF loginAbuseGuard, Forgotten
<1>5. [phase |-> "password", account |-> a, since |-> Len(history),
       pastLock |-> ~asStored /\ Locked(a)] \in Request
  BY DEF Request, Phase, Keys, DefencesTypeOK, Locked
<1>6. req' \in [Clients -> Request]
  BY <1>1, <1>5 DEF loginAbuseGuard, LetPass, DefencesTypeOK
<1>7. arrivals' \in Nat
  BY DEF SendLogin, Arrives, DefencesTypeOK
<1> QED BY <1>2, <1>4, <1>6, <1>7 DEF SendLogin, DefencesTypeOK

\* The other steps keep the types.
LEMMA OtherType ==
    ASSUME DefencesTypeOK, NEW c \in Clients,
           WrongCode(c) \/ RightCode(c) \/ OpenSession(c) \/ Forsake(c)
    PROVE  DefencesTypeOK'
<1>1. CASE WrongCode(c)
  <2>1. PICK what \in {"code", "lastCode", "replay"} :
           /\ recordRiskEvent(IF what = "replay" THEN Anyone ELSE req[c].account,
                              CodeWeight(what))
           /\ Note(c, what, "none")
    BY <1>1 DEF WrongCode
  <2>2. (IF what = "replay" THEN Anyone ELSE req[c].account) \in Keys
    BY KeysApart DEF DefencesTypeOK, Request
  <2>3. scores' \in [Keys -> Score] /\ blocks' \in [Keys -> Nat]
    BY <2>1, <2>2, CodeWeightType, RiskEventType
  <2>4. history' \in Seq(Record)
    BY <2>1, NoteType
  <2>5. arrivals' \in Nat
    <3>1. Arrives
      BY <1>1 DEF WrongCode
    <3>2. arrivals' = arrivals + 1 /\ arrivals \in Nat
      BY <3>1 DEF Arrives, DefencesTypeOK
    <3> QED BY <3>2
  <2> QED BY <1>1, <2>3, <2>4, <2>5 DEF WrongCode, DefencesTypeOK
<1>2. CASE RightCode(c)
  BY <1>2, RequestType DEF RightCode, DefencesTypeOK, Phase
<1>3. CASE OpenSession(c)
  <2>1. NoScore \in Score
    BY DEF NoScore, Score
  <2>2. history' \in Seq(Record) /\ req' \in [Clients -> Request]
    BY <1>3, NoteType, RequestType DEF OpenSession
  <2> QED BY <1>3, <2>1, <2>2 DEF OpenSession, DefencesTypeOK
<1>4. CASE Forsake(c)
  BY <1>4, RequestType DEF Forsake, DefencesTypeOK
<1> QED BY <1>1, <1>2, <1>3, <1>4

\* A new process starts from empty maps.
LEMMA RestartType == ASSUME DefencesTypeOK, Restart PROVE DefencesTypeOK'
<1>1. NoRequest \in Request
  BY KeysApart DEF NoRequest, Request, Phase
<1> QED BY <1>1, NoStateType DEF Restart, DefencesTypeOK, NoScore, Score

\* Types at the start, and through every step.
LEMMA InitType == Init => DefencesTypeOK
<1>1. NoRequest \in Request
  BY KeysApart DEF NoRequest, Request, Phase
<1> QED BY <1>1, NoStateType, SettingsAssumption DEF Init, DefencesTypeOK, NoScore, Score

LEMMA StepType == DefencesTypeOK /\ [Next]_vars => DefencesTypeOK'
<1> SUFFICES ASSUME DefencesTypeOK, [Next]_vars PROVE DefencesTypeOK'
  OBVIOUS
<1>1. CASE UNCHANGED vars
  BY <1>1 DEF vars, DefencesTypeOK
<1>2. CASE Tick
  BY <1>2 DEF Tick, DefencesTypeOK
<1> QED BY <1>1, <1>2, SendType, FailType, RightPasswordType, OtherType, RestartType
        DEF Next, Quiescent

\* Whatever clients send and whenever the process restarts, its maps, its clock and
\* the requests in flight stay well-formed: no sum, decay or doubling leaves its range.
THEOREM DefencesTypeCorrect == Spec => []DefencesTypeOK
BY InitType, StepType, PTL DEF Spec

-----------------------------------------------------------------------------
(* What is recorded, and how the record grows.                              *)

\* Records tell of accounts, in the order of time.
HistoryInv ==
    /\ \A i \in DOMAIN history : history[i].account \in Accounts /\ history[i].at <= now
    /\ \A i, j \in DOMAIN history : i <= j => history[i].at <= history[j].at

\* Whoever is past the guard named an account, and was let in after "since" records.
RequestInv ==
    \A c \in Clients :
        /\ req[c].phase # "idle" => req[c].account \in Accounts
        /\ req[c].since <= Len(history)
        /\ req[c].phase # "password" => req[c].since = 0

BaseInv == DefencesTypeOK /\ HistoryInv /\ RequestInv

\* What is recorded stays.
Grows ==
    /\ Len(history) <= Len(history')
    /\ \A i \in 1..Len(history) : history'[i] = history[i]

\* The records are numbered from 1.
LEMMA Numbered ==
    ASSUME DefencesTypeOK
    PROVE  /\ Len(history) \in Nat /\ DOMAIN history = 1..Len(history)
           /\ \A i \in 1..Len(history) : history[i] \in Record
BY DEF DefencesTypeOK

\* What a note adds.
LEMMA NoteAdds ==
    ASSUME DefencesTypeOK, NEW c \in Clients, NEW locked \in Keys \cup {"none"},
           NEW what \in {"failed", "code", "lastCode", "replay", "right", "session"},
           Note(c, what, locked)
    PROVE  /\ Grows /\ Len(history') = Len(history) + 1
           /\ history'[Len(history) + 1].what = what
           /\ history'[Len(history) + 1].account = req[c].account
           /\ history'[Len(history) + 1].locked = locked
           /\ history'[Len(history) + 1].at = now
<1> DEFINE r == [what |-> what, account |-> req[c].account, locked |-> locked, at |-> now]
<1>1. r \in Record
  BY DEF DefencesTypeOK, Record, Request
<1>2. history' = Append(history, r) /\ history \in Seq(Record)
  BY DEF Note, DefencesTypeOK
<1> HIDE DEF r
<1>3. /\ Grows /\ Len(history') = Len(history) + 1
      /\ history'[Len(history) + 1] = r
  BY <1>1, <1>2, AppendFacts DEF Grows
<1> QED BY <1>3 DEF r

\* A step that leaves the record alone lets it grow by nothing.
LEMMA StandsStill == ASSUME DefencesTypeOK, history' = history PROVE Grows
BY DEF Grows, DefencesTypeOK

\* A step records at most one thing, and only a restart forgets.
LEMMA StepRecords ==
    ASSUME DefencesTypeOK, [Next]_vars
    PROVE  \/ history' = history
           \/ Restart
           \/ /\ now' = now
              /\ \E c \in Clients, locked \in Keys \cup {"none"},
                    what \in {"failed", "code", "lastCode", "replay", "right", "session"} :
                    req[c].phase # "idle" /\ Note(c, what, locked)
<1>1. ASSUME NEW c \in Clients, FailLogin(c)
      PROVE  /\ LockedBy(req[c].account) \in Keys \cup {"none"} /\ now' = now
             /\ req[c].phase = "password" /\ Note(c, "failed", LockedBy(req[c].account))
  <2>1. req[c].account \in Keys
    BY DEF DefencesTypeOK, Request
  <2>2. LockedBy(req[c].account) \in Keys \cup {"none"}
    BY <2>1, LockedByType, KeysApart
  <2> QED BY <1>1, <2>2 DEF FailLogin, recordFailedLogin
<1>2. ASSUME NEW c \in Clients, RightPassword(c)
      PROVE  history' = history
             \/ (Note(c, "right", "none") /\ req[c].phase = "password" /\ now' = now)
  BY <1>2 DEF RightPassword
<1>3. ASSUME NEW c \in Clients, WrongCode(c)
      PROVE  /\ req[c].phase = "code" /\ now' = now
             /\ \E what \in {"code", "lastCode", "replay"} : Note(c, what, "none")
  BY <1>3 DEF WrongCode
<1>4. ASSUME NEW c \in Clients, OpenSession(c)
      PROVE  Note(c, "session", "none") /\ req[c].phase = "session" /\ now' = now
  BY <1>4 DEF OpenSession
<1>5. ASSUME NEW c \in Clients, SendLogin(c) \/ RightCode(c) \/ Forsake(c)
      PROVE  history' = history
  BY <1>5 DEF SendLogin, RightCode, Forsake
<1>6. UNCHANGED vars \/ Tick \/ Quiescent => history' = history
  BY DEF vars, Tick, Quiescent
<1> QED BY <1>1, <1>2, <1>3, <1>4, <1>5, <1>6 DEF Next

\* The clock never goes back.
LEMMA ClockAdvances ==
    ASSUME DefencesTypeOK, [Next]_vars
    PROVE  now \in Nat /\ now' \in Nat /\ now <= now'
<1>1. now \in Nat /\ now' \in Nat
  BY StepType, Numbers DEF DefencesTypeOK
<1>2. now' = now \/ now' > now
  BY DEF Next, SendLogin, FailLogin, RightPassword, WrongCode, RightCode, OpenSession,
         Forsake, Restart, Tick, Quiescent, vars
<1> QED BY <1>1, <1>2

\* A request is let in, moves on, is answered or stays as it is.
LetIn(c) ==
    /\ req'[c].phase = "password"
    /\ req'[c].account \in Accounts
    /\ req'[c].since = Len(history)
    /\ ~RiskBlocked(Anyone) /\ ~Locked(Anyone)
    /\ Locked(req'[c].account) => req'[c].pastLock
    /\ \A k \in Keys : attempts'[k] = attempts[k]
                        \/ attempts'[k] = [attempts[k] EXCEPT !.blockedUntil = 0]
    /\ UNCHANGED <<now, scores, history>>

MovesOn(c) ==
    /\ req[c].phase # "idle"
    /\ req'[c].account = req[c].account
    /\ req'[c].phase \in {"code", "session"}
    /\ req'[c].since = 0

LEMMA RequestMoves ==
    ASSUME DefencesTypeOK, [Next]_vars, NEW c \in Clients
    PROVE  \/ req'[c] = req[c] /\ (Restart => req[c].phase = "code")
           \/ req'[c] = NoRequest
           \/ MovesOn(c)
           \/ LetIn(c)
<1>1. req \in [Clients -> Request]
  BY DEF DefencesTypeOK
<1>2. CASE UNCHANGED req /\ ~Restart
  BY <1>2
<1>3. CASE Restart
  BY <1>3 DEF Restart
<1>4. ASSUME NEW d \in Clients, d # c, [req EXCEPT ![d] = req'[d]] = req'
      PROVE  req'[c] = req[c]
  BY <1>1, <1>4
<1>5. ASSUME NEW d \in Clients, NEW p \in {"code", "session"}, Advance(d, p)
      PROVE  /\ req'[d].account = req[d].account /\ req'[d].phase = p /\ req'[d].since = 0
             /\ d # c => req'[c] = req[c]
  BY <1>1, <1>5 DEF Advance, NoRequest
<1>6. ASSUME NEW d \in Clients, Answer(d)
      PROVE  req'[d] = NoRequest /\ (d # c => req'[c] = req[c])
  BY <1>1, <1>6 DEF Answer
<1>7. ASSUME NEW d \in Clients, SendLogin(d), ~Restart
      PROVE  req'[c] = req[c] \/ LetIn(c)
  <2>1. PICK a \in Accounts, asStored \in BOOLEAN : loginAbuseGuard(d, a, asStored)
    BY <1>7 DEF SendLogin
  <2>2. CASE req' = req
    BY <2>2
  <2>3. CASE /\ ~RiskBlocked(Anyone) /\ \A k \in LookedUp(a, asStored) : ~Locked(k)
             /\ LetPass(d, a, asStored)
    <3>1. CASE d = c
      <4>1. /\ req'[c].phase = "password" /\ req'[c].account = a
            /\ req'[c].since = Len(history) /\ req'[c].pastLock = (~asStored /\ Locked(a))
        BY <1>1, <2>3, <3>1 DEF LetPass
      <4>2. ~Locked(Anyone) /\ (asStored => ~Locked(a))
        BY <2>3 DEF LookedUp
      <4>3. \A k \in Keys : attempts'[k] = attempts[k]
                            \/ attempts'[k] = [attempts[k] EXCEPT !.blockedUntil = 0]
        BY <2>1 DEF loginAbuseGuard, Forgotten
      <4>4. UNCHANGED <<now, scores, history>>
        BY <1>7 DEF SendLogin
      <4> QED BY <2>3, <4>1, <4>2, <4>3, <4>4 DEF LetIn
    <3>2. CASE d # c
      BY <1>1, <2>3, <3>2 DEF LetPass
    <3> QED BY <3>1, <3>2
  <2> QED BY <2>1, <2>2, <2>3 DEF loginAbuseGuard
<1>8. ASSUME NEW d \in Clients, FailLogin(d) \/ OpenSession(d) \/ Forsake(d)
      PROVE  Answer(d)
  BY <1>8 DEF FailLogin, recordFailedLogin, OpenSession, Forsake
<1>9. ASSUME NEW d \in Clients, RightPassword(d) \/ RightCode(d)
      PROVE  /\ req[d].phase # "idle"
             /\ Answer(d) \/ \E p \in {"code", "session"} : Advance(d, p)
  BY <1>9 DEF RightPassword, RightCode
<1>10. UNCHANGED vars \/ Tick \/ Quiescent \/ (\E d \in Clients : WrongCode(d)) => UNCHANGED req
  BY DEF vars, Tick, Quiescent, WrongCode
<1>11. ASSUME NEW d \in Clients, RightPassword(d) \/ RightCode(d)
       PROVE  req'[c] = req[c] \/ req'[c] = NoRequest \/ MovesOn(c)
  <2>1. CASE Answer(d)
    BY <1>6, <2>1
  <2>2. ASSUME NEW p \in {"code", "session"}, Advance(d, p)
        PROVE  req'[c] = req[c] \/ MovesOn(c)
    BY <1>5, <1>9, <1>11, <2>2 DEF MovesOn
  <2> QED BY <1>9, <1>11, <2>1, <2>2
<1> QED BY <1>2, <1>3, <1>6, <1>7, <1>8, <1>10, <1>11 DEF Next

\* Requests past the guard name accounts.
LEMMA RequestStep ==
    ASSUME BaseInv, [Next]_vars
    PROVE  RequestInv'
<1>1. DefencesTypeOK /\ RequestInv /\ DefencesTypeOK'
  BY StepType DEF BaseInv
<1>2. Len(history) \in Nat /\ Len(history') \in Nat
  BY <1>1 DEF DefencesTypeOK
<1>3. Restart \/ Len(history) <= Len(history')
  <2>1. Restart \/ Grows
    BY <1>1, StepRecords, StandsStill, NoteAdds
  <2> QED BY <2>1 DEF Grows
<1>4. ASSUME NEW c \in Clients
      PROVE  /\ req'[c].phase # "idle" => req'[c].account \in Accounts
             /\ req'[c].since <= Len(history')
             /\ req'[c].phase # "password" => req'[c].since = 0
  <2>1. /\ req[c].phase # "idle" => req[c].account \in Accounts
        /\ req[c].since <= Len(history)
        /\ req[c].phase # "password" => req[c].since = 0
        /\ req[c].since \in Nat
    BY <1>1 DEF RequestInv, DefencesTypeOK, Request
  <2>2. CASE req'[c] = req[c] /\ (Restart => req[c].phase = "code")
    BY <1>2, <1>3, <2>1, <2>2
  <2>3. CASE req'[c] = NoRequest
    BY <1>2, <2>3 DEF NoRequest
  <2>4. CASE MovesOn(c)
    BY <1>2, <2>1, <2>4 DEF MovesOn
  <2>5. CASE LetIn(c)
    BY <1>2, <2>5 DEF LetIn
  <2> QED BY <1>1, <2>2, <2>3, <2>4, <2>5, RequestMoves
<1> QED BY <1>4 DEF RequestInv

\* Records tell of accounts, in the order of time.
LEMMA HistoryStep ==
    ASSUME BaseInv, [Next]_vars
    PROVE  HistoryInv'
<1>1. DefencesTypeOK /\ RequestInv /\ HistoryInv /\ DefencesTypeOK'
  BY StepType DEF BaseInv
<1>2. now \in Nat /\ now' \in Nat /\ now <= now'
  BY <1>1, ClockAdvances
<1>3. DOMAIN history = 1..Len(history) /\ Len(history) \in Nat
      /\ \A i \in 1..Len(history) : history[i].at \in Nat
  BY <1>1, Numbered, Numbers DEF Record
<1>4. CASE history' = history
  BY <1>1, <1>2, <1>3, <1>4 DEF HistoryInv
<1>5. CASE Restart
  BY <1>5 DEF Restart, HistoryInv
<1>6. ASSUME now' = now, NEW c \in Clients, NEW locked \in Keys \cup {"none"},
             NEW what \in {"failed", "code", "lastCode", "replay", "right", "session"},
             req[c].phase # "idle", Note(c, what, locked)
      PROVE  HistoryInv'
  <2>1. /\ Grows /\ Len(history') = Len(history) + 1
        /\ history'[Len(history) + 1].account = req[c].account
        /\ history'[Len(history) + 1].at = now
    BY <1>1, <1>6, NoteAdds
  <2>2. req[c].account \in Accounts
    BY <1>1, <1>6 DEF RequestInv
  <2>3. DOMAIN history' = 1..(Len(history) + 1)
    BY <1>1, <2>1 DEF DefencesTypeOK
  <2>4. \A i \in 1..Len(history) : history'[i] = history[i]
    BY <2>1 DEF Grows
  <2>5. ASSUME NEW i \in DOMAIN history'
        PROVE  history'[i].account \in Accounts /\ history'[i].at <= now'
    BY <1>1, <1>2, <1>3, <1>6, <2>1, <2>2, <2>3, <2>4, <2>5 DEF HistoryInv
  <2>6. ASSUME NEW i \in DOMAIN history', NEW j \in DOMAIN history', i <= j
        PROVE  history'[i].at <= history'[j].at
    <3>1. CASE j = Len(history) + 1
      BY <1>6, <2>1, <2>5, <3>1
    <3>2. CASE j # Len(history) + 1
      <4>1. i \in 1..Len(history) /\ j \in 1..Len(history)
        BY <1>3, <2>3, <2>6, <3>2
      <4> QED BY <1>1, <1>3, <2>4, <2>6, <4>1 DEF HistoryInv
    <3> QED BY <3>1, <3>2
  <2> QED BY <2>5, <2>6 DEF HistoryInv
<1> QED BY <1>1, <1>4, <1>5, <1>6, StepRecords

LEMMA InitBase == Init => BaseInv
BY InitType DEF Init, BaseInv, HistoryInv, RequestInv, NoRequest

LEMMA BaseStep == BaseInv /\ [Next]_vars => BaseInv'
BY StepType, RequestStep, HistoryStep DEF BaseInv

-----------------------------------------------------------------------------
(* Failures and the locks they earn.                                        *)

\* What was said of a record is still said when more is recorded.
LEMMA GrowthKeeps ==
    ASSUME DefencesTypeOK, Grows, NEW k, NEW i \in 1..Len(history)
    PROVE  /\ history'[i] = history[i]
           /\ Failed(i)' <=> Failed(i)
           /\ CountsFor(i, k)' <=> CountsFor(i, k)
           /\ StartsAnew(i, k)' <=> StartsAnew(i, k)
           /\ Cleared(i, k)' <=> Cleared(i, k)
           /\ WeightFor(i, k)' = WeightFor(i, k)
<1>1. history'[i] = history[i]
  BY DEF Grows
<1>2. /\ Failed(i)' <=> Failed(i)
      /\ CountsFor(i, k)' <=> CountsFor(i, k)
      /\ StartsAnew(i, k)' <=> StartsAnew(i, k)
      /\ Cleared(i, k)' <=> Cleared(i, k)
  BY <1>1 DEF Failed, CountsFor, StartsAnew, Cleared
<1>3. WeightFor(i, k)' = WeightFor(i, k)
  BY <1>1 DEF WeightFor, Failed
<1> QED BY <1>1, <1>2, <1>3

\* A step that neither counts a failure nor forgets one.
Quiet ==
    /\ Grows
    /\ \A i \in (Len(history) + 1)..Len(history') : history'[i].what \notin {"failed", "right"}
    /\ \A k \in Keys :
          \/ attempts'[k] = attempts[k]
          \/ attempts'[k] = [attempts[k] EXCEPT !.blockedUntil = 0] /\ ~Locked(k)

\* The right password of an account that is not blocked.
Succeeds(c) ==
    LET a == req[c].account
    IN  /\ req[c].phase = "password"
        /\ attempts' = [attempts EXCEPT ![Anyone] = NoState, ![a] = NoState]
        /\ Note(c, "right", "none")
        /\ now' = now

\* The steps, seen from the counters.
LEMMA AttemptsStep ==
    ASSUME DefencesTypeOK, [Next]_vars
    PROVE  \/ Restart
           \/ Quiet
           \/ \E c \in Clients : FailLogin(c)
           \/ \E c \in Clients : RightPassword(c) /\ Succeeds(c)
<1>1. Len(history) \in Nat
  BY DEF DefencesTypeOK
<1>2. ASSUME UNCHANGED <<attempts, history>> PROVE Quiet
  BY <1>1, <1>2 DEF Quiet, Grows
<1>3. ASSUME NEW c \in Clients, SendLogin(c)
      PROVE  Quiet
  <2>1. PICK a \in Accounts, asStored \in BOOLEAN : loginAbuseGuard(c, a, asStored)
    BY <1>3 DEF SendLogin
  <2>2. history' = history
    BY <1>3 DEF SendLogin
  <2>3. \A k \in Keys :
          \/ attempts'[k] = attempts[k]
          \/ attempts'[k] = [attempts[k] EXCEPT !.blockedUntil = 0] /\ ~Locked(k)
    BY <2>1 DEF loginAbuseGuard, Forgotten
  <2>4. Grows /\ Len(history') = Len(history)
    BY <2>2, StandsStill
  <2> QED BY <1>1, <2>3, <2>4 DEF Quiet
<1>4. ASSUME NEW c \in Clients, NEW what \in {"code", "lastCode", "replay", "session"},
             Note(c, what, "none"), UNCHANGED attempts
      PROVE  Quiet
  <2>1. /\ Grows /\ Len(history') = Len(history) + 1
        /\ history'[Len(history) + 1].what = what
    BY <1>4, NoteAdds
  <2>2. \A i \in (Len(history) + 1)..Len(history') : i = Len(history) + 1
    BY <1>1, <2>1
  <2> QED BY <1>4, <2>1, <2>2 DEF Quiet
<1>5. ASSUME NEW c \in Clients, RightPassword(c)
      PROVE  Quiet \/ (RightPassword(c) /\ Succeeds(c))
  BY <1>2, <1>5 DEF RightPassword, Succeeds
<1>6. ASSUME NEW c \in Clients, WrongCode(c)
      PROVE  Quiet
  BY <1>4, <1>6 DEF WrongCode
<1>7. ASSUME NEW c \in Clients, OpenSession(c)
      PROVE  Quiet
  BY <1>4, <1>7 DEF OpenSession
<1>8. ASSUME NEW c \in Clients, RightCode(c) \/ Forsake(c)
      PROVE  Quiet
  BY <1>2, <1>8 DEF RightCode, Forsake
<1>9. UNCHANGED vars \/ Tick \/ Quiescent => Quiet
  BY <1>2 DEF vars, Tick, Quiescent
<1> QED BY <1>3, <1>5, <1>6, <1>7, <1>8, <1>9 DEF Next

\* The failures of k no lock and no success has followed.
Standing(k) ==
    {j \in 1..Len(history) : CountsFor(j, k) /\ \A m \in j..Len(history) : ~StartsAnew(m, k)}

\* A counter holds such failures only, and all that are within the window.
CountOK(k) ==
    /\ attempts[k].failedAt \subseteq {<<j, history[j].at>> : j \in Standing(k)}
    /\ \A j \in Standing(k) :
          history[j].at >= now - Window => <<j, history[j].at>> \in attempts[k].failedAt

CountInv == \A k \in Keys : CountOK(k)

\* Records that say nothing of a key leave its failures standing.
LEMMA StandingStays ==
    ASSUME BaseInv, [Next]_vars, Grows, NEW k \in Keys,
           \A i \in (Len(history) + 1)..Len(history') : ~CountsFor(i, k)' /\ ~StartsAnew(i, k)'
    PROVE  Standing(k)' = Standing(k)
<1>1. Len(history) \in Nat /\ Len(history') \in Nat /\ Len(history) <= Len(history')
  BY BaseStep DEF BaseInv, DefencesTypeOK, Grows
<1>2. \A i \in 1..Len(history) :
        (CountsFor(i, k)' <=> CountsFor(i, k)) /\ (StartsAnew(i, k)' <=> StartsAnew(i, k))
  BY GrowthKeeps DEF BaseInv
<1>3. \A i \in 1..Len(history') : i \in 1..Len(history) \/ i \in (Len(history) + 1)..Len(history')
  BY <1>1
<1>4. ASSUME NEW j \in Standing(k)
      PROVE  j \in Standing(k)'
  <2>1. j \in 1..Len(history) /\ CountsFor(j, k) /\ \A m \in j..Len(history) : ~StartsAnew(m, k)
    BY DEF Standing
  <2>2. \A m \in j..Len(history') : ~StartsAnew(m, k)'
    BY <1>1, <1>2, <2>1
  <2>3. j \in 1..Len(history') /\ CountsFor(j, k)'
    BY <1>1, <1>2, <2>1
  <2> QED BY <2>2, <2>3 DEF Standing
<1>5. ASSUME NEW j \in Standing(k)'
      PROVE  j \in Standing(k)
  <2>1. j \in 1..Len(history') /\ CountsFor(j, k)' /\ \A m \in j..Len(history') : ~StartsAnew(m, k)'
    BY DEF Standing
  <2>2. j \in 1..Len(history) /\ CountsFor(j, k)
    BY <1>2, <1>3, <2>1
  <2>3. \A m \in j..Len(history) : ~StartsAnew(m, k)
    BY <1>1, <1>2, <2>1, <2>2
  <2> QED BY <2>2, <2>3 DEF Standing
<1> QED BY <1>4, <1>5

\* So does a counter that is not touched.
LEMMA CountStays ==
    ASSUME BaseInv, [Next]_vars, Grows, NEW k \in Keys, CountOK(k),
           attempts'[k].failedAt = attempts[k].failedAt,
           \A i \in (Len(history) + 1)..Len(history') : ~CountsFor(i, k)' /\ ~StartsAnew(i, k)'
    PROVE  CountOK(k)'
<1>1. Standing(k)' = Standing(k)
  BY StandingStays
<1>2. \A j \in Standing(k) : history'[j] = history[j] /\ history[j].at \in Nat
  BY Numbered, Numbers DEF Standing, Grows, BaseInv, Record
<1>3. now \in Nat /\ now' \in Nat /\ now <= now'
  BY ClockAdvances DEF BaseInv
<1>4. \A j \in Standing(k) : history[j].at >= now' - Window => history[j].at >= now - Window
  BY <1>2, <1>3, Numbers
<1> QED BY <1>1, <1>2, <1>4 DEF CountOK

\* What the failure of a login records.
LEMMA FailRecords ==
    ASSUME BaseInv, NEW c \in Clients, FailLogin(c),
           NEW a, a = req[c].account, NEW i, i = Len(history) + 1
    PROVE  /\ a \in Accounts /\ a \in Keys /\ a # Anyone /\ now' = now /\ i \in Nat
           /\ Grows /\ Len(history') = i
           /\ history'[i].what = "failed" /\ history'[i].account = a
           /\ history'[i].locked = LockedBy(a) /\ history'[i].at = now
           /\ attempts' = [k \in Keys |-> IF k \in Charged(a)
                              THEN AfterFailure(attempts[k], a \in Admins) ELSE attempts[k]]
<1>1. a \in Accounts
  BY DEF BaseInv, RequestInv, FailLogin
<1>2. a \in Keys /\ a # Anyone
  BY <1>1, KeysApart DEF Keys
<1>3. LockedBy(a) \in Keys \cup {"none"} /\ Note(c, "failed", LockedBy(a))
  BY <1>2, LockedByType, KeysApart DEF FailLogin, recordFailedLogin
<1>4. /\ Grows /\ Len(history') = i
      /\ history'[i].what = "failed" /\ history'[i].account = a
      /\ history'[i].locked = LockedBy(a) /\ history'[i].at = now
  BY <1>3, NoteAdds DEF BaseInv
<1>5. /\ attempts' = [k \in Keys |-> IF k \in Charged(a)
                         THEN AfterFailure(attempts[k], a \in Admins) ELSE attempts[k]]
      /\ now' = now
  BY DEF FailLogin, recordFailedLogin
<1>6. i \in Nat
  BY DEF BaseInv, DefencesTypeOK
<1> QED BY <1>1, <1>2, <1>4, <1>5, <1>6

\* It counts for the keys it is charged to, and starts them anew when it locks them.
LEMMA FailCounts ==
    ASSUME BaseInv, NEW c \in Clients, FailLogin(c), NEW k \in Keys,
           NEW a, a = req[c].account, NEW i, i = Len(history) + 1
    PROVE  /\ CountsFor(i, k)' <=> k \in Charged(a)
           /\ StartsAnew(i, k)' <=> k \in Charged(a) /\ Reaches(attempts[k], a \in Admins)
           /\ history'[i].locked = k <=> k \in Charged(a) /\ Reaches(attempts[k], a \in Admins)
<1>1. /\ a # Anyone /\ Len(history') = i
      /\ history'[i].what = "failed" /\ history'[i].account = a
      /\ history'[i].locked = LockedBy(a)
  BY FailRecords
<1>2. Anyone # "none" /\ k # "none"
  BY KeysApart
<1>3. LockedBy(a) = k <=> k \in Charged(a) /\ Reaches(attempts[k], a \in Admins)
  BY <1>1, <1>2 DEF LockedBy, Charged
<1>4. k \in Charged(a) <=> k = Anyone \/ (k = a /\ LockedBy(a) # Anyone)
  BY <1>1, <1>2 DEF LockedBy, Charged
<1>5. CountsFor(i, k)' <=> k = Anyone \/ (k = a /\ LockedBy(a) # Anyone)
  BY <1>1 DEF CountsFor, Failed
<1>6. StartsAnew(i, k)' <=> LockedBy(a) = k
  BY <1>1 DEF StartsAnew, Failed
<1> QED BY <1>1, <1>3, <1>4, <1>5, <1>6

\* The failures a counter is compared by are the evidence.
LEMMA CountedIsEvidence ==
    ASSUME BaseInv, [Next]_vars, NEW c \in Clients, FailLogin(c), NEW k \in Keys, CountOK(k),
           NEW a, a = req[c].account, NEW i, i = Len(history) + 1, k \in Charged(a)
    PROVE  /\ Counted(attempts[k]).failedAt = {<<j, history'[j].at>> : j \in Evidence(i, k)'}
           /\ IsFiniteSet(Evidence(i, k)')
           /\ Cardinality(Counted(attempts[k]).failedAt) = Cardinality(Evidence(i, k)')
<1>1. /\ Grows /\ Len(history') = i /\ history'[i].at = now /\ now' = now /\ i \in Nat
  BY FailRecords
<1>2. /\ attempts[k] \in State /\ now \in Nat /\ Len(history) \in Nat
  BY Numbers DEF BaseInv, DefencesTypeOK
<1>3. \A j \in 1..Len(history) : /\ history'[j] = history[j] /\ history[j].at \in Nat
                                 /\ CountsFor(j, k)' <=> CountsFor(j, k)
                                 /\ StartsAnew(j, k)' <=> StartsAnew(j, k)
  BY <1>1, GrowthKeeps, Numbered, Numbers DEF BaseInv, Record
<1>4. CountsFor(i, k)'
  BY FailCounts
<1>5. ASSUME NEW j
      PROVE  j \in Evidence(i, k)' <=>
                j = i \/ (j \in Standing(k) /\ history[j].at >= now - Window)
  <2>1. j \in Evidence(i, k)' <=>
           /\ j \in 1..i /\ CountsFor(j, k)'
           /\ history'[j].at >= history'[i].at - Window
           /\ \A m \in j..(i - 1) : ~StartsAnew(m, k)'
    BY DEF Evidence
  <2>2. CASE j = i
    BY <1>1, <1>2, <1>4, <2>1, <2>2, Numbers
  <2>3. CASE j # i
    <3>1. j \in 1..i <=> j \in 1..Len(history)
      BY <1>2, <2>3
    <3>2. CASE j \in 1..Len(history)
      <4>1. (\A m \in j..(i - 1) : ~StartsAnew(m, k)') <=>
            (\A m \in j..Len(history) : ~StartsAnew(m, k))
        BY <1>2, <1>3, <3>2
      <4> QED BY <1>1, <1>3, <2>1, <2>3, <3>1, <3>2, <4>1 DEF Standing
    <3> QED BY <2>1, <2>3, <3>1, <3>2 DEF Standing
  <2> QED BY <2>2, <2>3
<1>6. Counted(attempts[k]).failedAt =
        {f \in attempts[k].failedAt : f[2] >= now - Window} \cup {<<i, now>>}
  BY <1>2 DEF Counted, pruneWindow, State
<1>7. ASSUME NEW f
      PROVE  f \in Counted(attempts[k]).failedAt <=>
                \E j \in Evidence(i, k)' : f = <<j, history'[j].at>>
  <2>1. CASE f = <<i, now>>
    BY <1>1, <1>5, <1>6, <2>1
  <2>2. CASE f # <<i, now>>
    <3>1. f \in Counted(attempts[k]).failedAt <=>
             f \in attempts[k].failedAt /\ f[2] >= now - Window
      BY <1>6, <2>2
    <3>2. ASSUME f \in attempts[k].failedAt, f[2] >= now - Window
          PROVE  \E j \in Evidence(i, k)' : f = <<j, history'[j].at>>
      <4>1. PICK j \in Standing(k) : f = <<j, history[j].at>>
        BY <3>2 DEF CountOK
      <4>2. history'[j] = history[j] /\ j \in Evidence(i, k)'
        BY <1>3, <1>5, <3>2, <4>1 DEF Standing
      <4> QED BY <4>1, <4>2
    <3>3. ASSUME NEW j \in Evidence(i, k)', f = <<j, history'[j].at>>
          PROVE  f \in attempts[k].failedAt /\ f[2] >= now - Window
      <4>1. j # i
        BY <1>1, <2>2, <3>3
      <4>2. j \in Standing(k) /\ history[j].at >= now - Window
        BY <1>5, <4>1
      <4>3. history'[j] = history[j]
        BY <1>3, <4>2 DEF Standing
      <4> QED BY <3>3, <4>2, <4>3 DEF CountOK
    <3> QED BY <3>1, <3>2, <3>3
  <2> QED BY <2>1, <2>2
<1>8. Counted(attempts[k]).failedAt = {<<j, history'[j].at>> : j \in Evidence(i, k)'}
  BY <1>7
<1>9. IsFiniteSet(Evidence(i, k)')
  <2>1. Evidence(i, k)' \subseteq 1..i
    BY DEF Evidence
  <2>2. IsFiniteSet(1..i)
    BY <1>1, FS_Interval
  <2> QED BY <2>1, <2>2, FS_Subset
<1>10. Cardinality(Counted(attempts[k]).failedAt) = Cardinality(Evidence(i, k)')
  <2> DEFINE g == [j \in Evidence(i, k)' |-> history'[j].at]
  <2>1. {<<j, g[j]>> : j \in Evidence(i, k)'} = {<<j, history'[j].at>> : j \in Evidence(i, k)'}
    OBVIOUS
  <2> HIDE DEF g
  <2> QED BY <1>8, <1>9, <2>1, NumberedCount
<1> QED BY <1>8, <1>9, <1>10

\* A failure that locks a key leaves none standing; another leaves one more.
LEMMA FailKeepsCount ==
    ASSUME BaseInv, [Next]_vars, CountInv, NEW c \in Clients, FailLogin(c), NEW k \in Keys
    PROVE  CountOK(k)'
<1> SUFFICES ASSUME NEW a, a = req[c].account, NEW i, i = Len(history) + 1
             PROVE  CountOK(k)'
  OBVIOUS
<1>1. /\ Grows /\ Len(history') = i /\ history'[i].at = now /\ now' = now /\ i \in Nat
      /\ attempts' = [x \in Keys |-> IF x \in Charged(a)
                         THEN AfterFailure(attempts[x], a \in Admins) ELSE attempts[x]]
  BY FailRecords
<1>2. CountOK(k) /\ attempts[k] \in State /\ Len(history) \in Nat /\ now \in Nat
  BY Numbers DEF CountInv, BaseInv, DefencesTypeOK
<1>3. /\ CountsFor(i, k)' <=> k \in Charged(a)
      /\ StartsAnew(i, k)' <=> k \in Charged(a) /\ Reaches(attempts[k], a \in Admins)
  BY FailCounts
<1>4. CASE k \notin Charged(a)
  <2>1. attempts'[k].failedAt = attempts[k].failedAt
    BY <1>1, <1>4
  <2>2. \A j \in (Len(history) + 1)..Len(history') : j = i
    BY <1>1, <1>2
  <2> QED BY <1>1, <1>2, <1>3, <1>4, <2>1, <2>2, CountStays
<1>5. CASE k \in Charged(a) /\ Reaches(attempts[k], a \in Admins)
  <2>1. attempts'[k].failedAt = {}
    BY <1>1, <1>5 DEF AfterFailure
  <2>2. Standing(k)' = {}
    BY <1>1, <1>3, <1>5 DEF Standing
  <2> QED BY <2>1, <2>2 DEF CountOK
<1>6. CASE k \in Charged(a) /\ ~Reaches(attempts[k], a \in Admins)
  <2>1. attempts'[k].failedAt = {<<j, history'[j].at>> : j \in Evidence(i, k)'}
    BY <1>1, <1>2, <1>6, CountedIsEvidence DEF AfterFailure
  <2>2. ASSUME NEW j
        PROVE  j \in Evidence(i, k)' <=>
                  j \in Standing(k)' /\ history'[j].at >= now' - Window
    <3>1. j \in Evidence(i, k)' <=>
             /\ j \in 1..i /\ CountsFor(j, k)'
             /\ history'[j].at >= history'[i].at - Window
             /\ \A m \in j..(i - 1) : ~StartsAnew(m, k)'
      BY DEF Evidence
    <3>2. j \in Standing(k)' <=>
             j \in 1..i /\ CountsFor(j, k)' /\ \A m \in j..i : ~StartsAnew(m, k)'
      BY <1>1 DEF Standing
    <3>3. ASSUME j \in 1..i
          PROVE  (\A m \in j..i : ~StartsAnew(m, k)') <=>
                 (\A m \in j..(i - 1) : ~StartsAnew(m, k)')
      <4>1. \A m \in j..i : m = i \/ m \in j..(i - 1)
        BY <1>1, <3>3
      <4>2. \A m \in j..(i - 1) : m \in j..i
        BY <1>1, <3>3
      <4> QED BY <1>3, <1>6, <4>1, <4>2
    <3> QED BY <1>1, <3>1, <3>2, <3>3
  <2> QED BY <2>1, <2>2 DEF CountOK
<1> QED BY <1>4, <1>5, <1>6

LEMMA CountStep ==
    ASSUME BaseInv, CountInv, [Next]_vars
    PROVE  CountInv'
<1> SUFFICES ASSUME NEW k \in Keys PROVE CountOK(k)'
  BY DEF CountInv
<1>1. CountOK(k) /\ DefencesTypeOK /\ attempts[k] \in State /\ attempts \in [Keys -> State]
  BY DEF CountInv, BaseInv, DefencesTypeOK
<1>2. CASE Restart
  BY <1>2 DEF Restart, CountOK, Standing, NoState
<1>3. CASE Quiet
  <2>1. attempts'[k].failedAt = attempts[k].failedAt
    BY <1>1, <1>3 DEF Quiet, State
  <2>2. \A i \in (Len(history) + 1)..Len(history') : ~CountsFor(i, k)' /\ ~StartsAnew(i, k)'
    BY <1>3 DEF Quiet, CountsFor, StartsAnew, Failed
  <2> QED BY <1>1, <1>3, <2>1, <2>2, CountStays DEF Quiet
<1>4. ASSUME NEW c \in Clients, FailLogin(c)
      PROVE  CountOK(k)'
  BY <1>4, FailKeepsCount
<1>5. ASSUME NEW c \in Clients, Succeeds(c)
      PROVE  CountOK(k)'
  <2> DEFINE a == req[c].account
  <2>1. /\ Grows /\ Len(history') = Len(history) + 1 /\ Len(history) \in Nat
        /\ history'[Len(history')].what = "right" /\ history'[Len(history')].account = a
    BY <1>1, <1>5, NoteAdds DEF Succeeds, DefencesTypeOK
  <2>2. CASE k \in {Anyone, a}
    <3>1. attempts'[k] = NoState
      BY <1>1, <1>5, <2>2 DEF Succeeds
    <3>2. \A m \in {Len(history')} : StartsAnew(m, k)'
      BY <2>1, <2>2 DEF StartsAnew
    <3>3. Standing(k)' = {}
      BY <2>1, <3>2 DEF Standing
    <3> QED BY <3>1, <3>3 DEF CountOK, NoState
  <2>3. CASE k \notin {Anyone, a}
    <3>1. attempts'[k].failedAt = attempts[k].failedAt
      BY <1>1, <1>5, <2>3 DEF Succeeds
    <3>2. \A m \in (Len(history) + 1)..Len(history') : m = Len(history')
      BY <2>1
    <3>3. \A m \in (Len(history) + 1)..Len(history') : ~CountsFor(m, k)' /\ ~StartsAnew(m, k)'
      BY <2>1, <2>3, <3>2 DEF StartsAnew, CountsFor, Failed
    <3> QED BY <1>1, <2>1, <3>1, <3>3, CountStays
  <2> QED BY <2>2, <2>3
<1> QED BY <1>1, <1>2, <1>3, <1>4, <1>5, AttemptsStep

-----------------------------------------------------------------------------
(* Locks are earned.                                                        *)

\* Every failure locked a key when enough failures spoke for it, and only then.
ThresholdInv ==
    \A i \in 1..Len(history), k \in Keys : CountsFor(i, k) =>
        (history[i].locked = k <=>
            Cardinality(Evidence(i, k)) >= getThreshold(history[i].account \in Admins))

\* The evidence of a record does not change.
LEMMA EvidenceStays ==
    ASSUME DefencesTypeOK, Grows, NEW k, NEW i \in 1..Len(history)
    PROVE  Evidence(i, k)' = Evidence(i, k)
<1>1. Len(history) \in Nat
  BY DEF DefencesTypeOK
<1>2. \A j \in 1..i : j \in 1..Len(history)
  BY <1>1
<1>3. ASSUME NEW j \in 1..i
      PROVE  /\ CountsFor(j, k)' <=> CountsFor(j, k)
             /\ history'[j].at >= history'[i].at - Window
                   <=> history[j].at >= history[i].at - Window
             /\ \A m \in j..(i - 1) : StartsAnew(m, k)' <=> StartsAnew(m, k)
  <2>1. \A m \in j..(i - 1) : m \in 1..Len(history)
    BY <1>1
  <2> QED BY <1>2, <2>1, GrowthKeeps
<1> QED BY <1>3 DEF Evidence

LEMMA ThresholdStep ==
    ASSUME BaseInv, CountInv, ThresholdInv, [Next]_vars
    PROVE  ThresholdInv'
<1>1. DefencesTypeOK /\ Len(history) \in Nat
  BY DEF BaseInv, DefencesTypeOK
<1>2. CASE Restart
  BY <1>2 DEF Restart, ThresholdInv
<1>3. ASSUME Grows, NEW i \in 1..Len(history), NEW k \in Keys, CountsFor(i, k)'
      PROVE  history'[i].locked = k <=>
                Cardinality(Evidence(i, k)') >= getThreshold(history'[i].account \in Admins)
  BY <1>1, <1>3, GrowthKeeps, EvidenceStays DEF ThresholdInv
<1>4. ASSUME Grows, \A i \in (Len(history) + 1)..Len(history'), k \in Keys : ~CountsFor(i, k)'
      PROVE  ThresholdInv'
  <2>1. \A i \in 1..Len(history') : i \in 1..Len(history) \/ i \in (Len(history) + 1)..Len(history')
    BY <1>1
  <2> QED BY <1>3, <1>4, <2>1 DEF ThresholdInv
<1>5. CASE Quiet
  BY <1>4, <1>5 DEF Quiet, CountsFor, Failed
<1>6. ASSUME NEW c \in Clients, Succeeds(c)
      PROVE  ThresholdInv'
  <2>1. /\ Grows /\ Len(history') = Len(history) + 1
        /\ history'[Len(history')].what = "right"
    BY <1>1, <1>6, NoteAdds DEF Succeeds
  <2>2. \A i \in (Len(history) + 1)..Len(history') : i = Len(history')
    BY <1>1, <2>1
  <2> QED BY <1>4, <2>1, <2>2 DEF CountsFor, Failed
<1>7. ASSUME NEW c \in Clients, FailLogin(c), NEW a, a = req[c].account,
             NEW i, i = Len(history) + 1
      PROVE  ThresholdInv'
  <2>1. Grows /\ Len(history') = i /\ history'[i].account = a
    BY <1>7, FailRecords
  <2>2. ASSUME NEW k \in Keys, CountsFor(i, k)'
        PROVE  history'[i].locked = k <=>
                  Cardinality(Evidence(i, k)') >= getThreshold(history'[i].account \in Admins)
    <3>1. k \in Charged(a) /\ (history'[i].locked = k <=> Reaches(attempts[k], a \in Admins))
      BY <1>7, <2>2, FailCounts
    <3>2. Cardinality(Counted(attempts[k]).failedAt) = Cardinality(Evidence(i, k)')
      BY <1>7, <3>1, CountedIsEvidence DEF CountInv
    <3> QED BY <2>1, <3>1, <3>2 DEF Reaches
  <2>3. \A j \in 1..Len(history') : j \in 1..Len(history) \/ j = i
    BY <1>1, <1>7, <2>1
  <2> QED BY <1>3, <2>1, <2>2, <2>3 DEF ThresholdInv
<1> QED BY <1>1, <1>2, <1>5, <1>6, <1>7, AttemptsStep

\* Why a key is locked.
LockOK(k) ==
    attempts[k].blockedUntil # 0 =>
        \E i \in 1..Len(history) :
            /\ history[i].locked = k
            /\ attempts[k].blockedUntil <= history[i].at + LockMax
            /\ \A m \in (i + 1)..Len(history) : StartsAnew(m, k) => Failed(m)

LockInv == \A k \in Keys : LockOK(k)

\* The reason stays while the lock does.
LEMMA LockStays ==
    ASSUME BaseInv, Grows, NEW k \in Keys, LockOK(k), Len(history') \in Nat,
           attempts'[k].blockedUntil \in {attempts[k].blockedUntil, 0},
           \A i \in (Len(history) + 1)..Len(history') : StartsAnew(i, k)' => Failed(i)'
    PROVE  LockOK(k)'
<1> SUFFICES ASSUME attempts'[k].blockedUntil # 0 PROVE LockOK(k)'
  BY DEF LockOK
<1>1. attempts'[k].blockedUntil = attempts[k].blockedUntil
  OBVIOUS
<1>2. PICK i \in 1..Len(history) :
           /\ history[i].locked = k
           /\ attempts[k].blockedUntil <= history[i].at + LockMax
           /\ \A m \in (i + 1)..Len(history) : StartsAnew(m, k) => Failed(m)
  BY <1>1 DEF LockOK
<1>3. Len(history) \in Nat /\ Len(history) <= Len(history') /\ history'[i] = history[i]
  BY DEF BaseInv, DefencesTypeOK, Grows
<1>4. ASSUME NEW m \in (i + 1)..Len(history'), StartsAnew(m, k)'
      PROVE  Failed(m)'
  <2>1. CASE m \in 1..Len(history)
    <3>1. (StartsAnew(m, k)' <=> StartsAnew(m, k)) /\ (Failed(m)' <=> Failed(m))
      BY <2>1, GrowthKeeps DEF BaseInv
    <3>2. m \in (i + 1)..Len(history)
      BY <1>3, <2>1
    <3> QED BY <1>2, <1>4, <3>1, <3>2
  <2>2. CASE m \notin 1..Len(history)
    <3>1. m \in (Len(history) + 1)..Len(history')
      BY <1>3, <2>2
    <3> QED BY <1>4, <3>1
  <2> QED BY <2>1, <2>2
<1>5. i \in 1..Len(history')
  BY <1>3
<1> QED BY <1>1, <1>2, <1>3, <1>4, <1>5 DEF LockOK

\* How a step moves a lock: a failure that is one too many sets it, a success and
\* the guard lift it.
Strikes(c, k) ==
    /\ FailLogin(c)
    /\ k \in Charged(req[c].account)
    /\ Reaches(attempts[k], req[c].account \in Admins)

LEMMA FailMovesLock ==
    ASSUME BaseInv, NEW c \in Clients, FailLogin(c), NEW k \in Keys,
           NEW a, a = req[c].account
    PROVE  \/ attempts'[k].blockedUntil = attempts[k].blockedUntil
           \/ /\ Strikes(c, k)
              /\ attempts'[k].blockedUntil =
                    now + calculateLockSeconds(pruneWindow(attempts[k]).breachCount + 1,
                                               a \in Admins)
<1>1. /\ attempts[k] \in State
      /\ attempts' = [x \in Keys |-> IF x \in Charged(a)
                         THEN AfterFailure(attempts[x], a \in Admins) ELSE attempts[x]]
  BY FailRecords DEF BaseInv, DefencesTypeOK
<1>2. CASE k \notin Charged(a)
  BY <1>1, <1>2
<1>3. CASE k \in Charged(a) /\ ~Reaches(attempts[k], a \in Admins)
  <2>1. attempts'[k] = Counted(attempts[k])
    BY <1>1, <1>3 DEF AfterFailure
  <2> QED BY <1>1, <2>1 DEF Counted, pruneWindow, State
<1>4. CASE k \in Charged(a) /\ Reaches(attempts[k], a \in Admins)
  <2>1. attempts'[k].blockedUntil =
          now + calculateLockSeconds(pruneWindow(attempts[k]).breachCount + 1, a \in Admins)
    BY <1>1, <1>4 DEF AfterFailure
  <2> QED BY <1>4, <2>1 DEF Strikes
<1> QED BY <1>2, <1>3, <1>4

LEMMA LockMoves ==
    ASSUME BaseInv, [Next]_vars, NEW k \in Keys
    PROVE  \/ Restart
           \/ /\ Grows
              /\ attempts'[k].blockedUntil \in {attempts[k].blockedUntil, 0}
           \/ \E c \in Clients : Strikes(c, k)
<1>1. DefencesTypeOK /\ attempts \in [Keys -> State]
  BY DEF BaseInv, DefencesTypeOK
<1>2. CASE Quiet
  BY <1>1, <1>2 DEF Quiet, State
<1>3. ASSUME NEW c \in Clients, FailLogin(c)
      PROVE  \/ Grows /\ attempts'[k].blockedUntil = attempts[k].blockedUntil
             \/ Strikes(c, k)
  BY <1>3, FailMovesLock, FailRecords
<1>4. ASSUME NEW c \in Clients, Succeeds(c)
      PROVE  Grows /\ attempts'[k].blockedUntil \in {attempts[k].blockedUntil, 0}
  <2>1. Grows
    BY <1>1, <1>4, NoteAdds DEF Succeeds
  <2>2. attempts'[k] = attempts[k] \/ attempts'[k] = NoState
    BY <1>1, <1>4 DEF Succeeds
  <2> QED BY <2>1, <2>2 DEF NoState
<1> QED BY <1>1, <1>2, <1>3, <1>4, AttemptsStep

LEMMA LockStep ==
    ASSUME BaseInv, LockInv, [Next]_vars
    PROVE  LockInv'
<1> SUFFICES ASSUME NEW k \in Keys PROVE LockOK(k)'
  BY DEF LockInv
<1>1. /\ DefencesTypeOK /\ attempts \in [Keys -> State] /\ LockOK(k)
      /\ Len(history) \in Nat /\ Len(history') \in Nat /\ now \in Nat
  BY StepType, Numbers DEF BaseInv, DefencesTypeOK, LockInv
<1>2. CASE Restart
  BY <1>2 DEF Restart, NoState, LockOK
<1>3. CASE Quiet
  <2>1. attempts'[k].blockedUntil \in {attempts[k].blockedUntil, 0}
    BY <1>1, <1>3 DEF Quiet, State
  <2> QED BY <1>1, <1>3, <2>1, LockStays DEF Quiet, StartsAnew, Failed
<1>4. ASSUME NEW c \in Clients, FailLogin(c), NEW a, a = req[c].account,
             NEW i, i = Len(history) + 1
      PROVE  LockOK(k)'
  <2>1. /\ Grows /\ Len(history') = i /\ history'[i].at = now /\ i \in Nat
        /\ history'[i].what = "failed"
    BY <1>4, FailRecords
  <2>2. CASE attempts'[k].blockedUntil = attempts[k].blockedUntil
    <3>1. \A m \in (Len(history) + 1)..Len(history') : Failed(m)'
      BY <1>1, <1>4, <2>1 DEF Failed
    <3> QED BY <1>1, <2>1, <2>2, <3>1, LockStays
  <2>3. CASE /\ Strikes(c, k)
             /\ attempts'[k].blockedUntil =
                   now + calculateLockSeconds(pruneWindow(attempts[k]).breachCount + 1,
                                              a \in Admins)
    <3>1. history'[i].locked = k
      BY <1>4, <2>3, FailCounts DEF Strikes
    <3>2. pruneWindow(attempts[k]).breachCount + 1 \in Nat
      BY <1>1 DEF pruneWindow, State
    <3>3. attempts'[k].blockedUntil <= history'[i].at + LockMax
      <4> DEFINE b == pruneWindow(attempts[k]).breachCount + 1
      <4>1. (a \in Admins) \in BOOLEAN
        OBVIOUS
      <4>2. /\ calculateLockSeconds(b, a \in Admins) \in Nat
            /\ calculateLockSeconds(b, a \in Admins) <= LockMax
        BY <3>2, <4>1, LockSeconds
      <4> HIDE DEF b
      <4>3. attempts'[k].blockedUntil = now + calculateLockSeconds(b, a \in Admins)
        BY <2>3 DEF b
      <4> QED BY <1>1, <2>1, <4>2, <4>3, Numbers
    <3>4. i \in 1..Len(history') /\ \A m \in (i + 1)..Len(history') : FALSE
      BY <1>1, <1>4, <2>1
    <3> QED BY <3>1, <3>3, <3>4 DEF LockOK
  <2> QED BY <1>4, <2>2, <2>3, FailMovesLock
<1>5. ASSUME NEW c \in Clients, Succeeds(c)
      PROVE  LockOK(k)'
  <2> DEFINE a == req[c].account
  <2>1. /\ Grows /\ Len(history') = Len(history) + 1
        /\ history'[Len(history')].what = "right" /\ history'[Len(history')].account = a
    BY <1>1, <1>5, NoteAdds DEF Succeeds
  <2>2. CASE k \in {Anyone, a}
    BY <1>1, <1>5, <2>2 DEF Succeeds, LockOK, NoState
  <2>3. CASE k \notin {Anyone, a}
    <3>1. attempts'[k] = attempts[k]
      BY <1>1, <1>5, <2>3 DEF Succeeds
    <3>2. \A m \in (Len(history) + 1)..Len(history') : m = Len(history')
      BY <1>1, <2>1
    <3>3. \A m \in (Len(history) + 1)..Len(history') : ~StartsAnew(m, k)'
      BY <2>1, <2>3, <3>2 DEF StartsAnew, Failed
    <3> QED BY <1>1, <2>1, <3>1, <3>3, LockStays
  <2> QED BY <2>2, <2>3
<1> QED BY <1>1, <1>2, <1>3, <1>4, <1>5, AttemptsStep

\* What the counters rely on.
EarnedInv == BaseInv /\ CountInv /\ ThresholdInv /\ LockInv

LEMMA InitEarned == Init => EarnedInv
BY InitBase
DEF Init, EarnedInv, CountInv, CountOK, Standing, ThresholdInv, LockInv, LockOK, NoState

LEMMA EarnedStep == EarnedInv /\ [Next]_vars => EarnedInv'
BY BaseStep, CountStep, ThresholdStep, LockStep DEF EarnedInv

\* Whatever requests of voters and administrators overlap, a failure locks a key
\* when, and only when, enough failures speak for it that no lock and no success
\* had used up; and a standing lock has its reason.
THEOREM LocksEarned == Spec => []LocksAreEarned
<1>1. EarnedInv => LocksAreEarned
  <2> SUFFICES ASSUME EarnedInv PROVE LocksAreEarned
    OBVIOUS
  <2>1. DOMAIN history = 1..Len(history) /\ now \in Nat
    BY Numbered, Numbers DEF EarnedInv, BaseInv, DefencesTypeOK
  <2>2. \A k \in Keys : Locked(k) => attempts[k].blockedUntil # 0
    BY <2>1 DEF Locked
  <2> QED BY <2>1, <2>2 DEF EarnedInv, ThresholdInv, LockInv, LockOK, LocksAreEarned
<1> QED BY <1>1, InitEarned, EarnedStep, PTL DEF Spec

-----------------------------------------------------------------------------
(* Locks hold, and never shrink.                                            *)

\* How long the lock of a key may be: it ends at most LockMax after a failure
\* of the key, and twice the length of its count after it, or is long over.
LengthOK(k) ==
    LET s == attempts[k]
    IN  /\ s.lastFailureAt <= now
        /\ s.blockedUntil # 0 =>
              /\ s.lastFailureAt # 0
              /\ \E t \in 0..s.lastFailureAt :
                    /\ s.blockedUntil <= t + LockMax
                    /\ \/ t + LockMax < now
                       \/ /\ s.breachCount > 0
                          /\ s.blockedUntil <= t + Window * 2^(s.breachCount - 1) * 2

LengthInv == \A k \in Keys : LengthOK(k)

\* The least and the most a lock may be.
LEMMA LockRange ==
    ASSUME NEW b \in Nat \ {0}, NEW isAdmin \in BOOLEAN
    PROVE  /\ Window * 2^(b - 1) \in Nat
           /\ calculateLockSeconds(b, isAdmin) <= Window * 2^(b - 1) * 2
           /\ \/ calculateLockSeconds(b, isAdmin) = LockMax
              \/ calculateLockSeconds(b, isAdmin) >= Window * 2^(b - 1)
<1>1. b - 1 \in Nat /\ larger(b - 1, 0) = b - 1
  BY DEF larger
<1>2. 2^(b - 1) \in Nat
  BY <1>1, PowerType
<1>3. Window * 2^(b - 1) \in Nat
  BY <1>2, Numbers
<1>4. calculateLockSeconds(b, isAdmin) =
        smaller(Window * 2^(b - 1) * (IF isAdmin THEN 2 ELSE 1), LockMax)
  BY <1>1 DEF calculateLockSeconds
<1>5. \A p \in Nat : \A q \in {1, 2} : p * q \in Nat /\ p <= p * q /\ p * q <= p * 2
  OBVIOUS
<1>6. (IF isAdmin THEN 2 ELSE 1) \in {1, 2}
  OBVIOUS
<1>7. ASSUME NEW p \in Nat, NEW q \in {1, 2}
      PROVE  /\ smaller(p * q, LockMax) <= p * 2
             /\ smaller(p * q, LockMax) = LockMax \/ smaller(p * q, LockMax) >= p
  BY <1>5, Numbers DEF smaller
<1> QED BY <1>3, <1>4, <1>6, <1>7

\* The lock after one more is no shorter than twice the former, or the longest.
LEMMA NextLock ==
    ASSUME NEW b \in Nat \ {0}, NEW isAdmin \in BOOLEAN
    PROVE  \/ calculateLockSeconds(b + 1, isAdmin) = LockMax
           \/ calculateLockSeconds(b + 1, isAdmin) >= Window * 2^(b - 1) * 2
<1>1. \/ calculateLockSeconds(b + 1, isAdmin) = LockMax
      \/ calculateLockSeconds(b + 1, isAdmin) >= Window * 2^((b + 1) - 1)
  BY LockRange
<1>2. 2^((b + 1) - 1) = 2 * 2^(b - 1)
  <2>1. b - 1 \in Nat /\ (b - 1) + 1 = (b + 1) - 1
    OBVIOUS
  <2> QED BY <2>1, PowerDoubles
<1>3. 2^(b - 1) \in Nat
  BY PowerType
<1>4. \A p \in Nat : Window * (2 * p) = Window * p * 2
  BY Numbers
<1> QED BY <1>1, <1>2, <1>3, <1>4

\* A count is forgotten only when the lock it was raised for is long over.
LEMMA PruneKeeps ==
    ASSUME now \in Nat, NEW s \in State
    PROVE  /\ pruneWindow(s).breachCount \in Nat
           /\ \/ pruneWindow(s).breachCount = s.breachCount
              \/ s.lastFailureAt # 0 /\ now - s.lastFailureAt > LockMax
BY DEF pruneWindow, State

LEMMA FailKeepsLength ==
    ASSUME BaseInv, LengthInv, NEW c \in Clients, FailLogin(c), NEW k \in Keys
    PROVE  LengthOK(k)'
<1> SUFFICES ASSUME NEW a, a = req[c].account
             PROVE  LengthOK(k)'
  OBVIOUS
<1>1. /\ attempts' = [x \in Keys |-> IF x \in Charged(a)
                         THEN AfterFailure(attempts[x], a \in Admins) ELSE attempts[x]]
      /\ now' = now
  BY FailRecords
<1>2. /\ LengthOK(k) /\ attempts[k] \in State /\ now \in Nat /\ now # 0
      /\ (a \in Admins) \in BOOLEAN
  BY SettingsAssumption DEF LengthInv, BaseInv, DefencesTypeOK
<1>3. /\ attempts[k].lastFailureAt \in Nat /\ attempts[k].blockedUntil \in Nat
      /\ attempts[k].breachCount \in Nat
  BY <1>2 DEF State
<1> DEFINE p == pruneWindow(attempts[k]).breachCount
<1>4. /\ p \in Nat
      /\ \/ p = attempts[k].breachCount
         \/ attempts[k].lastFailureAt # 0 /\ now - attempts[k].lastFailureAt > LockMax
  BY <1>2, PruneKeeps
<1>5. CASE k \notin Charged(a)
  BY <1>1, <1>2, <1>5 DEF LengthOK
<1>6. CASE k \in Charged(a) /\ ~Reaches(attempts[k], a \in Admins)
  <2>1. attempts'[k] = Counted(attempts[k])
    BY <1>1, <1>6 DEF AfterFailure
  <2>2. /\ attempts'[k].lastFailureAt = now /\ attempts'[k].breachCount = p
        /\ attempts'[k].blockedUntil = attempts[k].blockedUntil
    BY <1>2, <2>1 DEF Counted, pruneWindow, State
  <2> HIDE DEF p
  <2>3. ASSUME attempts[k].blockedUntil # 0
        PROVE  \E t \in 0..now :
                  /\ attempts'[k].blockedUntil <= t + LockMax
                  /\ \/ t + LockMax < now
                     \/ p > 0 /\ attempts'[k].blockedUntil <= t + Window * 2^(p - 1) * 2
    <3>1. PICK t \in 0..attempts[k].lastFailureAt :
             /\ attempts[k].blockedUntil <= t + LockMax
             /\ \/ t + LockMax < now
                \/ /\ attempts[k].breachCount > 0
                   /\ attempts[k].blockedUntil <=
                         t + Window * 2^(attempts[k].breachCount - 1) * 2
      BY <1>2, <2>3 DEF LengthOK
    <3>2. t \in 0..now
      BY <1>2, <1>3 DEF LengthOK
    <3>3. CASE p = attempts[k].breachCount
      BY <2>2, <3>1, <3>2, <3>3
    <3>4. CASE now - attempts[k].lastFailureAt > LockMax
      <4>1. t + LockMax < now
        BY <1>2, <1>3, <3>4, Numbers
      <4> QED BY <2>2, <3>1, <3>2, <4>1
    <3> QED BY <1>4, <3>3, <3>4
  <2> QED BY <1>1, <1>2, <2>2, <2>3 DEF LengthOK
<1>7. CASE k \in Charged(a) /\ Reaches(attempts[k], a \in Admins)
  <2> DEFINE seconds == calculateLockSeconds(p + 1, a \in Admins)
  <2>1. /\ attempts'[k].lastFailureAt = now /\ attempts'[k].breachCount = p + 1
        /\ attempts'[k].blockedUntil = now + seconds
    BY <1>1, <1>7 DEF AfterFailure
  <2>2. p + 1 \in Nat \ {0} /\ (p + 1) - 1 = p
    BY <1>4
  <2>3. seconds \in Nat /\ seconds <= LockMax
    BY <1>2, <2>2, LockSeconds
  <2>4. seconds <= Window * 2^((p + 1) - 1) * 2 /\ Window * 2^((p + 1) - 1) \in Nat
    BY <1>2, <2>2, LockRange
  <2> HIDE DEF p, seconds
  <2>5. /\ now + seconds <= now + LockMax
        /\ now + seconds <= now + Window * 2^((p + 1) - 1) * 2
    BY <1>2, <2>3, <2>4, Numbers
  <2>6. now \in 0..now /\ p + 1 > 0
    BY <1>2, <1>4
  <2> QED BY <1>1, <1>2, <2>1, <2>5, <2>6 DEF LengthOK
<1> QED BY <1>5, <1>6, <1>7

\* What says how long a lock may be says it later too.
LEMMA LengthStays ==
    ASSUME NEW k, LengthOK(k), now \in Nat, now' \in Nat, now <= now', attempts[k] \in State,
           \/ attempts'[k] = attempts[k]
           \/ attempts'[k] = [attempts[k] EXCEPT !.blockedUntil = 0]
    PROVE  LengthOK(k)'
<1>1. /\ attempts'[k].lastFailureAt = attempts[k].lastFailureAt
      /\ attempts'[k].breachCount = attempts[k].breachCount
      /\ attempts'[k].blockedUntil \in {attempts[k].blockedUntil, 0}
      /\ attempts[k].lastFailureAt \in Nat
  BY DEF State
<1>2. attempts'[k].lastFailureAt <= now'
  BY <1>1 DEF LengthOK
<1>3. CASE attempts'[k].blockedUntil = 0
  BY <1>2, <1>3 DEF LengthOK
<1>4. CASE attempts'[k].blockedUntil = attempts[k].blockedUntil /\ attempts[k].blockedUntil # 0
  <2>1. PICK t \in 0..attempts[k].lastFailureAt :
           /\ attempts[k].blockedUntil <= t + LockMax
           /\ \/ t + LockMax < now
              \/ /\ attempts[k].breachCount > 0
                 /\ attempts[k].blockedUntil <= t + Window * 2^(attempts[k].breachCount - 1) * 2
    BY <1>4 DEF LengthOK
  <2>2. t + LockMax < now => t + LockMax < now'
    BY <1>1, Numbers
  <2> QED BY <1>1, <1>2, <1>4, <2>1, <2>2 DEF LengthOK
<1> QED BY <1>1, <1>3, <1>4

LEMMA LengthStep ==
    ASSUME BaseInv, LengthInv, [Next]_vars
    PROVE  LengthInv'
<1> SUFFICES ASSUME NEW k \in Keys PROVE LengthOK(k)'
  BY DEF LengthInv
<1>1. /\ DefencesTypeOK /\ attempts \in [Keys -> State] /\ attempts[k] \in State
      /\ LengthOK(k) /\ now \in Nat /\ now' \in Nat /\ now <= now'
  BY ClockAdvances DEF BaseInv, DefencesTypeOK, LengthInv
<1>2. ASSUME attempts'[k] = NoState PROVE LengthOK(k)'
  BY <1>1, <1>2 DEF NoState, LengthOK
<1>3. CASE Restart
  BY <1>2, <1>3 DEF Restart
<1>4. CASE Quiet
  BY <1>1, <1>4, LengthStays DEF Quiet
<1>5. ASSUME NEW c \in Clients, FailLogin(c)
      PROVE  LengthOK(k)'
  BY <1>5, FailKeepsLength
<1>6. ASSUME NEW c \in Clients, Succeeds(c)
      PROVE  LengthOK(k)'
  <2>1. attempts'[k] = attempts[k] \/ attempts'[k] = NoState
    BY <1>1, <1>6 DEF Succeeds
  <2> QED BY <1>1, <1>2, <2>1, LengthStays
<1> QED BY <1>1, <1>3, <1>4, <1>5, <1>6, AttemptsStep

\* A failure that finds a key locked leaves it locked as long at least.
LEMMA FailNeverShortens ==
    ASSUME BaseInv, LengthInv, NEW c \in Clients, FailLogin(c), NEW k \in Keys, Locked(k)
    PROVE  attempts'[k].blockedUntil >= attempts[k].blockedUntil
<1> SUFFICES ASSUME NEW a, a = req[c].account
             PROVE  attempts'[k].blockedUntil >= attempts[k].blockedUntil
  OBVIOUS
<1>1. /\ LengthOK(k) /\ attempts[k] \in State /\ now \in Nat
      /\ (a \in Admins) \in BOOLEAN
  BY Numbers DEF LengthInv, BaseInv, DefencesTypeOK
<1>2. /\ attempts[k].lastFailureAt \in Nat /\ attempts[k].blockedUntil \in Nat
      /\ attempts[k].breachCount \in Nat /\ attempts[k].blockedUntil > now
  BY <1>1 DEF State, Locked
<1>3. CASE attempts'[k].blockedUntil = attempts[k].blockedUntil
  BY <1>2, <1>3
<1>4. CASE attempts'[k].blockedUntil =
             now + calculateLockSeconds(pruneWindow(attempts[k]).breachCount + 1, a \in Admins)
  <2>1. PICK t \in 0..attempts[k].lastFailureAt :
           /\ attempts[k].blockedUntil <= t + LockMax
           /\ \/ t + LockMax < now
              \/ /\ attempts[k].breachCount > 0
                 /\ attempts[k].blockedUntil <= t + Window * 2^(attempts[k].breachCount - 1) * 2
    BY <1>1, <1>2 DEF LengthOK
  <2>2. t \in Nat /\ t <= attempts[k].lastFailureAt /\ t <= now
    BY <1>1, <1>2 DEF LengthOK
  <2>3. ~(t + LockMax < now) /\ now - attempts[k].lastFailureAt <= LockMax
    BY <1>1, <1>2, <2>1, <2>2, Numbers
  <2> DEFINE b == attempts[k].breachCount
             seconds == calculateLockSeconds(b + 1, a \in Admins)
  <2>4. b \in Nat \ {0}
    BY <1>2, <2>1, <2>3
  <2>5. pruneWindow(attempts[k]).breachCount = b
    <3>1. ~(now - attempts[k].lastFailureAt > LockMax)
      BY <1>1, <1>2, <2>3, Numbers
    <3> QED BY <1>1, <3>1, PruneKeeps
  <2>6. seconds = LockMax \/ seconds >= Window * 2^(b - 1) * 2
    BY <1>1, <2>4, NextLock
  <2>7. seconds \in Nat
    <3>1. b + 1 \in Nat
      BY <2>4
    <3> HIDE DEF b
    <3> QED BY <1>1, <3>1, LockSeconds
  <2>8. Window * 2^(b - 1) \in Nat
    BY <1>1, <2>4, LockRange
  <2>9. attempts[k].blockedUntil <= t + LockMax
        /\ attempts[k].blockedUntil <= t + Window * 2^(b - 1) * 2
    BY <2>1, <2>3
  <2>10. attempts'[k].blockedUntil = now + seconds
    BY <1>4, <2>5
  <2> HIDE DEF b, seconds
  <2> QED BY <1>1, <1>2, <2>2, <2>6, <2>7, <2>8, <2>9, <2>10, Numbers
<1> QED BY <1>3, <1>4, FailMovesLock

\* The guess a step records is the failure of that client's login.
LEMMA GuessIsFailure ==
    ASSUME DefencesTypeOK, [Next]_vars, NEW c \in Clients, Guesses(c)
    PROVE  FailLogin(c)
<1>1. /\ Len(history) \in Nat /\ Len(history') = Len(history) + 1
      /\ history'[Len(history')].what = "failed" /\ req'[c] # req[c]
  BY DEF DefencesTypeOK, Guesses, Failed
<1>2. ~Restart
  BY <1>1 DEF Restart
<1>3. ~Quiet
  <2>1. Len(history') \in (Len(history) + 1)..Len(history')
    BY <1>1
  <2> QED BY <1>1, <2>1 DEF Quiet
<1>4. ASSUME NEW d \in Clients, Succeeds(d)
      PROVE  FALSE
  <2>1. history'[Len(history) + 1].what = "right"
    BY <1>4, NoteAdds DEF Succeeds
  <2> QED BY <1>1, <2>1
<1>5. ASSUME NEW d \in Clients, FailLogin(d)
      PROVE  d = c
  <2>1. req' = [req EXCEPT ![d] = NoRequest] /\ req \in [Clients -> Request]
    BY <1>5 DEF FailLogin, recordFailedLogin, Answer, DefencesTypeOK
  <2> QED BY <1>1, <2>1
<1> QED BY <1>2, <1>3, <1>4, <1>5, AttemptsStep

LEMMA InitLength == Init => LengthInv
BY SettingsAssumption DEF Init, LengthInv, LengthOK, NoState

\* Whoever fails next, a standing lock never gets shorter: not by a voter's failure
\* after an administrator's, nor because the count of locks was forgotten.
THEOREM LocksNeverShrink == Spec => FailureNeverShortensLock
<1>1. BaseInv /\ LengthInv /\ [Next]_vars
         => [\A c \in Clients, k \in Keys : Locked(k) /\ Guesses(c) =>
                attempts'[k].blockedUntil >= attempts[k].blockedUntil]_vars
  BY GuessIsFailure, FailNeverShortens DEF BaseInv
<1>2. BaseInv /\ LengthInv /\ [Next]_vars => (BaseInv /\ LengthInv)'
  BY BaseStep, LengthStep
<1> QED BY <1>1, <1>2, InitBase, InitLength, PTL DEF Spec, FailureNeverShortensLock

\* The lock k was set after the guard let the request of c pass.
SetSince(c, k) == \E i \in (req[c].since + 1)..Len(history) : history[i].locked = k

\* A standing lock that a client past the guard can meet was set after it had passed,
\* unless another spelling took it past the lock of the account.
AdmittedOK(c, k) ==
    req[c].phase = "password" /\ k \in {Anyone, req[c].account} /\ Locked(k)
        => SetSince(c, k) \/ (k # Anyone /\ req[c].pastLock)

AdmittedInv == \A c \in Clients, k \in Keys : AdmittedOK(c, k)

LEMMA AdmittedStep ==
    ASSUME BaseInv, AdmittedInv, [Next]_vars
    PROVE  AdmittedInv'
<1> SUFFICES ASSUME NEW c \in Clients, NEW k \in Keys,
                    req'[c].phase = "password", k \in {Anyone, req'[c].account},
                    attempts'[k].blockedUntil > now'
             PROVE  \/ \E i \in (req'[c].since + 1)..Len(history') : history'[i].locked = k
                    \/ k # Anyone /\ req'[c].pastLock
  BY DEF AdmittedInv, AdmittedOK, SetSince, Locked
<1>1. /\ DefencesTypeOK /\ Len(history) \in Nat /\ Len(history') \in Nat
      /\ attempts \in [Keys -> State] /\ attempts[k].blockedUntil \in Nat
      /\ req[c].since \in Nat /\ req[c].since <= Len(history)
      /\ now \in Nat /\ now' \in Nat /\ now <= now'
  <2>1. DefencesTypeOK /\ DefencesTypeOK' /\ RequestInv
    BY BaseStep DEF BaseInv
  <2>2. Len(history) \in Nat /\ Len(history') \in Nat
    BY <2>1 DEF DefencesTypeOK
  <2>3. attempts \in [Keys -> State] /\ attempts[k].blockedUntil \in Nat
    BY <2>1 DEF DefencesTypeOK, State
  <2>4. req[c].since \in Nat /\ req[c].since <= Len(history)
    BY <2>1 DEF DefencesTypeOK, RequestInv, Request
  <2> QED BY <2>1, <2>2, <2>3, <2>4, ClockAdvances
\* A lock that stands after a step that sets none stood before.
<1>2. ASSUME attempts'[k].blockedUntil \in {attempts[k].blockedUntil, 0}
      PROVE  Locked(k)
  BY <1>1, <1>2 DEF Locked
<1>3. CASE LetIn(c)
  <2>1. attempts'[k].blockedUntil \in {attempts[k].blockedUntil, 0}
    <3>1. attempts'[k] = attempts[k]
          \/ attempts'[k] = [attempts[k] EXCEPT !.blockedUntil = 0]
      BY <1>3 DEF LetIn
    <3>2. [attempts[k] EXCEPT !.blockedUntil = 0].blockedUntil = 0
      BY <1>1 DEF State
    <3> QED BY <3>1, <3>2
  <2> QED BY <1>3, <1>2, <2>1 DEF LetIn
<1>4. CASE req'[c] = req[c] /\ ~Restart
  <2>1. CASE Grows /\ attempts'[k].blockedUntil \in {attempts[k].blockedUntil, 0}
    <3>1. SetSince(c, k) \/ (k # Anyone /\ req[c].pastLock)
      BY <1>4, <1>2, <2>1 DEF AdmittedInv, AdmittedOK
    <3>2. ASSUME NEW i \in (req[c].since + 1)..Len(history), history[i].locked = k
          PROVE  i \in (req[c].since + 1)..Len(history') /\ history'[i].locked = k
      <4>1. i \in 1..Len(history) /\ i \in (req[c].since + 1)..Len(history')
        BY <1>1, <2>1 DEF Grows
      <4> QED BY <2>1, <3>2, <4>1 DEF Grows
    <3> QED BY <1>4, <3>1, <3>2 DEF SetSince
  <2>2. ASSUME NEW d \in Clients, Strikes(d, k), NEW a, a = req[d].account,
               NEW i, i = Len(history) + 1
        PROVE  \E j \in (req[c].since + 1)..Len(history') : history'[j].locked = k
    <3>1. Len(history') = i
      BY <2>2, FailRecords DEF Strikes
    <3>2. history'[i].locked = k
      BY <2>2, FailCounts DEF Strikes
    <3>3. i \in (req[c].since + 1)..Len(history')
      BY <1>1, <2>2, <3>1
    <3> QED BY <3>2, <3>3
  <2> QED BY <1>4, <2>1, <2>2, LockMoves
<1> QED BY <1>1, <1>3, <1>4, RequestMoves DEF NoRequest, MovesOn

LEMMA InitAdmitted == Init => AdmittedInv
BY DEF Init, AdmittedInv, AdmittedOK, NoRequest

\* A standing lock ends before its time by a restart, by a success whose request had
\* passed the guard before the lock was set or, the lock of an account only, by one
\* that another spelling of the e-mail address took past it; by nothing else.
THEOREM LocksStand == Spec => LocksHold
<1> DEFINE Holding ==
       \A k \in Keys : Locked(k) /\ attempts'[k].blockedUntil < attempts[k].blockedUntil =>
          \/ Restart
          \/ \E c \in Clients :
                /\ RightPassword(c)
                /\ k \in {Anyone, req[c].account}
                /\ \/ \E i \in (req[c].since + 1)..Len(history) : history[i].locked = k
                   \/ k # Anyone /\ req[c].pastLock
<1>1. ASSUME BaseInv, LengthInv, AdmittedInv, [Next]_vars
      PROVE  Holding
  <2> SUFFICES ASSUME NEW k \in Keys, Locked(k), ~Restart,
                      attempts'[k].blockedUntil < attempts[k].blockedUntil
               PROVE  \E c \in Clients :
                         /\ RightPassword(c)
                         /\ k \in {Anyone, req[c].account}
                         /\ \/ \E i \in (req[c].since + 1)..Len(history) :
                                  history[i].locked = k
                            \/ k # Anyone /\ req[c].pastLock
    OBVIOUS
  <2>1. /\ DefencesTypeOK /\ attempts \in [Keys -> State] /\ now \in Nat
        /\ attempts[k].blockedUntil \in Nat
    BY <1>1, Numbers DEF BaseInv, DefencesTypeOK, State
  <2>2. attempts'[k].blockedUntil \in Nat
    BY <1>1, StepType DEF BaseInv, DefencesTypeOK, State
  <2>3. attempts'[k] # attempts[k]
    BY <2>1
  <2>4. ~Quiet
    BY <2>3 DEF Quiet
  <2>5. ASSUME NEW c \in Clients, FailLogin(c)
        PROVE  FALSE
    <3>1. attempts'[k].blockedUntil >= attempts[k].blockedUntil
      BY <1>1, <2>5, FailNeverShortens
    <3> QED BY <2>1, <2>2, <3>1
  <2>6. PICK c \in Clients : RightPassword(c) /\ Succeeds(c)
    BY <1>1, <2>1, <2>4, <2>5, AttemptsStep
  <2>7. k \in {Anyone, req[c].account}
    BY <2>1, <2>3, <2>6 DEF Succeeds
  <2>8. req[c].phase = "password"
    BY <2>6 DEF Succeeds
  <2> QED BY <1>1, <2>6, <2>7, <2>8 DEF AdmittedInv, AdmittedOK, SetSince
<1>2. BaseInv /\ LengthInv /\ AdmittedInv /\ [Next]_vars
         => (BaseInv /\ LengthInv /\ AdmittedInv)'
  BY BaseStep, LengthStep, AdmittedStep
<1>3. BaseInv /\ LengthInv /\ AdmittedInv /\ [Next]_vars => [Holding]_vars
  BY <1>1
<1> QED BY <1>2, <1>3, InitBase, InitLength, InitAdmitted, PTL DEF Spec, LocksHold

-----------------------------------------------------------------------------
(* Weights, and the level they fill.                                        *)

\* The weight of a record is a number, and so is the weight of several; one more
\* record adds its own.
WeightFacts ==
    \A k \in Keys :
        /\ \A i \in 1..Len(history) : WeightFor(i, k) \in Nat
        /\ \A m \in 1..(Len(history) + 1), n \in 0..Len(history) :
              /\ Weight(k, m..n) \in Nat
              /\ n < m => Weight(k, m..n) = 0
              /\ n < Len(history) /\ m <= n + 1 =>
                    Weight(k, m..(n + 1)) = Weight(k, m..n) + WeightFor(n + 1, k)

LEMMA WeightForType ==
    ASSUME DefencesTypeOK, NEW k \in Keys, NEW i \in 1..Len(history)
    PROVE  WeightFor(i, k) \in Nat
<1>1. EVENT_WEIGHTS["failed_login_attempt"] \in Nat
      /\ EVENT_WEIGHTS["login_rate_limit_triggered"] \in Nat
  BY SettingsAssumption DEF Events
<1>2. CodeWeight("replay") \in Nat
  BY CodeWeightType
<1>3. history[i].what \in {"code", "lastCode"} => CodeWeight(history[i].what) \in Nat
  BY CodeWeightType
<1> QED BY <1>1, <1>2, <1>3 DEF WeightFor

LEMMA WeightType ==
    ASSUME DefencesTypeOK, NEW k \in Keys, NEW S \in SUBSET (1..Len(history)), IsFiniteSet(S)
    PROVE  Weight(k, S) \in Nat
<1> DEFINE f == [i \in DOMAIN history |-> WeightFor(i, k)]
<1>1. \A i \in S : f[i] \in Nat
  BY Numbered, WeightForType
<1> HIDE DEF f
<1>2. SumFunctionOnSet(f, S) \in Nat
  BY <1>1, SumType
<1> QED BY <1>2 DEF Weight, f

LEMMA WeightsKnown == DefencesTypeOK => WeightFacts
<1> SUFFICES ASSUME DefencesTypeOK, NEW k \in Keys,
                    NEW m \in 1..(Len(history) + 1), NEW n \in 0..Len(history)
             PROVE  /\ Weight(k, m..n) \in Nat
                    /\ n < m => Weight(k, m..n) = 0
                    /\ n < Len(history) /\ m <= n + 1 =>
                          Weight(k, m..(n + 1)) = Weight(k, m..n) + WeightFor(n + 1, k)
  BY WeightForType DEF WeightFacts
<1> DEFINE f == [i \in DOMAIN history |-> WeightFor(i, k)]
<1>1. Len(history) \in Nat /\ DOMAIN history = 1..Len(history)
  BY Numbered
<1>2. \A i \in 1..Len(history) : f[i] = WeightFor(i, k) /\ f[i] \in Nat
  BY <1>1, WeightForType
<1>3. IsFiniteSet(m..n) /\ m..n \in SUBSET (1..Len(history))
  BY <1>1, FS_Interval
<1>4. Weight(k, m..n) \in Nat
  BY <1>3, WeightType
<1>5. ASSUME n < m PROVE Weight(k, m..n) = 0
  <2>1. m..n = {}
    BY <1>1, <1>5
  <2> HIDE DEF f
  <2>2. SumFunctionOnSet(f, {}) = 0
    BY FS_EmptySet, SumByChoice
  <2> QED BY <2>1, <2>2 DEF Weight, f
<1>6. ASSUME n < Len(history), m <= n + 1
      PROVE  Weight(k, m..(n + 1)) = Weight(k, m..n) + WeightFor(n + 1, k)
  <2>1. m..(n + 1) = (m..n) \cup {n + 1} /\ n + 1 \notin m..n /\ n + 1 \in 1..Len(history)
    BY <1>1, <1>6
  <2>2. \A i \in (m..n) \cup {n + 1} : f[i] \in Int
    BY <1>2, <1>3, <2>1
  <2>3. f[n + 1] = WeightFor(n + 1, k) /\ f[n + 1] \in Nat
    BY <1>2, <2>1
  <2> HIDE DEF f
  <2>4. SumFunctionOnSet(f, (m..n) \cup {n + 1}) = f[n + 1] + SumFunctionOnSet(f, m..n)
    BY <1>3, <2>1, <2>2, SumAdd
  <2>5. Weight(k, m..n) = SumFunctionOnSet(f, m..n)
        /\ Weight(k, m..(n + 1)) = SumFunctionOnSet(f, m..(n + 1))
    BY DEF Weight, f
  <2>6. SumFunctionOnSet(f, m..(n + 1)) = f[n + 1] + SumFunctionOnSet(f, m..n)
    BY <2>1, <2>4
  <2>7. Weight(k, m..(n + 1)) = WeightFor(n + 1, k) + Weight(k, m..n)
    BY <2>3, <2>5, <2>6
  <2> HIDE DEF Weight, WeightFor
  <2> QED BY <1>4, <2>3, <2>7
<1> QED BY <1>4, <1>5, <1>6

\* What was recorded weighs what it weighed.
LEMMA WeightStays ==
    ASSUME DefencesTypeOK, DefencesTypeOK', Grows, NEW k \in Keys,
           NEW m \in 1..(Len(history) + 1), NEW n \in 0..Len(history)
    PROVE  Weight(k, m..n)' = Weight(k, m..n)
<1> DEFINE f == [i \in DOMAIN history |-> WeightFor(i, k)]
           g == [i \in DOMAIN history' |-> WeightFor(i, k)']
<1>1. /\ Len(history) \in Nat /\ Len(history') \in Nat /\ Len(history) <= Len(history')
      /\ DOMAIN history = 1..Len(history) /\ DOMAIN history' = 1..Len(history')
  BY DEF DefencesTypeOK, Grows
<1>2. IsFiniteSet(m..n) /\ m..n \in SUBSET (1..Len(history))
  BY <1>1, FS_Interval
<1>3. \A i \in m..n : g[i] = f[i]
  BY <1>1, <1>2, GrowthKeeps
<1>4. Weight(k, m..n) = SumFunctionOnSet(f, m..n) /\ Weight(k, m..n)' = SumFunctionOnSet(g, m..n)
  BY DEF Weight
<1> HIDE DEF f, g
<1>5. SumFunctionOnSet(f, m..n) = SumFunctionOnSet(g, m..n)
  BY <1>2, <1>3, SumSame
<1> QED BY <1>4, <1>5

\* The records that may still fill the level of k after n records, and what is left
\* at the time t of the events from the m-th on.
Tails(k, n) == {m \in 1..n : WeightFor(m, k) > 0 /\ \A i \in m..n : ~Cleared(i, k)}
Left(k, m, n, t) == Weight(k, m..n) - Decay * (t - history[m].at)

\* L is the largest of what is left, or nothing.
LevelIs(k, n, t, L) ==
    /\ L >= 0
    /\ \A m \in Tails(k, n) : Left(k, m, n, t) <= L
    /\ L = 0 \/ \E m \in Tails(k, n) : L = Left(k, m, n, t)

LevelFacts ==
    \A k \in Keys, n \in 0..Len(history), t \in Nat :
        /\ Level(k, n, t) \in Nat
        /\ LevelIs(k, n, t, Level(k, n, t))
        /\ \A L \in Nat : LevelIs(k, n, t, L) => L = Level(k, n, t)

\* What is left is a number.
LEMMA LeftType ==
    ASSUME DefencesTypeOK, NEW k \in Keys, NEW n \in 0..Len(history), NEW t \in Nat,
           NEW m \in Tails(k, n)
    PROVE  Left(k, m, n, t) \in Int /\ m \in 1..n /\ m \in 1..Len(history)
<1>1. m \in 1..n /\ m \in 1..Len(history) /\ m \in 1..(Len(history) + 1)
  BY Numbered DEF Tails
<1>2. Weight(k, m..n) \in Nat
  BY <1>1, WeightsKnown DEF WeightFacts
<1>3. history[m].at \in Nat
  BY <1>1, Numbered, Numbers DEF Record
<1>4. Decay * (t - history[m].at) \in Int
  BY <1>3, Numbers
<1> QED BY <1>1, <1>2, <1>4 DEF Left

LEMMA LevelsKnown == DefencesTypeOK => LevelFacts
<1> SUFFICES ASSUME DefencesTypeOK,
                    NEW k \in Keys, NEW n \in 0..Len(history), NEW t \in Nat
             PROVE  /\ Level(k, n, t) \in Nat
                    /\ LevelIs(k, n, t, Level(k, n, t))
                    /\ \A L \in Nat : LevelIs(k, n, t, L) => L = Level(k, n, t)
  BY DEF LevelFacts
<1> DEFINE T == {Left(k, m, n, t) : m \in Tails(k, n)}
           f == [m \in Tails(k, n) |-> Left(k, m, n, t)]
<1>1. IsFiniteSet(Tails(k, n))
  <2>1. Tails(k, n) \subseteq 1..n /\ n \in Int
    BY Numbered DEF Tails
  <2>2. IsFiniteSet(1..n)
    BY <2>1, FS_Interval
  <2> QED BY <2>1, <2>2, FS_Subset
<1>2. IsFiniteSet(T)
  <2>1. f \in Surjection(Tails(k, n), T)
    BY DEF Surjection
  <2> HIDE DEF T, f
  <2> QED BY <1>1, <2>1, FS_Surjection
<1>3. IsFiniteSet({0} \cup T) /\ {0} \cup T \in SUBSET Int /\ {0} \cup T # {}
  <2>1. T \subseteq Int
    BY LeftType
  <2>2. {0} \cup T = T \cup {0}
    OBVIOUS
  <2> HIDE DEF T
  <2> QED BY <1>2, <2>1, <2>2, FS_AddElement
<1>4. Level(k, n, t) = Max({0} \cup T)
  BY DEF Level, Tails, Left
<1>5. Level(k, n, t) \in {0} \cup T /\ \A y \in {0} \cup T : y <= Level(k, n, t)
  <2> HIDE DEF T
  <2> QED BY <1>3, <1>4, MaxIsLargest
<1>6. Level(k, n, t) \in Nat
  <2>1. Level(k, n, t) \in Int /\ 0 <= Level(k, n, t)
    <3> HIDE DEF T
    <3> QED BY <1>3, <1>5
  <2> QED BY <2>1
<1>7. LevelIs(k, n, t, Level(k, n, t))
  BY <1>5, <1>6 DEF LevelIs
<1>8. ASSUME NEW L \in Nat, LevelIs(k, n, t, L)
      PROVE  L = Level(k, n, t)
  <2>1. L <= Level(k, n, t)
    BY <1>5, <1>6, <1>8 DEF LevelIs
  <2>2. Level(k, n, t) <= L
    BY <1>5, <1>6, <1>8 DEF LevelIs
  <2> QED BY <1>6, <2>1, <2>2
<1> QED BY <1>6, <1>7, <1>8

\* The same holds after a step.
LEMMA KnownNext == ASSUME DefencesTypeOK' PROVE WeightFacts' /\ LevelFacts'
<1>1. (DefencesTypeOK => WeightFacts)'
  BY WeightsKnown, PTL
<1>2. (DefencesTypeOK => LevelFacts)'
  BY LevelsKnown, PTL
<1> QED BY <1>1, <1>2

\* The level of the past stays what it was.
LEMMA LevelStays ==
    ASSUME DefencesTypeOK, DefencesTypeOK', Grows, NEW k \in Keys,
           NEW n \in 0..Len(history), NEW t \in Nat
    PROVE  Level(k, n, t)' = Level(k, n, t)
<1>1. /\ Len(history) \in Nat /\ Len(history') \in Nat /\ Len(history) <= Len(history')
      /\ n \in Nat /\ n <= Len(history)
  BY DEF DefencesTypeOK, Grows
<1>2. Tails(k, n)' = Tails(k, n)
  BY <1>1, GrowthKeeps DEF Tails
<1>3. ASSUME NEW m \in Tails(k, n)
      PROVE  Left(k, m, n, t)' = Left(k, m, n, t)
  <2>1. m \in 1..Len(history) /\ m \in 1..(Len(history) + 1)
    BY <1>1, LeftType
  <2> QED BY <2>1, WeightStays DEF Left, Grows
<1>4. ASSUME NEW L \in Nat, LevelIs(k, n, t, L)
      PROVE  LevelIs(k, n, t, L)'
  BY <1>2, <1>3, <1>4 DEF LevelIs
<1>5. PICK L \in Nat : L = Level(k, n, t) /\ LevelIs(k, n, t, L)
  BY LevelsKnown DEF LevelFacts
<1>6. LevelIs(k, n, t, L)' /\ n \in 0..Len(history')
  BY <1>1, <1>4, <1>5
<1>7. L = Level(k, n, t)'
  BY <1>6, KnownNext DEF LevelFacts
<1> QED BY <1>5, <1>7

\* Left alone, a level falls by Decay per minute, and stops at nothing.
LEMMA LevelDecays ==
    ASSUME DefencesTypeOK, NEW k \in Keys, NEW n \in 0..Len(history),
           NEW t \in Nat, NEW u \in Nat, t <= u
    PROVE  Level(k, n, u) = larger(Level(k, n, t) - (u - t) * Decay, 0)
<1> DEFINE d == (u - t) * Decay
           L == Level(k, n, t)
<1>1. d \in Int
  BY Numbers
<1>2. L \in Nat /\ LevelIs(k, n, t, L)
  BY LevelsKnown DEF LevelFacts
<1>3. ASSUME NEW m \in Tails(k, n)
      PROVE  /\ Left(k, m, n, t) \in Int /\ Left(k, m, n, u) \in Int
             /\ Left(k, m, n, u) = Left(k, m, n, t) - d
  <2>1. Left(k, m, n, t) \in Int /\ Left(k, m, n, u) \in Int /\ m \in 1..Len(history)
        /\ m \in 1..(Len(history) + 1)
    BY LeftType, Numbered
  <2>2. history[m].at \in Nat /\ Weight(k, m..n) \in Nat
    BY <2>1, Numbered, Numbers, WeightsKnown DEF Record, WeightFacts
  <2>3. \A a \in Nat, e \in Nat : e * (u - a) = e * (t - a) + (u - t) * e
    OBVIOUS
  <2>4. \A a \in Nat, e \in Nat : e * (u - a) \in Int /\ e * (t - a) \in Int
    OBVIOUS
  <2> DEFINE p == Decay * (u - history[m].at)
             q == Decay * (t - history[m].at)
             w == Weight(k, m..n)
  <2>5. p = q + d /\ p \in Int /\ q \in Int
    BY <2>2, <2>3, <2>4, Numbers
  <2>6. Left(k, m, n, u) = w - p /\ Left(k, m, n, t) = w - q
    BY DEF Left
  <2>7. w \in Nat
    BY <2>2
  <2> HIDE DEF d, p, q, w
  <2> QED BY <1>1, <2>1, <2>5, <2>6, <2>7
<1> HIDE DEF d, L
<1>4. larger(L - d, 0) \in Nat /\ LevelIs(k, n, u, larger(L - d, 0))
  <2>1. CASE L - d > 0
    <3>1. larger(L - d, 0) = L - d /\ L - d \in Nat
      BY <1>1, <1>2, <2>1 DEF larger
    <3>2. \A m \in Tails(k, n) : Left(k, m, n, u) <= L - d
      BY <1>1, <1>2, <1>3 DEF LevelIs
    <3>3. ~(d < 0)
      <4>1. \A e \in Nat, v \in Nat : ~(v * e < 0)
        OBVIOUS
      <4>2. u - t \in Nat
        OBVIOUS
      <4> QED BY <4>1, <4>2, Numbers DEF d
    <3>4. L # 0
      BY <1>1, <1>2, <2>1, <3>3
    <3>5. \E m \in Tails(k, n) : L - d = Left(k, m, n, u)
      BY <1>2, <1>3, <3>4 DEF LevelIs
    <3> QED BY <3>1, <3>2, <3>5 DEF LevelIs
  <2>2. CASE ~(L - d > 0)
    <3>1. larger(L - d, 0) = 0
      BY <1>1, <1>2, <2>2 DEF larger
    <3>2. \A m \in Tails(k, n) : Left(k, m, n, u) <= 0
      BY <1>1, <1>2, <1>3, <2>2 DEF LevelIs
    <3> QED BY <3>1, <3>2 DEF LevelIs
  <2> QED BY <2>1, <2>2
<1>5. Level(k, n, u) = larger(L - d, 0)
  BY <1>4, LevelsKnown DEF LevelFacts
<1> QED BY <1>5 DEF d, L

\* One record more raises the level by its weight, unless it clears it.
LEMMA LevelRises ==
    ASSUME DefencesTypeOK, DefencesTypeOK', Grows, NEW k \in Keys,
           NEW n, n = Len(history), NEW i, i = n + 1, Len(history') = i,
           ~Cleared(i, k)', NEW w \in Nat, w = WeightFor(i, k)',
           NEW t \in Nat, w > 0 => history'[i].at = t
    PROVE  Level(k, i, t)' = Level(k, n, t) + w
<1>1. n \in Nat /\ i \in Nat /\ n \in 0..Len(history) /\ i \in 0..Len(history')
      /\ n \in 0..Len(history') /\ i \in 1..Len(history') /\ i \in 1..(Len(history') + 1)
  BY DEF DefencesTypeOK
<1>2. \A m \in 1..n : /\ WeightFor(m, k)' = WeightFor(m, k)
                      /\ Cleared(m, k)' <=> Cleared(m, k)
  BY GrowthKeeps
<1>3. Tails(k, i)' = Tails(k, n) \cup (IF w > 0 THEN {i} ELSE {})
  <2>1. ASSUME NEW m \in 1..n
        PROVE  m \in Tails(k, i)' <=> m \in Tails(k, n)
    <3>1. \A j \in m..i : j \in m..n \/ j = i
      BY <1>1
    <3>2. \A j \in m..n : j \in m..i /\ j \in 1..n
      BY <1>1
    <3>3. (\A j \in m..i : ~Cleared(j, k)') <=> \A j \in m..n : ~Cleared(j, k)
      BY <1>2, <3>1, <3>2
    <3>4. m \in 1..i
      BY <1>1
    <3> QED BY <1>2, <3>3, <3>4 DEF Tails
  <2>2. i \in Tails(k, i)' <=> w > 0
    <3>1. i..i = {i} /\ i \in 1..i
      BY <1>1
    <3> QED BY <3>1 DEF Tails
  <2>3. \A m \in 1..i : m \in 1..n \/ m = i
    BY <1>1
  <2>4. Tails(k, i)' \subseteq 1..i /\ Tails(k, n) \subseteq 1..n
    BY DEF Tails
  <2>5. i \notin 1..n
    BY <1>1
  <2> HIDE DEF Tails
  <2> QED BY <2>1, <2>2, <2>3, <2>4, <2>5
<1>4. ASSUME NEW m \in Tails(k, n)
      PROVE  /\ Left(k, m, n, t) \in Int
             /\ Left(k, m, i, t)' = Left(k, m, n, t) + w
  <2>1. Left(k, m, n, t) \in Int /\ m \in 1..n /\ m \in 1..Len(history)
        /\ m \in 1..(Len(history) + 1) /\ m \in 1..(Len(history') + 1)
    BY <1>1, LeftType
  <2>2. Weight(k, m..n)' = Weight(k, m..n) /\ Weight(k, m..n) \in Nat
    BY <1>1, <2>1, WeightStays, WeightsKnown DEF WeightFacts
  <2>3. n < Len(history') /\ m <= n + 1
    BY <1>1, <2>1
  <2>4. Weight(k, m..i)' = Weight(k, m..n)' + w
    BY <1>1, <2>1, <2>3, KnownNext DEF WeightFacts
  <2>5. history'[m].at = history[m].at /\ history[m].at \in Nat
    BY <2>1, Numbered, Numbers DEF Grows, Record
  <2>6. Decay * (t - history[m].at) \in Int
    <3>1. \A a \in Nat : Decay * (t - a) \in Int
      BY Numbers
    <3> QED BY <2>5, <3>1
  <2> DEFINE p == Decay * (t - history[m].at)
             q == Weight(k, m..n)
  <2>7. Left(k, m, i, t)' = (q + w) - p /\ Left(k, m, n, t) = q - p
    BY <2>2, <2>4, <2>5 DEF Left
  <2>8. p \in Int /\ q \in Nat
    BY <2>2, <2>6
  <2> HIDE DEF p, q, Left
  <2> QED BY <2>1, <2>7, <2>8
<1>5. w > 0 => Left(k, i, i, t)' = w
  <2>1. ASSUME w > 0 PROVE Left(k, i, i, t)' = w
    <3> HIDE DEF Weight, WeightFor
    <3>1. n < i /\ n < Len(history') /\ i <= n + 1
      BY <1>1
    <3>2. /\ n < i => Weight(k, i..n)' = 0
          /\ n < Len(history') /\ i <= n + 1 =>
                Weight(k, i..(n + 1))' = Weight(k, i..n)' + WeightFor(n + 1, k)'
      BY <1>1, KnownNext DEF WeightFacts
    <3>3. Weight(k, i..n)' = 0 /\ Weight(k, i..i)' = Weight(k, i..n)' + w
      BY <3>1, <3>2
    <3>4. Decay * (t - t) = 0
      BY Numbers
    <3> QED BY <2>1, <3>3, <3>4 DEF Left
  <2> QED BY <2>1
<1>6. PICK L \in Nat : L = Level(k, n, t) /\ LevelIs(k, n, t, L)
  BY <1>1, LevelsKnown DEF LevelFacts
<1>7. LevelIs(k, i, t, L + w)'
  <2>1. \A m \in Tails(k, i)' : Left(k, m, i, t)' <= L + w
    BY <1>3, <1>4, <1>5, <1>6 DEF LevelIs
  <2>2. L + w = 0 \/ \E m \in Tails(k, i)' : L + w = Left(k, m, i, t)'
    <3>1. CASE L # 0
      BY <1>3, <1>4, <1>6, <3>1 DEF LevelIs
    <3>2. CASE L = 0
      BY <1>3, <1>5, <3>2
    <3> QED BY <3>1, <3>2
  <2>3. L + w >= 0
    OBVIOUS
  <2> QED BY <2>1, <2>2, <2>3 DEF LevelIs
<1>8. L + w = Level(k, i, t)'
  <2>1. L + w \in Nat
    OBVIOUS
  <2>2. \A M \in Nat : LevelIs(k, i, t, M)' => M = Level(k, i, t)'
    BY <1>1, KnownNext DEF LevelFacts
  <2> QED BY <1>7, <2>1, <2>2
<1> QED BY <1>6, <1>8

\* Nothing recorded, or cleared by the last record: nothing is left, before a step
\* and after it.
EmptyLevels ==
    \A k \in Keys, n \in 0..Len(history), t \in Nat :
        n = 0 \/ Cleared(n, k) => Level(k, n, t) = 0

LEMMA EmptyLevel == DefencesTypeOK => EmptyLevels
<1> SUFFICES ASSUME DefencesTypeOK, NEW k \in Keys, NEW n \in 0..Len(history), NEW t \in Nat,
                    n = 0 \/ Cleared(n, k)
             PROVE  Level(k, n, t) = 0
  BY DEF EmptyLevels
<1>1. Tails(k, n) = {}
  BY Numbered DEF Tails
<1>2. LevelIs(k, n, t, 0)
  BY <1>1 DEF LevelIs
<1> QED BY <1>2, LevelsKnown DEF LevelFacts

LEMMA EmptyNext == DefencesTypeOK' => EmptyLevels'
BY EmptyLevel, PTL

-----------------------------------------------------------------------------
(* Scores and blocks.                                                       *)

\* The i-th record is made at this instant.
Records(i) ==
    /\ Grows
    /\ i = Len(history) + 1 /\ Len(history') = i
    /\ now' = now /\ history'[i].at = now

\* Scores stay or are decayed up to now.
Eases == \A k \in Keys : scores'[k] \in {scores[k], getScoreEntry(k)}

\* Blocks stay, or are forgotten when they are over.
Forgets == \A k \in Keys : blocks'[k] = blocks[k] \/ (blocks'[k] = 0 /\ ~RiskBlocked(k))

\* Nothing is recorded.
Rests == history' = history /\ scores' = scores /\ Forgets

\* A record that weighs nothing and clears nothing: a success.
Passes(i) ==
    /\ Records(i) /\ Eases /\ Forgets
    /\ \A k \in Keys : WeightFor(i, k)' = 0 /\ ~Cleared(i, k)'

\* A record that weighs w on the key e: a failure, or a refused code.
Weighs(i, e, w) ==
    /\ Records(i) /\ recordRiskEvent(e, w)
    /\ \A k \in Keys : WeightFor(i, k)' = (IF k = e THEN w ELSE 0) /\ ~Cleared(i, k)'

\* A record that clears the score of the key a: a session.
Clears(i, a) ==
    /\ Records(i) /\ blocks' = blocks
    /\ scores' = [scores EXCEPT ![a] = NoScore]
    /\ \A k \in Keys : WeightFor(i, k)' = 0 /\ (Cleared(i, k)' <=> k = a)

\* A record of no failure and no code weighs nothing, and only a session clears.
LEMMA NoteWeighs ==
    ASSUME DefencesTypeOK, NEW c \in Clients, NEW locked \in Keys \cup {"none"},
           NEW what \in {"failed", "code", "lastCode", "replay", "right", "session"},
           Note(c, what, locked), now' = now,
           NEW a, a = req[c].account, NEW i, i = Len(history) + 1
    PROVE  /\ Records(i)
           /\ \A k \in Keys :
                 /\ Cleared(i, k)' <=> what = "session" /\ k = a
                 /\ WeightFor(i, k)' =
                       CASE what = "failed" /\ k = Anyone ->
                               EVENT_WEIGHTS[IF locked = "none" THEN "failed_login_attempt"
                                                       ELSE "login_rate_limit_triggered"]
                         [] what \in {"code", "lastCode"} /\ k = a -> CodeWeight(what)
                         [] what = "replay" /\ k = Anyone -> CodeWeight("replay")
                         [] OTHER -> 0
<1>1. /\ Grows /\ Len(history') = i
      /\ history'[i].what = what /\ history'[i].account = a
      /\ history'[i].locked = locked /\ history'[i].at = now
  BY NoteAdds
<1>2. Records(i)
  BY <1>1 DEF Records
<1>3. \A k \in Keys : Cleared(i, k)' <=> what = "session" /\ k = a
  BY <1>1 DEF Cleared
<1>4. Failed(i)' <=> what = "failed"
  BY <1>1 DEF Failed
<1>5. ASSUME NEW k \in Keys
      PROVE  WeightFor(i, k)' =
                CASE what = "failed" /\ k = Anyone ->
                        EVENT_WEIGHTS[IF locked = "none" THEN "failed_login_attempt"
                                                ELSE "login_rate_limit_triggered"]
                  [] what \in {"code", "lastCode"} /\ k = a -> CodeWeight(what)
                  [] what = "replay" /\ k = Anyone -> CodeWeight("replay")
                  [] OTHER -> 0
  BY <1>1, <1>4 DEF WeightFor
<1> QED BY <1>2, <1>3, <1>5

\* The steps, seen from the scores.
LEMMA RiskStep ==
    ASSUME BaseInv, [Next]_vars, NEW i, i = Len(history) + 1
    PROVE  \/ Restart
           \/ Rests
           \/ Passes(i)
           \/ \E e \in Keys, w \in Nat : Weighs(i, e, w)
           \/ \E a \in Accounts : Clears(i, a)
<1>1. DefencesTypeOK /\ scores \in [Keys -> Score] /\ blocks \in [Keys -> Nat]
  BY DEF BaseInv, DefencesTypeOK
<1>2. ASSUME NEW K, blocks' = Unblocked(K) PROVE Forgets
  BY <1>2 DEF Unblocked, Forgets
<1>3. blocks' = blocks => Forgets
  BY DEF Forgets
<1>4. ASSUME NEW c \in Clients
      PROVE  req[c].account \in Keys /\ (req[c].phase # "idle" => req[c].account \in Accounts)
  BY <1>1 DEF BaseInv, RequestInv, DefencesTypeOK, Request
<1>5. ASSUME NEW c \in Clients, SendLogin(c)
      PROVE  Rests
  BY <1>2, <1>5 DEF SendLogin, loginAbuseGuard, Rests
<1>6. ASSUME NEW c \in Clients, FailLogin(c)
      PROVE  \E w \in Nat : Weighs(i, Anyone, w)
  <2> DEFINE b == LockedBy(req[c].account)
             w == EVENT_WEIGHTS[IF b = "none" THEN "failed_login_attempt"
                                              ELSE "login_rate_limit_triggered"]
  <2>1. recordRiskEvent(Anyone, w) /\ Note(c, "failed", b) /\ now' = now
    BY <1>6 DEF FailLogin, recordFailedLogin
  <2>2. b \in Keys \cup {"none"} /\ w \in Nat
    BY <1>4, LockedByType, SettingsAssumption, KeysApart DEF Events
  <2>3. /\ Records(i)
        /\ \A k \in Keys : WeightFor(i, k)' = (IF k = Anyone THEN w ELSE 0) /\ ~Cleared(i, k)'
    <3> HIDE DEF b
    <3> QED BY <1>1, <2>1, <2>2, NoteWeighs
  <2> HIDE DEF w, b
  <2> QED BY <2>1, <2>2, <2>3 DEF Weighs
<1>7. ASSUME NEW c \in Clients, RightPassword(c)
      PROVE  Rests \/ Passes(i)
  <2>1. Forgets
    BY <1>2, <1>7 DEF RightPassword
  <2>2. CASE UNCHANGED <<scores, history>>
    BY <2>1, <2>2 DEF Rests
  <2>3. CASE /\ Note(c, "right", "none") /\ now' = now
             /\ scores' = [scores EXCEPT ![Anyone] = getScoreEntry(Anyone),
                                ![req[c].account] = getScoreEntry(req[c].account)]
    <3>1. Eases
      BY <1>1, <2>3 DEF Eases
    <3>2. /\ Records(i)
          /\ \A k \in Keys : WeightFor(i, k)' = 0 /\ ~Cleared(i, k)'
      BY <1>1, <2>3, NoteWeighs
    <3> QED BY <2>1, <3>1, <3>2 DEF Passes
  <2> QED BY <1>7, <2>2, <2>3 DEF RightPassword
<1>8. ASSUME NEW c \in Clients, WrongCode(c)
      PROVE  \E e \in Keys, w \in Nat : Weighs(i, e, w)
  <2>1. PICK what \in {"code", "lastCode", "replay"} :
           /\ recordRiskEvent(IF what = "replay" THEN Anyone ELSE req[c].account,
                              CodeWeight(what))
           /\ Note(c, what, "none")
    BY <1>8 DEF WrongCode
  <2> DEFINE e == IF what = "replay" THEN Anyone ELSE req[c].account
  <2>2. now' = now /\ e \in Keys /\ CodeWeight(what) \in Nat
    BY <1>4, <1>8, CodeWeightType, KeysApart DEF WrongCode
  <2>3. /\ Records(i)
        /\ \A k \in Keys :
              WeightFor(i, k)' = (IF k = e THEN CodeWeight(what) ELSE 0) /\ ~Cleared(i, k)'
    BY <1>1, <2>1, <2>2, NoteWeighs
  <2>4. Weighs(i, e, CodeWeight(what))
    BY <2>1, <2>3 DEF Weighs
  <2> QED BY <2>2, <2>4
<1>9. ASSUME NEW c \in Clients, OpenSession(c)
      PROVE  \E a \in Accounts : Clears(i, a)
  <2>1. /\ Note(c, "session", "none") /\ now' = now /\ blocks' = blocks
        /\ scores' = [scores EXCEPT ![req[c].account] = NoScore]
        /\ req[c].account \in Accounts
    BY <1>4, <1>9 DEF OpenSession
  <2>2. /\ Records(i)
        /\ \A k \in Keys : WeightFor(i, k)' = 0 /\ (Cleared(i, k)' <=> k = req[c].account)
    BY <1>1, <2>1, NoteWeighs
  <2> QED BY <2>1, <2>2 DEF Clears
<1>10. ASSUME NEW c \in Clients, RightCode(c) \/ Forsake(c)
       PROVE  Rests
  BY <1>3, <1>10 DEF RightCode, Forsake, Rests
<1>11. UNCHANGED vars \/ Tick \/ Quiescent => Rests
  BY <1>3 DEF vars, Tick, Quiescent, Rests
<1> QED BY <1>5, <1>6, <1>7, <1>8, <1>9, <1>10, <1>11, KeysApart DEF Next

\* A score is the level at the time it was saved.
ScoreOK(k) ==
    /\ scores[k].updatedAt <= now
    /\ scores[k].score = Level(k, Len(history), scores[k].updatedAt)

ScoreInv == \A k \in Keys : ScoreOK(k)

\* Decayed up to now, it is the level of now.
LEMMA EntryIsLevel ==
    ASSUME DefencesTypeOK, NEW k \in Keys, ScoreOK(k)
    PROVE  /\ getScoreEntry(k).score = Level(k, Len(history), now)
           /\ getScoreEntry(k).updatedAt = now
<1>1. /\ Len(history) \in 0..Len(history) /\ now \in Nat
      /\ scores[k].updatedAt \in Nat /\ scores[k].updatedAt <= now
  BY Numbered, Numbers DEF DefencesTypeOK, Score, ScoreOK
<1>2. Level(k, Len(history), now) =
        larger(Level(k, Len(history), scores[k].updatedAt)
               - (now - scores[k].updatedAt) * Decay, 0)
  BY <1>1, LevelDecays
<1> QED BY <1>2 DEF getScoreEntry, ScoreOK

\* A score saved now, or kept, is the level if the last record weighed nothing on it.
LEMMA ScoreKept ==
    ASSUME DefencesTypeOK, DefencesTypeOK', NEW k \in Keys, ScoreOK(k),
           NEW i, Records(i), WeightFor(i, k)' = 0, ~Cleared(i, k)',
           scores'[k] \in {scores[k], getScoreEntry(k)}
    PROVE  ScoreOK(k)'
<1>1. PICK n \in Nat : n = Len(history)
  BY Numbered
<1>2. /\ scores'[k].updatedAt <= now
      /\ scores'[k].updatedAt \in Nat
      /\ scores'[k].score = Level(k, n, scores'[k].updatedAt)
  <2>1. CASE scores'[k] = scores[k]
    BY <1>1, <2>1 DEF ScoreOK, DefencesTypeOK, Score
  <2>2. CASE scores'[k] = getScoreEntry(k)
    BY <1>1, <2>2, EntryIsLevel, Numbers DEF DefencesTypeOK
  <2> QED BY <2>1, <2>2
<1>3. PICK t \in Nat : t = scores'[k].updatedAt
  BY <1>2
<1>4. Level(k, i, t)' = Level(k, n, t) + 0
  BY <1>1, LevelRises DEF Records
<1>5. Level(k, n, t) \in Nat
  BY <1>1, LevelsKnown DEF LevelFacts
<1>6. Level(k, i, t)' = scores'[k].score
  BY <1>2, <1>3, <1>4, <1>5
<1> QED BY <1>2, <1>3, <1>6 DEF ScoreOK, Records

LEMMA ScoreStep ==
    ASSUME BaseInv, ScoreInv, [Next]_vars
    PROVE  ScoreInv'
<1>1. /\ DefencesTypeOK /\ DefencesTypeOK' /\ scores \in [Keys -> Score]
      /\ now \in Nat /\ now' \in Nat /\ now <= now'
      /\ \A k \in Keys : scores[k].updatedAt \in Nat
  BY StepType, ClockAdvances DEF BaseInv, DefencesTypeOK, Score
<1>2. PICK n \in Nat : n = Len(history)
  BY <1>1, Numbered
<1>3. PICK i \in Nat : i = Len(history) + 1
  BY <1>1, Numbered
<1> SUFFICES ASSUME NEW k \in Keys PROVE ScoreOK(k)'
  BY DEF ScoreInv
<1>4. ScoreOK(k)
  BY DEF ScoreInv
<1>5. CASE Restart
  <2>1. scores'[k] = NoScore /\ Len(history') = 0
    BY <1>5 DEF Restart
  <2>2. Level(k, 0, 0)' = 0
    BY <1>1, <2>1, EmptyNext DEF EmptyLevels
  <2> QED BY <1>1, <2>1, <2>2 DEF ScoreOK, NoScore
<1>6. CASE Rests
  <2>1. scores' = scores /\ Len(history') = n /\ Grows
    BY <1>1, <1>2, <1>6, StandsStill DEF Rests
  <2>2. PICK t \in Nat : t = scores[k].updatedAt
    BY <1>1
  <2>3. Level(k, n, t)' = Level(k, n, t)
    BY <1>1, <1>2, <2>1, LevelStays
  <2> QED BY <1>1, <1>2, <1>4, <2>1, <2>2, <2>3 DEF ScoreOK
<1>7. CASE Passes(i)
  BY <1>1, <1>4, <1>7, ScoreKept DEF Passes, Eases
<1>8. ASSUME NEW e \in Keys, NEW w \in Nat, Weighs(i, e, w)
      PROVE  ScoreOK(k)'
  <2>1. CASE k # e \/ w = 0
    <3>1. WeightFor(i, k)' = 0 /\ ~Cleared(i, k)' /\ Records(i)
      BY <1>8, <2>1 DEF Weighs
    <3>2. scores'[k] = scores[k]
      BY <1>1, <1>8, <2>1 DEF Weighs, recordRiskEvent
    <3> QED BY <1>1, <1>4, <3>1, <3>2, ScoreKept
  <2>2. CASE k = e /\ w # 0
    <3>1. /\ scores'[k].score = getScoreEntry(k).score + w /\ scores'[k].updatedAt = now
          /\ WeightFor(i, k)' = w /\ ~Cleared(i, k)' /\ Records(i)
      BY <1>1, <1>8, <2>2 DEF Weighs, recordRiskEvent
    <3>2. PICK t \in Nat : t = now
      BY <1>1
    <3>3. Level(k, i, t)' = Level(k, n, t) + w
      BY <1>1, <1>2, <1>3, <3>1, <3>2, LevelRises DEF Records
    <3>4. getScoreEntry(k).score = Level(k, n, t)
      BY <1>1, <1>2, <1>4, <3>2, EntryIsLevel
    <3>5. Len(history') = i /\ now' = t
      BY <3>1, <3>2 DEF Records
    <3> QED BY <3>1, <3>2, <3>3, <3>4, <3>5 DEF ScoreOK
  <2> QED BY <2>1, <2>2
<1>9. ASSUME NEW a \in Accounts, Clears(i, a)
      PROVE  ScoreOK(k)'
  <2>1. CASE k # a
    <3>1. WeightFor(i, k)' = 0 /\ ~Cleared(i, k)' /\ Records(i) /\ scores'[k] = scores[k]
      BY <1>1, <1>9, <2>1 DEF Clears
    <3> QED BY <1>1, <1>4, <3>1, ScoreKept
  <2>2. CASE k = a
    <3>1. scores'[k] = NoScore /\ Len(history') = i /\ Cleared(i, k)'
      BY <1>1, <1>9, <2>2 DEF Clears, Records
    <3>2. Level(k, i, 0)' = 0
      BY <1>1, <1>3, <3>1, EmptyNext DEF EmptyLevels
    <3> QED BY <1>1, <3>1, <3>2 DEF ScoreOK, NoScore
  <2> QED BY <2>1, <2>2
<1> QED BY <1>3, <1>5, <1>6, <1>7, <1>8, <1>9, RiskStep

LEMMA InitScore == Init => ScoreInv
<1> SUFFICES ASSUME Init, NEW k \in Keys PROVE ScoreOK(k)
  BY DEF ScoreInv
<1>1. DefencesTypeOK /\ Len(history) = 0
  BY InitType DEF Init
<1>2. Level(k, 0, 0) = 0
  BY <1>1, EmptyLevel DEF EmptyLevels
<1> QED BY <1>1, <1>2 DEF Init, ScoreOK, NoScore

\* The n-th record filled the level of k.
Fills(n, k) == WeightFor(n, k) > 0 /\ Level(k, n, history[n].at) >= Critical

LEMMA FillsStays ==
    ASSUME DefencesTypeOK, DefencesTypeOK', Grows, NEW k \in Keys, NEW n \in 1..Len(history)
    PROVE  /\ Fills(n, k)' <=> Fills(n, k)
           /\ history'[n] = history[n] /\ history[n].at \in Nat
<1>1. history'[n] = history[n] /\ n \in 0..Len(history)
  BY Numbered DEF Grows
<1>2. PICK t \in Nat : t = history[n].at
  BY Numbered, Numbers DEF Record
<1>3. Level(k, n, t)' = Level(k, n, t) /\ WeightFor(n, k)' = WeightFor(n, k)
  BY <1>1, LevelStays, GrowthKeeps
<1> QED BY <1>1, <1>2, <1>3 DEF Fills

\* A block is that of an event that filled the level, and outlasts each of them.
BlockOK(k) ==
    /\ blocks[k] # 0 =>
          \E n \in 1..Len(history) : Fills(n, k) /\ blocks[k] = history[n].at + BlockDuration
    /\ \A n \in 1..Len(history) :
          Fills(n, k) => history[n].at + BlockDuration <= larger(blocks[k], now)

BlockInv == \A k \in Keys : BlockOK(k)

\* A block that is kept, or forgotten when it is over.
LEMMA BlockKept ==
    ASSUME DefencesTypeOK, DefencesTypeOK', [Next]_vars, Grows, NEW k \in Keys, BlockOK(k),
           blocks'[k] = blocks[k] \/ (blocks'[k] = 0 /\ ~RiskBlocked(k)),
           \A n \in 1..Len(history') : n \notin 1..Len(history) => ~Fills(n, k)'
    PROVE  BlockOK(k)'
<1>1. /\ now \in Nat /\ now' \in Nat /\ now <= now' /\ blocks[k] \in Nat
      /\ Len(history) \in Nat /\ Len(history') \in Nat /\ Len(history) <= Len(history')
  BY ClockAdvances, Numbers DEF DefencesTypeOK, Grows
<1>2. larger(blocks[k], now) <= larger(blocks'[k], now')
  BY <1>1 DEF larger, RiskBlocked
<1>3. larger(blocks[k], now) \in Nat /\ larger(blocks'[k], now') \in Nat
  BY <1>1 DEF larger
<1>4. ASSUME NEW n \in 1..Len(history'), Fills(n, k)'
      PROVE  history'[n].at + BlockDuration <= larger(blocks'[k], now')
  <2>1. n \in 1..Len(history)
    BY <1>4
  <2>2. Fills(n, k) /\ history'[n].at = history[n].at /\ history[n].at \in Nat
    BY <1>4, <2>1, FillsStays
  <2>3. history[n].at + BlockDuration <= larger(blocks[k], now)
    BY <2>1, <2>2 DEF BlockOK
  <2>4. history[n].at + BlockDuration \in Nat
    BY <2>2, Numbers
  <2> QED BY <1>2, <1>3, <2>2, <2>3, <2>4
<1>5. ASSUME blocks'[k] # 0
      PROVE  \E n \in 1..Len(history') :
                Fills(n, k)' /\ blocks'[k] = history'[n].at + BlockDuration
  <2>1. PICK n \in 1..Len(history) : Fills(n, k) /\ blocks[k] = history[n].at + BlockDuration
    BY <1>5 DEF BlockOK
  <2>2. n \in 1..Len(history') /\ Fills(n, k)' /\ history'[n] = history[n]
    BY <1>1, <2>1, FillsStays
  <2> QED BY <1>5, <2>1, <2>2
<1> QED BY <1>4, <1>5 DEF BlockOK

LEMMA BlockStep ==
    ASSUME BaseInv, ScoreInv, BlockInv, [Next]_vars
    PROVE  BlockInv'
<1>1. /\ DefencesTypeOK /\ DefencesTypeOK' /\ HistoryInv /\ blocks \in [Keys -> Nat]
      /\ now \in Nat /\ Len(history) \in Nat /\ DOMAIN history = 1..Len(history)
  BY StepType, ClockAdvances DEF BaseInv, DefencesTypeOK
<1>2. PICK n \in Nat : n = Len(history)
  BY <1>1
<1>3. PICK i \in Nat : i = Len(history) + 1
  BY <1>1
<1> SUFFICES ASSUME NEW k \in Keys PROVE BlockOK(k)'
  BY DEF BlockInv
<1>4. BlockOK(k) /\ ScoreOK(k)
  BY DEF BlockInv, ScoreInv
<1>5. CASE Restart
  BY <1>5 DEF Restart, BlockOK
<1>6. CASE Rests
  <2>1. Grows /\ Len(history') = Len(history)
    BY <1>1, <1>6, StandsStill DEF Rests
  <2> QED BY <1>1, <1>4, <1>6, <2>1, BlockKept DEF Rests, Forgets
<1>7. ASSUME Records(i), ~Fills(i, k)',
             blocks'[k] = blocks[k] \/ (blocks'[k] = 0 /\ ~RiskBlocked(k))
      PROVE  BlockOK(k)'
  <2>1. \A m \in 1..Len(history') : m \notin 1..Len(history) => m = i
    BY <1>1, <1>7 DEF Records
  <2> QED BY <1>1, <1>4, <1>7, <2>1, BlockKept DEF Records
<1>8. WeightFor(i, k)' = 0 => ~Fills(i, k)'
  BY DEF Fills
<1>9. CASE Passes(i)
  BY <1>7, <1>8, <1>9 DEF Passes, Forgets
<1>10. CASE \E a \in Accounts : Clears(i, a)
  BY <1>7, <1>8, <1>10 DEF Clears
<1>11. ASSUME NEW e \in Keys, NEW w \in Nat, Weighs(i, e, w)
       PROVE  BlockOK(k)'
  <2>1. CASE k # e \/ w = 0
    <3>1. WeightFor(i, k)' = 0 /\ Records(i)
      BY <1>11, <2>1 DEF Weighs
    <3>2. blocks'[k] = blocks[k]
      BY <1>1, <1>11, <2>1 DEF Weighs, recordRiskEvent
    <3> QED BY <1>7, <1>8, <3>1, <3>2
  <2>2. CASE k = e /\ w # 0
    <3>1. /\ WeightFor(i, k)' = w /\ ~Cleared(i, k)' /\ Records(i)
          /\ blocks'[k] = IF getScoreEntry(k).score + w >= Critical
                          THEN now + BlockDuration ELSE blocks[k]
      BY <1>1, <1>11, <2>2 DEF Weighs, recordRiskEvent
    <3>2. PICK t \in Nat : t = now
      BY <1>1
    <3>3. Level(k, i, t)' = Level(k, n, t) + w
      BY <1>1, <1>2, <1>3, <3>1, <3>2, LevelRises DEF Records
    <3>4. getScoreEntry(k).score = Level(k, n, t)
      BY <1>1, <1>2, <1>4, <3>2, EntryIsLevel
    <3>5. /\ Len(history') = i /\ now' = t /\ history'[i].at = t /\ Grows
          /\ i \in 1..Len(history') /\ 1..Len(history') = (1..n) \cup {i}
      BY <1>2, <1>3, <3>1, <3>2 DEF Records
    <3>6. Fills(i, k)' <=> getScoreEntry(k).score + w >= Critical
      BY <2>2, <3>1, <3>3, <3>4, <3>5 DEF Fills
    <3>7. CASE ~Fills(i, k)'
      BY <1>7, <3>1, <3>6, <3>7
    <3>8. CASE Fills(i, k)'
      <4>1. blocks'[k] = t + BlockDuration /\ blocks'[k] \in Nat
        BY <3>1, <3>2, <3>6, <3>8, Numbers
      <4>2. \A m \in 1..Len(history') : history'[m].at \in Nat /\ history'[m].at <= t
        <5> SUFFICES ASSUME NEW m \in 1..Len(history')
                     PROVE  history'[m].at \in Nat /\ history'[m].at <= t
          OBVIOUS
        <5>1. CASE m = i
          BY <3>5, <5>1
        <5>2. CASE m \in 1..Len(history)
          <6>1. history'[m] = history[m] /\ history[m].at \in Nat
            BY <1>1, <3>5, <5>2, FillsStays
          <6> QED BY <1>1, <3>2, <5>2, <6>1 DEF HistoryInv
        <5> QED BY <1>2, <3>5, <5>1, <5>2
      <4>3. larger(blocks'[k], now') \in Nat /\ blocks'[k] <= larger(blocks'[k], now')
        BY <3>5, <4>1 DEF larger
      <4>4. \A m \in 1..Len(history') :
               history'[m].at + BlockDuration <= larger(blocks'[k], now')
        <5> SUFFICES ASSUME NEW m \in 1..Len(history')
                     PROVE  history'[m].at + BlockDuration <= larger(blocks'[k], now')
          OBVIOUS
        <5>1. \A b, x, y, z \in Nat : x <= t /\ y = t + b /\ y <= z => x + b <= z
          OBVIOUS
        <5> QED BY <4>1, <4>2, <4>3, <5>1, Numbers
      <4> QED BY <3>5, <3>8, <4>1, <4>4 DEF BlockOK
    <3> QED BY <3>7, <3>8
  <2> QED BY <2>1, <2>2
<1> QED BY <1>3, <1>5, <1>6, <1>9, <1>10, <1>11, RiskStep

RiskInv == BaseInv /\ ScoreInv /\ BlockInv

LEMMA InitRisk == Init => RiskInv
<1> SUFFICES ASSUME Init PROVE BlockInv
  BY InitBase, InitScore DEF RiskInv
<1> QED BY DEF Init, BlockInv, BlockOK

LEMMA RiskKept == RiskInv /\ [Next]_vars => RiskInv'
BY BaseStep, ScoreStep, BlockStep DEF RiskInv

\* Decay in steps of any length, at reads and writes of any order, comes to the decay of
\* the events themselves; and a key is blocked exactly while an event that filled its
\* level is less than a block old, although a success lowers the score and a session
\* clears it.
THEOREM RiskIsTold == Spec => []RiskMatchesEvents
<1>1. ASSUME RiskInv
      PROVE  RiskMatchesEvents
  <2> SUFFICES ASSUME NEW k \in Keys
               PROVE  /\ getScoreEntry(k).score = Level(k, Len(history), now)
                      /\ RiskBlocked(k) <=>
                            \E n \in DOMAIN history :
                                Fills(n, k) /\ history[n].at + BlockDuration > now
    BY DEF RiskMatchesEvents, Fills
  <2>1. /\ DefencesTypeOK /\ ScoreOK(k) /\ BlockOK(k) /\ DOMAIN history = 1..Len(history)
        /\ now \in Nat /\ blocks[k] \in Nat
    BY <1>1, Numbers DEF RiskInv, BaseInv, ScoreInv, BlockInv, DefencesTypeOK
  <2>2. ASSUME RiskBlocked(k)
        PROVE  \E n \in DOMAIN history : Fills(n, k) /\ history[n].at + BlockDuration > now
    <3>1. blocks[k] > now /\ blocks[k] # 0
      BY <2>1, <2>2 DEF RiskBlocked
    <3> QED BY <2>1, <3>1 DEF BlockOK
  <2>3. ASSUME NEW n \in DOMAIN history, Fills(n, k), history[n].at + BlockDuration > now
        PROVE  RiskBlocked(k)
    <3>1. history[n].at + BlockDuration <= larger(blocks[k], now)
      BY <2>1, <2>3 DEF BlockOK
    <3>2. history[n].at + BlockDuration \in Nat
      <4>1. history[n].at \in Time
        BY <2>1, Numbered DEF Record
      <4>2. \A t \in Time : t + BlockDuration \in Nat
        BY Numbers
      <4> QED BY <4>1, <4>2
    <3> QED BY <2>1, <2>3, <3>1, <3>2 DEF larger, RiskBlocked
  <2> QED BY <2>1, <2>2, <2>3, EntryIsLevel
<1> QED BY <1>1, InitRisk, RiskKept, PTL DEF Spec

-----------------------------------------------------------------------------
(* Guesses.                                                                 *)

\* Whoever was let in met no block: what had filled the level of the address by then
\* is a block ago.
LetInOK(c) ==
    req[c].phase = "password" =>
        \A n \in 1..req[c].since : Fills(n, Anyone) => history[n].at + BlockDuration <= now

LetInInv == \A c \in Clients : LetInOK(c)

LEMMA LetInStep ==
    ASSUME RiskInv, LetInInv, [Next]_vars
    PROVE  LetInInv'
<1> SUFFICES ASSUME NEW c \in Clients, req'[c].phase = "password",
                    NEW n \in 1..req'[c].since, Fills(n, Anyone)'
             PROVE  history'[n].at + BlockDuration <= now'
  BY DEF LetInInv, LetInOK
<1>1. /\ BaseInv /\ DefencesTypeOK /\ DefencesTypeOK' /\ Anyone \in Keys
      /\ now \in Nat /\ now' \in Nat /\ now <= now' /\ Len(history) \in Nat
      /\ req[c].since \in Nat /\ req[c].since <= Len(history)
  <2>1. BaseInv /\ DefencesTypeOK /\ RequestInv
    BY DEF RiskInv, BaseInv
  <2>2. req[c] \in Request /\ Len(history) \in Nat
    BY <2>1 DEF DefencesTypeOK
  <2> QED BY <2>1, <2>2, StepType, ClockAdvances, KeysApart DEF RequestInv, Request
<1>2. CASE LetIn(c)
  <2>1. history' = history /\ now' = now /\ ~RiskBlocked(Anyone) /\ n \in 1..Len(history)
    BY <1>2 DEF LetIn
  <2>2. Fills(n, Anyone) /\ history[n].at \in Nat
    BY <1>1, <2>1, StandsStill, FillsStays
  <2>3. history[n].at + BlockDuration <= larger(blocks[Anyone], now)
    BY <1>1, <2>1, <2>2 DEF RiskInv, BlockInv, BlockOK
  <2>4. larger(blocks[Anyone], now) = now
    BY <2>1 DEF larger, RiskBlocked
  <2> QED BY <2>1, <2>3, <2>4
<1>3. CASE req'[c] = req[c] /\ ~Restart
  <2>1. Grows
    BY <1>1, <1>3, StepRecords, StandsStill, NoteAdds
  <2>2. n \in 1..Len(history) /\ n \in 1..req[c].since
    BY <1>1, <1>3
  <2>3. Fills(n, Anyone) /\ history'[n] = history[n] /\ history[n].at \in Nat
    BY <1>1, <2>1, <2>2, FillsStays
  <2>4. history[n].at + BlockDuration <= now
    BY <1>3, <2>2, <2>3 DEF LetInInv, LetInOK
  <2>5. history[n].at + BlockDuration \in Nat
    BY <2>3, Numbers
  <2> QED BY <1>1, <2>3, <2>4, <2>5
<1> QED BY <1>1, <1>2, <1>3, RequestMoves DEF NoRequest, MovesOn

LEMMA InitLetIn == Init => LetInInv
BY DEF Init, LetInInv, LetInOK, NoRequest

\* Weights of the failures among the records from m to n: what weighs nothing at the
\* ends is left out.
LEMMA FailuresWeigh ==
    ASSUME DefencesTypeOK, NEW k \in Keys,
           NEW m \in 1..Len(history), NEW n \in m..Len(history),
           Weight(k, {j \in m..n : Failed(j)}) > 0
    PROVE  \E f, l \in m..n :
              /\ f <= l /\ WeightFor(f, k) > 0 /\ WeightFor(l, k) > 0
              /\ Weight(k, {j \in m..n : Failed(j)}) <= Weight(k, f..l)
<1> DEFINE S == {j \in m..n : Failed(j)}
           P == {j \in S : WeightFor(j, k) > 0}
           w == [i \in DOMAIN history |-> WeightFor(i, k)]
<1>1. /\ Len(history) \in Nat /\ DOMAIN history = 1..Len(history)
      /\ m..n \in SUBSET (1..Len(history)) /\ IsFiniteSet(m..n) /\ m \in Nat /\ n \in Nat
  BY Numbered, FS_Interval
<1>2. \A i \in 1..Len(history) : w[i] = WeightFor(i, k) /\ w[i] \in Nat
  BY <1>1, WeightForType
<1>3. IsFiniteSet(S) /\ S \in SUBSET (m..n) /\ IsFiniteSet(P) /\ P \in SUBSET S
  BY <1>1, FS_Subset
<1>4. P # {}
  <2>1. SUFFICES ASSUME P = {} PROVE FALSE
    OBVIOUS
  <2>2. \A i \in S : w[i] = 0
    BY <1>1, <1>2, <1>3, <2>1
  <2>3. SumFunctionOnSet(w, S) = 0
    <3> HIDE DEF w, S
    <3> QED BY <1>3, <2>2, SumOfNothing
  <2> QED BY <2>3 DEF Weight
<1>5. P \in SUBSET Nat /\ P \in SUBSET Int
  BY <1>1, <1>3
<1>6. PICK f \in P : \A y \in P : f <= y
  <2> HIDE DEF P
  <2> QED BY <1>4, <1>5, LeastNatural
<1>7. PICK l \in P : \A y \in P : y <= l
  <2> HIDE DEF P
  <2> QED BY <1>3, <1>4, <1>5, MaxIsLargest
<1>8. f \in m..n /\ l \in m..n /\ f <= l /\ WeightFor(f, k) > 0 /\ WeightFor(l, k) > 0
  BY <1>6, <1>7
<1>9. IsFiniteSet(f..l) /\ f..l \in SUBSET (1..Len(history))
  <2>1. f \in Int /\ l \in Int /\ f..l \in SUBSET (1..Len(history))
    BY <1>1, <1>8
  <2>2. IsFiniteSet(f..l)
    BY <2>1, FS_Interval
  <2> QED BY <2>1, <2>2
<1>10. \A x \in S \cup (f..l) : w[x] \in Nat
  BY <1>1, <1>2, <1>3, <1>9
<1>11. \A x \in S : w[x] > 0 => x \in f..l
  <2> SUFFICES ASSUME NEW x \in S, w[x] > 0 PROVE x \in f..l
    OBVIOUS
  <2>1. x \in P
    BY <1>1, <1>2, <1>3
  <2>2. f <= x /\ x <= l /\ x \in Nat
    BY <1>5, <1>6, <1>7, <2>1
  <2>3. f \in Nat /\ l \in Nat
    BY <1>1, <1>8
  <2> QED BY <2>2, <2>3
<1>12. SumFunctionOnSet(w, S) <= SumFunctionOnSet(w, f..l)
  <2> HIDE DEF w, S
  <2> QED BY <1>3, <1>9, <1>10, <1>11, SumCovered
<1>13. Weight(k, S) <= Weight(k, f..l)
  BY <1>12 DEF Weight
<1> HIDE DEF P, w
<1> QED BY <1>8, <1>13

\* Neither a login of one's own nor a second account buys guesses: each was let in while
\* the failures recorded by then, of any clients and within the duration of a block,
\* weighed less than what fills the level, less what decayed meanwhile.
THEOREM GuessesAreRationed == Spec => GuessesRationed
<1> DEFINE Rationed ==
       \A c \in Clients : Guesses(c) =>
          LET n == req[c].since
          IN  \A m \in 1..n : history[m].at > now - BlockDuration =>
                 Weight(Anyone, {j \in m..n : Failed(j)})
                 - Decay * (history[n].at - history[m].at) < Critical
<1>1. ASSUME RiskInv, LetInInv, [Next]_vars
      PROVE  Rationed
  <2> SUFFICES ASSUME NEW c \in Clients, Guesses(c), NEW n, n = req[c].since,
                      NEW m \in 1..n, history[m].at > now - BlockDuration,
                      ~(Weight(Anyone, {j \in m..n : Failed(j)})
                        - Decay * (history[n].at - history[m].at) < Critical)
               PROVE  FALSE
    OBVIOUS
  <2> DEFINE S == {j \in m..n : Failed(j)}
  <2>1. DefencesTypeOK /\ HistoryInv /\ RequestInv /\ Anyone \in Keys /\ now \in Nat
    BY <1>1, KeysApart, Numbers DEF RiskInv, BaseInv, DefencesTypeOK
  <2>2. req[c] \in Request /\ Len(history) \in Nat /\ DOMAIN history = 1..Len(history)
    BY <2>1 DEF DefencesTypeOK
  <2>3. n \in Nat /\ n <= Len(history) /\ m \in Nat /\ m <= n
    BY <2>1, <2>2 DEF RequestInv, Request
  <2>4. req[c].phase = "password"
    BY <1>1, <2>1, GuessIsFailure DEF FailLogin
  <2>5. \A i \in 1..Len(history) : history[i].at \in Nat
    BY <2>1, Numbered, Numbers DEF Record
  <2>6. \A i, j \in 1..Len(history) : i <= j => history[i].at <= history[j].at
    BY <2>1, <2>2 DEF HistoryInv
  <2>7. m \in 1..Len(history) /\ n \in m..Len(history) /\ n \in 1..Len(history)
    BY <2>2, <2>3
  <2>8. Decay * (history[n].at - history[m].at) \in Nat
    <3>1. history[n].at - history[m].at \in Nat
      <4>1. history[m].at \in Nat /\ history[n].at \in Nat
        BY <2>5, <2>7
      <4>2. history[m].at <= history[n].at
        BY <2>3, <2>6, <2>7
      <4> QED BY <4>1, <4>2
    <3>2. \A a, b \in Nat : a * b \in Nat
      OBVIOUS
    <3> QED BY <3>1, <3>2, Numbers
  <2>9. Weight(Anyone, S) \in Nat
    <3>1. IsFiniteSet(m..n)
      BY <2>3, FS_Interval
    <3>2. IsFiniteSet(S) /\ S \in SUBSET (1..Len(history))
      BY <2>2, <2>3, <3>1, FS_Subset
    <3> HIDE DEF S
    <3> QED BY <2>1, <3>2, WeightType
  <2>10. Weight(Anyone, S) >= Critical + Decay * (history[n].at - history[m].at)
         /\ Weight(Anyone, S) > 0
    <3> DEFINE p == Weight(Anyone, S)
               q == Decay * (history[n].at - history[m].at)
    <3>1. ~(p - q < Critical) /\ p \in Nat /\ q \in Nat
      BY <2>8, <2>9
    <3> HIDE DEF p, q
    <3>2. p >= Critical + q /\ p > 0
      BY <3>1, Numbers
    <3> QED BY <3>2 DEF p, q
  <2>11. PICK f \in m..n, l \in m..n :
            /\ f <= l /\ WeightFor(f, Anyone) > 0 /\ WeightFor(l, Anyone) > 0
            /\ Weight(Anyone, S) <= Weight(Anyone, f..l)
    BY <2>1, <2>7, <2>10, FailuresWeigh
  <2>12. /\ f \in 1..Len(history) /\ l \in 1..Len(history) /\ l \in 0..Len(history)
         /\ f \in 1..l /\ l \in 1..n /\ f \in 1..(Len(history) + 1) /\ m <= f /\ l <= n
    BY <2>2, <2>3, <2>11
  <2>13. PICK t \in Nat : t = history[l].at
    BY <2>5, <2>12
  <2>14. f \in Tails(Anyone, l)
    <3>1. \A i \in 1..Len(history) : history[i].account # Anyone
      BY <2>1, <2>2, KeysApart DEF HistoryInv
    <3>2. \A i \in f..l : i \in 1..Len(history)
      BY <2>2, <2>12
    <3> QED BY <2>11, <2>12, <3>1, <3>2 DEF Tails, Cleared
  <2>15. Left(Anyone, f, l, t) >= Critical
    <3> DEFINE a == history[m].at
               b == history[f].at
               z == history[n].at
               p == Weight(Anyone, S)
               q == Weight(Anyone, f..l)
    <3>1. a \in Nat /\ b \in Nat /\ z \in Nat /\ a <= b /\ b <= t /\ t <= z
      <4>1. a \in Nat /\ b \in Nat /\ z \in Nat
        BY <2>5, <2>7, <2>12
      <4>2. a <= b
        BY <2>6, <2>7, <2>12
      <4>3. b <= t
        BY <2>6, <2>11, <2>12, <2>13
      <4>4. t <= z
        BY <2>6, <2>7, <2>12, <2>13
      <4> QED BY <4>1, <4>2, <4>3, <4>4
    <3>2. q \in Nat /\ p \in Nat /\ p <= q /\ p >= Critical + Decay * (z - a)
      BY <2>1, <2>9, <2>10, <2>11, <2>12, WeightsKnown DEF WeightFacts
    <3>3. Left(Anyone, f, l, t) = q - Decay * (t - b)
      BY DEF Left
    <3> HIDE DEF a, b, z, p, q
    <3>4. Decay * (t - b) <= Decay * (z - a)
      <4>1. \A d, x, y \in Nat : x <= y => d * x <= d * y
        <5>1. \A d, x, y \in Nat : x <= y => d * (y - x) \in Nat /\ d * y = d * x + d * (y - x)
          OBVIOUS
        <5>2. \A d, x \in Nat : d * x \in Nat
          OBVIOUS
        <5> QED BY <5>1, <5>2
      <4>2. t - b \in Nat /\ z - a \in Nat /\ t - b <= z - a
        BY <3>1
      <4> QED BY <4>1, <4>2, Numbers
    <3>5. Decay * (t - b) \in Int /\ Decay * (z - a) \in Int
      BY <3>1, Numbers
    <3> QED BY <3>2, <3>3, <3>4, <3>5, Numbers
  <2>16. Fills(l, Anyone)
    <3>1. Level(Anyone, l, t) \in Nat /\ Left(Anyone, f, l, t) <= Level(Anyone, l, t)
      BY <2>1, <2>12, <2>14, LevelsKnown DEF LevelFacts, LevelIs
    <3>2. Left(Anyone, f, l, t) \in Int
      BY <2>1, <2>12, <2>14, LeftType
    <3>3. Level(Anyone, l, t) >= Critical
      BY <2>15, <3>1, <3>2, Numbers
    <3> QED BY <2>11, <2>13, <3>3 DEF Fills
  <2>17. t + BlockDuration <= now
    BY <1>1, <2>3, <2>4, <2>12, <2>13, <2>16 DEF LetInInv, LetInOK
  <2>18. history[m].at <= t /\ history[m].at \in Nat
    BY <2>5, <2>6, <2>7, <2>12, <2>13
  <2> QED BY <2>1, <2>17, <2>18, Numbers
<1>2. RiskInv /\ LetInInv /\ [Next]_vars => (RiskInv /\ LetInInv)'
  BY RiskKept, LetInStep
<1>3. RiskInv /\ LetInInv /\ [Next]_vars => [Rationed]_vars
  BY <1>1
<1> QED BY <1>2, <1>3, InitRisk, InitLetIn, PTL DEF Spec, GuessesRationed

=============================================================================
