------------------------- MODULE SecondFactorProofs -------------------------
(***************************************************************************)
(* Proofs about the second factor, for any requests, codes, lifetimes,     *)
(* limits and failures.                                                    *)
(***************************************************************************)
EXTENDS SecondFactorProperties, TLAPS

LEMMA Counts == CodeCount \in Nat /\ MaxFailed \in Nat /\ TokenLife \in Nat /\ MaxTime \in Nat
BY CountsAssumption

LEMMA BlankInAccount == NoSnapshot \in Account /\ NotSent \in Request
BY DEF NoSnapshot, NewAccount, Account, NotSent, Request, Kind, Phase, Reply

-----------------------------------------------------------------------------
(* The shape of requests.                                                  *)

CodeKinds == {"verify", "disable", "stepUp"}

RequestOK(r) ==
    /\ req[r].phase # "done" => req[r].reply = "none"
    /\ req[r].phase = "new" => req[r].token = None /\ req[r].cred = None
    /\ req[r].phase \in {"unused", "consume"} => req[r].token \in Secret
    /\ req[r].kind = "verify" => req[r].token \in Secret
    /\ req[r].kind = "login" => req[r].phase \in {"new", "find", "decide", "done"}
    /\ req[r].phase = "decide" => req[r].kind = "login"
    /\ req[r].kind \in {"login", "sensitive"} => req[r].cred = None
    /\ req[r].phase = "spend" => req[r].kind \in CodeKinds /\ req[r].cred \in req[r].snap.codes
    /\ req[r].phase = "store" /\ req[r].kind = "confirm" =>
           req[r].cred = req[r].snap.temp /\ req[r].cred # None

OtpInv == OtpTypeOK /\ \A r \in Requests : RequestOK(r)

LEMMA InitOtpInv == Init => OtpInv
<1> SUFFICES ASSUME Init PROVE OtpInv
  OBVIOUS
<1>1. account \in Account /\ signedIn \in BOOLEAN
  <2>1. ASSUME NEW role \in {"admin", "voter"}
        PROVE  NewAccount(role) \in Account /\ Enrolled(role) \in Account
    BY DEF NewAccount, Enrolled, Account, Secret, AllCodes
  <2> QED BY <2>1 DEF Init
<1>2. tokens \in [Secret -> Token]
  <2>1. NoToken \in Token /\ [kind |-> "challenge", expiresAt |-> TokenLife] \in Token
    BY Counts DEF NoToken, Token
  <2> QED BY <2>1 DEF Init
<1>3. req \in [Requests -> Request] /\ \A r \in Requests : req[r] = NotSent
  BY BlankInAccount DEF Init
<1>4. \A r \in Requests : RequestOK(r)
  BY <1>3 DEF RequestOK, NotSent
<1> QED BY <1>1, <1>2, <1>3, <1>4, Counts DEF Init, OtpInv, OtpTypeOK

\* The handler of r makes a step: nothing happens to the other requests.
Kept(r) ==
    /\ req' \in [Requests -> Request]
    /\ \A q \in Requests \ {r} : req'[q] = req[q]
    /\ req'[r].kind = req[r].kind /\ req'[r].token = req[r].token
    /\ req'[r].cred = req[r].cred

LEMMA Replaced ==
    ASSUME OtpTypeOK, NEW r \in Requests, NEW x \in Request, req' = [req EXCEPT ![r] = x],
           x.kind = req[r].kind, x.token = req[r].token, x.cred = req[r].cred
    PROVE  Kept(r) /\ req'[r] = x
BY DEF OtpTypeOK, Kept

LEMMA Moves ==
    ASSUME OtpTypeOK, NEW r \in Requests, NEW p \in Phase, Advance(r, p)
    PROVE  /\ Kept(r)
           /\ req'[r].phase = p
           /\ req'[r].snap = req[r].snap /\ req'[r].reply = req[r].reply
<1> DEFINE x == [req[r] EXCEPT !.phase = p]
<1>1. req[r] \in Request /\ req \in [Requests -> Request]
  BY DEF OtpTypeOK
<1>2. req' = [req EXCEPT ![r] = x]
  BY DEF Advance
<1>3. x \in Request /\ x.kind = req[r].kind /\ x.token = req[r].token /\ x.cred = req[r].cred
      /\ x.phase = p /\ x.snap = req[r].snap /\ x.reply = req[r].reply
  BY <1>1 DEF Request
<1> HIDE DEF x
<1> QED BY <1>2, <1>3, Replaced

LEMMA Answers ==
    ASSUME OtpTypeOK, NEW r \in Requests, NEW y \in Reply, Answer(r, y)
    PROVE  /\ Kept(r)
           /\ req'[r].phase = "done" /\ req'[r].snap = NoSnapshot /\ req'[r].reply = y
<1> DEFINE x == [req[r] EXCEPT !.phase = "done", !.snap = NoSnapshot, !.reply = y]
<1>1. req[r] \in Request /\ req \in [Requests -> Request]
  BY DEF OtpTypeOK
<1>2. req' = [req EXCEPT ![r] = x]
  BY DEF Answer
<1>3. x \in Request /\ x.kind = req[r].kind /\ x.token = req[r].token /\ x.cred = req[r].cred
      /\ x.phase = "done" /\ x.snap = NoSnapshot /\ x.reply = y
  BY <1>1, BlankInAccount DEF Request, Phase
<1> HIDE DEF x
<1> QED BY <1>2, <1>3, Replaced

LEMMA Finds ==
    ASSUME OtpTypeOK, NEW r \in Requests, Find(r)
    PROVE  /\ Kept(r)
           /\ req'[r].phase = AfterFind(req[r].kind, req[r].token)
           /\ req'[r].snap = account /\ req'[r].reply = req[r].reply
<1> DEFINE p == AfterFind(req[r].kind, req[r].token)
           x == [req[r] EXCEPT !.snap = account, !.phase = p]
<1>1. req[r] \in Request /\ req \in [Requests -> Request] /\ account \in Account
  BY DEF OtpTypeOK
<1>2. req' = [req EXCEPT ![r] = x]
  BY DEF Find
<1>3. x \in Request /\ x.kind = req[r].kind /\ x.token = req[r].token /\ x.cred = req[r].cred
      /\ x.phase = p /\ x.snap = account /\ x.reply = req[r].reply
  BY <1>1 DEF Request, Phase, AfterFind
<1> HIDE DEF x
<1> QED BY <1>2, <1>3, Replaced

\* A request as it is sent.
Sent(x) ==
    /\ x \in Request /\ x.reply = "none" /\ x.snap = NoSnapshot
    /\ x.phase \in {"find", "consume"}
    /\ x.phase = "consume" \/ x.kind = "verify" => x.token \in Secret
    /\ x.phase = "consume" => x.kind = "sensitive"
    /\ x.kind \in {"login", "sensitive"} => x.cred = None
    /\ x.token = None \/ (x.token \in Secret /\ tokens[x.token].kind # "none")
    /\ x.cred \in Shown \cup HandedOut \cup {None}

LEMMA Starts ==
    ASSUME OtpTypeOK, NEW r \in Requests, NEW kind \in Kind, NEW phase \in {"find", "consume"},
           NEW token \in Secret \cup {None}, NEW cred \in Shown \cup HandedOut \cup {None},
           token # None => tokens[token].kind # "none",
           phase = "consume" \/ kind = "verify" => token \in Secret,
           phase = "consume" => kind = "sensitive",
           kind \in {"login", "sensitive"} => cred = None,
           Start(r, kind, phase, token, cred)
    PROVE  Sent(req'[r]) /\ req' = [req EXCEPT ![r] = req'[r]]
<1> DEFINE x == [NotSent EXCEPT !.kind = kind, !.phase = phase, !.token = token, !.cred = cred]
<1>1. req \in [Requests -> Request] /\ Shown \cup HandedOut \subseteq Secret \cup Code
  BY DEF OtpTypeOK, Shown, HandedOut, Secret
<1>2. req' = [req EXCEPT ![r] = x]
  BY DEF Start
<1>3. Sent(x)
  BY <1>1, BlankInAccount DEF Sent, NotSent, Request, Phase
<1> HIDE DEF x
<1> QED BY <1>1, <1>2, <1>3

LEMMA Sends ==
    ASSUME OtpTypeOK, NEW r \in Requests, Send(r)
    PROVE  /\ req' \in [Requests -> Request] /\ Sent(req'[r])
           /\ \A q \in Requests \ {r} : req'[q] = req[q]
<1>1. /\ \A k \in {"challenge", "stepUp"} : \A t \in Valid(k) :
             t \in Secret /\ t \in Secret \cup {None} /\ tokens[t].kind # "none"
      /\ None \in Secret \cup {None} /\ None \in Shown \cup HandedOut \cup {None}
      /\ Shown \cup {None} \subseteq Shown \cup HandedOut \cup {None}
  BY DEF Valid
<1>2. /\ {"login", "verify", "setup", "confirm", "disable", "stepUp", "sensitive"} \subseteq Kind
      /\ None \notin Secret
  BY NamesAssumption DEF Kind, Secret
<1>3. Sent(req'[r]) /\ req' = [req EXCEPT ![r] = req'[r]]
  <2>1. CASE Start(r, "login", "find", None, None)
    BY <1>1, <1>2, <2>1, Starts
  <2>2. ASSUME NEW t \in Valid("challenge"), NEW c \in Shown \cup HandedOut \cup {None},
               Start(r, "verify", "find", t, c)
        PROVE  Sent(req'[r]) /\ req' = [req EXCEPT ![r] = req'[r]]
    BY <1>1, <1>2, <2>2, Starts
  <2>3. ASSUME NEW t \in Valid("challenge") \cup {None},
               \/ Start(r, "setup", "find", t, None)
               \/ \E c \in Shown \cup {None} : Start(r, "confirm", "find", t, c)
        PROVE  Sent(req'[r]) /\ req' = [req EXCEPT ![r] = req'[r]]
    BY <1>1, <1>2, <2>3, Starts
  <2>4. ASSUME NEW c \in Shown \cup HandedOut \cup {None},
               Start(r, "disable", "find", None, c) \/ Start(r, "stepUp", "find", None, c)
        PROVE  Sent(req'[r]) /\ req' = [req EXCEPT ![r] = req'[r]]
    BY <1>1, <1>2, <2>4, Starts
  <2>5. ASSUME NEW t \in Valid("stepUp"), Start(r, "sensitive", "consume", t, None)
        PROVE  Sent(req'[r]) /\ req' = [req EXCEPT ![r] = req'[r]]
    BY <1>1, <1>2, <2>5, Starts
  <2> QED BY <2>1, <2>2, <2>3, <2>4, <2>5 DEF Send
<1>4. req'[r] \in Request /\ req \in [Requests -> Request]
  BY <1>3 DEF Sent, OtpTypeOK
<1> QED BY <1>3, <1>4

\* Saves keep accounts accounts.
LEMMA CodesSaved ==
    ASSUME NEW a \in Account, NEW left \in SUBSET Code, NEW v \in Nat
    PROVE  [a EXCEPT !.codes = left, !.version = v] \in Account
BY DEF Account

LEMMA FieldsCleared ==
    ASSUME NEW a \in Account, NEW b \in BOOLEAN
    PROVE  [a EXCEPT !.secret = None, !.temp = None, !.enabled = b] \in Account
BY DEF Account

\* The save of a spent code: the document in memory follows the stored one.
Spent(r) ==
    /\ Kept(r)
    /\ req'[r].snap = [req[r].snap EXCEPT !.codes = req[r].snap.codes \ {req[r].cred},
                                          !.version = req[r].snap.version + 1]
    /\ req'[r].phase = AfterCode(req[r].kind) /\ req'[r].reply = req[r].reply

LEMMA Spends ==
    ASSUME OtpInv, NEW r \in Requests, SpendCode(r)
    PROVE  \/ /\ VersionMatches(r) /\ Spent(r) /\ ResetAttempts(r)
              /\ account' = [account EXCEPT !.codes = req[r].snap.codes \ {req[r].cred},
                                            !.version = account.version + 1]
           \/ /\ FailCode(r, "error")
              /\ \/ account' = account
                 \/ /\ VersionMatches(r)
                    /\ account' = [account EXCEPT
                                      !.codes = req[r].snap.codes \ {req[r].cred},
                                      !.version = account.version + 1]
<1> DEFINE left == req[r].snap.codes \ {req[r].cred}
           moved == req' = [req EXCEPT ![r].snap.codes = left, ![r].snap.version = @ + 1,
                                       ![r].phase = AfterCode(req[r].kind)]
           s == [req[r].snap EXCEPT !.codes = left, !.version = req[r].snap.version + 1]
           x == [req[r] EXCEPT !.snap = s, !.phase = AfterCode(req[r].kind)]
<1>1. /\ req[r] \in Request /\ req \in [Requests -> Request] /\ req[r].snap \in Account
      /\ req[r].kind \in CodeKinds /\ OtpTypeOK
  BY DEF OtpInv, OtpTypeOK, RequestOK, SpendCode, Request
<1>2. s \in Account /\ AfterCode(req[r].kind) \in Phase
  <2>1. left \in SUBSET Code /\ req[r].snap.version + 1 \in Nat
    BY <1>1 DEF Account
  <2> HIDE DEF left
  <2>2. s \in Account
    BY <1>1, <2>1, CodesSaved
  <2> QED BY <1>1, <2>2 DEF AfterCode, CodeKinds, Phase
<1>3. ASSUME moved PROVE Spent(r)
  <2>1. req' = [req EXCEPT ![r] = x]
    BY <1>1, <1>3 DEF Request, Account
  <2>2. x \in Request /\ x.kind = req[r].kind /\ x.token = req[r].token
        /\ x.cred = req[r].cred /\ x.phase = AfterCode(req[r].kind) /\ x.snap = s
        /\ x.reply = req[r].reply
    BY <1>1, <1>2 DEF Request
  <2> HIDE DEF x
  <2> QED BY <1>1, <2>1, <2>2, Replaced DEF Spent
<1> QED BY <1>3 DEF SpendCode

\* A code found wrong, or not saved.
LEMMA FailCodes ==
    ASSUME OtpTypeOK, NEW r \in Requests, NEW y \in {"invalid", "error"}, FailCode(r, y)
    PROVE  /\ Kept(r) /\ attempts' \in Nat
           /\ req'[r].phase = "done" /\ req'[r].snap = NoSnapshot
           /\ req'[r].reply \in {"limited", y}
<1>1. attempts \in Nat /\ {"limited", "invalid", "error"} \subseteq Reply
  BY DEF OtpTypeOK, Reply
<1> QED BY <1>1, Answers DEF FailCode

LEMMA HandlerKeepsOtpInv ==
    ASSUME OtpInv, NEW r \in Requests, Kept(r), RequestOK(r)', now' = now,
           account' \in Account, tokens' \in [Secret -> Token], usedTokens' \subseteq UsedToken,
           attempts' \in Nat, signedIn' \in BOOLEAN, opened' \subseteq Opening
    PROVE  OtpInv'
BY DEF OtpInv, OtpTypeOK, Kept, RequestOK

\* An answered request has nothing left to respect.
LEMMA AnsweredOK ==
    ASSUME OtpTypeOK, NEW r \in Requests, RequestOK(r), NEW y \in Reply, Answer(r, y)
    PROVE  Kept(r) /\ RequestOK(r)'
BY Answers DEF RequestOK, Kept

LEMMA TypesOfRequest ==
    ASSUME OtpInv, NEW r \in Requests
    PROVE  /\ OtpTypeOK /\ RequestOK(r) /\ req[r] \in Request /\ req[r].snap \in Account
           /\ account \in Account /\ tokens \in [Secret -> Token] /\ attempts \in Nat
           /\ usedTokens \subseteq UsedToken /\ signedIn \in BOOLEAN /\ opened \subseteq Opening
           /\ now \in Nat /\ now \in 0..MaxTime
BY Counts DEF OtpInv, OtpTypeOK, Request

LEMMA HandOutTypes ==
    ASSUME OtpInv, NEW r \in Requests, NEW k \in {"challenge", "stepUp"}, HandOut(r, k)
    PROVE  tokens' \in [Secret -> Token]
<1>1. [kind |-> k, expiresAt |-> now + TokenLife] \in Token /\ r \in Secret
  BY TypesOfRequest, Counts DEF Token, Secret
<1> QED BY <1>1, TypesOfRequest DEF HandOut

LEMMA CodeStepsKeepOtpInv ==
    ASSUME OtpInv, NEW r \in Requests,
           CheckCode(r) \/ SpendCode(r) \/ RecordFailure(r) \/ Fails(r)
    PROVE  OtpInv'
<1>1. RequestOK(r) /\ OtpTypeOK
  BY TypesOfRequest
<1>2. CASE CheckCode(r)
  <2>1. CASE Answer(r, "limited") /\ UNCHANGED attempts
    <3>1. Kept(r) /\ RequestOK(r)'
      BY <1>1, <2>1, AnsweredOK DEF Reply
    <3> QED BY <1>2, <2>1, <3>1, TypesOfRequest, HandlerKeepsOtpInv DEF CheckCode
  <2>2. CASE Advance(r, AfterCode(req[r].kind)) /\ ResetAttempts(r)
    <3>1. req[r].kind \in CodeKinds /\ AfterCode(req[r].kind) \in Phase /\ attempts' \in Nat
      BY <1>2, <2>2, TypesOfRequest DEF CheckCode, CodeKinds, AfterCode, Phase, ResetAttempts
    <3>2. Kept(r) /\ RequestOK(r)'
      BY <1>1, <1>2, <2>2, <3>1, Moves DEF RequestOK, CheckCode, CodeKinds, AfterCode, Kept
    <3> QED BY <1>2, <3>1, <3>2, TypesOfRequest, HandlerKeepsOtpInv DEF CheckCode
  <2>3. CASE Advance(r, "spend") /\ req[r].cred \in req[r].snap.codes /\ UNCHANGED attempts
    <3>1. Kept(r) /\ RequestOK(r)'
      BY <1>1, <1>2, <2>3, Moves DEF RequestOK, CheckCode, CodeKinds, Phase, Kept
    <3> QED BY <1>2, <2>3, <3>1, TypesOfRequest, HandlerKeepsOtpInv DEF CheckCode
  <2>4. CASE Advance(r, "failed") /\ UNCHANGED attempts
    <3>1. Kept(r) /\ RequestOK(r)'
      BY <1>1, <1>2, <2>4, Moves DEF RequestOK, CheckCode, Phase, Kept
    <3> QED BY <1>2, <2>4, <3>1, TypesOfRequest, HandlerKeepsOtpInv DEF CheckCode
  <2> QED BY <1>2, <2>1, <2>2, <2>3, <2>4 DEF CheckCode
<1>3. CASE SpendCode(r)
  <2>1. account' \in Account
    <3>1. account.version + 1 \in Nat /\ req[r].snap.codes \ {req[r].cred} \in SUBSET Code
      BY TypesOfRequest DEF Account
    <3>2. [account EXCEPT !.codes = req[r].snap.codes \ {req[r].cred},
                          !.version = account.version + 1] \in Account
      BY <3>1, TypesOfRequest, CodesSaved
    <3> QED BY <1>3, <3>2, Spends, TypesOfRequest
  <2>2. CASE Spent(r) /\ ResetAttempts(r)
    <3>1. attempts' \in Nat
      BY <2>2, TypesOfRequest DEF ResetAttempts
    <3>2. RequestOK(r)'
      BY <1>1, <1>3, <2>2 DEF RequestOK, SpendCode, Spent, Kept, AfterCode, CodeKinds
    <3> QED BY <1>3, <2>1, <2>2, <3>1, <3>2, TypesOfRequest, HandlerKeepsOtpInv
        DEF SpendCode, Spent
  <2>3. CASE FailCode(r, "error")
    <3>1. Kept(r) /\ RequestOK(r)' /\ attempts' \in Nat
      BY <1>1, <2>3, FailCodes DEF RequestOK, Kept
    <3> QED BY <1>3, <2>1, <3>1, TypesOfRequest, HandlerKeepsOtpInv DEF SpendCode
  <2> QED BY <1>3, <2>2, <2>3, Spends
<1>4. CASE RecordFailure(r) \/ Fails(r)
  <2>1. Kept(r) /\ RequestOK(r)' /\ attempts' \in Nat
    BY <1>1, <1>4, FailCodes DEF RecordFailure, Fails, RequestOK, Kept
  <2> QED BY <1>4, <2>1, TypesOfRequest, HandlerKeepsOtpInv DEF RecordFailure, Fails
<1> QED BY <1>2, <1>3, <1>4

LEMMA EnrolmentStepsKeepOtpInv ==
    ASSUME OtpInv, NEW r \in Requests,
           StartSetup(r) \/ CheckSetup(r) \/ StoreSecret(r) \/ Disable(r)
    PROVE  OtpInv'
<1>1. RequestOK(r) /\ OtpTypeOK /\ r \in Secret
  BY TypesOfRequest DEF Secret
<1>2. CASE StartSetup(r)
  <2>1. account' \in Account
    BY <1>1, <1>2, TypesOfRequest DEF StartSetup, Account
  <2>2. Kept(r) /\ RequestOK(r)'
    BY <1>1, <1>2, AnsweredOK DEF StartSetup, Reply
  <2> QED BY <1>2, <2>1, <2>2, TypesOfRequest, HandlerKeepsOtpInv DEF StartSetup
<1>3. CASE CheckSetup(r)
  <2>1. Kept(r) /\ RequestOK(r)'
    BY SMTT(30), <1>1, <1>3, AnsweredOK, Moves DEF CheckSetup, Reply, Phase, RequestOK, Kept
  <2> QED BY <1>3, <2>1, TypesOfRequest, HandlerKeepsOtpInv DEF CheckSetup
<1>4. CASE StoreSecret(r)
  <2>1. account' \in Account
    <3>1. /\ account.role \in {"admin", "voter"} /\ req[r].snap.temp \in Secret \cup {None}
          /\ (account.enabled \/ ~req[r].snap.enabled) \in BOOLEAN
          /\ AllCodes(r) \in SUBSET Code /\ account.version + 1 \in Nat
      BY TypesOfRequest DEF Account, AllCodes
    <3>2. [role |-> account.role, secret |-> req[r].snap.temp, temp |-> None,
           enabled |-> account.enabled \/ ~req[r].snap.enabled,
           codes |-> AllCodes(r), version |-> account.version + 1] \in Account
      BY <3>1 DEF Account
    <3> QED BY <1>4, <3>2, TypesOfRequest DEF StoreSecret
  <2>2. req[r].token = None \/ req[r].token \in Secret
    BY TypesOfRequest DEF Request
  <2>3. Kept(r) /\ RequestOK(r)'
    BY <1>1, <1>4, <2>2, AnsweredOK, Moves DEF StoreSecret, Reply, Phase, RequestOK, Kept
  <2> QED BY <1>4, <2>1, <2>3, TypesOfRequest, HandlerKeepsOtpInv DEF StoreSecret
<1>5. CASE Disable(r)
  <2>1. account' \in Account
    <3> DEFINE b == account.enabled /\ ~req[r].snap.enabled
               cleared == [account EXCEPT !.secret = None, !.temp = None, !.enabled = b]
    <3>1. cleared \in Account
      <4>1. b \in BOOLEAN
        BY TypesOfRequest DEF Account
      <4> HIDE DEF b
      <4> QED BY <4>1, TypesOfRequest, FieldsCleared
    <3>2. \/ account' = account
          \/ account' = cleared
          \/ account' = [cleared EXCEPT !.codes = {}, !.version = cleared.version + 1]
      BY <1>5 DEF Disable
    <3> HIDE DEF cleared
    <3>3. cleared.version + 1 \in Nat /\ {} \in SUBSET Code
      BY <3>1 DEF Account
    <3>4. [cleared EXCEPT !.codes = {}, !.version = cleared.version + 1] \in Account
      BY <3>1, <3>3, CodesSaved
    <3> QED BY <3>1, <3>2, <3>4, TypesOfRequest
  <2>2. Kept(r) /\ RequestOK(r)'
    BY <1>1, <1>5, AnsweredOK DEF Disable, Reply
  <2> QED BY <1>5, <2>1, <2>2, TypesOfRequest, HandlerKeepsOtpInv DEF Disable
<1> QED BY <1>2, <1>3, <1>4, <1>5

LEMMA TokenStepsKeepOtpInv ==
    ASSUME OtpInv, NEW r \in Requests,
           Login(r) \/ Find(r) \/ AssertUnused(r) \/ IssueStepUp(r) \/ ConsumeToken(r) \/ Lose(r)
    PROVE  OtpInv'
<1>1. RequestOK(r) /\ OtpTypeOK
  BY TypesOfRequest
<1>2. CASE Login(r)
  <2>1. Kept(r) /\ RequestOK(r)'
    BY <1>1, <1>2, AnsweredOK DEF Login, OpenSession, Reply
  <2>2. tokens' \in [Secret -> Token] /\ signedIn' \in BOOLEAN
    BY <1>2, TypesOfRequest, HandOutTypes DEF Login, OpenSession
  <2> QED BY <1>2, <2>1, <2>2, TypesOfRequest, HandlerKeepsOtpInv DEF Login
<1>3. CASE Find(r)
  <2>1. req[r].token = None \/ req[r].token \in Secret
    BY TypesOfRequest DEF Request
  <2>2. Kept(r) /\ RequestOK(r)'
    <3>1. /\ Kept(r) /\ req'[r].reply = "none"
          /\ req'[r].phase \in {"decide", "unused", "check"}
          /\ req'[r].phase = "unused" => req[r].token # None
          /\ req'[r].phase = "decide" <=> req[r].kind = "login"
      <4>1. req[r].reply = "none"
        BY <1>1, <1>3 DEF Find, RequestOK
      <4>2. /\ Kept(r) /\ req'[r].phase = AfterFind(req[r].kind, req[r].token)
            /\ req'[r].reply = req[r].reply
        BY <1>1, <1>3, Finds
      <4> QED BY <4>1, <4>2 DEF AfterFind
    <3> QED BY <1>1, <2>1, <3>1 DEF RequestOK, Kept
  <2> QED BY <1>3, <2>2, TypesOfRequest, HandlerKeepsOtpInv DEF Find
<1>4. CASE AssertUnused(r)
  <2>1. Kept(r) /\ RequestOK(r)'
    BY <1>1, <1>4, AnsweredOK, Moves DEF AssertUnused, Reply, Phase, RequestOK, Kept
  <2> QED BY <1>4, <2>1, TypesOfRequest, HandlerKeepsOtpInv DEF AssertUnused
<1>5. CASE IssueStepUp(r)
  <2>1. Kept(r) /\ RequestOK(r)'
    BY <1>1, <1>5, AnsweredOK DEF IssueStepUp, Reply
  <2>2. tokens' \in [Secret -> Token]
    BY <1>5, HandOutTypes DEF IssueStepUp
  <2> QED BY <1>5, <2>1, <2>2, TypesOfRequest, HandlerKeepsOtpInv DEF IssueStepUp
<1>6. CASE ConsumeToken(r)
  <2>1. Kept(r) /\ RequestOK(r)'
    BY <1>1, <1>6, AnsweredOK DEF ConsumeToken, OpenSession, Reply
  <2>2. req[r].token \in Secret
    BY <1>1, <1>6 DEF ConsumeToken, RequestOK
  <2>3. tokens[req[r].token].expiresAt \in 0..(MaxTime + TokenLife)
    BY <2>2, TypesOfRequest DEF Token
  <2>4. usedTokens' \subseteq UsedToken /\ opened' \subseteq Opening /\ signedIn' \in BOOLEAN
    <3>1. [token |-> req[r].token, expiresAt |-> tokens[req[r].token].expiresAt] \in UsedToken
      BY <2>2, <2>3 DEF UsedToken
    <3>2. [token |-> req[r].token, by |-> r, at |-> now] \in Opening
      BY <2>2, TypesOfRequest DEF Opening
    <3> QED BY <1>6, <3>1, <3>2, TypesOfRequest DEF ConsumeToken, OpenSession, Consume, Open
  <2> QED BY <1>6, <2>1, <2>4, TypesOfRequest, HandlerKeepsOtpInv DEF ConsumeToken
<1>7. CASE Lose(r)
  <2>1. Kept(r) /\ RequestOK(r)'
    BY <1>1, <1>7, AnsweredOK DEF Lose, Reply
  <2> QED BY <1>7, <2>1, TypesOfRequest, HandlerKeepsOtpInv DEF Lose
<1> QED BY <1>2, <1>3, <1>4, <1>5, <1>6, <1>7

LEMMA OtpInvInductive == OtpInv /\ [Next]_vars => OtpInv'
<1> SUFFICES ASSUME OtpInv, [Next]_vars PROVE OtpInv'
  OBVIOUS
<1>1. ASSUME NEW r \in Requests, Send(r) PROVE OtpInv'
  <2>1. RequestOK(r)'
    BY <1>1, Sends, TypesOfRequest DEF RequestOK, Sent
  <2>2. ASSUME NEW q \in Requests \ {r} PROVE RequestOK(q)'
    BY <1>1, Sends, TypesOfRequest DEF RequestOK
  <2> QED BY <1>1, <2>1, <2>2, Sends, TypesOfRequest DEF Send, OtpInv, OtpTypeOK
<1>2. CASE WindowEnds \/ ExpireToken
  BY <1>2 DEF WindowEnds, ExpireToken, OtpInv, OtpTypeOK, RequestOK
<1>3. CASE Tick
  BY <1>3, Counts DEF Tick, OtpInv, OtpTypeOK, RequestOK
<1>4. CASE UNCHANGED vars
  BY <1>4 DEF vars, OtpInv, OtpTypeOK, RequestOK
<1> QED BY <1>1, <1>2, <1>3, <1>4, CodeStepsKeepOtpInv, EnrolmentStepsKeepOtpInv,
           TokenStepsKeepOtpInv DEF Next, Serve, Quiescent

\* Whatever overlaps and whatever fails, account, tokens and requests stay
\* well-formed.
THEOREM OtpTypeCorrect == Spec => []OtpTypeOK
<1>1. OtpInv => OtpTypeOK
  BY DEF OtpInv
<1> QED BY <1>1, InitOtpInv, OtpInvInductive, PTL DEF Spec

-----------------------------------------------------------------------------
(* Steps seen from a request.                                              *)

Handler(r) == Send(r) \/ Serve(r) \/ Fails(r) \/ Lose(r)

LEMMA HandlerKept ==
    ASSUME OtpInv, NEW r \in Requests, Serve(r) \/ Fails(r) \/ Lose(r)
    PROVE  Kept(r)
<1>1. OtpTypeOK /\ RequestOK(r)
  BY TypesOfRequest
<1>2. CASE Login(r) \/ AssertUnused(r) \/ StartSetup(r) \/ CheckSetup(r)
  BY <1>1, <1>2, Answers, Moves
  DEF Login, OpenSession, AssertUnused, StartSetup, CheckSetup, Reply, Phase
<1>3. CASE StoreSecret(r) \/ Disable(r) \/ IssueStepUp(r) \/ ConsumeToken(r) \/ Lose(r)
  BY <1>1, <1>3, Answers, Moves
  DEF StoreSecret, Disable, IssueStepUp, ConsumeToken, OpenSession, Lose, Reply, Phase
<1>4. CASE Find(r)
  BY <1>1, <1>4, Finds
<1>5. CASE CheckCode(r)
  BY <1>1, <1>5, Answers, Moves DEF CheckCode, AfterCode, Reply, Phase
<1>6. CASE SpendCode(r) \/ RecordFailure(r) \/ Fails(r)
  BY <1>1, <1>6, Spends, FailCodes DEF Spent, RecordFailure, Fails
<1> QED BY <1>2, <1>3, <1>4, <1>5, <1>6 DEF Serve

LEMMA OneHandlerMoves ==
    ASSUME OtpInv, [Next]_vars, NEW q \in Requests
    PROVE  req'[q] = req[q] \/ Handler(q)
<1>1. ASSUME NEW r \in Requests, Handler(r), r # q PROVE req'[q] = req[q]
  BY <1>1, HandlerKept, Sends, TypesOfRequest DEF Handler, Kept
<1>2. CASE WindowEnds \/ ExpireToken \/ Tick \/ UNCHANGED vars
  BY <1>2 DEF WindowEnds, ExpireToken, Tick, vars
<1> QED BY <1>1, <1>2 DEF Next, Handler, Quiescent

LEMMA DoneIsDone ==
    ASSUME NEW q \in Requests, req[q].phase = "done"
    PROVE  ~Handler(q)
BY DEF Handler, Send, Serve, Login, Find, AssertUnused, CheckCode, SpendCode, RecordFailure,
   StartSetup, CheckSetup, StoreSecret, Disable, IssueStepUp, ConsumeToken, Fails, Lose

\* Tokens are consumed by one action.
LEMMA UsedTokensStep ==
    ASSUME [Next]_vars
    PROVE  usedTokens' \subseteq usedTokens \/ \E r \in Requests : ConsumeToken(r)
<1>1. CASE WindowEnds \/ ExpireToken \/ Tick \/ UNCHANGED vars
  BY <1>1 DEF WindowEnds, ExpireToken, Tick, vars
<1>2. ASSUME NEW r \in Requests, Handler(r), ~ConsumeToken(r) PROVE usedTokens' = usedTokens
  BY <1>2 DEF Handler, Send, Serve, Login, Find, AssertUnused, CheckCode, SpendCode,
     RecordFailure, StartSetup, CheckSetup, StoreSecret, Disable, IssueStepUp, Fails, Lose
<1> QED BY <1>1, <1>2 DEF Next, Handler, Quiescent

-----------------------------------------------------------------------------
(* Refusals as a replay.                                                   *)

SpentBySome(t) ==
    \E q \in Requests :
        /\ req[q].token = t
        /\ req[q].phase = "done"
        /\ req[q].reply \in {"session", "allowed", "error"}

ReplayInv ==
    /\ OtpInv
    /\ \A t \in Secret : Consumed(t) => SpentBySome(t)
    /\ \A r \in Requests :
          req[r].phase = "done" /\ req[r].reply = "replay" => SpentBySome(req[r].token)

LEMMA SpentStays ==
    ASSUME OtpInv, [Next]_vars, NEW t, SpentBySome(t)
    PROVE  SpentBySome(t)'
<1>1. PICK q \in Requests :
         /\ req[q].token = t
         /\ req[q].phase = "done"
         /\ req[q].reply \in {"session", "allowed", "error"}
  BY DEF SpentBySome
<1>2. req'[q] = req[q]
  BY <1>1, DoneIsDone, OneHandlerMoves
<1> QED BY <1>1, <1>2 DEF SpentBySome

\* Only a request whose token is consumed is told that it is a replay.
LEMMA ReplayAnswer ==
    ASSUME OtpInv, NEW r \in Requests, Handler(r), req'[r].phase = "done",
           req'[r].reply = "replay"
    PROVE  /\ req'[r].token = req[r].token /\ req[r].token \in Secret
           /\ Consumed(req[r].token)
<1>1. OtpTypeOK /\ RequestOK(r) /\ OtpInv
  BY TypesOfRequest
<1>2. CASE Send(r) \/ Find(r)
  BY <1>1, <1>2, Sends, Finds DEF Sent, AfterFind
<1>3. CASE AssertUnused(r) \/ ConsumeToken(r)
  BY <1>1, <1>3, Answers, Moves
  DEF AssertUnused, ConsumeToken, OpenSession, Reply, Phase, RequestOK, Kept
<1>4. CASE Login(r) \/ StartSetup(r) \/ CheckSetup(r) \/ StoreSecret(r)
  BY <1>1, <1>4, Answers, Moves
  DEF Login, OpenSession, StartSetup, CheckSetup, StoreSecret, Reply, Phase
<1>5. CASE Disable(r) \/ IssueStepUp(r) \/ Lose(r)
  BY <1>1, <1>5, Answers DEF Disable, IssueStepUp, Lose, Reply
<1>6. CASE CheckCode(r)
  BY <1>1, <1>6, Answers, Moves DEF CheckCode, AfterCode, Reply, Phase
<1>7. CASE SpendCode(r) \/ RecordFailure(r) \/ Fails(r)
  <2>1. CASE Spent(r)
    BY <1>1, <1>7, <2>1 DEF Spent, AfterCode
  <2>2. CASE FailCode(r, "error") \/ FailCode(r, "invalid")
    BY <1>1, <2>2, FailCodes
  <2> QED BY <1>1, <1>7, <2>1, <2>2, Spends DEF RecordFailure, Fails
<1> QED BY <1>2, <1>3, <1>4, <1>5, <1>6, <1>7 DEF Handler, Serve

LEMMA ReplayInvInductive == ReplayInv /\ [Next]_vars => ReplayInv'
<1> SUFFICES ASSUME ReplayInv, [Next]_vars PROVE ReplayInv'
  OBVIOUS
<1>1. OtpInv /\ OtpInv' /\ OtpTypeOK
  BY OtpInvInductive DEF ReplayInv, OtpInv
<1>2. ASSUME NEW t \in Secret, Consumed(t)' PROVE SpentBySome(t)'
  <2>1. CASE Consumed(t)
    BY <1>1, <2>1, SpentStays DEF ReplayInv
  <2>2. CASE ~Consumed(t)
    <3>1. PICK r \in Requests : ConsumeToken(r)
      BY <1>2, <2>2, UsedTokensStep DEF Consumed
    <3>2. req[r].token = t
      BY <1>2, <2>2, <3>1 DEF Consumed, ConsumeToken, Consume
    <3>3. /\ req'[r].token = t /\ req'[r].phase = "done"
          /\ req'[r].reply \in {"session", "allowed", "error"}
      BY <1>1, <2>2, <3>1, <3>2, Answers DEF ConsumeToken, OpenSession, Reply, Kept
    <3> QED BY <3>3 DEF SpentBySome
  <2> QED BY <2>1, <2>2
<1>3. ASSUME NEW r \in Requests, req'[r].phase = "done", req'[r].reply = "replay",
             NEW t, t = req[r].token, req'[r].token = t
      PROVE  SpentBySome(t)'
  <2>1. CASE req'[r] = req[r]
    <3>1. SpentBySome(t)
      BY <1>3, <2>1 DEF ReplayInv
    <3> QED BY <1>1, <3>1, SpentStays
  <2>2. CASE Handler(r)
    <3>1. SpentBySome(t)
      BY <1>1, <1>3, <2>2, ReplayAnswer DEF ReplayInv
    <3> QED BY <1>1, <3>1, SpentStays
  <2> QED BY <1>1, <2>1, <2>2, OneHandlerMoves
<1>4. ASSUME NEW r \in Requests, req'[r].phase = "done", req'[r].reply = "replay"
      PROVE  req'[r].token = req[r].token
  BY <1>1, <1>4, OneHandlerMoves, ReplayAnswer
<1>5. \A r \in Requests : (req[r].phase = "done" /\ req[r].reply = "replay"
                            => SpentBySome(req[r].token))'
  BY <1>3, <1>4 DEF SpentBySome
<1> QED BY <1>1, <1>2, <1>5 DEF ReplayInv

\* A refusal as a replay has a cause: another request spent the token.
THEOREM ReplaysAreReplays == Spec => []ReplayedTokenUsed
<1>1. Init => ReplayInv
  BY InitOtpInv DEF Init, ReplayInv, Consumed, NotSent
<1>2. ReplayInv => ReplayedTokenUsed
  BY DEF ReplayInv, SpentBySome, ReplayedTokenUsed
<1> QED BY <1>1, <1>2, ReplayInvInductive, PTL DEF Spec

-----------------------------------------------------------------------------
(* One use of each token.                                                  *)

HandedOutToken(t) == t \in Secret /\ tokens[t].kind # "none"

\* A token a request hands out is not known before, and is consumed from its use
\* to its expiry.
TokenInv ==
    /\ OtpInv
    /\ \A r \in Requests : tokens[r].kind # "none" => req[r].phase = "done"
    /\ \A r \in Requests : req[r].token # None => HandedOutToken(req[r].token)
    /\ \A u \in usedTokens :
          HandedOutToken(u.token) /\ u.expiresAt = tokens[u.token].expiresAt
    /\ \A x \in opened :
          /\ HandedOutToken(x.token)
          /\ now < tokens[x.token].expiresAt => Consumed(x.token)
    /\ OneUsePerToken

LEMMA TokensStep ==
    ASSUME [Next]_vars
    PROVE  tokens' = tokens \/ \E r \in Requests : Login(r) \/ IssueStepUp(r)
<1>1. CASE WindowEnds \/ ExpireToken \/ Tick \/ UNCHANGED vars
  BY <1>1 DEF WindowEnds, ExpireToken, Tick, vars
<1>2. ASSUME NEW r \in Requests, Handler(r), ~(Login(r) \/ IssueStepUp(r))
      PROVE  tokens' = tokens
  BY <1>2 DEF Handler, Send, Serve, Find, AssertUnused, CheckCode, SpendCode,
     RecordFailure, StartSetup, CheckSetup, StoreSecret, Disable, ConsumeToken, Fails, Lose
<1> QED BY <1>1, <1>2 DEF Next, Handler, Quiescent

\* What was handed out stays as it is.
LEMMA TokensStay ==
    ASSUME TokenInv, [Next]_vars, NEW t, HandedOutToken(t)
    PROVE  tokens'[t] = tokens[t] /\ HandedOutToken(t)'
<1>1. tokens \in [Secret -> Token]
  BY DEF TokenInv, OtpInv, OtpTypeOK
<1>2. ASSUME NEW r \in Requests, Login(r) \/ IssueStepUp(r)
      PROVE  tokens'[t] = tokens[t]
  <2>1. t # r
    BY <1>2 DEF TokenInv, HandedOutToken, Login, IssueStepUp
  <2> QED BY <1>1, <1>2, <2>1 DEF Login, IssueStepUp, HandOut, HandedOutToken
<1> QED BY <1>1, <1>2, TokensStep DEF HandedOutToken

LEMMA TokenRecipients ==
    ASSUME TokenInv, [Next]_vars, NEW r \in Requests, tokens'[r].kind # "none"
    PROVE  req'[r].phase = "done"
<1>1. OtpInv /\ OtpTypeOK /\ tokens \in [Secret -> Token]
  BY DEF TokenInv, OtpInv, OtpTypeOK
<1>2. CASE tokens[r].kind # "none"
  <2>1. req'[r] = req[r] /\ req[r].phase = "done"
    BY <1>1, <1>2, DoneIsDone, OneHandlerMoves DEF TokenInv
  <2> QED BY <2>1
<1>3. CASE tokens[r].kind = "none"
  <2>1. PICK q \in Requests : Login(q) \/ IssueStepUp(q)
    BY <1>3, TokensStep
  <2>2. q = r
    BY <1>1, <1>3, <2>1 DEF Login, IssueStepUp, HandOut, Secret
  <2> QED BY <1>1, <1>3, <2>1, <2>2, Answers DEF Login, OpenSession, IssueStepUp, Reply
<1> QED BY <1>2, <1>3

LEMMA TokensPresented ==
    ASSUME TokenInv, [Next]_vars, NEW r \in Requests, req'[r].token # None
    PROVE  HandedOutToken(req'[r].token)
<1>1. OtpInv /\ OtpTypeOK
  BY DEF TokenInv, OtpInv
<1>2. CASE req'[r] = req[r]
  BY <1>2 DEF TokenInv
<1>3. CASE Send(r)
  BY <1>1, <1>3, Sends DEF Sent, HandedOutToken
<1>4. CASE Serve(r) \/ Fails(r) \/ Lose(r)
  BY <1>1, <1>4, HandlerKept DEF Kept, TokenInv
<1> QED BY <1>1, <1>2, <1>3, <1>4, OneHandlerMoves DEF Handler

LEMMA NowStep ==
    ASSUME OtpInv, [Next]_vars
    PROVE  /\ now \in Nat /\ now' \in Nat /\ now <= now'
           /\ now' # now => UNCHANGED <<usedTokens, opened, tokens>>
<1>1. CASE Tick
  BY <1>1, Counts DEF Tick, OtpInv, OtpTypeOK
<1>2. CASE ~Tick
  <2>1. now' = now
    BY ZenonT(40), <1>2 DEF Next, vars, Send, Serve, Login, Find, AssertUnused, CheckCode, SpendCode,
       RecordFailure, StartSetup, CheckSetup, StoreSecret, Disable, IssueStepUp,
       ConsumeToken, Fails, Lose, WindowEnds, ExpireToken, Quiescent
  <2> QED BY <2>1, Counts DEF OtpInv, OtpTypeOK
<1> QED BY <1>1, <1>2

LEMMA OpenedStep ==
    ASSUME [Next]_vars
    PROVE  opened' = opened \/ \E r \in Requests : ConsumeToken(r)
<1>1. CASE WindowEnds \/ ExpireToken \/ Tick \/ UNCHANGED vars
  BY <1>1 DEF WindowEnds, ExpireToken, Tick, vars
<1>2. ASSUME NEW r \in Requests, Handler(r), ~ConsumeToken(r) PROVE opened' = opened
  BY <1>2 DEF Handler, Send, Serve, Login, Find, AssertUnused, CheckCode, SpendCode,
     RecordFailure, StartSetup, CheckSetup, StoreSecret, Disable, IssueStepUp, Fails, Lose
<1> QED BY <1>1, <1>2 DEF Next, Handler, Quiescent

\* A token stays consumed until it expires.
LEMMA ConsumedUntilExpiry ==
    ASSUME TokenInv, [Next]_vars, NEW t, Consumed(t), now' < tokens[t].expiresAt
    PROVE  Consumed(t)'
<1>1. PICK u \in usedTokens : u.token = t /\ u.expiresAt = tokens[t].expiresAt
  BY DEF Consumed, TokenInv
<1>2. OtpInv /\ u.expiresAt \in Int
  BY <1>1, Counts DEF TokenInv, OtpInv, OtpTypeOK, UsedToken
<1>3. CASE ExpireToken
  <2>1. PICK v \in usedTokens : v.expiresAt <= now /\ usedTokens' = usedTokens \ {v}
    BY <1>3 DEF ExpireToken
  <2>2. now' = now
    BY <1>3 DEF ExpireToken
  <2>3. u # v
    BY <1>1, <1>2, <2>1, <2>2, NowStep
  <2> QED BY <1>1, <2>1, <2>3 DEF Consumed
<1>4. CASE ~ExpireToken
  <2>1. usedTokens \subseteq usedTokens'
    BY ZenonT(40), <1>4 DEF Next, vars, Send, Serve, Login, Find, AssertUnused, CheckCode, SpendCode,
       RecordFailure, StartSetup, CheckSetup, StoreSecret, Disable, IssueStepUp,
       ConsumeToken, Consume, Fails, Lose, WindowEnds, Tick, Quiescent
  <2> QED BY <1>1, <2>1 DEF Consumed
<1> QED BY <1>3, <1>4

LEMMA TokenInvInductive ==
    ASSUME UniqueIndex
    PROVE  TokenInv /\ [Next]_vars => TokenInv'
<1> SUFFICES ASSUME TokenInv, [Next]_vars PROVE TokenInv'
  OBVIOUS
<1>1. OtpInv /\ OtpInv' /\ OtpTypeOK
  BY OtpInvInductive DEF TokenInv, OtpInv
<1>2. \A r \in Requests : tokens'[r].kind # "none" => req'[r].phase = "done"
  BY TokenRecipients
<1>3. ASSUME NEW r \in Requests, req'[r].token # None, NEW t, t = req'[r].token
      PROVE  HandedOutToken(t)'
  BY <1>3, TokensPresented, TokensStay
<1>4. ASSUME NEW r \in Requests, ConsumeToken(r), NEW t, t = req[r].token
      PROVE  /\ HandedOutToken(t) /\ now' = now /\ tokens' = tokens
             /\ \/ opened' = opened
                \/ /\ opened' = opened \cup {[token |-> t, by |-> r, at |-> now]}
                   /\ ~Consumed(t) /\ Consumed(t)'
             /\ \/ usedTokens' = usedTokens
                \/ usedTokens' = usedTokens \cup
                       {[token |-> t, expiresAt |-> tokens[t].expiresAt]}
  <2>1. HandedOutToken(t)
    <3>1. t \in Secret /\ t # None
      BY <1>1, <1>4, TypesOfRequest, NamesAssumption DEF ConsumeToken, RequestOK, Secret
    <3> QED BY <1>4, <3>1 DEF TokenInv
  <2>2. ASSUME usedTokens' = usedTokens \cup {[token |-> t, expiresAt |-> tokens[t].expiresAt]}
        PROVE  Consumed(t)'
    <3> DEFINE u == [token |-> t, expiresAt |-> tokens[t].expiresAt]
    <3>1. u \in usedTokens' /\ u.token = t
      BY <2>2
    <3> HIDE DEF u
    <3> QED BY <3>1 DEF Consumed
  <2> QED BY <1>4, <2>1, <2>2 DEF ConsumeToken, Open, Consume
<1>5. ASSUME NEW u \in usedTokens'
      PROVE  HandedOutToken(u.token)' /\ u.expiresAt = tokens'[u.token].expiresAt
  <2>1. HandedOutToken(u.token) /\ u.expiresAt = tokens[u.token].expiresAt
    <3>1. CASE u \in usedTokens
      BY <3>1 DEF TokenInv
    <3>2. CASE u \notin usedTokens
      <4>1. PICK r \in Requests : ConsumeToken(r)
        BY <1>5, <3>2, UsedTokensStep
      <4>2. u = [token |-> req[r].token, expiresAt |-> tokens[req[r].token].expiresAt]
        BY <1>4, <1>5, <3>2, <4>1
      <4> QED BY <1>4, <4>1, <4>2
    <3> QED BY <3>1, <3>2
  <2>2. ASSUME NEW t, t = u.token PROVE tokens'[t] = tokens[t] /\ HandedOutToken(t)'
    BY <2>1, <2>2, TokensStay
  <2> QED BY <2>1, <2>2
<1>6. ASSUME NEW x \in opened', NEW t, t = x.token
      PROVE  HandedOutToken(t)' /\ (now' < tokens'[t].expiresAt => Consumed(t)')
  <2>1. CASE x \in opened
    <3>1. HandedOutToken(t) /\ (now < tokens[t].expiresAt => Consumed(t))
      BY <1>6, <2>1 DEF TokenInv
    <3>2. tokens'[t] = tokens[t] /\ HandedOutToken(t)'
      BY <3>1, TokensStay
    <3>3. tokens[t].expiresAt \in Int
      BY <1>1, <3>1, Counts DEF OtpTypeOK, HandedOutToken, Token
    <3> QED BY <1>1, <3>1, <3>2, <3>3, NowStep, ConsumedUntilExpiry
  <2>2. CASE x \notin opened
    <3>1. PICK r \in Requests : ConsumeToken(r)
      BY <1>6, <2>2, OpenedStep
    <3>2. t = req[r].token
      BY <1>4, <1>6, <2>2, <3>1
    <3>3. HandedOutToken(t) /\ Consumed(t)'
      BY <1>4, <1>6, <2>2, <3>1, <3>2
    <3> QED BY <3>3, TokensStay
  <2> QED BY <2>1, <2>2
<1>7. OneUsePerToken'
  <2> SUFFICES ASSUME NEW x \in opened', NEW y \in opened', x.token = y.token,
                      {x.at, y.at} \subseteq 0..(tokens'[x.token].expiresAt - 1)
               PROVE  x = y
    BY DEF OneUsePerToken
  <2>1. CASE x \in opened /\ y \in opened
    <3>1. HandedOutToken(x.token)
      BY <2>1 DEF TokenInv
    <3>2. tokens'[x.token] = tokens[x.token]
      BY <3>1, TokensStay
    <3> QED BY <2>1, <3>2 DEF TokenInv, OneUsePerToken
  <2>2. CASE ~(x \in opened /\ y \in opened)
    <3>1. PICK r \in Requests : ConsumeToken(r)
      BY <2>2, OpenedStep
    <3> DEFINE new == [token |-> req[r].token, by |-> r, at |-> now]
    <3>2. /\ opened' = opened \cup {new} /\ ~Consumed(new.token)
          /\ tokens' = tokens /\ HandedOutToken(new.token)
      BY <1>4, <2>2, <3>1
    <3>3. ASSUME NEW z \in opened, z.token = new.token,
                 new.at \in 0..(tokens'[new.token].expiresAt - 1)
          PROVE  FALSE
      <4>1. ~(now < tokens[new.token].expiresAt)
        BY <3>2, <3>3 DEF TokenInv
      <4>2. new.at = now /\ tokens[new.token].expiresAt \in Int /\ now \in Int
        BY <1>1, <3>2, Counts DEF OtpTypeOK, HandedOutToken, Token
      <4> QED BY <3>2, <3>3, <4>1, <4>2
    <3> HIDE DEF new
    <3> QED BY <2>2, <3>2, <3>3
  <2> QED BY <2>1, <2>2
<1> QED BY <1>1, <1>2, <1>3, <1>5, <1>6, <1>7 DEF TokenInv

\* Until it expires, a token opens what it opens once, however many handlers find
\* it unused at the same time, where the index of the used tokens is built.
THEOREM OneUsePerTokenHolds ==
    ASSUME UniqueIndex
    PROVE  Spec => []OneUsePerToken
<1>1. Init => TokenInv
  <2> SUFFICES ASSUME Init PROVE TokenInv
    OBVIOUS
  <2>1. \A r \in Requests : r # Initial /\ r \in Secret
    BY NamesAssumption DEF Secret
  <2> QED BY <2>1, InitOtpInv DEF Init, TokenInv, OneUsePerToken, NotSent, NoToken
<1>2. TokenInv => OneUsePerToken
  BY DEF TokenInv
<1> QED BY <1>1, <1>2, TokenInvInductive, PTL DEF Spec

-----------------------------------------------------------------------------
(* Recovery codes.                                                         *)

\* A document in memory that has the version of the stored one has its codes.
Pinned(s) ==
    /\ s.version <= account.version
    /\ s.version = account.version => s.codes = account.codes

CodesPinned == Pinned(NoSnapshot) /\ \A r \in Requests : Pinned(req[r].snap)

CodeInv ==
    /\ OtpInv
    /\ CodesPinned
    /\ \A r \in Requests : req[r].cred \in Code =>
          req[r].cred.by = Initial \/ req[req[r].cred.by].phase = "done"
    /\ \A c \in account.codes : c.by # Initial => req[c.by].cred # None
    /\ \A r \in Requests : Accepted(r) => req[r].cred \notin account.codes
    /\ CodesMatchSecret
    /\ RecoveryCodeOnce

\* A recovery code is not the code of a secret.
LEMMA Names ==
    /\ Initial \notin Requests /\ None \notin Code /\ None \notin Secret
    /\ \A c \in Code : c \notin Secret /\ c.by \in Secret
BY NamesAssumption, CodesAssumption DEF Secret, Code

\* What the save of a spent code leaves in the account.
LEMMA SpentCodes ==
    ASSUME OtpInv, NEW r \in Requests,
           account' = [account EXCEPT !.codes = req[r].snap.codes \ {req[r].cred},
                                      !.version = account.version + 1]
    PROVE  /\ account'.version = account.version + 1
           /\ account'.secret = account.secret
           /\ account'.codes = req[r].snap.codes \ {req[r].cred}
<1> DEFINE left == req[r].snap.codes \ {req[r].cred}
           v == account.version + 1
<1>1. account \in Account /\ account' = [account EXCEPT !.codes = left, !.version = v]
  BY TypesOfRequest
<1> HIDE DEF left, v
<1>2. account'.version = v /\ account'.secret = account.secret /\ account'.codes = left
  BY <1>1 DEF Account
<1> QED BY <1>2 DEF left, v

\* The stored codes change under the version that was read, and with it.
LEMMA AccountStep ==
    ASSUME OtpInv, [Next]_vars
    PROVE  \/ /\ account'.version = account.version /\ account'.codes = account.codes
              /\ account'.secret \in {account.secret, None}
           \/ /\ account'.version = account.version + 1
              /\ \/ \E r \in Requests :
                       /\ SpendCode(r) /\ VersionMatches(r) /\ account'.secret = account.secret
                       /\ account'.codes = req[r].snap.codes \ {req[r].cred}
                 \/ \E r \in Requests :
                       /\ StoreSecret(r) /\ account'.secret = req[r].snap.temp
                       /\ account'.codes = AllCodes(r)
                 \/ account'.codes = {} /\ account'.secret = None
<1>1. account \in Account /\ account.version \in Nat
  BY DEF OtpInv, OtpTypeOK, Account
<1>2. CASE account' = account
  BY <1>2
<1>3. ASSUME NEW r \in Requests, StartSetup(r)
      PROVE  /\ account'.version = account.version /\ account'.codes = account.codes
             /\ account'.secret = account.secret
  BY <1>1, <1>3 DEF StartSetup, Account
<1>4. ASSUME NEW r \in Requests, SpendCode(r), account' # account
      PROVE  /\ account'.version = account.version + 1
             /\ VersionMatches(r) /\ account'.secret = account.secret
             /\ account'.codes = req[r].snap.codes \ {req[r].cred}
  <2>1. CASE VersionMatches(r) /\ account' = [account EXCEPT
                                      !.codes = req[r].snap.codes \ {req[r].cred},
                                      !.version = account.version + 1]
    BY <2>1, SpentCodes
  <2> QED BY <1>4, <2>1, Spends
<1>5. ASSUME NEW r \in Requests, StoreSecret(r), account' # account
      PROVE  /\ account'.version = account.version + 1
             /\ account'.secret = req[r].snap.temp /\ account'.codes = AllCodes(r)
  BY <1>1, <1>5 DEF StoreSecret
<1>6. ASSUME NEW r \in Requests, Disable(r), account' # account
      PROVE  /\ account'.secret = None
             /\ \/ account'.version = account.version /\ account'.codes = account.codes
                \/ account'.version = account.version + 1 /\ account'.codes = {}
  BY <1>1, <1>6 DEF Disable, Account
<1>7. ASSUME NEW r \in Requests, Handler(r),
             ~(StartSetup(r) \/ SpendCode(r) \/ StoreSecret(r) \/ Disable(r))
      PROVE  account' = account
  BY <1>7 DEF Handler, Send, Serve, Login, Find, AssertUnused, CheckCode, RecordFailure,
     CheckSetup, IssueStepUp, ConsumeToken, Fails, Lose
<1>8. CASE WindowEnds \/ ExpireToken \/ Tick \/ UNCHANGED vars
  BY <1>8 DEF WindowEnds, ExpireToken, Tick, vars
<1> QED BY <1>2, <1>3, <1>4, <1>5, <1>6, <1>7, <1>8 DEF Next, Handler, Quiescent

\* What a request holds in memory after a step.
LEMMA SnapStep ==
    ASSUME OtpInv, [Next]_vars, NEW r \in Requests
    PROVE  \/ req'[r].snap \in {req[r].snap, NoSnapshot}
           \/ req'[r].snap = account /\ account' = account
           \/ SpendCode(r) /\ VersionMatches(r) /\ Spent(r)
              /\ account'.codes = req[r].snap.codes \ {req[r].cred}
              /\ account'.version = account.version + 1
<1>1. OtpTypeOK /\ account \in Account
  BY DEF OtpInv, OtpTypeOK
<1>2. CASE req'[r] = req[r]
  BY <1>2
<1>3. CASE Send(r) \/ Find(r)
  BY <1>1, <1>3, Sends, Finds DEF Sent, Find
<1>4. CASE Login(r) \/ AssertUnused(r) \/ StartSetup(r) \/ CheckSetup(r)
  BY <1>1, <1>4, Answers, Moves
  DEF Login, OpenSession, AssertUnused, StartSetup, CheckSetup, Reply, Phase
<1>5. CASE StoreSecret(r) \/ Disable(r) \/ IssueStepUp(r) \/ ConsumeToken(r) \/ Lose(r)
  BY <1>1, <1>5, Answers, Moves
  DEF StoreSecret, Disable, IssueStepUp, ConsumeToken, OpenSession, Lose, Reply, Phase
<1>6. CASE CheckCode(r)
  BY <1>1, <1>6, Answers, Moves DEF CheckCode, AfterCode, Reply, Phase
<1>7. CASE RecordFailure(r) \/ Fails(r)
  BY <1>1, <1>7, FailCodes DEF RecordFailure, Fails
<1>8. CASE SpendCode(r)
  <2>1. CASE /\ VersionMatches(r) /\ Spent(r)
             /\ account' = [account EXCEPT !.codes = req[r].snap.codes \ {req[r].cred},
                                           !.version = account.version + 1]
    BY <1>8, <2>1, SpentCodes
  <2>2. CASE FailCode(r, "error")
    BY <1>1, <2>2, FailCodes
  <2> QED BY <1>8, <2>1, <2>2, Spends
<1> QED BY <1>2, <1>3, <1>4, <1>5, <1>6, <1>7, <1>8, OneHandlerMoves DEF Handler, Serve

LEMMA PinnedStays ==
    ASSUME OtpInv, [Next]_vars, NEW s \in Account, Pinned(s)
    PROVE  Pinned(s)'
<1>1. s.version \in Nat /\ account.version \in Nat
  BY DEF OtpInv, OtpTypeOK, Account
<1> QED BY <1>1, AccountStep DEF Pinned

LEMMA CodesPinnedStays ==
    ASSUME OtpInv, OtpInv', CodesPinned, [Next]_vars
    PROVE  CodesPinned'
<1>1. Pinned(NoSnapshot)'
  BY BlankInAccount, PinnedStays DEF CodesPinned
<1>2. ASSUME NEW r \in Requests, NEW s, s = req'[r].snap PROVE Pinned(s)'
  <2>1. s \in Account /\ req[r].snap \in Account
    BY <1>2 DEF OtpInv, OtpTypeOK, Request
  <2>2. CASE s \in {req[r].snap, NoSnapshot}
    <3>1. Pinned(s)
      BY <2>2 DEF CodesPinned
    <3> QED BY <2>1, <3>1, PinnedStays
  <2>3. CASE s = account /\ account' = account
    BY <2>1, <2>3 DEF Pinned, Account
  <2>4. CASE /\ VersionMatches(r) /\ Spent(r) /\ account'.version = account.version + 1
             /\ account'.codes = req[r].snap.codes \ {req[r].cred}
    <3>1. s.version = account'.version /\ s.codes = account'.codes
      BY <1>2, <2>1, <2>4 DEF VersionMatches, Spent, Account
    <3> QED BY <2>1, <3>1 DEF Pinned, Account
  <2> QED BY <1>2, <2>2, <2>3, <2>4, SnapStep
<1>3. \A r \in Requests : Pinned(req[r].snap)'
  BY <1>2 DEF Pinned
<1> QED BY <1>1, <1>3 DEF CodesPinned

\* A code is accepted when the save that removes it succeeds.
LEMMA AcceptedStep ==
    ASSUME OtpInv, NEW r \in Requests, Handler(r), req'[r].cred \in Code,
           \/ req'[r].phase \in {"store", "issue", "consume"}
           \/ req'[r].reply \in {"session", "disabled", "refused", "token"}
    PROVE  /\ req'[r].cred = req[r].cred
           /\ \/ Accepted(r)
              \/ SpendCode(r) /\ VersionMatches(r) /\ req[r].cred \in req[r].snap.codes
                 /\ account'.codes = req[r].snap.codes \ {req[r].cred}
<1>1. OtpTypeOK /\ RequestOK(r) /\ OtpInv /\ req[r] \in Request
  BY TypesOfRequest
<1>2. CASE Send(r)
  BY <1>1, <1>2, Sends, Names DEF Sent
<1>3. CASE Login(r)
  BY <1>1, <1>3, Answers, Names DEF Login, OpenSession, Kept, Reply, RequestOK
<1>4. CASE Find(r)
  <2>1. req[r].reply = "none"
    BY <1>1, <1>4 DEF Find, RequestOK
  <2>2. req'[r].phase \in {"decide", "unused", "check"} /\ req'[r].reply = req[r].reply
    BY <1>1, <1>4, Finds DEF AfterFind
  <2> QED BY <2>1, <2>2
<1>5. CASE AssertUnused(r) \/ StartSetup(r)
  BY <1>1, <1>5, Answers, Moves
  DEF AssertUnused, StartSetup, Reply, Phase, RequestOK
<1>6. CASE CheckSetup(r)
  <2>1. req[r].snap.temp \notin Code
    BY <1>1, TypesOfRequest, Names DEF Account
  <2> QED BY <1>1, <1>6, <2>1, Answers, Moves DEF CheckSetup, Reply, Phase, RequestOK, Kept
<1>7. CASE CheckCode(r)
  <2>1. req[r].snap.secret \notin Code
    BY <1>1, TypesOfRequest, Names DEF Account
  <2> QED BY <1>1, <1>7, <2>1, Answers, Moves
      DEF CheckCode, AfterCode, Reply, Phase, RequestOK, Kept
<1>8. CASE StoreSecret(r) \/ Disable(r) \/ IssueStepUp(r) \/ ConsumeToken(r)
  <2>1. Kept(r) /\ req[r].phase \in {"store", "issue", "consume"}
    BY <1>8, HandlerKept DEF Serve, StoreSecret, Disable, IssueStepUp, ConsumeToken
  <2> QED BY <2>1 DEF Kept, Accepted
<1>9. CASE SpendCode(r)
  <2>1. CASE /\ VersionMatches(r) /\ Spent(r)
             /\ account' = [account EXCEPT !.codes = req[r].snap.codes \ {req[r].cred},
                                           !.version = account.version + 1]
    BY <1>1, <1>9, <2>1, SpentCodes DEF Spent, Kept, RequestOK, SpendCode
  <2>2. CASE FailCode(r, "error")
    BY <1>1, <2>2, FailCodes
  <2> QED BY <1>9, <2>1, <2>2, Spends
<1>10. CASE RecordFailure(r) \/ Fails(r)
  BY <1>1, <1>10, FailCodes DEF RecordFailure, Fails
<1>11. CASE Lose(r)
  BY <1>1, <1>11, Answers DEF Lose, Reply
<1> QED BY <1>2, <1>3, <1>4, <1>5, <1>6, <1>7, <1>8, <1>9, <1>10, <1>11 DEF Handler, Serve

\* The code a request presents is chosen when it is sent.
LEMMA CredStep ==
    ASSUME OtpInv, [Next]_vars, NEW q \in Requests
    PROVE  \/ req'[q].cred = req[q].cred
           \/ /\ req[q].cred = None
              /\ req'[q].cred \in Shown \cup HandedOut \cup {None}
<1>1. CASE Send(q)
  BY <1>1, Sends, TypesOfRequest DEF Send, Sent, RequestOK
<1> QED BY <1>1, OneHandlerMoves, HandlerKept DEF Handler, Kept

\* Codes that were presented come from an enrolment that was answered.
CodeFrom(by) == by = Initial \/ req[by].phase = "done"

LEMMA CodeOrigins ==
    ASSUME OtpInv, [Next]_vars, NEW q \in Requests, NEW c \in Code, c = req'[q].cred,
           req[q].cred \in Code => CodeFrom(req[q].cred.by)
    PROVE  CodeFrom(c.by) /\ (c.by = Initial \/ req'[c.by].phase = "done")
<1>1. CodeFrom(c.by)
  <2>1. CASE c \in HandedOut
    <3>1. c.by = Initial \/ (c.by \in Requests /\ req[c.by].reply # "none")
      BY <2>1, Names DEF HandedOut, Secret
    <3>2. CASE c.by \in Requests
      BY <3>1, <3>2, TypesOfRequest DEF RequestOK, CodeFrom
    <3> QED BY <3>1, <3>2 DEF CodeFrom
  <2>2. CASE c = req[q].cred
    BY <2>2
  <2>3. c \notin Shown \cup {None}
    BY Names DEF Shown, Secret
  <2> QED BY <2>1, <2>2, <2>3, CredStep
<1>2. c.by = Initial \/ c.by \in Requests
  BY Names DEF Secret
<1>3. CASE c.by # Initial
  BY <1>1, <1>2, <1>3, DoneIsDone, OneHandlerMoves DEF CodeFrom
<1> QED BY <1>1, <1>3

LEMMA CodeInvInductive == CodeInv /\ [Next]_vars => CodeInv'
<1> SUFFICES ASSUME CodeInv, [Next]_vars PROVE CodeInv'
  OBVIOUS
<1>1. OtpInv /\ OtpInv' /\ CodesPinned /\ account \in Account
  BY OtpInvInductive DEF CodeInv, OtpInv, OtpTypeOK
<1>2. CodesPinned'
  BY <1>1, CodesPinnedStays
<1>3. \A r \in Requests : (req[r].cred \in Code =>
          req[r].cred.by = Initial \/ req[req[r].cred.by].phase = "done")'
  <2>1. ASSUME NEW r \in Requests, req'[r].cred \in Code, NEW c, c = req'[r].cred
        PROVE  c.by = Initial \/ req'[c.by].phase = "done"
    BY <1>1, <2>1, CodeOrigins DEF CodeInv, CodeFrom
  <2> QED BY <2>1
\* The codes in use were there, or a request that still stores just brought them.
<1>4. \/ /\ account'.codes \subseteq account.codes
         /\ account'.secret \in {account.secret, None}
      \/ \E r \in Requests :
            /\ StoreSecret(r) /\ account'.secret = req[r].cred
            /\ account'.codes = AllCodes(r) /\ req[r].cred # None
  <2>1. ASSUME NEW r \in Requests, SpendCode(r), VersionMatches(r)
        PROVE  req[r].snap.codes = account.codes
    BY <1>1, <2>1 DEF CodesPinned, Pinned, VersionMatches
  <2>2. ASSUME NEW r \in Requests, StoreSecret(r)
        PROVE  req[r].cred = req[r].snap.temp /\ req[r].cred # None
    BY <1>1, <2>2, TypesOfRequest DEF StoreSecret, RequestOK
  <2> QED BY <1>1, <2>1, <2>2, AccountStep
\* The origin of a code in use keeps the code it presented.
<1>5. ASSUME NEW q \in Requests, req[q].cred # None
      PROVE  req'[q].cred = req[q].cred
  BY <1>1, <1>5, CredStep
<1>6. \A c \in account'.codes : c.by # Initial =>
          c.by \in Requests /\ req'[c.by].cred # None
  <2>1. \A c \in account'.codes : c \in Code /\ (c.by # Initial => c.by \in Requests)
    BY <1>1, Names DEF OtpInv, OtpTypeOK, Account, Secret
  <2>2. CASE account'.codes \subseteq account.codes
    BY <1>5, <2>1, <2>2 DEF CodeInv
  <2>3. ASSUME NEW r \in Requests, account'.codes = AllCodes(r), req[r].cred # None
        PROVE  \A c \in account'.codes : c.by = r /\ req'[c.by].cred # None
    BY <1>5, <2>3 DEF AllCodes
  <2> QED BY <1>4, <2>1, <2>2, <2>3
<1>7. CodesMatchSecret'
  <2> SUFFICES ASSUME account'.secret # None, NEW c \in account'.codes
               PROVE  account'.secret = IF c.by = Initial THEN Initial ELSE req'[c.by].cred
    BY DEF CodesMatchSecret
  <2>1. CASE /\ account'.codes \subseteq account.codes
             /\ account'.secret \in {account.secret, None}
    <3>1. account.secret = IF c.by = Initial THEN Initial ELSE req[c.by].cred
      BY <2>1 DEF CodeInv, CodesMatchSecret
    <3>2. c.by # Initial => c.by \in Requests /\ req[c.by].cred # None
      BY <1>6, <2>1 DEF CodeInv
    <3> QED BY <1>5, <2>1, <3>1, <3>2
  <2>2. ASSUME NEW r \in Requests, account'.secret = req[r].cred, req[r].cred # None,
               account'.codes = AllCodes(r)
        PROVE  account'.secret = IF c.by = Initial THEN Initial ELSE req'[c.by].cred
    BY <1>5, <2>2, Names DEF AllCodes
  <2> QED BY <1>4, <2>1, <2>2
\* An accepted code was accepted before, or its save just removed it.
<1>8. ASSUME NEW r \in Requests, Accepted(r)'
      PROVE  /\ req'[r].cred = req[r].cred /\ req[r].cred \in Code
             /\ \/ Accepted(r)
                \/ /\ req[r].cred \in account.codes /\ req[r].cred \notin account'.codes
                   /\ SpendCode(r)
  <2>1. CASE req'[r] = req[r]
    BY <1>8, <2>1 DEF Accepted
  <2>2. CASE Handler(r)
    <3>1. /\ req'[r].cred = req[r].cred /\ req[r].cred \in Code
          /\ \/ Accepted(r)
             \/ SpendCode(r) /\ VersionMatches(r) /\ req[r].cred \in req[r].snap.codes
                /\ account'.codes = req[r].snap.codes \ {req[r].cred}
      BY <1>1, <1>8, <2>2, AcceptedStep DEF Accepted
    <3>2. VersionMatches(r) => req[r].snap.codes = account.codes
      BY <1>1 DEF CodesPinned, Pinned, VersionMatches
    <3> QED BY <3>1, <3>2
  <2> QED BY <1>1, <2>1, <2>2, OneHandlerMoves
<1>9. \A r \in Requests : (Accepted(r) => req[r].cred \notin account.codes)'
  <2>1. ASSUME NEW r \in Requests, Accepted(r)' PROVE req'[r].cred \notin account'.codes
    <3>1. CASE account'.codes \subseteq account.codes
      BY <1>8, <2>1, <3>1 DEF CodeInv
    <3>2. ASSUME NEW q \in Requests, StoreSecret(q), account'.codes = AllCodes(q)
          PROVE  req'[r].cred \notin account'.codes
      <4>1. req[r].cred \in Code /\ req'[r].cred = req[r].cred
        BY <1>8, <2>1
      <4>2. req[r].cred.by = Initial \/ req[req[r].cred.by].phase = "done"
        BY <4>1 DEF CodeInv
      <4>3. req[q].phase = "store" /\ q # Initial
        BY <3>2, Names DEF StoreSecret
      <4> QED BY <3>2, <4>1, <4>2, <4>3 DEF AllCodes
    <3> QED BY <1>4, <3>1, <3>2
  <2> QED BY <2>1
<1>10. RecoveryCodeOnce'
  <2>1. ASSUME NEW a \in Requests, NEW b \in Requests, Accepted(a)', Accepted(b)',
               req'[a].cred = req'[b].cred
        PROVE  a = b
    <3>1. CASE Accepted(a) /\ Accepted(b)
      BY <1>8, <2>1, <3>1 DEF CodeInv, RecoveryCodeOnce
    <3>2. CASE (Accepted(a) /\ ~Accepted(b)) \/ (Accepted(b) /\ ~Accepted(a))
      BY <1>8, <2>1, <3>2 DEF CodeInv
    <3>3. CASE SpendCode(a) /\ SpendCode(b) /\ ~Accepted(a) /\ ~Accepted(b)
      <4>1. req'[a] # req[a] /\ req'[b] # req[b]
        BY <2>1, <3>3 DEF Accepted
      <4> QED BY <1>1, <3>3, <4>1, HandlerKept DEF Serve, Kept
    <3>4. (Accepted(a) \/ SpendCode(a)) /\ (Accepted(b) \/ SpendCode(b))
      BY <1>8, <2>1
    <3> QED BY <3>1, <3>2, <3>3, <3>4
  <2> QED BY <2>1 DEF RecoveryCodeOnce
<1>11. (\A c \in account.codes : c.by # Initial => req[c.by].cred # None)'
  BY <1>6
<1> QED BY <1>1, <1>2, <1>3, <1>7, <1>9, <1>10, <1>11 DEF CodeInv

LEMMA InitCodeInv == Init => CodeInv
<1> SUFFICES ASSUME Init PROVE CodeInv
  OBVIOUS
<1>1. OtpInv /\ \A r \in Requests : req[r] = NotSent
  BY InitOtpInv DEF Init
<1>2. Pinned(NoSnapshot)
  BY DEF Init, Pinned, NoSnapshot, NewAccount, Enrolled
<1>3. /\ \A c \in account.codes : c.by = Initial
      /\ account.secret \in {None, Initial}
  BY DEF Init, NewAccount, Enrolled, AllCodes
<1> QED BY <1>1, <1>2, <1>3, Names
    DEF CodeInv, CodesPinned, NotSent, Accepted, CodesMatchSecret, RecoveryCodeOnce

\* A recovery code is accepted once, whatever reads it at the same time: the save
\* that removes it names the version that was read.
THEOREM RecoveryCodesOnce == Spec => []RecoveryCodeOnce
<1>1. CodeInv => RecoveryCodeOnce
  BY DEF CodeInv
<1> QED BY <1>1, InitCodeInv, CodeInvInductive, PTL DEF Spec

\* The recovery codes of an account come from the enrolment of its secret.
THEOREM CodesBelongToSecret == Spec => []CodesMatchSecret
<1>1. CodeInv => CodesMatchSecret
  BY DEF CodeInv
<1> QED BY <1>1, InitCodeInv, CodeInvInductive, PTL DEF Spec

-----------------------------------------------------------------------------
(* When a confirmed secret is enforced.                                    *)

Presented == {req[r].cred : r \in Requests}

\* A document with a secret has the codes of an enrolment, save those presented.
LeftIn(secret, codes, presented) ==
    secret # None => \E by \in Secret : AllCodes(by) \subseteq codes \cup presented

\* Handlers that have read the account and may save it.
Holding(r) == req[r].phase \in {"unused", "check", "spend", "store"}

Agree(s, a) ==
    s.version = a.version => s.enabled = a.enabled /\ (s.secret # None <=> a.secret # None)

Checked(r) ==
    req[r].phase = "spend" \/ (req[r].phase = "store" /\ req[r].kind = "disable")

HeldRight(r) ==
    /\ LeftIn(req[r].snap.secret, req[r].snap.codes, Presented)
    /\ Agree(req[r].snap, account)
    /\ Checked(r) => req[r].snap.secret # None

\* A login that has read the account and still decides.
Deciding(r) == req[r].phase = "decide"

InStep ==
    /\ account.enabled <=> account.secret # None
    /\ LeftIn(account.secret, account.codes, Presented)
    /\ \A r \in Requests : Holding(r) => HeldRight(r)
    /\ \A r \in Requests : Deciding(r) =>
          (req[r].snap.enabled <=> req[r].snap.secret # None)

EnforceInv ==
    /\ CodeInv
    /\ IsAdmin => account.enabled
    /\ \A r \in Requests : Deciding(r) => req[r].snap.role = account.role
    /\ IsAdmin \/ CodesExhausted \/ InStep

LEMMA PresentedStays ==
    ASSUME OtpInv, [Next]_vars
    PROVE  \A c \in Code : c \in Presented => c \in Presented'
<1> SUFFICES ASSUME NEW c \in Code, c \in Presented PROVE c \in Presented'
  OBVIOUS
<1>1. PICK r \in Requests : req[r].cred = c
  BY DEF Presented
<1>2. req'[r].cred = c
  BY <1>1, CredStep, Names
<1> QED BY <1>2 DEF Presented

LEMMA LeftStays ==
    ASSUME OtpInv, [Next]_vars, NEW secret, NEW codes, LeftIn(secret, codes, Presented)
    PROVE  LeftIn(secret, codes, Presented')
<1>1. \A by \in Secret : AllCodes(by) \subseteq Code
  BY DEF AllCodes
<1> QED BY <1>1, PresentedStays DEF LeftIn

LEMMA Exhausted == CodesExhausted <=> \E by \in Secret : AllCodes(by) \subseteq Presented
BY DEF CodesExhausted, Presented

LEMMA ExhaustedStays ==
    ASSUME OtpInv, [Next]_vars, CodesExhausted
    PROVE  CodesExhausted'
<1>1. PICK by \in Secret : AllCodes(by) \subseteq Presented
  BY Exhausted
<1>2. AllCodes(by) \subseteq Presented'
  BY <1>1, PresentedStays DEF AllCodes
<1> QED BY <1>2 DEF CodesExhausted, Presented

\* Nothing but the pending secret changes.
SameButPending ==
    /\ account'.role = account.role /\ account'.secret = account.secret
    /\ account'.enabled = account.enabled /\ account'.codes = account.codes
    /\ account'.version = account.version

SpendsCode(r) ==
    /\ req[r].phase = "spend" /\ VersionMatches(r)
    /\ account'.role = account.role /\ account'.secret = account.secret
    /\ account'.enabled = account.enabled /\ account'.version = account.version + 1
    /\ account'.codes = req[r].snap.codes \ {req[r].cred}

Enrols(r) ==
    /\ req[r].phase = "store" /\ VersionMatches(r)
    /\ account'.role = account.role /\ account'.secret # None
    /\ account'.enabled = (account.enabled \/ ~req[r].snap.enabled)
    /\ account'.version = account.version + 1 /\ account'.codes = AllCodes(r)

EndsIt(r) ==
    /\ req[r].phase = "store" /\ req[r].kind = "disable"
    /\ ~IsAdmin
    /\ account'.role = account.role /\ account'.secret = None
    /\ account'.enabled = (account.enabled /\ ~req[r].snap.enabled)
    /\ req[r].snap.codes # {} =>
          VersionMatches(r) /\ account'.version = account.version + 1

LEMMA SpendFields ==
    ASSUME OtpInv, NEW r \in Requests, SpendCode(r), VersionMatches(r),
           account' = [account EXCEPT !.codes = req[r].snap.codes \ {req[r].cred},
                                      !.version = account.version + 1]
    PROVE  SpendsCode(r)
<1> DEFINE left == req[r].snap.codes \ {req[r].cred}
           v == account.version + 1
<1>1. account \in Account /\ account' = [account EXCEPT !.codes = left, !.version = v]
  BY TypesOfRequest
<1> HIDE DEF left, v
<1>2. /\ account'.version = v /\ account'.secret = account.secret /\ account'.codes = left
      /\ account'.role = account.role /\ account'.enabled = account.enabled
  BY <1>1 DEF Account
<1> QED BY <1>2 DEF left, v, SpendsCode, SpendCode

LEMMA DisableFields ==
    ASSUME OtpInv, NEW r \in Requests, Disable(r)
    PROVE  account' = account \/ EndsIt(r)
<1> DEFINE s == req[r].snap
           e == account.enabled /\ ~s.enabled
           cleared == [account EXCEPT !.secret = None, !.temp = None, !.enabled = e]
<1>1. account \in Account /\ e \in BOOLEAN /\ s \in Account
  BY TypesOfRequest DEF Account
<1>2. cleared.role = account.role /\ cleared.secret = None /\ cleared.enabled = e
      /\ cleared.version = account.version /\ cleared \in Account
  <2> HIDE DEF e
  <2> QED BY <1>1, FieldsCleared DEF Account
<1>3. \/ account' = account
      \/ /\ ~IsAdmin /\ s.codes = {} /\ account' = cleared
      \/ /\ ~IsAdmin /\ s.codes # {} /\ VersionMatches(r)
         /\ account' = [cleared EXCEPT !.codes = {}, !.version = cleared.version + 1]
  BY DEF Disable
<1>4. req[r].phase = "store" /\ req[r].kind = "disable"
  BY DEF Disable
<1> HIDE DEF cleared
<1>5. CASE ~IsAdmin /\ s.codes = {} /\ account' = cleared
  BY <1>2, <1>4, <1>5 DEF EndsIt
<1>6. CASE /\ ~IsAdmin /\ s.codes # {} /\ VersionMatches(r)
           /\ account' = [cleared EXCEPT !.codes = {}, !.version = cleared.version + 1]
  <2>1. account'.role = cleared.role /\ account'.secret = cleared.secret
        /\ account'.enabled = cleared.enabled /\ account'.version = cleared.version + 1
    BY <1>2, <1>6 DEF Account
  <2> QED BY <1>2, <1>4, <1>6, <2>1 DEF EndsIt
<1> QED BY <1>3, <1>5, <1>6

\* Every change of the account is one of four.
LEMMA AccountChanges ==
    ASSUME OtpInv, [Next]_vars
    PROVE  \/ SameButPending
           \/ \E r \in Requests : SpendsCode(r) \/ Enrols(r) \/ EndsIt(r)
<1>1. account \in Account
  BY DEF OtpInv, OtpTypeOK
<1>2. CASE account' = account
  BY <1>2 DEF SameButPending
<1>3. ASSUME NEW r \in Requests, StartSetup(r) PROVE SameButPending
  BY <1>1, <1>3 DEF StartSetup, Account, SameButPending
<1>4. ASSUME NEW r \in Requests, SpendCode(r) PROVE account' = account \/ SpendsCode(r)
  BY <1>4, Spends, SpendFields
<1>5. ASSUME NEW r \in Requests, StoreSecret(r) PROVE account' = account \/ Enrols(r)
  <2>1. req[r].snap.temp # None
    BY <1>5, TypesOfRequest DEF StoreSecret, RequestOK
  <2> DEFINE e == account.enabled \/ ~req[r].snap.enabled
             v == account.version + 1
             x == req[r].snap.temp
  <2>2. \/ account' = account
        \/ /\ VersionMatches(r)
           /\ account' = [role |-> account.role, secret |-> x, temp |-> None, enabled |-> e,
                          codes |-> AllCodes(r), version |-> v]
    BY <1>5 DEF StoreSecret
  <2>3. req[r].phase = "store"
    BY <1>5 DEF StoreSecret
  <2> HIDE DEF e, v, x
  <2>4. CASE /\ VersionMatches(r)
             /\ account' = [role |-> account.role, secret |-> x, temp |-> None, enabled |-> e,
                            codes |-> AllCodes(r), version |-> v]
    <3>1. /\ account'.role = account.role /\ account'.secret = x /\ account'.enabled = e
          /\ account'.version = v /\ account'.codes = AllCodes(r)
      BY <2>4
    <3> QED BY <2>1, <2>3, <2>4, <3>1 DEF e, v, x, Enrols
  <2> QED BY <2>2, <2>4
<1>6. ASSUME NEW r \in Requests, Disable(r) PROVE account' = account \/ EndsIt(r)
  BY <1>6, DisableFields
<1>7. ASSUME NEW r \in Requests, Handler(r),
             ~(StartSetup(r) \/ SpendCode(r) \/ StoreSecret(r) \/ Disable(r))
      PROVE  account' = account
  BY <1>7 DEF Handler, Send, Serve, Login, Find, AssertUnused, CheckCode, RecordFailure,
     CheckSetup, IssueStepUp, ConsumeToken, Fails, Lose
<1>8. CASE WindowEnds \/ ExpireToken \/ Tick \/ UNCHANGED vars
  BY <1>8 DEF WindowEnds, ExpireToken, Tick, vars, SameButPending
<1> QED BY <1>2, <1>3, <1>4, <1>5, <1>6, <1>7, <1>8 DEF Next, Handler, Quiescent

\* What a handler that may save holds: what it held, the account, or what it saved.
LEMMA HeldStep ==
    ASSUME OtpInv, [Next]_vars, NEW r \in Requests, Holding(r)'
    PROVE  \/ /\ Holding(r) /\ req'[r].snap = req[r].snap
              /\ Checked(r)' => Checked(r) \/ req[r].snap.secret # None
              /\ ~(SpendCode(r) /\ Spent(r))
           \/ req'[r].snap = account /\ account' = account /\ ~Checked(r)'
           \/ SpendCode(r) /\ VersionMatches(r) /\ Spent(r) /\ SpendsCode(r)
<1>1. OtpTypeOK /\ account \in Account /\ req[r].snap \in Account
  BY TypesOfRequest
<1>2. CASE req'[r] = req[r]
  <2>1. ~(SpendCode(r) /\ Spent(r))
    <3>1. req[r].snap.version + 1 # req[r].snap.version
      BY <1>1 DEF Account
    <3>2. Spent(r) => req'[r].snap.version = req[r].snap.version + 1
      <4> DEFINE left == req[r].snap.codes \ {req[r].cred}
                 v == req[r].snap.version + 1
      <4>1. Spent(r) => req'[r].snap = [req[r].snap EXCEPT !.codes = left, !.version = v]
        BY DEF Spent
      <4> HIDE DEF left, v
      <4>2. [req[r].snap EXCEPT !.codes = left, !.version = v].version = v
        BY <1>1 DEF Account
      <4> QED BY <4>1, <4>2 DEF v
    <3> QED BY <1>2, <3>1, <3>2
  <2> QED BY <1>2, <2>1 DEF Holding, Checked
<1>3. CASE Send(r)
  BY <1>1, <1>3, Sends DEF Sent, Holding
<1>4. CASE Find(r)
  <2>1. req'[r].phase \in {"decide", "unused", "check"} /\ req'[r].snap = account
        /\ account' = account
    BY <1>1, <1>4, Finds DEF Find, AfterFind
  <2> QED BY <2>1 DEF Checked
<1>5. CASE Login(r) \/ StartSetup(r) \/ StoreSecret(r) \/ Disable(r) \/ IssueStepUp(r)
           \/ ConsumeToken(r) \/ Lose(r)
  BY <1>1, <1>5, Answers, Moves
  DEF Login, OpenSession, StartSetup, StoreSecret, Disable, IssueStepUp, ConsumeToken, Lose,
      Reply, Phase, Holding
<1>6. CASE AssertUnused(r) \/ CheckSetup(r)
  BY <1>1, <1>6, Answers, Moves
  DEF AssertUnused, CheckSetup, SpendCode, Reply, Phase, Holding, Checked, Kept
<1>7. CASE CheckCode(r)
  BY <1>1, <1>7, Answers, Moves
  DEF CheckCode, AfterCode, SpendCode, Reply, Phase, Holding, Checked
<1>8. CASE RecordFailure(r) \/ Fails(r)
  BY <1>1, <1>8, FailCodes DEF RecordFailure, Fails, Holding
<1>9. CASE SpendCode(r)
  <2>1. CASE /\ VersionMatches(r) /\ Spent(r)
             /\ account' = [account EXCEPT !.codes = req[r].snap.codes \ {req[r].cred},
                                           !.version = account.version + 1]
    BY <1>9, <2>1, SpendFields
  <2>2. CASE FailCode(r, "error")
    BY <1>1, <2>2, FailCodes DEF Holding
  <2> QED BY <1>9, <2>1, <2>2, Spends
<1> QED BY <1>2, <1>3, <1>4, <1>5, <1>6, <1>7, <1>8, <1>9, OneHandlerMoves DEF Handler, Serve

\* What a login that decides holds: what it held, or the account.
LEMMA DecidingStep ==
    ASSUME OtpInv, [Next]_vars, NEW r \in Requests, Deciding(r)'
    PROVE  \/ Deciding(r) /\ req'[r].snap = req[r].snap
           \/ req'[r].snap = account /\ account' = account
<1>1. OtpTypeOK /\ RequestOK(r)
  BY TypesOfRequest
<1>2. CASE req'[r] = req[r]
  BY <1>2 DEF Deciding
<1>3. CASE Send(r)
  BY <1>1, <1>3, Sends DEF Sent, Deciding
<1>4. CASE Find(r)
  BY <1>1, <1>4, Finds DEF Find
<1>5. CASE Login(r) \/ StartSetup(r) \/ StoreSecret(r) \/ Disable(r) \/ IssueStepUp(r)
           \/ ConsumeToken(r) \/ Lose(r)
  BY <1>1, <1>5, Answers, Moves
  DEF Login, OpenSession, StartSetup, StoreSecret, Disable, IssueStepUp, ConsumeToken, Lose,
      Reply, Phase, Deciding
<1>6. CASE AssertUnused(r) \/ CheckSetup(r) \/ CheckCode(r)
  BY <1>1, <1>6, Answers, Moves
  DEF AssertUnused, CheckSetup, CheckCode, AfterCode, Reply, Phase, Deciding
<1>7. CASE SpendCode(r) \/ RecordFailure(r) \/ Fails(r)
  <2>1. CASE Spent(r)
    BY <1>1, <1>7, <2>1 DEF Spent, AfterCode, Deciding
  <2>2. CASE FailCode(r, "error") \/ FailCode(r, "invalid")
    BY <1>1, <2>2, FailCodes DEF Deciding
  <2> QED BY <1>1, <1>7, <2>1, <2>2, Spends DEF RecordFailure, Fails
<1> QED BY <1>2, <1>3, <1>4, <1>5, <1>6, <1>7, OneHandlerMoves DEF Handler, Serve

\* The save of a spent code leaves the handler in step with the account.
LEMMA SpentInStep ==
    ASSUME OtpInv, OtpInv', [Next]_vars, NEW r \in Requests, SpendCode(r), Spent(r),
           SpendsCode(r), HeldRight(r)
    PROVE  HeldRight(r)'
<1> DEFINE left == req[r].snap.codes \ {req[r].cred}
           v == req[r].snap.version + 1
<1>1. req[r].snap \in Account /\ account \in Account /\ req[r].cred \in Code
  BY TypesOfRequest DEF SpendCode, RequestOK, Account
<1>2. req'[r].snap = [req[r].snap EXCEPT !.codes = left, !.version = v]
  BY DEF Spent
<1> HIDE DEF left, v
<1>3. /\ req'[r].snap.secret = req[r].snap.secret /\ req'[r].snap.enabled = req[r].snap.enabled
      /\ req'[r].snap.codes = left
  BY <1>1, <1>2 DEF Account
<1>4. /\ req[r].snap.secret # None /\ Agree(req[r].snap, account)
      /\ LeftIn(req[r].snap.secret, req[r].snap.codes, Presented)
  BY DEF SpendsCode, HeldRight, Checked
<1>5. Agree(req'[r].snap, account')
  BY <1>3, <1>4 DEF Agree, SpendsCode, VersionMatches
<1>6. LeftIn(req'[r].snap.secret, req'[r].snap.codes, Presented')
  <2>1. req[r].cred \in Presented'
    BY DEF Presented, Spent, Kept
  <2>2. PICK by \in Secret : AllCodes(by) \subseteq req[r].snap.codes \cup Presented
    BY <1>4 DEF LeftIn
  <2>3. AllCodes(by) \subseteq left \cup Presented'
    BY <2>1, <2>2, PresentedStays DEF left, AllCodes
  <2> QED BY <1>3, <2>3 DEF LeftIn
<1>7. req'[r].snap.secret # None
  BY <1>3, <1>4
<1> QED BY <1>5, <1>6, <1>7 DEF HeldRight

\* While codes are left, a disabling names the version it read.
LEMMA DisablingNamesVersion ==
    ASSUME OtpInv, InStep, ~CodesExhausted, NEW r \in Requests, EndsIt(r)
    PROVE  VersionMatches(r) /\ account'.version = account.version + 1
           /\ req[r].snap.enabled = account.enabled /\ account.enabled
<1>1. HeldRight(r) /\ req[r].snap.secret # None
  BY DEF InStep, Holding, EndsIt, HeldRight, Checked
<1>2. req[r].snap.codes # {}
  BY <1>1, Exhausted DEF HeldRight, LeftIn
<1>3. VersionMatches(r) /\ account'.version = account.version + 1
  BY <1>2 DEF EndsIt
<1> QED BY <1>1, <1>3 DEF HeldRight, Agree, VersionMatches, InStep

\* The account after a step.
LEMMA AccountInStep ==
    ASSUME OtpInv, OtpInv', CodesPinned, InStep, ~CodesExhausted, [Next]_vars
    PROVE  /\ account'.enabled <=> account'.secret # None
           /\ LeftIn(account'.secret, account'.codes, Presented')
<1>1. CASE SameButPending
  <2>1. LeftIn(account.secret, account.codes, Presented')
    BY LeftStays DEF InStep
  <2> QED BY <1>1, <2>1 DEF SameButPending, InStep
<1>2. ASSUME NEW r \in Requests, SpendsCode(r)
      PROVE  /\ account'.enabled <=> account'.secret # None
             /\ LeftIn(account'.secret, account'.codes, Presented')
  <2>1. account'.codes = account.codes \ {req[r].cred}
    BY <1>2 DEF SpendsCode, VersionMatches, CodesPinned, Pinned
  <2>2. req[r].cred \in Presented'
    <3>1. req[r].cred \in Code
      BY <1>2, TypesOfRequest DEF SpendsCode, RequestOK, Account
    <3> QED BY <3>1, PresentedStays DEF Presented
  <2>3. CASE account.secret = None
    BY <1>2, <2>3 DEF SpendsCode, LeftIn, InStep
  <2>4. CASE account.secret # None
    <3>1. PICK by \in Secret : AllCodes(by) \subseteq account.codes \cup Presented
      BY <2>4 DEF LeftIn, InStep
    <3>2. AllCodes(by) \subseteq account'.codes \cup Presented'
      BY <2>1, <2>2, <3>1, PresentedStays DEF AllCodes
    <3> QED BY <1>2, <3>2 DEF SpendsCode, LeftIn, InStep
  <2> QED BY <2>3, <2>4
<1>3. ASSUME NEW r \in Requests, Enrols(r)
      PROVE  /\ account'.enabled <=> account'.secret # None
             /\ LeftIn(account'.secret, account'.codes, Presented')
  <2>1. req[r].snap.enabled = account.enabled
    BY <1>3 DEF Enrols, InStep, Holding, HeldRight, Agree, VersionMatches
  <2> QED BY <1>3, <2>1 DEF Enrols, LeftIn, Secret
<1>4. ASSUME NEW r \in Requests, EndsIt(r)
      PROVE  /\ account'.enabled <=> account'.secret # None
             /\ LeftIn(account'.secret, account'.codes, Presented')
  BY <1>4, DisablingNamesVersion DEF EndsIt, LeftIn
<1> QED BY <1>1, <1>2, <1>3, <1>4, AccountChanges

\* A document in memory that agreed with the account still does, or is outdated.
LEMMA AgreeStays ==
    ASSUME OtpInv, InStep, ~CodesExhausted, [Next]_vars,
           NEW s \in Account, Agree(s, account), Pinned(s)
    PROVE  Agree(s, account')
<1>1. CASE SameButPending
  BY <1>1 DEF SameButPending, Agree
<1>2. CASE account'.version = account.version + 1
  <2>1. s.version \in Nat /\ s.version <= account.version /\ account.version \in Nat
    BY TypesOfRequest DEF Pinned, Account, OtpInv, OtpTypeOK
  <2> QED BY <1>2, <2>1 DEF Agree
<1>3. ASSUME NEW r \in Requests, SpendsCode(r) \/ Enrols(r) \/ EndsIt(r)
      PROVE  account'.version = account.version + 1
  BY <1>3, DisablingNamesVersion DEF SpendsCode, Enrols
<1> QED BY <1>1, <1>2, <1>3, AccountChanges

LEMMA InStepStays ==
    ASSUME OtpInv, OtpInv', CodesPinned, InStep, ~CodesExhausted, [Next]_vars
    PROVE  InStep'
<1>1. /\ account'.enabled <=> account'.secret # None
      /\ LeftIn(account'.secret, account'.codes, Presented')
  BY AccountInStep
<1>2. ASSUME NEW r \in Requests, Holding(r)' PROVE HeldRight(r)'
  <2>1. CASE /\ Holding(r) /\ req'[r].snap = req[r].snap
             /\ Checked(r)' => Checked(r) \/ req[r].snap.secret # None
    <3>1. HeldRight(r) /\ req[r].snap \in Account /\ Pinned(req[r].snap)
      BY <2>1, TypesOfRequest DEF InStep, CodesPinned
    <3>2. Agree(req[r].snap, account')
      BY <3>1, AgreeStays DEF HeldRight
    <3>3. LeftIn(req[r].snap.secret, req[r].snap.codes, Presented')
      BY <3>1, LeftStays DEF HeldRight
    <3>4. Checked(r)' => req[r].snap.secret # None
      BY <2>1, <3>1 DEF HeldRight
    <3> QED BY <2>1, <3>2, <3>3, <3>4 DEF HeldRight
  <2>2. CASE req'[r].snap = account /\ account' = account /\ ~Checked(r)'
    BY <1>1, <2>2 DEF HeldRight, Agree
  <2>3. CASE SpendCode(r) /\ VersionMatches(r) /\ Spent(r) /\ SpendsCode(r)
    <3>1. HeldRight(r)
      BY <2>3 DEF SpendsCode, InStep, Holding
    <3> QED BY <2>3, <3>1, SpentInStep
  <2> QED BY <1>2, <2>1, <2>2, <2>3, HeldStep
<1>3. ASSUME NEW r \in Requests, Deciding(r)'
      PROVE  req'[r].snap.enabled <=> req'[r].snap.secret # None
  BY <1>3, DecidingStep DEF InStep
<1> QED BY <1>1, <1>2, <1>3 DEF InStep

LEMMA EnforceInvInductive == EnforceInv /\ [Next]_vars => EnforceInv'
<1> SUFFICES ASSUME EnforceInv, [Next]_vars PROVE EnforceInv'
  OBVIOUS
<1>1. CodeInv /\ CodeInv' /\ OtpInv /\ OtpInv' /\ CodesPinned
  BY CodeInvInductive DEF EnforceInv, CodeInv
<1>2. account'.role = account.role /\ (IsAdmin => account'.enabled)
  <2>1. CASE SameButPending
    BY <2>1 DEF SameButPending, EnforceInv
  <2>2. ASSUME NEW r \in Requests, SpendsCode(r)
        PROVE  account'.role = account.role /\ (IsAdmin => account'.enabled)
    BY <2>2 DEF SpendsCode, EnforceInv
  <2>3. ASSUME NEW r \in Requests, Enrols(r)
        PROVE  account'.role = account.role /\ (IsAdmin => account'.enabled)
    BY <2>3 DEF Enrols, EnforceInv
  <2>4. ASSUME NEW r \in Requests, EndsIt(r)
        PROVE  account'.role = account.role /\ (IsAdmin => account'.enabled)
    BY <2>4 DEF EndsIt
  <2> QED BY <1>1, <2>1, <2>2, <2>3, <2>4, AccountChanges
<1>3. IsAdmin' <=> IsAdmin
  BY <1>2 DEF IsAdmin
<1>4. IsAdmin' \/ CodesExhausted' \/ InStep'
  BY <1>1, <1>3, ExhaustedStays, InStepStays DEF EnforceInv
<1>5. ASSUME NEW r \in Requests, Deciding(r)' PROVE req'[r].snap.role = account'.role
  BY <1>1, <1>2, <1>5, DecidingStep DEF EnforceInv
<1> QED BY <1>1, <1>2, <1>3, <1>4, <1>5 DEF EnforceInv

LEMMA InitEnforceInv == Init => EnforceInv
<1> SUFFICES ASSUME Init PROVE EnforceInv
  OBVIOUS
<1>1. CodeInv /\ \A r \in Requests : ~Holding(r) /\ ~Deciding(r)
  BY InitCodeInv DEF Init, Holding, Deciding, NotSent
<1>2. PICK role \in {"admin", "voter"} : account \in {NewAccount(role), Enrolled(role)}
  BY DEF Init
<1>3. CASE account = NewAccount(role)
  <2>1. account.secret = None /\ account.enabled = (role = "admin") /\ account.role = role
    BY <1>3 DEF NewAccount
  <2> QED BY <1>1, <2>1 DEF EnforceInv, InStep, IsAdmin, LeftIn
<1>4. CASE account = Enrolled(role)
  <2>1. account.enabled /\ account.secret = Initial /\ account.codes = AllCodes(Initial)
    BY <1>4 DEF Enrolled
  <2>2. LeftIn(account.secret, account.codes, Presented)
    BY <2>1 DEF LeftIn, Secret
  <2>3. Initial # None
    BY NamesAssumption
  <2> QED BY <1>1, <2>1, <2>2, <2>3 DEF EnforceInv, InStep, IsAdmin
<1> QED BY <1>2, <1>3, <1>4

\* A session on a password alone is opened by a login.
LEMMA LoginOpens ==
    ASSUME OtpInv, [Next]_vars, NEW r \in Requests, OpensUnasked(r)
    PROVE  Deciding(r) /\ ~OtpRequired(req[r].snap)
<1>1. OtpTypeOK /\ RequestOK(r) /\ Handler(r)
  BY TypesOfRequest, OneHandlerMoves DEF OpensUnasked
<1>2. CASE Login(r)
  <2>1. ~Answer(r, "challenge") \/ signedIn' # signedIn
    BY <1>1, <1>2, Answers DEF OpensUnasked, Reply
  <2> QED BY <1>2, <2>1 DEF Login, Deciding
<1>3. CASE Send(r)
  BY <1>3, <1>1, Sends DEF OpensUnasked, Sent, Send
<1>4. CASE Find(r)
  BY <1>4, <1>1, Finds DEF OpensUnasked, Find, RequestOK
<1>5. CASE Lose(r)
  BY <1>5, <1>1, Answers DEF OpensUnasked, Lose, Reply
<1>6. ~(AssertUnused(r) \/ CheckCode(r) \/ SpendCode(r) \/ RecordFailure(r) \/ Fails(r))
  BY <1>1 DEF OpensUnasked, RequestOK, AssertUnused, CheckCode, SpendCode, RecordFailure, Fails
<1>7. ~(StartSetup(r) \/ CheckSetup(r) \/ StoreSecret(r) \/ Disable(r))
  BY DEF OpensUnasked, StartSetup, CheckSetup, StoreSecret, Disable
<1>8. ~(IssueStepUp(r) \/ ConsumeToken(r))
  BY <1>1 DEF OpensUnasked, RequestOK, IssueStepUp, ConsumeToken
<1> QED BY <1>1, <1>2, <1>3, <1>4, <1>5, <1>6, <1>7, <1>8 DEF Handler, Serve

\* The flag and the secret of the stored account agree, and a login that opens a
\* session on its password alone read an account that was no administrator's and had
\* no secret: both as long as the recovery codes of no enrolment have all been
\* presented.  A secret stored after the login read the account is not asked for.
THEOREM SecretsEnforced == Spec => SecretEnforced
<1>1. EnforceInv' => Agreed'
  BY DEF EnforceInv, InStep, Agreed
<1>2. EnforceInv /\ [Next]_vars => UnaskedHadNoSecret
  <2> SUFFICES ASSUME EnforceInv, [Next]_vars, NEW r \in Requests, OpensUnasked(r)
               PROVE  /\ req[r].snap.role # "admin"
                      /\ CodesExhausted \/ req[r].snap.secret = None
    BY DEF UnaskedHadNoSecret
  <2>1. Deciding(r) /\ ~OtpRequired(req[r].snap)
    BY LoginOpens DEF EnforceInv, CodeInv
  <2>2. req[r].snap.role # "admin" /\ ~req[r].snap.enabled
    BY <2>1 DEF OtpRequired
  <2>3. ~IsAdmin
    BY <2>1, <2>2 DEF EnforceInv, IsAdmin
  <2> QED BY <2>1, <2>2, <2>3 DEF EnforceInv, InStep
<1>3. EnforceInv /\ [Next]_vars => EnforceInv' /\ [Agreed' /\ UnaskedHadNoSecret]_vars
  BY <1>1, <1>2, EnforceInvInductive
<1> QED BY <1>3, InitEnforceInv, PTL DEF Spec, SecretEnforced

=============================================================================
