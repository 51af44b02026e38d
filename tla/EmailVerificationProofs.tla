----------------------- MODULE EmailVerificationProofs -----------------------
(***************************************************************************)
(* Proofs about registration and e-mail verification, for any requests,    *)
(* lifetimes and failures.  Only that an address is registered once takes   *)
(* the unique index to have been built.                                    *)
(***************************************************************************)
EXTENDS EmailVerificationProperties, TLAPS

-----------------------------------------------------------------------------
(* The shape of requests.                                                  *)

VisitPhase == {"find", "decide", "consume", "account", "mark", "purge"}

RequestOK(r) ==
    /\ req[r].phase # "done" => req[r].reply = "none"
    /\ req[r].phase \in VisitPhase => req[r].link \in mailed
    /\ req[r].phase \in {"clear", "insert", "mail"} \/ r \in mailed => req[r].user \in Requests
    /\ req[r].phase \in {"new", "lookup", "create"} =>
          req[r].user = Nobody /\ accounts[r] = "absent"
    /\ req[r].user # Nobody => accounts[req[r].user] # "absent"
    /\ req[r].phase = "new" => req[r].snap = NoLink

EmailInv == EmailTypeOK /\ \A r \in Requests : RequestOK(r)

LEMMA TimesNat == MaxTime \in Nat /\ Lifetime \in Nat
BY TimesAssumption

LEMMA InitEmailInv == Init => EmailInv
BY TimesNat DEF Init, EmailInv, EmailTypeOK, RequestOK, VisitPhase, NotSent, NoLink,
   Time, Account, Link, UsedToken, Request, Kind, Phase, Reply

\* The handler of r makes a step: nothing happens to the other requests.
Moved(r) ==
    /\ req' \in [Requests -> Request]
    /\ \A q \in Requests \ {r} : req'[q] = req[q]

\* It goes on with the same link and the same account.
Kept(r) ==
    /\ Moved(r)
    /\ req'[r].kind = req[r].kind /\ req'[r].link = req[r].link
    /\ req'[r].user = req[r].user

\* It starts to work on an account.
Adopted(r, u) ==
    /\ Moved(r)
    /\ req'[r].kind = req[r].kind /\ req'[r].link = req[r].link
    /\ req'[r].user = u /\ req'[r].phase = "clear"
    /\ req'[r].snap = req[r].snap /\ req'[r].reply = req[r].reply

LEMMA Adopts ==
    ASSUME EmailTypeOK, NEW r \in Requests, NEW u \in Requests,
           Adopt(r, u)
    PROVE  Adopted(r, u)
<1> DEFINE x == [req[r] EXCEPT !.phase = "clear", !.user = u]
<1>1. req[r] \in Request /\ req \in [Requests -> Request]
  BY DEF EmailTypeOK
<1>2. req' = [req EXCEPT ![r] = x]
  BY DEF Adopt
<1>3. x \in Request /\ x.kind = req[r].kind /\ x.link = req[r].link /\ x.user = u
      /\ x.phase = "clear" /\ x.snap = req[r].snap /\ x.reply = req[r].reply
  BY <1>1 DEF Request, Phase
<1> HIDE DEF x
<1>4. req' \in [Requests -> Request] /\ req'[r] = x
      /\ \A q \in Requests \ {r} : req'[q] = req[q]
  BY <1>1, <1>2, <1>3
<1> QED BY <1>3, <1>4 DEF Adopted, Moved

LEMMA Moves ==
    ASSUME EmailTypeOK, NEW r \in Requests, NEW p \in Phase, Advance(r, p)
    PROVE  /\ Kept(r)
           /\ req'[r].phase = p
           /\ req'[r].snap = req[r].snap /\ req'[r].reply = req[r].reply
<1>1. req[r] \in Request /\ req \in [Requests -> Request]
  BY DEF EmailTypeOK
<1>2. req' = [req EXCEPT ![r] = [req[r] EXCEPT !.phase = p]]
  BY DEF Advance
<1>3. [req[r] EXCEPT !.phase = p] \in Request
  BY <1>1 DEF Request
<1>4. req' \in [Requests -> Request] /\ req'[r] = [req[r] EXCEPT !.phase = p]
      /\ \A q \in Requests \ {r} : req'[q] = req[q]
  BY <1>1, <1>2, <1>3
<1> QED BY <1>1, <1>4 DEF Kept, Moved, Request

LEMMA Answers ==
    ASSUME EmailTypeOK, NEW r \in Requests, NEW y \in Reply, Answer(r, y)
    PROVE  /\ Kept(r)
           /\ req'[r].phase = "done" /\ req'[r].snap = NoLink /\ req'[r].reply = y
<1> DEFINE x == [req[r] EXCEPT !.phase = "done", !.snap = NoLink, !.reply = y]
<1>1. req[r] \in Request /\ req \in [Requests -> Request] /\ NoLink \in Link
  BY TimesNat DEF EmailTypeOK, NoLink, Link
<1>2. req' = [req EXCEPT ![r] = x]
  BY DEF Answer
<1>3. x \in Request /\ x.kind = req[r].kind /\ x.link = req[r].link /\ x.user = req[r].user
      /\ x.phase = "done" /\ x.snap = NoLink /\ x.reply = y
  BY <1>1 DEF Request, Phase
<1> HIDE DEF x
<1>4. req' \in [Requests -> Request] /\ req'[r] = x
      /\ \A q \in Requests \ {r} : req'[q] = req[q]
  BY <1>1, <1>2, <1>3
<1> QED BY <1>3, <1>4 DEF Kept, Moved

LEMMA Finds ==
    ASSUME EmailTypeOK, NEW r \in Requests, FindLink(r), req[r].link \in Requests
    PROVE  /\ Kept(r)
           /\ req'[r].phase = "decide"
           /\ req'[r].snap = links[req[r].link] /\ req'[r].reply = req[r].reply
<1> DEFINE x == [req[r] EXCEPT !.phase = "decide", !.snap = links[req[r].link]]
<1>1. req[r] \in Request /\ req \in [Requests -> Request] /\ links[req[r].link] \in Link
  BY DEF EmailTypeOK
<1>2. req' = [req EXCEPT ![r] = x]
  BY DEF FindLink
<1>3. x \in Request /\ x.kind = req[r].kind /\ x.link = req[r].link /\ x.user = req[r].user
      /\ x.phase = "decide" /\ x.snap = links[req[r].link] /\ x.reply = req[r].reply
  BY <1>1 DEF Request, Phase
<1> HIDE DEF x
<1>4. req' \in [Requests -> Request] /\ req'[r] = x
      /\ \A q \in Requests \ {r} : req'[q] = req[q]
  BY <1>1, <1>2, <1>3
<1> QED BY <1>3, <1>4 DEF Kept, Moved

LEMMA Sends ==
    ASSUME EmailTypeOK, NEW r \in Requests, Send(r)
    PROVE  /\ req' \in [Requests -> Request]
           /\ \A q \in Requests \ {r} : req'[q] = req[q]
           /\ req'[r].reply = req[r].reply /\ req'[r].snap = req[r].snap
           /\ req'[r].user = req[r].user
           /\ req'[r].phase \in {"lookup", "find"}
           /\ req'[r].phase = "find" => req'[r].link \in mailed
<1>1. req[r] \in Request /\ req \in [Requests -> Request] /\ mailed \subseteq Requests
  BY DEF EmailTypeOK
<1> DEFINE Sent(x) == /\ x \in Request /\ x.reply = req[r].reply /\ x.snap = req[r].snap
                      /\ x.user = req[r].user
                      /\ x.phase \in {"lookup", "find"}
                      /\ x.phase = "find" => x.link \in mailed
<1>2. PICK x : req' = [req EXCEPT ![r] = x] /\ Sent(x)
  <2>1. CASE req' = [req EXCEPT ![r].kind = "register", ![r].phase = "lookup"]
    <3> DEFINE y == [req[r] EXCEPT !.kind = "register", !.phase = "lookup"]
    <3>1. req' = [req EXCEPT ![r] = y]
      BY <2>1, <1>1
    <3>2. Sent(y)
      BY <1>1 DEF Request, Kind, Phase
    <3> QED BY <3>1, <3>2
  <2>2. CASE req' = [req EXCEPT ![r].kind = "resend", ![r].phase = "lookup"]
    <3> DEFINE y == [req[r] EXCEPT !.kind = "resend", !.phase = "lookup"]
    <3>1. req' = [req EXCEPT ![r] = y]
      BY <2>2, <1>1
    <3>2. Sent(y)
      BY <1>1 DEF Request, Kind, Phase
    <3> QED BY <3>1, <3>2
  <2>3. ASSUME NEW l \in mailed,
               req' = [req EXCEPT ![r].kind = "visit", ![r].phase = "find", ![r].link = l]
        PROVE  \E x : req' = [req EXCEPT ![r] = x] /\ Sent(x)
    <3> DEFINE y == [req[r] EXCEPT !.kind = "visit", !.phase = "find", !.link = l]
    <3>1. req' = [req EXCEPT ![r] = y]
      BY <2>3, <1>1
    <3>2. Sent(y)
      BY <1>1, <2>3 DEF Request, Kind, Phase
    <3> QED BY <3>1, <3>2
  <2> HIDE DEF Sent
  <2> QED BY <2>1, <2>2, <2>3 DEF Send
<1> QED BY <1>1, <1>2

\* Only the handler of r moves, and it leaves the collections well-formed.
LEMMA HandlerKeepsEmailInv ==
    ASSUME EmailInv, NEW r \in Requests, Moved(r), RequestOK(r)',
           links' \in [Requests -> Link], mailed \subseteq mailed', mailed' \subseteq mailed \cup {r},
           usedTokens' \subseteq UsedToken, accounts' \in [Requests -> Account], now' = now,
           \A u \in Requests : accounts[u] # "absent" => accounts'[u] # "absent",
           \A u \in Requests \ {r} : accounts[u] = "absent" => accounts'[u] = "absent"
    PROVE  EmailInv'
<1>1. EmailTypeOK'
  BY DEF EmailInv, EmailTypeOK, Moved
<1>2. ASSUME NEW q \in Requests \ {r} PROVE RequestOK(q)'
  <2>1. req[q] \in Request /\ req'[q] = req[q] /\ RequestOK(q)
    BY DEF EmailInv, EmailTypeOK, Moved
  <2>2. req[q].user \in Requests \cup {Nobody}
    BY <2>1 DEF Request
  <2> QED BY <2>1, <2>2 DEF RequestOK
<1> QED BY <1>1, <1>2 DEF EmailInv

\* A handler that goes on with its link or its account, whose database operations
\* create no account and send no message.
Stays(r) ==
    /\ Kept(r) /\ mailed' = mailed /\ now' = now
    /\ \A u \in Requests : accounts[u] = "absent" <=> accounts'[u] = "absent"
    /\ req'[r].phase \notin {"new", "lookup"}
    /\ req'[r].phase = "create" => req[r].phase = "lookup"
    /\ req'[r].phase \in VisitPhase => req[r].phase \in VisitPhase
    /\ req'[r].phase \in {"clear", "insert", "mail"} => req[r].phase \in {"clear", "insert", "mail"}
    /\ req'[r].phase # "done" => req'[r].reply = req[r].reply /\ req[r].phase # "done"

LEMMA HandlerStays ==
    ASSUME EmailInv, NEW r \in Requests, Stays(r), links' \in [Requests -> Link],
           usedTokens' \subseteq UsedToken, accounts' \in [Requests -> Account]
    PROVE  EmailInv'
<1>1. /\ RequestOK(r) /\ req[r] \in Request /\ req[r].user \in Requests \cup {Nobody}
      /\ Moved(r) /\ req'[r].user = req[r].user /\ req'[r].link = req[r].link
  BY DEF EmailInv, EmailTypeOK, Request, Stays, Kept
<1>2. RequestOK(r)'
  BY <1>1 DEF RequestOK, Stays
<1> QED BY <1>1, <1>2, HandlerKeepsEmailInv DEF Stays

LEMMA MailingKeepsEmailInv ==
    ASSUME EmailInv, NEW r \in Requests, Mailing(r)
    PROVE  EmailInv'
<1>1. EmailTypeOK /\ RequestOK(r)
  BY DEF EmailInv
<1>2. CASE Lookup(r)
  <2>1. ASSUME NEW u \in Requests, Adopted(r, u), accounts[u] # "absent" PROVE EmailInv'
    <3>1. RequestOK(r)' /\ Moved(r)
      BY <1>1, <1>2, <2>1 DEF Lookup, Adopted, RequestOK, VisitPhase
    <3> QED BY <1>1, <1>2, <3>1, HandlerKeepsEmailInv DEF Lookup, EmailTypeOK
  <2>2. CASE \E u \in Registrations : Adopt(r, u)
    BY <1>1, <2>1, <2>2, Adopts DEF Registrations
  <2>3. CASE Advance(r, "create") \/ Answer(r, "exists") \/ Answer(r, "nothing")
    <3>1. Stays(r)
      BY <1>1, <1>2, <2>3, Moves, Answers DEF Lookup, Stays, Kept, VisitPhase, Phase, Reply
    <3> QED BY <1>1, <1>2, <3>1, HandlerStays DEF Lookup, EmailTypeOK
  <2> QED BY <1>2, <2>2, <2>3 DEF Lookup
<1>3. CASE CreateAccount(r)
  <2>1. accounts' \in [Requests -> Account] /\ req[r].phase = "create"
        /\ \A u \in Requests \ {r} : accounts'[u] = accounts[u]
    BY <1>1, <1>3 DEF CreateAccount, EmailTypeOK, Account
  <2>2. CASE /\ accounts' = [accounts EXCEPT ![r] = "unverified"]
             /\ Adopt(r, r)
    <3>1. Adopted(r, r) /\ accounts'[r] # "absent"
      BY <1>1, <2>2, Adopts DEF EmailTypeOK
    <3>2. RequestOK(r)' /\ Moved(r)
      BY <1>1, <2>1, <3>1 DEF Adopted, RequestOK, VisitPhase
    <3> QED BY <1>1, <1>3, <2>1, <3>1, <3>2, HandlerKeepsEmailInv DEF CreateAccount, EmailTypeOK
  <2>3. CASE Answer(r, "conflict") \/ Answer(r, "error")
    <3>1. Kept(r) /\ req'[r].phase = "done"
      BY <1>1, <2>3, Answers DEF Reply
    <3>2. Moved(r) /\ req'[r].user = Nobody /\ req'[r].link = req[r].link /\ r \notin mailed
      BY <1>1, <2>1, <3>1, NobodyAssumption DEF Kept, RequestOK
    <3>3. RequestOK(r)' /\ (accounts[r] = "absent")
      BY <1>1, <1>3, <2>1, <3>1, <3>2 DEF CreateAccount, RequestOK, VisitPhase
    <3> QED BY <1>1, <1>3, <2>1, <3>2, <3>3, HandlerKeepsEmailInv DEF CreateAccount, EmailTypeOK
  <2> QED BY <1>3, <2>2, <2>3 DEF CreateAccount
<1>4. CASE ClearLinks(r) \/ InsertLink(r)
  <2>1. Stays(r)
    BY <1>1, <1>4, Moves, Answers
    DEF ClearLinks, InsertLink, AdvanceOrFail, Stays, VisitPhase, Phase, Reply, Kept
  <2>2. links' \in [Requests -> Link]
    <3>1. NoLink \in Link /\ now + Lifetime \in 0..(MaxTime + Lifetime)
      BY <1>1, TimesNat DEF NoLink, Link, EmailTypeOK, Time
    <3>2. [state |-> "unused", expiresAt |-> now + Lifetime] \in Link
      BY <3>1 DEF Link
    <3> QED BY <1>1, <1>4, <3>1, <3>2 DEF ClearLinks, InsertLink, EmailTypeOK
  <2> QED BY <1>1, <1>4, <2>1, <2>2, HandlerStays DEF ClearLinks, InsertLink, EmailTypeOK
<1>5. CASE Mail(r)
  <2>1. Kept(r) /\ req'[r].phase = "done" /\ req[r].phase = "mail"
    BY <1>1, <1>5, Answers DEF Mail, Reply
  <2>2. /\ Moved(r) /\ req'[r].user = req[r].user /\ req'[r].link = req[r].link
        /\ req[r].user \in Requests /\ accounts' = accounts
    BY <1>1, <1>5, <2>1 DEF Kept, RequestOK, Mail
  <2>3. RequestOK(r)'
    BY <1>1, <2>1, <2>2 DEF RequestOK, VisitPhase
  <2> QED BY <1>1, <1>5, <2>2, <2>3, HandlerKeepsEmailInv DEF Mail, EmailTypeOK
<1> QED BY <1>2, <1>3, <1>4, <1>5 DEF Mailing

LEMMA VisitingKeepsEmailInv ==
    ASSUME EmailInv, NEW r \in Requests, Visiting(r)
    PROVE  EmailInv'
<1>1. EmailTypeOK /\ RequestOK(r)
  BY DEF EmailInv
<1>2. req[r].phase \in VisitPhase
  BY DEF Visiting, FindLink, DecideVisit, ConsumeLink, VerifyAccount, MarkLink, PurgeLinks,
     VisitPhase
<1>3. /\ req[r].link \in mailed /\ req[r].link \in Requests
      /\ Owner(req[r].link) \in Requests /\ accounts[Owner(req[r].link)] # "absent"
  <2>1. req[r].link \in mailed /\ req[r].link \in Requests
    BY <1>1, <1>2 DEF RequestOK, EmailTypeOK
  <2> QED BY <2>1, NobodyAssumption DEF EmailInv, RequestOK, Owner
<1>4. Kept(r)
  <2>1. CASE FindLink(r)
    BY <1>1, <1>3, <2>1, Finds
  <2>2. CASE DecideVisit(r) \/ ConsumeLink(r)
    BY <1>1, <2>2, Moves, Answers DEF DecideVisit, ConsumeLink, AdvanceOrFail, Phase, Reply
  <2>3. CASE VerifyAccount(r) \/ MarkLink(r) \/ PurgeLinks(r)
    BY <1>1, <2>3, Moves, Answers
    DEF VerifyAccount, MarkLink, PurgeLinks, AdvanceOrFail, Phase, Reply
  <2> QED BY <2>1, <2>2, <2>3 DEF Visiting
<1>5. /\ req'[r].phase \in VisitPhase \cup {"done"}
      /\ req'[r].phase # "done" => req'[r].reply = req[r].reply
  <2>1. CASE FindLink(r)
    BY <1>1, <1>3, <2>1, Finds DEF VisitPhase
  <2>2. CASE DecideVisit(r) \/ ConsumeLink(r)
    BY <1>1, <2>2, Moves, Answers
    DEF DecideVisit, ConsumeLink, AdvanceOrFail, Phase, Reply, VisitPhase
  <2>3. CASE VerifyAccount(r) \/ MarkLink(r) \/ PurgeLinks(r)
    BY <1>1, <2>3, Moves, Answers
    DEF VerifyAccount, MarkLink, PurgeLinks, AdvanceOrFail, Phase, Reply, VisitPhase
  <2> QED BY <2>1, <2>2, <2>3 DEF Visiting
<1>6. mailed' = mailed /\ now' = now
  BY DEF Visiting, FindLink, DecideVisit, ConsumeLink, VerifyAccount, MarkLink, PurgeLinks
<1>7. /\ accounts' \in [Requests -> Account]
      /\ \A u \in Requests : accounts[u] = "absent" <=> accounts'[u] = "absent"
  <2>1. CASE VerifyAccount(r)
    BY <1>1, <1>3, <2>1 DEF VerifyAccount, EmailTypeOK, Account
  <2>2. CASE ~VerifyAccount(r)
    <3>1. accounts' = accounts
      BY <2>2 DEF Visiting, FindLink, DecideVisit, ConsumeLink, MarkLink, PurgeLinks
    <3> QED BY <1>1, <3>1 DEF EmailTypeOK
  <2> QED BY <2>1, <2>2
<1>8. links' \in [Requests -> Link]
  <2>1. NoLink \in Link
    BY TimesNat DEF NoLink, Link
  <2>2. CASE MarkLink(r) \/ PurgeLinks(r)
    BY <1>1, <2>1, <2>2 DEF MarkLink, PurgeLinks, EmailTypeOK, Link
  <2>3. CASE ~(MarkLink(r) \/ PurgeLinks(r))
    <3>1. links' = links
      BY <2>3 DEF Visiting, FindLink, DecideVisit, ConsumeLink, VerifyAccount
    <3> QED BY <1>1, <3>1 DEF EmailTypeOK
  <2> QED BY <2>2, <2>3
<1>9. usedTokens' \subseteq UsedToken
  <2>1. CASE ConsumeLink(r)
    <3>1. [link |-> req[r].link, expiresAt |-> req[r].snap.expiresAt] \in UsedToken
      BY <1>1, <1>3 DEF EmailTypeOK, Request, Link, UsedToken
    <3> QED BY <1>1, <2>1, <3>1 DEF ConsumeLink, EmailTypeOK
  <2>2. CASE ~ConsumeLink(r)
    <3>1. usedTokens' = usedTokens
      BY <2>2 DEF Visiting, FindLink, DecideVisit, VerifyAccount, MarkLink, PurgeLinks
    <3> QED BY <1>1, <3>1 DEF EmailTypeOK
  <2> QED BY <2>1, <2>2
<1>10. Stays(r)
  BY <1>2, <1>4, <1>5, <1>6, <1>7 DEF Stays, VisitPhase
<1> QED BY <1>7, <1>8, <1>9, <1>10, HandlerStays

\* The end of a request nobody answers, or with an error.
LEMMA EndKeepsEmailInv ==
    ASSUME EmailInv, NEW r \in Requests, Fails(r) \/ Lose(r)
    PROVE  EmailInv'
<1>1. EmailTypeOK
  BY DEF EmailInv
<1>2. Stays(r)
  BY <1>1, Answers DEF Fails, Lose, Stays, VisitPhase, Reply
<1> QED BY <1>1, <1>2, HandlerStays DEF Fails, Lose, EmailTypeOK

\* Nothing happens to requests, accounts and messages.
LEMMA RequestsUntouched ==
    ASSUME EmailInv, EmailTypeOK', UNCHANGED <<req, accounts, mailed>>
    PROVE  EmailInv'
BY DEF EmailInv, RequestOK

LEMMA EmailInvInductive == EmailInv /\ [Next]_vars => EmailInv'
<1> SUFFICES ASSUME EmailInv, [Next]_vars PROVE EmailInv'
  OBVIOUS
<1>1. ASSUME NEW r \in Requests, Send(r) PROVE EmailInv'
  <2>1. /\ EmailTypeOK /\ RequestOK(r) /\ req[r].phase = "new" /\ req[r].reply = "none"
        /\ req[r] \in Request
    BY <1>1 DEF Send, EmailInv, EmailTypeOK, RequestOK
  <2>2. /\ Moved(r) /\ req'[r].reply = "none" /\ req'[r].user = req[r].user
        /\ req'[r].phase \in {"lookup", "find"}
        /\ req'[r].phase = "find" => req'[r].link \in mailed
    BY <1>1, <2>1, Sends DEF Moved
  <2>3. UNCHANGED <<now, accounts, links, mailed, usedTokens>>
    BY <1>1 DEF Send
  <2>4. RequestOK(r)'
    BY <2>1, <2>2, <2>3 DEF RequestOK, VisitPhase
  <2> QED BY <2>1, <2>2, <2>3, <2>4, HandlerKeepsEmailInv DEF EmailTypeOK
<1>2. CASE ExpireLink
  <2>1. NoLink \in Link
    BY TimesNat DEF NoLink, Link
  <2> QED BY <1>2, <2>1, RequestsUntouched DEF ExpireLink, EmailInv, EmailTypeOK
<1>3. CASE ExpireToken
  BY <1>3, RequestsUntouched DEF ExpireToken, EmailInv, EmailTypeOK
<1>4. CASE Tick
  BY <1>4, RequestsUntouched, TimesNat DEF Tick, EmailInv, EmailTypeOK, Time
<1>5. CASE UNCHANGED vars
  BY <1>5, RequestsUntouched DEF vars, EmailInv, EmailTypeOK
<1> QED BY <1>1, <1>2, <1>3, <1>4, <1>5, MailingKeepsEmailInv, VisitingKeepsEmailInv,
           EndKeepsEmailInv DEF Next, Quiescent

\* Whatever is asked and whatever fails, account, links, tokens and requests stay
\* well-formed.
THEOREM EmailTypeCorrect == Spec => []EmailTypeOK
<1>1. EmailInv => EmailTypeOK
  BY DEF EmailInv
<1> QED BY <1>1, InitEmailInv, EmailInvInductive, PTL DEF Spec

-----------------------------------------------------------------------------
(* One registration of the address.                                        *)

\* Whoever registered finds an account there.
AccountInv ==
    /\ EmailInv
    /\ \A r \in Requests : Registered(r) => Registrations # {}
    /\ OneRegistration

\* Accounts are never removed.
LEMMA AccountsStay ==
    ASSUME EmailTypeOK, [Next]_vars
    PROVE  Registrations \subseteq Registrations'
<1>1. CASE accounts' = accounts
  BY <1>1 DEF Registrations
<1>2. ASSUME NEW r \in Requests, CreateAccount(r) \/ VerifyAccount(r)
      PROVE  Registrations \subseteq Registrations'
  BY <1>2 DEF CreateAccount, VerifyAccount, EmailTypeOK, Registrations
<1>3. CASE ExpireLink \/ ExpireToken \/ Tick \/ UNCHANGED vars
  BY <1>1, <1>3 DEF ExpireLink, ExpireToken, Tick, vars
<1>4. ASSUME NEW r \in Requests, Send(r) \/ Mailing(r) \/ Visiting(r) \/ Fails(r) \/ Lose(r),
             ~(CreateAccount(r) \/ VerifyAccount(r))
      PROVE  accounts' = accounts
  BY <1>4 DEF Send, Mailing, Lookup, ClearLinks, InsertLink, Mail, Visiting, FindLink,
     DecideVisit, ConsumeLink, MarkLink, PurgeLinks, Fails, Lose
<1> QED BY <1>1, <1>2, <1>3, <1>4 DEF Next, Quiescent

\* No request becomes a registration.
LEMMA NobodyRegisters ==
    ASSUME AccountInv, [Next]_vars, EmailInv', \A q \in Requests : Registered(q)' => Registered(q)
    PROVE  AccountInv'
BY AccountsStay DEF AccountInv, EmailInv, OneRegistration

LEMMA HandlerRegistersNobody ==
    ASSUME AccountInv, [Next]_vars, EmailInv', NEW r \in Requests, Moved(r),
           Registered(r)' => Registered(r)
    PROVE  AccountInv'
<1>1. \A q \in Requests : Registered(q)' => Registered(q)
  BY DEF Moved, Registered
<1> QED BY <1>1, NobodyRegisters

LEMMA AccountInvInductive ==
    ASSUME UniqueIndex
    PROVE  AccountInv /\ [Next]_vars => AccountInv'
<1> SUFFICES ASSUME AccountInv, [Next]_vars PROVE AccountInv'
  OBVIOUS
<1>1. EmailInv /\ EmailTypeOK /\ EmailInv' /\ \A r \in Requests : RequestOK(r)
  BY EmailInvInductive DEF AccountInv, EmailInv
<1>2. ASSUME NEW r \in Requests, Send(r) PROVE AccountInv'
  <2>1. ~Registered(r)' /\ \A q \in Requests \ {r} : req'[q] = req[q]
    BY <1>1, <1>2, Sends DEF Send, RequestOK, Registered
  <2>2. \A q \in Requests : Registered(q)' => Registered(q)
    BY <2>1 DEF Registered
  <2> QED BY <1>1, <2>2, NobodyRegisters
<1>3. ASSUME NEW r \in Requests, CreateAccount(r) PROVE AccountInv'
  <2>1. CASE Registrations # {}
    <3>1. Moved(r) /\ req'[r].phase = "done" /\ req'[r].reply = "conflict"
      BY <1>1, <1>3, <2>1, Answers DEF CreateAccount, Reply, Kept
    <3> QED BY <1>1, <3>1, HandlerRegistersNobody DEF Registered
  <2>2. CASE Registrations = {}
    <3>1. Moved(r)
      BY <1>1, <1>3, <2>2, Adopts, Answers DEF CreateAccount, Adopted, Kept, Reply
    <3>2. accounts'[r] = "unverified"
      BY <1>1, <1>3, <2>2 DEF CreateAccount, EmailTypeOK
    <3>3. Registrations' # {}
      BY <3>2 DEF Registrations
    <3>4. \A q \in Requests \ {r} : ~Registered(q)'
      BY <2>2, <3>1 DEF AccountInv, Moved, Registered
    <3> QED BY <1>1, <3>3, <3>4 DEF AccountInv, OneRegistration
  <2> QED BY <2>1, <2>2
<1>4. ASSUME NEW r \in Requests, Mailing(r), ~CreateAccount(r) PROVE AccountInv'
  <2>1. CASE Lookup(r)
    <3>1. ASSUME NEW u \in Requests, Adopted(r, u), req[r].kind = "resend" PROVE AccountInv'
      BY <1>1, <3>1, HandlerRegistersNobody DEF Adopted, Registered
    <3>2. ASSUME Kept(r), \/ req'[r].phase = "create" /\ req'[r].reply = "none"
                          \/ req'[r].reply \in {"exists", "nothing"} /\ req'[r].phase = "done"
          PROVE AccountInv'
      BY <1>1, <3>2, HandlerRegistersNobody DEF Kept, Registered
    <3>3. CASE Advance(r, "create")
      BY <1>1, <2>1, <3>2, <3>3, Moves DEF Lookup, Phase, RequestOK
    <3>4. CASE Answer(r, "exists") \/ Answer(r, "nothing")
      BY <1>1, <3>2, <3>4, Answers DEF Reply
    <3>5. CASE /\ req[r].kind = "resend"
               /\ \E u \in Registrations : Adopt(r, u)
      BY <1>1, <3>1, <3>5, Adopts DEF Registrations
    <3> QED BY <2>1, <3>3, <3>4, <3>5 DEF Lookup
  <2>2. CASE ClearLinks(r) \/ InsertLink(r) \/ Mail(r)
    <3>1. Kept(r) /\ req[r].phase \in {"clear", "insert", "mail"}
      BY <1>1, <2>2, Moves, Answers
      DEF ClearLinks, InsertLink, Mail, AdvanceOrFail, Phase, Reply
    <3> QED BY <1>1, <3>1, HandlerRegistersNobody DEF Registered, Kept
  <2> QED BY <1>4, <2>1, <2>2 DEF Mailing
<1>5. ASSUME NEW r \in Requests, Visiting(r) PROVE AccountInv'
  <2>1. /\ Kept(r)
        /\ req'[r].phase \in {"decide", "consume", "account", "mark", "purge", "done"}
        /\ req'[r].phase = "done" => req'[r].reply \in {"invalid", "used", "error", "verified"}
    <3>1. CASE FindLink(r)
      BY <1>1, <3>1, Finds DEF FindLink, EmailTypeOK, RequestOK, VisitPhase
    <3>2. CASE DecideVisit(r) \/ ConsumeLink(r)
      BY <1>1, <3>2, Moves, Answers DEF DecideVisit, ConsumeLink, AdvanceOrFail, Phase, Reply
    <3>3. CASE VerifyAccount(r) \/ MarkLink(r) \/ PurgeLinks(r)
      BY <1>1, <3>3, Moves, Answers
      DEF VerifyAccount, MarkLink, PurgeLinks, AdvanceOrFail, Phase, Reply
    <3> QED BY <1>5, <3>1, <3>2, <3>3 DEF Visiting
  <2>2. RequestOK(r)'
    BY <1>1 DEF EmailInv
  <2>3. ~Registered(r)'
    BY <2>1, <2>2 DEF Registered, RequestOK
  <2> QED BY <1>1, <2>1, <2>3, HandlerRegistersNobody DEF Kept
<1>6. ASSUME NEW r \in Requests, Fails(r) \/ Lose(r) PROVE AccountInv'
  <2>1. Kept(r)
    BY <1>1, <1>6, Answers DEF Fails, Lose, Reply
  <2>2. Registered(r)' => Registered(r)
    BY <1>1, <1>6, <2>1, Answers DEF Fails, Lose, Reply, Registered, Kept
  <2> QED BY <1>1, <2>1, <2>2, HandlerRegistersNobody DEF Kept
<1>7. CASE ExpireLink \/ ExpireToken \/ Tick \/ UNCHANGED vars
  BY <1>1, <1>7, NobodyRegisters DEF ExpireLink, ExpireToken, Tick, vars, Registered
<1> QED BY <1>2, <1>3, <1>4, <1>5, <1>6, <1>7 DEF Next, Quiescent

\* However many registrations find the address free, one of them creates the
\* account, if the unique index on the address was built.
THEOREM OneRegistrationHolds ==
    ASSUME UniqueIndex
    PROVE  Spec => []OneRegistration
<1>1. Init => AccountInv
  BY InitEmailInv DEF Init, AccountInv, OneRegistration, Registered, NotSent
<1>2. AccountInv => OneRegistration
  BY DEF AccountInv
<1> QED BY <1>1, <1>2, AccountInvInductive, PTL DEF Spec

-----------------------------------------------------------------------------
(* What users of a link are told.                                          *)

\* Some step of the handler of r, its first one included.
Handler(r) == Send(r) \/ Mailing(r) \/ Visiting(r) \/ Fails(r) \/ Lose(r)

\* The link was mailed, and the account it was mailed to is verified.
Verified(l) == l \in mailed /\ accounts[Owner(l)] = "verified"

\* The account is verified, or some visit with this link has consumed it and is
\* about to verify the account or did not get there.
Accounted(l) ==
    \/ Verified(l)
    \/ \E q \in Requests :
          /\ req[q].link = l
          /\ \/ req[q].phase = "account"
             \/ req[q].phase = "done" /\ req[q].reply \in {"error", "none"}

Entitled(r) ==
    /\ req[r].phase \in {"mark", "purge"} => Verified(req[r].link)
    /\ req[r].snap.state = "used" => Verified(req[r].link)
    /\ req[r].phase = "done" /\ req[r].reply = "used" => Accounted(req[r].link)

VisitInv ==
    /\ EmailInv
    /\ \A l \in Requests : links[l].state = "used" => Verified(l)
    /\ \A l \in Requests : Consumed(l) => Accounted(l)
    /\ \A r \in Requests : Entitled(r)

LEMMA OneHandlerMoves ==
    ASSUME EmailInv, [Next]_vars, NEW q \in Requests
    PROVE  req'[q] = req[q] \/ Handler(q)
<1>1. EmailTypeOK
  BY DEF EmailInv
<1>2. ASSUME NEW r \in Requests, Handler(r), r # q PROVE req'[q] = req[q]
  <2>1. req \in [Requests -> Request]
    BY <1>1 DEF EmailTypeOK
  <2>2. CASE Send(r)
    BY <1>1, <1>2, <2>2, Sends
  <2>3. CASE Mailing(r)
    BY <1>2, <2>1, <2>3 DEF Mailing, Lookup, CreateAccount, ClearLinks, InsertLink, Mail,
       AdvanceOrFail, Advance, Answer, Adopt
  <2>4. CASE Visiting(r)
    BY <1>2, <2>1, <2>4 DEF Visiting, FindLink, DecideVisit, ConsumeLink, VerifyAccount,
       MarkLink, PurgeLinks, AdvanceOrFail, Advance, Answer
  <2>5. CASE Fails(r) \/ Lose(r)
    BY <1>2, <2>1, <2>5 DEF Fails, Lose, Answer
  <2> QED BY <1>2, <2>2, <2>3, <2>4, <2>5 DEF Handler
<1>3. CASE ExpireLink \/ ExpireToken \/ Tick \/ UNCHANGED vars
  BY <1>3 DEF ExpireLink, ExpireToken, Tick, vars
<1> QED BY <1>2, <1>3 DEF Next, Handler, Quiescent

LEMMA MailedGrows ==
    ASSUME [Next]_vars
    PROVE  mailed \subseteq mailed' /\ (mailed' # mailed => \E r \in Requests : Mail(r))
<1>1. CASE ExpireLink \/ ExpireToken \/ Tick \/ UNCHANGED vars
  BY <1>1 DEF ExpireLink, ExpireToken, Tick, vars
<1>2. ASSUME NEW r \in Requests, Handler(r), ~Mail(r) PROVE mailed' = mailed
  BY <1>2 DEF Handler, Send, Mailing, Lookup, CreateAccount, ClearLinks, InsertLink,
     Visiting, FindLink, DecideVisit, ConsumeLink, VerifyAccount, MarkLink, PurgeLinks,
     Fails, Lose
<1> QED BY <1>1, <1>2 DEF Next, Handler, Quiescent, Mail

LEMMA MailStep ==
    ASSUME [Next]_vars, NEW m, m \in mailed'
    PROVE  m \in mailed \/ (m \in Requests /\ req[m].phase = "mail")
<1>1. CASE mailed' = mailed
  BY <1>1
<1>2. ASSUME NEW r \in Requests, Mail(r)
      PROVE  m \in mailed \/ (m \in Requests /\ req[m].phase = "mail")
  BY <1>2 DEF Mail
<1> QED BY <1>1, <1>2, MailedGrows

\* A link that was mailed keeps the account it was made for.
LEMMA OwnerStays ==
    ASSUME EmailInv, [Next]_vars, NEW l \in Requests, Owner(l) \in Requests
    PROVE  Owner(l)' = Owner(l)
<1>1. EmailTypeOK /\ RequestOK(l) /\ Owner(l) # Nobody
  BY NobodyAssumption DEF EmailInv
<1>2. CASE req'[l] = req[l]
  BY <1>2 DEF Owner
<1>3. CASE Handler(l)
  <2>1. CASE Send(l) \/ Lookup(l) \/ CreateAccount(l)
    BY <1>1, <2>1 DEF Send, Lookup, CreateAccount, RequestOK, Owner
  <2>2. CASE ClearLinks(l) \/ InsertLink(l) \/ Mail(l)
    BY <1>1, <2>2, Moves, Answers
    DEF ClearLinks, InsertLink, Mail, AdvanceOrFail, Phase, Reply, Kept, Owner
  <2>3. CASE FindLink(l)
    BY <1>1, <2>3, Finds DEF FindLink, EmailTypeOK, RequestOK, VisitPhase, Kept, Owner
  <2>4. CASE DecideVisit(l) \/ ConsumeLink(l)
    BY <1>1, <2>4, Moves, Answers
    DEF DecideVisit, ConsumeLink, AdvanceOrFail, Phase, Reply, Kept, Owner
  <2>5. CASE VerifyAccount(l) \/ MarkLink(l) \/ PurgeLinks(l)
    BY <1>1, <2>5, Moves, Answers
    DEF VerifyAccount, MarkLink, PurgeLinks, AdvanceOrFail, Phase, Reply, Kept, Owner
  <2>6. CASE Fails(l) \/ Lose(l)
    BY <1>1, <2>6, Answers DEF Fails, Lose, Reply, Kept, Owner
  <2> QED BY <1>3, <2>1, <2>2, <2>3, <2>4, <2>5, <2>6 DEF Handler, Mailing, Visiting
<1> QED BY <1>2, <1>3, OneHandlerMoves

\* No account that was verified ceases to be.
LEMMA AccountStaysVerified ==
    ASSUME EmailInv, [Next]_vars, NEW u \in Requests, accounts[u] = "verified"
    PROVE  accounts'[u] = "verified"
<1>1. EmailTypeOK
  BY DEF EmailInv
<1>2. CASE accounts' = accounts
  BY <1>2
<1>3. ASSUME NEW r \in Requests, VerifyAccount(r) PROVE accounts'[u] = "verified"
  BY <1>1, <1>3 DEF VerifyAccount, EmailTypeOK
<1>4. ASSUME NEW r \in Requests, CreateAccount(r) PROVE accounts'[u] = "verified"
  BY <1>1, <1>4 DEF CreateAccount, EmailTypeOK, EmailInv, RequestOK
<1>5. CASE ExpireLink \/ ExpireToken \/ Tick \/ UNCHANGED vars
  BY <1>2, <1>5 DEF ExpireLink, ExpireToken, Tick, vars
<1>6. ASSUME NEW r \in Requests, Handler(r), ~(CreateAccount(r) \/ VerifyAccount(r))
      PROVE  accounts' = accounts
  BY <1>6 DEF Handler, Send, Mailing, Lookup, ClearLinks, InsertLink, Mail, Visiting,
     FindLink, DecideVisit, ConsumeLink, MarkLink, PurgeLinks, Fails, Lose
<1> QED BY <1>2, <1>3, <1>4, <1>5, <1>6 DEF Next, Quiescent, Handler

LEMMA VerifiedStays ==
    ASSUME EmailInv, [Next]_vars, NEW l, Verified(l)
    PROVE  Verified(l)'
<1>1. l \in mailed /\ l \in Requests /\ Owner(l) \in Requests
  BY DEF Verified, Owner, EmailInv, EmailTypeOK, RequestOK
<1>2. l \in mailed' /\ Owner(l)' = Owner(l)
  BY <1>1, OwnerStays, MailedGrows
<1> QED BY <1>1, <1>2, AccountStaysVerified DEF Verified

\* A handler that is about to verify the account does, or ends without an answer;
\* one that ended makes no step.
LEMMA AccountPhaseStep ==
    ASSUME EmailInv, NEW q \in Requests, Handler(q), req[q].phase = "account",
           NEW l, req[q].link = l
    PROVE  \/ Verified(l)'
           \/ /\ req'[q].link = l /\ req'[q].phase = "done"
              /\ req'[q].reply \in {"error", "none"}
<1>1. EmailTypeOK
  BY DEF EmailInv
<1>2. VerifyAccount(q) \/ Fails(q) \/ Lose(q)
  BY DEF Handler, Send, Mailing, Lookup, CreateAccount, ClearLinks, InsertLink, Mail,
     Visiting, FindLink, DecideVisit, ConsumeLink, MarkLink, PurgeLinks
<1>3. CASE VerifyAccount(q)
  <2>1. l \in mailed /\ l \in Requests /\ Owner(l) \in Requests /\ mailed' = mailed
    BY <1>3 DEF VerifyAccount, EmailInv, EmailTypeOK, RequestOK, VisitPhase, Owner
  <2>2. accounts'[Owner(l)] = "verified"
    BY <1>1, <1>3, <2>1 DEF VerifyAccount, EmailTypeOK
  <2>3. Kept(q)
    BY <1>1, <1>3, Moves, Answers DEF VerifyAccount, AdvanceOrFail, Phase, Reply
  <2>4. Owner(l)' = Owner(l)
    BY <2>1, <2>3 DEF Kept, Moved, Owner
  <2> QED BY <2>1, <2>2, <2>4 DEF Verified
<1> QED BY <1>1, <1>2, <1>3, Answers DEF Fails, Lose, Reply, Kept

LEMMA DoneIsDone ==
    ASSUME NEW q \in Requests, req[q].phase = "done"
    PROVE  ~Handler(q)
BY DEF Handler, Send, Mailing, Lookup, CreateAccount, ClearLinks, InsertLink, Mail,
   Visiting, FindLink, DecideVisit, ConsumeLink, VerifyAccount, MarkLink, PurgeLinks,
   Fails, Lose

LEMMA AccountedStays ==
    ASSUME EmailInv, [Next]_vars, NEW l, Accounted(l)
    PROVE  Accounted(l)'
<1>1. CASE Verified(l)
  BY <1>1, VerifiedStays DEF Accounted
<1>2. CASE ~Verified(l)
  <2>1. PICK q \in Requests :
           /\ req[q].link = l
           /\ \/ req[q].phase = "account"
              \/ req[q].phase = "done" /\ req[q].reply \in {"error", "none"}
    BY <1>2 DEF Accounted
  <2>2. CASE req'[q] = req[q]
    BY <2>1, <2>2 DEF Accounted
  <2>3. CASE Handler(q)
    BY <2>1, <2>3, DoneIsDone, AccountPhaseStep DEF Accounted
  <2> QED BY <2>2, <2>3, OneHandlerMoves
<1> QED BY <1>1, <1>2

LEMMA HandlerStaysEntitled ==
    ASSUME VisitInv, EmailInv', [Next]_vars, NEW r \in Requests, Handler(r)
    PROVE  Entitled(r)'
<1>1. /\ EmailInv /\ EmailTypeOK /\ RequestOK(r) /\ Entitled(r)
      /\ \A l \in Requests : links[l].state = "used" => Verified(l)
  BY DEF VisitInv, EmailInv
<1>2. NoLink.state # "used"
  BY DEF NoLink
<1>3. CASE Send(r)
  <2>1. req'[r].phase \in {"lookup", "find"} /\ req'[r].snap = NoLink
    BY <1>1, <1>3, Sends DEF Send, RequestOK
  <2> QED BY <1>2, <2>1 DEF Entitled
<1>4. CASE Mailing(r)
  <2>1. /\ req'[r].snap \in {req[r].snap, NoLink} /\ req'[r].link = req[r].link
        /\ req'[r].phase \in {"create", "clear", "insert", "mail", "done"}
        /\ req'[r].phase = "done" => req'[r].reply # "used"
    <3>1. CASE Lookup(r) \/ CreateAccount(r)
      BY <1>1, <3>1, Moves, Answers, Adopts
      DEF Lookup, CreateAccount, Registrations, Phase, Reply, Kept, Adopted, RequestOK
    <3>2. CASE ClearLinks(r) \/ InsertLink(r) \/ Mail(r)
      BY <1>1, <3>2, Moves, Answers
      DEF ClearLinks, InsertLink, Mail, AdvanceOrFail, Phase, Reply, Kept
    <3> QED BY <1>4, <3>1, <3>2 DEF Mailing
  <2> QED BY <1>1, <1>2, <2>1, VerifiedStays DEF Entitled
<1>5. CASE FindLink(r)
  <2>1. /\ req'[r].snap = links[req[r].link] /\ req'[r].phase = "decide"
        /\ req[r].link \in Requests /\ req'[r].link = req[r].link
    BY <1>1, <1>5, Finds DEF FindLink, EmailTypeOK, RequestOK, VisitPhase, Kept
  <2> QED BY <1>1, <2>1, VerifiedStays DEF Entitled
<1>6. CASE DecideVisit(r)
  <2>1. /\ req'[r].snap \in {req[r].snap, NoLink} /\ req'[r].link = req[r].link
        /\ req'[r].phase \in {"consume", "done"}
        /\ req'[r].phase = "done" /\ req'[r].reply = "used" => req[r].snap.state = "used"
    BY <1>1, <1>6, Moves, Answers DEF DecideVisit, Phase, Reply, Kept
  <2> QED BY <1>1, <1>2, <2>1, VerifiedStays DEF Entitled, Accounted
<1>7. CASE ConsumeLink(r)
  <2>1. /\ req'[r].snap \in {req[r].snap, NoLink} /\ req'[r].link = req[r].link
        /\ req'[r].phase \in {"account", "done"} /\ req[r].link \in Requests
        /\ req'[r].phase = "done" /\ req'[r].reply = "used" => Consumed(req[r].link)
    BY <1>1, <1>7, Moves, Answers
    DEF ConsumeLink, AdvanceOrFail, EmailTypeOK, Phase, Reply, Kept, RequestOK, VisitPhase
  <2> QED BY <1>1, <1>2, <2>1, VerifiedStays, AccountedStays DEF Entitled, VisitInv
<1>8. CASE VerifyAccount(r)
  <2>1. /\ req'[r].snap \in {req[r].snap, NoLink} /\ req'[r].link = req[r].link
        /\ req'[r].phase = "mark" \/ (req'[r].phase = "done" /\ req'[r].reply = "error")
        /\ req[r].phase = "account"
    BY <1>1, <1>8, Moves, Answers DEF VerifyAccount, AdvanceOrFail, Phase, Reply, Kept
  <2>2. \A k : req[r].link = k => Verified(k)' \/ req'[r].phase = "done"
    BY <1>1, <1>8, <2>1, AccountPhaseStep DEF Handler, Visiting
  <2> QED BY <1>1, <1>2, <2>1, <2>2, VerifiedStays DEF Entitled
<1>9. CASE MarkLink(r) \/ PurgeLinks(r)
  <2>1. /\ req'[r].snap \in {req[r].snap, NoLink} /\ req'[r].link = req[r].link
        /\ req'[r].phase = "done" => req'[r].reply # "used"
        /\ req[r].phase \in {"mark", "purge"}
    BY <1>1, <1>9, Moves, Answers DEF MarkLink, PurgeLinks, AdvanceOrFail, Phase, Reply, Kept
  <2> QED BY <1>1, <1>2, <2>1, VerifiedStays DEF Entitled
<1>10. CASE Fails(r) \/ Lose(r)
  BY <1>1, <1>2, <1>10, Answers DEF Fails, Lose, Reply, Entitled
<1> QED BY <1>3, <1>4, <1>5, <1>6, <1>7, <1>8, <1>9, <1>10 DEF Handler, Visiting

\* Tokens are added, and links marked, by one action each.
LEMMA TokensStep ==
    ASSUME [Next]_vars
    PROVE  usedTokens' \subseteq usedTokens \/ \E r \in Requests : ConsumeLink(r)
<1>1. CASE ExpireLink \/ ExpireToken \/ Tick \/ UNCHANGED vars
  BY <1>1 DEF ExpireLink, ExpireToken, Tick, vars
<1>2. ASSUME NEW r \in Requests, Handler(r), ~ConsumeLink(r) PROVE usedTokens' = usedTokens
  BY <1>2 DEF Handler, Send, Mailing, Lookup, CreateAccount, ClearLinks, InsertLink, Mail,
     Visiting, FindLink, DecideVisit, VerifyAccount, MarkLink, PurgeLinks, Fails, Lose
<1> QED BY <1>1, <1>2 DEF Next, Handler, Quiescent

LEMMA LinksStep ==
    ASSUME EmailTypeOK, [Next]_vars, NEW l \in Requests, links'[l].state = "used"
    PROVE  links[l].state = "used" \/ \E r \in Requests : MarkLink(r)
<1>1. CASE ExpireLink
  BY <1>1 DEF ExpireLink, EmailTypeOK, NoLink
<1>2. CASE ExpireToken \/ Tick \/ UNCHANGED vars
  BY <1>2 DEF ExpireToken, Tick, vars
<1>3. ASSUME NEW r \in Requests, ClearLinks(r) \/ InsertLink(r) \/ PurgeLinks(r)
      PROVE  links[l].state = "used"
  BY <1>3 DEF ClearLinks, InsertLink, PurgeLinks, EmailTypeOK, NoLink
<1>4. ASSUME NEW r \in Requests, Handler(r),
             ~(ClearLinks(r) \/ InsertLink(r) \/ PurgeLinks(r) \/ MarkLink(r))
      PROVE  links' = links
  BY <1>4 DEF Handler, Send, Mailing, Lookup, CreateAccount, Mail, Visiting, FindLink,
     DecideVisit, ConsumeLink, VerifyAccount, Fails, Lose
<1> QED BY <1>1, <1>2, <1>3, <1>4 DEF Next, Handler, Quiescent

LEMMA VisitInvInductive == VisitInv /\ [Next]_vars => VisitInv'
<1> SUFFICES ASSUME VisitInv, [Next]_vars PROVE VisitInv'
  OBVIOUS
<1>1. EmailInv /\ EmailInv' /\ EmailTypeOK /\ \A r \in Requests : RequestOK(r) /\ Entitled(r)
  BY EmailInvInductive DEF VisitInv, EmailInv
<1>2. ASSUME NEW r \in Requests PROVE Entitled(r)'
  <2>1. CASE req'[r] = req[r]
    <3>1. Accounted(req[r].link) => Accounted(req[r].link)'
      BY <1>1, <2>1, AccountedStays
    <3> QED BY <1>1, <2>1, <3>1, VerifiedStays DEF Entitled
  <2> QED BY <1>1, <2>1, OneHandlerMoves, HandlerStaysEntitled
<1>3. ASSUME NEW l \in Requests, Consumed(l)' PROVE Accounted(l)'
  <2>1. CASE Consumed(l)
    BY <1>1, <2>1, AccountedStays DEF VisitInv
  <2>2. CASE ~Consumed(l)
    <3>1. PICK r \in Requests : ConsumeLink(r) /\ req[r].link = l
      BY <1>3, <2>2, TokensStep DEF Consumed, ConsumeLink
    <3>2. /\ req'[r].link = l
          /\ \/ req'[r].phase = "account"
             \/ req'[r].phase = "done" /\ req'[r].reply = "error"
      BY <1>1, <2>2, <3>1, Moves, Answers DEF ConsumeLink, AdvanceOrFail, Phase, Reply, Kept
    <3> QED BY <3>2 DEF Accounted
  <2> QED BY <2>1, <2>2
<1>4. ASSUME NEW l \in Requests, links'[l].state = "used" PROVE Verified(l)'
  <2>1. CASE links[l].state = "used"
    BY <1>1, <2>1, VerifiedStays DEF VisitInv
  <2>2. CASE links[l].state # "used"
    <3>1. PICK r \in Requests : MarkLink(r)
      BY <1>1, <1>4, <2>2, LinksStep
    <3>2. req[r].phase = "mark" /\ l = req[r].link
      BY <1>1, <1>4, <2>2, <3>1 DEF MarkLink, EmailTypeOK
    <3> QED BY <1>1, <3>2, VerifiedStays DEF Entitled
  <2> QED BY <2>1, <2>2
<1> QED BY <1>1, <1>2, <1>3, <1>4 DEF VisitInv

LEMMA InitVisitInv == Init => VisitInv
BY InitEmailInv DEF Init, VisitInv, Consumed, Entitled, NotSent, NoLink

\* A link is marked as used only once it verified its account.
THEOREM UsedLinksVerified == Spec => []UsedLinkVerified
<1>1. VisitInv => UsedLinkVerified
  BY DEF VisitInv, Verified, UsedLinkVerified
<1> QED BY <1>1, InitVisitInv, VisitInvInductive, PTL DEF Spec

\* A user told that the link has been used is told the truth, or the visit that
\* consumed it is on its way or failed.
THEOREM UsedIsTrue == Spec => []UsedTruthful
<1>1. VisitInv => UsedTruthful
  BY DEF VisitInv, Entitled, Accounted, Verified, UsedTruthful
<1> QED BY <1>1, InitVisitInv, VisitInvInductive, PTL DEF Spec

-----------------------------------------------------------------------------
(* Some link works.                                                        *)

\* A message was sent to the account u, or is about to be.
Posted(u) == \E m \in Requests : Owner(m) = u /\ (m \in mailed \/ req[m].phase = "mail")

Alive(l) == links[l].state = "unused" /\ (req[l].phase = "mail" \/ l \in mailed)

Broken(q) == req[q].phase = "done" /\ req[q].reply \in {"error", "none", "notMailed"}

\* Either a link of u works, or one is about to be created, or something ended the
\* wait for it: time, a verification, a failure.
Hope(u) ==
    \/ now >= Lifetime
    \/ accounts[u] = "verified"
    \/ \E q \in Requests : Broken(q) \/ (Owner(q) = u /\ req[q].phase = "insert")
    \/ \E l \in Requests : Owner(l) = u /\ Alive(l)

HopeInv ==
    /\ VisitInv
    /\ \A l \in Requests : links[l].state # "absent" => links[l].expiresAt >= Lifetime
    /\ \A u \in Requests : Posted(u) => Hope(u)

\* What becomes of a request that is about to create its link.
LEMMA InsertPhaseStep ==
    ASSUME EmailInv, NEW q \in Requests, Handler(q), req[q].phase = "insert"
    PROVE  Broken(q)' \/ Alive(q)'
<1>1. EmailTypeOK
  BY DEF EmailInv
<1>2. InsertLink(q) \/ Fails(q) \/ Lose(q)
  BY DEF Handler, Send, Mailing, Lookup, CreateAccount, ClearLinks, Mail, Visiting,
     FindLink, DecideVisit, ConsumeLink, VerifyAccount, MarkLink, PurgeLinks
<1>3. CASE InsertLink(q)
  <2>1. links'[q].state = "unused"
    BY <1>1, <1>3 DEF InsertLink, EmailTypeOK
  <2>2. req'[q].phase = "mail" \/ (req'[q].phase = "done" /\ req'[q].reply = "notMailed")
    BY <1>1, <1>3, Moves, Answers DEF InsertLink, AdvanceOrFail, Phase, Reply
  <2> QED BY <2>1, <2>2 DEF Alive, Broken
<1>4. CASE Fails(q) \/ Lose(q)
  BY <1>1, <1>4, Answers DEF Fails, Lose, Reply, Broken
<1> QED BY <1>2, <1>3, <1>4

LEMMA MailPhaseStep ==
    ASSUME EmailInv, NEW q \in Requests, Handler(q), req[q].phase = "mail"
    PROVE  Broken(q)' \/ (q \in mailed' /\ links' = links)
<1>1. EmailTypeOK
  BY DEF EmailInv
<1>2. Mail(q) \/ Fails(q) \/ Lose(q)
  BY DEF Handler, Send, Mailing, Lookup, CreateAccount, ClearLinks, InsertLink, Visiting,
     FindLink, DecideVisit, ConsumeLink, VerifyAccount, MarkLink, PurgeLinks
<1> QED BY <1>1, <1>2, Answers DEF Mail, Fails, Lose, Reply, Broken

\* How a link that works stops doing so.
LEMMA AliveStep ==
    ASSUME HopeInv, [Next]_vars, NEW l \in Requests, Alive(l),
           NEW u \in Requests, Owner(l) = u
    PROVE  Hope(u)'
<1>1. /\ EmailInv /\ EmailTypeOK /\ now \in Nat /\ Lifetime \in Nat
      /\ \A r \in Requests : Entitled(r) /\ RequestOK(r)
  BY TimesNat DEF HopeInv, VisitInv, EmailInv, EmailTypeOK, Time
<1>2. Owner(l)' = u
  BY <1>1, OwnerStays
<1>3. CASE links'[l].state # "unused"
  <2>1. CASE ExpireLink
    <3>1. links[l].expiresAt <= now /\ now' = now
      BY <1>1, <1>3, <2>1 DEF ExpireLink, EmailTypeOK, Alive
    <3>2. links[l].expiresAt >= Lifetime /\ links[l].expiresAt \in Int
      BY <1>1, TimesNat DEF HopeInv, Alive, EmailTypeOK, Link
    <3> QED BY <1>1, <3>1, <3>2 DEF Hope
  <2>2. ASSUME NEW r \in Requests, Handler(r) PROVE Hope(u)'
    <3>1. CASE ClearLinks(r)
      <4>1. req[r].user = u
        BY <1>1, <1>3, <3>1 DEF ClearLinks, EmailTypeOK, Alive, Owner
      <4>2. /\ req'[r].user = u
            /\ req'[r].phase = "insert" \/ (req'[r].phase = "done" /\ req'[r].reply = "notMailed")
        BY <1>1, <3>1, <4>1, Moves, Answers DEF ClearLinks, AdvanceOrFail, Phase, Reply, Kept
      <4> QED BY <4>2 DEF Hope, Broken, Owner
    <3>2. CASE InsertLink(r)
      BY <1>1, <1>3, <3>2 DEF InsertLink, EmailTypeOK, Alive
    <3>3. CASE MarkLink(r) \/ PurgeLinks(r)
      <4> DEFINE k == req[r].link
      <4>1. Verified(k)
        BY <1>1, <3>3 DEF MarkLink, PurgeLinks, Entitled
      <4>2. k = l \/ Owner(k) = u
        BY <1>1, <1>3, <3>3 DEF MarkLink, PurgeLinks, EmailTypeOK, Alive, Owner
      <4>3. accounts[u] = "verified"
        BY <4>1, <4>2 DEF Verified
      <4> QED BY <1>1, <4>3, AccountStaysVerified DEF Hope
    <3>4. CASE ~(ClearLinks(r) \/ InsertLink(r) \/ PurgeLinks(r) \/ MarkLink(r))
      <4>1. links' = links
        BY <2>2, <3>4 DEF Handler, Send, Mailing, Lookup, CreateAccount, Mail, Visiting,
           FindLink, DecideVisit, ConsumeLink, VerifyAccount, Fails, Lose
      <4> QED BY <1>3, <4>1 DEF Alive
    <3> QED BY <3>1, <3>2, <3>3, <3>4
  <2>3. CASE ExpireToken \/ Tick \/ UNCHANGED vars
    BY <1>3, <2>3 DEF ExpireToken, Tick, vars, Alive
  <2> QED BY <2>1, <2>2, <2>3 DEF Next, Handler, Quiescent
<1>4. CASE links'[l].state = "unused"
  <2>1. CASE l \in mailed
    BY <1>2, <1>4, <2>1, MailedGrows DEF Alive, Hope
  <2>2. CASE l \notin mailed
    <3>1. req[l].phase = "mail"
      BY <2>2 DEF Alive
    <3>2. CASE req'[l] = req[l]
      BY <1>2, <1>4, <3>1, <3>2 DEF Alive, Hope
    <3>3. CASE Handler(l)
      BY <1>1, <1>2, <1>4, <3>1, <3>3, MailPhaseStep DEF Alive, Hope
    <3> QED BY <1>1, <3>2, <3>3, OneHandlerMoves
  <2> QED BY <2>1, <2>2
<1> QED BY <1>3, <1>4

LEMMA HopeStays ==
    ASSUME HopeInv, [Next]_vars, NEW u \in Requests, Hope(u)
    PROVE  Hope(u)'
<1>1. EmailInv /\ now \in Nat /\ Lifetime \in Nat
  BY TimesNat DEF HopeInv, VisitInv, EmailInv, EmailTypeOK, Time
<1>2. CASE now >= Lifetime
  <2>1. now' = now \/ now' = now + 1
    BY DEF Next, vars, Send, Mailing, Lookup, CreateAccount, ClearLinks, InsertLink, Mail,
       Visiting, FindLink, DecideVisit, ConsumeLink, VerifyAccount, MarkLink, PurgeLinks,
       Fails, Lose, ExpireLink, ExpireToken, Tick, Quiescent
  <2> QED BY <1>1, <1>2, <2>1 DEF Hope
<1>3. CASE accounts[u] = "verified"
  BY <1>1, <1>3, AccountStaysVerified DEF Hope
<1>4. ASSUME NEW q \in Requests, req[q].phase = "insert", Owner(q) = u PROVE Hope(u)'
  <2>1. Owner(q)' = u
    BY <1>1, <1>4, OwnerStays
  <2>2. CASE req'[q] = req[q]
    BY <1>4, <2>1, <2>2 DEF Hope
  <2>3. CASE Handler(q)
    BY <1>1, <1>4, <2>1, <2>3, InsertPhaseStep DEF Hope
  <2> QED BY <1>1, <2>2, <2>3, OneHandlerMoves
<1>5. ASSUME NEW q \in Requests, Broken(q) PROVE Hope(u)'
  <2>1. req'[q] = req[q]
    BY <1>1, <1>5, DoneIsDone, OneHandlerMoves DEF Broken
  <2> QED BY <1>5, <2>1 DEF Hope, Broken
<1> QED BY <1>2, <1>3, <1>4, <1>5, AliveStep DEF Hope

LEMMA LinksLastLifetime ==
    ASSUME HopeInv, [Next]_vars, NEW l \in Requests, links'[l].state # "absent"
    PROVE  links'[l].expiresAt >= Lifetime
<1>1. EmailTypeOK /\ now \in Nat /\ Lifetime \in Nat
  BY TimesNat DEF HopeInv, VisitInv, EmailInv, EmailTypeOK, Time
<1>2. CASE links'[l].expiresAt = links[l].expiresAt /\ links[l].state # "absent"
  BY <1>2 DEF HopeInv
<1>3. ASSUME NEW r \in Requests, InsertLink(r)
      PROVE  links'[l] = links[l] \/ links'[l].expiresAt = now + Lifetime
  BY <1>1, <1>3 DEF InsertLink, EmailTypeOK
<1>4. ASSUME NEW r \in Requests, ClearLinks(r) \/ PurgeLinks(r) PROVE links'[l] = links[l]
  BY <1>4 DEF ClearLinks, PurgeLinks, NoLink
<1>5. ASSUME NEW r \in Requests, MarkLink(r)
      PROVE  links'[l].expiresAt = links[l].expiresAt /\ links[l].state # "absent"
  BY <1>1, <1>5 DEF MarkLink, EmailTypeOK, Link
<1>6. CASE ExpireLink
  BY <1>1, <1>2, <1>6 DEF ExpireLink, EmailTypeOK, NoLink
<1>7. CASE ExpireToken \/ Tick \/ UNCHANGED vars
  BY <1>2, <1>7 DEF ExpireToken, Tick, vars
<1>8. ASSUME NEW r \in Requests, Handler(r),
             ~(ClearLinks(r) \/ InsertLink(r) \/ PurgeLinks(r) \/ MarkLink(r))
      PROVE  links' = links
  BY <1>8 DEF Handler, Send, Mailing, Lookup, CreateAccount, Mail, Visiting, FindLink,
     DecideVisit, ConsumeLink, VerifyAccount, Fails, Lose
<1>9. CASE \E r \in Requests : Handler(r)
  BY <1>1, <1>2, <1>3, <1>4, <1>5, <1>8, <1>9
<1> QED BY <1>6, <1>7, <1>9 DEF Next, Handler, Quiescent

\* A message is sent next only once its link was created.
LEMMA EnterMail ==
    ASSUME EmailInv, NEW q \in Requests, Handler(q), req'[q].phase = "mail",
           req[q].phase # "mail"
    PROVE  req[q].phase = "insert" /\ Owner(q) \in Requests
<1>1. EmailTypeOK /\ RequestOK(q)
  BY DEF EmailInv
<1>2. CASE Send(q) \/ FindLink(q) \/ Fails(q) \/ Lose(q)
  BY <1>1, <1>2, Sends, Finds, Answers
  DEF FindLink, EmailTypeOK, RequestOK, VisitPhase, Fails, Lose, Reply
<1>3. CASE Lookup(q) \/ CreateAccount(q) \/ ClearLinks(q)
  BY <1>1, <1>3, Moves, Answers, Adopts
  DEF Lookup, CreateAccount, ClearLinks, AdvanceOrFail, Registrations, Adopted, Phase, Reply
<1>4. CASE InsertLink(q) \/ Mail(q)
  BY <1>1, <1>4 DEF InsertLink, Mail, RequestOK, Owner
<1>5. CASE DecideVisit(q) \/ ConsumeLink(q)
  BY <1>1, <1>5, Moves, Answers DEF DecideVisit, ConsumeLink, AdvanceOrFail, Phase, Reply
<1>6. CASE VerifyAccount(q) \/ MarkLink(q) \/ PurgeLinks(q)
  BY <1>1, <1>6, Moves, Answers
  DEF VerifyAccount, MarkLink, PurgeLinks, AdvanceOrFail, Phase, Reply
<1> QED BY <1>2, <1>3, <1>4, <1>5, <1>6 DEF Handler, Mailing, Visiting

LEMMA HopeInvInductive == HopeInv /\ [Next]_vars => HopeInv'
<1> SUFFICES ASSUME HopeInv, [Next]_vars PROVE HopeInv'
  OBVIOUS
<1>1. EmailInv /\ EmailTypeOK /\ VisitInv'
  BY VisitInvInductive DEF HopeInv, VisitInv, EmailInv
<1>2. ASSUME NEW u \in Requests, Posted(u)' PROVE Hope(u)'
  <2>1. CASE Posted(u)
    BY <2>1, HopeStays DEF HopeInv
  <2>2. CASE ~Posted(u)
    <3>1. PICK m \in Requests : Owner(m)' = u /\ (m \in mailed' \/ req'[m].phase = "mail")
      BY <1>2 DEF Posted
    <3>2. \A q \in Requests : Owner(q) \in Requests => Owner(q)' = Owner(q)
      BY <1>1, OwnerStays
    <3>3. m \notin mailed /\ req[m].phase # "mail"
      BY <1>1, <2>2, <3>1, <3>2 DEF Posted, EmailInv, RequestOK, Owner
    <3>4. m \notin mailed'
      BY <3>3, MailStep
    <3>5. Handler(m)
      BY <1>1, <3>1, <3>3, <3>4, OneHandlerMoves
    <3>6. req[m].phase = "insert"
      BY <1>1, <3>1, <3>3, <3>4, <3>5, EnterMail
    <3> QED BY <1>1, <3>1, <3>5, <3>6, InsertPhaseStep DEF Hope
  <2> QED BY <2>1, <2>2
<1> QED BY <1>1, <1>2, LinksLastLifetime DEF HopeInv

\* However many messages were asked for at once, when all is settled and nothing
\* failed, one of them carries a link that works.
THEOREM SomeLinkAlwaysWorks == Spec => []SomeLinkWorks
<1>1. Init => HopeInv
  BY InitVisitInv DEF Init, HopeInv, Posted, NotSent, NoLink
<1>2. HopeInv => SomeLinkWorks
  <2> SUFFICES ASSUME HopeInv, now < Lifetime, \A r \in Requests : Settled(r),
                      NEW m \in mailed, accounts[Owner(m)] = "unverified"
               PROVE  \E l \in mailed :
                        Owner(l) = Owner(m) /\ links[l].state = "unused" /\ ~Consumed(l)
    BY DEF SomeLinkWorks
  <2>1. /\ ~(now >= Lifetime) /\ m \in Requests /\ mailed \subseteq Requests
        /\ Owner(m) \in Requests
    BY TimesNat DEF HopeInv, VisitInv, EmailInv, EmailTypeOK, Time, RequestOK, Owner
  <2>2. \A q \in Requests : req[q].phase \notin {"insert", "mail", "account"} /\ ~Broken(q)
    BY DEF Settled, Broken
  <2>3. Hope(Owner(m))
    BY <2>1 DEF HopeInv, Posted
  <2>4. PICK l \in Requests : Alive(l) /\ Owner(l) = Owner(m)
    BY <2>1, <2>2, <2>3 DEF Hope
  <2>5. l \in mailed /\ links[l].state = "unused"
    BY <2>2, <2>4 DEF Alive
  <2>6. ~Accounted(l)
    BY <2>2, <2>4 DEF Accounted, Verified, Broken
  <2> QED BY <2>4, <2>5, <2>6 DEF HopeInv, VisitInv
<1> QED BY <1>1, <1>2, HopeInvInductive, PTL DEF Spec

=============================================================================
