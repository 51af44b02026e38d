-------------------------- MODULE EmailVerification --------------------------
(***************************************************************************)
(* The registration of one e-mail address and its verification by mailed   *)
(* links: registerUser of src/services/authService.js, the functions of    *)
(* src/services/emailVerificationService.js, the branch of login for an    *)
(* account that is not verified, and the one-time tokens of                *)
(* replayProtectionService.js they consume.                                *)
(*                                                                         *)
(* A request is served once; a user who repeats one sends another.  Its    *)
(* handler is cut at its awaits.  A link is named by the request that      *)
(* created it, random tokens being distinct and their hashes injective.    *)
(***************************************************************************)
EXTENDS Integers, FiniteSets

CONSTANTS
    Requests,   \* the requests of a behaviour
    Nobody,     \* the link of a request that visits none
    MaxTime,    \* bound on the clock
    Lifetime,   \* emailVerificationTokenExpiresMinutes
    UniqueIndex, \* were the unique indexes of users and used tokens built?
    Faults      \* may operations fail, processes die and clients go away?

ASSUME NobodyAssumption == Nobody \notin Requests
ASSUME TimesAssumption == MaxTime \in Nat /\ Lifetime \in Nat
ASSUME FlagsAssumption == {UniqueIndex, Faults} \subseteq BOOLEAN

VARIABLES
    now,         \* the clock
    accounts,    \* the accounts of the address, each named by its registration
    links,       \* the collection of EmailVerificationToken
    mailed,      \* the links the provider has sent
    usedTokens,  \* the used-token collection, restricted to these links
    req          \* the requests: where their handler stands, its reply

vars == <<now, accounts, links, mailed, usedTokens, req>>

Time == 0..MaxTime
Account == {"absent", "unverified", "verified"}
Link == [state: {"absent", "unused", "used"}, expiresAt: 0..(MaxTime + Lifetime)]
NoLink == [state |-> "absent", expiresAt |-> 0]
UsedToken == [link: Requests, expiresAt: 0..(MaxTime + Lifetime)]

Kind == {"none", "register", "resend", "visit"}
Phase == {"new", "lookup", "create", "clear", "insert", "mail",
          "find", "decide", "consume", "account", "mark", "purge", "done"}
Reply == {"none", "exists", "conflict", "nothing", "mailed", "notMailed",
          "invalid", "used", "verified", "error"}
Request == [kind: Kind, phase: Phase, link: Requests \cup {Nobody}, snap: Link,
            user: Requests \cup {Nobody}, reply: Reply]
NotSent == [kind |-> "none", phase |-> "new", link |-> Nobody, snap |-> NoLink,
            user |-> Nobody, reply |-> "none"]

Init ==
    /\ now = 0
    /\ accounts = [r \in Requests |-> "absent"]
    /\ links = [r \in Requests |-> NoLink]
    /\ mailed = {}
    /\ usedTokens = {}
    /\ req = [r \in Requests |-> NotSent]

-----------------------------------------------------------------------------

\* POST /register, POST /resend-verification or a login with the right password
\* of an account that is not verified, and GET /verify-email for a mailed link.
Send(r) ==
    /\ req[r].phase = "new"
    /\ \/ req' = [req EXCEPT ![r].kind = "register", ![r].phase = "lookup"]
       \/ req' = [req EXCEPT ![r].kind = "resend", ![r].phase = "lookup"]
       \/ \E l \in mailed :
             req' = [req EXCEPT ![r].kind = "visit", ![r].phase = "find", ![r].link = l]
    /\ UNCHANGED <<now, accounts, links, mailed, usedTokens>>

Answer(r, reply) ==
    req' = [req EXCEPT ![r].phase = "done", ![r].snap = NoLink, ![r].reply = reply]
Advance(r, phase) == req' = [req EXCEPT ![r].phase = phase]

\* The request goes on with sendVerificationEmail for the account u.
Adopt(r, u) == req' = [req EXCEPT ![r].phase = "clear", ![r].user = u]

\* After an operation the database applied: its answer may be lost.
AdvanceOrFail(r, phase, reply) == Advance(r, phase) \/ (Faults /\ Answer(r, reply))

Registrations == {u \in Requests : accounts[u] # "absent"}

\* The account a link was created for: the one its request is about.
Owner(l) == req[l].user

\* The lookup of the address: registerUser goes on when it finds nobody, the
\* resend and the login when they find an account that is not verified.
Lookup(r) ==
    /\ req[r].phase = "lookup"
    /\ \/ /\ req[r].kind = "register"
          /\ IF Registrations = {} THEN Advance(r, "create") ELSE Answer(r, "exists")
       \/ /\ req[r].kind = "resend"
          /\ \/ \E u \in Registrations : accounts[u] = "unverified" /\ Adopt(r, u)
             \/ /\ Registrations = {} \/ \E u \in Registrations : accounts[u] = "verified"
                /\ Answer(r, "nothing")
    /\ UNCHANGED <<now, accounts, links, mailed, usedTokens>>

\* Mutant: the address is not unique.
CreateAccount_NoIndex(r) ==
    /\ req[r].phase = "create"
    /\ accounts' = [accounts EXCEPT ![r] = "unverified"]
    /\ Adopt(r, r) \/ (Faults /\ Answer(r, "error"))
    /\ UNCHANGED <<now, links, mailed, usedTokens>>

\* User.create, under the unique index on the address if it was built; its
\* violation is no ApiError and is answered 500.
CreateAccount(r) ==
    /\ req[r].phase = "create"
    /\ IF UniqueIndex /\ Registrations # {}
       THEN UNCHANGED accounts /\ Answer(r, "conflict")
       ELSE /\ accounts' = [accounts EXCEPT ![r] = "unverified"]
            /\ Adopt(r, r) \/ (Faults /\ Answer(r, "error"))
    /\ UNCHANGED <<now, links, mailed, usedTokens>>

\* sendVerificationEmail: deleteMany of the unused links of the account.
ClearLinks(r) ==
    /\ req[r].phase = "clear"
    /\ links' = [l \in Requests |->
                    IF Owner(l) = req[r].user /\ links[l].state = "unused"
                    THEN NoLink ELSE links[l]]
    /\ AdvanceOrFail(r, "insert", "notMailed")
    /\ UNCHANGED <<now, accounts, mailed, usedTokens>>

InsertLink(r) ==
    /\ req[r].phase = "insert"
    /\ links' = [links EXCEPT ![r] = [state |-> "unused", expiresAt |-> now + Lifetime]]
    /\ AdvanceOrFail(r, "mail", "notMailed")
    /\ UNCHANGED <<now, accounts, mailed, usedTokens>>

\* Mutant: the former links are removed once the new one was sent.
Mail_ClearsOthers(r) ==
    /\ req[r].phase = "mail"
    /\ mailed' = mailed \cup {r}
    /\ Answer(r, "mailed")
    /\ links' = [l \in Requests |-> IF l = r THEN links[l] ELSE NoLink]
    /\ UNCHANGED <<now, accounts, usedTokens>>

\* sendEmail: the provider takes the message, and may fail to say so.
Mail(r) ==
    /\ req[r].phase = "mail"
    /\ mailed' = mailed \cup {r}
    /\ Answer(r, "mailed") \/ (Faults /\ Answer(r, "notMailed"))
    /\ UNCHANGED <<now, accounts, links, usedTokens>>

-----------------------------------------------------------------------------

Consumed(l) == \E t \in usedTokens : t.link = l

\* verifyEmailByToken: the link and its account are read.
FindLink(r) ==
    /\ req[r].phase = "find"
    /\ req' = [req EXCEPT ![r].phase = "decide", ![r].snap = links[req[r].link]]
    /\ UNCHANGED <<now, accounts, links, mailed, usedTokens>>

\* Mutant: the token of a link refused because it expired is consumed.
DecideVisit_ConsumesRefused(r) ==
    LET s == req[r].snap
    IN  /\ req[r].phase = "decide"
        /\ IF s.state = "unused" /\ s.expiresAt > now
           THEN Advance(r, "consume") /\ UNCHANGED usedTokens
           ELSE /\ Answer(r, "invalid")
                /\ usedTokens' = usedTokens \cup
                       {[link |-> req[r].link, expiresAt |-> s.expiresAt]}
        /\ UNCHANGED <<now, accounts, links, mailed>>

\* The refusals of a link nobody finds, of a used one and of an expired one.
DecideVisit(r) ==
    LET s == req[r].snap
    IN  /\ req[r].phase = "decide"
        /\ \/ s.state = "absent" /\ Answer(r, "invalid")
           \/ s.state = "used" /\ Answer(r, "used")
           \/ s.state = "unused" /\ s.expiresAt <= now /\ Answer(r, "invalid")
           \/ s.state = "unused" /\ s.expiresAt > now /\ Advance(r, "consume")
        /\ UNCHANGED <<now, accounts, links, mailed, usedTokens>>

\* Mutant: the lifetime is counted twice.
ConsumeLink_TwoLifetimes(r) ==
    /\ req[r].phase = "consume"
    /\ ~(UniqueIndex /\ Consumed(req[r].link))
    /\ usedTokens' = usedTokens \cup
            {[link |-> req[r].link, expiresAt |-> req[r].snap.expiresAt + Lifetime]}
    /\ AdvanceOrFail(r, "account", "error")
    /\ UNCHANGED <<now, accounts, links, mailed>>

\* Mutant: the link is marked as used before the account is saved.
ConsumeLink_MarksFirst(r) ==
    /\ req[r].phase = "consume"
    /\ IF UniqueIndex /\ Consumed(req[r].link)
       THEN UNCHANGED <<usedTokens, links>> /\ Answer(r, "used")
       ELSE /\ usedTokens' = usedTokens \cup
                  {[link |-> req[r].link, expiresAt |-> req[r].snap.expiresAt]}
            /\ links' = [links EXCEPT ![req[r].link].state = "used"]
            /\ AdvanceOrFail(r, "account", "error")
    /\ UNCHANGED <<now, accounts, mailed>>

\* consumeOneTimeToken, until the link would have expired: only the unique index
\* on used tokens refuses what was used before.
ConsumeLink(r) ==
    /\ req[r].phase = "consume"
    /\ IF UniqueIndex /\ Consumed(req[r].link)
       THEN UNCHANGED usedTokens /\ Answer(r, "used")
       ELSE /\ usedTokens' = usedTokens \cup
                  {[link |-> req[r].link, expiresAt |-> req[r].snap.expiresAt]}
            /\ AdvanceOrFail(r, "account", "error")
    /\ UNCHANGED <<now, accounts, links, mailed>>

VerifyAccount(r) ==
    /\ req[r].phase = "account"
    /\ accounts' = [accounts EXCEPT ![Owner(req[r].link)] = "verified"]
    /\ AdvanceOrFail(r, "mark", "error")
    /\ UNCHANGED <<now, links, mailed, usedTokens>>

\* The save of a link somebody deleted in the meantime fails.
MarkLink(r) ==
    LET l == req[r].link
    IN  /\ req[r].phase = "mark"
        /\ IF links[l].state = "absent"
           THEN UNCHANGED links /\ Answer(r, "error")
           ELSE links' = [links EXCEPT ![l].state = "used"] /\ AdvanceOrFail(r, "purge", "error")
        /\ UNCHANGED <<now, accounts, mailed, usedTokens>>

\* deleteMany of every other link of the account.
PurgeLinks(r) ==
    LET l == req[r].link
    IN  /\ req[r].phase = "purge"
        /\ links' = [k \in Requests |->
                        IF k # l /\ Owner(k) = Owner(l) THEN NoLink ELSE links[k]]
        /\ Answer(r, "verified") \/ (Faults /\ Answer(r, "error"))
        /\ UNCHANGED <<now, accounts, mailed, usedTokens>>

-----------------------------------------------------------------------------

\* An operation that is not applied.
Fails(r) ==
    /\ Faults
    /\ req[r].phase \notin {"new", "decide", "done"}
    /\ Answer(r, IF req[r].phase \in {"clear", "insert", "mail"} THEN "notMailed" ELSE "error")
    /\ UNCHANGED <<now, accounts, links, mailed, usedTokens>>

\* The process that serves the request dies.
Lose(r) ==
    /\ Faults
    /\ req[r].phase \notin {"new", "done"}
    /\ Answer(r, "none")
    /\ UNCHANGED <<now, accounts, links, mailed, usedTokens>>

\* The TTL monitor of the database, sooner or later.
ExpireLink ==
    \E l \in Requests :
        /\ links[l].state # "absent" /\ links[l].expiresAt <= now
        /\ links' = [links EXCEPT ![l] = NoLink]
        /\ UNCHANGED <<now, accounts, mailed, usedTokens, req>>

ExpireToken ==
    \E t \in usedTokens :
        /\ t.expiresAt <= now
        /\ usedTokens' = usedTokens \ {t}
        /\ UNCHANGED <<now, accounts, links, mailed, req>>

Tick ==
    /\ now < MaxTime
    /\ now' = now + 1
    /\ UNCHANGED <<accounts, links, mailed, usedTokens, req>>

\* Every request of the bound was served, and the clock stands at its own: the
\* server waits.
Quiescent ==
    /\ \A r \in Requests : req[r].phase = "done"
    /\ now = MaxTime
    /\ UNCHANGED vars

Mailing(r) == Lookup(r) \/ CreateAccount(r) \/ ClearLinks(r) \/ InsertLink(r) \/ Mail(r)
Visiting(r) ==
    \/ FindLink(r) \/ DecideVisit(r) \/ ConsumeLink(r) \/ VerifyAccount(r)
    \/ MarkLink(r) \/ PurgeLinks(r)

Next ==
    \/ \E r \in Requests : Send(r) \/ Mailing(r) \/ Visiting(r) \/ Fails(r) \/ Lose(r)
    \/ ExpireLink
    \/ ExpireToken
    \/ Tick
    \/ Quiescent

Spec == Init /\ [][Next]_vars
=============================================================================
