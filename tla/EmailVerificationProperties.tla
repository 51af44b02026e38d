--------------------- MODULE EmailVerificationProperties ---------------------
(***************************************************************************)
(* What registration and e-mail verification promise.                      *)
(***************************************************************************)
EXTENDS EmailVerification, TLC

RequestSymmetry == Permutations(Requests)

\* Every variable holds what the code can put in it.
EmailTypeOK ==
    /\ now \in Time
    /\ accounts \in [Requests -> Account]
    /\ links \in [Requests -> Link]
    /\ mailed \subseteq Requests
    /\ usedTokens \subseteq UsedToken
    /\ req \in [Requests -> Request]

Registered(r) ==
    /\ req[r].kind = "register"
    /\ \/ req[r].phase \in {"clear", "insert", "mail"}
       \/ req[r].reply \in {"mailed", "notMailed"}

\* An address is registered once, however many registrations find it free at the
\* same time: the lookup decides nothing, the unique index does, where it was
\* built (authService.js:19-31, User.js:16).
OneRegistration == \A a, b \in Requests : Registered(a) /\ Registered(b) => a = b

\* A link is marked as used only when it verified its account: the account is
\* saved first, so that a failure in between leaves no used link behind
\* (emailVerificationService.js:86-91).
UsedLinkVerified ==
    \A l \in Requests : links[l].state = "used" => accounts[Owner(l)] = "verified"

\* A user told that the link has already been used has a verified account, or
\* another visit with that link is about to verify it or failed on the way
\* (emailVerificationService.js:55-88).
UsedTruthful ==
    \A r \in Requests :
        req[r].phase = "done" /\ req[r].reply = "used" =>
            \/ accounts[Owner(req[r].link)] = "verified"
            \/ \E q \in Requests \ {r} :
                  /\ req[q].link = req[r].link
                  /\ \/ req[q].phase = "account"
                     \/ req[q].phase = "done" /\ req[q].reply \in {"error", "none"}

Settled(r) ==
    \/ req[r].phase = "new"
    \/ req[r].phase = "done" /\ req[r].reply \notin {"error", "none", "notMailed"}

\* However many messages an account was sent at once, when all is done and nothing
\* failed, one of them carries a link that works: each request deletes the links
\* of the others before it creates its own (emailVerificationService.js:22-39).
SomeLinkWorks ==
    (now < Lifetime /\ \A r \in Requests : Settled(r)) =>
        \A m \in mailed : accounts[Owner(m)] = "unverified" =>
            \E l \in mailed :
                Owner(l) = Owner(m) /\ links[l].state = "unused" /\ ~Consumed(l)

=============================================================================
