------------------------------- MODULE Voting -------------------------------
(***************************************************************************)
(* Ballots cast while managers run the election: castVote and receipts of  *)
(* src/services/voteService.js, the one-time tokens of                     *)
(* replayProtectionService.js and the collections Vote and UsedToken, next *)
(* to the election handlers of ElectionLifecycle; and the results that     *)
(* getElectionResults of electionService.js reports meanwhile.             *)
(*                                                                         *)
(* A ballot is one POST /elections/:electionId/votes.  A voter who retries *)
(* submits a new ballot, with the idempotency key of the former or another *)
(* one.  A handler is cut at its awaits: the read of the election, the     *)
(* checks, the consumption of the key, the insertion of the vote, and the  *)
(* second save that stores the digest of the receipt; that of the results  *)
(* is cut between the read of the election and the read of its votes.      *)
(***************************************************************************)
EXTENDS ElectionLifecycle

CONSTANTS
    Ballots,      \* the vote requests of a behaviour, each sent once
    Voters,       \* authenticated accounts
    Keys,         \* idempotency keys clients choose
    NoKey,        \* a request without the header
    Selections,   \* the sets of option identifiers clients send
    OptionId,     \* the identifier of each option, which its array may repeat
    KeyTtl,       \* lifetime of a consumed key, replayProtectionTtlSeconds
    UniqueIndex,  \* do the unique indexes of Vote and UsedToken exist?
    Viewers,      \* the requests for results of a behaviour, each answered once
    AdminViewers  \* those an administrator sends

ASSUME NoKeyAssumption == NoKey \notin Keys
ASSUME OptionIdAssumption == OptionId \in [Options -> Options]
ASSUME SelectionsAssumption == Selections \subseteq SUBSET Options
ASSUME KeyTtlAssumption == KeyTtl \in Nat
ASSUME UniqueIndexAssumption == UniqueIndex \in BOOLEAN
ASSUME ViewersAssumption == AdminViewers \subseteq Viewers

VARIABLES
    ballots,     \* the vote requests: where their handler stands, its reply
    votes,       \* the votes collection, a document named by its ballot
    usedTokens,  \* the used-token collection, restricted to vote submissions
    reports      \* the requests for results: what they have read, or reported

votingVars == <<ballots, votes, usedTokens>>
vars == <<lifecycleVars, votingVars, reports>>

BallotPhase == {"new", "find", "decide", "consume", "create", "receipt", "done"}
BallotReply == {"none", "accepted", "refused", "replay", "duplicate", "error"}

\* What buildIntegrityHash and signPayload cover, hashes being injective.
Receipt == [voteId: Ballots, election: Elections, recordedAt: Time,
            integrityHash: Ballots \X Elections \X Voters \X (SUBSET Options) \X Time]
NoReceipt == [voteId |-> "none"]

Ballot == [phase: BallotPhase, voter: Voters, election: Elections,
           choice: SUBSET Options, key: Keys \cup {NoKey}, snap: Doc,
           receipt: Receipt \cup {NoReceipt}, reply: BallotReply]
NotSent == [phase |-> "new"]

Vote == [election: Elections, voter: Voters, choice: SUBSET Options,
         createdAt: Time, receiptDigest: Receipt \cup {NoReceipt}]
NoVote == [election |-> NoElection]

Token == [voter: Voters, election: Elections, key: Keys, expiresAt: Nat]

\* A request for results that holds the election it found, and one answered with
\* a row for each of the options O.
Reading == [phase: {"votes"}, election: Elections, snap: Doc]
Report(O) == [phase: {"done"}, status: Status, totalVotes: Nat, counts: [O -> Nat]]
NotAsked == [phase |-> "new"]

VotingInit ==
    /\ Init
    /\ ballots = [b \in Ballots |-> NotSent]
    /\ votes = [b \in Ballots |-> NoVote]
    /\ usedTokens = {}
    /\ reports = [w \in Viewers |-> NotAsked]

-----------------------------------------------------------------------------

Recorded == {b \in Ballots : votes[b] # NoVote}

Cast(b) ==
    /\ ballots[b].phase = "new"
    /\ \E x \in Voters, e \in Elections, c \in Selections, k \in Keys \cup {NoKey} :
          ballots' = [ballots EXCEPT ![b] =
              [phase |-> "find", voter |-> x, election |-> e, choice |-> c, key |-> k,
               snap |-> NoDoc, receipt |-> NoReceipt, reply |-> "none"]]
    /\ UNCHANGED <<votes, usedTokens>>

BallotAnswer(b, reply) ==
    ballots' = [ballots EXCEPT ![b].phase = "done", ![b].snap = NoDoc, ![b].reply = reply]
BallotAdvance(b, phase) == ballots' = [ballots EXCEPT ![b].phase = phase]

\* getElectionOrThrow
BallotFind(b) ==
    LET e == ballots[b].election
    IN  /\ ballots[b].phase = "find"
        /\ \/ /\ docs[e].status # "absent"
              /\ ballots' = [ballots EXCEPT ![b].phase = "decide", ![b].snap = docs[e]]
           \/ docs[e].status = "absent" /\ BallotAnswer(b, "refused")
           \/ Faults /\ BallotAnswer(b, "error")
        /\ UNCHANGED <<votes, usedTokens>>

\* Mutant: options the election does not have are let through.
BallotValid_AnyOption(d, choice, t) ==
    /\ d.status = "open"
    /\ t \in d.startsAt..d.endsAt
    /\ choice # {}
    /\ Cardinality(choice) <= d.maxSelections

Identifiers(O) == {OptionId[o] : o \in O}

\* The checks of castVote on the document it read.
BallotValid(d, choice, t) ==
    /\ d.status = "open"
    /\ t \in d.startsAt..d.endsAt
    /\ choice # {}
    /\ Cardinality(choice) <= d.maxSelections
    /\ choice \subseteq Identifiers(d.options)

\* Mutant: the key is consumed whether the ballot is valid or not.
BallotDecide_KeyFirst(b) ==
    LET r == ballots[b]
    IN  /\ r.phase = "decide"
        /\ \/ /\ BallotValid(r.snap, r.choice, now)
              /\ BallotAdvance(b, IF r.key = NoKey THEN "create" ELSE "consume")
              /\ UNCHANGED <<votes, usedTokens>>
           \/ /\ ~BallotValid(r.snap, r.choice, now)
              /\ BallotAnswer(b, "refused")
              /\ usedTokens' = usedTokens \cup
                    {[voter |-> r.voter, election |-> r.election, key |-> r.key,
                      expiresAt |-> now + KeyTtl]}
              /\ UNCHANGED votes

BallotDecide(b) ==
    LET r == ballots[b]
        next == IF r.key = NoKey THEN "create" ELSE "consume"
    IN  /\ r.phase = "decide"
        /\ IF BallotValid(r.snap, r.choice, now) THEN BallotAdvance(b, next)
                                                 ELSE BallotAnswer(b, "refused")
        /\ UNCHANGED <<votes, usedTokens>>

\* consumeOneTimeToken: the insertion is the test, by the unique index on hash
\* and type.
TokenTaken(r) ==
    \E t \in usedTokens : <<t.voter, t.election, t.key>> = <<r.voter, r.election, r.key>>

ConsumeKey(b) ==
    LET r == ballots[b]
    IN  /\ r.phase = "consume"
        /\ UniqueIndex => ~TokenTaken(r)
        /\ usedTokens' = usedTokens \cup
              {[voter |-> r.voter, election |-> r.election, key |-> r.key,
                expiresAt |-> now + KeyTtl]}
        /\ BallotAdvance(b, "create") \/ (Faults /\ BallotAnswer(b, "error"))
        /\ UNCHANGED votes

RejectReplay(b) ==
    /\ ballots[b].phase = "consume"
    /\ UniqueIndex /\ TokenTaken(ballots[b])
    /\ BallotAnswer(b, "replay")
    /\ UNCHANGED <<votes, usedTokens>>

\* Mutant: only votes whose receipt was stored count as votes.
AlreadyVoted_WithReceipt(x, e) ==
    \E b \in Recorded : votes[b].voter = x /\ votes[b].election = e
                        /\ votes[b].receiptDigest # NoReceipt

\* Vote.create under the unique index on election and voter.
AlreadyVoted(x, e) ==
    \E b \in Recorded : votes[b].voter = x /\ votes[b].election = e

\* Mutant: an insertion that was not acknowledged is answered like a refused one.
CreateVote_RefusesUnknown(b) ==
    LET r == ballots[b]
    IN  /\ r.phase = "create"
        /\ UniqueIndex => ~AlreadyVoted(r.voter, r.election)
        /\ votes' = [votes EXCEPT ![b] =
              [election |-> r.election, voter |-> r.voter, choice |-> r.choice,
               createdAt |-> now, receiptDigest |-> NoReceipt]]
        /\ BallotAdvance(b, "receipt") \/ (Faults /\ BallotAnswer(b, "refused"))
        /\ UNCHANGED usedTokens

CreateVote(b) ==
    LET r == ballots[b]
    IN  /\ r.phase = "create"
        /\ UniqueIndex => ~AlreadyVoted(r.voter, r.election)
        /\ votes' = [votes EXCEPT ![b] =
              [election |-> r.election, voter |-> r.voter, choice |-> r.choice,
               createdAt |-> now, receiptDigest |-> NoReceipt]]
        /\ BallotAdvance(b, "receipt") \/ (Faults /\ BallotAnswer(b, "error"))
        /\ UNCHANGED usedTokens

RejectDuplicate(b) ==
    /\ ballots[b].phase = "create"
    /\ UniqueIndex /\ AlreadyVoted(ballots[b].voter, ballots[b].election)
    /\ BallotAnswer(b, "duplicate")
    /\ UNCHANGED <<votes, usedTokens>>

generateVoteReceipt(b, vote) ==
    [voteId |-> b, election |-> vote.election, recordedAt |-> vote.createdAt,
     integrityHash |-> <<b, vote.election, vote.voter, vote.choice, vote.createdAt>>]

\* Mutant: the receipt is answered and its digest not saved.
SaveReceipt_Forgotten(b) ==
    /\ ballots[b].phase = "receipt"
    /\ ballots' = [ballots EXCEPT ![b].phase = "done", ![b].snap = NoDoc,
                                  ![b].receipt = generateVoteReceipt(b, votes[b]),
                                  ![b].reply = "accepted"]
    /\ UNCHANGED <<votes, usedTokens>>

\* vote.save() with the digest of the receipt the reply carries.
SaveReceipt(b) ==
    /\ ballots[b].phase = "receipt"
    /\ votes' = [votes EXCEPT ![b].receiptDigest = generateVoteReceipt(b, votes[b])]
    /\ \/ ballots' = [ballots EXCEPT ![b].phase = "done", ![b].snap = NoDoc,
                                     ![b].receipt = generateVoteReceipt(b, votes[b]),
                                     ![b].reply = "accepted"]
       \/ Faults /\ BallotAnswer(b, "error")
    /\ UNCHANGED usedTokens

\* Mutant: any failure of the insertion is taken for a duplicate.
BallotFails_AsDuplicate(b) ==
    /\ Faults
    /\ ballots[b].phase \in {"consume", "create", "receipt"}
    /\ BallotAnswer(b, IF ballots[b].phase = "create" THEN "duplicate" ELSE "error")
    /\ UNCHANGED <<votes, usedTokens>>

\* An operation the database did not apply.
BallotFails(b) ==
    /\ Faults
    /\ ballots[b].phase \in {"consume", "create", "receipt"}
    /\ BallotAnswer(b, "error")
    /\ UNCHANGED <<votes, usedTokens>>

\* The process that serves the ballot dies, or its client goes away unanswered.
LoseBallot(b) ==
    /\ Faults
    /\ ballots[b].phase \notin {"new", "done"}
    /\ BallotAnswer(b, "none")
    /\ UNCHANGED <<votes, usedTokens>>

\* The TTL monitor of the database removes an expired token, sooner or later.
ExpireToken ==
    \E t \in usedTokens :
        /\ t.expiresAt <= now
        /\ usedTokens' = usedTokens \ {t}
        /\ UNCHANGED <<ballots, votes>>

-----------------------------------------------------------------------------
(* What readers are told.                                                   *)

\* verifyVoteReceiptForUser on a receipt whose signature is the server's own.
ReceiptVerifies(rc, x) ==
    /\ rc.voteId \in Recorded
    /\ votes[rc.voteId].voter = x
    /\ votes[rc.voteId].receiptDigest = generateVoteReceipt(rc.voteId, votes[rc.voteId])
    /\ rc = generateVoteReceipt(rc.voteId, votes[rc.voteId])

\* getElectionResults hides what its viewer may not see yet.
ResultsVisible(d, w) ==
    d.resultsVisibility = "after_close" => d.status = "closed" \/ w \in AdminViewers

\* Mutant: the results of an election nobody stored.
FindResults_Unchecked(w) ==
    /\ reports[w].phase = "new"
    /\ \E e \in Elections :
          /\ ResultsVisible(docs[e], w)
          /\ reports' = [reports EXCEPT ![w] =
                [phase |-> "votes", election |-> e, snap |-> docs[e]]]

\* The read of the election.  A request that is refused, fails or is lost, here or
\* later, leaves everything as it was and reports nothing.
FindResults(w) ==
    /\ reports[w].phase = "new"
    /\ \E e \in Elections :
          /\ docs[e].status # "absent"
          /\ ResultsVisible(docs[e], w)
          /\ reports' = [reports EXCEPT ![w] =
                [phase |-> "votes", election |-> e, snap |-> docs[e]]]

\* Each selection of each vote the election has now, and how many are of an option.
Selected(e) ==
    {s \in Ballots \X Options : /\ s[1] \in Recorded
                               /\ votes[s[1]].election = e
                               /\ s[2] \in votes[s[1]].choice}
Row(e, o) == Cardinality({b \in Ballots : <<b, OptionId[o]>> \in Selected(e)})

\* The read of the votes: a total of every selection, and a row for each option of
\* the document that was read before.
CountVotes(w) ==
    LET r == reports[w]
    IN  /\ r.phase = "votes"
        /\ reports' = [reports EXCEPT ![w] =
              [phase |-> "done", status |-> r.snap.status,
               totalVotes |-> Cardinality(Selected(r.election)),
               counts |-> [o \in r.snap.options |-> Row(r.election, o)]]]

-----------------------------------------------------------------------------

\* The steps the server takes on its own once a ballot is sent.
ServeBallot(b) ==
    \/ BallotFind(b) \/ BallotDecide(b) \/ ConsumeKey(b) \/ RejectReplay(b)
    \/ CreateVote(b) \/ RejectDuplicate(b) \/ SaveReceipt(b) \/ BallotFails(b)

VotingStep ==
    \/ \E b \in Ballots : Cast(b) \/ ServeBallot(b) \/ LoseBallot(b)
    \/ ExpireToken

Next ==
    \/ LifecycleNext /\ UNCHANGED <<votingVars, reports>>
    \/ VotingStep /\ UNCHANGED <<lifecycleVars, reports>>
    \/ (\E w \in Viewers : FindResults(w) \/ CountVotes(w))
       /\ UNCHANGED <<lifecycleVars, votingVars>>

Spec == VotingInit /\ [][Next]_vars
=============================================================================
