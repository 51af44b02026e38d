-------------------------- MODULE VotingProperties --------------------------
(***************************************************************************)
(* What casting a ballot promises while the election is being managed.     *)
(***************************************************************************)
EXTENDS Voting, ElectionProperties, FiniteSetsExt

\* The part of the voters' requests.
BallotsTypeOK ==
    /\ LifecycleTypeOK
    /\ ballots \in [Ballots -> Ballot \cup {NotSent}]
    /\ votes \in [Ballots -> Vote \cup {NoVote}]
    /\ usedTokens \subseteq Token

\* Every variable holds what the code can put in it; and nobody is shown the results
\* of an election that is not there.
VotingTypeOK ==
    /\ BallotsTypeOK
    /\ DOMAIN reports = Viewers
    /\ \A w \in Viewers :
          \/ reports[w] = NotAsked
          \/ reports[w] \in Reading /\ reports[w].snap.status # "absent"
          \/ \E O \in SUBSET Options : reports[w] \in Report(O)

\* No voter has two votes in an election, however many ballots are in flight at
\* once: castVote never looks for an earlier vote, the insertion is the check
\* (voteService.js:98, Vote.js:46).
OneVotePerVoter ==
    \A a, b \in Recorded :
        votes[a].voter = votes[b].voter /\ votes[a].election = votes[b].election
            => a = b

\* Every stored vote selects options its election has, no more than its limit,
\* although the ballot was checked on a snapshot and the election may have moved
\* on before the vote was inserted (voteService.js:51-98).
VotesConform ==
    \A b \in Recorded :
        LET d == docs[votes[b].election]
        IN  /\ d.status \in PastOpening
            /\ votes[b].choice # {}
            /\ votes[b].choice \subseteq Identifiers(d.options)
            /\ Cardinality(votes[b].choice) <= d.maxSelections

\* The results of an election that was open, closed or archived when they were asked
\* for add up: the rows are of the options read then, the total is of the votes read
\* after, and in between votes are cast and managers go on.  Of an election read
\* before its opening the code promises no such thing: its options may be replaced,
\* and votes cast, between the two reads (electionService.js:259-289).
ResultsAddUp ==
    \A w \in Viewers :
        reports[w].phase = "done" /\ reports[w].status \in PastOpening =>
            reports[w].totalVotes =
                SumFunctionOnSet(reports[w].counts, DOMAIN reports[w].counts)

\* A receipt answered with 201 verifies for its voter from then on: the digest
\* stored by the second save is the one the verification recomputes
\* (voteService.js:107-109, 163-165).
AcceptedReceiptVerifies ==
    \A b \in Ballots :
        ballots[b].phase = "done" /\ ballots[b].reply = "accepted" =>
            ReceiptVerifies(ballots[b].receipt, ballots[b].voter)

\* A voter told that they have already voted has a vote, even when the ballot
\* that recorded it was never answered (voteService.js:119-124).
DuplicateTruthful ==
    \A b \in Ballots :
        ballots[b].phase = "done" /\ ballots[b].reply = "duplicate" =>
            AlreadyVoted(ballots[b].voter, ballots[b].election)

\* A refusal as a replay is never spurious: the voter has a vote, or another
\* ballot with that key is on its way to one or did not get there because
\* something failed (voteService.js:83-98, the key is consumed last of the checks).
ReplayTruthful ==
    \A b \in Ballots :
        ballots[b].phase = "done" /\ ballots[b].reply = "replay" =>
            \/ AlreadyVoted(ballots[b].voter, ballots[b].election)
            \/ \E a \in Ballots \ {b} :
                  /\ ballots[a].phase # "new"
                  /\ ballots[a].voter = ballots[b].voter
                  /\ ballots[a].election = ballots[b].election
                  /\ ballots[a].key = ballots[b].key
                  /\ \/ ballots[a].phase \in {"create", "receipt"}
                     \/ ballots[a].phase = "done" /\ ballots[a].reply \in {"error", "none"}

-----------------------------------------------------------------------------

\* What a ballot asks for, and what its reply says of it: a request that ends
\* without an answer says nothing.
Asked(b) ==
    IF ballots[b].phase = "new" THEN NotSent
    ELSE [voter |-> ballots[b].voter, election |-> ballots[b].election,
          choice |-> ballots[b].choice]

AnswerOf(reply) ==
    CASE reply \in {"accepted", "duplicate"} -> reply
      [] reply \in {"refused", "replay"} -> "rejected"
      [] OTHER -> "unknown"

Told(b) == IF ballots[b].phase = "done" THEN AnswerOf(ballots[b].reply) ELSE "none"

\* castVote as a ballot box: what the box counts are the stored votes.
Box == INSTANCE BallotBox WITH
    Contents <- Selections,
    Nothing  <- NotSent,
    asked    <- [b \in Ballots |-> Asked(b)],
    box      <- Recorded,
    told     <- [b \in Ballots |-> Told(b)]

\* castVote implements the ballot box: whatever races, fails or is repeated, one
\* ballot of a voter counts for ever, and no answer is or becomes false; above all
\* no ballot is counted after, or although, its sender was told it was not
\* (voteService.js:50-133).
KeepsBallotBox == Box!Spec

=============================================================================
