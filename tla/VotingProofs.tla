---------------------------- MODULE VotingProofs ----------------------------
(***************************************************************************)
(* What holds of the votes for any voters, ballots, keys and managers.     *)
(***************************************************************************)
EXTENDS VotingProperties, ElectionProofs, FiniteSums

-----------------------------------------------------------------------------
(* Votes and receipts as values.                                            *)

\* The missing vote is no vote.
LEMMA NoVoteIsNoVote == NoVote \notin Vote
BY NullsAssumption DEF Vote, NoVote

\* A ballot not sent is no ballot in flight.
LEMMA SentBallot ==
    ASSUME NEW r \in Ballot \cup {NotSent}, r.phase # "new"
    PROVE  r \in Ballot
BY DEF NotSent

\* What the server signs is a receipt.
LEMMA ReceiptType ==
    ASSUME NEW b \in Ballots, NEW v \in Vote
    PROVE  generateVoteReceipt(b, v) \in Receipt
BY DEF generateVoteReceipt, Receipt, Vote

-----------------------------------------------------------------------------
(* The inductive invariant: where a ballot stands and what is stored.       *)

BeforeVote == {"new", "find", "decide", "consume", "create"}

BallotOK(b) ==
    /\ ballots[b].phase \in BeforeVote => votes[b] = NoVote
    /\ ballots[b].phase = "consume" => ballots[b].key # NoKey
    /\ ballots[b].phase = "receipt" =>
          votes[b] \in Vote /\ votes[b].voter = ballots[b].voter
    /\ ballots[b].phase = "done" /\ ballots[b].reply = "accepted" =>
          ReceiptVerifies(ballots[b].receipt, ballots[b].voter)
          /\ ballots[b].receipt.voteId = b
    /\ ballots[b].phase = "done" /\ ballots[b].reply = "duplicate" =>
          AlreadyVoted(ballots[b].voter, ballots[b].election)

VotingInv ==
    /\ LifecycleInv
    /\ BallotsTypeOK
    /\ \A b \in Ballots : BallotOK(b)

\* No ballot, no vote, no token.
LEMMA InitVotingInv == VotingInit => VotingInv
BY InitLifecycleInv
DEF VotingInit, VotingInv, BallotsTypeOK, LifecycleInv, BallotOK, NotSent, BeforeVote

\* A step of one ballot leaves the others' requests and votes alone.
Alone(b) == \A x \in Ballots \ {b} : ballots'[x] = ballots[x] /\ votes'[x] = votes[x]

\* A vote, once stored, keeps its election, voter, choice and date.
Keeps ==
    \A x \in Recorded :
        /\ votes'[x] # NoVote
        /\ votes'[x].election = votes[x].election
        /\ votes'[x].voter = votes[x].voter

\* What the other ballots rely on survives a step of one.
LEMMA OthersKeepOK ==
    ASSUME VotingInv, NEW b \in Ballots, Alone(b), Keeps
    PROVE  \A x \in Ballots \ {b} : BallotOK(x)'
<1> SUFFICES ASSUME NEW x \in Ballots \ {b} PROVE BallotOK(x)'
  OBVIOUS
<1>1. ballots'[x] = ballots[x] /\ votes'[x] = votes[x] /\ BallotOK(x)
  BY DEF Alone, VotingInv
<1>2. ASSUME NEW v, NEW e, AlreadyVoted(v, e)
      PROVE  AlreadyVoted(v, e)'
  BY <1>2 DEF AlreadyVoted, Keeps, Recorded
<1>3. ASSUME NEW rc, rc.voteId = x, NEW v, ReceiptVerifies(rc, v)
      PROVE  ReceiptVerifies(rc, v)'
  BY <1>1, <1>3 DEF ReceiptVerifies, Recorded, generateVoteReceipt
<1> QED BY <1>1, <1>2, <1>3 DEF BallotOK
-----------------------------------------------------------------------------
(* Steps.                                                                   *)

\* A step that rewrites one ballot and its vote.
LEMMA OneBallotMoves ==
    ASSUME VotingInv, UNCHANGED lifecycleVars, NEW b \in Ballots,
           NEW r \in Ballot, ballots' = [ballots EXCEPT ![b] = r],
           NEW v \in Vote \cup {NoVote}, votes' = [votes EXCEPT ![b] = v],
           usedTokens' \subseteq Token, Keeps, BallotOK(b)'
    PROVE  VotingInv'
<1>1. /\ ballots \in [Ballots -> Ballot \cup {NotSent}]
      /\ votes \in [Ballots -> Vote \cup {NoVote}]
  BY DEF VotingInv, BallotsTypeOK
<1>2. Alone(b)
  BY <1>1 DEF Alone
<1>3. \A x \in Ballots \ {b} : BallotOK(x)'
  BY <1>2, OthersKeepOK
<1>4. LifecycleInv' /\ LifecycleTypeOK'
  BY DEF VotingInv, LifecycleInv, LifecycleTypeOK, lifecycleVars
<1> QED BY <1>1, <1>3, <1>4 DEF VotingInv, BallotsTypeOK

\* A ballot that advances or is answered, the votes being left alone.
LEMMA OnlyBallotMoves ==
    ASSUME VotingInv, UNCHANGED <<lifecycleVars, votes>>, NEW b \in Ballots,
           NEW r \in Ballot, ballots' = [ballots EXCEPT ![b] = r],
           usedTokens' \subseteq Token, BallotOK(b)'
    PROVE  VotingInv'
<1>1. votes \in [Ballots -> Vote \cup {NoVote}]
  BY DEF VotingInv, BallotsTypeOK
<1>2. votes' = [votes EXCEPT ![b] = votes[b]] /\ votes[b] \in Vote \cup {NoVote}
  BY <1>1
<1>3. Keeps
  BY DEF Keeps, Recorded
<1> QED BY <1>2, <1>3, OneBallotMoves

\* A reply other than "accepted" promises nothing, or a vote of the voter.
LEMMA AnswerKeepsVotingInv ==
    ASSUME VotingInv, UNCHANGED <<lifecycleVars, votes>>, NEW b \in Ballots,
           ballots[b].phase # "new", usedTokens' \subseteq Token,
           NEW reply \in BallotReply \ {"accepted"}, BallotAnswer(b, reply),
           reply = "duplicate" => AlreadyVoted(ballots[b].voter, ballots[b].election)
    PROVE  VotingInv'
<1> DEFINE r == [ballots[b] EXCEPT !.phase = "done", !.snap = NoDoc, !.reply = reply]
<1>1. ballots \in [Ballots -> Ballot \cup {NotSent}] /\ ballots[b] \in Ballot
  BY SentBallot DEF VotingInv, BallotsTypeOK
<1>2. ballots' = [ballots EXCEPT ![b] = r]
  BY <1>1 DEF BallotAnswer
<1>3. r \in Ballot
  BY <1>1, NoDocType DEF Ballot, BallotPhase
<1>4. ballots'[b] = r /\ r.phase = "done" /\ r.reply = reply
      /\ r.voter = ballots[b].voter /\ r.election = ballots[b].election
  BY <1>1, <1>2 DEF Ballot
<1>5. AlreadyVoted(r.voter, r.election) => AlreadyVoted(r.voter, r.election)'
  BY <1>1, <1>2, <1>4 DEF AlreadyVoted, Recorded
<1>6. BallotOK(b)'
  BY <1>4, <1>5 DEF BallotOK, BeforeVote
<1> QED BY <1>2, <1>3, <1>6, OnlyBallotMoves

\* A ballot that moves on to its next step, before any vote of its own.
LEMMA AdvanceKeepsVotingInv ==
    ASSUME VotingInv, UNCHANGED <<lifecycleVars, votes>>, NEW b \in Ballots,
           ballots[b].phase \in BeforeVote \ {"new"}, usedTokens' \subseteq Token,
           NEW phase \in BeforeVote, BallotAdvance(b, phase),
           phase = "consume" => ballots[b].key # NoKey
    PROVE  VotingInv'
<1> DEFINE r == [ballots[b] EXCEPT !.phase = phase]
<1>1. ballots \in [Ballots -> Ballot \cup {NotSent}] /\ ballots[b] \in Ballot
  BY SentBallot DEF VotingInv, BallotsTypeOK
<1>2. ballots' = [ballots EXCEPT ![b] = r] /\ r \in Ballot
  BY <1>1 DEF BallotAdvance, Ballot, BallotPhase, BeforeVote
<1>3. ballots'[b] = r /\ r.phase = phase /\ r.key = ballots[b].key
  BY <1>1, <1>2 DEF Ballot
<1>4. votes'[b] = NoVote
  BY DEF VotingInv, BallotOK
<1>5. BallotOK(b)'
  BY <1>3, <1>4 DEF BallotOK, BeforeVote
<1> QED BY <1>2, <1>5, OnlyBallotMoves

\* A ballot is sent with a voter, an election, a choice and perhaps a key.
LEMMA CastKeepsVotingInv ==
    ASSUME VotingInv, UNCHANGED lifecycleVars, NEW b \in Ballots, Cast(b)
    PROVE  VotingInv'
<1> DEFINE New(x, e, c, k) ==
       [phase |-> "find", voter |-> x, election |-> e, choice |-> c, key |-> k,
        snap |-> NoDoc, receipt |-> NoReceipt, reply |-> "none"]
<1>1. PICK x \in Voters, e \in Elections, c \in Selections, k \in Keys \cup {NoKey} :
         ballots' = [ballots EXCEPT ![b] = New(x, e, c, k)]
  BY DEF Cast
<1>2. New(x, e, c, k) \in Ballot
  BY NoDocType, SelectionsAssumption DEF Ballot, BallotPhase, BallotReply
<1>3. votes[b] = NoVote /\ ballots'[b] = New(x, e, c, k)
  BY <1>1 DEF Cast, VotingInv, BallotsTypeOK, BallotOK, BeforeVote
<1>4. BallotOK(b)'
  BY <1>3 DEF Cast, BallotOK
<1>5. usedTokens' \subseteq Token
  BY DEF Cast, VotingInv, BallotsTypeOK
<1> QED BY <1>1, <1>2, <1>4, <1>5, OnlyBallotMoves DEF Cast

\* The ballot keeps the election it read, if there is one.
LEMMA BallotFindKeepsVotingInv ==
    ASSUME VotingInv, UNCHANGED lifecycleVars, NEW b \in Ballots, BallotFind(b)
    PROVE  VotingInv'
<1> DEFINE r == [ballots[b] EXCEPT !.phase = "decide",
                                   !.snap = docs[ballots[b].election]]
<1>1. ballots \in [Ballots -> Ballot \cup {NotSent}] /\ ballots[b] \in Ballot
  BY SentBallot DEF VotingInv, BallotsTypeOK, BallotFind
<1>2. UNCHANGED votes /\ usedTokens' \subseteq Token
  BY DEF BallotFind, VotingInv, BallotsTypeOK
<1>3. CASE \E reply \in {"refused", "error"} : BallotAnswer(b, reply)
  BY <1>2, <1>3, AnswerKeepsVotingInv DEF BallotFind, BallotReply
<1>4. CASE ballots' = [ballots EXCEPT ![b].phase = "decide",
                                      ![b].snap = docs[ballots[b].election]]
  <2>1. ballots' = [ballots EXCEPT ![b] = r] /\ ballots'[b] = r /\ r.phase = "decide"
    BY <1>1, <1>4 DEF Ballot
  <2>2. docs[ballots[b].election] \in Doc
    BY <1>1 DEF Ballot, VotingInv, LifecycleInv, LifecycleTypeOK
  <2>3. r \in Ballot
    BY <1>1, <2>2 DEF Ballot, BallotPhase
  <2>4. votes'[b] = NoVote
    BY <1>2 DEF VotingInv, BallotOK, BallotFind, BeforeVote
  <2>5. BallotOK(b)'
    BY <2>1, <2>4 DEF BallotOK
  <2> QED BY <1>2, <2>1, <2>3, <2>5, OnlyBallotMoves
<1> QED BY <1>3, <1>4 DEF BallotFind

\* The checks on the snapshot.
LEMMA BallotDecideKeepsVotingInv ==
    ASSUME VotingInv, UNCHANGED lifecycleVars, NEW b \in Ballots, BallotDecide(b)
    PROVE  VotingInv'
<1>1. UNCHANGED votes /\ usedTokens' \subseteq Token
  BY DEF BallotDecide, VotingInv, BallotsTypeOK
<1>2. CASE BallotAnswer(b, "refused")
  BY <1>1, <1>2, AnswerKeepsVotingInv DEF BallotDecide, BallotReply
<1>3. CASE BallotAdvance(b, IF ballots[b].key = NoKey THEN "create" ELSE "consume")
  BY <1>1, <1>3, AdvanceKeepsVotingInv DEF BallotDecide, BeforeVote
<1> QED BY <1>2, <1>3 DEF BallotDecide

\* A consumed key is a token; a refused one leaves all as it was.
LEMMA KeyKeepsVotingInv ==
    ASSUME VotingInv, UNCHANGED lifecycleVars, NEW b \in Ballots,
           ConsumeKey(b) \/ RejectReplay(b)
    PROVE  VotingInv'
<1>1. ballots[b] \in Ballot /\ ballots[b].phase = "consume" /\ UNCHANGED votes
  BY SentBallot DEF VotingInv, BallotsTypeOK, ConsumeKey, RejectReplay
<1>2. CASE ConsumeKey(b)
  <2> DEFINE t == [voter |-> ballots[b].voter, election |-> ballots[b].election,
                   key |-> ballots[b].key, expiresAt |-> now + KeyTtl]
  <2>1. ballots[b].key \in Keys
    BY <1>1 DEF Ballot, VotingInv, BallotOK
  <2>2. now + KeyTtl \in Nat
    BY KeyTtlAssumption, BoundsAssumption
    DEF VotingInv, LifecycleInv, LifecycleTypeOK, Time
  <2>3. t \in Token
    BY <1>1, <2>1, <2>2 DEF Ballot, Token
  <2>4. usedTokens' \subseteq Token
    BY <1>2, <2>3 DEF ConsumeKey, VotingInv, BallotsTypeOK
  <2>5. CASE BallotAdvance(b, "create")
    BY <1>1, <2>4, <2>5, AdvanceKeepsVotingInv DEF BeforeVote
  <2>6. CASE BallotAnswer(b, "error")
    BY <1>1, <2>4, <2>6, AnswerKeepsVotingInv DEF BallotReply
  <2> QED BY <1>2, <2>5, <2>6 DEF ConsumeKey
<1>3. CASE RejectReplay(b)
  BY <1>1, <1>3, AnswerKeepsVotingInv DEF RejectReplay, BallotReply, VotingInv, BallotsTypeOK
<1> QED BY <1>2, <1>3

\* The vote takes its election, its voter and its choice from the ballot.
LEMMA CreateKeepsVotingInv ==
    ASSUME VotingInv, UNCHANGED lifecycleVars, NEW b \in Ballots, CreateVote(b)
    PROVE  VotingInv'
<1> DEFINE v == [election |-> ballots[b].election, voter |-> ballots[b].voter,
                 choice |-> ballots[b].choice, createdAt |-> now,
                 receiptDigest |-> NoReceipt]
<1>1. /\ ballots \in [Ballots -> Ballot \cup {NotSent}]
      /\ votes \in [Ballots -> Vote \cup {NoVote}]
      /\ ballots[b] \in Ballot /\ ballots[b].phase = "create" /\ votes[b] = NoVote
  BY SentBallot DEF VotingInv, BallotsTypeOK, CreateVote, BallotOK, BeforeVote
<1>2. v \in Vote
  BY <1>1 DEF Ballot, Vote, VotingInv, LifecycleInv, LifecycleTypeOK
<1>3. votes' = [votes EXCEPT ![b] = v] /\ usedTokens' \subseteq Token
  BY DEF CreateVote, VotingInv, BallotsTypeOK
<1>4. Keeps
  BY <1>1, <1>3 DEF Keeps, Recorded
<1>5. votes'[b] = v /\ v.voter = ballots[b].voter
  BY <1>1, <1>3
<1>6. CASE BallotAdvance(b, "receipt")
  <2> DEFINE r == [ballots[b] EXCEPT !.phase = "receipt"]
  <2>1. ballots' = [ballots EXCEPT ![b] = r] /\ r \in Ballot
    BY <1>1, <1>6 DEF BallotAdvance, Ballot, BallotPhase
  <2>2. ballots'[b] = r /\ r.phase = "receipt" /\ r.voter = ballots[b].voter
    BY <1>1, <2>1 DEF Ballot
  <2>3. BallotOK(b)'
    BY <1>2, <1>5, <2>2 DEF BallotOK, BeforeVote
  <2> QED BY <1>2, <1>3, <1>4, <2>1, <2>3, OneBallotMoves
<1>7. CASE BallotAnswer(b, "error")
  <2> DEFINE r == [ballots[b] EXCEPT !.phase = "done", !.snap = NoDoc, !.reply = "error"]
  <2>1. ballots' = [ballots EXCEPT ![b] = r] /\ r \in Ballot
    BY <1>1, <1>7, NoDocType DEF BallotAnswer, Ballot, BallotPhase, BallotReply
  <2>2. ballots'[b] = r /\ r.phase = "done" /\ r.reply = "error"
    BY <1>1, <2>1 DEF Ballot
  <2>3. BallotOK(b)'
    BY <2>2 DEF BallotOK, BeforeVote
  <2> QED BY <1>2, <1>3, <1>4, <2>1, <2>3, OneBallotMoves
<1> QED BY <1>6, <1>7 DEF CreateVote

\* The digest that is stored is that of the receipt that is answered.
LEMMA ReceiptKeepsVotingInv ==
    ASSUME VotingInv, UNCHANGED lifecycleVars, NEW b \in Ballots, SaveReceipt(b)
    PROVE  VotingInv'
<1> DEFINE g == generateVoteReceipt(b, votes[b])
           v == [votes[b] EXCEPT !.receiptDigest = g]
<1>1. /\ ballots \in [Ballots -> Ballot \cup {NotSent}]
      /\ votes \in [Ballots -> Vote \cup {NoVote}]
      /\ ballots[b] \in Ballot /\ ballots[b].phase = "receipt"
      /\ votes[b] \in Vote /\ votes[b].voter = ballots[b].voter
  BY SentBallot DEF VotingInv, BallotsTypeOK, SaveReceipt, BallotOK
<1>2. g \in Receipt
  BY <1>1, ReceiptType
<1>3. v \in Vote /\ v.voter = votes[b].voter /\ v.election = votes[b].election
      /\ v.choice = votes[b].choice /\ v.createdAt = votes[b].createdAt
      /\ v.receiptDigest = g
  BY <1>1, <1>2 DEF Vote
<1>4. votes' = [votes EXCEPT ![b] = v] /\ usedTokens' \subseteq Token
  BY DEF SaveReceipt, VotingInv, BallotsTypeOK
<1>5. votes'[b] = v /\ v # NoVote
  BY <1>1, <1>3, <1>4, NoVoteIsNoVote
<1>6. Keeps
  BY <1>1, <1>3, <1>4, <1>5 DEF Keeps, Recorded
<1>7. CASE ballots' = [ballots EXCEPT ![b].phase = "done", ![b].snap = NoDoc,
                                      ![b].receipt = g, ![b].reply = "accepted"]
  <2> DEFINE r == [ballots[b] EXCEPT !.phase = "done", !.snap = NoDoc,
                                     !.receipt = g, !.reply = "accepted"]
  <2>1. ballots' = [ballots EXCEPT ![b] = r] /\ r \in Ballot
    BY <1>1, <1>2, <1>7, NoDocType DEF Ballot, BallotPhase, BallotReply
  <2>2. /\ ballots'[b] = r /\ r.phase = "done" /\ r.reply = "accepted"
        /\ r.receipt = g /\ r.voter = ballots[b].voter
    BY <1>1, <2>1 DEF Ballot
  <2>3. g.voteId = b
    BY DEF generateVoteReceipt
  <2>4. generateVoteReceipt(b, v) = g
    BY <1>3 DEF generateVoteReceipt
  <2>5. ASSUME NEW rc, rc = g, NEW x, x = votes[b].voter
        PROVE  ReceiptVerifies(rc, x)'
    <3>1. b \in Recorded'
      BY <1>5 DEF Recorded
    <3>2. generateVoteReceipt(b, votes'[b]) = rc
      BY <1>5, <2>4, <2>5
    <3>3. rc.voteId = b
      BY <2>3, <2>5
    <3>4. votes'[b].voter = x /\ votes'[b].receiptDigest = rc
      BY <1>3, <1>5, <2>5
    <3> HIDE DEF g, v
    <3> QED BY <3>1, <3>2, <3>3, <3>4 DEF ReceiptVerifies
  <2>6. BallotOK(b)'
    BY <1>1, <2>2, <2>3, <2>5 DEF BallotOK, BeforeVote
  <2> QED BY <1>3, <1>4, <1>6, <2>1, <2>6, OneBallotMoves
<1>8. CASE BallotAnswer(b, "error")
  <2> DEFINE r == [ballots[b] EXCEPT !.phase = "done", !.snap = NoDoc, !.reply = "error"]
  <2>1. ballots' = [ballots EXCEPT ![b] = r] /\ r \in Ballot
    BY <1>1, <1>8, NoDocType DEF BallotAnswer, Ballot, BallotPhase, BallotReply
  <2>2. ballots'[b] = r /\ r.phase = "done" /\ r.reply = "error"
    BY <1>1, <2>1 DEF Ballot
  <2>3. BallotOK(b)'
    BY <2>2 DEF BallotOK, BeforeVote
  <2> QED BY <1>3, <1>4, <1>6, <2>1, <2>3, OneBallotMoves
<1> QED BY <1>7, <1>8 DEF SaveReceipt

\* A ballot that ends without an answer of substance, or with a true refusal.
LEMMA EndKeepsVotingInv ==
    ASSUME VotingInv, UNCHANGED lifecycleVars, NEW b \in Ballots,
           RejectDuplicate(b) \/ BallotFails(b) \/ LoseBallot(b)
    PROVE  VotingInv'
<1>1. UNCHANGED votes /\ usedTokens' \subseteq Token /\ ballots[b].phase # "new"
  BY DEF RejectDuplicate, BallotFails, LoseBallot, VotingInv, BallotsTypeOK
<1>2. CASE RejectDuplicate(b)
  BY <1>1, <1>2, AnswerKeepsVotingInv DEF RejectDuplicate, BallotReply
<1>3. CASE BallotFails(b)
  BY <1>1, <1>3, AnswerKeepsVotingInv DEF BallotFails, BallotReply
<1>4. CASE LoseBallot(b)
  BY <1>1, <1>4, AnswerKeepsVotingInv DEF LoseBallot, BallotReply
<1> QED BY <1>2, <1>3, <1>4

\* What a ballot relies on is in the ballots and the votes.
LEMMA BallotsStayOK ==
    ASSUME UNCHANGED <<ballots, votes>>, NEW b \in Ballots, BallotOK(b)
    PROVE  BallotOK(b)'
<1>1. Recorded' = Recorded
  BY DEF Recorded
<1>2. \A x, e : AlreadyVoted(x, e)' <=> AlreadyVoted(x, e)
  BY <1>1 DEF AlreadyVoted
<1>3. \A c, x : ReceiptVerifies(c, x)' <=> ReceiptVerifies(c, x)
  BY <1>1 DEF ReceiptVerifies, generateVoteReceipt
<1> QED BY <1>2, <1>3 DEF BallotOK

\* What managers do is nothing to the votes.
LEMMA ManagersKeepVotingInv ==
    ASSUME VotingInv, [LifecycleNext]_lifecycleVars, UNCHANGED votingVars
    PROVE  VotingInv'
<1>1. LifecycleInv' /\ LifecycleTypeOK'
  BY LifecycleStepKeepsInv DEF VotingInv, LifecycleInv
<1>2. \A b \in Ballots : BallotOK(b)'
  <2>1. UNCHANGED <<ballots, votes, usedTokens>> /\ \A b \in Ballots : BallotOK(b)
    BY DEF VotingInv, votingVars
  <2> QED BY <2>1, BallotsStayOK
<1> QED BY <1>1, <1>2 DEF VotingInv, BallotsTypeOK, votingVars

\* The invariant is inductive.
LEMMA VotingInvInductive == VotingInv /\ [Next]_vars => VotingInv'
<1> SUFFICES ASSUME VotingInv, [Next]_vars PROVE VotingInv'
  OBVIOUS
<1>1. CASE [LifecycleNext]_lifecycleVars /\ UNCHANGED votingVars
  BY <1>1, ManagersKeepVotingInv
<1>2. CASE ExpireToken /\ UNCHANGED lifecycleVars
  <2>1. usedTokens' \subseteq Token /\ UNCHANGED <<ballots, votes>>
    BY <1>2 DEF ExpireToken, VotingInv, BallotsTypeOK
  <2>2. LifecycleInv' /\ LifecycleTypeOK'
    BY <1>2 DEF VotingInv, LifecycleInv, LifecycleTypeOK, lifecycleVars
  <2>3. \A b \in Ballots : BallotOK(b)'
    <3>1. \A b \in Ballots : BallotOK(b)
      BY DEF VotingInv
    <3> QED BY <2>1, <3>1, BallotsStayOK
  <2> QED BY <2>1, <2>2, <2>3 DEF VotingInv, BallotsTypeOK
<1>3. ASSUME NEW b \in Ballots, Cast(b) \/ ServeBallot(b) \/ LoseBallot(b),
             UNCHANGED lifecycleVars
      PROVE  VotingInv'
  BY <1>3, CastKeepsVotingInv, BallotFindKeepsVotingInv, BallotDecideKeepsVotingInv,
     KeyKeepsVotingInv, CreateKeepsVotingInv, ReceiptKeepsVotingInv, EndKeepsVotingInv
  DEF ServeBallot
<1> QED BY <1>1, <1>2, <1>3 DEF Next, VotingStep, vars

\* The requests for results, and what they read.
ReportsTypeOK ==
    /\ DOMAIN reports = Viewers
    /\ \A w \in Viewers :
          \/ reports[w] = NotAsked
          \/ reports[w] \in Reading /\ reports[w].snap.status # "absent"
          \/ \E O \in SUBSET Options : reports[w] \in Report(O)

\* Sets of ballots and of their selections are as finite as ballots and options.
LEMMA ReportType ==
    ASSUME BallotsTypeOK, IsFiniteSet(Ballots), IsFiniteSet(Options), NEW e \in Elections
    PROVE  /\ IsFiniteSet(Selected(e)) /\ Cardinality(Selected(e)) \in Nat
           /\ \A o \in Options : Row(e, o) \in Nat
<1>1. IsFiniteSet(Ballots \X Options)
  BY FS_Product
<1>2. IsFiniteSet(Selected(e))
  <2>1. Selected(e) \subseteq Ballots \X Options
    BY DEF Selected
  <2> QED BY <1>1, <2>1, FS_Subset
<1>3. ASSUME NEW o \in Options PROVE Row(e, o) \in Nat
  <2>1. {b \in Ballots : <<b, OptionId[o]>> \in Selected(e)} \subseteq Ballots
    OBVIOUS
  <2> QED BY <2>1, FS_Subset, FS_CardinalityType DEF Row
<1> QED BY <1>2, <1>3, FS_CardinalityType

\* A request for results reads an election that is there, and reports numbers.
LEMMA ViewersKeepType ==
    ASSUME BallotsTypeOK, ReportsTypeOK, IsFiniteSet(Ballots), IsFiniteSet(Options),
           NEW w \in Viewers, FindResults(w) \/ CountVotes(w)
    PROVE  ReportsTypeOK'
<1>1. \A x \in Viewers \ {w} : reports'[x] = reports[x]
  BY DEF FindResults, CountVotes, ReportsTypeOK
<1>2. DOMAIN reports' = Viewers
  BY DEF FindResults, CountVotes, ReportsTypeOK
<1>3. CASE FindResults(w)
  <2>1. PICK e \in Elections :
           /\ docs[e].status # "absent"
           /\ reports' = [reports EXCEPT ![w] =
                 [phase |-> "votes", election |-> e, snap |-> docs[e]]]
    BY <1>3 DEF FindResults
  <2>2. reports'[w] = [phase |-> "votes", election |-> e, snap |-> docs[e]]
    BY <2>1 DEF ReportsTypeOK
  <2>3. docs[e] \in Doc
    BY DEF BallotsTypeOK, LifecycleTypeOK
  <2>4. reports'[w] \in Reading /\ reports'[w].snap.status # "absent"
    BY <2>1, <2>2, <2>3 DEF Reading
  <2> QED BY <1>1, <1>2, <2>4 DEF ReportsTypeOK
<1>4. CASE CountVotes(w)
  <2> DEFINE r == reports[w]
             O == r.snap.options
  <2>1. r \in Reading /\ r.snap.status # "absent"
    BY <1>4 DEF CountVotes, ReportsTypeOK, NotAsked, Report
  <2>2. r.snap.status \in Status /\ O \in SUBSET Options /\ r.election \in Elections
    BY <2>1 DEF Reading, Doc
  <2>3. reports'[w] = [phase |-> "done", status |-> r.snap.status,
                       totalVotes |-> Cardinality(Selected(r.election)),
                       counts |-> [o \in O |-> Row(r.election, o)]]
    BY <1>4 DEF CountVotes, ReportsTypeOK
  <2>4. /\ Cardinality(Selected(r.election)) \in Nat
        /\ [o \in O |-> Row(r.election, o)] \in [O -> Nat]
    BY <2>2, ReportType
  <2>5. reports'[w] \in Report(O)
    BY <2>2, <2>3, <2>4 DEF Report
  <2> QED BY <1>1, <1>2, <2>2, <2>5 DEF ReportsTypeOK
<1> QED BY <1>3, <1>4

\* Whoever votes, manages or asks for results, whatever fails, what is stored, in
\* flight and reported stays well-formed.
THEOREM VotingTypeCorrect ==
    ASSUME IsFiniteSet(Ballots), IsFiniteSet(Options) PROVE Spec => []VotingTypeOK
<1>1. VotingInit => ReportsTypeOK
  BY DEF VotingInit, ReportsTypeOK
<1>2. VotingInv /\ ReportsTypeOK /\ [Next]_vars => ReportsTypeOK'
  <2>1. CASE UNCHANGED reports
    BY <2>1 DEF ReportsTypeOK
  <2> QED BY <2>1, ViewersKeepType DEF Next, vars, VotingInv
<1>3. VotingInv /\ ReportsTypeOK => VotingTypeOK
  BY DEF VotingInv, ReportsTypeOK, VotingTypeOK
<1> QED BY <1>1, <1>2, <1>3, InitVotingInv, VotingInvInductive, PTL DEF Spec

\* A receipt the server has answered verifies for its voter for good.
THEOREM ReceiptsVerify == Spec => []AcceptedReceiptVerifies
<1>1. VotingInv => AcceptedReceiptVerifies
  BY DEF VotingInv, BallotOK, AcceptedReceiptVerifies
<1> QED BY <1>1, InitVotingInv, VotingInvInductive, PTL DEF Spec

\* A voter told that they have already voted has a vote.
THEOREM DuplicatesAreTrue == Spec => []DuplicateTruthful
<1>1. VotingInv => DuplicateTruthful
  BY DEF VotingInv, BallotOK, DuplicateTruthful
<1> QED BY <1>1, InitVotingInv, VotingInvInductive, PTL DEF Spec

\* With its unique index, the collection never holds two votes of a voter in an
\* election, however many ballots race and whatever fails.
THEOREM OneVotePerVoterHolds == ASSUME UniqueIndex PROVE Spec => []OneVotePerVoter
<1>1. VotingInit => OneVotePerVoter
  BY DEF VotingInit, OneVotePerVoter, Recorded
<1>2. VotingInv /\ OneVotePerVoter /\ [Next]_vars => OneVotePerVoter'
  <2> SUFFICES ASSUME VotingInv, OneVotePerVoter, [Next]_vars PROVE OneVotePerVoter'
    OBVIOUS
  <2>1. votes \in [Ballots -> Vote \cup {NoVote}]
    BY DEF VotingInv, BallotsTypeOK
  <2>2. CASE UNCHANGED votes
    BY <2>2 DEF OneVotePerVoter, Recorded
  <2>3. ASSUME NEW b \in Ballots, CreateVote(b)
        PROVE  OneVotePerVoter'
    <3>1. ~AlreadyVoted(ballots[b].voter, ballots[b].election)
      BY <2>3 DEF CreateVote
    <3>2. /\ votes'[b].voter = ballots[b].voter
          /\ votes'[b].election = ballots[b].election
          /\ \A x \in Ballots \ {b} : votes'[x] = votes[x]
      BY <2>1, <2>3 DEF CreateVote
    <3> QED BY <3>1, <3>2 DEF OneVotePerVoter, AlreadyVoted, Recorded
  <2>4. ASSUME NEW b \in Ballots, SaveReceipt(b)
        PROVE  OneVotePerVoter'
    <3>1. votes[b] \in Vote
      BY <2>4 DEF VotingInv, BallotOK, SaveReceipt
    <3>2. /\ votes'[b].voter = votes[b].voter
          /\ votes'[b].election = votes[b].election
          /\ \A x \in Ballots \ {b} : votes'[x] = votes[x]
      BY <2>1, <2>4, <3>1 DEF SaveReceipt, Vote
    <3>3. votes[b] # NoVote
      BY <3>1, NoVoteIsNoVote
    <3> QED BY <3>2, <3>3 DEF OneVotePerVoter, Recorded
  <2>5. UNCHANGED votes \/ \E b \in Ballots : CreateVote(b) \/ SaveReceipt(b)
    BY DEF vars, votingVars, Next, VotingStep, Cast, ServeBallot, BallotFind,
       BallotDecide, ConsumeKey, RejectReplay, RejectDuplicate, BallotFails,
       LoseBallot, ExpireToken
  <2> QED BY <2>2, <2>3, <2>4, <2>5
<1> QED BY <1>1, <1>2, InitVotingInv, VotingInvInductive, PTL DEF Spec

-----------------------------------------------------------------------------
(* Votes conform to their election while managers act one at a time: the    *)
(* snapshot of a ballot may be stale, but only of an election past opening. *)

ChoiceFits(e, c) ==
    /\ docs[e].status \in PastOpening
    /\ c # {}
    /\ c \subseteq Identifiers(docs[e].options)
    /\ Cardinality(c) <= docs[e].maxSelections

SnapshotFits(b) ==
    /\ ballots[b].phase = "decide" /\ ballots[b].snap.status = "open" =>
          /\ docs[ballots[b].election].status \in PastOpening
          /\ docs[ballots[b].election].options = ballots[b].snap.options
          /\ docs[ballots[b].election].maxSelections = ballots[b].snap.maxSelections
    /\ ballots[b].phase \in {"consume", "create"} =>
          ChoiceFits(ballots[b].election, ballots[b].choice)

ConformInv ==
    /\ VotingInv
    /\ SerialInv
    /\ \A b \in Ballots : SnapshotFits(b)
    /\ \A b \in Recorded : ChoiceFits(votes[b].election, votes[b].choice)

\* An election past its opening stays so, with the same options and limit.
LEMMA PastOpeningStable ==
    ASSUME NoStatusInBodies, SerialInv, [LifecycleNext]_lifecycleVars,
           NEW e \in Elections, docs[e].status \in PastOpening
    PROVE  /\ docs'[e].status \in PastOpening
           /\ docs'[e].options = docs[e].options
           /\ docs'[e].maxSelections = docs[e].maxSelections
<1>1. CASE UNCHANGED docs
  BY <1>1
<1>2. CASE LifecycleNext
  <2>1. /\ docs'[e].options = docs[e].options
        /\ docs'[e].maxSelections = docs[e].maxSelections
    BY <1>2, SerialStepLocks DEF CRITICAL_OPEN_FIELDS
  <2>2. CASE docs'[e].status # docs[e].status
    <3>1. docs'[e].status \in ELECTION_TRANSITIONS[docs[e].status]
      BY <1>2, <2>2, SerialStepLegal DEF Exists, PastOpening
    <3> QED BY <2>1, <3>1 DEF PastOpening, ELECTION_TRANSITIONS
  <2> QED BY <2>1, <2>2
<1> QED BY <1>1, <1>2 DEF lifecycleVars

\* What managers do leaves every checked choice fitting.
LEMMA ManagersKeepConformInv ==
    ASSUME SerialManagers, NoStatusInBodies, ConformInv,
           [LifecycleNext]_lifecycleVars, UNCHANGED votingVars
    PROVE  ConformInv'
<1>1. VotingInv'
  BY ManagersKeepVotingInv DEF ConformInv
<1>2. SerialInv'
  BY SerialInvInductive DEF ConformInv
<1>3. ASSUME NEW e \in Elections, NEW c, ChoiceFits(e, c)
      PROVE  ChoiceFits(e, c)'
  BY <1>3, PastOpeningStable DEF ChoiceFits, ConformInv
<1>4. ASSUME NEW b \in Ballots PROVE SnapshotFits(b)'
  <2>1. CASE ballots[b].phase \notin {"decide", "consume", "create"}
    BY <2>1 DEF SnapshotFits, votingVars
  <2>2. CASE ballots[b].phase \in {"decide", "consume", "create"}
    <3>1. ballots[b].election \in Elections /\ SnapshotFits(b)
      BY <2>2, SentBallot DEF ConformInv, VotingInv, BallotsTypeOK, Ballot
    <3> QED BY <1>3, <3>1, PastOpeningStable DEF SnapshotFits, votingVars, ConformInv
  <2> QED BY <2>1, <2>2
<1>5. ASSUME NEW b \in Recorded'
      PROVE  ChoiceFits(votes[b].election, votes[b].choice)'
  <2>1. b \in Recorded /\ votes[b].election \in Elections /\ votes' = votes
    BY DEF Recorded, votingVars, ConformInv, VotingInv, BallotsTypeOK, Vote
  <2> QED BY <1>3, <2>1 DEF ConformInv
<1> QED BY <1>1, <1>2, <1>4, <1>5 DEF ConformInv

\* A ballot checks its choice before it moves towards its vote.
LEMMA VotersKeepConformInv ==
    ASSUME ConformInv, VotingStep, UNCHANGED <<lifecycleVars, reports>>
    PROVE  ConformInv'
<1>1. VotingInv'
  BY VotingInvInductive DEF ConformInv, Next, vars
<1>2. UNCHANGED docs /\ SerialInv'
  BY DEF lifecycleVars, ConformInv, SerialInv, CheckedInv, LifecycleInv,
         LifecycleTypeOK, Checked, Current, Holds
<1>3. ASSUME NEW e, NEW c, ChoiceFits(e, c)
      PROVE  ChoiceFits(e, c)'
  BY <1>2, <1>3 DEF ChoiceFits
<1>4. ASSUME NEW b \in Ballots, ballots'[b] = ballots[b]
      PROVE  SnapshotFits(b)'
  BY <1>2, <1>4 DEF ConformInv, SnapshotFits, ChoiceFits
<1>5. ASSUME NEW b \in Ballots, votes'[b] = votes[b]
      PROVE  b \in Recorded' => ChoiceFits(votes[b].election, votes[b].choice)'
  BY <1>2, <1>5 DEF ConformInv, ChoiceFits, Recorded
<1>6. CASE ExpireToken
  BY <1>1, <1>2, <1>4, <1>5, <1>6 DEF ExpireToken, ConformInv, Recorded
<1>7. ASSUME NEW b \in Ballots, Cast(b) \/ ServeBallot(b) \/ LoseBallot(b)
      PROVE  ConformInv'
  <2>1. /\ ballots \in [Ballots -> Ballot \cup {NotSent}]
        /\ votes \in [Ballots -> Vote \cup {NoVote}]
    BY DEF ConformInv, VotingInv, BallotsTypeOK
  <2>2. Alone(b)
    BY <1>7, <2>1 DEF Alone, Cast, ServeBallot, LoseBallot, BallotFind, BallotDecide,
       ConsumeKey, RejectReplay, CreateVote, RejectDuplicate, SaveReceipt, BallotFails,
       BallotAnswer, BallotAdvance
  <2>3. SnapshotFits(b)'
    <3>1. ASSUME ballots'[b].phase \notin {"decide", "consume", "create"}
          PROVE  SnapshotFits(b)'
      BY <3>1 DEF SnapshotFits
    <3>2. ASSUME NEW reply, BallotAnswer(b, reply), ballots[b].phase # "new"
          PROVE  SnapshotFits(b)'
      <4>1. ballots[b] \in Ballot
        BY <2>1, <3>2, SentBallot
      <4>2. ballots'[b].phase = "done"
        BY <2>1, <3>2, <4>1 DEF BallotAnswer, Ballot
      <4> QED BY <3>1, <4>2
    <3>3. CASE Cast(b)
      BY <2>1, <3>1, <3>3 DEF Cast
    <3>4. CASE BallotFind(b)
      <4>1. ballots[b] \in Ballot
        BY <2>1, <3>4, SentBallot DEF BallotFind
      <4>2. CASE ballots' = [ballots EXCEPT ![b].phase = "decide",
                                            ![b].snap = docs[ballots[b].election]]
        <5>1. /\ ballots'[b].phase = "decide"
              /\ ballots'[b].election = ballots[b].election
              /\ ballots'[b].snap = docs[ballots[b].election]
          BY <2>1, <4>1, <4>2 DEF Ballot
        <5> QED BY <1>2, <5>1 DEF SnapshotFits, PastOpening
      <4> QED BY <3>2, <3>4, <4>2 DEF BallotFind
    <3>5. CASE BallotDecide(b)
      <4>1. ballots[b] \in Ballot /\ ballots[b].phase = "decide"
        BY <2>1, <3>5, SentBallot DEF BallotDecide
      <4>2. CASE BallotValid(ballots[b].snap, ballots[b].choice, now)
        <5>1. ChoiceFits(ballots[b].election, ballots[b].choice)
          BY <4>1, <4>2 DEF BallotValid, ConformInv, SnapshotFits, ChoiceFits
        <5>2. /\ ballots'[b].phase \in {"create", "consume"}
              /\ ballots'[b].election = ballots[b].election
              /\ ballots'[b].choice = ballots[b].choice
          BY <2>1, <3>5, <4>1, <4>2 DEF BallotDecide, BallotAdvance, Ballot
        <5> QED BY <1>3, <5>1, <5>2 DEF SnapshotFits
      <4> QED BY <3>2, <3>5, <4>1, <4>2 DEF BallotDecide
    <3>6. CASE ConsumeKey(b)
      <4>1. ballots[b] \in Ballot /\ ballots[b].phase = "consume"
        BY <2>1, <3>6, SentBallot DEF ConsumeKey
      <4>2. CASE BallotAdvance(b, "create")
        <5>1. /\ ballots'[b].phase = "create"
              /\ ballots'[b].election = ballots[b].election
              /\ ballots'[b].choice = ballots[b].choice
          BY <2>1, <4>1, <4>2 DEF BallotAdvance, Ballot
        <5>2. ChoiceFits(ballots[b].election, ballots[b].choice)
          BY <4>1 DEF ConformInv, SnapshotFits
        <5> QED BY <1>3, <5>1, <5>2 DEF SnapshotFits
      <4> QED BY <3>2, <3>6, <4>1, <4>2 DEF ConsumeKey
    <3>7. CASE CreateVote(b) \/ SaveReceipt(b)
      <4>1. ballots[b] \in Ballot /\ ballots[b].phase \in {"create", "receipt"}
        BY <2>1, <3>7, SentBallot DEF CreateVote, SaveReceipt
      <4>2. ballots'[b].phase \in {"receipt", "done"}
        BY <2>1, <3>7, <4>1
        DEF CreateVote, SaveReceipt, BallotAdvance, BallotAnswer, Ballot
      <4> QED BY <3>1, <4>2
    <3>8. CASE RejectReplay(b) \/ RejectDuplicate(b) \/ BallotFails(b) \/ LoseBallot(b)
      BY <3>2, <3>8 DEF RejectReplay, RejectDuplicate, BallotFails, LoseBallot
    <3> QED BY <1>7, <3>3, <3>4, <3>5, <3>6, <3>7, <3>8 DEF ServeBallot
  <2>4. b \in Recorded' => ChoiceFits(votes[b].election, votes[b].choice)'
    <3>1. CASE CreateVote(b)
      <4>1. /\ votes'[b].election = ballots[b].election
            /\ votes'[b].choice = ballots[b].choice
        BY <2>1, <3>1 DEF CreateVote
      <4>2. ChoiceFits(ballots[b].election, ballots[b].choice)
        BY <3>1 DEF ConformInv, SnapshotFits, CreateVote
      <4> QED BY <1>3, <4>1, <4>2
    <3>2. CASE SaveReceipt(b)
      <4>1. votes[b] \in Vote
        BY <3>2 DEF SaveReceipt, ConformInv, VotingInv, BallotOK
      <4>2. /\ votes'[b].election = votes[b].election
            /\ votes'[b].choice = votes[b].choice
        BY <2>1, <3>2, <4>1 DEF SaveReceipt, Vote
      <4>3. ChoiceFits(votes[b].election, votes[b].choice)
        BY <4>1, NoVoteIsNoVote DEF ConformInv, Recorded
      <4> QED BY <1>3, <4>2, <4>3
    <3>3. CASE votes' = votes
      BY <1>5, <3>3
    <3> QED BY <1>7, <3>1, <3>2, <3>3 DEF Cast, ServeBallot, LoseBallot, BallotFind,
       BallotDecide, ConsumeKey, RejectReplay, RejectDuplicate, BallotFails
  <2>5. \A x \in Ballots : SnapshotFits(x)'
    BY <1>4, <2>2, <2>3 DEF Alone
  <2>6. \A x \in Recorded' : ChoiceFits(votes[x].election, votes[x].choice)'
    BY <1>5, <2>2, <2>4 DEF Alone, Recorded
  <2> QED BY <1>1, <1>2, <2>5, <2>6 DEF ConformInv
<1> QED BY <1>6, <1>7 DEF VotingStep

\* Before and after every step of serial managers, votes fit their election.
LEMMA ConformInvariant ==
    ASSUME SerialManagers, NoStatusInBodies PROVE Spec => []ConformInv
<1>1. VotingInit => ConformInv
  BY InitVotingInv, InitSerialInv DEF VotingInit, ConformInv, SnapshotFits, NotSent, Recorded
<1>2. ConformInv /\ [Next]_vars => ConformInv'
  <2>1. UNCHANGED vars => [LifecycleNext]_lifecycleVars /\ UNCHANGED votingVars
    BY DEF vars
  <2> QED BY <2>1, ManagersKeepConformInv, VotersKeepConformInv DEF Next
<1> QED BY <1>1, <1>2, PTL DEF Spec

\* With managers acting one at a time and no status in their bodies, every vote
\* selects what its election offers, however stale the check of its ballot was.
THEOREM SerialVotesConform ==
    ASSUME SerialManagers, NoStatusInBodies PROVE Spec => []VotesConform
<1>1. ConformInv => VotesConform
  BY DEF ConformInv, VotesConform, ChoiceFits
<1> QED BY <1>1, ConformInvariant, PTL

\* The options of an election carry identifiers of their own.
DistinctIds == \A o, p \in Options : OptionId[o] = OptionId[p] => o = p

\* A total of every selection of every vote, and the rows of some options, agree when
\* every vote selects among these and no two share an identifier.
LEMMA ConformingVotesAddUp ==
    ASSUME BallotsTypeOK, DistinctIds, IsFiniteSet(Ballots), IsFiniteSet(Options),
           NEW e \in Elections, NEW O \in SUBSET Options,
           \A b \in Recorded : votes[b].election = e => votes[b].choice \subseteq Identifiers(O)
    PROVE  Cardinality(Selected(e)) = SumFunctionOnSet([o \in O |-> Row(e, o)], O)
<1> DEFINE S == Selected(e)
           P == {s \in Ballots \X O : <<s[1], OptionId[s[2]]>> \in S}
           f == [o \in O |-> Row(e, o)]
           g == [o \in O |-> Cardinality({a \in Ballots : <<a, o>> \in P})]
           h == [s \in P |-> <<s[1], OptionId[s[2]]>>]
<1>1. IsFiniteSet(O)
  BY FS_Subset
<1>2. IsFiniteSet(P)
  <2>1. IsFiniteSet(Ballots \X O)
    BY <1>1, FS_Product
  <2> QED BY <2>1, FS_Subset
<1>3. Cardinality(P) = Cardinality(S)
  <2>1. h \in [P -> S]
    OBVIOUS
  <2>2. ASSUME NEW s \in P, NEW t \in P, h[s] = h[t] PROVE s = t
    <3>1. s \in Ballots \X Options /\ t \in Ballots \X Options
      OBVIOUS
    <3>2. s[1] = t[1] /\ OptionId[s[2]] = OptionId[t[2]]
      BY <2>2
    <3>3. s[2] = t[2]
      BY <3>1, <3>2 DEF DistinctIds
    <3> QED BY <3>1, <3>2, <3>3
  <2>3. ASSUME NEW s \in S PROVE \E t \in P : h[t] = s
    <3>1. /\ s[1] \in Recorded /\ s[1] \in Ballots /\ s = <<s[1], s[2]>>
          /\ votes[s[1]].election = e /\ s[2] \in votes[s[1]].choice
      BY DEF Selected
    <3>2. PICK o \in O : s[2] = OptionId[o]
      BY <3>1 DEF Identifiers
    <3>3. <<s[1], o>> \in P /\ h[<<s[1], o>>] = s
      BY <3>1, <3>2
    <3> QED BY <3>3
  <2>4. h \in Bijection(P, S)
    <3> HIDE DEF P, S, h
    <3> QED BY <2>1, <2>2, <2>3 DEF Bijection, Injection, Surjection, IsInjective
  <2>5. ExistsBijection(P, S)
    BY <2>4 DEF ExistsBijection
  <2> HIDE DEF P, S, h
  <2> QED BY <1>2, <2>5, FS_Bijection
<1>4. ASSUME NEW o \in O
      PROVE  {a \in Ballots : <<a, o>> \in P} =
               {b \in Ballots : <<b, OptionId[o]>> \in Selected(e)}
  OBVIOUS
<1>5. f = g
  BY <1>4 DEF Row
<1>6. Cardinality(P) = SumFunctionOnSet(g, O)
  <2>1. P \in SUBSET (Ballots \X O)
    OBVIOUS
  <2> HIDE DEF P
  <2> QED BY <1>1, <2>1, PairsByColumn
<1> HIDE DEF P, S, f, g
<1>7. f = g /\ Cardinality(S) = SumFunctionOnSet(g, O)
  BY <1>3, <1>5, <1>6
<1> QED BY <1>7 DEF f, S

-----------------------------------------------------------------------------
(* Results, over two reads: what a request has read of an election past     *)
(* opening is still what its votes choose from when they are counted.       *)

ReportFits(w) ==
    /\ reports[w].phase = "votes" /\ reports[w].snap.status \in PastOpening =>
          /\ docs[reports[w].election].status \in PastOpening
          /\ docs[reports[w].election].options = reports[w].snap.options
    /\ reports[w].phase = "done" /\ reports[w].status \in PastOpening =>
          reports[w].totalVotes =
              SumFunctionOnSet(reports[w].counts, DOMAIN reports[w].counts)

ResultsInv ==
    /\ ConformInv
    /\ ReportsTypeOK
    /\ \A w \in Viewers : ReportFits(w)

\* Managers do not change what a request holds of an election past opening.
LEMMA ManagersKeepReports ==
    ASSUME NoStatusInBodies, ResultsInv, [LifecycleNext]_lifecycleVars, UNCHANGED reports,
           NEW w \in Viewers
    PROVE  ReportFits(w)'
<1>1. ReportFits(w) /\ SerialInv
  BY DEF ResultsInv, ConformInv
<1>2. CASE reports[w].phase = "votes" /\ reports[w].snap.status \in PastOpening
  <2>1. reports[w].election \in Elections
    BY <1>2 DEF ResultsInv, ReportsTypeOK, Reading, NotAsked, Report
  <2> QED BY <1>1, <1>2, <2>1, PastOpeningStable DEF ReportFits
<1>3. CASE ~(reports[w].phase = "votes" /\ reports[w].snap.status \in PastOpening)
  BY <1>1, <1>3 DEF ReportFits
<1> QED BY <1>2, <1>3

\* A request reads the election as it is, or counts votes that select among the
\* options it holds.
LEMMA ViewersKeepReports ==
    ASSUME ResultsInv, DistinctIds, IsFiniteSet(Ballots), IsFiniteSet(Options),
           UNCHANGED docs, NEW w \in Viewers, FindResults(w) \/ CountVotes(w)
    PROVE  ReportFits(w)'
<1>1. ReportsTypeOK /\ BallotsTypeOK /\ ReportFits(w)
  BY DEF ResultsInv, ConformInv, VotingInv
<1>2. CASE FindResults(w)
  <2>1. PICK e \in Elections :
           reports'[w] = [phase |-> "votes", election |-> e, snap |-> docs[e]]
    BY <1>1, <1>2 DEF FindResults, ReportsTypeOK
  <2> QED BY <2>1 DEF ReportFits
<1>3. CASE CountVotes(w)
  <2> DEFINE r == reports[w]
             O == r.snap.options
             f == [o \in O |-> Row(r.election, o)]
  <2>1. r \in Reading /\ r.phase = "votes"
    BY <1>1, <1>3 DEF CountVotes, ReportsTypeOK, NotAsked, Report
  <2>2. O \in SUBSET Options /\ r.election \in Elections
    BY <2>1 DEF Reading, Doc
  <2>3. reports'[w] = [phase |-> "done", status |-> r.snap.status,
                       totalVotes |-> Cardinality(Selected(r.election)), counts |-> f]
    BY <1>1, <1>3 DEF CountVotes, ReportsTypeOK
  <2>4. CASE r.snap.status \in PastOpening
    <3>1. docs[r.election].options = O
      BY <1>1, <2>1, <2>4 DEF ReportFits
    <3>2. \A b \in Recorded : votes[b].election = r.election =>
             votes[b].choice \subseteq Identifiers(O)
      BY <3>1 DEF ResultsInv, ConformInv, ChoiceFits
    <3>3. Cardinality(Selected(r.election)) = SumFunctionOnSet(f, O)
      BY <1>1, <2>2, <3>2, ConformingVotesAddUp
    <3>4. DOMAIN f = O
      OBVIOUS
    <3> HIDE DEF f, O
    <3> QED BY <2>3, <3>3, <3>4 DEF ReportFits
  <2>5. CASE r.snap.status \notin PastOpening
    BY <2>3, <2>5 DEF ReportFits
  <2> QED BY <2>4, <2>5
<1> QED BY <1>2, <1>3

\* The results of an election past its opening add up, for any finite number of ballots
\* and options, whatever is edited and cast between the two reads, as long as managers act
\* one at a time, put no status in their bodies and repeat no identifier.
THEOREM ResultsAreConsistent ==
    ASSUME SerialManagers, NoStatusInBodies, DistinctIds,
           IsFiniteSet(Ballots), IsFiniteSet(Options)
    PROVE  Spec => []ResultsAddUp
<1>1. VotingInit /\ ConformInv => ResultsInv
  BY DEF VotingInit, ResultsInv, ReportsTypeOK, ReportFits, NotAsked
<1>2. ResultsInv /\ [Next]_vars /\ ConformInv' => ResultsInv'
  <2> SUFFICES ASSUME ResultsInv, [Next]_vars, ConformInv' PROVE ResultsInv'
    OBVIOUS
  <2>1. CASE UNCHANGED reports
    <3>1. ReportsTypeOK'
      BY <2>1 DEF ResultsInv, ReportsTypeOK
    <3>2. [LifecycleNext]_lifecycleVars
      BY <2>1 DEF Next, vars
    <3> QED BY <2>1, <3>1, <3>2, ManagersKeepReports DEF ResultsInv
  <2>2. ASSUME NEW w \in Viewers, FindResults(w) \/ CountVotes(w),
               UNCHANGED <<lifecycleVars, votingVars>>
        PROVE  ResultsInv'
    <3>1. ReportsTypeOK'
      BY <2>2, ViewersKeepType DEF ResultsInv, ConformInv, VotingInv
    <3>2. UNCHANGED docs
      BY <2>2 DEF lifecycleVars
    <3>3. ASSUME NEW x \in Viewers \ {w} PROVE ReportFits(x)'
      <4>1. reports'[x] = reports[x] /\ ReportFits(x)
        BY <2>2 DEF FindResults, CountVotes, ResultsInv, ReportsTypeOK
      <4> QED BY <3>2, <4>1 DEF ReportFits
    <3>4. ReportFits(w)'
      BY <2>2, <3>2, ViewersKeepReports
    <3> QED BY <3>1, <3>3, <3>4 DEF ResultsInv
  <2> QED BY <2>1, <2>2 DEF Next, vars
<1>3. ResultsInv => ResultsAddUp
  BY DEF ResultsInv, ReportFits, ResultsAddUp
<1> QED BY <1>1, <1>2, <1>3, ConformInvariant, PTL DEF Spec

-----------------------------------------------------------------------------
(* castVote implements the ballot box, for any voters, keys, managers and   *)
(* failures, as long as the unique indexes exist; and with or without them  *)
(* a refusal as a replay has a cause.                                       *)

\* A stored vote is of the voter and the election its ballot names.
BoxInv ==
    /\ VotingInv
    /\ \A b \in Recorded :
          /\ votes[b].voter = ballots[b].voter
          /\ votes[b].election = ballots[b].election

\* The steps of a ballot's handler once it is sent.
Handled(b) == ServeBallot(b) \/ LoseBallot(b)

\* A handler keeps what its ballot asked for, and the other ballots.
LEMMA HandlerKeepsBallot ==
    ASSUME VotingInv, NEW b \in Ballots, Handled(b)
    PROVE  /\ ballots[b].phase \notin {"new", "done"} /\ ballots'[b].phase # "new"
           /\ ballots'[b].voter = ballots[b].voter
           /\ ballots'[b].election = ballots[b].election
           /\ ballots'[b].choice = ballots[b].choice /\ ballots'[b].key = ballots[b].key
           /\ \A x \in Ballots \ {b} : ballots'[x] = ballots[x]
           /\ \A x \in Ballots \ {b} : votes'[x] = votes[x]
<1>1. /\ ballots \in [Ballots -> Ballot \cup {NotSent}]
      /\ votes \in [Ballots -> Vote \cup {NoVote}]
  BY DEF VotingInv, BallotsTypeOK
<1>2. ballots[b].phase \notin {"new", "done"}
  BY DEF Handled, ServeBallot, BallotFind, BallotDecide, ConsumeKey, RejectReplay,
         CreateVote, RejectDuplicate, SaveReceipt, BallotFails, LoseBallot
<1>3. ballots[b] \in Ballot
  BY <1>1, <1>2, SentBallot
<1>4. \A x \in Ballots \ {b} : votes'[x] = votes[x]
  BY <1>1 DEF Handled, ServeBallot, BallotFind, BallotDecide, ConsumeKey, RejectReplay,
         CreateVote, RejectDuplicate, SaveReceipt, BallotFails, LoseBallot
<1>5. /\ ballots'[b].phase # "new"
      /\ ballots'[b].voter = ballots[b].voter
      /\ ballots'[b].election = ballots[b].election
      /\ ballots'[b].choice = ballots[b].choice /\ ballots'[b].key = ballots[b].key
      /\ \A x \in Ballots \ {b} : ballots'[x] = ballots[x]
  BY <1>1, <1>3
  DEF Ballot, Handled, ServeBallot, BallotFind, BallotDecide, ConsumeKey, RejectReplay,
      CreateVote, RejectDuplicate, SaveReceipt, BallotFails, LoseBallot,
      BallotAnswer, BallotAdvance
<1> QED BY <1>2, <1>4, <1>5

\* Only the insertion of a vote adds to the box, and nothing takes from it.
LEMMA BoxGrowsByCreation ==
    ASSUME VotingInv, NEW b \in Ballots, Handled(b)
    PROVE  Recorded' = IF CreateVote(b) THEN Recorded \cup {b} ELSE Recorded
<1>1. votes \in [Ballots -> Vote \cup {NoVote}]
  BY DEF VotingInv, BallotsTypeOK
<1>2. CASE CreateVote(b)
  <2>1. \A x \in Ballots \ {b} : votes'[x] = votes[x]
    BY HandlerKeepsBallot
  <2>2. votes'[b] \in Vote \/ votes'[b] # NoVote
    <3>1. ballots[b] \in Ballot
      BY <1>2, SentBallot DEF VotingInv, BallotsTypeOK, CreateVote
    <3>2. votes'[b] = [election |-> ballots[b].election, voter |-> ballots[b].voter,
                       choice |-> ballots[b].choice, createdAt |-> now,
                       receiptDigest |-> NoReceipt]
      BY <1>1, <1>2 DEF CreateVote
    <3> QED BY <3>1, <3>2 DEF Vote, Ballot, VotingInv, LifecycleInv, LifecycleTypeOK
  <2>3. votes'[b] # NoVote
    BY <2>2, NoVoteIsNoVote
  <2> QED BY <1>2, <2>1, <2>3 DEF Recorded
<1>3. CASE SaveReceipt(b) /\ ~CreateVote(b)
  <2>1. votes[b] \in Vote
    BY <1>3 DEF SaveReceipt, VotingInv, BallotOK
  <2> DEFINE g == generateVoteReceipt(b, votes[b])
  <2>2. votes'[b] = [votes[b] EXCEPT !.receiptDigest = g] /\ g \in Receipt
    BY <1>1, <1>3, <2>1, ReceiptType DEF SaveReceipt
  <2>3. votes'[b] \in Vote
    BY <2>1, <2>2 DEF Vote
  <2>4. votes[b] # NoVote /\ votes'[b] # NoVote
    BY <2>1, <2>3, NoVoteIsNoVote
  <2> QED BY <1>3, <2>4, HandlerKeepsBallot DEF Recorded
<1>4. CASE ~SaveReceipt(b) /\ ~CreateVote(b)
  BY <1>4 DEF Recorded, Handled, ServeBallot, BallotFind, BallotDecide, ConsumeKey,
              RejectReplay, RejectDuplicate, BallotFails, LoseBallot
<1> QED BY <1>2, <1>3, <1>4

\* The invariant is inductive.
LEMMA InitBoxInv == VotingInit => BoxInv
BY InitVotingInv DEF BoxInv, VotingInit, Recorded

LEMMA BoxInvInductive == BoxInv /\ [Next]_vars => BoxInv'
<1> SUFFICES ASSUME BoxInv, [Next]_vars PROVE BoxInv'
  OBVIOUS
<1>1. VotingInv /\ VotingInv'
  BY VotingInvInductive DEF BoxInv
<1>2. /\ ballots \in [Ballots -> Ballot \cup {NotSent}]
      /\ votes \in [Ballots -> Vote \cup {NoVote}]
  BY <1>1 DEF VotingInv, BallotsTypeOK
<1>3. CASE UNCHANGED <<ballots, votes>>
  BY <1>1, <1>3 DEF BoxInv, Recorded
<1>4. ASSUME NEW b \in Ballots, Cast(b)
      PROVE  BoxInv'
  <2>1. votes[b] = NoVote /\ UNCHANGED votes
    BY <1>1, <1>4 DEF Cast, VotingInv, BallotOK, BeforeVote
  <2>2. \A x \in Ballots \ {b} : ballots'[x] = ballots[x]
    BY <1>2, <1>4 DEF Cast
  <2> QED BY <1>1, <2>1, <2>2 DEF BoxInv, Recorded
<1>5. ASSUME NEW b \in Ballots, Handled(b)
      PROVE  BoxInv'
  <2>1. \A x \in Recorded' \ {b} : x \in Recorded /\ votes'[x] = votes[x]
                                   /\ ballots'[x] = ballots[x]
    BY <1>1, <1>5, HandlerKeepsBallot DEF Recorded
  <2>2. CASE CreateVote(b)
    <3>1. votes'[b].voter = ballots[b].voter /\ votes'[b].election = ballots[b].election
      BY <1>2, <2>2 DEF CreateVote
    <3> QED BY <1>1, <1>5, <2>1, <3>1, HandlerKeepsBallot DEF BoxInv
  <2>3. CASE SaveReceipt(b)
    <3>1. votes[b] \in Vote
      BY <1>1, <2>3 DEF SaveReceipt, VotingInv, BallotOK
    <3>2. b \in Recorded
      BY <3>1, NoVoteIsNoVote DEF Recorded
    <3>3. votes'[b].voter = votes[b].voter /\ votes'[b].election = votes[b].election
      BY <1>2, <2>3, <3>1 DEF SaveReceipt, Vote
    <3> QED BY <1>1, <1>5, <2>1, <3>2, <3>3, HandlerKeepsBallot DEF BoxInv
  <2>4. CASE ~CreateVote(b) /\ ~SaveReceipt(b)
    <3>1. UNCHANGED votes
      BY <1>5, <2>4 DEF Handled, ServeBallot, BallotFind, BallotDecide, ConsumeKey,
                        RejectReplay, RejectDuplicate, BallotFails, LoseBallot
    <3> QED BY <1>1, <1>5, <2>1, <3>1, HandlerKeepsBallot DEF BoxInv, Recorded
  <2> QED BY <2>2, <2>3, <2>4
<1> QED BY <1>3, <1>4, <1>5
    DEF vars, votingVars, Next, VotingStep, ExpireToken, Handled

-----------------------------------------------------------------------------
(* Every step is one of the ballot box, or none.                            *)

\* A step that leaves ballots and votes alone is nothing to the box.
LEMMA NothingForTheBox ==
    ASSUME UNCHANGED <<ballots, votes>>
    PROVE  UNCHANGED Box!vars
BY DEF Box!vars, Asked, Told, Recorded

\* A ballot that is sent is submitted to the box.
LEMMA CastSubmits ==
    ASSUME BoxInv, NEW b \in Ballots, Cast(b)
    PROVE  Box!Submit(b)
<1>1. PICK x \in Voters, e \in Elections, c \in Selections, k \in Keys \cup {NoKey} :
         ballots' = [ballots EXCEPT ![b] =
              [phase |-> "find", voter |-> x, election |-> e, choice |-> c, key |-> k,
               snap |-> NoDoc, receipt |-> NoReceipt, reply |-> "none"]]
  BY DEF Cast
<1>2. ballots \in [Ballots -> Ballot \cup {NotSent}]
  BY DEF BoxInv, VotingInv, BallotsTypeOK
<1>3. ballots'[b] = [phase |-> "find", voter |-> x, election |-> e, choice |-> c, key |-> k,
                     snap |-> NoDoc, receipt |-> NoReceipt, reply |-> "none"]
      /\ \A y \in Ballots \ {b} : ballots'[y] = ballots[y]
  BY <1>1, <1>2
<1>4. Asked(b) = NotSent /\ Asked(b)' = [voter |-> x, election |-> e, choice |-> c]
      /\ \A y \in Ballots \ {b} : Asked(y)' = Asked(y)
  BY <1>3 DEF Asked, Cast
<1>5. \A y \in Ballots : Told(y)' = Told(y)
  BY <1>3 DEF Told, Cast
<1>6. Recorded' = Recorded
  BY DEF Cast, Recorded
<1> QED BY <1>4, <1>5, <1>6 DEF Box!Submit

\* What a handler's step is to the box.
LEMMA HandlerMapped ==
    ASSUME BoxInv, NEW b \in Ballots, Handled(b)
    PROVE  /\ Asked(b) # NotSent /\ Told(b) = "none"
           /\ Asked(b).voter = ballots[b].voter /\ Asked(b).election = ballots[b].election
           /\ \A y \in Ballots : Asked(y)' = Asked(y)
           /\ \A y \in Ballots \ {b} : Told(y)' = Told(y)
<1>1. /\ ballots[b].phase \notin {"new", "done"} /\ ballots'[b].phase # "new"
      /\ ballots'[b].voter = ballots[b].voter
      /\ ballots'[b].election = ballots[b].election
      /\ ballots'[b].choice = ballots[b].choice /\ ballots'[b].key = ballots[b].key
      /\ \A x \in Ballots \ {b} : ballots'[x] = ballots[x]
  BY HandlerKeepsBallot DEF BoxInv
<1>2. Asked(b) = [voter |-> ballots[b].voter, election |-> ballots[b].election,
                  choice |-> ballots[b].choice]
  BY <1>1 DEF Asked
<1>3. Asked(b) # NotSent
  BY <1>2 DEF NotSent
<1> QED BY <1>1, <1>2, <1>3 DEF Asked, Told

\* A ballot before its vote is in the box with nothing, one after it is.
LEMMA WhereInTheBox ==
    ASSUME BoxInv, NEW b \in Ballots
    PROVE  /\ ballots[b].phase \in BeforeVote => b \notin Recorded
           /\ ballots[b].phase = "receipt" => b \in Recorded
BY NoVoteIsNoVote DEF BoxInv, VotingInv, BallotOK, Recorded

\* What a handler replies is true of the box as it is then.
LEMMA RepliesAreTrue ==
    ASSUME BoxInv, NEW b \in Ballots, Handled(b), ~CreateVote(b),
           ballots'[b].phase = "done"
    PROVE  LET answer == AnswerOf(ballots'[b].reply)
           IN  /\ answer \in Box!Answers
               /\ answer = "accepted" => b \in Recorded
               /\ answer = "duplicate" => b \notin Recorded /\ Box!Rivals(b) # {}
               /\ answer = "rejected" => b \notin Recorded
<1> DEFINE reply == ballots'[b].reply
<1>1. ballots \in [Ballots -> Ballot \cup {NotSent}] /\ ballots[b] \in Ballot
  BY HandlerKeepsBallot, SentBallot DEF BoxInv, VotingInv, BallotsTypeOK
<1>2. CASE SaveReceipt(b)
  <2>1. reply \in {"accepted", "error"}
    BY <1>1, <1>2 DEF SaveReceipt, BallotAnswer, Ballot
  <2>2. b \in Recorded
    BY <1>2, WhereInTheBox DEF SaveReceipt
  <2> QED BY <2>1, <2>2 DEF AnswerOf, Box!Answers
<1>3. CASE RejectDuplicate(b)
  <2>1. reply = "duplicate"
    BY <1>1, <1>3 DEF RejectDuplicate, BallotAnswer, Ballot
  <2>2. b \notin Recorded
    BY <1>3, WhereInTheBox DEF RejectDuplicate, BeforeVote
  <2>3. PICK a \in Recorded : votes[a].voter = ballots[b].voter
                             /\ votes[a].election = ballots[b].election
    BY <1>3 DEF RejectDuplicate, AlreadyVoted
  <2>4. /\ Asked(a).voter = ballots[b].voter /\ Asked(a).election = ballots[b].election
        /\ Asked(b).voter = ballots[b].voter /\ Asked(b).election = ballots[b].election
    <3>1. ballots[a].phase # "new" /\ a \in Ballots
      BY WhereInTheBox DEF BeforeVote, Recorded
    <3>2. ballots[a].voter = ballots[b].voter /\ ballots[a].election = ballots[b].election
      BY <2>3 DEF BoxInv
    <3> QED BY <3>1, <3>2, HandlerMapped DEF Asked
  <2>5. a \in Box!Rivals(b)
    BY <2>4 DEF Box!Rivals, Recorded
  <2> QED BY <2>1, <2>2, <2>5 DEF AnswerOf, Box!Answers
<1>4. CASE BallotFind(b) \/ BallotDecide(b) \/ RejectReplay(b) \/ ConsumeKey(b)
  <2>1. reply \in {"refused", "error", "replay"}
    BY <1>1, <1>4 DEF BallotFind, BallotDecide, RejectReplay, ConsumeKey, BallotAnswer,
                      BallotAdvance, Ballot
  <2>2. b \notin Recorded
    BY <1>4, WhereInTheBox DEF BallotFind, BallotDecide, RejectReplay, ConsumeKey, BeforeVote
  <2> QED BY <2>1, <2>2 DEF AnswerOf, Box!Answers
<1>5. CASE BallotFails(b) \/ LoseBallot(b)
  <2>1. reply \in {"error", "none"}
    BY <1>1, <1>5 DEF BallotFails, LoseBallot, BallotAnswer, Ballot
  <2> QED BY <2>1 DEF AnswerOf, Box!Answers
<1> QED BY <1>2, <1>3, <1>4, <1>5 DEF Handled, ServeBallot

\* A handler's step tells the sender something, counts the ballot, or neither.
LEMMA HandlerIsBoxStep ==
    ASSUME UniqueIndex, BoxInv, NEW b \in Ballots, Handled(b)
    PROVE  [Box!Next]_(Box!vars)
<1>1. /\ Asked(b) # NotSent /\ Told(b) = "none"
      /\ Asked(b).voter = ballots[b].voter /\ Asked(b).election = ballots[b].election
      /\ \A y \in Ballots : Asked(y)' = Asked(y)
      /\ \A y \in Ballots \ {b} : Told(y)' = Told(y)
  BY HandlerMapped
<1>2. CASE CreateVote(b)
  <2>1. Recorded' = Recorded \cup {b} /\ b \notin Recorded
    BY <1>2, BoxGrowsByCreation, WhereInTheBox DEF BoxInv, CreateVote, BeforeVote
  <2>2. \A a \in Recorded : a \in Ballots /\ Asked(a).voter = votes[a].voter
                            /\ Asked(a).election = votes[a].election
    BY WhereInTheBox DEF BoxInv, Asked, BeforeVote, Recorded
  <2>3. Box!Rivals(b) = {}
    BY <1>1, <1>2, <2>2 DEF CreateVote, AlreadyVoted, Box!Rivals
  <2>4. ballots[b] \in Ballot /\ ballots \in [Ballots -> Ballot \cup {NotSent}]
    BY HandlerKeepsBallot, SentBallot DEF BoxInv, VotingInv, BallotsTypeOK
  <2>5. Told(b)' \in {"none", "unknown"}
    BY <1>2, <2>4 DEF CreateVote, BallotAdvance, BallotAnswer, Told, AnswerOf, Ballot
  <2>6. Box!Count(b)
    BY <1>1, <2>1, <2>3, <2>5 DEF Box!Count
  <2> QED BY <2>6 DEF Box!Next
<1>3. CASE ~CreateVote(b) /\ ballots'[b].phase = "done"
  <2>1. Recorded' = Recorded
    BY <1>3, BoxGrowsByCreation DEF BoxInv
  <2> DEFINE answer == AnswerOf(ballots'[b].reply)
  <2>2. Told(b)' = answer
    BY <1>3 DEF Told
  <2>3. /\ answer \in Box!Answers
        /\ answer = "accepted" => b \in Recorded
        /\ answer = "duplicate" => b \notin Recorded /\ Box!Rivals(b) # {}
        /\ answer = "rejected" => b \notin Recorded
    BY <1>3, RepliesAreTrue
  <2> HIDE DEF answer
  <2>4. Box!Tell(b, answer)
    BY <1>1, <2>1, <2>2, <2>3 DEF Box!Tell
  <2> QED BY <2>3, <2>4 DEF Box!Next
<1>4. CASE ~CreateVote(b) /\ ballots'[b].phase # "done"
  <2>1. Recorded' = Recorded /\ Told(b)' = "none"
    BY <1>4, BoxGrowsByCreation DEF BoxInv, Told
  <2>2. UNCHANGED Box!vars
    BY <1>1, <2>1 DEF Box!vars
  <2> QED BY <2>2
<1> QED BY <1>2, <1>3, <1>4

\* With the unique indexes, castVote implements the ballot box: no ballot counts
\* twice for a voter, none after its sender was told it does not, and none is lost.
THEOREM VotingKeepsBallotBox == ASSUME UniqueIndex PROVE Spec => KeepsBallotBox
<1>1. VotingInit => Box!Init
  BY DEF VotingInit, Box!Init, Asked, Told, NotSent, Recorded
<1>2. BoxInv /\ [Next]_vars => [Box!Next]_(Box!vars)
  <2> SUFFICES ASSUME BoxInv, [Next]_vars PROVE [Box!Next]_(Box!vars)
    OBVIOUS
  <2>1. CASE UNCHANGED <<ballots, votes>>
    BY <2>1, NothingForTheBox
  <2>2. ASSUME NEW b \in Ballots, Cast(b) PROVE [Box!Next]_(Box!vars)
    BY <2>2, CastSubmits DEF Box!Next
  <2>3. ASSUME NEW b \in Ballots, Handled(b) PROVE [Box!Next]_(Box!vars)
    BY <2>3, HandlerIsBoxStep
  <2> QED BY <2>1, <2>2, <2>3
      DEF vars, votingVars, Next, VotingStep, ExpireToken, Handled
<1> QED BY <1>1, <1>2, InitBoxInv, BoxInvInductive, PTL DEF Spec, KeepsBallotBox, Box!Spec

-----------------------------------------------------------------------------
(* Refusals as replays.                                                     *)

\* A ballot that got past its key, and may have failed then.
PastKey(a) ==
    \/ ballots[a].phase \in {"create", "receipt"}
    \/ ballots[a].phase = "done" /\ ballots[a].reply \in {"error", "none"}

\* Why a key is taken: there is a vote, or a ballot that got past the key.
Explained(x, e, k) ==
    \/ AlreadyVoted(x, e)
    \/ \E a \in Ballots : /\ ballots[a].phase # "new" /\ PastKey(a)
                          /\ ballots[a].voter = x /\ ballots[a].election = e
                          /\ ballots[a].key = k

KeyInv ==
    /\ BoxInv
    /\ \A t \in usedTokens : Explained(t.voter, t.election, t.key)
    /\ \A b \in Ballots : ballots[b].phase = "done" /\ ballots[b].reply = "replay" =>
          Explained(ballots[b].voter, ballots[b].election, ballots[b].key)

\* A vote stays a vote.
LEMMA VotedStays ==
    ASSUME BoxInv, BoxInv', NEW b \in Ballots, Handled(b), NEW x, NEW e, AlreadyVoted(x, e)
    PROVE  AlreadyVoted(x, e)'
<1>1. VotingInv /\ Recorded \subseteq Recorded'
  BY BoxGrowsByCreation DEF BoxInv
<1>2. PICK a \in Recorded : votes[a].voter = x /\ votes[a].election = e
  BY DEF AlreadyVoted
<1>3. a \in Ballots /\ a \in Recorded'
  BY <1>1 DEF Recorded
<1>4. ballots'[a].voter = ballots[a].voter /\ ballots'[a].election = ballots[a].election
  BY <1>1, <1>3, HandlerKeepsBallot
<1>5. /\ votes[a].voter = ballots[a].voter /\ votes[a].election = ballots[a].election
      /\ votes'[a].voter = ballots'[a].voter /\ votes'[a].election = ballots'[a].election
  BY <1>2, <1>3 DEF BoxInv
<1>6. votes'[a].voter = x /\ votes'[a].election = e
  BY <1>2, <1>4, <1>5
<1> QED BY <1>3, <1>6 DEF AlreadyVoted

\* A ballot past its key ends with a vote of its voter, or with a failure.
LEMMA PastKeyStays ==
    ASSUME BoxInv, BoxInv', NEW b \in Ballots, Handled(b), PastKey(b),
           NEW x, NEW e, ballots[b].voter = x, ballots[b].election = e
    PROVE  PastKey(b)' \/ AlreadyVoted(x, e)'
<1>1. VotingInv /\ ballots[b].phase \in {"create", "receipt"}
  BY HandlerKeepsBallot DEF BoxInv, PastKey
<1>2. ballots[b] \in Ballot /\ ballots \in [Ballots -> Ballot \cup {NotSent}]
  BY <1>1, SentBallot DEF VotingInv, BallotsTypeOK
<1>3. ASSUME NEW phase \in {"receipt"}, BallotAdvance(b, phase) PROVE PastKey(b)'
  BY <1>2, <1>3 DEF BallotAdvance, Ballot, PastKey
<1>4. ASSUME NEW reply \in {"error", "none"}, BallotAnswer(b, reply) PROVE PastKey(b)'
  BY <1>2, <1>4 DEF BallotAnswer, Ballot, PastKey
<1>5. CASE CreateVote(b)
  BY <1>3, <1>4, <1>5 DEF CreateVote
<1>6. CASE RejectDuplicate(b)
  <2>1. AlreadyVoted(x, e)
    BY <1>6 DEF RejectDuplicate
  <2> QED BY <2>1, VotedStays
<1>7. CASE SaveReceipt(b)
  <2>1. b \in Recorded
    BY <1>1, <1>7, NoVoteIsNoVote DEF SaveReceipt, VotingInv, BallotOK, Recorded
  <2>2. AlreadyVoted(x, e)
    BY <2>1 DEF AlreadyVoted, BoxInv
  <2> QED BY <2>2, VotedStays
<1>8. CASE BallotFails(b) \/ LoseBallot(b)
  BY <1>4, <1>8 DEF BallotFails, LoseBallot
<1>9. ~(BallotFind(b) \/ BallotDecide(b) \/ ConsumeKey(b) \/ RejectReplay(b))
  BY <1>1 DEF BallotFind, BallotDecide, ConsumeKey, RejectReplay
<1> QED BY <1>5, <1>6, <1>7, <1>8, <1>9 DEF Handled, ServeBallot

\* What explains a taken key goes on to explain it.
LEMMA ExplainedStays ==
    ASSUME BoxInv, BoxInv', NEW b \in Ballots, Handled(b), NEW x, NEW e, NEW k,
           Explained(x, e, k)
    PROVE  Explained(x, e, k)'
<1>1. CASE AlreadyVoted(x, e)
  BY <1>1, VotedStays DEF Explained
<1>2. CASE ~AlreadyVoted(x, e)
  <2>1. PICK a \in Ballots : /\ ballots[a].phase # "new" /\ PastKey(a)
                             /\ ballots[a].voter = x /\ ballots[a].election = e
                             /\ ballots[a].key = k
    BY <1>2 DEF Explained
  <2>2. CASE a = b
    <3>1. /\ ballots'[b].phase # "new" /\ ballots'[b].voter = x
          /\ ballots'[b].election = e /\ ballots'[b].key = k
      BY <2>1, <2>2, HandlerKeepsBallot DEF BoxInv
    <3>2. PastKey(b)' \/ AlreadyVoted(x, e)'
      BY <2>1, <2>2, PastKeyStays
    <3> QED BY <3>1, <3>2 DEF Explained
  <2>3. CASE a # b
    <3>1. ballots'[a] = ballots[a]
      BY <2>3, HandlerKeepsBallot DEF BoxInv
    <3> QED BY <2>1, <3>1 DEF Explained, PastKey
  <2> QED BY <2>2, <2>3
<1> QED BY <1>1, <1>2

\* Who consumes a key explains it.
LEMMA TakenByConsumer ==
    ASSUME BoxInv, NEW b \in Ballots, Handled(b), NEW t \in usedTokens', t \notin usedTokens
    PROVE  Explained(t.voter, t.election, t.key)'
<1>1. ConsumeKey(b)
  BY DEF Handled, ServeBallot, BallotFind, BallotDecide, RejectReplay, CreateVote,
         RejectDuplicate, SaveReceipt, BallotFails, LoseBallot
<1>2. t.voter = ballots[b].voter /\ t.election = ballots[b].election /\ t.key = ballots[b].key
  BY <1>1 DEF ConsumeKey
<1>3. ballots[b] \in Ballot /\ ballots \in [Ballots -> Ballot \cup {NotSent}]
  BY HandlerKeepsBallot, SentBallot DEF BoxInv, VotingInv, BallotsTypeOK
<1>4. PastKey(b)'
  BY <1>1, <1>3 DEF ConsumeKey, BallotAdvance, BallotAnswer, Ballot, PastKey
<1>5. /\ ballots'[b].phase # "new" /\ ballots'[b].voter = t.voter
      /\ ballots'[b].election = t.election /\ ballots'[b].key = t.key
  BY <1>2, HandlerKeepsBallot DEF BoxInv
<1> QED BY <1>4, <1>5 DEF Explained

\* A ballot refused as a replay met a key that was taken.
LEMMA RefusedForReason ==
    ASSUME KeyInv, BoxInv', NEW b \in Ballots, Handled(b),
           ballots'[b].phase = "done", ballots'[b].reply = "replay",
           NEW x, NEW e, NEW k,
           ballots[b].voter = x, ballots[b].election = e, ballots[b].key = k
    PROVE  Explained(x, e, k)'
<1>1. BoxInv /\ ballots[b] \in Ballot /\ ballots \in [Ballots -> Ballot \cup {NotSent}]
  BY HandlerKeepsBallot, SentBallot DEF KeyInv, BoxInv, VotingInv, BallotsTypeOK
<1>2. RejectReplay(b)
  BY <1>1 DEF Ballot, Handled, ServeBallot, BallotFind, BallotDecide, ConsumeKey, CreateVote,
      RejectDuplicate, SaveReceipt, BallotFails, LoseBallot, BallotAnswer, BallotAdvance
<1>3. PICK t \in usedTokens : t.voter = x /\ t.election = e /\ t.key = k
  BY <1>2 DEF RejectReplay, TokenTaken
<1>4. Explained(x, e, k)
  BY <1>3 DEF KeyInv
<1> QED BY <1>1, <1>4, ExplainedStays

\* Nothing else touches ballots and votes; the monitor only removes tokens.
LEMMA KeyInvWithoutBallots ==
    ASSUME KeyInv, BoxInv', UNCHANGED <<ballots, votes>>, usedTokens' \subseteq usedTokens
    PROVE  KeyInv'
BY DEF KeyInv, Explained, PastKey, AlreadyVoted, Recorded

\* A ballot that is sent was no ballot before.
LEMMA CastKeepsKeyInv ==
    ASSUME KeyInv, BoxInv', NEW b \in Ballots, Cast(b)
    PROVE  KeyInv'
<1>1. /\ UNCHANGED <<votes, usedTokens>> /\ ballots[b].phase = "new"
      /\ \A a \in Ballots \ {b} : ballots'[a] = ballots[a]
      /\ ballots'[b].phase = "find"
  BY DEF Cast, KeyInv, BoxInv, VotingInv, BallotsTypeOK
<1>2. ASSUME NEW x, NEW e, NEW k, Explained(x, e, k) PROVE Explained(x, e, k)'
  <2>1. AlreadyVoted(x, e) => AlreadyVoted(x, e)'
    BY <1>1 DEF AlreadyVoted, Recorded
  <2>2. ASSUME NEW a \in Ballots, ballots[a].phase # "new" PROVE ballots'[a] = ballots[a]
    BY <1>1, <2>2
  <2> QED BY <1>2, <2>1, <2>2 DEF Explained, PastKey
<1>3. \A t \in usedTokens' : Explained(t.voter, t.election, t.key)'
  BY <1>1, <1>2 DEF KeyInv
<1>4. ASSUME NEW a \in Ballots, ballots'[a].phase = "done", ballots'[a].reply = "replay",
             NEW x, NEW e, NEW k,
             ballots'[a].voter = x, ballots'[a].election = e, ballots'[a].key = k
      PROVE  Explained(x, e, k)'
  <2>1. ballots'[a] = ballots[a]
    BY <1>1, <1>4
  <2> QED BY <1>2, <1>4, <2>1 DEF KeyInv
<1> QED BY <1>3, <1>4 DEF KeyInv

LEMMA HandlerKeepsKeyInv ==
    ASSUME KeyInv, BoxInv', NEW b \in Ballots, Handled(b)
    PROVE  KeyInv'
<1>1. BoxInv /\ VotingInv
  BY DEF KeyInv, BoxInv
<1>2. ASSUME NEW t \in usedTokens' PROVE Explained(t.voter, t.election, t.key)'
  <2>1. CASE t \in usedTokens
    BY <1>1, <2>1, ExplainedStays DEF KeyInv
  <2>2. CASE t \notin usedTokens
    BY <1>1, <1>2, <2>2, TakenByConsumer
  <2> QED BY <2>1, <2>2
<1>3. ASSUME NEW a \in Ballots, ballots'[a].phase = "done", ballots'[a].reply = "replay",
             NEW x, NEW e, NEW k,
             ballots'[a].voter = x, ballots'[a].election = e, ballots'[a].key = k
      PROVE  Explained(x, e, k)'
  <2>1. CASE a = b
    <3>1. ballots[b].voter = x /\ ballots[b].election = e /\ ballots[b].key = k
      BY <1>1, <1>3, <2>1, HandlerKeepsBallot
    <3> QED BY <1>3, <2>1, <3>1, RefusedForReason
  <2>2. CASE a # b
    <3>1. ballots'[a] = ballots[a]
      BY <1>1, <2>2, HandlerKeepsBallot
    <3>2. Explained(x, e, k)
      BY <1>3, <3>1 DEF KeyInv
    <3> QED BY <1>1, <3>2, ExplainedStays
  <2> QED BY <2>1, <2>2
<1> QED BY <1>2, <1>3 DEF KeyInv

LEMMA KeyInvInductive == KeyInv /\ [Next]_vars => KeyInv'
<1> SUFFICES ASSUME KeyInv, [Next]_vars PROVE KeyInv'
  OBVIOUS
<1>1. BoxInv'
  BY BoxInvInductive DEF KeyInv
<1>2. CASE UNCHANGED <<ballots, votes>> /\ usedTokens' \subseteq usedTokens
  BY <1>1, <1>2, KeyInvWithoutBallots
<1>3. ASSUME NEW b \in Ballots, Cast(b) PROVE KeyInv'
  BY <1>1, <1>3, CastKeepsKeyInv
<1>4. ASSUME NEW b \in Ballots, Handled(b) PROVE KeyInv'
  BY <1>1, <1>4, HandlerKeepsKeyInv
<1> QED BY <1>2, <1>3, <1>4
    DEF vars, votingVars, Next, VotingStep, ExpireToken, Handled

\* A refusal as a replay is never spurious, whether the unique indexes exist or not.
THEOREM ReplaysAreTrue == Spec => []ReplayTruthful
<1>1. VotingInit => KeyInv
  BY InitBoxInv DEF VotingInit, KeyInv, NotSent
<1>2. KeyInv => ReplayTruthful
  <2> SUFFICES ASSUME KeyInv, NEW b \in Ballots,
                      ballots[b].phase = "done", ballots[b].reply = "replay",
                      ~AlreadyVoted(ballots[b].voter, ballots[b].election)
               PROVE  \E a \in Ballots \ {b} :
                         /\ ballots[a].phase # "new"
                         /\ ballots[a].voter = ballots[b].voter
                         /\ ballots[a].election = ballots[b].election
                         /\ ballots[a].key = ballots[b].key
                         /\ PastKey(a)
    BY DEF ReplayTruthful, PastKey
  <2>1. Explained(ballots[b].voter, ballots[b].election, ballots[b].key)
    BY DEF KeyInv
  <2>2. ~PastKey(b)
    BY DEF PastKey
  <2> QED BY <2>1, <2>2 DEF Explained
<1> QED BY <1>1, <1>2, KeyInvInductive, PTL DEF Spec

=============================================================================
