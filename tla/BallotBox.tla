------------------------------ MODULE BallotBox ------------------------------
(***************************************************************************)
(* What POST /elections/:electionId/votes promises, whatever the tokens,   *)
(* indexes, saves and failures behind it: a box that counts at most one    *)
(* ballot of a voter in an election and gives none back, and answers about *)
(* it that are true when they are given and stay true.                     *)
(***************************************************************************)
CONSTANTS
    Ballots,     \* requests to vote
    Voters, Elections,
    Contents,     \* what a ballot may select
    Nothing      \* a ballot that was not submitted

VARIABLES
    asked,  \* who votes for what with each ballot
    box,    \* the ballots that count
    told    \* what the sender of each ballot was told

vars == <<asked, box, told>>

\* "rejected" says that the ballot does not count, "unknown" says nothing.
Answers == {"accepted", "duplicate", "rejected", "unknown"}

Init ==
    /\ asked = [b \in Ballots |-> Nothing]
    /\ box = {}
    /\ told = [b \in Ballots |-> "none"]

Submit(b) ==
    /\ asked[b] = Nothing
    /\ \E x \in Voters, e \in Elections, c \in Contents :
          asked' = [asked EXCEPT ![b] = [voter |-> x, election |-> e, choice |-> c]]
    /\ UNCHANGED <<box, told>>

Rivals(b) == {a \in box : /\ asked[a].voter = asked[b].voter
                          /\ asked[a].election = asked[b].election}

\* A ballot is counted before its sender is told anything, or as it goes unanswered.
Count(b) ==
    /\ asked[b] # Nothing
    /\ told[b] = "none"
    /\ b \notin box /\ box' = box \cup {b}
    /\ Rivals(b) = {}
    /\ told' \in {told, [told EXCEPT ![b] = "unknown"]}
    /\ UNCHANGED asked

Tell(b, answer) ==
    /\ asked[b] # Nothing
    /\ told[b] = "none"
    /\ told' = [told EXCEPT ![b] = answer]
    /\ answer = "accepted" => b \in box
    /\ answer = "duplicate" => b \notin box /\ Rivals(b) # {}
    /\ answer = "rejected" => b \notin box
    /\ UNCHANGED <<asked, box>>

Next == \E b \in Ballots :
    Submit(b) \/ Count(b) \/ \E answer \in Answers : Tell(b, answer)

Spec == Init /\ [][Next]_vars
=============================================================================
