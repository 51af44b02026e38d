------------------------------ MODULE MCVoting ------------------------------
(* Small values for the parameters of voting.                              *)
EXTENDS VotingProperties, TLC

CONSTANTS o1, o2, o3

MCBody ==
    {[options |-> {o1, o2}, maxSelections |-> 2, startsAt |-> 0, endsAt |-> 1]}

\* A poll the creator posts with its status, open from the start.
MCOpenBody ==
    {[options |-> {o1, o2, o3}, maxSelections |-> 2, startsAt |-> 0, endsAt |-> 1,
      status |-> "open"]}

\* Another array and another limit: each selection below is valid either before or after.
MCReplacements == {[options |-> {o1, o3}, maxSelections |-> 1]}

\* Valid or not according to the options and to the limit.
MCSelections == {{o3}, {o1, o2}}
MCOneSelection == {{o1}}

MCOptionId == [o \in Options |-> o]

BallotVoterSymmetry == Permutations(Ballots) \cup Permutations(Voters)
=============================================================================
