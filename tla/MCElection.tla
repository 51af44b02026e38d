----------------------------- MODULE MCElection -----------------------------
(* Small values for the parameters of the election lifecycle.              *)
EXTENDS ElectionProperties

CONSTANTS o1, o2, o3

\* A poll among all three options, and two bodies the checks refuse.
MCBodies ==
    {[options |-> {o1, o2, o3}, maxSelections |-> 2, startsAt |-> 0, endsAt |-> 1],
     [options |-> {o1, o2}, maxSelections |-> 3, startsAt |-> 0, endsAt |-> 1],
     [options |-> {o1, o2}, startsAt |-> 1, endsAt |-> 1]}

\* Each critical field alone, the pairs a form sends together, and a field that
\* is never locked before closing.
MCPatches ==
    {[options |-> {o1, o2}], [options |-> {o1, o3}, maxSelections |-> 1],
     [maxSelections |-> 3], [startsAt |-> 1], [endsAt |-> 2],
     [resultsVisibility |-> "always"]}

\* Enough for two managers to edit and move the same poll.
MCOneBody ==
    {[options |-> {o1, o2, o3}, maxSelections |-> 2, startsAt |-> 0, endsAt |-> 1]}
MCRacingPatches == {[options |-> {o1, o2}], [options |-> {o3, o2}], [maxSelections |-> 3]}

\* A body that carries the status along with the rest of the form.
MCPatchesWithStatus == {[status |-> s, resultsVisibility |-> "always"] : s \in Status}
=============================================================================
