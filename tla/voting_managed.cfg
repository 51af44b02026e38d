\* Ballots in flight while one manager edits, opens and closes the election.
SPECIFICATION Spec
CONSTANTS
    Elections = {e1}
    Managers = {m1}
    Admins = {m1}
    o1 = o1
    o2 = o2
    o3 = o3
    Options = {o1, o2, o3}
    Nobody = Nobody
    NoElection = NoElection
    MaxTime = 1
    MaxVersion = 0
    Bodies <- MCBody
    Patches <- MCReplacements
    Targets = {"published", "open", "closed"}
    Faults = FALSE
    Ballots = {b1, b2}
    Voters = {x1, x2}
    Keys = {}
    NoKey = NoKey
    Selections <- MCSelections
    OptionId <- MCOptionId
    KeyTtl = 1
    UniqueIndex = TRUE
    Viewers = {w1}
    AdminViewers = {w1}
SYMMETRY BallotVoterSymmetry
INVARIANTS VotingTypeOK VotesConform ResultsAddUp
