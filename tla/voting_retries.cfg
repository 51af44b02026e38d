\* A voter who retries, with one key or without, on a poll posted open, while everything
\* may fail and the poll may be closed or archived.
SPECIFICATION Spec
CONSTANTS
    Elections = {e1}
    Managers = {m1}
    Admins = {m1}
    o1 = o1
    o2 = o2
    o3 = o3
    Options = {o1, o2, o3}
    Nobody = Nobody
    NoElection = NoElection
    MaxTime = 1
    MaxVersion = 0
    Bodies <- MCOpenBody
    Patches = {}
    Targets = {"closed"}
    Faults = TRUE
    Ballots = {b1, b2}
    Voters = {x1, x2}
    Keys = {k1}
    NoKey = NoKey
    Selections <- MCOneSelection
    OptionId <- MCOptionId
    KeyTtl = 1
    UniqueIndex = TRUE
    Viewers = {}
    AdminViewers = {}
SYMMETRY BallotVoterSymmetry
INVARIANTS OneVotePerVoter AcceptedReceiptVerifies DuplicateTruthful ReplayTruthful
PROPERTIES KeepsBallotBox
