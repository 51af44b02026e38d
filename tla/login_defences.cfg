\* Three clients of one address, a voter's and an administrator's account.
SPECIFICATION Spec
SYMMETRY ClientsAlike
CONSTANTS
    Clients = {c1, c2, c3}
    Accounts = {voter, admin}
    Admins = {admin}
    WithOtp = {admin}
    Anyone = Anyone
    MaxFailedAttempts = 2
    AdminMinimum = 1
    Window = 1
    LockMax = 2
    EVENT_WEIGHTS <- MCWeights
    Decay = 1
    Medium = 10
    High = 15
    Critical = 20
    BlockDuration = 2
    Unfamiliar = {0}
    MaxArrivals = 4
    LastArrival = 5
    Time = {1, 2, 5}
    Faults = TRUE
INVARIANTS DefencesTypeOK LocksAreEarned RiskMatchesEvents
PROPERTIES GuessesRationed LocksHold FailureNeverShortensLock
