\* Two managers of one poll on one process whose database fails and which may die.
SPECIFICATION AuditedFairSpec
CONSTANTS
    Elections = {e1}
    Managers = {m1, m2}
    Admins = {m1}
    o1 = o1
    o2 = o2
    o3 = o3
    Options = {o1, o2, o3}
    Nobody = Nobody
    NoElection = NoElection
    MaxTime = 1
    MaxVersion = 0
    Bodies <- MCOneBody
    Patches <- MCReplacements
    Targets = {}
    Faults = TRUE
    Server = Server
    Ranks = {1}
    MaxJobs = 3
INVARIANTS AckedMoveAudited LoggedStatusReached
PROPERTIES NoLostOptions EveryRequestEnds
