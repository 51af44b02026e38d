\* One manager at a time, a database that fails and processes that die.
SPECIFICATION LifecycleSpec
CONSTANTS
    Elections = {e1}
    Managers = {m1}
    Admins = {m1}
    o1 = o1
    o2 = o2
    o3 = o3
    Options = {o1, o2, o3}
    Nobody = Nobody
    NoElection = NoElection
    MaxTime = 2
    MaxVersion = 0
    Bodies <- MCBodies
    Patches <- MCPatches
    Targets = {"draft", "published", "open", "closed", "archived"}
    Faults = TRUE
INVARIANTS LifecycleTypeOK StoredElectionsValid TrailTruthful
PROPERTIES LifecycleLegal CriticalFieldsLocked
