\* An update whose body carries the status.
SPECIFICATION LifecycleSpec
CONSTANTS
    Elections = {e1}
    Managers = {m1}
    Admins = {m1}
    o1 = o1
    o2 = o2
    o3 = o3
    Options = {o1, o2, o3}
    Nobody = Nobody
    NoElection = NoElection
    MaxTime = 1
    MaxVersion = 0
    Bodies <- MCOneBody
    Patches <- MCPatchesWithStatus
    Targets = {"draft", "published", "open", "closed", "archived"}
    Faults = FALSE
PROPERTIES LifecycleLegal
