\* One manager opens a poll while another edits it.
SPECIFICATION LifecycleSpec
CONSTANTS
    Elections = {e1}
    Managers = {m1, m2}
    Admins = {m1, m2}
    o1 = o1
    o2 = o2
    o3 = o3
    Options = {o1, o2, o3}
    Nobody = Nobody
    NoElection = NoElection
    MaxTime = 1
    MaxVersion = 0
    Bodies <- MCOneBody
    Patches <- MCRacingPatches
    Targets = {"draft", "published", "open", "closed", "archived"}
    Faults = FALSE
PROPERTIES CriticalFieldsLocked
