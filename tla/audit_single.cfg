\* One process, a database that fails, restarts, edits behind its back.
SPECIFICATION FairSpec
CONSTANTS
    Replicas = {r1}
    Ranks = {1, 2}
    MaxJobs = 4
    MaxTime = 1
    Limit = 3
    Faults = TRUE
    MaxEdits = 2
INVARIANTS AuditTypeOK UntouchedLogVerifies ChainNeverForks RequestOrderKept PastIsSealed
PROPERTIES EveryAppendSettles
