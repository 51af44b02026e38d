\* One process, after a failed append.
SPECIFICATION Spec
CONSTANTS
    Replicas = {r1}
    Ranks = {1, 2}
    MaxJobs = 2
    MaxTime = 1
    Limit = 2
    Faults = TRUE
    MaxEdits = 0
INVARIANTS FailuresAreTheirOwn
