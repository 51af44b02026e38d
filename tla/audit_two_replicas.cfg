\* Two processes, nothing fails, nobody edits.
SPECIFICATION Spec
CONSTANTS
    Replicas = {r1, r2}
    Ranks = {1, 2}
    MaxJobs = 2
    MaxTime = 1
    Limit = 2
    Faults = FALSE
    MaxEdits = 0
INVARIANTS UntouchedLogVerifies
