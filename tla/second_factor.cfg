\* One account, enrolled or not, and what its user sends at once.
SPECIFICATION Spec
CONSTANTS
    Requests = {r1, r2, r3}
    Initial = Initial
    None = None
    CodeCount = 2
    MaxFailed = 1
    TokenLife = 1
    MaxTime = 1
    UniqueIndex = TRUE
    Faults = TRUE
SYMMETRY OtpRequestSymmetry
INVARIANTS OtpTypeOK OneUsePerToken RecoveryCodeOnce CodesMatchSecret ReplayedTokenUsed
PROPERTIES SecretEnforced
