\* Registrations, resends and visits of one address, whatever fails.
SPECIFICATION Spec
CONSTANTS
    Requests = {r1, r2, r3, r4}
    Nobody = Nobody
    MaxTime = 1
    Lifetime = 1
    UniqueIndex = TRUE
    Faults = TRUE
SYMMETRY RequestSymmetry
INVARIANTS EmailTypeOK OneRegistration UsedLinkVerified UsedTruthful SomeLinkWorks
