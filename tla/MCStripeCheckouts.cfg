CONSTANTS
    Requests = {q1}
    Others = {o1}
    Calls = {c1, c2}
    Fingerprints = {f1, f2}
    ClaimIds = {1, 2, 3, 4, 5, 6, 7}
    Limit = 1
    Window = 2
    MaxAttempts = 3
    NULL = NULL
SYMMETRY Symmetry
SPECIFICATION Spec
INVARIANTS TypeOK OneSessionPerDonation AdmittedWithinBudget
CHECK_DEADLOCK FALSE
