CONSTANTS
    Ids = {c1, r1, r2}
    Corrections = {c1}
    Runs = {r1, r2}
    Docs = {d1}
    Kinds = {"DIRECT", "PAYMENT"}
    Deferred = {d1}
    Tokens = {t1, t2}
    Others = {"INVALIDATE", "ISSUE"}
    MaxRetries = 0
    Overlapping = FALSE
    NULL = NULL
SPECIFICATION FairSpec
INVARIANTS TypeOK
PROPERTIES VerdictIsOfThisCorrection RequestIsSettled
CHECK_DEADLOCK FALSE
