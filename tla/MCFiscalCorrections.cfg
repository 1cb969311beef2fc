CONSTANTS
    Ids = {c1, c2, r1, r2}
    Corrections = {c1, c2}
    Runs = {r1, r2}
    Docs = {d1}
    Kinds = {"DIRECT"}
    Deferred = {}
    Tokens = {t1, t2}
    Others = {"TRANSMIT", "INVALIDATE"}
    MaxRetries = 0
    Overlapping = TRUE
    NULL = NULL
SPECIFICATION Spec
SYMMETRY CorrectionSymmetry
INVARIANTS SubmittedIsAccountedFor OneCorrectionAtATime
PROPERTIES LegalSpec
CHECK_DEADLOCK FALSE
