CONSTANTS
    Ids = {r1, r2}
    Requests = {q1}
    Emails = {e1, e2}
    NULL = NULL
SPECIFICATION Spec
SYMMETRY PostAcceptSymmetry
INVARIANTS TypeOK AtMostOneReceipt RecipientIsCurrent FinalizedIsComplete
CHECK_DEADLOCK FALSE
