CONSTANTS
    Docs = {d1}
    Ids = {r1, r2, r3}
    NULL = NULL
SPECIFICATION FairSpec
INVARIANTS TypeOK AtMostOnePost LedgerAgreesWithMh UncertainStaysClaimed AtMostOneAnulacion
PROPERTIES LegalSpec DeferredIsSettled
CHECK_DEADLOCK FALSE
