CONSTANTS
    Ids = {r1, r2}
    Requests = {}
    Emails = {e1}
    NULL = NULL
SPECIFICATION FairSpec
PROPERTY AcceptedIsFinalized
CHECK_DEADLOCK FALSE
