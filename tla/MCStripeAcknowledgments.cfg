CONSTANTS
    Gifts = {g1, g2, g3}
    Silent = {g3}
    Refundable = {g1, g3}
    Amount = 1
    Workers = {w1, w2}
    MaxAttempts = 2
    NULL = NULL
SYMMETRY Symmetry
SPECIFICATION Spec
INVARIANTS TypeOK AtMostOneMail OnlyCurrentIsOpen
CHECK_DEADLOCK FALSE
