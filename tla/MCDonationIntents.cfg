CONSTANTS
    Requests = {r1, r2}
    Cron = cron
    Orders = {o1, o2}
    MaxFailures = 2
    NULL = NULL
SPECIFICATION Spec
SYMMETRY Symmetry
INVARIANTS TypeOK OneWayToPay PaymentIsInSight
CHECK_DEADLOCK FALSE
