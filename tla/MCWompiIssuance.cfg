CONSTANTS
    Events = {w1}
    Claims = {r1, r2}
    Attempts = {a1, a2}
    MaxRetries = 1
    MaxRequeues = 1
    NULL = NULL
SPECIFICATION FairSpec
INVARIANTS TypeOK OneCdePerPayment ControlNumbersHaveNoGap
PROPERTIES ParkedStaysParked PaymentIsSettled
CHECK_DEADLOCK FALSE
