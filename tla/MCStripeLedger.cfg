CONSTANTS
    Workers = {w1, w2}
    Histories = {"card", "ach", "bounced", "expired", "monthly", "canceled", "overtaken"}
    MaxFaults = 2
    NULL = NULL
SYMMETRY Symmetry
SPECIFICATION Spec
INVARIANTS TypeOK CheckoutIsOfNewest ProcessedIsDone
CHECK_DEADLOCK FALSE
