CONSTANTS
    Runs = {r1, r2}
    LastFacts = 2
    Settings = {b1, b2}
    MaxRevisions = 4
    None = None
SYMMETRY Symmetry
SPECIFICATION AnnualSpec
INVARIANTS AnnualTypeOK StatementsAddUp
CHECK_DEADLOCK FALSE
