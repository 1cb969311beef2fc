SPECIFICATION AccSpec
CONSTANTS
    c1 = c1
    c2 = c2
    e1 = e1
    e2 = e2
    t1 = t1
    t2 = t2
    m1 = m1
    m2 = m2
    Calls <- MCCalls
    Emails <- MCEmails
    Tokens <- MCTokens
    Challenges <- MCChallenges
    MaxEpoch = 1
    MaxGeneration = 2
    MaxSessions = 1
    MaxWrong = 1
    None = None
SYMMETRY MCSymmetry
INVARIANTS
    AccTypeOK
    AccessIsCurrent
PROPERTIES
    EditsAreExact
