CONSTANTS
    Enrollments = {e1, e2}
    Guardians = {g1, g2}
    Forms <- MCForms
    Requests = {q1, q2}
    Handlers = {h1, h2}
    Max = 1
    None = None
    e1 = e1
    e2 = e2
    g1 = g1
    g2 = g2
    q1 = q1
    q2 = q2
    h1 = h1
    h2 = h2
SPECIFICATION FairSpec
INVARIANT TypeOK
PROPERTIES MergesAreWhole LimitIsFinal UpdatesEnd EveryRequestEnds
