CONSTANTS
    Classrooms = {c1}
    Students = {s1, s2}
    Guardians = {g1}
    Years = {y1}
    Handlers = {h1, h2}
    Places = 1
    Forms <- MCLastSeat
    Patches <- MCLeave
    Capacities = {}
    None = None
    c1 = c1
    c2 = c2
    s1 = s1
    s2 = s2
    g1 = g1
    g2 = g2
    y1 = y1
    h1 = h1
    h2 = h2
SPECIFICATION Spec
INVARIANT NoOverselling
