CONSTANTS
    Assignments = {a1, a2}
    ClassroomOf <- MCClassroomOf
    Special = {a2}
    BaseRoom <- MCBaseRoom
    Fixed = TRUE
    Teachers = {t1, t2, t3}
    Spaces = {base, lab}
    Hours = {hour1, hour2}
    Slots = {s1, s2}
    Handlers = {h1, h2}
    None = None
    a1 = a1
    a2 = a2
    c1 = c1
    c2 = c2
    t1 = t1
    t2 = t2
    t3 = t3
    base = base
    lab = lab
    hour1 = hour1
    hour2 = hour2
    s1 = s1
    s2 = s2
    h1 = h1
    h2 = h2
SYMMETRY MCSymmetry
SPECIFICATION Spec
INVARIANTS TypeOK NoDoubleBooking
PROPERTIES ReassignmentMovesTheLessons GradedStays
