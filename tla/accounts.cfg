CONSTANTS
    Users = {u1}
    Ids = {i1, i2, i3, i4, i5}
    Handlers = {h1, h2}
    MaxAttempts = 3
    MaxSessions = 2
    None = None
    u1 = u1
    i1 = i1
    i2 = i2
    i3 = i3
    i4 = i4
    i5 = i5
    h1 = h1
    h2 = h2
SYMMETRY MCSymmetry
SPECIFICATION Spec
INVARIANTS TypeOK LockTellsAttempts SessionsBounded
PROPERTY NoSessionComesBack
