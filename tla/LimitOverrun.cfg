SPECIFICATION Spec
CONSTANTS
    Session = {s1, s2, s3}
    Character = {c1, c2}
    Starter = {p1, p2}
    Limit = 2
    None = None
    Faults = {}
    MaxFaults = 0
    s1 = s1
    s2 = s2
    s3 = s3
    c1 = c1
    c2 = c2
    p1 = p1
    p2 = p2
SYMMETRY Symmetry
INVARIANT SessionLimit
