SPECIFICATION FairSpec
CONSTANTS
    Session = {s1, s2}
    Character = {c1, c2}
    Starter = {p1}
    Limit = 1
    None = None
    Faults = {"abort", "error", "ttl"}
    MaxFaults = 1
    s1 = s1
    s2 = s2
    c1 = c1
    c2 = c2
    p1 = p1
INVARIANT SlotsBounded
PROPERTY LockoutEnds
