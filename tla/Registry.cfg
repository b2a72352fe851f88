SPECIFICATION Spec
CONSTANTS
    Team = {t1, t2}
    Name = {n1}
    Session = {s1}
    Signer = {p1, p2}
    Deleter = {d1, d2}
    Reader = {r1}
    None = None
    Nameless = Nameless
    MaxDebug = 2
    t1 = t1
    t2 = t2
    n1 = n1
    p1 = p1
    p2 = p2
    d1 = d1
    d2 = d2
    r1 = r1
    s1 = s1
SYMMETRY Symmetry
INVARIANT TypeOK
INVARIANT NameOwned
INVARIANT BoardNeverNull
INVARIANT DeletedForGood
