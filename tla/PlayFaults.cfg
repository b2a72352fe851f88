SPECIFICATION FairSpec
CONSTANTS
    Candidate = {c1, c2}
    Question = {q1}
    GuessLimit = 1
    PriorSolves = 9
    SolveScore = 1000
    MaxFailed = 0
    ElimQuestions = 2
    RevealQuestions = 1
    EfficientQuestions = 1
    Session = {s1}
    Request = {r1, r2}
    None = None
    MaxTries = 2
    AutomationSolves = 1
    PriorMilestones = {"M1", "M2", "M3", "M4", "S1", "S2", "S3"}
    Faults = {"abort", "error", "lease"}
    MaxFaults = 1
    c1 = c1
    c2 = c2
    q1 = q1
    s1 = s1
    r1 = r1
    r2 = r2
INVARIANT BoardAgrees
PROPERTY LockNotStolen
PROPERTY RequestsEnd
PROPERTY LocksFreed
PROPERTY SolveReachesTeam
