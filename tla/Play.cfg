SPECIFICATION Spec
CONSTANTS
    Candidate = {c1, c2}
    Question = {q1}
    GuessLimit = 2
    PriorSolves = 10
    SolveScore = 1000
    MaxFailed = 0
    ElimQuestions = 1
    RevealQuestions = 1
    EfficientQuestions = 0
    Session = {s1, s2}
    Request = {r1, r2}
    None = None
    MaxTries = 1
    AutomationSolves = 2
    PriorMilestones = {"M1", "M2", "M3", "S1", "S3"}
    Faults = {"abort"}
    MaxFaults = 1
    c1 = c1
    c2 = c2
    q1 = q1
    s1 = s1
    s2 = s2
    r1 = r1
    r2 = r2
SYMMETRY FullSymmetry
INVARIANT TypeOK
INVARIANT LockExclusion
INVARIANT SolveCreditedOnce
INVARIANT OpenSessionsCounted
INVARIANT SolveBeforeMilestones
INVARIANT ScoreAccounting
INVARIANT TeamAgreesWithSessions
PROPERTY ResultFinal
PROPERTY DecisionsStable
