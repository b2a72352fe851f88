SPECIFICATION Spec
CONSTANTS
    Candidate = {c1, c2}
    Question = {q1}
    GuessLimit = 2
    PriorSolves = 48
    SolveScore = 0
    MaxFailed = 1
    ElimQuestions = 3
    RevealQuestions = 5
    EfficientQuestions = 10
    Call = {a, b}
    PriorAsked = 15
    TickSeconds = 600
    MaxElapsed = 600
    MaxBadWrites = 1
    c1 = c1
    c2 = c2
    q1 = q1
    a = a
    b = b
SYMMETRY Symmetry
CHECK_DEADLOCK FALSE
INVARIANT TypeOK
INVARIANT LogIsKey
INVARIANT HonestKeyAccepted
INVARIANT WonOnce
INVARIANT VerdictTold
INVARIANT WaitingIsFree
