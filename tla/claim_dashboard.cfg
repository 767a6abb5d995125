SPECIFICATION Spec
CONSTANTS
    c1 = c1  c2 = c2  s1 = s1  s2 = s2
    Ids = {s1, s2}
    Callers = {c1, c2}
    Assignments <- TwoWays
    Duration = 1
    Grace = 1
    Day = 1
    MaxTime = 2
    Answers = {a1}
    NoTime = NoTime
    NoRow = NoRow
    NoAnswer = NoAnswer
    NoId = NoId
SYMMETRY Symmetric
CHECK_DEADLOCK FALSE
INVARIANT ActiveIsShown
