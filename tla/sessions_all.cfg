SPECIFICATION Spec
CONSTANTS
    s1 = s1  s2 = s2  r1 = r1  r2 = r2  r3 = r3  q1 = q1  q2 = q2  a1 = a1  a2 = a2
    None = None
    Sessions = {s1}
    Requests = {r1, r2}
    NumSlots = 1
    Codes = {q1}
    Code <- SameCode
    Answers = {a1}
    MaxSeq = 2
    MaxHint = 1
    Threshold = 2
    ClientSources = {"MANUAL"}
    Ops = {"patch", "hint", "violation", "submit", "late", "clock"}
    MayAbort = TRUE
SYMMETRY Symmetric
INVARIANTS TypeOK HintsCharged LatestAnswerWins SeenBeforeSubmitIsGraded
