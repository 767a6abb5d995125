SPECIFICATION Spec
CONSTANTS
    s1 = s1  s2 = s2  r1 = r1  r2 = r2  r3 = r3  q1 = q1  q2 = q2  a1 = a1  a2 = a2
    None = None
    Sessions = {s1}
    Requests = {r1, r2, r3}
    NumSlots = 2
    Codes = {q1}
    Code <- SameCode
    Answers = {}
    MaxSeq = 1
    MaxHint = 1
    Threshold = 3
    ClientSources = {"MANUAL", "TIMER_EXPIRY"}
    Ops = {"patch", "violation", "submit", "late"}
    MayAbort = TRUE
SYMMETRY Symmetric
INVARIANTS DrainedOnce AnswersAgree ThresholdSubmits OrdersDistinctInSession
PROPERTIES AttemptsFrozen ImplementsSubmitOnce
