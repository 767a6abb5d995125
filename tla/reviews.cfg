SPECIFICATION FairSpec
CONSTANTS
    w1 = w1  w2 = w2  w3 = w3
    None = None
    NoRow = NoRow
    Writers = {w1, w2, w3}
    Jobs <- MCJobs
    Rows <- MCRows
    JeeAdvanced = TRUE
    ByMean = TRUE
INVARIANTS TypeOK OneSynthetic
PROPERTIES ReviewsArePublished ImportReplaces WritersFinish
CHECK_DEADLOCK FALSE
