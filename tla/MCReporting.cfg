CONSTANTS
    t1 = t1
    t2 = t2
    t3 = t3
    Tests <- MCTests
    Runnable = {t1, t3}
    State = {"IDLE", "QUEUED", "RUNNING", "PASS", "FAIL", "TIMEOUT", "SKIP"}
    MaxAttempts = 2
    Collector = {c1, c2}
    MaxResults = 2
    NULL = NULL

SPECIFICATION Spec
SYMMETRY MCSymmetry

INVARIANTS
    TypeOK
    SummaryIsOfResults
    SuccessMeansAllPassed
