SPECIFICATION Spec
CONSTANTS
    Threads = {t1, t2, t3}
    NullThread = NullThread
    Strategy = "FIFO"
    Failures = {"timeout", "error"}
    MaxDepth = 2
INVARIANT ExclusionAlways
