\* FIFO is the default strategy of ndk::token.
SPECIFICATION FairSpec
CONSTANTS
    Threads = {t1, t2, t3}
    NullThread = NullThread
    Strategy = "FIFO"
    Failures = {"timeout", "error"}
    MaxDepth = 2
INVARIANTS
    MutualExclusion
    RunableWhenOwner
    TokenKept
PROPERTIES
    WritersInTurn
