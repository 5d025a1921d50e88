\* Three threads, any of which may lead or call in.
SPECIFICATION FairRTSpec
CONSTANTS
    Threads = {t1, t2, t3}
    NullThread = NullThread
    Strategy = "FIFO"
    Failures = {"timeout"}
    MaxDepth = 2
    PipeCapacity = 2
    MaxNotify = 1
INVARIANTS
    SingleLeader
    NoSilentLeader
PROPERTIES
    WriterGetsIn
