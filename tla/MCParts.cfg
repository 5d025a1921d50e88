SPECIFICATION AllSpec
CONSTANTS
    Blocks = {b1, b2, b3, b4}
    Nodes = {n1, n2, n3, n4}
    MaxItems = 4
    Batch = 2
    Items = {i1, i2, i3, i4, i5, i6}
    Tids = {t1, t2, t3}
    CronNodes = {n1, n2, n3}
    Callers = {c1, c2}
    MaxNesting = 2
    MaxThreads = 2
    MaxCalls = 2
    IoLength = 3
    IoBytes = 2
    PullLength = 8
    PullChunk = 3
    PullBuff = 3
    PullNotes = 1
    Nil = Nil
INVARIANTS
    ListsSound
    ThreadsSound
    LoggingSound
    PipeHeld
    InStep
    StructuresSound
    TimesExact
PROPERTIES
    ImplementsDeque
    NoStepHarms
    OthersUndisturbed
    TimedCallsReturn
CHECK_DEADLOCK FALSE
