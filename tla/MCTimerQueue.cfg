SPECIFICATION FairSpec
CONSTANTS
    max_size = 4
    PreAlloc = 3
    Handlers = {h1, h2}
    Delays = {1}
    Intervals = {0, 1}
    MaxTime = 2
    MaxTimers = 3
    CancelsOwn = FALSE
    None = None
INVARIANT IdsSound
PROPERTIES ImplementsTimerSet DueTimersFire
CHECK_DEADLOCK FALSE
