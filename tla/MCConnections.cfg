CONSTANTS
    Fds = {1, 2}
    Svc = {s1, s2}
    None = None
    MaxPending = 1
SPECIFICATION FairSpec
INVARIANTS
    NoLeak
    CallbacksSound
PROPERTIES
    ConnectResolved
