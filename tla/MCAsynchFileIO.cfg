SPECIFICATION FairSpec
CONSTANTS
    h1 = h1
    h2 = h2
    Handles = {h1, h2}
    Posts <- FourKinds
    Clients = {c1, c2}
    Workers = {w1, w2}
    max_request_queue_size = 2
    PopNum = 2
    MaxIds = 4
INVARIANTS
    QueueSound
    WorkersWoken
PROPERTIES
    CancelIsFinal
    AllServed
