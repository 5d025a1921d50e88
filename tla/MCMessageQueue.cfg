\* Lists of one or two blocks go in; single blocks or pairs come out.
SPECIFICATION FairQueueSpec
CONSTANTS
    Producers = {p1, p2}
    Consumers = {c1, c2}
    high_water_mark = 2
    MaxList = 2
    MaxNumber = 2
    DequeueAll = FALSE
INVARIANTS
    BoundedByMark
    ConsumersWoken
    ProducersWoken
PROPERTIES
    QueueDrains
