SPECIFICATION FairPushSpec
CONSTANTS
  Clients = {c1, c2}
  Requests <- MCRequests
  FileLen = 4
  Block = 2
  Packet = 2
  Quantum = 1
  MaxBudget = 1
  Concurrency = 1
  PipeSize = 1
INVARIANTS
    ServedRight
    UsesTheLiving
PROPERTIES
    Released
CHECK_DEADLOCK FALSE
