CONSTANTS
    Handles = {1, 2}
    Handlers = {"a", "b"}
    NoEh = NoEh
    Absent = Absent
    Nodes = {1, 2, 3, 4, 5, 6}
    Masks <- MCMasks
    MaxDispatch = 1
    MaxDepth = 2
    MaxFuel = 1
SPECIFICATION Spec
CHECK_DEADLOCK FALSE
INVARIANT Agreement
INVARIANT NoDangling
PROPERTY LeftoversKept
