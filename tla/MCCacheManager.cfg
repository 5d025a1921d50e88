SPECIFICATION Spec
CONSTANTS
    Keys = {k1, k2, k3}
    Objects = {o1, o2, o3, o4, o5}
    Sizes = {1, 3}
    cobj_min_size = 1
    cobj_max_size = 3
    high_water_mark = 4
    low_water_mark = 2
    MaxRefs = 2
SYMMETRY KeysAndObjects
INVARIANTS
    HeldAlive
    BooksAgree
