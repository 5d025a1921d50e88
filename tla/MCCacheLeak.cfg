SPECIFICATION Spec
CONSTANTS
    Keys = {k1, k2}
    Objects = {o1, o2, o3}
    Sizes = {1, 2}
    cobj_min_size = 1
    cobj_max_size = 2
    high_water_mark = 3
    low_water_mark = 1
    MaxRefs = 1
INVARIANT ObjectsTracked
