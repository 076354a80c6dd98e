SPECIFICATION Spec
CONSTANTS
    Threads = {t1, t2}
    Cells = {c1, c2, c3}
    Null = Null
    ALIGN = 2
    BitsPerCell = 2
    CellCount = 3
    Lengths = {0, 1, 4, 5, 7, 8, 9, 13, 16, 17, 31, 32, 40, 63, 64, 65, 100}
    Slice = 2
    OOP_BITS = 2
    POW_BITS = 3
    CHUNK_BITS = 3
    PageSize = 4096
    PhysMem = {134217728, 1073741824}
    Environments <- SizeEnvironments
    MaxPower = 30
    k1 = k1
    k2 = k2
    k3 = k3
    k4 = k4
    Keys = {k1, k2, k3, k4}
    Hash <- Hashes
    Values = {"a", "b"}
    None = None
    DEFAULT_INITIAL_CAPACITY = 4
    MAXIMUM_CAPACITY = 16
    InitialCapacities = {2, 3, 4, 20}
    MaxSize = 4
    Nil = Nil
    Elements = {"a", "b"}
    Uninit = Uninit
    FirstCapacity = 4
    Capacities = {0, 1, 3}
    MaxLen = 5
SYMMETRY Symmetry
CHECK_DEADLOCK FALSE
INVARIANT MapAgrees
