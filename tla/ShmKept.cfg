SPECIFICATION Spec
CONSTANTS
    Clients = {c1}
    Pools = {p1}
    Buffers = {b1}
    Fds = {3}
    Ids = {1, 2}
    MaxOthers = 1
    Nobody = Nobody
PROPERTY MemoryKept
