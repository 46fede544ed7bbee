\* Two clients and the descriptors of the process; at any time a client has one
\* object of another file at the most.
SPECIFICATION Spec
CONSTANTS
    Clients = {c1, c2}
    Pools = {p1, p2}
    Buffers = {b1, b2, b3}
    Fds = {3, 4}
    Ids = {1, 2, 3}
    MaxOthers = 1
    Nobody = Nobody
SYMMETRY ObjectSymmetry
INVARIANTS
    TypeOK
    FdsAccounted
    BufferFdValid
    HarmNeedsFreedId
