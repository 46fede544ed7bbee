SPECIFICATION ClientsSpec
CONSTANTS
    Clients = {c1, c2}
    Structs = {s1, s2, s3}
    Addrs = {a1, a2, a3, a4}
    None = None
SYMMETRY Symmetry
INVARIANTS Consistent WellBehaved Settled
