SPECIFICATION FairSpec
CONSTANTS
    MaxSignals = 3
    Extents = {1, 2}
    Failures = TRUE
INVARIANTS Consistent RightApart
PROPERTY EachShown
