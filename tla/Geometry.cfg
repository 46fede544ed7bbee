SPECIFICATION GeometrySpec
CONSTANTS
    MaxInt = 31
    Offsets <- MCOffsets
    Widths <- MCWidths
    Heights <- MCHeights
    Strides <- MCStrides
    PoolSizes <- MCPoolSizes
    FileSizes <- MCFileSizes
    Nothing = Nothing
INVARIANTS
    AcceptedIffFits CopyInPool ShownAsDrawn
