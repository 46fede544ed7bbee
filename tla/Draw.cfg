SPECIFICATION ObjectsSpec
CONSTANT Frames = 2
INVARIANTS
    Consistent UsedAreLive FrameIdle NothingInUse FenceHasWorkOnceAcquired
PROPERTY GoneUnused CloseEnds
