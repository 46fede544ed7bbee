SPECIFICATION Spec
CONSTANT Frames = 2
INVARIANT FenceHasWork
