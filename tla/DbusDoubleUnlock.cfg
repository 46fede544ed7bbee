\* Expected to fail: a handler is called, and main holds the mutex after it.
CONSTANTS
    Kinds = {"known", "unknown"}
    Failures = {}
    Emits = FALSE
    MaxMessages = 2
SPECIFICATION Spec
INVARIANT MutualExclusion
