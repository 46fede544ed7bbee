\* Every kind of message, every failure, signals emitted by main.
CONSTANTS
    Kinds = {"known", "unknown", "introspect", "foreign", "nomember"}
    Failures = {"create", "fd", "poll", "memory"}
    Emits = TRUE
    MaxMessages = 3
SPECIFICATION FairSpec
INVARIANTS Consistent ExcludesUntilUnlock ReleasedOnlyAfterExit AnswerOnce
PROPERTIES EveryCallAnswered StopReturns
