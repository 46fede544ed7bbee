SPECIFICATION FairSpec
CONSTANTS
    Options <- MCOptions
    Files <- MCFiles
    Long = {"long"}
    MaxArgs = 3
    Failures = {"worker", "env", "display", "global", "socket", "bus", "thread"}
    MaxSignals = 3
INVARIANTS Consistent LastWins
PROPERTY ServedSignalStops
