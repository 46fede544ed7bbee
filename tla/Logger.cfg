\* Main, one more thread and the worker share a ring of two; a FATAL message, a
\* signal at any point, and a worker that may not be created.
CONSTANTS
    NoMessage = NoMessage
    Main = main
    Worker = worker
    Producers = {dbus}
    LogToFile = TRUE
    LogToConsole = TRUE
    Capacity = 2
    Message = {m1, m2, f}
    Fatal = {f}
    Silent = {}
    AsyncEnabled = TRUE
    Signals = TRUE
SPECIFICATION FairSpec
INVARIANTS TypeOK PrintedInOrder AllPrinted NoFault
PROPERTIES ImplementsFifo AcceptedIsWritten FatalEnds
