------------------------------- MODULE Logger -------------------------------
(***************************************************************************)
(* src/src/logger.c and the calls src/src/main.c makes of it: threads that *)
(* log, the worker that drains the ring, a signal handler that raises the  *)
(* shutdown flag, and logger_cleanup, which the main thread calls and      *)
(* which process_message calls for a FATAL message, on whatever thread     *)
(* processes it.                                                           *)
(*                                                                         *)
(* One step is one access to what threads share; a critical section of     *)
(* g_log_mutex is one step (LogQueue).  A step whose outcome the C         *)
(* language leaves undefined sets fault, and the process is followed no    *)
(* further.                                                                *)
(***************************************************************************)
EXTENDS LogQueue, FiniteSets, SequencesExt

CONSTANTS Main,         \* the thread that runs main()
          Worker,       \* worker_thread
          Producers,    \* the other threads that log (the D-Bus thread)
          Fatal,        \* the messages of level LOG_LEVEL_FATAL
          Silent,       \* the messages below g_config.level
          AsyncEnabled, LogToFile, LogToConsole,        \* g_config, as read
          Signals       \* whether SIGINT or SIGTERM may arrive

Callers == Producers \cup {Main}
Threads == Callers \cup {Worker}

ASSUME ThreadAssumption == /\ Main # Worker
                           /\ {Main, Worker} \cap Producers = {}
ASSUME LevelAssumption == /\ Fatal \subseteq Message
                          /\ Silent \subseteq Message
                          /\ Fatal \cap Silent = {}
ASSUME ConfigAssumption == {AsyncEnabled, LogToFile, LogToConsole, Signals}
                              \subseteq BOOLEAN

VARIABLES pc,           \* where each thread is
          msg,          \* the message each thread is busy with
          initialized,  \* g_logger_initialized
          graceful,     \* g_logger_graceful_shutdown
          running,      \* g_worker_running
          async,        \* g_config.async_enabled after logger_init
          logFile,      \* g_log_file: "none" (NULL), "open", or "closed" and not yet NULL
          handler,      \* whether main has installed its signal handler
          console,      \* what was printed, in order
          fileLog,      \* what was written to the file, in order
          status,       \* "running", or how the process ended
          fault         \* "none", or the undefined behaviour that was reached

(* History, read by no step: the messages each thread logged, the messages *)
(* enqueue_message accepted, and those it refused, in order.               *)
VARIABLES called, accepted, refused

shared == <<initialized, graceful, running, async, logFile>>
output == <<console, fileLog>>
process == <<handler, status, fault>>
history == <<called, accepted, refused>>
vars == <<queueVars, pc, msg, shared, output, process, history>>

ElementsOf(s) == {s[i] : i \in DOMAIN s}
Fresh == Message \ UNION {ElementsOf(called[t]) : t \in Threads}
Quiet(t) == pc[t] \in {"unborn", "exited"}

Move(t, from, to) == pc[t] = from /\ pc' = [pc EXCEPT ![t] = to]
Jump(t, from, to) == /\ Move(t, from, to)
                     /\ UNCHANGED <<queueVars, msg, shared, output, process, history>>

Init == /\ QueueInit
        /\ pc = [t \in Threads |-> IF t = Main THEN "start" ELSE "unborn"]
        /\ msg = [t \in Threads |-> NoMessage]
        /\ initialized = FALSE /\ graceful = FALSE /\ running = FALSE
        /\ async = FALSE /\ logFile = "none"
        /\ console = <<>> /\ fileLog = <<>>
        /\ handler = FALSE /\ status = "running" /\ fault = "none"
        /\ called = [t \in Threads |-> <<>>]
        /\ accepted = <<>> /\ refused = <<>>

-----------------------------------------------------------------------------
(* main: logger_init, which ends by logging a line of its own, the signal  *)
(* handler, the other threads, the return.  fopen and pthread_create may   *)
(* fail.                                                                   *)
LoggerInit ==
    /\ logFile' \in IF LogToFile THEN {"open", "none"} ELSE {"none"}
    /\ async' \in IF AsyncEnabled THEN BOOLEAN ELSE {FALSE}
    /\ running' = AsyncEnabled
    /\ initialized' = TRUE
    /\ pc[Main] = "start"
    /\ pc' = [pc EXCEPT ![Main] = "announce",
                        ![Worker] = IF async' THEN "loop" ELSE @]
    /\ UNCHANGED <<queueVars, msg, graceful, output, process, history>>

InstallHandler == /\ pc[Main] = "idle" /\ ~handler
                  /\ handler' = TRUE
                  /\ UNCHANGED <<queueVars, pc, msg, shared, output, status,
                                 fault, history>>

Signal == /\ Signals /\ handler /\ ~graceful
          /\ graceful' = TRUE
          /\ UNCHANGED <<queueVars, pc, msg, initialized, running, async,
                         logFile, output, process, history>>

StartThread(p) == pc[Main] = "idle" /\ Jump(p, "unborn", "idle")

StopThread(p) == Jump(p, "idle", "exited")

(* main calls logger_cleanup before it has started the D-Bus thread or     *)
(* after dbus_server_cleanup has seen it gone.                             *)
MainCleanup == /\ \A p \in Producers : Quiet(p)
               /\ Jump(Main, "idle", "cleanup")

MainReturn == /\ ~initialized
              /\ \A p \in Producers : Quiet(p)
              /\ Move(Main, "idle", "exited")
              /\ status' = "success"
              /\ UNCHANGED <<queueVars, msg, shared, output, handler, fault, history>>

-----------------------------------------------------------------------------
(* logger_log.  Only main logs FATAL, while it starts up.                  *)
LogCall(t, m) ==
    /\ pc[t] \in {"idle", "announce"}
    /\ m \in Fatal => /\ t = Main /\ pc[t] = "idle"
                      /\ \A p \in Producers : pc[p] = "unborn"
    /\ IF initialized /\ m \notin Silent
       THEN /\ pc' = [pc EXCEPT ![t] = IF async THEN "offer" ELSE "console"]
            /\ msg' = [msg EXCEPT ![t] = m]
            /\ called' = [called EXCEPT ![t] = Append(@, m)]
       ELSE /\ pc' = [pc EXCEPT ![t] = "idle"]
            /\ UNCHANGED <<msg, called>>
    /\ UNCHANGED <<queueVars, shared, output, process, accepted, refused>>

(* enqueue_message looks at the flag before it takes the mutex.            *)
Offer(t) ==
    /\ Move(t, "offer", IF graceful THEN "console" ELSE "admit")
    /\ refused' = IF graceful THEN Append(refused, msg[t]) ELSE refused
    /\ UNCHANGED <<queueVars, msg, shared, output, process, called, accepted>>

Admit(t) ==
    /\ Put(msg[t])
    /\ Move(t, "admit", "idle")
    /\ msg' = [msg EXCEPT ![t] = NoMessage]
    /\ accepted' = Append(accepted, msg[t])
    /\ UNCHANGED <<shared, output, process, called, refused>>

OverflowDrops(t) == Full /\ Jump(t, "admit", "idle")    \* mutant: dropped, not written

Overflow(t) ==
    /\ Full
    /\ Move(t, "admit", "console")
    /\ refused' = Append(refused, msg[t])
    /\ UNCHANGED <<queueVars, msg, shared, output, process, called, accepted>>

-----------------------------------------------------------------------------
(* process_message: the console, the file (tested, then used), and for a   *)
(* FATAL message logger_cleanup and exit.                                  *)
WriteConsole(t) ==
    /\ Move(t, "console", "file")
    /\ console' = IF LogToConsole THEN Append(console, msg[t]) ELSE console
    /\ UNCHANGED <<queueVars, msg, shared, fileLog, process, history>>

(* Mutant: FATAL is a level like the others. *)
WrittenGoesOn(t) ==
    /\ pc' = [pc EXCEPT ![t] = IF t = Worker THEN "loop" ELSE "idle"]
    /\ msg' = [msg EXCEPT ![t] = NoMessage]

Written(t) ==
    IF msg[t] \in Fatal
    THEN /\ pc' = [pc EXCEPT ![t] = "cleanup"]
         /\ UNCHANGED msg
    ELSE /\ pc' = [pc EXCEPT ![t] = IF t = Worker THEN "loop" ELSE "idle"]
         /\ msg' = [msg EXCEPT ![t] = NoMessage]

TestFile(t) ==
    /\ pc[t] = "file"
    /\ IF logFile = "none" THEN Written(t)
       ELSE Move(t, "file", "fprintf") /\ UNCHANGED msg
    /\ UNCHANGED <<queueVars, shared, output, process, history>>

WriteFile(t) ==
    /\ pc[t] = "fprintf"
    /\ IF logFile = "open"
       THEN /\ fileLog' = Append(fileLog, msg[t])
            /\ Written(t)
            /\ UNCHANGED fault
       ELSE /\ fault' = "write to a closed log file"
            /\ UNCHANGED <<fileLog, pc, msg>>
    /\ UNCHANGED <<queueVars, shared, console, handler, status, history>>

-----------------------------------------------------------------------------
(* worker_thread.  The loop condition and the empty case read the flags    *)
(* without the mutex.                                                      *)
WorkerLoop == Jump(Worker, "loop", IF running \/ size # 0 THEN "take" ELSE "exited")

WorkerTake ==
    /\ Take
    /\ Move(Worker, "take", "console")
    /\ msg' = [msg EXCEPT ![Worker] = handed']
    /\ UNCHANGED <<shared, output, process, history>>

WorkerEmpty == size = 0 /\ Jump(Worker, "take", "empty")

WorkerLeaves == Jump(Worker, "empty", "exited")    \* mutant: an empty queue ends it

WorkerIdle == Jump(Worker, "empty", IF graceful THEN "exited" ELSE "loop")

-----------------------------------------------------------------------------
(* logger_cleanup.  It returns to main, or to process_message, which then  *)
(* ends the process.                                                       *)
CleanupReturn(t) ==
    IF msg[t] = NoMessage
    THEN /\ pc' = [pc EXCEPT ![t] = "idle"]
         /\ UNCHANGED status
    ELSE /\ pc' = [pc EXCEPT ![t] = "exited"]
         /\ status' = "failure"

CleanupEnter(t) ==
    /\ pc[t] = "cleanup"
    /\ IF initialized THEN Move(t, "cleanup", "raise") /\ UNCHANGED status
       ELSE CleanupReturn(t)
    /\ UNCHANGED <<queueVars, msg, shared, output, handler, fault, history>>

CleanupRaise(t) ==
    /\ Move(t, "raise", "stop?")
    /\ graceful' = TRUE
    /\ UNCHANGED <<queueVars, msg, initialized, running, async, logFile,
                   output, process, history>>

CleanupTest(t) == Jump(t, "stop?", IF async /\ running THEN "stop" ELSE "close?")

CleanupStop(t) ==
    /\ Move(t, "stop", "join")
    /\ running' = FALSE
    /\ UNCHANGED <<queueVars, msg, initialized, graceful, async, logFile,
                   output, process, history>>

(* Mutant: the worker is not waited for. *)
CleanupDetach(t) == Jump(t, "join", "close?")

(* pthread_join waits for the worker; called by the worker it fails at     *)
(* once (EDEADLK) and its result is not looked at.                         *)
CleanupJoin(t) == /\ t = Worker \/ pc[Worker] = "exited"
                  /\ Jump(t, "join", "close?")

CleanupTestFile(t) == Jump(t, "close?", IF logFile = "none" THEN "uninit" ELSE "fclose")

CleanupClose(t) ==
    /\ pc[t] = "fclose"
    /\ IF logFile = "open"
       THEN /\ logFile' = "closed"
            /\ Move(t, "fclose", "clear")
            /\ UNCHANGED fault
       ELSE /\ fault' = "log file closed twice"
            /\ UNCHANGED <<logFile, pc>>
    /\ UNCHANGED <<queueVars, msg, initialized, graceful, running, async,
                   output, handler, status, history>>

CleanupClear(t) ==
    /\ Move(t, "clear", "uninit")
    /\ logFile' = "none"
    /\ UNCHANGED <<queueVars, msg, initialized, graceful, running, async,
                   output, process, history>>

CleanupUninit(t) ==
    /\ Move(t, "uninit", "lower")
    /\ initialized' = FALSE
    /\ UNCHANGED <<queueVars, msg, graceful, running, async, logFile,
                   output, process, history>>

CleanupLower(t) ==
    /\ pc[t] = "lower"
    /\ graceful' = FALSE
    /\ CleanupReturn(t)
    /\ UNCHANGED <<queueVars, msg, initialized, running, async, logFile,
                   output, handler, fault, history>>

-----------------------------------------------------------------------------
Process(t) == WriteConsole(t) \/ TestFile(t) \/ WriteFile(t)

Cleanup(t) == \/ CleanupEnter(t) \/ CleanupRaise(t) \/ CleanupTest(t)
              \/ CleanupStop(t) \/ CleanupJoin(t) \/ CleanupTestFile(t)
              \/ CleanupClose(t) \/ CleanupClear(t) \/ CleanupUninit(t)
              \/ CleanupLower(t)

(* A thread inside the logger. *)
Inside(t) == Offer(t) \/ Admit(t) \/ Overflow(t) \/ Process(t) \/ Cleanup(t)

WorkerStep == WorkerLoop \/ WorkerTake \/ WorkerEmpty \/ WorkerIdle
                \/ Process(Worker) \/ Cleanup(Worker)

MainStep == LoggerInit \/ InstallHandler \/ MainCleanup \/ MainReturn

Alive == status = "running" /\ fault = "none"
Ended == ~Alive /\ UNCHANGED vars

Next == \/ Alive /\ (MainStep \/ Signal \/ WorkerStep)
        \/ Alive /\ \E p \in Producers : StartThread(p) \/ StopThread(p)
        \/ Alive /\ \E t \in Callers : Inside(t) \/ \E m \in Fresh : LogCall(t, m)
        \/ Ended

Spec == Init /\ [][Next]_vars

(* Threads inside the logger are scheduled; whether anybody calls it, and  *)
(* whether a signal comes, is open.                                        *)
Fairness == /\ WF_vars(Alive /\ WorkerStep)
            /\ \A t \in Callers : WF_vars(Alive /\ Inside(t))

FairSpec == Spec /\ Fairness

-----------------------------------------------------------------------------
Locations == {"unborn", "exited", "start", "announce", "idle", "offer", "admit",
              "console", "file", "fprintf", "loop", "take", "empty", "cleanup",
              "raise", "stop?", "stop", "join", "close?", "fclose", "clear",
              "uninit", "lower"}

(* Every variable keeps its range, the ring its shape (LogQueue), and a    *)
(* thread holds a message exactly while it is handing it over or writing   *)
(* it (the local log_message_t of logger_log and worker_thread).           *)
TypeOK ==
    /\ QueueTypeOK
    /\ pc \in [Threads -> Locations]
    /\ msg \in [Threads -> Message \cup {NoMessage}]
    /\ initialized \in BOOLEAN /\ graceful \in BOOLEAN /\ running \in BOOLEAN
    /\ async \in BOOLEAN /\ handler \in BOOLEAN
    /\ logFile \in {"none", "open", "closed"}
    /\ console \in Seq(Message) /\ fileLog \in Seq(Message)
    /\ accepted \in Seq(Message) /\ refused \in Seq(Message)
    /\ called \in [Threads -> Seq(Message)]
    /\ status \in {"running", "success", "failure"}
    /\ fault \in {"none", "write to a closed log file", "log file closed twice"}
    /\ \A t \in Threads : pc[t] \in {"offer", "admit", "console", "file", "fprintf"}
                             => msg[t] \in Message

(* The messages that reach the console through the queue reach it in the   *)
(* order in which enqueue_message accepted them, each once and with none   *)
(* left out (logger.c, lines 77-112 and 167-185).                          *)
QueuedInOrder ==
    LogToConsole =>
      /\ IsInjective(console)
      /\ \A k \in DOMAIN console, j \in DOMAIN accepted :
           console[k] = accepted[j] =>
             \A i \in 1 .. j - 1 : \E h \in 1 .. k - 1 : console[h] = accepted[i]

(* The calls of t before its j-th that are not among the first k lines.    *)
Overtaken(t, j, k) == {i \in 1 .. j - 1 : \A h \in 1 .. k : console[h] # called[t][i]}

(* A message is printed before an earlier one of the same thread only if   *)
(* it was refused by the queue (logger.c:270-273), and it then overtakes   *)
(* at most a full queue and the message the worker has in hand.            *)
BoundedOvertaking ==
    LogToConsole =>
    \A t \in Callers : \A j \in DOMAIN called[t], k \in DOMAIN console :
      called[t][j] = console[k] =>
        /\ Overtaken(t, j, k) # {} => called[t][j] \in ElementsOf(refused)
        /\ Cardinality(Overtaken(t, j, k)) <= Capacity + 1

(* Messages come out in the order they were logged in, but for those that a*)
(* full queue sent past the others (logger.c:77-112, 167-185, 270-273).    *)
PrintedInOrder == QueuedInOrder /\ BoundedOvertaking

Logged == UNION {ElementsOf(called[t]) : t \in Threads}

(* A FATAL message was handed to the worker. *)
FatalQueued == async /\ Fatal \cap Logged # {}

(* What the worker took and has not put in a log that it writes at l.      *)
InHand(l) == IF pc[Worker] = l THEN <<msg[Worker]>> ELSE <<>>
Complete(log) == /\ IsInjective(log)
                 /\ ElementsOf(log) = Logged

(* When main returns, each message that any thread logged was printed once *)
(* (and written once to the log file, if one was open), or is still in the *)
(* ring or the worker's hand: none is lost or doubled between the ring, the*)
(* worker and the threads that write for themselves, whenever a signal     *)
(* comes (logger.c, enqueue_message to logger_cleanup).  A FATAL message   *)
(* that the worker prints closes the file under the others.                *)
Accounted ==
    status = "success" =>
      /\ LogToConsole => Complete(console \o InHand("console") \o Contents)
      /\ fileLog # <<>> /\ ~FatalQueued => Complete(fileLog \o Contents)

(* The log file is never written after fclose and never closed twice,      *)
(* although write_to_file and logger_cleanup test g_log_file and use it in *)
(* two steps (logger.c:116-121, 238-240).  A FATAL message that the worker *)
(* prints is the exception: the worker cleans up while others still log.   *)
NoFault == FatalQueued \/ fault = "none"

(* Without a worker the thread that logs FATAL logs nothing afterwards:    *)
(* the process ends in that call (main.c:61, "Aborting."), and by then     *)
(* each message before it and the FATAL one itself were printed.           *)
FatalIsLast ==
    ~async =>
      /\ \A t \in Callers : \A i \in 1 .. Len(called[t]) - 1 :
            called[t][i] \notin Fatal
      /\ status = "failure" /\ LogToConsole => ElementsOf(console) = Logged

(* However the process ends, what was logged is accounted for.             *)
AllPrinted == Accounted /\ FatalIsLast

(* An accepted message is eventually printed, unless a shutdown begins or  *)
(* the process ends first: no wake-up can be missed by the worker, which   *)
(* polls (logger.c:170-182).                                               *)
AcceptedIsWritten ==
    \A m \in Message : m \in ElementsOf(accepted)
                          ~> \/ m \in ElementsOf(console)
                             \/ graceful \/ ~initialized \/ ~Alive

(* A FATAL message that reaches the console ends the process, whoever      *)
(* prints it, although the worker then asks to join itself                 *)
(* (logger.c:159-162, 234).                                                *)
FatalEnds ==
    \A m \in Fatal : m \in ElementsOf(console) ~> ~Alive
=============================================================================
