---------------------------- MODULE Engine_proofs ----------------------------
(***************************************************************************)
(* The life of the process, for every command line, every configuration    *)
(* file, whatever call of the start fails, and whenever signals come: what *)
(* main relies on is there, what it gave back is gone, and the second      *)
(* signal or a failed call is the first that can do harm.  And what was    *)
(* set last, on the command line or in a file it names, is what counts.    *)
(***************************************************************************)
EXTENDS Engine, TLAPS

-----------------------------------------------------------------------------
(* The configuration keeps its types.  A file that is being read is the one*)
(* that the argument at i names.                                           *)
ConfigRecord == [level : Levels, use_colors : BOOLEAN, log_to_file : BOOLEAN,
                 log_to_console : BOOLEAN, async_enabled : BOOLEAN,
                 flush_immediately : BOOLEAN, log_file_path : Texts,
                 startup_cmd : Given \cup {Missing}]
ConfigInv == /\ args \in Seq(Options)
             /\ i \in 1 .. Len(args) + 1
             /\ cfg \in ConfigRecord
             /\ exited \in BOOLEAN
             /\ line \in Nat
             /\ line # 0 => /\ i \in 1 .. Len(args)
                            /\ args[i].value \in DOMAIN Files
                            /\ line \in 1 .. Len(Lines) + 1

(* Where main is before the handlers are there, where they are, and what   *)
(* comes after the display has begun to serve.                             *)
Installed == {"socket", "bus", "thread", "run", "serving", "clean_bus", "destroy",
              "clear", "clean_logger"}
Leaving == {"clean_bus", "destroy", "clear", "clean_logger"}

(* What is there at each step of main.                                     *)
Present ==
    /\ pc \in Installed => handlers = TRUE
    /\ handlers = TRUE => pc \in Installed \cup {"exited"}
    /\ pc \in {"env", "init", "init_null", "global", "handlers", "socket",
               "serving", "clean_bus", "destroy", "clear", "clean_logger"}
          => logger = "on"
    /\ pc \in {"args", "env", "init"} => display = "null"
    /\ pc \in {"global", "handlers", "socket", "serving", "clean_bus", "destroy"}
          => display = "live"
    /\ pc \in {"bus", "thread", "run"}
          => \/ display = "live" /\ logger = "on"
             \/ display = "dangling" /\ logger = "closed"
    /\ pc = "clear" => display = "dangling"
    /\ pc = "clean_logger" => display = "null"
    /\ pc \in {"args", "env", "init", "init_null", "global", "handlers", "socket", "bus"}
          => bus = "none"
    /\ pc = "thread" => bus = "live" \/ (bus = "none" /\ logger = "closed")
    /\ pc \in {"run", "serving", "clean_bus"} /\ display = "live" => bus = "live"
    /\ pc \in {"destroy", "clear", "clean_logger"} => bus = "freed"

(* What a FATAL message, and what the signals, say of where main is.       *)
Told == /\ pc \in {"args", "env"} => doomed = FALSE
        /\ pc = "init_null" => doomed = TRUE
        /\ pc \in Leaving => Len(signals) >= 1
        /\ pc = "serving" /\ run = FALSE => Len(signals) >= 1
        /\ display = "dangling" => logger = "closed" \/ Len(signals) >= 1
        /\ CameWhile("serving") => pc \in Leaving \cup {"serving", "exited"}

Typed == /\ pc \in Pcs
         /\ display \in {"null", "live", "dangling"}
         /\ run \in BOOLEAN /\ globalServer \in BOOLEAN /\ handlers \in BOOLEAN
         /\ bus \in {"none", "live", "freed"} /\ ref = bus
         /\ logger \in {"off", "on", "closed"} /\ async \in BOOLEAN
         /\ graceful \in BOOLEAN /\ doomed \in BOOLEAN
         /\ fault \in {"none", "no display", "no bus", "no socket", "display destroyed"}
Signalled == signals \in Seq(Pcs \ {"exited"}) /\ Len(signals) <= MaxSignals
Course == Typed /\ Present /\ Told /\ EndsClean /\ SafeUntilFailure /\ FatalStopsMain

EngineInv == ConfigInv /\ Signalled /\ Course

-----------------------------------------------------------------------------
(* What the parsers return.                                                *)
LEMMA Parsed ==
    /\ \A v : parse_log_level(v) \in Levels
    /\ \A v : parse_boolean(v) \in BOOLEAN
    /\ \A v \in Texts : Copied(v) \in Texts
<1>1. \A v : parse_log_level(v) \in Levels
  BY DEF parse_log_level, Levels
<1>2. \A v : parse_boolean(v) \in BOOLEAN
  BY DEF parse_boolean
<1>3. \A v \in Texts : Copied(v) \in Texts
  BY DEF Copied, Texts
<1>q. QED BY <1>1, <1>2, <1>3

LEMMA DefaultsAreTyped == Defaults \in ConfigRecord
<1>1. Plain("application.log") \in Texts
  BY DEF Plain, Texts
<1>2. "info" \in Levels
  BY DEF Levels
<1>q. QED BY <1>1, <1>2 DEF Defaults, ConfigRecord

(* A value that was given is a text.                                       *)
LEMMA GivenIsText ==
    /\ \A o \in Options : o.value \in Given /\ Plain(o.value) \in Texts
    /\ \A n \in DOMAIN Files : \A k \in DOMAIN Files[n] : Trimmed(Files[n][k]) \in Texts
<1>1. \A o \in Options : o.value \in Given
  BY DEF Given
<1>2. \A o \in Options : Plain(o.value) \in Texts
  BY <1>1 DEF Plain, Texts
<1>3. ASSUME NEW n \in DOMAIN Files, NEW k \in DOMAIN Files[n]
      PROVE  Trimmed(Files[n][k]) \in Texts
  <2>1. Files[n][k].value \in Given
    BY DEF Given
  <2>2. Files[n][k].blank \in BOOLEAN
    <3>1. PICK s, R : /\ s = Files[n]
                      /\ R = [key : STRING, blank : BOOLEAN, value : STRING]
      OBVIOUS
    <3>2. s \in Seq(R)
      BY <3>1, FilesAssumption
    <3>3. k \in 1 .. Len(s)
      BY <3>1, <3>2
    <3>4. PICK l : l = s[k]
      OBVIOUS
    <3>5. l \in R
      BY <3>2, <3>3, <3>4
    <3>6. l.blank \in BOOLEAN
      BY <3>1, <3>5
    <3>q. QED BY <3>1, <3>4, <3>6
  <2>q. QED BY <2>1, <2>2 DEF Trimmed, Texts
<1>q. QED BY <1>1, <1>2, <1>3

LEMMA SetKeepsRecord ==
    ASSUME cfg \in ConfigRecord
    PROVE  /\ \A v \in Levels : [cfg EXCEPT !.level = v] \in ConfigRecord
           /\ \A v \in Texts : [cfg EXCEPT !.log_file_path = v] \in ConfigRecord
           /\ \A v \in Texts : [cfg EXCEPT !.log_file_path = v, !.log_to_file = TRUE]
                                  \in ConfigRecord
           /\ \A v \in Given : [cfg EXCEPT !.startup_cmd = v] \in ConfigRecord
           /\ \A f \in Flags, v \in BOOLEAN : [cfg EXCEPT ![f] = v] \in ConfigRecord
<1>1. ASSUME NEW f \in Flags, NEW v \in BOOLEAN
      PROVE  [cfg EXCEPT ![f] = v] \in ConfigRecord
  <2>1. CASE f = "use_colors"  BY <2>1 DEF ConfigRecord
  <2>2. CASE f = "log_to_file"  BY <2>2 DEF ConfigRecord
  <2>3. CASE f = "log_to_console"  BY <2>3 DEF ConfigRecord
  <2>4. CASE f = "async_enabled"  BY <2>4 DEF ConfigRecord
  <2>5. CASE f = "flush_immediately"  BY <2>5 DEF ConfigRecord
  <2>q. QED BY <2>1, <2>2, <2>3, <2>4, <2>5 DEF Flags
<1>q. QED BY <1>1 DEF ConfigRecord

LEMMA ConfigStarts == ConfigInit => ConfigInv
<1> SUFFICES ASSUME ConfigInit PROVE ConfigInv
  OBVIOUS
<1>1. args \in Seq(Options)
  <2>1. PICK n \in 0 .. MaxArgs : args \in [1 .. n -> Options]
    BY DEF ConfigInit, CommandLines, BoundedSeq, SeqOf
  <2>q. QED BY <2>1, MaxArgsAssumption
<1>2. Len(args) \in Nat
  BY <1>1
<1>3. 1 \in 1 .. Len(args) + 1
  BY <1>2
<1>q. QED BY <1>1, <1>3, DefaultsAreTyped DEF ConfigInit, ConfigInv

LEMMA ParseKeeps ==
    ASSUME ConfigInv, ParseStep
    PROVE  ConfigInv'
<1>0. /\ args \in Seq(Options) /\ Len(args) \in Nat /\ i \in Nat /\ line \in Nat
      /\ cfg \in ConfigRecord /\ exited \in BOOLEAN
  BY DEF ConfigInv
<1>a. i <= Len(args) => args[i] \in Options /\ i + 1 \in 1 .. Len(args) + 1
  BY <1>0 DEF ConfigInv
<1>1. CASE /\ line = 0 /\ line' = 0 /\ i <= Len(args) /\ i' = i + 1
           /\ UNCHANGED <<args, exited>> /\ cfg' \in ConfigRecord
  BY <1>0, <1>1, <1>a DEF ConfigInv
<1>2. CASE Open
  <2>1. /\ i <= Len(args) /\ args[i].value \in DOMAIN Files /\ line' = 1
        /\ UNCHANGED <<args, i, cfg, exited>>
    BY <1>2 DEF Open, At
  <2>2. Len(Files[args[i].value]) \in Nat
    BY <2>1, FilesAssumption
  <2>q. QED BY <1>0, <1>a, <2>1, <2>2 DEF ConfigInv, Lines
<1>3. CASE ReadLine
  <2>1. /\ line # 0 /\ line <= Len(Lines) /\ line' = line + 1
        /\ UNCHANGED <<args, i, exited>>
    BY <1>3 DEF ReadLine, Reading
  <2>2. /\ i \in 1 .. Len(args) /\ args[i].value \in DOMAIN Files
        /\ line \in 1 .. Len(Lines) + 1
    BY <2>1 DEF ConfigInv
  <2>3. PICK n \in DOMAIN Files : n = args[i].value
    BY <2>2
  <2>4. Len(Lines) \in Nat /\ line \in DOMAIN Files[n] /\ Lines = Files[n]
    BY <1>0, <2>1, <2>2, <2>3, FilesAssumption DEF Lines
  <2>5. PICK l : l = Files[n][line]
    OBVIOUS
  <2>6. Trimmed(l) \in Texts
    BY <2>4, <2>5, GivenIsText
  <2>7. \/ Set("level", parse_log_level(Trimmed(l)))
        \/ Set("log_file_path", Copied(Trimmed(l)))
        \/ l.key \in Flags /\ Set(l.key, parse_boolean(Trimmed(l)))
        \/ UNCHANGED cfg
    BY <1>3, <2>4, <2>5 DEF ReadLine
  <2>8. cfg' \in ConfigRecord
    BY <1>0, <2>6, <2>7, Parsed, SetKeepsRecord DEF Set
  <2>9. /\ line' \in 1 .. Len(Lines') + 1 /\ line' \in Nat
        /\ args'[i'].value \in DOMAIN Files /\ i' \in 1 .. Len(args')
    <3>1. Lines' = Lines
      BY <2>1 DEF Lines
    <3>q. QED BY <1>0, <2>1, <2>2, <2>4, <3>1
  <2>q. QED BY <1>0, <2>1, <2>8, <2>9 DEF ConfigInv
<1>4. CASE EndOfFile
  BY <1>0, <1>4 DEF EndOfFile, Reading, ConfigInv
<1>5. CASE Help
  BY <1>0, <1>5 DEF Help, At, ConfigInv
<1>6. CASE Startup /\ exited' = TRUE
  <2>1. UNCHANGED <<args, i, cfg>> /\ line' = 0
    BY <1>6 DEF Startup, Advance, At
  <2>q. QED BY <1>0, <1>6, <2>1 DEF ConfigInv
<1>7. ASSUME \/ LogLevel \/ LogFile \/ NoColors \/ NoAsync \/ ConsoleOnly \/ FileOnly
             \/ (Startup /\ ~(exited' = TRUE)) \/ Ignored \/ OpenFails
      PROVE  /\ line = 0 /\ line' = 0 /\ i <= Len(args) /\ i' = i + 1
             /\ UNCHANGED <<args, exited>> /\ cfg' \in ConfigRecord
  <2>1. /\ line = 0 /\ line' = 0 /\ i <= Len(args) /\ i' = i + 1
        /\ UNCHANGED <<args, exited>>
    BY <1>7 DEF LogLevel, LogFile, NoColors, NoAsync, ConsoleOnly, FileOnly, Startup,
                Ignored, OpenFails, At, Advance
  <2>2. args[i].value \in Given /\ Value \in Texts
    BY <1>a, <2>1, GivenIsText DEF Value
  <2>3. \/ Set("level", parse_log_level(Value))
        \/ cfg' = [cfg EXCEPT !.log_file_path = Copied(Value), !.log_to_file = TRUE]
        \/ \E f \in Flags : Set(f, FALSE)
        \/ Set("startup_cmd", args[i].value)
        \/ UNCHANGED cfg
    BY <1>7 DEF LogLevel, LogFile, NoColors, NoAsync, ConsoleOnly, FileOnly, Startup,
                Ignored, OpenFails, Flags
  <2>4. cfg' \in ConfigRecord
    BY <1>0, <2>2, <2>3, Parsed, SetKeepsRecord DEF Set
  <2>q. QED BY <2>1, <2>4
<1>q. QED BY <1>1, <1>2, <1>3, <1>4, <1>5, <1>6, <1>7 DEF ParseStep

LEMMA ConfigInvTypes == ConfigInv => ConfigTypes
<1> SUFFICES ASSUME ConfigInv PROVE ConfigTypes
  OBVIOUS
<1>1. /\ cfg.level \in Levels /\ cfg.log_file_path \in Texts
      /\ \A f \in Flags : cfg[f] \in BOOLEAN
  BY DEF ConfigInv, ConfigRecord, Flags
<1>q. QED BY <1>1 DEF ConfigInv, ConfigTypes

-----------------------------------------------------------------------------
(* Steps of main: the signals are as they were.                            *)
Running == fault = "none" /\ pc # "exited"

LEMMA StartUp ==
    ASSUME Course, Running, ConfigInv, doomed => async,
           ParseArgs \/ StartLogger \/ CheckEnv \/ ServerInit \/ DisplayFails
           \/ InitOnNull \/ GlobalFails \/ SetGlobal \/ InstallHandlers
    PROVE  Course'
<1> USE DEF Course, Running, Typed, Present, Told, EndsClean, SafeUntilFailure,
            FatalStopsMain, Pcs, Installed, Leaving, CameWhile, Go, Pass, Crash,
            wayland, logging, config
<1>1. CASE ParseArgs  BY <1>1 DEF ParseArgs
<1>2. CASE StartLogger
  <2>1. async' \in BOOLEAN
    BY <1>2 DEF StartLogger, ConfigInv, ConfigRecord
  <2>2. /\ pc = "args" /\ pc' = "env" /\ logger' = "on"
        /\ UNCHANGED <<display, run, globalServer, ref, handlers, bus, graceful, doomed,
                        signals, fault>>
    BY <1>2 DEF StartLogger
  <2>3. Typed'
    BY <2>1, <2>2
  <2>4. Present'
    <3>1. Present /\ handlers \in BOOLEAN
      OBVIOUS
    <3>2. handlers' # TRUE /\ bus' = "none"
      BY <2>2, <3>1
    <3>q. QED BY <2>2, <3>2
  <2>t. Told'
    BY <2>2
  <2>5. EndsClean' /\ SafeUntilFailure' /\ FatalStopsMain'
    BY <2>2
  <2>q. QED BY <2>3, <2>4, <2>5, <2>t
<1>3. CASE CheckEnv  BY <1>3 DEF CheckEnv
<1>4. CASE ServerInit  BY <1>4 DEF ServerInit
<1>5. CASE DisplayFails  BY <1>5 DEF DisplayFails
<1>6. CASE InitOnNull  BY <1>6 DEF InitOnNull
<1>7. CASE SetGlobal  BY <1>7 DEF SetGlobal
<1>8. CASE InstallHandlers  BY <1>8 DEF InstallHandlers
<1>9. CASE GlobalFails  BY <1>9 DEF GlobalFails
<1>q. QED BY <1>1, <1>2, <1>3, <1>4, <1>5, <1>6, <1>7, <1>8, <1>9

LEMMA Serve ==
    ASSUME Course, Running, doomed => async,
           AddSocket \/ SocketFails \/ CreateBus \/ BusFails \/ StartThread \/ NoBus
           \/ ThreadFails \/ Run \/ RunDangling
    PROVE  Course'
<1> USE DEF Course, Running, Typed, Present, Told, EndsClean, SafeUntilFailure,
            FatalStopsMain, Pcs, Installed, Leaving, CameWhile, Go, Pass, Crash,
            wayland, logging, config, rest, ExitAndError
<1>1. CASE AddSocket  BY <1>1 DEF AddSocket
<1>2. CASE SocketFails  BY <1>2 DEF SocketFails
<1>3. CASE CreateBus  BY <1>3 DEF CreateBus
<1>4. CASE BusFails  BY <1>4 DEF BusFails
<1>5. CASE StartThread  BY <1>5 DEF StartThread
<1>6. CASE NoBus  BY <1>6 DEF NoBus
<1>7. CASE ThreadFails  BY <1>7 DEF ThreadFails
<1>8. CASE Run  BY <1>8 DEF Run
<1>9. CASE RunDangling
  <2>1. pc = "run" /\ display = "dangling" /\ fault' = "display destroyed"
        /\ UNCHANGED <<pc, display, run, globalServer, ref, handlers, bus, logger, async,
                       graceful, doomed, signals>>
    BY <1>9 DEF RunDangling
  <2>2. Typed' /\ Present'
    BY <2>1
  <2>3. Told' /\ EndsClean' /\ SafeUntilFailure' /\ FatalStopsMain'
    BY <2>1
  <2>q. QED BY <2>2, <2>3
<1>q. QED BY <1>1, <1>2, <1>3, <1>4, <1>5, <1>6, <1>7, <1>8, <1>9

LEMMA ShutDown ==
    ASSUME Course, Running, Signalled,
           \/ FatalEnds
           \/ /\ doomed => async
              /\ Leave \/ CleanBus \/ DestroyDisplay \/ ClearDisplay \/ CleanLogger
    PROVE  Course'
<1> USE DEF Course, Running, Typed, Present, Told, EndsClean, SafeUntilFailure,
            FatalStopsMain, Pcs, Installed, Leaving, CameWhile, Go, Pass,
            wayland, logging, config, rest
<1>1. CASE FatalEnds  BY <1>1 DEF FatalEnds
<1>2. CASE (doomed => async) /\ Leave  BY <1>2 DEF Leave
<1>3. CASE (doomed => async) /\ CleanBus  BY <1>3 DEF CleanBus
<1>4. CASE (doomed => async) /\ DestroyDisplay  BY <1>4 DEF DestroyDisplay
<1>5. CASE (doomed => async) /\ ClearDisplay  BY <1>5 DEF ClearDisplay
<1>6. CASE (doomed => async) /\ CleanLogger  BY <1>6 DEF CleanLogger
<1>q. QED BY <1>1, <1>2, <1>3, <1>4, <1>5, <1>6

(* One signal more, and where main was when it came.                       *)
LEMMA OneSignalMore ==
    ASSUME Signalled, pc \in Pcs, pc # "exited", Len(signals) < MaxSignals,
           signals' = Append(signals, pc)
    PROVE  /\ Signalled'
           /\ Len(signals') = Len(signals) + 1 /\ Len(signals) \in Nat
           /\ \A l : CameWhile(l)' => CameWhile(l) \/ pc = l
<1>1. signals \in Seq(Pcs \ {"exited"}) /\ pc \in Pcs \ {"exited"}
  BY DEF Signalled
<1>2. /\ signals' \in Seq(Pcs \ {"exited"}) /\ Len(signals') = Len(signals) + 1
      /\ Len(signals) \in Nat
      /\ \A k \in DOMAIN signals' : \/ k \in DOMAIN signals /\ signals'[k] = signals[k]
                                \/ signals'[k] = pc
  BY <1>1
<1>3. Signalled'
  BY <1>2, EngineSignalsAssumption DEF Signalled
<1>q. QED BY <1>2, <1>3 DEF CameWhile

LEMMA SignalCourse ==
    ASSUME Course, Running, Signalled, Signal \/ SignalKills
    PROVE  Course' /\ Signalled'
<1>1. /\ Signalled' /\ Len(signals') = Len(signals) + 1 /\ Len(signals) \in Nat
      /\ CameWhile("serving")' => CameWhile("serving") \/ pc = "serving"
  BY OneSignalMore DEF Signal, SignalKills, Course, Typed
<1>2. CASE Signal
  <2>1. /\ handlers /\ pc \in Installed /\ graceful' = TRUE
        /\ UNCHANGED <<pc, display, globalServer, ref, handlers, bus, logger, async, doomed>>
    BY <1>2 DEF Signal, Course, Running, Typed, Present, logging
  <2>2. /\ run' \in BOOLEAN /\ fault' \in {"none", "display destroyed"}
        /\ fault' # "none" => display = "dangling"
    BY <1>2 DEF Signal, Course, Typed
  <2>3. Typed' /\ Present'
    <3>1. /\ pc \in Pcs /\ display \in {"null", "live", "dangling"}
          /\ globalServer \in BOOLEAN /\ handlers \in BOOLEAN
          /\ bus \in {"none", "live", "freed"} /\ ref = bus
          /\ logger \in {"off", "on", "closed"} /\ async \in BOOLEAN
          /\ doomed \in BOOLEAN
      BY DEF Course, Typed
    <3>2. Typed'
      BY <2>1, <2>2, <3>1 DEF Typed
    <3>3. Present
      BY DEF Course
    <3>4. Present'
      BY <2>1, <3>3 DEF Present
    <3>q. QED BY <3>2, <3>4
  <2>n. Len(signals') >= 1 /\ (Len(signals) >= 1 => Len(signals') >= 2)
    BY <1>1
  <2>t. Told
    BY DEF Course
  <2>4. Told'
    <3>1. CameWhile("serving")' => pc' \in Leaving \cup {"serving", "exited"}
      BY <1>1, <2>1, <2>t DEF Told
    <3>q. QED BY <2>1, <2>n, <2>t, <3>1 DEF Told
  <2>5. SafeUntilFailure'
    BY <2>1, <2>2, <2>n, <2>t DEF Told, SafeUntilFailure
  <2>6. EndsClean' /\ FatalStopsMain'
    BY <2>1 DEF Course, EndsClean, FatalStopsMain, Installed
  <2>q. QED BY <1>1, <2>3, <2>4, <2>5, <2>6 DEF Course
<1>3. CASE SignalKills
  BY <1>1, <1>3 DEF SignalKills, Course, Running, Typed, Present, Told, EndsClean,
     SafeUntilFailure, FatalStopsMain, Pcs, Installed, Leaving, wayland, logging, config
<1>q. QED BY <1>1, <1>2, <1>3

(* Only the options and the start of the logger touch the configuration.   *)
LEMMA ConfigSteps ==
    ASSUME Main \/ Signal \/ SignalKills
    PROVE  ParseArgs \/ StartLogger \/ UNCHANGED config
BY DEF Main, Steps, CheckEnv, FatalEnds, ServerInit, DisplayFails, InitOnNull,
       GlobalFails, SetGlobal, InstallHandlers, AddSocket, SocketFails, CreateBus,
       BusFails, StartThread, NoBus, ThreadFails, Run, RunDangling, Leave, CleanBus, DestroyDisplay, ClearDisplay,
       CleanLogger, Signal, SignalKills, Pass, Crash, rest

LEMMA ConfigFollows ==
    ASSUME ConfigInv, Main \/ Signal \/ SignalKills
    PROVE  ConfigInv'
<1>1. CASE ParseArgs
  BY <1>1, ParseKeeps DEF ParseArgs
<1>2. CASE StartLogger
  <2>1. /\ args' = <<>> /\ i' = 1 /\ cfg' = Defaults /\ line' = 0 /\ exited' = exited
    BY <1>2 DEF StartLogger, Finished
  <2>2. args' \in Seq(Options) /\ i' \in 1 .. Len(args') + 1
    BY <2>1
  <2>q. QED BY <2>1, <2>2, DefaultsAreTyped DEF ConfigInv
<1>3. CASE UNCHANGED config
  BY <1>3 DEF config, ConfigInv, Lines
<1>q. QED BY <1>1, <1>2, <1>3, ConfigSteps

LEMMA SignalsStay ==
    ASSUME Main
    PROVE  UNCHANGED signals
BY DEF Main, Steps, ParseArgs, StartLogger, CheckEnv, FatalEnds, ServerInit, DisplayFails,
       InitOnNull, GlobalFails, SetGlobal, InstallHandlers, AddSocket, SocketFails,
       CreateBus, BusFails, StartThread, NoBus, ThreadFails, Run, RunDangling, Leave, CleanBus, DestroyDisplay,
       ClearDisplay, CleanLogger, Pass, Crash, rest

(* While the server serves, all that it uses is there; a run of main to its*)
(* end has given everything back (main.c:119-121); nothing is used after   *)
(* that, unless the start failed or a second signal came; and a FATAL      *)
(* message without a worker is the last thing main does (logger.c:158).    *)
THEOREM EngineConsistent == Spec => []Consistent
<1>1. Init => EngineInv
  <2> SUFFICES ASSUME Init PROVE EngineInv
    OBVIOUS
  <2>1. Signalled /\ ~CameWhile("serving")
    BY EngineSignalsAssumption DEF Init, Signalled, CameWhile
  <2>2. Course
    BY <2>1 DEF Init, Course, Typed, Present, Told, EndsClean, SafeUntilFailure,
                FatalStopsMain, Pcs, Installed, Leaving
  <2>q. QED BY <2>1, <2>2, ConfigStarts DEF Init, EngineInv
<1>2. EngineInv /\ [Next]_vars => EngineInv'
  <2> SUFFICES ASSUME EngineInv, [Next]_vars PROVE EngineInv'
    OBVIOUS
  <2>0. ConfigInv /\ Signalled /\ Course
    BY DEF EngineInv
  <2>1. CASE UNCHANGED vars
    <3>1. /\ UNCHANGED <<pc, display, run, globalServer, ref, handlers, bus, logger, async>>
          /\ UNCHANGED <<graceful, doomed, signals, fault>>
          /\ UNCHANGED <<args, i, line, cfg, exited>>
      BY <2>1 DEF vars, rest, wayland, logging, config
    <3>2. ConfigInv' /\ Signalled'
      BY <2>0, <3>1 DEF ConfigInv, Lines, Signalled
    <3>3. Typed' /\ Present'
      <4>1. Typed /\ Present
        BY <2>0 DEF Course
      <4>2. /\ pc' \in Pcs /\ display' \in {"null", "live", "dangling"}
            /\ bus' \in {"none", "live", "freed"} /\ ref' = bus'
            /\ logger' \in {"off", "on", "closed"}
            /\ fault' \in {"none", "no display", "no bus", "no socket", "display destroyed"}
        BY <3>1, <4>1 DEF Typed
      <4>3. /\ run' = run /\ run \in BOOLEAN
            /\ globalServer' = globalServer /\ globalServer \in BOOLEAN
            /\ handlers' = handlers /\ handlers \in BOOLEAN
            /\ async' = async /\ async \in BOOLEAN
            /\ graceful' = graceful /\ graceful \in BOOLEAN
            /\ doomed' = doomed /\ doomed \in BOOLEAN
        BY <3>1, <4>1 DEF Typed
      <4>4. Typed'
        BY <4>2, <4>3, Zenon DEF Typed
      <4>5. Present'
        BY <3>1, <4>1 DEF Present
      <4>q. QED BY <4>4, <4>5
    <3>4. Told'
      BY <2>0, <3>1 DEF Course, Told, CameWhile
    <3>5. EndsClean' /\ SafeUntilFailure' /\ FatalStopsMain'
      BY <2>0, <3>1 DEF Course, EndsClean, SafeUntilFailure, FatalStopsMain, CameWhile
    <3>q. QED BY <3>2, <3>3, <3>4, <3>5 DEF EngineInv, Course
  <2>2. CASE Running /\ Main
    <3>1. Signalled'
      BY <2>0, <2>2, SignalsStay DEF Signalled
    <3>2. Course'
      BY <2>0, <2>2, StartUp, Serve, ShutDown DEF Main, Steps
    <3>q. QED BY <2>0, <2>2, <3>1, <3>2, ConfigFollows DEF EngineInv
  <2>3. CASE Running /\ (Signal \/ SignalKills)
    BY <2>0, <2>3, SignalCourse, ConfigFollows DEF EngineInv
  <2>q. QED BY <2>1, <2>2, <2>3 DEF Next, Running
<1>3. EngineInv => Consistent
  <2> SUFFICES ASSUME EngineInv PROVE Consistent
    OBVIOUS
  <2>1. TypeOK
    BY ConfigInvTypes DEF EngineInv, Signalled, Course, Typed, TypeOK
  <2>2. ServesLive
    BY DEF EngineInv, Course, Typed, Present, ServesLive
  <2>q. QED BY <2>1, <2>2 DEF EngineInv, Course, Consistent
<1>q. QED BY <1>1, <1>2, <1>3, PTL DEF Spec

-----------------------------------------------------------------------------
(* The last setting of those that are behind decides.                      *)
Behind(p) == p[1] < i \/ (p[1] = i /\ p[2] < line)
Decided(f) ==
    \/ cfg[f] = Defaults[f] /\ \A p \in Places : Behind(p) => ~Sets(p, f)
    \/ \E p \in Places :
          /\ Behind(p) /\ \E s \in Settings(p) : s[1] = f /\ Kept(s, cfg[f])
          /\ \A q \in Places : Behind(q) /\ Earlier(p, q) => ~Sets(q, f)
Fields == {"level", "log_file_path", "startup_cmd"} \cup Flags
SettingsInv == /\ line # 0 => ~exited /\ Names(args[i])
               /\ ~exited => \A f \in Fields : Decided(f)

(* A place is a place of the command line, and a row of it.                *)
LEMMA PlaceAt ==
    ASSUME ConfigInv
    PROVE  /\ \A p \in Places : /\ p[1] \in 1 .. Len(args) /\ p[2] \in Nat \ {0}
                                /\ p = <<p[1], p[2]>> /\ p[2] \in PlacesOf(p[1])
           /\ \A k \in 1 .. Len(args) : \A n \in PlacesOf(k) : <<k, n>> \in Places
<1>1. args \in Seq(Options)
  BY DEF ConfigInv
<1>2. ASSUME NEW k \in 1 .. Len(args)
      PROVE  PlacesOf(k) \subseteq Nat \ {0}
  <2>1. CASE Names(args[k])
    <3>1. PICK n \in DOMAIN Files : n = args[k].value
      BY <2>1 DEF Names
    <3>2. DOMAIN Files[n] \subseteq Nat \ {0}
      <4>1. PICK s, R : s = Files[n] /\ R = [key : STRING, blank : BOOLEAN, value : STRING]
        OBVIOUS
      <4>2. s \in Seq(R)
        BY <4>1, FilesAssumption
      <4>q. QED BY <4>1, <4>2
    <3>q. QED BY <2>1, <3>1, <3>2 DEF PlacesOf
  <2>2. CASE ~Names(args[k])
    BY <2>2 DEF PlacesOf
  <2>q. QED BY <2>1, <2>2
<1>3. DOMAIN args = 1 .. Len(args)
  BY <1>1
<1>q. QED BY <1>2, <1>3 DEF Places

(* A step that passes one place decides with what is set there.            *)
LEMMA PassesOne ==
    ASSUME ConfigInv, SettingsInv, ~exited, NEW P \in Places,
           UNCHANGED <<args, zeroed>>,
           \A q \in Places : Behind(q)' <=> Behind(q) \/ q = P,
           \A q \in Places : Behind(q) => Earlier(q, P) /\ ~Earlier(P, q),
           \A f \in Fields :
              \/ \E s \in Settings(P) : s[1] = f /\ Kept(s, cfg[f])'
              \/ cfg'[f] = cfg[f] /\ ~Sets(P, f)
    PROVE  \A f \in Fields : Decided(f)'
<1> SUFFICES ASSUME NEW f \in Fields PROVE Decided(f)'
  OBVIOUS
<1>1. /\ Places' = Places
      /\ \A p : Settings(p)' = Settings(p) /\ (Sets(p, f)' <=> Sets(p, f))
      /\ cfg'[f] = cfg[f] => \A s : Kept(s, cfg[f])' <=> Kept(s, cfg[f])
  BY DEF Places, PlacesOf, Settings, Sets, Kept
<1>2. CASE \E s \in Settings(P) : s[1] = f /\ Kept(s, cfg[f])'
  <2>1. ~Earlier(P, P)
    BY PlaceAt DEF Earlier
  <2>2. \A q \in Places : Behind(q)' /\ Earlier(P, q) => ~Sets(q, f)
    BY <2>1
  <2>3. Behind(P)'
    OBVIOUS
  <2>q. QED BY <1>1, <1>2, <2>2, <2>3 DEF Decided, Earlier
<1>3. CASE cfg'[f] = cfg[f] /\ ~Sets(P, f)
  <2>1. Decided(f)
    BY DEF SettingsInv
  <2>q. QED BY <1>1, <1>3, <2>1 DEF Decided, Earlier
<1>q. QED BY <1>2, <1>3

LEMMA PassesNone ==
    ASSUME SettingsInv, ~exited, UNCHANGED <<args, zeroed, cfg>>,
           \A q \in Places : Behind(q)' <=> Behind(q)
    PROVE  \A f \in Fields : Decided(f)'
<1> SUFFICES ASSUME NEW f \in Fields PROVE Decided(f)'
  OBVIOUS
<1>1. /\ Places' = Places
      /\ \A p : Settings(p)' = Settings(p) /\ (Sets(p, f)' <=> Sets(p, f))
      /\ cfg'[f] = cfg[f] => \A s : Kept(s, cfg[f])' <=> Kept(s, cfg[f])
  BY DEF Places, PlacesOf, Settings, Sets, Kept
<1>2. Decided(f)
  BY DEF SettingsInv
<1>q. QED BY <1>1, <1>2 DEF Decided, Earlier

(* An argument is a place, unless it names a file.                         *)
LEMMA ArgumentIsPlace ==
    ASSUME ConfigInv, line = 0, line' = 0, i <= Len(args), i' = i + 1, UNCHANGED args,
           ~Names(args[i]), NEW P, P = <<i, 1>>
    PROVE  /\ P \in Places /\ Settings(P) = ArgSets(args[i])
           /\ \A q \in Places : Behind(q)' <=> Behind(q) \/ q = P
           /\ \A q \in Places : Behind(q) => Earlier(q, P) /\ ~Earlier(P, q)
<1>1. i \in 1 .. Len(args) /\ Len(args) \in Nat /\ i \in Nat
  BY DEF ConfigInv
<1>2. 1 \in PlacesOf(i)
  BY DEF PlacesOf
<1>3. P \in Places
  BY <1>1, <1>2, PlaceAt
<1>4. Settings(P) = ArgSets(args[i])
  BY DEF Settings
<1>5. ASSUME NEW q \in Places
      PROVE  /\ Behind(q)' <=> Behind(q) \/ q = P
             /\ Behind(q) => Earlier(q, P) /\ ~Earlier(P, q)
  <2>1. PICK k \in 1 .. Len(args), n \in Nat \ {0} :
           k = q[1] /\ n = q[2] /\ q = <<k, n>> /\ n \in PlacesOf(k)
    BY PlaceAt
  <2>2. k = i => n = 1
    BY <2>1 DEF PlacesOf
  <2>q. QED BY <1>1, <2>1, <2>2 DEF Behind, Earlier
<1>q. QED BY <1>3, <1>4, <1>5

(* The lines of the file it names are places.                              *)
LEMMA LineIsPlace ==
    ASSUME ConfigInv, Names(args[i]), line # 0, line <= Len(Lines), line' = line + 1,
           UNCHANGED <<args, i>>, NEW P, P = <<i, line>>
    PROVE  /\ P \in Places /\ Settings(P) = LineSets(Lines[line])
           /\ \A q \in Places : Behind(q)' <=> Behind(q) \/ q = P
           /\ \A q \in Places : Behind(q) => Earlier(q, P) /\ ~Earlier(P, q)
<1>1. /\ i \in 1 .. Len(args) /\ Len(args) \in Nat /\ i \in Nat /\ line \in Nat \ {0}
      /\ args[i].value \in DOMAIN Files
  BY DEF ConfigInv
<1>2. line \in DOMAIN Lines
  <2>1. PICK n \in DOMAIN Files : n = args[i].value
    BY <1>1
  <2>2. PICK s, R : s = Files[n] /\ R = [key : STRING, blank : BOOLEAN, value : STRING]
    OBVIOUS
  <2>3. s \in Seq(R)
    BY <2>2, FilesAssumption
  <2>4. Lines = s
    BY <2>1, <2>2 DEF Lines
  <2>q. QED BY <1>1, <2>3, <2>4
<1>3. P \in Places
  BY <1>1, <1>2, PlaceAt DEF PlacesOf, Lines
<1>4. Settings(P) = LineSets(Lines[line])
  BY DEF Settings, Lines
<1>5. ASSUME NEW q \in Places
      PROVE  /\ Behind(q)' <=> Behind(q) \/ q = P
             /\ Behind(q) => Earlier(q, P) /\ ~Earlier(P, q)
  <2>1. PICK k \in 1 .. Len(args), n \in Nat \ {0} : k = q[1] /\ n = q[2] /\ q = <<k, n>>
    BY PlaceAt
  <2>q. QED BY <1>1, <2>1 DEF Behind, Earlier
<1>q. QED BY <1>3, <1>4, <1>5

(* What is set is kept, as far as its field holds it.                      *)
LEMMA SetIsKept ==
    ASSUME cfg \in ConfigRecord, UNCHANGED zeroed,
           NEW g \in Fields, NEW v, NEW w, Set(g, w),
           IF g = "log_file_path" THEN w = Copied(v) ELSE w = v,
           NEW P, Settings(P) = {<<g, v>>}
    PROVE  \A f \in Fields : \/ \E s \in Settings(P) : s[1] = f /\ Kept(s, cfg[f])'
                             \/ cfg'[f] = cfg[f] /\ ~Sets(P, f)
<1> SUFFICES ASSUME NEW f \in Fields
             PROVE  \/ \E s \in Settings(P) : s[1] = f /\ Kept(s, cfg[f])'
                    \/ cfg'[f] = cfg[f] /\ ~Sets(P, f)
  OBVIOUS
<1>1. DOMAIN cfg = Fields
  BY DEF ConfigRecord, Fields, Flags
<1>2. CASE f = g
  <2>1. cfg'[f] = w
    BY <1>1, <1>2 DEF Set
  <2>2. Kept(<<g, v>>, cfg[f])'
    BY <1>2, <2>1 DEF Kept, Copied
  <2>q. QED BY <1>2, <2>2
<1>3. CASE f # g
  <2>1. cfg'[f] = cfg[f]
    BY <1>1, <1>3 DEF Set
  <2>2. ~Sets(P, f)
    BY <1>3 DEF Sets
  <2>q. QED BY <2>1, <2>2
<1>q. QED BY <1>2, <1>3

LEMMA NothingSet ==
    ASSUME UNCHANGED cfg, NEW P, Settings(P) = {}
    PROVE  \A f \in Fields : cfg'[f] = cfg[f] /\ ~Sets(P, f)
BY DEF Sets

(* What the arguments set, one by one.                                     *)
LEMMA ArgSetsAre ==
    ASSUME NEW a
    PROVE  /\ a.opt = "--no-colors" => ArgSets(a) = {<<"use_colors", FALSE>>}
           /\ a.opt = "--no-async" => ArgSets(a) = {<<"async_enabled", FALSE>>}
           /\ a.opt = "--console-only" => ArgSets(a) = {<<"log_to_file", FALSE>>}
           /\ a.opt = "--file-only" => ArgSets(a) = {<<"log_to_console", FALSE>>}
           /\ a.opt = "--log-level" /\ a.value # Missing
                 => ArgSets(a) = {<<"level", parse_log_level(Plain(a.value))>>}
           /\ a.opt = "--log-file" /\ a.value # Missing
                 => ArgSets(a) = {<<"log_file_path", Plain(a.value)>>,
                                  <<"log_to_file", TRUE>>}
           /\ a.opt = "--startup" /\ a.value # Missing
                 => ArgSets(a) = {<<"startup_cmd", a.value>>}
           /\ a.opt \in {"unknown", "--log-config"} => ArgSets(a) = {}
           /\ a.opt \in {"--log-level", "--log-file"} /\ a.value = Missing
                 => ArgSets(a) = {}
<1>1. a.opt = "--no-colors" => ArgSets(a) = {<<"use_colors", FALSE>>}
  BY DEF ArgSets
<1>2. a.opt = "--no-async" => ArgSets(a) = {<<"async_enabled", FALSE>>}
  BY DEF ArgSets
<1>3. a.opt = "--console-only" => ArgSets(a) = {<<"log_to_file", FALSE>>}
  BY DEF ArgSets
<1>4. a.opt = "--file-only" => ArgSets(a) = {<<"log_to_console", FALSE>>}
  BY DEF ArgSets
<1>5. a.opt = "--log-level" /\ a.value # Missing
         => ArgSets(a) = {<<"level", parse_log_level(Plain(a.value))>>}
  BY DEF ArgSets
<1>6. a.opt = "--log-file" /\ a.value # Missing
         => ArgSets(a) = {<<"log_file_path", Plain(a.value)>>, <<"log_to_file", TRUE>>}
  BY DEF ArgSets
<1>7. a.opt = "--startup" /\ a.value # Missing => ArgSets(a) = {<<"startup_cmd", a.value>>}
  BY DEF ArgSets
<1>8. a.opt \in {"unknown", "--log-config"} => ArgSets(a) = {}
  BY DEF ArgSets
<1>9. a.opt \in {"--log-level", "--log-file"} /\ a.value = Missing => ArgSets(a) = {}
  BY DEF ArgSets
<1>q. QED BY <1>1, <1>2, <1>3, <1>4, <1>5, <1>6, <1>7, <1>8, <1>9

LEMMA LineSetsAre ==
    ASSUME NEW l
    PROVE  /\ l.key = "log_level"
                 => LineSets(l) = {<<"level", parse_log_level(Trimmed(l))>>}
           /\ l.key = "log_file_path" => LineSets(l) = {<<"log_file_path", Trimmed(l)>>}
           /\ l.key \in Flags => LineSets(l) = {<<l.key, parse_boolean(Trimmed(l))>>}
           /\ l.key \notin Flags \cup {"log_level", "log_file_path"} => LineSets(l) = {}
<1>1. l.key = "log_level" => LineSets(l) = {<<"level", parse_log_level(Trimmed(l))>>}
  BY DEF LineSets, Flags
<1>2. l.key = "log_file_path" => LineSets(l) = {<<"log_file_path", Trimmed(l)>>}
  BY DEF LineSets, Flags
<1>3. l.key \in Flags => LineSets(l) = {<<l.key, parse_boolean(Trimmed(l))>>}
  BY DEF LineSets, Flags
<1>4. l.key \notin Flags \cup {"log_level", "log_file_path"} => LineSets(l) = {}
  BY DEF LineSets
<1>q. QED BY <1>1, <1>2, <1>3, <1>4

LEMMA ArgumentSets ==
    ASSUME ConfigInv, UNCHANGED zeroed, NEW P, Settings(P) = ArgSets(args[i]),
           \/ LogLevel \/ LogFile \/ NoColors \/ NoAsync \/ ConsoleOnly \/ FileOnly
           \/ (Startup /\ HasValue) \/ Ignored \/ OpenFails
    PROVE  \A f \in Fields : \/ \E s \in Settings(P) : s[1] = f /\ Kept(s, cfg[f])'
                             \/ cfg'[f] = cfg[f] /\ ~Sets(P, f)
<1>0. cfg \in ConfigRecord /\ DOMAIN cfg = Fields
  BY DEF ConfigInv, ConfigRecord, Fields, Flags
<1>f. {"level", "use_colors", "async_enabled", "log_to_file", "log_to_console",
       "startup_cmd", "log_file_path"} \subseteq Fields
  BY DEF Fields, Flags
<1>1. CASE LogLevel
  <2>1. Set("level", parse_log_level(Value)) /\ args[i].opt = "--log-level" /\ HasValue
    BY <1>1 DEF LogLevel, At
  <2>2. Settings(P) = {<<"level", parse_log_level(Value)>>}
    BY <2>1, ArgSetsAre DEF HasValue, Value
  <2>q. QED BY <1>0, <1>f, <2>1, <2>2, SetIsKept
<1>2. CASE LogFile
  <2>1. /\ cfg' = [cfg EXCEPT !.log_file_path = Copied(Value), !.log_to_file = TRUE]
        /\ args[i].opt = "--log-file" /\ HasValue
    BY <1>2 DEF LogFile, At
  <2>2. Settings(P) = {<<"log_file_path", Value>>, <<"log_to_file", TRUE>>}
    BY <2>1, ArgSetsAre DEF HasValue, Value
  <2>3. ASSUME NEW f \in Fields
        PROVE  \/ \E s \in Settings(P) : s[1] = f /\ Kept(s, cfg[f])'
               \/ cfg'[f] = cfg[f] /\ ~Sets(P, f)
    <3>1. CASE f = "log_file_path"
      <4>1. cfg'[f] = Copied(Value)
        BY <1>0, <2>1, <3>1
      <4>2. PICK v : v = Value
        OBVIOUS
      <4>3. Kept(<<"log_file_path", v>>, cfg[f])'
        BY <4>1, <4>2 DEF Kept, Copied
      <4>q. QED BY <2>2, <3>1, <4>2, <4>3
    <3>2. CASE f = "log_to_file"
      <4>1. cfg'[f] = TRUE
        BY <1>0, <2>1, <3>2
      <4>2. Kept(<<"log_to_file", TRUE>>, cfg[f])'
        BY <4>1 DEF Kept
      <4>q. QED BY <2>2, <3>2, <4>2
    <3>3. CASE f \notin {"log_file_path", "log_to_file"}
      <4>1. cfg'[f] = cfg[f]
        BY <1>0, <2>1, <3>3
      <4>q. QED BY <2>2, <3>3, <4>1 DEF Sets
    <3>q. QED BY <3>1, <3>2, <3>3
  <2>q. QED BY <2>3
<1>3. CASE NoColors
  <2>1. Set("use_colors", FALSE) /\ args[i].opt = "--no-colors"
    BY <1>3 DEF NoColors, At
  <2>2. Settings(P) = {<<"use_colors", FALSE>>}
    BY <2>1, ArgSetsAre
  <2>q. QED BY <1>0, <1>f, <2>1, <2>2, SetIsKept
<1>4. CASE NoAsync
  <2>1. Set("async_enabled", FALSE) /\ args[i].opt = "--no-async"
    BY <1>4 DEF NoAsync, At
  <2>2. Settings(P) = {<<"async_enabled", FALSE>>}
    BY <2>1, ArgSetsAre
  <2>q. QED BY <1>0, <1>f, <2>1, <2>2, SetIsKept
<1>5. CASE ConsoleOnly
  <2>1. Set("log_to_file", FALSE) /\ args[i].opt = "--console-only"
    BY <1>5 DEF ConsoleOnly, At
  <2>2. Settings(P) = {<<"log_to_file", FALSE>>}
    BY <2>1, ArgSetsAre
  <2>q. QED BY <1>0, <1>f, <2>1, <2>2, SetIsKept
<1>6. CASE FileOnly
  <2>1. Set("log_to_console", FALSE) /\ args[i].opt = "--file-only"
    BY <1>6 DEF FileOnly, At
  <2>2. Settings(P) = {<<"log_to_console", FALSE>>}
    BY <2>1, ArgSetsAre
  <2>q. QED BY <1>0, <1>f, <2>1, <2>2, SetIsKept
<1>7. CASE Startup /\ HasValue
  <2>1. /\ Set("startup_cmd", args[i].value) /\ args[i].opt = "--startup"
        /\ args[i].value # Missing
    BY <1>7 DEF Startup, At, HasValue
  <2>2. Settings(P) = {<<"startup_cmd", args[i].value>>}
    BY <2>1, ArgSetsAre
  <2>q. QED BY <1>0, <1>f, <2>1, <2>2, SetIsKept
<1>8. CASE Ignored \/ OpenFails
  <2>1. /\ UNCHANGED cfg
        /\ \/ args[i].opt \in {"unknown", "--log-config"}
           \/ args[i].opt \in {"--log-level", "--log-file"} /\ args[i].value = Missing
    BY <1>8 DEF Ignored, OpenFails, At, HasValue
  <2>2. Settings(P) = {}
    BY <2>1, ArgSetsAre
  <2>q. QED BY <2>1, <2>2, NothingSet
<1>q. QED BY <1>1, <1>2, <1>3, <1>4, <1>5, <1>6, <1>7, <1>8

LEMMA LineSettings ==
    ASSUME ConfigInv, UNCHANGED zeroed, NEW P, Settings(P) = LineSets(Lines[line]),
           ReadLine
    PROVE  \A f \in Fields : \/ \E s \in Settings(P) : s[1] = f /\ Kept(s, cfg[f])'
                             \/ cfg'[f] = cfg[f] /\ ~Sets(P, f)
<1>0. cfg \in ConfigRecord
  BY DEF ConfigInv
<1>1. PICK l : l = Lines[line]
  OBVIOUS
<1>2. \/ l.key = "log_level" /\ Set("level", parse_log_level(Trimmed(l)))
      \/ l.key = "log_file_path" /\ Set("log_file_path", Copied(Trimmed(l)))
      \/ l.key \in Flags /\ Set(l.key, parse_boolean(Trimmed(l)))
      \/ l.key \notin Flags \cup {"log_level", "log_file_path"} /\ UNCHANGED cfg
  BY <1>1 DEF ReadLine, Flags
<1>3. CASE l.key = "log_level" /\ Set("level", parse_log_level(Trimmed(l)))
  <2>1. Settings(P) = {<<"level", parse_log_level(Trimmed(l))>>} /\ "level" \in Fields
    BY <1>1, <1>3, LineSetsAre DEF Fields
  <2>q. QED BY <1>0, <1>3, <2>1, SetIsKept
<1>4. CASE l.key = "log_file_path" /\ Set("log_file_path", Copied(Trimmed(l)))
  <2>1. Settings(P) = {<<"log_file_path", Trimmed(l)>>} /\ "log_file_path" \in Fields
    BY <1>1, <1>4, LineSetsAre DEF Fields
  <2>q. QED BY <1>0, <1>4, <2>1, SetIsKept
<1>5. CASE l.key \in Flags /\ Set(l.key, parse_boolean(Trimmed(l)))
  <2>1. /\ Settings(P) = {<<l.key, parse_boolean(Trimmed(l))>>}
        /\ l.key \in Fields /\ l.key # "log_file_path"
    BY <1>1, <1>5, LineSetsAre DEF Fields, Flags
  <2>q. QED BY <1>0, <1>5, <2>1, SetIsKept
<1>6. CASE l.key \notin Flags \cup {"log_level", "log_file_path"} /\ UNCHANGED cfg
  <2>1. Settings(P) = {}
    BY <1>1, <1>6, LineSetsAre
  <2>q. QED BY <1>6, <2>1, NothingSet
<1>q. QED BY <1>2, <1>3, <1>4, <1>5, <1>6

(* So each step of parse_args decides what it passes.                      *)
LEMMA ParseDecides ==
    ASSUME ConfigInv, SettingsInv, ParseStep
    PROVE  SettingsInv'
<1>0. /\ ~exited /\ UNCHANGED <<args, zeroed>>
      /\ i \in Nat /\ Len(args) \in Nat /\ line \in Nat
  <2>1. ~exited
    BY DEF SettingsInv, ParseStep, LogLevel, LogFile, NoColors, NoAsync, ConsoleOnly,
           FileOnly, Startup, Help, Ignored, Open, OpenFails, ReadLine, EndOfFile, At,
           Reading
  <2>2. UNCHANGED <<args, zeroed>>
    BY DEF ParseStep, LogLevel, LogFile, NoColors, NoAsync, ConsoleOnly, FileOnly, Startup,
           Help, Ignored, Open, OpenFails, ReadLine, EndOfFile, Advance
  <2>q. QED BY <2>1, <2>2 DEF ConfigInv
<1>1. CASE \/ LogLevel \/ LogFile \/ NoColors \/ NoAsync \/ ConsoleOnly \/ FileOnly
           \/ (Startup /\ HasValue) \/ Ignored \/ OpenFails
  <2>1. /\ line = 0 /\ line' = 0 /\ i <= Len(args) /\ i' = i + 1 /\ UNCHANGED args
        /\ ~Names(args[i])
    <3>1. line = 0 /\ i <= Len(args)
      BY <1>1 DEF LogLevel, LogFile, NoColors, NoAsync, ConsoleOnly, FileOnly, Startup,
                  Ignored, OpenFails, At
    <3>2. line' = 0 /\ i' = i + 1
      BY <1>1, <3>1 DEF LogLevel, LogFile, NoColors, NoAsync, ConsoleOnly, FileOnly,
                        Startup, Ignored, OpenFails, Advance, HasValue
    <3>3. ~Names(args[i])
      BY <1>1 DEF LogLevel, LogFile, NoColors, NoAsync, ConsoleOnly, FileOnly, Startup,
                  Ignored, OpenFails, At, Names, HasValue
    <3>q. QED BY <1>0, <3>1, <3>2, <3>3
  <2>2. PICK P : P = <<i, 1>>
    OBVIOUS
  <2>3. /\ P \in Places /\ Settings(P) = ArgSets(args[i])
        /\ \A q \in Places : Behind(q)' <=> Behind(q) \/ q = P
        /\ \A q \in Places : Behind(q) => Earlier(q, P) /\ ~Earlier(P, q)
    BY <2>1, <2>2, ArgumentIsPlace
  <2>4. \A f \in Fields : \/ \E s \in Settings(P) : s[1] = f /\ Kept(s, cfg[f])'
                          \/ cfg'[f] = cfg[f] /\ ~Sets(P, f)
    BY <1>0, <1>1, <2>3, ArgumentSets
  <2>5. \A f \in Fields : Decided(f)'
    BY <1>0, <2>3, <2>4, PassesOne
  <2>q. QED BY <2>1, <2>5 DEF SettingsInv
<1>2. CASE Open
  <2>1. /\ line = 0 /\ line' = 1 /\ Names(args[i]) /\ UNCHANGED <<i, cfg, exited>>
    BY <1>2 DEF Open, At, HasValue, Names
  <2>2. \A q \in Places : Behind(q)' <=> Behind(q)
    BY <1>0, <2>1, PlaceAt DEF Behind
  <2>3. \A f \in Fields : Decided(f)'
    BY <1>0, <2>1, <2>2, PassesNone
  <2>q. QED BY <1>0, <2>1, <2>3 DEF SettingsInv, Names
<1>3. CASE ReadLine
  <2>1. /\ line # 0 /\ line <= Len(Lines) /\ line' = line + 1
        /\ UNCHANGED <<args, i, exited>> /\ Names(args[i])
    BY <1>3 DEF ReadLine, Reading, SettingsInv
  <2>2. PICK P : P = <<i, line>>
    OBVIOUS
  <2>3. /\ P \in Places /\ Settings(P) = LineSets(Lines[line])
        /\ \A q \in Places : Behind(q)' <=> Behind(q) \/ q = P
        /\ \A q \in Places : Behind(q) => Earlier(q, P) /\ ~Earlier(P, q)
    BY <2>1, <2>2, LineIsPlace
  <2>4. \A f \in Fields : \/ \E s \in Settings(P) : s[1] = f /\ Kept(s, cfg[f])'
                          \/ cfg'[f] = cfg[f] /\ ~Sets(P, f)
    BY <1>0, <1>3, <2>3, LineSettings
  <2>5. \A f \in Fields : Decided(f)'
    BY <1>0, <2>3, <2>4, PassesOne
  <2>q. QED BY <1>0, <2>1, <2>5 DEF SettingsInv, Names
<1>4. CASE EndOfFile
  <2>1. /\ line # 0 /\ line > Len(Lines) /\ line' = 0 /\ i' = i + 1 /\ UNCHANGED cfg
        /\ Names(args[i])
    BY <1>4 DEF EndOfFile, Reading, SettingsInv
  <2>2. PICK n \in DOMAIN Files : n = args[i].value
    BY <2>1 DEF Names
  <2>3. PICK s, R : s = Files[n] /\ R = [key : STRING, blank : BOOLEAN, value : STRING]
    OBVIOUS
  <2>4. s \in Seq(R) /\ Lines = s
    BY <2>2, <2>3, FilesAssumption DEF Lines
  <2>5. ASSUME NEW q \in Places
        PROVE  Behind(q)' <=> Behind(q)
    <3>1. PICK k \in 1 .. Len(args), m \in Nat \ {0} :
             k = q[1] /\ m = q[2] /\ m \in PlacesOf(k)
      BY PlaceAt
    <3>2. k = i => m <= Len(s)
      BY <2>1, <2>2, <2>3, <2>4, <3>1 DEF PlacesOf
    <3>3. k = i => m < line
      BY <1>0, <2>1, <2>4, <3>1, <3>2
    <3>q. QED BY <1>0, <2>1, <3>1, <3>3 DEF Behind
  <2>6. \A f \in Fields : Decided(f)'
    BY <1>0, <2>1, <2>5, PassesNone
  <2>q. QED BY <2>1, <2>6 DEF SettingsInv
<1>5. CASE Help \/ (Startup /\ ~HasValue)
  <2>1. exited' = TRUE /\ line' = 0
    BY <1>5 DEF Help, Startup, At
  <2>q. QED BY <2>1 DEF SettingsInv
<1>q. QED BY <1>1, <1>2, <1>3, <1>4, <1>5 DEF ParseStep

(* Nothing else of main decides anything.                                  *)
LEMMA SettingsStay ==
    ASSUME SettingsInv, UNCHANGED config
    PROVE  SettingsInv'
<1>1. UNCHANGED <<args, i, line, cfg, exited, zeroed>>
  BY DEF config
<1>2. \A q : Behind(q)' <=> Behind(q)
  BY <1>1 DEF Behind
<1>3. line' # 0 => ~exited' /\ Names(args'[i'])
  BY <1>1 DEF SettingsInv
<1>4. CASE ~exited
  BY <1>1, <1>2, <1>3, <1>4, PassesNone DEF SettingsInv, Names
<1>5. CASE exited
  BY <1>1, <1>3, <1>5 DEF SettingsInv, Names
<1>q. QED BY <1>4, <1>5

LEMMA SettingsFollow ==
    ASSUME ConfigInv, SettingsInv, Main \/ Signal \/ SignalKills
    PROVE  SettingsInv'
<1>1. CASE ParseArgs
  BY <1>1, ParseDecides DEF ParseArgs
<1>2. CASE StartLogger
  <2>1. args' = <<>> /\ cfg' = Defaults /\ line' = 0
    BY <1>2 DEF StartLogger, Finished
  <2>2. Places' = {}
    BY <2>1 DEF Places
  <2>q. QED BY <2>1, <2>2 DEF SettingsInv, Decided
<1>3. CASE UNCHANGED config
  BY <1>3, SettingsStay
<1>q. QED BY <1>1, <1>2, <1>3, ConfigSteps

(* What the command line and the files of it set last is what the server   *)
(* starts with, and the defaults where nothing is set: parse_args goes     *)
(* through argv once and reads a file where it is named (config.c:102,     *)
(* 119, 126); only a path of 255 characters and more is not kept whole.    *)
THEOREM LastSettingWins == Spec => []LastWins
<1>1. Init => ConfigInv /\ SettingsInv
  <2> SUFFICES ASSUME Init PROVE SettingsInv
    BY ConfigStarts DEF Init
  <2>1. i = 1 /\ line = 0 /\ cfg = Defaults /\ ConfigInv
    BY ConfigStarts DEF Init, ConfigInit
  <2>2. \A p \in Places : ~Behind(p)
    BY <2>1, PlaceAt DEF Behind
  <2>q. QED BY <2>1, <2>2 DEF SettingsInv, Decided
<1>2. ConfigInv /\ SettingsInv /\ [Next]_vars => (ConfigInv /\ SettingsInv)'
  <2> SUFFICES ASSUME ConfigInv, SettingsInv, [Next]_vars PROVE ConfigInv' /\ SettingsInv'
    OBVIOUS
  <2>1. CASE UNCHANGED vars
    <3>1. UNCHANGED config
      BY <2>1 DEF vars, rest
    <3>2. ConfigInv'
      BY <3>1 DEF config, ConfigInv, Lines
    <3>q. QED BY <3>1, <3>2, SettingsStay
  <2>2. CASE Main \/ Signal \/ SignalKills
    BY <2>2, ConfigFollows, SettingsFollow
  <2>q. QED BY <2>1, <2>2 DEF Next
<1>3. ConfigInv /\ SettingsInv => LastWins
  <2> SUFFICES ASSUME ConfigInv, SettingsInv, Finished, ~exited, NEW f \in DOMAIN cfg
               PROVE  \/ cfg[f] = Defaults[f] /\ \A p \in Places : ~Sets(p, f)
                      \/ \E p \in Places :
                            /\ \E s \in Settings(p) : s[1] = f /\ Kept(s, cfg[f])
                            /\ \A q \in Places : Earlier(p, q) => ~Sets(q, f)
    BY DEF LastWins
  <2>1. \A p \in Places : Behind(p)
    BY PlaceAt DEF Behind, Finished, ConfigInv
  <2>2. f \in Fields
    BY DEF ConfigInv, ConfigRecord, Fields, Flags
  <2>q. QED BY <2>1, <2>2 DEF SettingsInv, Decided
<1>q. QED BY <1>1, <1>2, <1>3, PTL DEF Spec
=============================================================================
