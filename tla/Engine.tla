------------------------------- MODULE Engine -------------------------------
(***************************************************************************)
(* The life of the process: main of src/src/main.c with the configuration  *)
(* it reads (module Config), server_init, server_run, server_cleanup and   *)
(* server_set_dbus of wayland/server.c, and signal_handler, which may run  *)
(* between any two steps of main.                                          *)
(*                                                                         *)
(* The logger, the D-Bus server and the Wayland objects are here what main *)
(* does with them; Logger, DbusServer, ShmPool and Surfaces have their     *)
(* insides.  A step on something that was given back sets fault and ends   *)
(* the behaviour.                                                          *)
(***************************************************************************)
EXTENDS Config

CONSTANTS Failures,     \* which calls may fail: a subset of AllFailures
          MaxSignals    \* bound on SIGINT and SIGTERM

AllFailures == {"worker", "env", "display", "global", "socket", "bus", "thread"}

ASSUME EngineFailuresAssumption == Failures \subseteq AllFailures
ASSUME EngineSignalsAssumption == MaxSignals \in Nat

VARIABLES pc,           \* where main is
          display,      \* server.display: "null", "live", or "dangling"
          run,          \* display->run of libwayland
          globalServer, \* whether global_server is set
          handlers,     \* whether the signals are handled
          bus,          \* the D-Bus server: "none", "live", "freed"
          ref,          \* server.dbus_server, of the same values
          logger,       \* "off", "on", "closed"
          async,        \* g_config.async_enabled of the logger
          graceful,     \* g_logger_graceful_shutdown
          doomed,       \* a FATAL message was logged
          signals,      \* history: where main was when they came
          fault

wayland == <<display, run, globalServer, ref>>
logging == <<logger, async>>
rest == <<config, wayland, handlers, bus, logging, graceful, doomed, signals,
          fault>>
vars == <<pc, rest>>

Init == /\ ConfigInit
        /\ pc = "args"
        /\ display = "null" /\ run = FALSE /\ globalServer = FALSE
        /\ handlers = FALSE /\ bus = "none" /\ ref = "none"
        /\ logger = "off" /\ async = FALSE /\ graceful = FALSE /\ doomed = FALSE
        /\ signals = <<>> /\ fault = "none"

Go(from, to) == pc = from /\ pc' = to
Pass(from, to) == Go(from, to) /\ UNCHANGED rest
MayFail(f) == f \in Failures
Crash(from, what) == /\ pc = from /\ fault' = what
                     /\ UNCHANGED <<config, pc, wayland, handlers, bus, logging,
                                    graceful, doomed, signals>>

-----------------------------------------------------------------------------
(* parse_args: --help, and --startup without a command, exit.              *)
ParseArgs == /\ pc = "args" /\ ParseStep
             /\ pc' = IF exited' THEN "exited" ELSE "args"
             /\ UNCHANGED <<wayland, handlers, bus, logging, graceful, doomed,
                            signals, fault>>

(* logger_init never fails: it goes on without a file or without a worker. *)
(* The configuration is read no more, and is forgotten here.               *)
StartLogger == /\ Finished /\ Go("args", "env")
               /\ logger' = "on"
               /\ async' \in {cfg.async_enabled}
                             \cup {a \in {FALSE} : "worker" \in Failures}
               /\ args' = <<>> /\ i' = 1 /\ cfg' = Defaults /\ zeroed' = TRUE
               /\ UNCHANGED <<line, exited, wayland, handlers, bus, graceful,
                              doomed, signals, fault>>

(* XDG_RUNTIME_DIR.  A FATAL message ends the process when it is processed,*)
(* now or, through the queue of the logger, later.                         *)
CheckEnv == /\ Go("env", "init")
            /\ doomed' \in IF MayFail("env") THEN BOOLEAN ELSE {FALSE}
            /\ UNCHANGED <<config, wayland, handlers, bus, logging, graceful,
                           signals, fault>>

FatalEnds == /\ doomed /\ pc' = "exited"
             /\ UNCHANGED rest

(* server_init.  Without a display its globals are made on NULL.           *)
ServerInit == /\ Go("init", "global")
              /\ display' = "live"
              /\ UNCHANGED <<config, run, globalServer, ref, handlers, bus,
                             logging, graceful, doomed, signals, fault>>

DisplayFails == /\ MayFail("display") /\ Go("init", "init_null")
                /\ doomed' = TRUE
                /\ UNCHANGED <<config, wayland, handlers, bus, logging,
                               graceful, signals, fault>>

InitOnNull == Crash("init_null", "no display")

(* One of the three globals cannot be made: the display is there all the   *)
(* same, and with a worker main goes on without the global.                *)
GlobalFails == /\ MayFail("global") /\ Go("init", "global")
               /\ display' = "live" /\ doomed' = TRUE
               /\ UNCHANGED <<config, run, globalServer, ref, handlers, bus,
                              logging, graceful, signals, fault>>

SetGlobal == /\ Go("global", "handlers")
             /\ globalServer' = TRUE
             /\ UNCHANGED <<config, display, run, ref, handlers, bus, logging,
                            graceful, doomed, signals, fault>>

InstallHandlers == /\ Go("handlers", "socket")
                   /\ handlers' = TRUE
                   /\ UNCHANGED <<config, wayland, bus, logging, graceful,
                                  doomed, signals, fault>>

-----------------------------------------------------------------------------
(* EXIT_AND_ERROR: it destroys the display, the pointer to it stays, and   *)
(* nothing exits.  next: what may come of the statement after it.          *)
ExitAndError(next) ==
    /\ display' = "dangling" /\ logger' = "closed"
    /\ fault' \in IF display = "live" THEN next ELSE {"display destroyed"}

AddSocket == Pass("socket", "bus")

(* Without a socket main goes on to setenv with NULL, which is undefined:  *)
(* glibc may crash or not.                                                 *)
SocketFails == /\ MayFail("socket") /\ Go("socket", "bus")
               /\ ExitAndError({"none", "no socket"})
               /\ UNCHANGED <<config, async, run, globalServer, ref, handlers,
                              bus, graceful, doomed, signals>>

(* dbus_create_server, init_dbus_modules, server_set_dbus. *)
CreateBus == /\ Go("bus", "thread")
             /\ bus' = "live" /\ ref' = "live"
             /\ UNCHANGED <<config, display, run, globalServer, handlers,
                            logging, graceful, doomed, signals, fault>>

BusFails == /\ MayFail("bus") /\ Go("bus", "thread")
            /\ ExitAndError({"none"})
            /\ UNCHANGED <<config, async, run, globalServer, ref, handlers, bus,
                           graceful, doomed, signals>>

(* dbus_start_main_loop.  It fails on NULL, and main follows the pointer.  *)
StartThread == bus = "live" /\ Pass("thread", "run")

NoBus == bus = "none" /\ Crash("thread", "no bus")

ThreadFails == /\ MayFail("thread") /\ bus = "live" /\ Go("thread", "run")
               /\ bus' = "freed" /\ ref' = "freed"
               /\ ExitAndError({"none"})
               /\ UNCHANGED <<config, async, run, globalServer, handlers,
                              graceful, doomed, signals>>

-----------------------------------------------------------------------------
(* wl_display_run raises the flag and serves until it is down. *)
Run == /\ Go("run", "serving") /\ display = "live"
       /\ run' = TRUE
       /\ UNCHANGED <<config, display, globalServer, ref, handlers, bus,
                      logging, graceful, doomed, signals, fault>>

RunDangling == display = "dangling" /\ Crash("run", "display destroyed")

(* Mutant: the server is left running. *)
LeaveEarly == Pass("serving", "clean_bus")

Leave == ~run /\ Pass("serving", "clean_bus")

CleanBus == /\ Go("clean_bus", "destroy")
            /\ bus' = "freed" /\ ref' = "freed"
            /\ UNCHANGED <<config, display, run, globalServer, handlers,
                           logging, graceful, doomed, signals, fault>>

(* server_cleanup: the display is destroyed, then its pointer cleared.     *)
DestroyDisplay == /\ Go("destroy", "clear")
                  /\ display' = "dangling"
                  /\ UNCHANGED <<config, run, globalServer, ref, handlers, bus,
                                 logging, graceful, doomed, signals, fault>>

ClearDisplay == /\ Go("clear", "clean_logger")
                /\ display' = "null"
                /\ UNCHANGED <<config, run, globalServer, ref, handlers, bus,
                               logging, graceful, doomed, signals, fault>>

CleanLogger == /\ Go("clean_logger", "exited")
               /\ logger' = "closed"
               /\ UNCHANGED <<config, async, wayland, handlers, bus, graceful,
                              doomed, signals, fault>>

-----------------------------------------------------------------------------
(* Mutant: the display is not told. *)
SignalSilent == /\ handlers /\ pc # "exited" /\ Len(signals) < MaxSignals
                /\ signals' = Append(signals, pc)
                /\ graceful' = TRUE
                /\ UNCHANGED <<config, pc, wayland, handlers, bus, logging,
                               doomed, fault>>

(* signal_handler. *)
Signal == /\ handlers /\ pc # "exited" /\ Len(signals) < MaxSignals
          /\ signals' = Append(signals, pc)
          /\ graceful' = TRUE
          /\ run' = IF globalServer /\ display # "null" THEN FALSE ELSE run
          /\ fault' = IF globalServer /\ display = "dangling"
                      THEN "display destroyed" ELSE "none"
          /\ UNCHANGED <<config, pc, display, globalServer, ref, handlers, bus,
                         logging, doomed>>

(* Before the handlers are installed a signal ends the process.            *)
SignalKills == /\ ~handlers /\ pc # "exited" /\ Len(signals) < MaxSignals
               /\ signals' = Append(signals, pc)
               /\ pc' = "exited"
               /\ UNCHANGED <<config, wayland, handlers, bus, logging, graceful,
                              doomed, fault>>

Steps == \/ ParseArgs \/ StartLogger \/ CheckEnv
         \/ ServerInit \/ DisplayFails \/ InitOnNull \/ GlobalFails \/ SetGlobal
         \/ InstallHandlers \/ AddSocket \/ SocketFails
         \/ CreateBus \/ BusFails \/ StartThread \/ NoBus \/ ThreadFails
         \/ Run \/ RunDangling \/ Leave
         \/ CleanBus \/ DestroyDisplay \/ ClearDisplay \/ CleanLogger

(* Without a worker LOG_FATAL itself ends the process.                     *)
Main == \/ (doomed => async) /\ Steps
        \/ FatalEnds

Next == \/ fault = "none" /\ pc # "exited" /\ (Main \/ Signal \/ SignalKills)
        \/ (fault # "none" \/ pc \in {"exited", "serving"}) /\ UNCHANGED vars

Spec == Init /\ [][Next]_vars

(* main runs; nobody has to send a signal. *)
FairSpec == Spec /\ WF_vars(fault = "none" /\ Main)

-----------------------------------------------------------------------------
Pcs == {"args", "env", "init", "init_null", "global", "handlers", "socket",
        "bus", "thread", "run", "serving", "clean_bus", "destroy", "clear",
        "clean_logger", "exited"}
TypeOK == /\ pc \in Pcs
          /\ display \in {"null", "live", "dangling"}
          /\ run \in BOOLEAN /\ globalServer \in BOOLEAN /\ handlers \in BOOLEAN
          /\ bus \in {"none", "live", "freed"} /\ ref = bus
          /\ ConfigTypes
          /\ logger \in {"off", "on", "closed"} /\ async \in BOOLEAN
          /\ graceful \in BOOLEAN /\ doomed \in BOOLEAN
          /\ signals \in Seq(Pcs \ {"exited"}) /\ Len(signals) <= MaxSignals
          /\ fault \in {"none", "no display", "no bus", "no socket",
                        "display destroyed"}

(* While the server serves everything it may use is there: the display,    *)
(* the D-Bus server that attach goes through, the logger.                  *)
ServesLive == pc = "serving" /\ fault = "none" =>
                  display = "live" /\ ref = "live" /\ logger = "on"

CameWhile(l) == \E k \in DOMAIN signals : signals[k] = l

(* A run of main to its end has given everything back, once each           *)
(* (main.c:119-121).                                                       *)
EndsClean == pc = "exited" /\ CameWhile("serving") /\ ~doomed =>
                 display = "null" /\ bus = "freed" /\ logger = "closed"

(* Nothing is used after it was given back, unless a call of the start     *)
(* failed or a second signal came.                                         *)
SafeUntilFailure == fault # "none" =>
                        \/ doomed \/ logger = "closed"
                        \/ Len(signals) >= 2

(* A signal that comes while the server serves stops it, and main ends     *)
(* (main.c:66: "Signal handling for graceful shutdown").                   *)
ServedSignalStops == CameWhile("serving") ~> (pc = "exited" \/ fault # "none")

(* LOG_FATAL is the last thing main does when the logger has no worker     *)
(* (logger.c:158: the application is terminated); with one it may go on,   *)
(* and even crash, until the worker gets there.                            *)
FatalStopsMain == doomed /\ ~async =>
                      /\ pc \in {"init", "init_null", "global", "exited"}
                      /\ fault = "none"

(* At every step, what main relies on is there, what it gave back is gone  *)
(* and not used, and a FATAL message without a worker is the last.         *)
Consistent == TypeOK /\ ServesLive /\ EndsClean /\ SafeUntilFailure
                 /\ FatalStopsMain
=============================================================================
