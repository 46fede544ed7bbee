----------------------------- MODULE DbusServer -----------------------------
(***************************************************************************)
(* The D-Bus server of src/src/dbus-server/server.c as src/src/main.c uses *)
(* it: main starts the loop thread, lets it serve, and at shutdown stops   *)
(* it, waits for it and frees the struct both work on.                     *)
(*                                                                         *)
(* Taking the mutex, and what is done under it up to and including the     *)
(* release, are two steps.  The mutex is a word without an owner, as the   *)
(* default mutex of glibc is: an unlock by a thread that does not hold it  *)
(* releases it all the same.  A step on freed memory, or pthread_detach of *)
(* no thread, sets fault and ends the behaviour.                           *)
(***************************************************************************)
EXTENDS Naturals, Sequences

CONSTANTS Kinds,        \* what may arrive: a subset of AllKinds
          Failures,     \* which calls may fail: a subset of AllFailures
          Emits,        \* whether main may emit a signal, when a client draws
          MaxMessages   \* bound on the messages that arrive

(* Calls of a method a module has, of one that none has, of Introspect; a  *)
(* message for another name; one without interface or member.              *)
AllKinds == {"known", "unknown", "introspect", "foreign", "nomember"}
Calls == {"known", "unknown", "introspect"}
(* pthread_create, the descriptor of the connection, poll; and libdbus,    *)
(* which may have no memory for a reply.                                   *)
AllFailures == {"create", "fd", "poll", "memory"}

ASSUME KindsAssumption == Kinds \subseteq AllKinds
ASSUME FailuresAssumption == Failures \subseteq AllFailures
ASSUME EmitsAssumption == Emits \in BOOLEAN
ASSUME MaxAssumption == MaxMessages \in Nat

VARIABLES main, loop,   \* where the two threads are
          mutex,        \* server->mutex: "free" or "held"
          isRunning,    \* server->is_running
          threadId,     \* server->thread_id: "zero" or "set"
          modules,      \* whether server->modules has any
          connection,   \* whether server->connection is there
          server,       \* "live", or "freed"
          waits,        \* i of the loop in dbus_server_cleanup
          wire,         \* messages in the socket, which poll sees
          queue,        \* messages libdbus has read and nobody popped
          current,      \* the message the loop thread is busy with
          arrived,      \* how many messages arrived (for the bound)
          taken, answers,   \* history: calls popped, replies sent
          lost,             \* history: calls dropped for want of memory
          mishaps,          \* history: what went wrong so far
          fault

resources == <<modules, connection, server, waits>>
lifetime == <<resources, mishaps>>
traffic == <<wire, queue, current, arrived, taken, answers, lost>>
vars == <<main, loop, mutex, isRunning, threadId, lifetime, traffic, fault>>

Init == /\ main = "start_lock" /\ loop = "off"
        /\ mutex = "free" /\ isRunning = FALSE /\ threadId = "zero"
        /\ modules = TRUE /\ connection = TRUE /\ server = "live" /\ waits = 0
        /\ wire = <<>> /\ queue = <<>> /\ current = "none"
        /\ arrived = 0 /\ taken = 0 /\ answers = 0 /\ lost = 0
        /\ mishaps = {} /\ fault = "none"

(* A call of the system that failed, a mutex released that main held, a    *)
(* message read where the loop thread does not look.                       *)
AllMishaps == AllFailures \cup {"unlock", "flush"}
Mishap(x) == mishaps' = mishaps \cup {x}

(* Steps of one thread: a move, taking the mutex, releasing it.  A thread  *)
(* that would touch freed memory does not move: see UseAfterFree.          *)
MainTouches(l) == l \notin {"serving", "done"}
LoopTouches(l) == l \notin {"off", "poll", "exited"}
Safe(touches) == touches => server = "live"

MainGo(from, to) == /\ main = from /\ main' = to /\ Safe(MainTouches(from))
                    /\ UNCHANGED loop
LoopGo(from, to) == /\ loop = from /\ loop' = to /\ Safe(LoopTouches(from))
                    /\ UNCHANGED main
Lock == mutex = "free" /\ mutex' = "held"
Unlock == mutex' = "free"

MainLock(from, to) == /\ MainGo(from, to) /\ Lock
                      /\ UNCHANGED <<isRunning, threadId, lifetime, traffic, fault>>
LoopLock(from, to) == /\ LoopGo(from, to) /\ Lock
                      /\ UNCHANGED <<isRunning, threadId, lifetime, traffic, fault>>

-----------------------------------------------------------------------------
(* dbus_start_main_loop.  pthread_create stores thread_id before the new   *)
(* thread runs.                                                            *)
StartSet == /\ MainGo("start_set", "create")
            /\ isRunning' = TRUE /\ Unlock
            /\ UNCHANGED <<threadId, lifetime, traffic, fault>>

Create == /\ main = "create" /\ main' = "detach"
          /\ loop = "off" /\ loop' = "enter"
          /\ threadId' = "set"
          /\ UNCHANGED <<mutex, isRunning, lifetime, traffic, fault>>

CreateFails == /\ "create" \in Failures
               /\ MainGo("create", "fail_lock")
               /\ Mishap("create")
               /\ UNCHANGED <<mutex, isRunning, threadId, resources, traffic, fault>>

FailSet == /\ MainGo("fail_set", "failed")
           /\ isRunning' = FALSE /\ Unlock
           /\ UNCHANGED <<threadId, lifetime, traffic, fault>>

(* main frees the server when the start failed; EXIT_AND_ERROR does not    *)
(* exit, so it goes on.                                                    *)
Abandon == /\ MainGo("failed", "serving")
           /\ connection' = FALSE /\ server' = "freed"
           /\ UNCHANGED <<mutex, isRunning, threadId, modules, waits, mishaps, traffic, fault>>

Detach == /\ main = "detach"
          /\ IF threadId = "set" THEN main' = "serving" /\ UNCHANGED fault
             ELSE fault' = "detach of no thread" /\ UNCHANGED main
          /\ UNCHANGED <<loop, mutex, isRunning, threadId, lifetime, traffic>>

-----------------------------------------------------------------------------
(* dbus_server_cleanup, with dbus_stop_main_loop inlined.  The step of the *)
(* wait in dbus_stop_main_loop is 0.1 stored in an int, so it counts       *)
(* nothing and the wait has no end of its own.                             *)
Shutdown == /\ MainGo("serving", "stop_lock")
            /\ UNCHANGED <<mutex, isRunning, threadId, lifetime, traffic, fault>>

(* Mutants: dbus_server_cleanup that asks for no more than the flag; a     *)
(* dbus_stop_main_loop that forgets to lower it.                           *)
StopTestOnly == /\ MainGo("stop_test", "modules")
                /\ isRunning' = FALSE /\ Unlock
                /\ UNCHANGED <<threadId, lifetime, traffic, fault>>
StopTestKeeps == /\ MainGo("stop_test", IF isRunning THEN "poll_lock"
                                                     ELSE "wait_lock")
                 /\ Unlock
                 /\ UNCHANGED <<isRunning, threadId, lifetime, traffic, fault>>

StopTest == /\ MainGo("stop_test", IF isRunning /\ threadId = "set"
                                   THEN "poll_lock" ELSE "wait_lock")
            /\ isRunning' = FALSE /\ Unlock
            /\ UNCHANGED <<threadId, lifetime, traffic, fault>>

PollRead == /\ MainGo("poll_read", IF threadId = "zero" THEN "wait_lock"
                                                        ELSE "poll_lock")
            /\ Unlock
            /\ UNCHANGED <<isRunning, threadId, lifetime, traffic, fault>>

WaitRead == /\ MainGo("wait_read", IF threadId = "set" /\ waits < 9
                                   THEN "wait_lock" ELSE "modules")
            /\ waits' = IF threadId = "set" THEN waits + 1 ELSE waits
            /\ Unlock
            /\ UNCHANGED <<isRunning, threadId, modules, connection, server,
                           mishaps, traffic, fault>>

TestModules == /\ MainGo("modules", IF modules THEN "rm_lock" ELSE "unref")
               /\ UNCHANGED <<mutex, isRunning, threadId, lifetime, traffic, fault>>

RemoveModules == /\ MainGo("rm", "unref")
                 /\ modules' = FALSE /\ Unlock
                 /\ UNCHANGED <<isRunning, threadId, connection, server, waits,
                                mishaps, traffic, fault>>

Unref == /\ MainGo("unref", "free")
         /\ connection' = FALSE
         /\ UNCHANGED <<mutex, isRunning, threadId, modules, server, waits,
                        mishaps, traffic, fault>>

Free == /\ MainGo("free", "done")
        /\ server' = "freed"
        /\ UNCHANGED <<mutex, isRunning, threadId, modules, connection, waits,
                       mishaps, traffic, fault>>

(* What main does while it serves and a client attaches a buffer: it sends *)
(* a signal and flushes, and the flush also reads what has come in.        *)
Emit == /\ Emits /\ connection /\ MainGo("serving", "serving")
        /\ queue' = queue \o wire
        /\ wire' = <<>>
        /\ IF wire # <<>> THEN Mishap("flush") ELSE UNCHANGED mishaps
        /\ UNCHANGED <<mutex, isRunning, threadId, resources, current, arrived,
                       taken, answers, lost, fault>>

-----------------------------------------------------------------------------
(* dbus_main_loop_thread: an early return leaves thread_id as it is.       *)
Enter == /\ LoopGo("enter", "run_lock")
         /\ UNCHANGED <<mutex, isRunning, threadId, lifetime, traffic, fault>>

EnterFails == /\ "fd" \in Failures
              /\ LoopGo("enter", "exited")
              /\ Mishap("fd")
              /\ UNCHANGED <<mutex, isRunning, threadId, resources, traffic, fault>>

RunRead == /\ LoopGo("run_read", IF isRunning THEN "poll" ELSE "fin_lock")
           /\ Unlock
           /\ UNCHANGED <<isRunning, threadId, lifetime, traffic, fault>>

(* poll sees the socket and nothing else.                                  *)
Poll == /\ LoopGo("poll", IF wire = <<>> THEN "run_lock" ELSE "read")
        /\ UNCHANGED <<mutex, isRunning, threadId, lifetime, traffic, fault>>

PollFails == /\ "poll" \in Failures
             /\ LoopGo("poll", "fin_lock")
             /\ Mishap("poll")
             /\ UNCHANGED <<mutex, isRunning, threadId, resources, traffic, fault>>

ReadWrite == /\ LoopGo("read", "drain")
             /\ queue' = queue \o wire
             /\ wire' = <<>>
             /\ UNCHANGED <<mutex, isRunning, threadId, lifetime, current,
                            arrived, taken, answers, lost, fault>>

Drained == /\ LoopGo("drain", "run_lock")
           /\ queue = <<>>
           /\ UNCHANGED <<mutex, isRunning, threadId, lifetime, traffic, fault>>

(* Mutant: break for continue. *)
DiscardLeaves == /\ LoopGo("drain", "run_lock")
                 /\ queue # <<>> /\ Head(queue) \notin Calls
                 /\ queue' = Tail(queue)
                 /\ UNCHANGED <<mutex, isRunning, threadId, lifetime, wire,
                                current, arrived, taken, answers, lost, fault>>

(* What is not for us, or names no interface and member, is dropped.       *)
Discard == /\ LoopGo("drain", "drain")
           /\ queue # <<>> /\ Head(queue) \notin Calls
           /\ queue' = Tail(queue)
           /\ UNCHANGED <<mutex, isRunning, threadId, lifetime, wire, current,
                          arrived, taken, answers, lost, fault>>

Route(k) == IF k = "introspect" THEN "intro_lock" ELSE "call_lock"

Pop == /\ queue # <<>> /\ Head(queue) \in Calls
       /\ LoopGo("drain", Route(Head(queue)))
       /\ current' = Head(queue)
       /\ queue' = Tail(queue)
       /\ taken' = taken + 1
       /\ UNCHANGED <<mutex, isRunning, threadId, lifetime, wire, arrived,
                      answers, lost, fault>>

(* A reply leaves, and the thread goes on at to; or libdbus has no memory  *)
(* to build or to queue it, and nobody answers.                            *)
Reply(from, to) == /\ LoopGo(from, to)
                   /\ answers' = answers + 1
                   /\ current' = "none"
                   /\ UNCHANGED <<mutex, isRunning, threadId, lifetime, wire,
                                  queue, arrived, taken, lost, fault>>
NoReply(from, to) == /\ "memory" \in Failures /\ Mishap("memory")
                     /\ LoopGo(from, to)
                     /\ lost' = lost + 1
                     /\ current' = "none"
                     /\ UNCHANGED <<mutex, isRunning, threadId, resources, wire,
                                    queue, arrived, taken, answers, fault>>

(* handle_introspect. *)
Introspect == /\ LoopGo("intro", "intro_reply")
              /\ Unlock
              /\ UNCHANGED <<isRunning, threadId, lifetime, traffic, fault>>

(* Mutants: no return after handle_introspect; a second unlock in it. *)
IntroFalls == Reply("intro_reply", "call_lock")
IntroUnlocks == /\ LoopGo("intro_reply", "drain") /\ Unlock
                /\ answers' = answers + 1 /\ current' = "none"
                /\ UNCHANGED <<isRunning, threadId, lifetime, wire, queue,
                               arrived, taken, lost, fault>>
IntroReply == Reply("intro_reply", "drain") \/ NoReply("intro_reply", "drain")

(* handle_method_call.  The mutex is released before the handler, and once *)
(* more after the loop.  No handler of src asks for the search to go on.   *)
FindMethod ==
    /\ LoopGo("call_find", IF current = "known" /\ modules THEN "handler"
                                                           ELSE "call_error")
    /\ Unlock
    /\ UNCHANGED <<isRunning, threadId, lifetime, traffic, fault>>

(* The handlers of the buffer module.  Without memory Update and Get answer*)
(* NEED_MEMORY, which no one looks at; Set hands libdbus a message that is *)
(* NULL, and libdbus ends the process.                                     *)
Handler == Reply("handler", "unlock_again") \/ NoReply("handler", "unlock_again")
HandlerAborts == /\ "memory" \in Failures /\ Mishap("memory")
                 /\ LoopGo("handler", "handler")
                 /\ fault' = "no message"
                 /\ UNCHANGED <<mutex, isRunning, threadId, resources, traffic>>

UnlockAgain == /\ LoopGo("unlock_again", "drain")
               /\ Unlock
               /\ IF mutex = "held" THEN Mishap("unlock") ELSE UNCHANGED mishaps
               /\ UNCHANGED <<isRunning, threadId, resources, traffic, fault>>

CallError == Reply("call_error", "drain") \/ NoReply("call_error", "drain")

FinSet == /\ LoopGo("fin_set", "fin_unlock")
          /\ threadId' = "zero"
          /\ UNCHANGED <<mutex, isRunning, lifetime, traffic, fault>>

FinUnlock == /\ LoopGo("fin_unlock", "exited")
             /\ Unlock
             /\ UNCHANGED <<isRunning, threadId, lifetime, traffic, fault>>

-----------------------------------------------------------------------------
Arrive == /\ connection /\ arrived < MaxMessages
          /\ \E k \in Kinds : wire' = Append(wire, k)
          /\ arrived' = arrived + 1
          /\ UNCHANGED <<main, loop, mutex, isRunning, threadId, lifetime, queue,
                         current, taken, answers, lost, fault>>

UseAfterFree == /\ server = "freed"
                /\ MainTouches(main) \/ LoopTouches(loop)
                /\ fault' = "use after free"
                /\ UNCHANGED <<main, loop, mutex, isRunning, threadId, lifetime,
                               traffic>>

(* The four pairs of a lock and what follows it, for main and for the loop.*)
MainWork == \/ MainLock("start_lock", "start_set") \/ StartSet
            \/ Create \/ CreateFails
            \/ MainLock("fail_lock", "fail_set") \/ FailSet \/ Abandon
            \/ Detach
            \/ MainLock("stop_lock", "stop_test") \/ StopTest
            \/ MainLock("poll_lock", "poll_read") \/ PollRead
            \/ MainLock("wait_lock", "wait_read") \/ WaitRead
            \/ TestModules
            \/ MainLock("rm_lock", "rm") \/ RemoveModules
            \/ Unref \/ Free

LoopWork == \/ Enter \/ EnterFails
            \/ LoopLock("run_lock", "run_read") \/ RunRead
            \/ Poll \/ PollFails \/ ReadWrite \/ Drained \/ Discard \/ Pop
            \/ LoopLock("intro_lock", "intro") \/ Introspect \/ IntroReply
            \/ LoopLock("call_lock", "call_find") \/ FindMethod
            \/ Handler \/ HandlerAborts \/ UnlockAgain \/ CallError
            \/ LoopLock("fin_lock", "fin_set") \/ FinSet \/ FinUnlock

(* What nobody owes the threads: a client that draws, a signal, a message. *)
Outside == Emit \/ Shutdown \/ Arrive

Alive == fault = "none"

(* The process ends when main does, or at a fault. *)
Ended == /\ main = "done" \/ ~Alive
         /\ UNCHANGED vars

Next == \/ Alive /\ (MainWork \/ LoopWork \/ Outside \/ UseAfterFree)
        \/ Ended

Spec == Init /\ [][Next]_vars

(* Each thread goes on as long as it can.  A thread that competes for the  *)
(* mutex again and again gets it in the end, so fairness is strong.        *)
Fairness == SF_vars(Alive /\ MainWork) /\ SF_vars(Alive /\ LoopWork)
FairSpec == Spec /\ Fairness

-----------------------------------------------------------------------------
MainAt == {"start_lock", "start_set", "create", "fail_lock", "fail_set",
           "failed", "detach", "serving", "stop_lock", "stop_test", "poll_lock",
           "poll_read", "wait_lock", "wait_read", "modules", "rm_lock", "rm",
           "unref", "free", "done"}
LoopAt == {"off", "enter", "run_lock", "run_read", "poll", "read", "drain",
           "intro_lock", "intro", "intro_reply", "call_lock", "call_find",
           "handler", "unlock_again", "call_error", "fin_lock", "fin_set",
           "fin_unlock", "exited"}

TypeOK == /\ main \in MainAt /\ loop \in LoopAt
          /\ mutex \in {"free", "held"}
          /\ isRunning \in BOOLEAN /\ threadId \in {"zero", "set"}
          /\ modules \in BOOLEAN /\ connection \in BOOLEAN
          /\ server \in {"live", "freed"} /\ waits \in 0 .. 10
          /\ wire \in Seq(Kinds) /\ queue \in Seq(Kinds)
          /\ current \in Calls \cup {"none"}
          /\ arrived \in 0 .. MaxMessages
          /\ taken \in 0 .. arrived
          /\ answers \in 0 .. taken /\ lost \in 0 .. taken
          /\ mishaps \subseteq AllMishaps
          /\ fault \in {"none", "detach of no thread", "use after free",
                       "no message"}

MainInside == main \in {"start_set", "fail_set", "stop_test", "poll_read",
                        "wait_read", "rm"}
LoopInside == loop \in {"run_read", "intro", "call_find", "fin_set", "fin_unlock"}

(* Main and the loop thread are never both between a lock and its unlock   *)
(* (server.c:209 speaks of locking again after the handler).               *)
MutualExclusion == ~(MainInside /\ LoopInside)

(* The mutex excludes until the unlock after a handler (server.c:218) hits *)
(* it while main holds it; nothing else, and no failure, breaks it.        *)
ExcludesUntilUnlock == "unlock" \notin mishaps => MutualExclusion

(* What dbus_server_cleanup gives back -- the modules, the connection, the *)
(* server -- it gives back after the loop thread's last use of them.  It   *)
(* rests on the mutex: a thread_id of 0 is not to be seen before the loop  *)
(* thread's last unlock.                                                   *)
ReleasedOnlyAfterExit ==
    "unlock" \notin mishaps
      => (~modules \/ ~connection \/ server = "freed" => loop \in {"off", "exited"})

(* Every variable keeps its type, no call is answered that was not taken,  *)
(* and none taken that did not arrive.  As long as no call of the system   *)
(* fails and the mutex excludes, freed memory is never used and no thread  *)
(* detached that is gone: start and shutdown order all uses of the server  *)
(* (main.c:91 to 119).  A reply that cannot be built does no more than end *)
(* the process.                                                            *)
Consistent == /\ TypeOK
              /\ mishaps \subseteq {"flush", "memory"}
                   => \/ fault = "none"
                      \/ fault = "no message" /\ "memory" \in mishaps

Answering == loop \in {"intro_lock", "intro", "intro_reply", "call_lock",
                       "call_find", "handler", "call_error"}

(* A call that was popped, to us and with an interface, is answered once,  *)
(* before the next message is popped, or dropped because there is no       *)
(* memory for the reply, never both (handle_introspect,                    *)
(* handle_method_call); while there is memory none is dropped.             *)
AnswerOnce == /\ taken = answers + lost + (IF Answering THEN 1 ELSE 0)
              /\ "memory" \notin mishaps => lost = 0

Idle == wire = <<>> /\ queue = <<>> /\ ~Answering

(* As long as main serves, every message that arrived is dealt with: the   *)
(* loop thread is woken for it and drains the queue (server.c:308).  What a*)
(* flush on the main thread has read is the exception: it wakes nobody,    *)
(* nor does a call of the system that failed.  A call that got no reply for*)
(* want of memory has been dealt with, and the loop thread goes on.        *)
EveryCallAnswered ==
    main = "serving" /\ ~Idle
      ~> Idle \/ main # "serving" \/ mishaps \ {"unlock", "memory"} # {} \/ ~Alive

(* dbus_server_cleanup returns, whatever the loop thread is doing when the *)
(* server is told to stop, unless that thread never was or never got to    *)
(* its loop: then the wait of server.c:365, which counts nothing, has no   *)
(* end.                                                                    *)
StopReturns ==
    main = "stop_lock"
      ~> main = "done" \/ mishaps \cap {"create", "fd"} # {} \/ ~Alive
=============================================================================
