-------------------------- MODULE DbusServer_proofs --------------------------
(***************************************************************************)
(* What holds of the D-Bus server for every bound and every choice of the  *)
(* calls that fail: at most one answer to each call, and one to each while *)
(* there is memory for it; mutual exclusion, and nothing given back while  *)
(* it is used, until the second unlock after a handler (server.c:218) hits *)
(* the mutex while main holds it.                                          *)
(***************************************************************************)
EXTENDS DbusServer, TLAPS

(* The steps of main that enter a critical section, and those of the loop. *)
MainEnters == \/ MainLock("start_lock", "start_set")
              \/ MainLock("fail_lock", "fail_set")
              \/ MainLock("stop_lock", "stop_test")
              \/ MainLock("poll_lock", "poll_read")
              \/ MainLock("wait_lock", "wait_read")
              \/ MainLock("rm_lock", "rm")
LoopEnters == \/ LoopLock("run_lock", "run_read")
              \/ LoopLock("intro_lock", "intro")
              \/ LoopLock("call_lock", "call_find")
              \/ LoopLock("fin_lock", "fin_set")

(* Where a call is dealt with: it is answered, or dropped.                 *)
Replies == \/ Reply("intro_reply", "drain") \/ Reply("handler", "unlock_again")
           \/ Reply("call_error", "drain")
Drops == \/ NoReply("intro_reply", "drain") \/ NoReply("handler", "unlock_again")
         \/ NoReply("call_error", "drain")

LEMMA AnswersOrNot ==
    ASSUME IntroReply \/ Handler \/ CallError
    PROVE  Replies \/ Drops
BY DEF IntroReply, Handler, CallError, Replies, Drops

-----------------------------------------------------------------------------
(* AnswerOnce is inductive once the counters are numbers.                  *)
Counted == taken \in Nat /\ answers \in Nat /\ lost \in Nat /\ AnswerOnce

LEMMA CountedMain ==
    ASSUME Counted, MainWork
    PROVE  Counted'
BY DEF Counted, AnswerOnce, Answering, MainWork, MainLock, MainGo, StartSet, Create,
       CreateFails, FailSet, Abandon, Detach, StopTest, PollRead, WaitRead,
       TestModules, RemoveModules, Unref, Free, Mishap, lifetime, traffic

LEMMA CountedLoop ==
    ASSUME Counted, LoopWork
    PROVE  Counted'
<1>1. CASE Enter \/ EnterFails \/ RunRead \/ Poll \/ PollFails \/ ReadWrite \/ Drained
  BY <1>1 DEF Counted, AnswerOnce, Answering, LoopGo, Enter, EnterFails, RunRead,
              Poll, PollFails, ReadWrite, Drained, Mishap, lifetime, traffic
<1>2. CASE Discard \/ Pop
  <2>1. UNCHANGED <<lost, mishaps>>
    BY <1>2 DEF Discard, Pop, lifetime
  <2>2. CASE Discard
    BY <2>1, <2>2 DEF Counted, AnswerOnce, Answering, LoopGo, Discard
  <2>3. CASE Pop
    BY <2>1, <2>3 DEF Counted, AnswerOnce, Answering, LoopGo, Pop, Route
  <2>q. QED BY <1>2, <2>2, <2>3
<1>3. CASE Introspect \/ FindMethod \/ UnlockAgain \/ FinSet \/ FinUnlock
  BY <1>3 DEF Counted, AnswerOnce, Answering, LoopGo, Introspect, FindMethod,
              UnlockAgain, FinSet, FinUnlock, Mishap, lifetime, traffic
<1>4. CASE IntroReply \/ Handler \/ CallError \/ HandlerAborts
  <2>1. CASE Replies
    <3>1. /\ Answering /\ ~Answering' /\ answers' = answers + 1
          /\ UNCHANGED <<taken, lost, mishaps>>
      BY <2>1 DEF Answering, LoopGo, Replies, Reply, lifetime
    <3>q. QED BY <3>1 DEF Counted, AnswerOnce
  <2>2. CASE Drops
    <3>1. /\ Answering /\ ~Answering' /\ lost' = lost + 1
          /\ UNCHANGED <<taken, answers>> /\ "memory" \in mishaps'
      BY <2>2 DEF Answering, LoopGo, Drops, NoReply, Mishap
    <3>q. QED BY <3>1 DEF Counted, AnswerOnce
  <2>3. CASE HandlerAborts
    <3>1. /\ Answering' = Answering /\ "memory" \in mishaps'
          /\ UNCHANGED <<taken, answers, lost>>
      BY <2>3 DEF Answering, LoopGo, HandlerAborts, Mishap, traffic
    <3>q. QED BY <3>1 DEF Counted, AnswerOnce
  <2>q. QED BY <1>4, <2>1, <2>2, <2>3, AnswersOrNot
<1>5. CASE LoopEnters
  BY <1>5 DEF Counted, AnswerOnce, Answering, LoopGo, LoopEnters, LoopLock, lifetime, traffic
<1>q. QED BY <1>1, <1>2, <1>3, <1>4, <1>5 DEF LoopWork, LoopEnters

(* A call is answered once or dropped, before the next message is popped,  *)
(* and while there is memory none is dropped: handle_introspect and        *)
(* handle_method_call reply on every path but that.                        *)
THEOREM EachAnsweredOnce == Spec => []AnswerOnce
<1>1. Init => Counted
  BY DEF Init, Counted, AnswerOnce, Answering
<1>2. Counted /\ [Next]_vars => Counted'
  <2> SUFFICES ASSUME Counted, [Next]_vars PROVE Counted'  OBVIOUS
  <2>1. CASE MainWork  BY <2>1, CountedMain
  <2>2. CASE LoopWork  BY <2>2, CountedLoop
  <2>3. CASE Outside \/ UseAfterFree
    BY <2>3 DEF Outside, UseAfterFree, Emit, Shutdown, Arrive, MainGo, Counted,
                AnswerOnce, Answering, Mishap, lifetime, traffic
  <2>4. CASE UNCHANGED vars
    BY <2>4 DEF vars, lifetime, traffic, Counted, AnswerOnce, Answering
  <2>q. QED BY <2>1, <2>2, <2>3, <2>4 DEF Next, Ended
<1>3. Counted => AnswerOnce  BY DEF Counted
<1>q. QED BY <1>1, <1>2, <1>3, PTL DEF Spec

-----------------------------------------------------------------------------
(* The inductive invariant behind the next two theorems.                   *)

(* A thread inside holds the mutex, so the other one is not inside.        *)
Held == /\ MainInside \/ LoopInside => mutex = "held"
        /\ ~(MainInside /\ LoopInside)

(* thread_id is cleared by nobody but the thread, as its last but one act. *)
Cleared == /\ threadId \in {"zero", "set"}
           /\ threadId = "zero" => loop \in {"off", "fin_unlock", "exited"}

(* Until main tells the loop to stop, either it runs or it never started.  *)
Untold == /\ main = "create" => isRunning
          /\ main \in {"detach", "serving", "stop_lock", "stop_test"}
                => isRunning \/ loop = "off"

(* Before the thread is created there is everything and no thread.         *)
Before == main \in {"start_lock", "start_set", "create"}
             => modules /\ connection /\ server = "live" /\ loop = "off"
NeverStarted == main \in {"fail_lock", "fail_set", "failed"} => loop = "off"

(* Where main has waited long enough, the thread is gone.                  *)
Waited == main \in {"wait_lock", "wait_read", "modules", "rm_lock", "rm",
                    "unref", "free", "done"}
             => loop \in {"off", "exited"}

Released == ~modules \/ ~connection \/ server = "freed"
               => loop \in {"off", "exited"}
Custody == Held /\ Cleared /\ Untold /\ Before /\ NeverStarted /\ Waited
           /\ Released

(* What is proved of it: all, unless the mutex was taken from main.        *)
Guarded == "unlock" \notin mishaps => Custody

LEMMA CustodyMain ==
    ASSUME Custody, MainWork
    PROVE  Custody'
<1> USE DEF Custody, Held, Cleared, Untold, Before, NeverStarted, Waited,
            Released, MainInside, LoopInside, lifetime, resources
<1>1. CASE MainEnters
  BY <1>1 DEF MainEnters, MainLock, MainGo, Lock
<1>2. CASE StartSet \/ CreateFails \/ FailSet \/ Abandon
  BY <1>2 DEF StartSet, CreateFails, FailSet, Abandon, MainGo, Unlock
<1>3. CASE Create
  BY <1>3 DEF Create
<1>4. CASE Detach
  BY <1>4 DEF Detach
<1>5. CASE StopTest
  <2>1. CASE isRunning /\ threadId = "set"
    BY <1>5, <2>1 DEF StopTest, MainGo, Unlock
  <2>2. CASE ~isRunning
    BY <1>5, <2>2 DEF StopTest, MainGo, Unlock
  <2>3. CASE isRunning /\ threadId # "set"
    BY <1>5, <2>3 DEF StopTest, MainGo, Unlock
  <2>q. QED BY <2>1, <2>2, <2>3
<1>6. CASE PollRead \/ WaitRead
  BY <1>6 DEF PollRead, WaitRead, MainGo, Unlock
<1>7. CASE TestModules \/ RemoveModules \/ Unref \/ Free
  BY <1>7 DEF TestModules, RemoveModules, Unref, Free, MainGo, Unlock
<1>q. QED BY <1>1, <1>2, <1>3, <1>4, <1>5, <1>6, <1>7 DEF MainWork, MainEnters

LEMMA CustodyLoop ==
    ASSUME Custody, LoopWork, "unlock" \notin mishaps'
    PROVE  Custody'
<1> USE DEF Custody, Held, Cleared, Untold, Before, NeverStarted, Waited,
            Released, MainInside, LoopInside, lifetime, resources
<1>1. CASE LoopEnters
  BY <1>1 DEF LoopEnters, LoopLock, LoopGo, Lock
<1>2. CASE Enter \/ EnterFails \/ Poll \/ PollFails \/ ReadWrite \/ Drained
  BY <1>2 DEF Enter, EnterFails, Poll, PollFails, ReadWrite, Drained, LoopGo
<1>3. CASE Discard \/ Pop
  BY <1>3 DEF Discard, Pop, Route, LoopGo
<1>4. CASE RunRead \/ Introspect \/ FindMethod
  BY <1>4 DEF RunRead, Introspect, FindMethod, LoopGo, Unlock
<1>5. CASE IntroReply \/ Handler \/ CallError \/ HandlerAborts
  <2>1. /\ loop' \in {"drain", "unlock_again", "handler"}
        /\ loop \in {"intro_reply", "handler", "call_error"}
        /\ UNCHANGED <<main, mutex, isRunning, threadId, modules, connection, server, waits>>
    <3>1. CASE Replies  BY <3>1 DEF Replies, Reply, LoopGo
    <3>2. CASE Drops  BY <3>2 DEF Drops, NoReply, LoopGo
    <3>3. CASE HandlerAborts  BY <3>3 DEF HandlerAborts, LoopGo
    <3>q. QED BY <1>5, <3>1, <3>2, <3>3, AnswersOrNot
  <2>q. QED BY <2>1
<1>6. CASE UnlockAgain
  <2>1. mutex # "held"  BY <1>6 DEF UnlockAgain, Mishap
  <2>q. QED BY <1>6, <2>1 DEF UnlockAgain, LoopGo, Unlock
<1>7. CASE FinSet \/ FinUnlock
  BY <1>7 DEF FinSet, FinUnlock, LoopGo, Unlock
<1>q. QED BY <1>1, <1>2, <1>3, <1>4, <1>5, <1>6, <1>7 DEF LoopWork, LoopEnters

(* A mishap is never forgotten. *)
LEMMA MishapsGrow ==
    ASSUME [Next]_vars
    PROVE  mishaps \subseteq mishaps'
<1> USE DEF lifetime, Mishap
<1>1. CASE MainWork
  BY <1>1 DEF MainWork, MainLock, StartSet, Create, CreateFails, FailSet, Abandon,
              Detach, StopTest, PollRead, WaitRead, TestModules, RemoveModules,
              Unref, Free
<1>2. CASE LoopWork
  BY <1>2 DEF LoopWork, LoopLock, Enter, EnterFails, RunRead, Poll, PollFails,
              ReadWrite, Drained, Discard, Pop, Introspect, IntroReply, FindMethod,
              Handler, HandlerAborts, UnlockAgain, CallError, Reply, NoReply, FinSet,
              FinUnlock
<1>3. CASE Outside \/ UseAfterFree
  BY <1>3 DEF Outside, Emit, Shutdown, Arrive, UseAfterFree
<1>4. CASE UNCHANGED vars
  BY <1>4 DEF vars
<1>q. QED BY <1>1, <1>2, <1>3, <1>4 DEF Next, Ended

LEMMA GuardedInvariant == Spec => []Guarded
<1>1. Init => Guarded
  BY DEF Init, Guarded, Custody, Held, Cleared, Untold, Before, NeverStarted,
         Waited, Released, MainInside, LoopInside
<1>2. Guarded /\ [Next]_vars => Guarded'
  <2> SUFFICES ASSUME Guarded, [Next]_vars, "unlock" \notin mishaps'
               PROVE  Custody'
    BY DEF Guarded
  <2>0. Custody  BY MishapsGrow DEF Guarded
  <2>1. CASE MainWork  BY <2>0, <2>1, CustodyMain
  <2>2. CASE LoopWork  BY <2>0, <2>2, CustodyLoop
  <2> USE DEF Custody, Held, Cleared, Untold, Before, NeverStarted, Waited,
              Released, MainInside, LoopInside, lifetime, resources
  <2>3. CASE Outside
    BY <2>0, <2>3 DEF Outside, Emit, Shutdown, Arrive, MainGo
  <2>4. CASE UseAfterFree
    BY <2>0, <2>4 DEF UseAfterFree
  <2>5. CASE UNCHANGED vars
    BY <2>0, <2>5 DEF vars
  <2>q. QED BY <2>1, <2>2, <2>3, <2>4, <2>5 DEF Next, Ended
<1>q. QED BY <1>1, <1>2, PTL DEF Spec

(* Every lock of server.c has one unlock, whatever fails and however the   *)
(* two threads interleave: the mutex excludes, until the unlock after a    *)
(* handler hits it while main holds it.                                    *)
THEOREM MutexExcludes == Spec => []ExcludesUntilUnlock
<1>1. Guarded => ExcludesUntilUnlock
  BY DEF Guarded, Custody, Held, ExcludesUntilUnlock, MutualExclusion
<1>q. QED BY <1>1, GuardedInvariant, PTL

(* And so far dbus_server_cleanup gives back the modules, the connection   *)
(* and the struct only after the loop thread's last use of them.           *)
THEOREM NothingReleasedInUse == Spec => []ReleasedOnlyAfterExit
<1>1. Guarded => ReleasedOnlyAfterExit
  BY DEF Guarded, Custody, Released, ReleasedOnlyAfterExit
<1>q. QED BY <1>1, GuardedInvariant, PTL

-----------------------------------------------------------------------------
(* Consistent.  What it adds to AnswerOnce: nothing is taken that did not  *)
(* arrive, because what is on its way -- in the socket, read and not yet   *)
(* popped, taken -- arrived; and the wait of dbus_server_cleanup ends at   *)
(* its tenth round.                                                        *)
OnItsWay == Len(wire) + Len(queue) + taken <= arrived

Waiting == {"wait_lock", "wait_read"}
Rounds == /\ waits \in 0 .. 10
          /\ main \in MainAt \ {"modules", "rm_lock", "rm", "unref", "free", "done"}
                => waits <= 9
          /\ main \notin Waiting \cup {"modules", "rm_lock", "rm", "unref", "free", "done"}
                => waits = 0

TypeInv == TypeOK /\ OnItsWay /\ Rounds /\ AnswerOnce

(* The counters are numbers, each at most the next. *)
LEMMA Numbers ==
    ASSUME TypeOK
    PROVE  /\ arrived \in Nat /\ taken \in Nat /\ answers \in Nat
           /\ lost \in Nat
           /\ answers <= taken /\ taken <= arrived /\ arrived <= MaxMessages
<1>1. /\ arrived \in 0 .. MaxMessages /\ taken \in 0 .. arrived
      /\ answers \in 0 .. taken /\ lost \in 0 .. taken
  BY DEF TypeOK
<1>2. arrived \in Nat /\ arrived <= MaxMessages
  BY <1>1, MaxAssumption
<1>3. taken \in Nat /\ taken <= arrived
  BY <1>1, <1>2
<1>q. QED BY <1>1, <1>2, <1>3

LEMMA Between ==
    /\ \A m, n, k \in Nat : m = n + k + 0 \/ m = n + k + 1 => n \in 0 .. m /\ k \in 0 .. m
    /\ \A n \in 0 .. 10 : n <= 9 => n + 1 \in 0 .. 10 /\ (n < 9 => n + 1 <= 9)
OBVIOUS

LEMMA TypeMain ==
    ASSUME TypeInv, MainWork
    PROVE  TypeInv'
<1>1. Counted /\ Counted'
  <2>1. Counted
    BY Numbers DEF Counted, TypeInv
  <2>q. QED BY <2>1, CountedMain
<1>2. UNCHANGED traffic
  BY DEF MainWork, MainLock, StartSet, Create, CreateFails, FailSet, Abandon, Detach,
         StopTest, PollRead, WaitRead, TestModules, RemoveModules, Unref, Free
<1>3. OnItsWay'
  BY <1>2 DEF TypeInv, OnItsWay, traffic
<1>4. /\ main' \in MainAt /\ loop' \in LoopAt /\ mutex' \in {"free", "held"}
      /\ isRunning' \in BOOLEAN /\ threadId' \in {"zero", "set"}
      /\ modules' \in BOOLEAN /\ connection' \in BOOLEAN /\ server' \in {"live", "freed"}
      /\ mishaps' \subseteq AllMishaps
      /\ fault' \in {"none", "detach of no thread", "use after free", "no message"}
  <2> USE DEF TypeInv, TypeOK, MainGo, lifetime, resources, Lock, Unlock
  <2>1. CASE MainEnters
    BY <2>1 DEF MainEnters, MainLock, MainAt
  <2>2. CASE StartSet \/ FailSet \/ Abandon \/ StopTest \/ PollRead \/ WaitRead
    BY <2>2 DEF StartSet, FailSet, Abandon, StopTest, PollRead, WaitRead, MainAt
  <2>3. CASE Create \/ Detach
    BY <2>3 DEF Create, Detach, MainAt, LoopAt
  <2>4. CASE CreateFails
    BY <2>4 DEF CreateFails, Mishap, AllMishaps, AllFailures, MainAt
  <2>5. CASE TestModules \/ RemoveModules \/ Unref \/ Free
    BY <2>5 DEF TestModules, RemoveModules, Unref, Free, MainAt
  <2>q. QED BY <2>1, <2>2, <2>3, <2>4, <2>5 DEF MainWork, MainEnters
<1>5. Rounds'
  <2> USE DEF TypeInv, TypeOK, Rounds, MainGo, lifetime, resources, Waiting, MainAt
  <2>1. CASE MainEnters
    BY <2>1 DEF MainEnters, MainLock
  <2>2. CASE StartSet \/ FailSet \/ Abandon \/ StopTest \/ PollRead
    BY <2>2 DEF StartSet, FailSet, Abandon, StopTest, PollRead
  <2>3. CASE Create \/ Detach \/ CreateFails
    BY <2>3 DEF Create, Detach, CreateFails
  <2>4. CASE WaitRead
    <3>0. waits \in 0 .. 10 /\ waits <= 9
      BY <2>4 DEF WaitRead
    <3>1. /\ main' \in {"wait_lock", "modules"} /\ waits' \in {waits, waits + 1}
          /\ main' = "wait_lock" => waits < 9
      BY <2>4 DEF WaitRead
    <3>2. CASE waits' = waits
      BY <3>0, <3>1, <3>2
    <3>3. CASE waits' = waits + 1
      <4>1. waits + 1 \in 0 .. 10 /\ (waits < 9 => waits + 1 <= 9)
        BY <3>0, Between
      <4>q. QED BY <3>1, <3>3, <4>1
    <3>q. QED BY <3>1, <3>2, <3>3
  <2>5. CASE TestModules \/ RemoveModules \/ Unref \/ Free
    BY <2>5 DEF TestModules, RemoveModules, Unref, Free
  <2>q. QED BY <2>1, <2>2, <2>3, <2>4, <2>5 DEF MainWork, MainEnters
<1>q. QED BY <1>1, <1>2, <1>3, <1>4, <1>5 DEF TypeInv, TypeOK, Rounds, Counted, traffic

(* What read_write moves from the socket to the queue is still on its way; *)
(* what is popped is taken or dropped.                                     *)
LEMMA Reading ==
    ASSUME wire \in Seq(Kinds), queue \in Seq(Kinds)
    PROVE  /\ queue \o wire \in Seq(Kinds) /\ <<>> \in Seq(Kinds)
           /\ Len(queue \o wire) = Len(queue) + Len(wire)
           /\ Len(<<>>) = 0
           /\ Len(wire) \in Nat /\ Len(queue) \in Nat
           /\ queue # <<>> => /\ Tail(queue) \in Seq(Kinds)
                              /\ Len(Tail(queue)) = Len(queue) - 1
                              /\ Len(queue) > 0
OBVIOUS

LEMMA TypeLoop ==
    ASSUME TypeInv, LoopWork
    PROVE  TypeInv'
<1>0. TypeOK /\ OnItsWay /\ Rounds /\ AnswerOnce
  BY DEF TypeInv
<1>1. Counted /\ Counted'
  <2>1. Counted
    BY <1>0, Numbers DEF Counted
  <2>q. QED BY <2>1, CountedLoop
<1>2. /\ UNCHANGED <<main, modules, connection, server, waits, arrived, isRunning>>
      /\ UNCHANGED fault \/ fault' = "no message"
  BY DEF LoopWork, LoopGo, LoopLock, Enter, EnterFails, RunRead, Poll, PollFails,
         ReadWrite, Drained, Discard, Pop, Introspect, IntroReply, FindMethod,
         Handler, HandlerAborts, UnlockAgain, CallError, Reply, NoReply, FinSet,
         FinUnlock, lifetime, resources, traffic
<1>3. Rounds'
  BY <1>0, <1>2 DEF Rounds
<1>4. /\ loop' \in LoopAt /\ mutex' \in {"free", "held"}
      /\ threadId' \in {"zero", "set"} /\ mishaps' \subseteq AllMishaps
  <2> USE <1>0 DEF TypeOK, LoopGo, lifetime, Lock, Unlock, Mishap
  <2>1. CASE LoopEnters
    BY <2>1 DEF LoopEnters, LoopLock, LoopAt
  <2>2. CASE Enter \/ EnterFails \/ Poll \/ PollFails \/ ReadWrite \/ Drained
    BY <2>2 DEF Enter, EnterFails, Poll, PollFails, ReadWrite, Drained, LoopAt,
                AllMishaps, AllFailures
  <2>3. CASE Discard \/ Pop
    BY <2>3 DEF Discard, Pop, Route, LoopAt
  <2>4. CASE RunRead \/ Introspect \/ FindMethod \/ FinSet \/ FinUnlock
    BY <2>4 DEF RunRead, Introspect, FindMethod, FinSet, FinUnlock, LoopAt
  <2>5. CASE IntroReply \/ Handler \/ CallError \/ HandlerAborts
    <3>1. CASE Replies  BY <3>1 DEF Replies, Reply, LoopAt
    <3>2. CASE Drops  BY <3>2 DEF Drops, NoReply, LoopAt, AllMishaps, AllFailures
    <3>3. CASE HandlerAborts
      BY <3>3 DEF HandlerAborts, LoopAt, AllMishaps, AllFailures
    <3>q. QED BY <2>5, <3>1, <3>2, <3>3, AnswersOrNot
  <2>6. CASE UnlockAgain
    BY <2>6 DEF UnlockAgain, LoopAt, AllMishaps
  <2>q. QED BY <2>1, <2>2, <2>3, <2>4, <2>5, <2>6 DEF LoopWork, LoopEnters
<1>5. /\ wire' \in Seq(Kinds) /\ queue' \in Seq(Kinds)
      /\ current' \in Calls \cup {"none"} /\ OnItsWay'
  <2>0. /\ wire \in Seq(Kinds) /\ queue \in Seq(Kinds) /\ taken \in Nat /\ arrived \in Nat
        /\ current \in Calls \cup {"none"} /\ Len(wire) + Len(queue) + taken <= arrived
    BY <1>0, Numbers DEF TypeOK, OnItsWay
  <2>1. CASE ReadWrite
    BY <2>0, <2>1, Reading DEF ReadWrite, OnItsWay
  <2>2. CASE Discard
    BY <2>0, <2>2, Reading DEF Discard, OnItsWay
  <2>3. CASE Pop
    BY <2>0, <2>3, Reading DEF Pop, OnItsWay
  <2>4. CASE IntroReply \/ Handler \/ CallError
    BY <2>0, <2>4, AnswersOrNot DEF Replies, Drops, Reply, NoReply, OnItsWay
  <2>5. CASE UNCHANGED traffic
    BY <2>0, <2>5 DEF traffic, OnItsWay
  <2>6. \/ ReadWrite \/ Discard \/ Pop \/ IntroReply \/ Handler \/ CallError
        \/ UNCHANGED traffic
    BY DEF LoopWork, LoopLock, Enter, EnterFails, RunRead, Poll, PollFails, Drained,
           Introspect, FindMethod, HandlerAborts, UnlockAgain, FinSet, FinUnlock
  <2>q. QED BY <2>1, <2>2, <2>3, <2>4, <2>5, <2>6
<1>6. taken' \in 0 .. arrived'
  <2>1. taken' \in Nat /\ Len(wire') \in Nat /\ Len(queue') \in Nat
    BY <1>1, <1>5 DEF Counted
  <2>3. arrived' \in Nat
    BY <1>0, <1>2, Numbers
  <2>2. Len(wire') + Len(queue') + taken' <= arrived'
    BY <1>5 DEF OnItsWay
  <2>q. QED BY <2>1, <2>2, <2>3
<1>7. answers' \in 0 .. taken' /\ lost' \in 0 .. taken'
  <2>1. taken' \in Nat /\ answers' \in Nat /\ lost' \in Nat
    BY <1>1 DEF Counted
  <2>2. taken' = answers' + lost' + 0 \/ taken' = answers' + lost' + 1
    <3>1. CASE Answering'  BY <1>1, <3>1 DEF Counted, AnswerOnce
    <3>2. CASE ~Answering'  BY <1>1, <3>2 DEF Counted, AnswerOnce
    <3>q. QED BY <3>1, <3>2
  <2>q. QED BY <2>1, <2>2, Between
<1>q. QED BY <1>0, <1>1, <1>2, <1>3, <1>4, <1>5, <1>6, <1>7 DEF TypeInv, TypeOK, Counted

LEMMA TypeInvariant == Spec => []TypeInv
<1>1. Init => TypeInv
  <2> SUFFICES ASSUME Init PROVE TypeInv
    OBVIOUS
  <2>1. /\ arrived \in 0 .. MaxMessages /\ taken \in 0 .. arrived /\ answers \in 0 .. taken
        /\ lost \in 0 .. taken /\ wire \in Seq(Kinds) /\ queue \in Seq(Kinds)
        /\ Len(wire) = 0 /\ Len(queue) = 0
    BY MaxAssumption DEF Init
  <2>2. /\ main \in MainAt /\ loop \in LoopAt /\ waits \in 0 .. 10
        /\ mishaps \subseteq AllMishaps
    BY DEF Init, MainAt, LoopAt
  <2>3. AnswerOnce /\ Rounds /\ OnItsWay
    BY <2>1 DEF Init, AnswerOnce, Answering, Rounds, MainAt, Waiting, OnItsWay
  <2>q. QED BY <2>1, <2>2, <2>3 DEF Init, TypeInv, TypeOK
<1>2. TypeInv /\ [Next]_vars => TypeInv'
  <2> SUFFICES ASSUME TypeInv, [Next]_vars PROVE TypeInv'
    OBVIOUS
  <2>0. /\ wire \in Seq(Kinds) /\ queue \in Seq(Kinds) /\ taken \in Nat /\ arrived \in Nat
        /\ Len(wire) + Len(queue) + taken <= arrived
    BY Numbers DEF TypeInv, TypeOK, OnItsWay
  <2>1. CASE MainWork  BY <2>1, TypeMain
  <2>2. CASE LoopWork  BY <2>2, TypeLoop
  <2>3. CASE Emit
    <3>1. OnItsWay' /\ queue' \in Seq(Kinds) /\ wire' \in Seq(Kinds)
      BY <2>0, <2>3, Reading DEF Emit, OnItsWay
    <3>2. mishaps' \subseteq AllMishaps
      BY <2>3 DEF Emit, Mishap, AllMishaps, TypeInv, TypeOK
    <3>3. /\ UNCHANGED <<main, loop, mutex, isRunning, threadId>>
          /\ UNCHANGED <<modules, connection, server, waits>>
          /\ UNCHANGED <<current, arrived, taken, answers, lost, fault>>
          /\ mishaps \subseteq mishaps'
      BY <2>3 DEF Emit, MainGo, Mishap, resources
    <3>4. TypeOK'
      BY <3>1, <3>2, <3>3 DEF TypeInv, TypeOK
    <3>5. Rounds' /\ AnswerOnce'
      BY <3>3 DEF TypeInv, Rounds, AnswerOnce, Answering
    <3>q. QED BY <3>1, <3>4, <3>5 DEF TypeInv
  <2>4. CASE Shutdown
    <3>1. /\ main = "serving" /\ main' = "stop_lock"
          /\ UNCHANGED <<loop, mutex, isRunning, threadId, mishaps, fault>>
          /\ UNCHANGED <<modules, connection, server, waits>>
          /\ UNCHANGED <<wire, queue, current, arrived, taken, answers, lost>>
      BY <2>4 DEF Shutdown, MainGo, lifetime, resources, traffic
    <3>2. TypeOK'
      BY <3>1 DEF TypeInv, TypeOK, MainAt
    <3>3. OnItsWay' /\ AnswerOnce'
      BY <3>1 DEF TypeInv, OnItsWay, AnswerOnce, Answering
    <3>4. Rounds'
      BY <3>1 DEF TypeInv, Rounds, MainAt, Waiting
    <3>q. QED BY <3>2, <3>3, <3>4 DEF TypeInv
  <2>5. CASE Arrive
    <3>1. PICK k \in Kinds : wire' = Append(wire, k)
      BY <2>5 DEF Arrive
    <3>2. wire' \in Seq(Kinds) /\ Len(wire') = Len(wire) + 1
      BY <2>0, <3>1
    <3>3. arrived' = arrived + 1 /\ arrived' \in 0 .. MaxMessages
      BY <2>0, <2>5, MaxAssumption DEF Arrive
    <3>4. OnItsWay' /\ taken' \in 0 .. arrived'
      <4>1. UNCHANGED <<queue, taken>> /\ Len(wire) \in Nat /\ Len(queue) \in Nat
        BY <2>0, <2>5, Reading DEF Arrive
      <4>q. QED BY <2>0, <3>2, <3>3, <4>1 DEF OnItsWay
    <3>5. UNCHANGED <<main, loop, mutex, isRunning, threadId, modules, connection, server,
                      waits, queue, current, taken, answers, lost, mishaps, fault>>
      BY <2>5 DEF Arrive, lifetime, resources
    <3>6. TypeOK'
      <4>1. TypeOK
        BY DEF TypeInv
      <4>q. QED BY <3>2, <3>3, <3>4, <3>5, <4>1 DEF TypeOK
    <3>7. Rounds' /\ AnswerOnce'
      BY <3>5 DEF TypeInv, Rounds, AnswerOnce, Answering
    <3>q. QED BY <3>4, <3>6, <3>7 DEF TypeInv
  <2>6. CASE UseAfterFree
    <3>1. /\ UNCHANGED <<main, loop, mutex, isRunning, threadId, mishaps>>
          /\ UNCHANGED <<modules, connection, server, waits>>
          /\ UNCHANGED <<wire, queue, current, arrived, taken, answers, lost>>
          /\ fault' = "use after free"
      BY <2>6 DEF UseAfterFree, lifetime, resources, traffic
    <3>2. TypeOK'
      BY <3>1 DEF TypeInv, TypeOK
    <3>q. QED BY <3>1, <3>2 DEF TypeInv, OnItsWay, Rounds, AnswerOnce, Answering
  <2>7. CASE UNCHANGED vars
    <3>1. /\ UNCHANGED <<main, loop, mutex, isRunning, threadId, mishaps, fault>>
          /\ UNCHANGED <<modules, connection, server, waits>>
          /\ UNCHANGED <<wire, queue, current, arrived, taken, answers, lost>>
      BY <2>7 DEF vars, lifetime, resources, traffic
    <3>2. TypeOK'
      BY <3>1 DEF TypeInv, TypeOK
    <3>q. QED BY <3>1, <3>2 DEF TypeInv, OnItsWay, Rounds, AnswerOnce, Answering
  <2>q. QED BY <2>1, <2>2, <2>3, <2>4, <2>5, <2>6, <2>7 DEF Next, Ended, Outside
<1>q. QED BY <1>1, <1>2, PTL DEF Spec

(* While no call of the system fails and the mutex is not taken from main, *)
(* the loop thread serves until main has told it to stop, and the server   *)
(* is freed by the last step of main: nothing is left that could touch it. *)
Orderly == /\ main \notin {"fail_lock", "fail_set", "failed"}
           /\ main \in {"detach", "serving", "stop_lock", "stop_test"}
                 => loop \notin {"off", "fin_lock", "fin_set", "fin_unlock", "exited"}
           /\ server = "freed" => main = "done"
           /\ fault = "none" \/ (fault = "no message" /\ "memory" \in mishaps)

Calm == mishaps \subseteq {"flush", "memory"} => Orderly

LEMMA OrderlyMain ==
    ASSUME Custody, Orderly, MainWork, mishaps' \subseteq {"flush", "memory"}
    PROVE  Orderly'
<1>1. CASE MainEnters
  BY <1>1 DEF Orderly, MainEnters, MainLock, MainGo, lifetime, resources
<1>2. CASE StartSet \/ CreateFails \/ FailSet \/ Abandon
  BY <1>2 DEF Orderly, StartSet, CreateFails, FailSet, Abandon, MainGo, Mishap,
              lifetime, resources
<1>3. CASE Create
  BY <1>3 DEF Orderly, Create, lifetime, resources
<1>4. CASE Detach
  BY <1>4 DEF Orderly, Detach, Custody, Cleared, lifetime, resources
<1>5. CASE StopTest \/ PollRead \/ WaitRead
  BY <1>5 DEF Orderly, StopTest, PollRead, WaitRead, MainGo, lifetime, resources
<1>6. CASE TestModules \/ RemoveModules \/ Unref \/ Free
  BY <1>6 DEF Orderly, TestModules, RemoveModules, Unref, Free, MainGo, lifetime, resources
<1>q. QED BY <1>1, <1>2, <1>3, <1>4, <1>5, <1>6 DEF MainWork, MainEnters

LEMMA OrderlyLoop ==
    ASSUME Custody, Orderly, LoopWork, mishaps' \subseteq {"flush", "memory"}
    PROVE  Orderly'
<1>1. CASE LoopEnters
  BY <1>1 DEF Orderly, LoopEnters, LoopLock, LoopGo, lifetime, resources
<1>2. CASE Enter \/ EnterFails \/ Poll \/ PollFails \/ ReadWrite \/ Drained
  <2>1. CASE EnterFails \/ PollFails
    BY <2>1 DEF EnterFails, PollFails, Mishap
  <2>2. CASE Enter \/ Poll \/ ReadWrite \/ Drained
    BY <2>2 DEF Orderly, Enter, Poll, ReadWrite, Drained, LoopGo, lifetime, resources
  <2>q. QED BY <1>2, <2>1, <2>2
<1>3. CASE Discard \/ Pop
  BY <1>3 DEF Orderly, Discard, Pop, Route, LoopGo, lifetime, resources
<1>4. CASE RunRead
  BY <1>4 DEF Orderly, Custody, Untold, RunRead, LoopGo, lifetime, resources
<1>5. CASE Introspect \/ FindMethod \/ UnlockAgain
  <2>1. CASE Introspect \/ FindMethod
    BY <2>1 DEF Orderly, Introspect, FindMethod, LoopGo, lifetime, resources
  <2>2. CASE UnlockAgain
    <3>1. mishaps' = mishaps \/ "unlock" \in mishaps'
      BY <2>2 DEF UnlockAgain, Mishap
    <3>2. UNCHANGED mishaps
      BY <3>1
    <3>q. QED BY <2>2, <3>2 DEF Orderly, UnlockAgain, LoopGo, resources
  <2>q. QED BY <1>5, <2>1, <2>2
<1>6. CASE IntroReply \/ Handler \/ CallError \/ HandlerAborts
  <2>1. CASE Replies
    BY <2>1 DEF Orderly, Replies, Reply, LoopGo, lifetime, resources
  <2>2. CASE Drops
    BY <2>2 DEF Orderly, Drops, NoReply, LoopGo, Mishap, resources
  <2>3. CASE HandlerAborts
    BY <2>3 DEF Orderly, HandlerAborts, LoopGo, Mishap, resources
  <2>q. QED BY <1>6, <2>1, <2>2, <2>3, AnswersOrNot
<1>7. CASE FinSet \/ FinUnlock
  BY <1>7 DEF Orderly, FinSet, FinUnlock, LoopGo, lifetime, resources
<1>q. QED BY <1>1, <1>2, <1>3, <1>4, <1>5, <1>6, <1>7 DEF LoopWork, LoopEnters

(* No call is answered that was not taken, and none taken that did not     *)
(* arrive; and while no call of the system fails and the mutex excludes,   *)
(* start and shutdown order every use of the server (main.c:91 to 119):    *)
(* nothing freed is used, no thread is detached that is gone, and a reply  *)
(* that cannot be built does no more than end the process.                 *)
THEOREM ServerConsistent == Spec => []Consistent
<1>1. Init => Calm
  BY DEF Init, Calm, Orderly
<1>2. Guarded /\ Calm /\ [Next]_vars => Calm'
  <2> SUFFICES ASSUME Guarded, Calm, [Next]_vars, mishaps' \subseteq {"flush", "memory"}
               PROVE  Orderly'
    BY DEF Calm
  <2>0. Custody /\ Orderly
    BY MishapsGrow DEF Guarded, Calm
  <2>1. CASE MainWork  BY <2>0, <2>1, OrderlyMain
  <2>2. CASE LoopWork  BY <2>0, <2>2, OrderlyLoop
  <2>3. CASE Outside
    <3>1. CASE Emit
      BY <2>0, <3>1 DEF Emit, MainGo, Mishap, Orderly, resources
    <3>2. CASE Shutdown \/ Arrive
      BY <2>0, <3>2 DEF Shutdown, Arrive, MainGo, Orderly, lifetime, resources
    <3>q. QED BY <2>3, <3>1, <3>2 DEF Outside
  <2>4. CASE UseAfterFree
    BY <2>0, <2>4 DEF UseAfterFree, Orderly, Custody, Released, MainTouches, LoopTouches
  <2>5. CASE UNCHANGED vars
    BY <2>0, <2>5 DEF vars, Orderly, lifetime, resources
  <2>q. QED BY <2>1, <2>2, <2>3, <2>4, <2>5 DEF Next, Ended
<1>3. TypeInv /\ Calm => Consistent
  BY DEF TypeInv, Calm, Orderly, Consistent
<1>q. QED BY <1>1, <1>2, <1>3, GuardedInvariant, TypeInvariant, PTL DEF Spec
=============================================================================
