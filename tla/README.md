# DesktopEngine in TLA+

A verification of DesktopEngine: a headless Wayland compositor that announces the
buffers of its clients over D-Bus, and the test renderer that draws them. Paths
below are relative to the repository; `server.c:218` is a line of the file that
the section is about.

* [1. The system](#1-the-system)
* [2. The modules](#2-the-modules)
* [3. Conventions](#3-conventions)
* [4. What the runs check](#4-what-the-runs-check)
* [5. Fairness](#5-fairness)
* [6. What is proved](#6-what-is-proved)
* [7. What the code does not guarantee](#7-what-the-code-does-not-guarantee)
* [8. Not modelled](#8-not-modelled)
* [9. Plan](#9-plan)

Run a model with `tlc -config Dbus.cfg DbusServer.tla`, check the proofs with
`tlapm DbusServer_proofs.tla`. `PROJECT.json` lists components, runs, the mutant
each property was tried against, the source lines of each definition, findings,
hazards and theorems.

## 1. The system

The compositor with three threads, its clients, and the renderer with two.

```
 clients --Wayland--> main thread ----log----> ring --> worker thread --> console, file
                        |   ^ SIGINT/SIGTERM     ^
           struct dbus_server (mutex)            |
                        |                        |
                     loop thread -------log------+
                        |
                     D-Bus  --signal "Updated" with a descriptor-->
                                      renderer: receiving thread
                                               |  RenderBuffer_t (no lock)
                                      renderer: main thread --> Vulkan queue
```

| component | state it keeps | operations | what makes it hard |
|---|---|---|---|
| Logger, `src/logger.c` | a ring of messages, flags, `g_log_file` | `logger_init`, `logger_log`, `worker_thread`, `process_message`, `logger_cleanup`, and `signal_handler` of `main.c` | every thread logs; the ring has a mutex, the flags and the file have none; FATAL cleans up on whatever thread prints it |
| D-Bus server, `src/dbus-server/server.c` | `thread_id`, `is_running`, the mutex, the connection, the modules | start, stop, cleanup; the loop: poll, drain, route, answer | two threads, one struct, one of them frees it |
| Module registry, `server.c:381-487`, `module-lib.c` | a singly linked list with head and tail; in each module lists of interfaces and methods | add, remove, remove all, the search for a handler; constructors; Introspect | the search gives the mutex up in the middle of its walk; calls and Introspect walk the same objects by different keys |
| Buffer module, `modules/buffer_module.c` | none | its constructor, three methods, the signal `Updated` | emitted on the main thread over the connection the loop thread reads |
| Pools and buffers, `wayland/shm.c`, `buffer.c` | struct `shm_pool` with a list of buffers; descriptors | create and destroy pool and buffer, end of a client | embedded links, copied descriptors, numbers used again |
| Surfaces, `wayland/compositor*.c` | struct `surface`, `server->surfaces` | create, destroy, attach, end of a client | found by the address of a resource, no destructor |
| xdg-shell, `xdg-shell/*.c` | `surface->xdg_surface` | get_xdg_surface, get_toplevel, destroy | the struct outlives the resources and the other way round |
| Configuration, `src/config.c` | `logger_config`, `server_config` | `parse_args`, `logger_config_read` | the order of options and files decides |
| Process life, `src/main.c`, `wayland/server.c` | display, `global_server`, the three above | start, run, cleanup, signals, `EXIT_AND_ERROR` | a signal between any two steps; each call of the start may fail |
| Renderer: buffers, `test-renderer/src/buffer_mgr.c`, `vulkan_texture.c` | one `RenderBuffer_t`, a mapping, staging memory | receive, map, replace; test, copy, reset | two threads without a lock |
| Renderer: frames, `vulkan.c`, `window.c`, `main.c` | fences, semaphores, swapchain, and some twenty objects made one from the other | set up, draw, recreate, close, clean up | the GPU works on while the CPU reuses; all is destroyed by hand |
| Test clients, `test-client/*.c` | proxies, `frame_count`, `keep_running` | registry, buffer, window, first frame, loop | what they ask for is handled later, and they rely on what comes back |
| Monitor, `test-renderer/buffer_monitor.c` | none | print what arrives | not modelled |

How they interact. `surface_headless_attach` (`compositor_surface.c:139-178`) runs
on the main thread when a client attaches; it fills a `BufferInfo` from struct
`buffer` and calls `buffer_module_send_update_signal`, which sends and flushes on
the connection the loop thread polls. The renderer's receiving thread gets a
descriptor of its own with the signal. `main` starts and stops the loop thread;
both use struct `dbus_server`. Every thread calls the logger. `signal_handler`
raises the logger's shutdown flag and terminates the display.

What should hold of each:

* Logger: messages come out in the order of their acceptance, each once; nothing
  is lost between ring, worker and the threads that write for themselves; the log
  file is not used after `fclose`; FATAL is the last a synchronous thread says.
* D-Bus server: the mutex excludes; nothing is given back while the loop thread
  uses it; every call is answered, once; `dbus_server_cleanup` returns.
* Registry: the pointers are the list that was asked for; nothing destroyed is in
  it; a call that is told "not found" found nothing; Introspect tells of what can
  be called.
* Pools and buffers: no descriptor leaks, none goes stale; a request is accepted
  exactly when its buffer lies in the pool; the announced layout lies in it too.
* Surfaces and roles: a request acts on the struct of the surface it names.
* Test clients: they ask for nothing they may not, and what they wait for comes.
* Process: while it serves all it may use is there; when it ends all is given back.
* Renderer: mappings are accounted for; a copy reads mapped memory, of one buffer;
  every buffer is shown; nothing the GPU uses is overwritten or destroyed; objects
  are made from what there is, and at the end all are gone.

Several of these do not hold without a condition. Where the code breaks one the
property is stated with the exact condition under which it does hold (`mishaps`,
`overlap`, `dropped` below), and section 7 says what happens otherwise.

## 2. The modules

| module | models | state and actions |
|---|---|---|
| `BoundedFifo` | abstract: a queue of bounded length | `fifo`; `Send`, `Receive` |
| `LogQueue` | `enqueue_message`, `dequeue_message`: the array, `head`, `tail`, `size` | `Put`, `Take`; a critical section of `g_log_mutex` is one step. Implements `BoundedFifo` |
| `Logger` | the threads around the ring | `pc[t]` for main, the other threads that log and the worker; one action per access to what threads share, from `LogCall` to `Written`, `WorkerLoop`.. `WorkerIdle`, `CleanupEnter`..`CleanupLower`, `Signal`. EXTENDS `LogQueue` |
| `DbusServer` | main and the loop thread around struct `dbus_server` | `main`, `loop`, the fields of the struct, the messages in the socket (`wire`) and in libdbus (`queue`); `StartSet`..`Detach`, `StopTest`..`Free`, `Poll`..`Pop`, `Route`, `FindMethod`, `Handler`, `UnlockAgain`, ... |
| `ModuleList` | abstract: a sequence of modules, removal by name | `Add`, `RemoveFirst`, `RemoveAll` |
| `DbusModules` | head, tail, next; the walks of remove and remove_all; the search of `handle_method_call` | one step per pointer that is followed. Implements `ModuleList` |
| `DbusObjects` | interfaces and methods of the modules, `create_buffer_module`, `module_find_method`, `handle_introspect` with what it writes | `interfaces`, settled before a module is added; `Call` names an interface, a method and a path; `Introspect(path)` is an operator, as it holds the mutex and changes nothing. EXTENDS `DbusModules` |
| `ShmPool` | requests on pools and buffers, and the ids of a client | a request is one action, as the compositor handles one at a time; `Acquired` and `GivesBack` are what each failing path of `shm_create_pool` has and gives back; `others` are the objects of other files |
| `BufferGeometry` | the numbers of a buffer from the request of a client to the copy on the GPU: the checks of `shm_pool_create_buffer`, `buffer_create_shm`, attach, the signal, its receiver, the texture | `CreateBuffer`, `Attach`, `Receive`, `Update`, one after the other; ints up to `MaxInt` that wrap; a file of any length (`FileSizes`); the conversions to `uint32_t` and `size_t` are `Unsigned` and `Size` |
| `Surfaces` | surfaces, xdg_surfaces, toplevels, resources at addresses | a request is one action |
| `TestClients` | `client-xdg.c` and `client-pure.c` beside any other client, and the way between them and the compositor | `at` is the call a program waits in; `sent` and `events` are on their way, in order; `Start`, `Receive`, `SetUp`, `Draw`, `Loop`, and a `Serve*` action per kind of request. EXTENDS `Surfaces` |
| `Config` | defaults, options, files | one action per option and per line of a file |
| `Engine` | `main`, `server_init`, `server_run`, `server_cleanup`, `signal_handler` | `pc` is where main is. EXTENDS `Config`: `ParseArgs` is a step of it |
| `RenderBuffer` | both threads of the renderer on one `RenderBuffer_t` | one action per access to a field both use |
| `DrawLoop` | window loop, texture update, `draw_frame`, `recreate_swapchain`, and the queue of the GPU | one action per Vulkan call that matters to the properties; `Finish` is the GPU |
| `Renderer` | the same with its objects: `init_window`, `init_vulkan`, every function that creates or destroys, `cleanup_vulkan` | a function is the sequence of its calls; `Call` and `CallFails` take one. EXTENDS `DrawLoop` and implements it |
| `MC*` | values for TLC: symmetry, command lines, requests | |
| `*_proofs` | theorems, see section 6 | |

Composition: `LogQueue` is part of `Logger`, `Config` of `Engine`, `Surfaces` of
`TestClients`, `DbusModules` of `DbusObjects`, `DrawLoop` of `Renderer`; and
`BufferGeometry` goes through four programs' functions with one buffer. The other
components meet in calls that the caller's module shows as one step of its own:
`DbusServer!Emit` is the signal that `RenderBuffer!Arrive` receives, `DbusModules`
refines the bit `modules` of `DbusServer` and its step `FindMethod`, `Engine`
shows logger, D-Bus server and display as "there", "given back" or "dangling".

## 3. Conventions

* `fault`. A step whose outcome C leaves undefined (freed memory, an unmapped
  page, `fclose` twice) sets `fault` and the behaviour is followed no further.
  Where the undefined step may also go well both outcomes are there
  (`Engine!SocketFails`).
* Unlocked reads and writes of a word are atomic, as they are on the builds'
  machines; what is between them is interleaved.
* A default mutex of glibc has no owner: an unlock by a thread that does not hold
  it releases it (`DbusServer!Unlock`).
* `poll` interrupted by a signal is a wakeup without messages.
* Structs are never used twice in a model (`Structs`, `Pools`, `Buffers`,
  `Modules` bound how many are ever made); addresses of resources are
  (`Surfaces!Addrs`), since `get_xdg_surface` compares them.
* A client of libwayland has one sequence of ids for all its objects: it takes the
  next one or one that came back, and its resources are destroyed in the order of
  ids (`ShmPool!FreeIds`, `Disconnect`). `CreateOther` and `DestroyOther` are the
  objects of other files: the callback of a sync, an xdg_surface.
* libwayland delivers no request whose descriptor is missing, so the test `fd < 0` of
  `shm_create_pool` is not among its failing paths (`ShmPool!Acquired`).
* Clients are well-behaved where libwayland or the protocol makes them be:
  objects are named by their owner and not after their destruction; roles are
  made and destroyed in the order xdg-shell asks for.
* History variables are read by no step: `accepted`, `refused`, `called` in
  `Logger`; `taken`, `answers`, `lost`, `mishaps` in `DbusServer`; `order` in
  `DbusModules`; `extents`, `overlap` in `RenderBuffer`; `dropped` in `DrawLoop`;
  `acked`, `shown` in `TestClients`; `signals` in `Engine`. `order` and `signals`
  say what was asked for and when.
* libwayland answers `sync` after what was asked for before it; `wl_display_disconnect`
  flushes nothing, so what the test clients destroy as they end never reaches the
  compositor. `delete_id` and the formats of shm are events nobody acts on and are
  left out; the first may wake `wl_display_dispatch` once more.
* The renderer's `pick_gpu` tests an unset handle against NULL: without a suitable
  device it exits, or fails in the next call; both are `CallFails`. What a host
  array loses when the swapchain is made anew, and the dead stack pointers of
  `query_swapchain_support`, are left out.
* A comment "Mutant:" marks a wrong variant of the action below it. It is no part
  of the specification; each property fails when its mutant takes that place.

## 4. What the runs check

| run | states | bounds and why they are enough | shows |
|---|---|---|---|
| `logger` | 57 121 | main, one more thread, the worker; a ring of 2 and 3 messages, so that it is full, wraps, and refuses; one message FATAL; a signal at any point; a worker that may not be created | `PrintedInOrder`, `AllPrinted`, `NoFault`, `AcceptedIsWritten`, `FatalEnds`, and that the threads together use the ring as a FIFO (`ImplementsFifo`) |
| `dbus` | 113 095 | 3 messages of five kinds; `pthread_create`, the descriptor, `poll` and the memory for a reply failing; emissions and shutdown at any point: two messages reach every pair of drain and answer, the third is in the socket meanwhile | `Consistent`, `ExcludesUntilUnlock`, `ReleasedOnlyAfterExit`, `AnswerOnce`, `EveryCallAnswered`, `StopReturns` |
| `dbus_double_unlock` | | a call with a handler and a main thread that shuts down | violated: `MutualExclusion` |
| `modules` | 455 228 | 3 modules, two of them of one name and with interfaces at one path, constructors that lose any of their methods, an overview with room for one node: removal of first, middle, last, only, and of the first of two; a search during each; one module hiding another | `Consistent`, `IntrospectAgrees`, `ImplementsList`, `NotFoundIsTrue` |
| `shm` | 1 281 278 | 2 clients, 2 pools, 3 buffers, 2 descriptor numbers: a number is used again while a buffer lives; 3 ids and at any time one object of another file per client: the first id comes back from a callback when its pool has the second, and goes to a buffer; every failing path of `shm_create_pool` | `FdsAccounted`, `BufferFdValid`, `HarmNeedsFreedId` |
| `shm_kept` | | one pool and one buffer | violated: `MemoryKept` |
| `geometry` | 93 509 | ints of six bits; requests on both sides of zero, of each other, of the largest int and of the width whose rows an int cannot count; rows with and without slack; files that are shorter, as long and longer than each pool and each accepted buffer | `AcceptedIffFits`, `CopyInPool`, `ShownAsDrawn` |
| `surfaces` | 419 271 | 2 clients, each either test client or any other, 3 structs, 4 addresses: a surface of a gone client and a new one at its address, each with roles; every creation failing, every program stopped or killed at any point | `Consistent`, `WellBehaved`, `Settled` |
| `engine` | 100 415 | command lines of up to 3 arguments over every option, three files, a path too long for its field; each failure of the start, that of a global included; up to 3 signals, so that one is lost before serving, one stops it, one hits the shutdown | `Consistent`, `LastWins`, `ServedSignalStops` |
| `render` | 20 311 | 3 signals of 2 sizes: one shown, one replacing, one replacing the replacement; smaller after larger and larger after smaller | `Consistent`, `RightApart`, `EachShown` |
| `draw` | 6 784 | 2 frames in flight, as `MAX_FRAMES_IN_FLIGHT`; the queue is bounded by the fences; textures and swapchains made anew without bound, every creation failing | `Consistent`, `UsedAreLive`, `GoneUnused`, `FrameIdle`, `NothingInUse`, `FenceHasWorkOnceAcquired`, `CloseEnds` |
| `draw_fence` | | the same loop without its objects | violated: `FenceHasWork` |

Deadlock is checked in all of them: a state without a step is one the program
cannot leave. Ends are explicit (`Ended`, "exited", all clients gone) and stutter.

What the three violations show:

1. `dbus_double_unlock`. `handle_method_call` unlocks the mutex, calls the
   handler, and unlocks it once more (`server.c:205`, `218`). Between the two,
   main may lock it, in `dbus_stop_main_loop`, and find itself inside with the
   loop thread. `server.c:209` shows that the author thought of it, on the other
   path.
2. `shm_kept`. Destroying a pool destroys its live buffers and unmaps them
   (`shm.c:147-153`); the protocol lets a client destroy the pool right after
   `create_buffer` (`wayland.xml:236`).
3. `draw_fence`. `draw_frame` resets the fence twice, first at `vulkan.c:961`,
   before the acquire that may return without a submission; the comment at 974
   says "Only reset the fence if we are submitting work". The frame that follows
   waits for a fence that nothing signals.

Notes on single properties:

* `Consistent` gathers, per module, the type invariant and the invariants that
  relate its state: `Shape` and `LinkedInList` (the pointers of the registry are
  the list, of live modules) with `SafeUntilHandler`; `RoleData`, `ListLive` and
  `FindsOwn` (a role and a search reach live structs only, and the right one);
  `MappingsAccounted` and `FreedAfterExit` (at most two files are mapped, none at
  the end; the struct is freed after the thread is gone); `ServesLive`, `EndsClean`,
  `FatalStopsMain` and `SafeUntilFailure` (what main has while it serves and has
  given back at its end; nothing happens after a FATAL message without a worker);
  in `DbusServer` that nothing is used after it was freed, in `Renderer` that each
  call fits the objects there are. `NothingInUse` gathers `DestroyedIdle`,
  `StagingIdle` and `StaleEnds`.

* `AcceptedIffFits` says, in integers without width, that an accepted request lies
  in the pool; where a row has more bytes than an int counts (`width * 4`
  overflows) it says only what the wrapped arithmetic does: see section 7.
* `FindsOwn` is why `server->surfaces` may keep structs of clients that are gone:
  a new surface goes to the head and the search takes the first match. Its mutant
  appends instead.
* `PrintedInOrder` is `QueuedInOrder` (an accepted message stands on the console
  behind all that were accepted before it, and none stands there twice) and
  `BoundedOvertaking`; both speak of positions in the logs rather than of a filtered
  sequence, which is the form the proofs can use. `AllPrinted` is
  `Accounted` (a message is in the ring, in the hands of a thread, or printed, and
  once only) and `FatalIsLast`.
* `BoundedOvertaking`: a message that a full ring refused is printed by its own
  thread, before those that wait; by `Capacity + 1` at most.
* `StopReturns` needs no timeout: `0.1` is an `int` in the wait of `server.c:363`,
  so the loop has no bound, and the property says that it needs none as long as
  the loop thread once reached its loop.
* `AnswerOnce` counts calls with an interface that were popped: `proccess_message`
  drops a call without one (`server.c:244`), and a call of which libdbus cannot
  build or queue the reply goes without (`NoReply`). Such a call counts as `lost`,
  never as answered, and `lost` stays 0 while there is memory. `EveryCallAnswered` is
  about the way of a message: it is dealt with, which for a lost one means dropped.
* `HarmNeedsFreedId`: the links into freed memory that section 7 names are followed
  only at a buffer with an id that came back to its client. That the client destroyed
  nothing of `shm.c` is not enough: a client's ids are one sequence for all its
  objects, and when the callback with id 3 is gone and the pool has 4, the next
  buffer is 3 and goes before its pool as the client leaves.
* `CopyInPool` and `ShownAsDrawn`: what the renderer copies ends within the length of
  the pool, for every accepted request without an overflow, and leaves the file only
  if the file is shorter than the rows of the request put end to end. Nothing in the
  code makes the file as long as the pool (section 7), so the length of the file is
  any. For buffers like those of the test clients, with no offset and no slack, the
  copy is what the client drew. For others it is not: the signal has no offset, and
  the stride is derived.
* `NotFoundIsTrue`: the search gives the mutex up only for a handler, so a search that
  called none and finds nothing is right at the moment it ends.
* `IntrospectAgrees`: only an older module with an interface at the same path hides
  what can be called, and only the room for a hundred nodes shortens the overview.
* `WellBehaved`: what `Surfaces` assumes of a client holds of the test clients, at
  the time their requests are handled, with the protocol's demand that no buffer be
  attached before the configure event is acknowledged.
* `Settled` says where the test clients end up: in `wl_display_dispatch`, with one
  frame drawn and every event handled. No frame event comes, so neither a second
  frame; and a signal does not end the wait.
* `RightApart`: as long as the two threads do not overlap, what is copied is the
  mapped file with its own size; and it fits the texture only while all buffers have
  one size, since the texture is made for the first and never again (section 7).
* `GoneUnused`: an action property over the objects of a submitted job.
* `StaleEnds`: `create_texture_image` destroys an image that draws in flight
  sample; the wait comes at the end of the update, not before, and this is
  exactly how long the stale use may last.

## 5. Fairness

`FairSpec` of each module gives the threads of the program fairness and nobody
else: not the clients, the bus, the user, the signals or the shutdown.

* `Logger`: weak fairness for the worker, and for a thread that is inside a call of
  the logger. No lock is held across steps, so no step that a thread waits for can
  be taken away from it again.
* `DbusServer`: strong fairness for main and for the loop thread. Both wait for a
  mutex that the other takes again and again; the waiting thread gets it in the
  end, as with the futex of glibc, and weak fairness would not say so.
  Whether a step of main is the start of the shutdown is left out of it.
* `Engine`: weak fairness for main. `RenderBuffer`: for each thread.
  `DrawLoop` and `Renderer`: for the main thread and for the GPU, which finishes
  what it was given. The user has to touch nothing, and creations may succeed.

The runs without liveness use `Spec` (`ObjectsSpec`, `ClientsSpec`); `Settled` is a
statement about the states in which nothing more comes, so it needs no fairness.

## 6. What is proved

tlapm checks, for all values of the constants:

| theorem | assumptions | argument |
|---|---|---|
| `Logger_proofs!QueueTypeInvariant` | Capacity is positive | `QueueTypeOK` contains `RingOK`: `tail` is `size` places after `head`. `Wrap` reduces the remainder to one subtraction |
| `Logger_proofs!QueueRefinesFifo` | | `PutAppends` and `TakeRemoves` say that the contents, read from `head` on, grow at the end and shrink at the front; the refinement follows |
| `Logger_proofs!LoggerTypeInvariant` | | one lemma per group of actions; where a thread holds a message is part of the type |
| `Logger_proofs!LoggerRefinesFifo` | | every step of every thread is a `Put`, a `Take`, or leaves the ring alone |
| `Logger_proofs!LedgerInvariant` | none | `Ledger`: no message is logged twice and what a thread holds is what it logged last (`Calls`); the ring has the end of what was accepted, and the worker's hand the one before (`Waiting`); accepted and refused exclude each other and keep the order of each thread (`Decided`); what is on the console is what was logged and is not `Pending`, likewise the file and `Unfiled` (`Printed`, `Filed`). Each step is an entry in the ledger or passes it by (`Entry`, `Passes`), so every part is shown for a handful of entries and not for each action |
| `Logger_proofs!LogPrintedInOrder` | | the worker's message is the oldest accepted one that is not printed (`PendingWhere`), so it overtakes nothing; what another thread overtakes is in the ring or in that hand, and these are `Capacity + 1` places (`Passed`, `FewPassed`). Neither half is inductive without `Waiting` |
| `Logger_proofs!LogAllPrinted` | | at the end of main every other thread is outside the logger (`Ending`), so what is pending is in the ring or in the worker's hand; without a worker, who logs FATAL is main, alone, and logs nothing more (`Dooming`) |
| `Logger_proofs!LogFileSafe` | | `FileSafe`: a FATAL message went to the worker, or `FileInv`: only main cleans up (`CleanupAlone`), the file is closed or cleared only when main is past the join (`FileState`, `AfterJoin`), the flags tell whether the worker is there (`WorkerFlags`) |
| `DbusServer_proofs!EachAnsweredOnce` | none | `Counted`: what was answered or lost lags by one exactly where the loop thread answers, and by none where it pops; only a mishap `memory` loses |
| `DbusServer_proofs!MutexExcludes`, `NothingReleasedInUse` | none | `Guarded`: until the second unlock takes the mutex from main, `Custody` holds. A thread inside holds the mutex (`Held`); `thread_id` is 0 only before the thread and after its last use of the struct (`Cleared`); where main has seen a 0 under the mutex the thread is gone (`Waited`), unless it never came (`Untold`, `Before`, `NeverStarted`); so what is released is released after it (`Released`). `ReleasedOnlyAfterExit` alone is not inductive: that main saw 0 *under the mutex* is what makes the loop thread's last unlock lie behind it |
| `DbusServer_proofs!ServerConsistent` | none | with `Guarded`, `Calm`: while no call of the system fails (but for the memory of a reply) and the mutex is not taken from main, the loop thread serves until main has told it to stop, and the struct is freed by the last step of main (`Orderly`), so nothing is left that could touch it |
| `ShmPool_proofs!ShmTypeInvariant`, `NoDescriptorLeaks`, `BufferDescriptorsValid` | none | `ShmInv`: a live buffer stands in the list of its pool, the pool is live and their descriptors agree (`Tied`), a live pool has a descriptor (`PoolFds`). It is `Tied` that makes the walk of the destructor find every buffer whose copy would go stale, and it holds although the lists also have dangling entries |
| `ShmPool_proofs!HarmComesOfFreedIds` | none | `HarmInv`: the id of a live pool is at most the highest of its client, so an id below it that a buffer gets is one that came back; and an entry of the list of a live pool that leads to harm (`Harms`: freed, or of a lower id) has such an id (`Sound`). Nothing is made from what is not there yet (`Unmade`). A step keeps `Sound` of the pools it does not disturb (`UndisturbedIsSound`) |
| `TestClients_proofs!SurfacesConsistent`, `ClientsConsistent` | none | `SurfacesInv`: the resource of a surface names a live struct that names it back (`SurfaceData`), and no struct with the same address stands before it in the list (`NoneBefore`), so the search of the compositor finds the right one, stale structs or not; a role knows its surface (`RoleKnown`). The second theorem is the same for the composition with the test clients |
| `TestClients_proofs!ClientsWellBehaved`, `ClientsSettled` | none | `ClientsInv`: what a test client has sent, what the compositor has made of it and what has come back are always a place in the one script the program follows (`InScript`); each place fixes what is there when a request is served, and the last is the wait of `wl_display_dispatch` |
| `DbusObjects_proofs!RegistryConsistent` | none | `RegistryInv`: head, tail and next are the list (`Chain`, `LinkedInList`), and a walk that has begun stands at a place of it, with what it compared behind it (`ClearingPlace`, `SearchPlace`) |
| `DbusObjects_proofs!NoMethodIsTrue` | none | the action property from `SearchPlace`: a search that called nothing has passed every module, none of which it wanted |
| `DbusObjects_proofs!RegistryImplementsList` | none | each step of a walk is a stutter of `ModuleList` but for the one that unlinks; `Chain` says that it unlinks what the list removes |
| `DbusObjects_proofs!IntrospectionAgrees` | a constructor adds interfaces at known paths, and methods; every path has a node | what a module holds is settled by its constructor (`InterfacesOK`). That a path is described by the first module there is `FirstTells`; that the overview names it, or is full, is what the two loops over modules and interfaces compute (`SeeModuleShows`, `OverviewShows`). They are folds, so this is induction: over a set of numbers and not over a predicate (`Induction`, from the least number outside the set; `FoldExists`), as the induction theorems of the library take an operator, which no prover here can instantiate |
| `Engine_proofs!EngineConsistent` | `MaxArgs` and `MaxSignals` are natural numbers, a file is a sequence of lines | `EngineInv`: what is there and what is gone at each point of main (`Present`), which points and which ruins are reached only by a signal or a failure (`Told`), and the configuration that main starts from (`ConfigInv`). `SafeUntilFailure` alone does not say that a display found destroyed had a first signal: `Told` does |
| `Engine_proofs!LastSettingWins` | the same | `SettingsInv`: of the places behind - arguments, and the lines of the files they name, in their order - the last that sets a field decided it, and a field none of them set has its default (`Decided`). A step passes one place, the last so far, and leaves in the configuration what stands there (`ArgumentIsPlace`, `ArgumentSets`, `LineIsPlace`, `LineSettings`: `PassesOne`), or passes none (`PassesNone`: a file is opened or ends); at the end all places are behind |
| `RenderBuffer_proofs!BufferConsistent` | none | `BufferInv`: which file is mapped depends on where the receiving thread is (`Files`): one, or the old and the new between map and unmap |
| `RenderBuffer_proofs!RightWhileApart` | none | `ApartInv`: until an overlap, whoever writes the struct is alone with it, the fields written so far are those of the buffer that is put (`WrittenSoFar`), and what is staged and copied is one buffer with its extent (`Framed`, `Shown`) |
| `RenderBuffer_proofs!ChecksAreExact`, `CopiesStayInPool`, `PlainBuffersShown` | `MaxInt` is a natural number, what a request holds are ints, a pool is a positive int, a file is not empty (of an empty one `mmap` fails) | `GeometryInv`: each of the numbers, once there, is what the functions before it make of the request. The rest is arithmetic: for a row an int can count, no conversion changes a number (`UnsignedKeeps`, `SignedKeeps`, `SizeKeeps`, `RequiredIs`), so the region is `height` rows of `width` pixels, and `ProductGrows` puts its last byte before that of the buffer that was checked; of the length of the file nothing is assumed. The modulus is a constant of the model, `Words`, where the program has 2^32: tlapm has no rules for powers |
| `Renderer_proofs!FramesIdle`, `FencesHaveWork` | `Frames` is positive | `FrameInv`: the queue has one draw of a frame at the most (`OneDraw`) and then its fence is down (`Unsignaled`); a frame in work has its fence down and nothing in the queue (`Working`, `Idle`). `FrameIdle` alone does not survive `Finish`: that the end of a draw raises no fence of another draw is `OneDraw`. `Promised` adds the converse: a fence that is down has a draw or a frame in work, until an acquire is dropped |
| `Renderer_proofs!NothingUsedIsTouched` | `Frames` is positive | `Awaited` and `Emptied`: a copy is in the queue only while it is waited for, a destroyed texture only until then, and the queue is empty where things are destroyed |
| `Renderer_proofs!RendererIsDrawLoop`, `RendererSafe` | `Frames` is positive for the second | a step of the renderer is a step of `DrawLoop` or leaves its variables alone, so the invariants of `DrawLoop` carry over to the specification with objects and failing creations, the one the run checks |
| `Renderer_proofs!ObjectsConsistent`, `ObjectsUsedAreLive` | `Frames` is positive | `ObjectsInv`: the calls left at a point, made one after the other, each fit and lead to the world that belongs to the point (`Runs`, `Goal`); a world is the objects there are and what the descriptor set names. A call takes the first of them (`RunsFirst`); a move of main puts a function of the source in their place, and a lemma for each function says from which world to which it leads (`SetupDoes`, `TextureDoes`, `RecreateDoes`, `TeardownDoes`; `RunsBoth` composes them). `Consistent` alone is not inductive: that the next call fits says nothing of the one after it. The type of the queue is the pigeonhole: each job has a place of its own among the frames and the one copy (`QueueBounded`) |
| `Renderer_proofs!ObjectsGoneUnused` | `Frames` is positive | the action property from `ObjectsInv`, which says what the calls at a point destroy (`Dropped`), and from `Awaited` and `Emptied`, which say what the queue has there |

The action properties and refinements above are proved as such: `NotFoundIsTrue`,
`GoneUnused`, `ImplementsList`, `ImplementsFifo`.

Only model-checked:

* everything under fairness (`AcceptedIsWritten`, `FatalEnds`, `EveryCallAnswered`,
  `StopReturns`, `ServedSignalStops`, `EachShown`, `CloseEnds`): tlapm has no rules
  for it. Every invariant and every action property that a passing run checks is a
  theorem.

## 7. What the code does not guarantee

Found while modelling. The first three are runs; the others are in the models, at
the place named, and bound the conditions of the properties.

| where | what happens | in the model |
|---|---|---|
| `server.c:218` | the mutex is released a second time after a handler | `dbus_double_unlock`; mishap `unlock` |
| `shm.c:147` | the buffers of a destroyed pool are destroyed with it | `shm_kept` |
| `vulkan.c:961` | OUT_OF_DATE at an acquire leaves a fence without work; the renderer hangs | `draw_fence`; `dropped` |
| `logger.c:78` | a message is accepted after the shutdown began, although the comment at line 79 says that none is: the flag is tested before the mutex is taken and not under it. A worker that found the ring empty leaves on the flag (line 177), and the message stays in the ring | `Logger!Offer`, `WorkerIdle`; allowed by `Accounted`, exception of `AcceptedIsWritten` |
| `wayland/server.c:50` | a signal before `wl_display_run` is lost to the display, which begins by undoing what `wl_display_terminate` did, although `main.c:66` installs the handlers "for graceful shutdown"; and the logger is in shutdown mode for the rest | `Engine!Signal`, `Run`; `ServedSignalStops` is about the later ones |
| `vulkan_texture.c:253` | the texture is never made anew for another size: the test compares the one `RenderBuffer_t` with itself, although line 250 speaks of a change of the size. A larger buffer is copied into the image of a smaller one | `RenderBuffer!Texture`; condition `SameExtent` of `RightApart` |
| `server.c:276`, `363` | when the loop thread leaves before its loop, `thread_id` stays set and `dbus_server_cleanup` waits for ever: its step is `0.1` in an `int` | `EnterFails`, `PollRead`; exception of `StopReturns` |
| `server.c:307` | a flush on the main thread may read messages into libdbus, which does not wake `poll`: they wait for the next one from the bus | `Emit`; mishap `flush` |
| `server.c:183`, `227`, `buffer_module.c:60`, `79` | without memory for the reply a call is not answered; NEED_MEMORY, which two handlers return then, is looked at by no one | `NoReply`; `lost`, exception of `AnswerOnce` |
| `buffer_module.c:94`, `107` | the third handler hands libdbus a NULL for a reply it could not build, and libdbus ends the process | `HandlerAborts`; fault `no message` |
| `server.c:244` | a call without an interface, which D-Bus allows, gets neither an answer nor an error | `Discard` |
| `server.c:553` | `pthread_detach` reads `thread_id` without the mutex, and cleanup later waits for a detached thread by that number | `Detach`; exception of `Consistent` |
| `main.c:11`, `97` | `EXIT_AND_ERROR` gives back and goes on: main serves with a destroyed display, or uses a freed D-Bus server | `Engine!ExitAndError`, `DbusServer!Abandon` |
| `shm.c:56` | a freed buffer stays linked in its pool: the next buffer, the end of the pool, or the end of the client writes to freed memory. At the end of a client it needs no request to destroy a buffer or a pool: libwayland takes objects by id (`shm.c:145`), and a buffer with the id of a gone callback goes before its pool | `ShmPool!Crash`, `DestroyedFirst`; bounded by `HarmNeedsFreedId` |
| `shm.c:191` | the file is mapped with the size the client names, without a look at its length. If it is shorter, or made shorter later, the renderer maps what there is (`buffer_mgr.c:22`, `50`), makes its staging buffer of that size, and copies rows that are not in it (`vulkan_texture.c:326`). A file that shrinks while it is mapped ends the program that touches it; that is not modelled | `BufferGeometry!Receive`; bounded by `CopyInPool` |
| `shm.c:78` | `width * 4` wraps for a width of 2^29 and more: the required stride is then smaller than a row | `BufferGeometry!MinStride` |
| `compositor_surface.c:161` | the stride that is announced is derived from the width, not the one of the buffer, and no offset is: the renderer shows other bytes for all but the plainest buffers | `BufferGeometry!Attach`, condition of `ShownAsDrawn` |
| `compositor_region.c`, `positioner.c`, `toplevel.c:21` | requests without a handler end the compositor | `Surfaces!CallUnhandled` |
| `compositor.c:32` | structs of gone clients are never freed; a destroyed surface's resource stays | `Surfaces!Disconnect`, `DestroySurface` |
| `compositor_surface.c:76` | no frame callback is ever created: both test clients wait in `wl_display_dispatch` after their first frame, and `client-xdg` does not end on a signal | `TestClients`, `Settled` |
| `server.c:211` | after NOT_YET_HANDLED the search finds the same handler again, without end; if the handler removed its module, in freed memory | `DbusModules!HandlerReturns`; exception of `Consistent` |
| `server.c:147` | Introspect describes one module per path: another with an interface there is hidden | exception of `IntrospectAgrees` |
| `vulkan.c:836` | the layout, sampler, pool, staging buffer and texture are never destroyed before their device | `Renderer!Forgotten` |
| `buffer_mgr.c:38-58`, `main.c:18` | the two threads of the renderer are not excluded: torn, unmapped or lost buffers | `overlap` |
| `buffer_mgr.c:56` | replaced descriptors are not closed | `open` |
| `vulkan_texture.c:73` | the texture is destroyed while draws use it | `MakeTexture`, bounded by `StaleEnds` |
| `vulkan.c:944` | a window without area makes the loop wait for one event too many, and a close in the meantime is not seen | exception of `CloseEnds` |
| `wayland/server.c:43` | a global that cannot be made is FATAL, yet with a worker main goes on and serves without it until the worker gets there | `Engine!GlobalFails` |
| `main.c:27`, `wayland/server.c:57` | a signal between `wl_display_destroy` and the reset of the pointer uses a destroyed display | exception of `SafeUntilFailure` |
| `config.c:102`, `126` | a path of 255 characters or more ends with a byte of the stack that nobody wrote | `Config!Copied` |
| `logger.c:158` | with a worker, LOG_FATAL returns, and main goes on without a display | `Engine!FatalEnds`, `FatalStopsMain` |
| `config.c:58` | blanks before a value stay, so the booleans of `examples/logger.conf` read as false | `Config!Trimmed` |

## 8. Not modelled

* What the methods of the buffer module answer: fixed strings.
* The XML of Introspect as text, and memory that runs out while it is written: the
  description is the set of what it tells.
* Formats, colours and times of log lines.
* `shm_pool_resize`, which only logs; dmabuf and EGL buffers, which nobody makes.
* Damage, titles, and other requests on a surface that only log; the configure event
  of a toplevel, which `client-xdg` only logs.
* The end of the connection inside libdbus: the bus stays up.
* In the renderer: host memory, the presentation queue apart from the graphics
  queue, and `framebufferResized`, which nobody sets.
* The buffer monitor: it keeps nothing and prints. It expects the signal to carry a
  string, the signal carries a struct.
* Build files, the vendored protocol, scripts, and documents that describe what is
  not in the source (XWayland, outputs).

## 9. Plan

Done: the modules, runs and theorems above. The order was logger, D-Bus server,
pools, surfaces, registry, configuration and process, renderer: from what
every part rests on to what stands at the end of the chain.

Next, in this order:

1. `DbusServer` with the registry in place of its bit.
