-------------------------- MODULE Renderer_proofs --------------------------
(***************************************************************************)
(* What DrawLoop keeps apart, for any number of frames in flight: nothing  *)
(* is recorded, destroyed or overwritten that the GPU may be using.  And   *)
(* the renderer with its objects does no more than DrawLoop: what holds of *)
(* the draw loop holds of it.  Its own objects are made, used and          *)
(* destroyed in an order that fits, whatever the window does.              *)
(***************************************************************************)
EXTENDS Renderer, SequenceTheorems, FiniteSetTheorems, TLAPS

LoopTypes == /\ currentFrame \in Slots
             /\ fence \in [Slots -> BOOLEAN]
             /\ queue \in Seq(Jobs)
             /\ dropped \in BOOLEAN

IsDraw(k, f) == queue[k].kind = "draw" /\ queue[k].frame = f

(* The GPU has one draw of a frame at the most, and its fence is not       *)
(* signaled while it has one.                                              *)
OneDraw == \A j, k \in 1 .. Len(queue), f \in Slots :
              IsDraw(j, f) /\ IsDraw(k, f) => j = k
Unsignaled == \A k \in 1 .. Len(queue), f \in Slots :
                 IsDraw(k, f) => fence[f] = FALSE

(* What the frame in work is waiting for, from its reset on: its own draw. *)
InWork == {"acquire", "reset_again", "record", "submit"}
Working == pc \in InWork => fence[currentFrame] = FALSE
Idle == pc \in InWork \cup {"reset"}
           => \A k \in 1 .. Len(queue) : ~IsDraw(k, currentFrame)

FrameInv == LoopTypes /\ OneDraw /\ Unsignaled /\ Working /\ Idle

-----------------------------------------------------------------------------
LEMMA FramesAreSlots == 0 \in Slots
BY FramesAssumption DEF Slots

(* (currentFrame + 1) % MAX_FRAMES_IN_FLIGHT is a frame.                   *)
LEMMA NextIsSlot ==
    ASSUME currentFrame \in Slots, NextFrame
    PROVE  currentFrame' \in Slots
BY FramesAssumption DEF Slots, NextFrame

(* Steps that leave queue, fence and frame, and start no work.             *)
LEMMA FrameQuiet ==
    ASSUME FrameInv, UNCHANGED <<currentFrame, fence, queue>>,
           dropped' \in BOOLEAN,
           pc' \in InWork => pc \in InWork,
           pc' = "reset" => pc = "reset"
    PROVE  FrameInv'
BY DEF FrameInv, LoopTypes, OneDraw, Unsignaled, Working, Idle, IsDraw, InWork

(* The next frame begins from "poll", where no frame is in work.           *)
LEMMA FrameAdvances ==
    ASSUME FrameInv, NextFrame \/ UNCHANGED currentFrame,
           UNCHANGED <<fence, queue, dropped>>, pc' = "poll"
    PROVE  FrameInv'
BY NextIsSlot
   DEF FrameInv, LoopTypes, OneDraw, Unsignaled, Working, Idle, IsDraw, InWork

(* A signaled fence says that the GPU has no draw of its frame.            *)
LEMMA FrameWaits ==
    ASSUME FrameInv, WaitFence
    PROVE  FrameInv'
<1>1. /\ pc' = "reset" /\ fence[currentFrame]
      /\ UNCHANGED <<currentFrame, fence, queue, dropped>>
  BY DEF WaitFence, Go, gpu
<1>2. \A k \in 1 .. Len(queue) : ~IsDraw(k, currentFrame)
  BY <1>1 DEF FrameInv, LoopTypes, Unsignaled
<1>q. QED
  BY <1>1, <1>2
     DEF FrameInv, LoopTypes, OneDraw, Unsignaled, Working, Idle, IsDraw, InWork

LEMMA FrameResets ==
    ASSUME FrameInv,
           Reset("reset", "acquire") \/ Reset("reset_again", "record")
    PROVE  FrameInv'
<1>1. /\ pc \in {"reset", "reset_again"} /\ pc' \in {"acquire", "record"}
      /\ fence' = [fence EXCEPT ![currentFrame] = FALSE]
      /\ UNCHANGED <<currentFrame, queue, dropped>>
  BY DEF Reset, Go
<1>q. QED
  BY <1>1
     DEF FrameInv, LoopTypes, OneDraw, Unsignaled, Working, Idle, IsDraw, InWork

-----------------------------------------------------------------------------
(* A job at the end of the queue.                                          *)
LEMMA JobAppended ==
    ASSUME queue \in Seq(Jobs), NEW j \in Jobs, queue' = Append(queue, j)
    PROVE  /\ queue' \in Seq(Jobs) /\ Len(queue') = Len(queue) + 1
           /\ Len(queue) \in Nat
           /\ \A k \in 1 .. Len(queue) : queue'[k] = queue[k]
           /\ queue'[Len(queue) + 1] = j
OBVIOUS

LEMMA CopySubmitted ==
    ASSUME FrameInv, SubmitCopy
    PROVE  FrameInv'
<1> DEFINE j == Job("copy", currentFrame)
<1>1. j \in Jobs /\ j.kind = "copy"
  BY DEF FrameInv, LoopTypes, Job, Jobs
<1>2. /\ pc' = "copy_wait" /\ queue' = Append(queue, j)
      /\ UNCHANGED <<currentFrame, fence, dropped>>
  BY DEF SubmitCopy, Go
<1>3. PICK c \in Jobs : c = j
  BY <1>1
<1>4. /\ queue' \in Seq(Jobs) /\ Len(queue') = Len(queue) + 1
      /\ Len(queue) \in Nat
      /\ \A k \in 1 .. Len(queue) : queue'[k] = queue[k]
      /\ queue'[Len(queue) + 1] = c
  BY <1>2, <1>3, JobAppended DEF FrameInv, LoopTypes
<1>5. \A k \in 1 .. Len(queue'), f \in Slots :
         IsDraw(k, f)' => k \in 1 .. Len(queue) /\ IsDraw(k, f)
  BY <1>1, <1>3, <1>4 DEF IsDraw
<1>q. QED
  BY <1>2, <1>4, <1>5 DEF FrameInv, LoopTypes, OneDraw, Unsignaled, Working,
                          Idle, InWork

(* A draw is submitted when the GPU has none of that frame.                *)
LEMMA DrawSubmitted ==
    ASSUME FrameInv, Submit
    PROVE  FrameInv'
<1> DEFINE j == Job("draw", currentFrame)
<1>1. j \in Jobs /\ j.frame = currentFrame
  BY DEF FrameInv, LoopTypes, Job, Jobs
<1>2. /\ pc = "submit" /\ pc' = "present" /\ queue' = Append(queue, j)
      /\ UNCHANGED <<currentFrame, fence, dropped>>
  BY DEF Submit, Go
<1>3. PICK c \in Jobs : c = j /\ c.frame = currentFrame
  BY <1>1
<1>4. /\ queue' \in Seq(Jobs) /\ Len(queue') = Len(queue) + 1
      /\ Len(queue) \in Nat
      /\ \A k \in 1 .. Len(queue) : queue'[k] = queue[k]
      /\ queue'[Len(queue) + 1] = c
  BY <1>2, <1>3, JobAppended DEF FrameInv, LoopTypes
<1>5. \A k \in 1 .. Len(queue'), f \in Slots :
         IsDraw(k, f)' => IF k \in 1 .. Len(queue) THEN IsDraw(k, f)
                          ELSE k = Len(queue) + 1 /\ f = currentFrame
  BY <1>1, <1>3, <1>4 DEF IsDraw
<1>6. /\ fence[currentFrame] = FALSE
      /\ \A k \in 1 .. Len(queue) : ~IsDraw(k, currentFrame)
  BY <1>2 DEF FrameInv, Working, Idle, InWork
<1>7. OneDraw'
  BY <1>4, <1>5, <1>6 DEF FrameInv, OneDraw
<1>8. Unsignaled'
  BY <1>2, <1>5, <1>6 DEF FrameInv, Unsignaled
<1>q. QED
  BY <1>2, <1>4, <1>7, <1>8 DEF FrameInv, LoopTypes, Working, Idle, InWork

LEMMA JobMarked ==
    ASSUME NEW j \in Jobs, NEW m, m = [j EXCEPT !.texture = "destroyed"]
    PROVE  m \in Jobs /\ m.kind = j.kind /\ m.frame = j.frame
BY DEF Jobs

(* The jobs stay what they are but for the texture.                        *)
LEMMA TexturesMarked ==
    ASSUME queue \in Seq(Jobs), MakeTexture
    PROVE  /\ queue' \in Seq(Jobs) /\ Len(queue') = Len(queue)
           /\ \A k \in 1 .. Len(queue) : /\ queue'[k].kind = queue[k].kind
                                         /\ queue'[k].frame = queue[k].frame
<1>1. queue' = [k \in 1 .. Len(queue) |->
                   [queue[k] EXCEPT !.texture = "destroyed"]]
  BY DEF MakeTexture
<1>2. \A k \in 1 .. Len(queue) :
         /\ queue'[k] \in Jobs
         /\ queue'[k].kind = queue[k].kind
         /\ queue'[k].frame = queue[k].frame
  <2> SUFFICES ASSUME NEW k \in 1 .. Len(queue)
               PROVE  /\ queue'[k] \in Jobs
                      /\ queue'[k].kind = queue[k].kind
                      /\ queue'[k].frame = queue[k].frame
    OBVIOUS
  <2>1. queue[k] \in Jobs
    OBVIOUS
  <2>2. queue'[k] = [queue[k] EXCEPT !.texture = "destroyed"]
    BY <1>1
  <2>q. QED BY <2>1, <2>2, JobMarked
<1>3. queue' \in [1 .. Len(queue) -> Jobs] /\ Len(queue) \in Nat
  BY <1>1, <1>2
<1>4. queue' \in Seq(Jobs) /\ Len(queue') = Len(queue)
  BY <1>3
<1>q. QED BY <1>2, <1>4

LEMMA FrameMarked ==
    ASSUME FrameInv, MakeTexture
    PROVE  FrameInv'
<1>1. /\ pc' = "copy" /\ UNCHANGED <<currentFrame, fence, dropped>>
  BY DEF MakeTexture, Go
<1>2. /\ queue' \in Seq(Jobs) /\ Len(queue') = Len(queue)
      /\ \A k \in 1 .. Len(queue), f \in Slots : IsDraw(k, f)' <=> IsDraw(k, f)
  BY TexturesMarked, <1>1 DEF FrameInv, LoopTypes, IsDraw
<1>q. QED BY <1>1, <1>2 DEF FrameInv, LoopTypes, OneDraw, Unsignaled, Working,
                            Idle, InWork

-----------------------------------------------------------------------------
(* What is left of the queue when its first job is done.                   *)
LEMMA JobFinished ==
    ASSUME queue \in Seq(Jobs), queue # <<>>, queue' = Tail(queue)
    PROVE  /\ queue' \in Seq(Jobs) /\ Len(queue) \in Nat \ {0}
           /\ Len(queue') = Len(queue) - 1
           /\ \A k \in 1 .. Len(queue') : k + 1 \in 1 .. Len(queue)
                                          /\ queue'[k] = queue[k + 1]
           /\ Head(queue) = queue[1] /\ queue[1] \in Jobs
OBVIOUS

(* The end of a draw signals the fence of a frame that is not in work.     *)
LEMMA DrawFinished ==
    ASSUME FrameInv, Finish
    PROVE  FrameInv'
<1>1. /\ UNCHANGED <<pc, currentFrame, dropped>>
      /\ fence' = IF Head(queue).kind = "draw"
                  THEN [fence EXCEPT ![Head(queue).frame] = TRUE] ELSE fence
  BY DEF Finish
<1>2. /\ queue' \in Seq(Jobs) /\ Len(queue) \in Nat \ {0}
      /\ Len(queue') = Len(queue) - 1
      /\ \A k \in 1 .. Len(queue') : k + 1 \in 1 .. Len(queue)
                                     /\ queue'[k] = queue[k + 1]
      /\ Head(queue) = queue[1] /\ queue[1] \in Jobs
  BY JobFinished DEF Finish, FrameInv, LoopTypes
<1>3. \A k \in 1 .. Len(queue'), f \in Slots :
         IsDraw(k, f)' => k + 1 \in 1 .. Len(queue) /\ IsDraw(k + 1, f)
  BY <1>2 DEF IsDraw
<1>4. /\ fence' \in [Slots -> BOOLEAN]
      /\ \A f \in Slots : fence'[f] = fence[f] \/ IsDraw(1, f)
  BY <1>1, <1>2 DEF FrameInv, LoopTypes, IsDraw, Jobs
<1>5. OneDraw'
  BY <1>2, <1>3 DEF FrameInv, OneDraw
<1>6. Unsignaled'
  <2> SUFFICES ASSUME NEW k \in 1 .. Len(queue'), NEW f \in Slots, IsDraw(k, f)'
               PROVE  fence'[f] = FALSE
    BY DEF Unsignaled
  <2>1. k + 1 \in 1 .. Len(queue) /\ IsDraw(k + 1, f)
    BY <1>3
  <2>2. 1 \in 1 .. Len(queue) /\ k + 1 # 1
    BY <1>2
  <2>3. ~IsDraw(1, f)
    BY <2>1, <2>2 DEF FrameInv, OneDraw
  <2>q. QED BY <2>1, <2>3, <1>4 DEF FrameInv, Unsignaled
<1>7. Working' /\ Idle'
  <2>1. currentFrame \in Slots /\ 1 \in 1 .. Len(queue)
    BY <1>2 DEF FrameInv, LoopTypes
  <2>2. pc \in InWork \cup {"reset"} => ~IsDraw(1, currentFrame)
    BY <2>1 DEF FrameInv, Idle
  <2>3. Working'
    BY <1>1, <1>4, <2>1, <2>2 DEF FrameInv, Working
  <2>4. Idle'
    <3> SUFFICES ASSUME pc \in InWork \cup {"reset"},
                        NEW k \in 1 .. Len(queue'), IsDraw(k, currentFrame)'
                 PROVE  FALSE
      BY <1>1 DEF Idle, IsDraw
    <3>1. k + 1 \in 1 .. Len(queue) /\ IsDraw(k + 1, currentFrame)
      BY <1>1, <1>3, <2>1 DEF IsDraw
    <3>q. QED BY <3>1 DEF FrameInv, Idle
  <2>q. QED BY <2>3, <2>4
<1>q. QED BY <1>1, <1>2, <1>4, <1>5, <1>6, <1>7 DEF FrameInv, LoopTypes

-----------------------------------------------------------------------------
LEMMA FrameStart == Init => FrameInv
BY FramesAreSlots
   DEF Init, FrameInv, LoopTypes, OneDraw, Unsignaled, Working, Idle, InWork, IsDraw

LEMMA FrameStep ==
    ASSUME FrameInv, [Next]_vars
    PROVE  FrameInv'
<1>1. CASE SetUp \/ PollEvents \/ TestDirty \/ Stage \/ CopyWait \/ Measure \/ Look
           \/ WaitEvents \/ SwapIdle \/ CloseIdle \/ Cleanup
  BY <1>1, FrameQuiet
     DEF SetUp, PollEvents, TestDirty, Stage, CopyWait, Measure, Look, WaitEvents,
         SwapIdle, CloseIdle, Cleanup, Go, InWork, gpu, FrameInv, LoopTypes
<1>2. CASE Acquire \/ AcquireOutOfDate \/ Record \/ PresentOutdated \/ Die
  BY <1>2, FrameQuiet
     DEF Acquire, AcquireOutOfDate, Record, PresentOutdated, Die, Go, InWork,
         gpu, FrameInv, LoopTypes
<1>3. CASE Resize \/ Minimise \/ Restore \/ Close \/ UNCHANGED vars
  BY <1>3, FrameQuiet
     DEF Resize, Minimise, Restore, Close, Happens, vars, gpu, InWork, FrameInv,
         LoopTypes
<1>4. CASE Present \/ Swap
  BY <1>4, FrameAdvances DEF Present, Swap, Go, gpu
<1>5. CASE MakeTexture \/ SubmitCopy \/ Submit \/ Finish
  BY <1>5, FrameMarked, CopySubmitted, DrawSubmitted, DrawFinished
<1>6. CASE WaitFence \/ Reset("reset", "acquire") \/ Reset("reset_again", "record")
  BY <1>6, FrameWaits, FrameResets
<1>q. QED
  BY <1>1, <1>2, <1>3, <1>4, <1>5, <1>6 DEF Next, Main, DrawFrame, Recreate

LEMMA FrameInvariant == Spec => []FrameInv
<1>1. FrameInv /\ [Next]_vars => FrameInv'
  BY FrameStep
<1>q. QED BY <1>1, FrameStart, PTL DEF Spec

(* Pending is what stands in the queue.                                    *)
LEMMA PendingByPlace ==
    ASSUME queue \in Seq(Jobs), NEW j \in Pending
    PROVE  \E k \in 1 .. Len(queue) : j = queue[k]
BY DEF Pending

-----------------------------------------------------------------------------
(* What else the queue may have, and where it is empty: a copy only while  *)
(* it is waited for, a destroyed texture only until then.                  *)
Awaited == \A k \in 1 .. Len(queue) :
              /\ queue[k].kind = "copy" => pc = "copy_wait"
              /\ queue[k].texture = "destroyed" => pc \in {"copy", "copy_wait"}
Emptied == pc \in {"swap", "cleanup"} => queue = <<>>

(* A semaphore is signaled between the acquire of its frame and the submit.*)
Semaphores == /\ acquired \in [Slots -> BOOLEAN]
              /\ \A f \in Slots :
                    acquired[f] = TRUE =>
                       \/ pc = "died"
                       \/ /\ pc \in {"reset_again", "record", "submit"}
                          /\ f = currentFrame

LEMMA QueueQuiet ==
    ASSUME Awaited, Emptied, UNCHANGED queue,
           pc \in {"copy", "copy_wait"} => pc' = pc,
           pc' \in {"swap", "cleanup"} => pc \in {"swap", "cleanup"} \/ queue = <<>>
    PROVE  Awaited' /\ Emptied'
BY DEF Awaited, Emptied

LEMMA QueueStep ==
    ASSUME FrameInv, Awaited, Emptied, [Next]_vars
    PROVE  Awaited' /\ Emptied'
<1> USE DEF Go, gpu, QueueIdle
<1>1. CASE SetUp \/ PollEvents \/ TestDirty \/ Stage \/ Measure \/ Look
           \/ WaitEvents \/ SwapIdle \/ CloseIdle \/ Cleanup
  BY <1>1, QueueQuiet
     DEF SetUp, PollEvents, TestDirty, Stage, Measure, Look, WaitEvents, SwapIdle,
         CloseIdle, Cleanup
<1>2. CASE WaitFence \/ Reset("reset", "acquire") \/ Reset("reset_again", "record")
           \/ Acquire \/ AcquireOutOfDate \/ Record \/ Present \/ PresentOutdated
           \/ Swap \/ Die
  BY <1>2, QueueQuiet
     DEF WaitFence, Reset, Acquire, AcquireOutOfDate, Record, Present,
         PresentOutdated, Swap, Die
<1>3. CASE Resize \/ Minimise \/ Restore \/ Close \/ UNCHANGED vars
  BY <1>3, QueueQuiet DEF Resize, Minimise, Restore, Close, Happens, vars
<1>4. CASE CopyWait
  BY <1>4 DEF CopyWait, Awaited, Emptied
<1>5. CASE MakeTexture
  <2>1. /\ pc = "make" /\ pc' = "copy" /\ Len(queue') = Len(queue)
        /\ \A k \in 1 .. Len(queue) : queue'[k].kind = queue[k].kind
    BY <1>5, TexturesMarked DEF MakeTexture, FrameInv, LoopTypes
  <2>q. QED BY <2>1 DEF Awaited, Emptied
<1>6. CASE SubmitCopy \/ Submit
  <2>1. PICK c \in Jobs : /\ queue' = Append(queue, c) /\ c.texture = "live"
                          /\ c.kind = "copy" => pc' = "copy_wait"
    <3>1. CASE SubmitCopy
      BY <3>1 DEF SubmitCopy, Job, Jobs, FrameInv, LoopTypes
    <3>2. CASE Submit
      BY <3>2 DEF Submit, Job, Jobs, FrameInv, LoopTypes
    <3>q. QED BY <1>6, <3>1, <3>2
  <2>2. \/ pc = "copy" /\ pc' = "copy_wait"
        \/ pc = "submit" /\ pc' = "present"
    BY <1>6 DEF SubmitCopy, Submit
  <2>3. /\ Len(queue') = Len(queue) + 1 /\ Len(queue) \in Nat
        /\ \A k \in 1 .. Len(queue) : queue'[k] = queue[k]
        /\ queue'[Len(queue) + 1] = c
    BY <2>1, JobAppended DEF FrameInv, LoopTypes
  <2>q. QED BY <2>1, <2>2, <2>3 DEF Awaited, Emptied
<1>7. CASE Finish
  <2>1. /\ pc' = pc /\ queue # <<>>
        /\ \A k \in 1 .. Len(queue') : k + 1 \in 1 .. Len(queue)
                                       /\ queue'[k] = queue[k + 1]
    BY <1>7, JobFinished DEF Finish, FrameInv, LoopTypes
  <2>q. QED BY <2>1 DEF Awaited, Emptied
<1>q. QED
  BY <1>1, <1>2, <1>3, <1>4, <1>5, <1>6, <1>7 DEF Next, Main, DrawFrame, Recreate

LEMMA QueueInvariant == Spec => [](Awaited /\ Emptied)
<1>1. Init => Awaited /\ Emptied
  BY DEF Init, Awaited, Emptied
<1>2. FrameInv /\ (Awaited /\ Emptied) /\ [Next]_vars => (Awaited /\ Emptied)'
  BY QueueStep
<1>q. QED BY <1>1, <1>2, FrameInvariant, PTL DEF Spec

-----------------------------------------------------------------------------
LEMMA SemaphoreStep ==
    ASSUME FrameInv, Semaphores, [Next]_vars
    PROVE  Semaphores'
<1> USE DEF Go, gpu, Semaphores, FrameInv, LoopTypes
<1>1. CASE SetUp \/ PollEvents \/ TestDirty \/ Stage \/ MakeTexture \/ SubmitCopy
           \/ CopyWait \/ Measure \/ Look \/ WaitEvents \/ SwapIdle \/ CloseIdle
           \/ Cleanup
  BY <1>1 DEF SetUp, PollEvents, TestDirty, Stage, MakeTexture, SubmitCopy, CopyWait,
              Measure, Look, WaitEvents, SwapIdle, CloseIdle, Cleanup
<1>2. CASE WaitFence \/ Reset("reset", "acquire") \/ Reset("reset_again", "record")
           \/ AcquireOutOfDate \/ Record \/ Present \/ PresentOutdated \/ Swap \/ Die
  BY <1>2 DEF WaitFence, Reset, AcquireOutOfDate, Record, Present,
              PresentOutdated, Swap, Die
<1>3. CASE Acquire
  BY <1>3 DEF Acquire
<1>4. CASE Submit
  BY <1>4 DEF Submit
<1>5. CASE Finish \/ Resize \/ Minimise \/ Restore \/ Close \/ UNCHANGED vars
  BY <1>5 DEF Finish, Resize, Minimise, Restore, Close, Happens, vars
<1>q. QED
  BY <1>1, <1>2, <1>3, <1>4, <1>5 DEF Next, Main, DrawFrame, Recreate

LEMMA SemaphoreInvariant == Spec => []Semaphores
<1>1. Init => Semaphores
  BY DEF Init, Semaphores
<1>2. FrameInv /\ Semaphores /\ [Next]_vars => Semaphores'
  BY SemaphoreStep
<1>q. QED BY <1>1, <1>2, FrameInvariant, PTL DEF Spec

-----------------------------------------------------------------------------
(* For any number of frames in flight: the GPU has nothing of the frame    *)
(* draw_frame works on, from the wait for its fence to its submission, and *)
(* its semaphore is free when an image is acquired (vulkan.c:958-999).     *)
THEOREM FramesIdle == Spec => []FrameIdle
<1>1. FrameInv /\ Semaphores => FrameIdle
  <2> SUFFICES ASSUME FrameInv, Semaphores PROVE FrameIdle
    OBVIOUS
  <2>1. ASSUME pc \in {"reset", "acquire", "reset_again", "record", "submit"}
        PROVE  ~Drawing(currentFrame)
    <3> SUFFICES ASSUME NEW j \in Pending,
                        j.kind = "draw", j.frame = currentFrame
                 PROVE  FALSE
      BY DEF Drawing
    <3>1. PICK k \in 1 .. Len(queue) : j = queue[k]
      BY PendingByPlace DEF FrameInv, LoopTypes
    <3>2. ~IsDraw(k, currentFrame)
      BY <2>1 DEF FrameInv, Idle, InWork
    <3>q. QED BY <3>1, <3>2 DEF IsDraw
  <2>2. pc \in {"reset", "acquire"} => ~acquired[currentFrame]
    BY DEF Semaphores, FrameInv, LoopTypes
  <2>q. QED BY <2>1, <2>2 DEF FrameIdle
<1>q. QED BY <1>1, FrameInvariant, SemaphoreInvariant, PTL

(* For any number of frames in flight: what is destroyed (vulkan.c:949,    *)
(* window.c:39) or overwritten (the staging buffer) the GPU does not use,  *)
(* and a draw with a destroyed texture is done when the update of the      *)
(* texture returns (vulkan_texture.c:73 and 375).                          *)
THEOREM NothingUsedIsTouched == Spec => []NothingInUse
<1>1. Emptied => DestroyedIdle
  BY DEF Emptied, DestroyedIdle, QueueIdle
<1>2. FrameInv /\ Awaited => StagingIdle
  BY PendingByPlace DEF FrameInv, LoopTypes, Awaited, StagingIdle
<1>3. FrameInv /\ Awaited => StaleEnds
  BY PendingByPlace DEF FrameInv, LoopTypes, Awaited, StaleEnds
<1>4. FrameInv /\ Awaited /\ Emptied => NothingInUse
  BY <1>1, <1>2, <1>3 DEF NothingInUse
<1>q. QED BY <1>4, FrameInvariant, QueueInvariant, PTL

-----------------------------------------------------------------------------
(* A fence that is not signaled is one whose frame is drawn or in work, as *)
(* long as no acquire has ended with OUT_OF_DATE.                          *)
HasDraw(f) == \E k \in 1 .. Len(queue) : IsDraw(k, f)
Promised == \/ dropped = TRUE
            \/ pc = "died"
            \/ \A f \in Slots : fence[f] = FALSE =>
                  HasDraw(f) \/ (f = currentFrame /\ pc \in InWork)

LEMMA PromiseQuiet ==
    ASSUME Promised, UNCHANGED <<fence, queue>>,
           UNCHANGED dropped \/ dropped' = TRUE,
           pc = "died" => pc' = "died",
           pc \in InWork => /\ pc' \in InWork \cup {"died"} \/ dropped' = TRUE
                            /\ UNCHANGED currentFrame
    PROVE  Promised'
BY DEF Promised, HasDraw, IsDraw, InWork

LEMMA PromiseStep ==
    ASSUME FrameInv, Promised, [Next]_vars
    PROVE  Promised'
<1> USE DEF Go, gpu
<1>1. CASE SetUp \/ PollEvents \/ TestDirty \/ Stage \/ CopyWait \/ Measure \/ Look
           \/ WaitEvents \/ SwapIdle \/ CloseIdle \/ Cleanup
  BY <1>1, PromiseQuiet
     DEF SetUp, PollEvents, TestDirty, Stage, CopyWait, Measure, Look, WaitEvents,
         SwapIdle, CloseIdle, Cleanup, InWork
<1>2. CASE WaitFence \/ Acquire \/ AcquireOutOfDate \/ Record \/ Present
           \/ PresentOutdated \/ Swap \/ Die
  BY <1>2, PromiseQuiet
     DEF WaitFence, Acquire, AcquireOutOfDate, Record, Present, PresentOutdated,
         Swap, Die, InWork
<1>3. CASE Resize \/ Minimise \/ Restore \/ Close \/ UNCHANGED vars
  BY <1>3, PromiseQuiet DEF Resize, Minimise, Restore, Close, Happens, vars, InWork
<1>4. CASE Reset("reset", "acquire") \/ Reset("reset_again", "record")
  BY <1>4 DEF Reset, Promised, HasDraw, IsDraw, InWork, FrameInv, LoopTypes
<1>5. CASE MakeTexture
  <2>1. /\ pc = "make" /\ UNCHANGED <<fence, dropped>> /\ Len(queue') = Len(queue)
        /\ \A k \in 1 .. Len(queue), f \in Slots : IsDraw(k, f) => IsDraw(k, f)'
    BY <1>5, TexturesMarked DEF MakeTexture, FrameInv, LoopTypes, IsDraw
  <2>q. QED BY <2>1 DEF Promised, HasDraw, InWork
<1>6. CASE SubmitCopy \/ Submit
  <2>1. PICK c \in Jobs : /\ queue' = Append(queue, c)
                          /\ pc = "submit" =>
                                c.kind = "draw" /\ c.frame = currentFrame
    <3>1. CASE SubmitCopy
      BY <3>1 DEF SubmitCopy, Job, Jobs, FrameInv, LoopTypes
    <3>2. CASE Submit
      BY <3>2 DEF Submit, Job, Jobs, FrameInv, LoopTypes
    <3>q. QED BY <1>6, <3>1, <3>2
  <2>2. /\ Len(queue') = Len(queue) + 1 /\ Len(queue) \in Nat
        /\ \A k \in 1 .. Len(queue) : queue'[k] = queue[k]
        /\ queue'[Len(queue) + 1] = c
    BY <2>1, JobAppended DEF FrameInv, LoopTypes
  <2>3. \A f \in Slots : HasDraw(f) => HasDraw(f)'
    BY <2>2 DEF HasDraw, IsDraw
  <2>4. pc = "submit" => HasDraw(currentFrame)'
    <3>1. Len(queue) + 1 \in 1 .. Len(queue')
      BY <2>2
    <3>2. UNCHANGED currentFrame
      BY <1>6 DEF SubmitCopy, Submit
    <3>q. QED BY <2>1, <2>2, <3>1, <3>2 DEF HasDraw, IsDraw
  <2>5. pc \in {"copy", "submit"} /\ UNCHANGED <<fence, currentFrame, dropped>>
    BY <1>6 DEF SubmitCopy, Submit
  <2>q. QED BY <2>3, <2>4, <2>5 DEF Promised, InWork, HasDraw, IsDraw
<1>7. CASE Finish
  <2>1. /\ UNCHANGED <<pc, currentFrame, dropped>>
        /\ fence' = IF Head(queue).kind = "draw"
                    THEN [fence EXCEPT ![Head(queue).frame] = TRUE] ELSE fence
        /\ queue # <<>> /\ queue' = Tail(queue)
    BY <1>7 DEF Finish
  <2>2. /\ Len(queue) \in Nat \ {0} /\ Len(queue') = Len(queue) - 1
        /\ \A k \in 1 .. Len(queue') : queue'[k] = queue[k + 1]
        /\ Head(queue) = queue[1] /\ queue[1] \in Jobs
    BY <2>1, JobFinished DEF FrameInv, LoopTypes
  <2>3. \A f \in Slots : fence'[f] = FALSE => fence[f] = FALSE /\ ~IsDraw(1, f)
    BY <2>1, <2>2 DEF FrameInv, LoopTypes, IsDraw, Jobs
  <2>4. ASSUME NEW f \in Slots, fence'[f] = FALSE, HasDraw(f)
        PROVE  HasDraw(f)'
    <3>1. PICK k \in 1 .. Len(queue) : IsDraw(k, f)
      BY <2>4 DEF HasDraw
    <3>2. k # 1
      BY <2>3, <2>4, <3>1
    <3>3. k - 1 \in 1 .. Len(queue') /\ queue'[k - 1] = queue[k]
      BY <2>2, <3>2
    <3>q. QED BY <3>1, <3>3 DEF HasDraw, IsDraw
  <2>q. QED BY <2>1, <2>3, <2>4 DEF Promised, HasDraw, IsDraw
<1>q. QED
  BY <1>1, <1>2, <1>3, <1>4, <1>5, <1>6, <1>7 DEF Next, Main, DrawFrame, Recreate

(* A fence that draw_frame waits for has work before it, unless an acquire *)
(* has ended with OUT_OF_DATE (vulkan.c:959-967).                          *)
THEOREM FencesHaveWork == Spec => []FenceHasWorkOnceAcquired
<1>1. Init => Promised
  BY DEF Init, Promised
<1>2. FrameInv /\ Promised /\ [Next]_vars => Promised'
  BY PromiseStep
<1>3. FrameInv /\ Promised => FenceHasWorkOnceAcquired
  <2> SUFFICES ASSUME FrameInv, Promised, ~dropped,
                      pc = "wait", ~fence[currentFrame]
               PROVE  Drawing(currentFrame)
    BY DEF FenceHasWorkOnceAcquired, FenceHasWork
  <2>1. HasDraw(currentFrame)
    BY DEF Promised, FrameInv, LoopTypes, InWork
  <2>2. PICK k \in 1 .. Len(queue) : IsDraw(k, currentFrame)
    BY <2>1 DEF HasDraw
  <2>3. queue[k] \in Pending
    BY DEF Pending, FrameInv, LoopTypes
  <2>q. QED BY <2>2, <2>3 DEF Drawing, IsDraw
<1>q. QED BY <1>1, <1>2, <1>3, FrameInvariant, PTL DEF Spec

-----------------------------------------------------------------------------
(* The renderer: the draw loop and the objects it makes.                   *)

(* A call is a stuttering step of DrawLoop; a failing one is a Die.        *)
LEMMA CallsStutter ==
    ASSUME Call \/ CallFails
    PROVE  UNCHANGED vars \/ Die
<1>1. CASE Call
  BY <1>1 DEF Call
<1>2. CASE CallFails
  BY <1>2 DEF CallFails, Die, Go
<1>q. QED BY <1>1, <1>2

LEMMA ObjectsStep ==
    ASSUME [NextObjects]_allVars
    PROVE  [Next]_vars
<1>1. CASE ~Ended /\ (Call \/ CallFails)
  BY <1>1, CallsStutter DEF Next
<1>2. CASE ~Ended /\ Move
  BY <1>2 DEF Move, Next
<1>3. CASE ~Ended /\ (FrameFails \/ Around)
  BY <1>3 DEF FrameFails, Around, Next
<1>4. CASE UNCHANGED allVars
  BY <1>4 DEF allVars
<1>q. QED BY <1>1, <1>2, <1>3, <1>4 DEF NextObjects

(* Creating and destroying Vulkan's objects, in the order of init_vulkan,  *)
(* update_vulkan_texture_from_buffer, recreate_swapchain and               *)
(* cleanup_vulkan, takes the main thread nowhere DrawLoop does not.        *)
THEOREM RendererIsDrawLoop == ObjectsSpec => Spec
<1>1. InitObjects => Init
  BY DEF InitObjects
<1>2. [NextObjects]_allVars => [Next]_vars
  BY ObjectsStep
<1>q. QED BY <1>1, <1>2, PTL DEF ObjectsSpec, Spec

(* So the renderer records, destroys and overwrites nothing the GPU is     *)
(* using at the points where it waits (vulkan.c:949 and 959, window.c:39), *)
(* and a fence it waits for has work, unless an acquire was OUT_OF_DATE.   *)
THEOREM RendererSafe ==
    ObjectsSpec => [](FrameIdle /\ NothingInUse /\ FenceHasWorkOnceAcquired)
BY RendererIsDrawLoop, FramesIdle, NothingUsedIsTouched, FencesHaveWork, PTL

-----------------------------------------------------------------------------
(* One copy at the most: it is waited for before the next.                 *)
OneCopy == \A j, k \in 1 .. Len(queue) :
              queue[j].kind = "copy" /\ queue[k].kind = "copy" => j = k

LEMMA CopyStep ==
    ASSUME FrameInv, Awaited, OneCopy, [Next]_vars
    PROVE  OneCopy'
<1>1. CASE UNCHANGED queue
  BY <1>1 DEF OneCopy
<1>2. CASE MakeTexture
  BY <1>2, TexturesMarked DEF OneCopy, FrameInv, LoopTypes
<1>3. CASE Finish
  <2>1. /\ Len(queue) \in Nat \ {0} /\ Len(queue') = Len(queue) - 1
        /\ \A k \in 1 .. Len(queue') : k + 1 \in 1 .. Len(queue)
                                       /\ queue'[k] = queue[k + 1]
    BY <1>3, JobFinished DEF Finish, FrameInv, LoopTypes
  <2> SUFFICES ASSUME NEW j \in 1 .. Len(queue'), NEW k \in 1 .. Len(queue'),
                      queue'[j].kind = "copy", queue'[k].kind = "copy"
               PROVE  j = k
    BY DEF OneCopy
  <2>2. /\ j + 1 \in 1 .. Len(queue) /\ queue[j + 1].kind = "copy"
        /\ k + 1 \in 1 .. Len(queue) /\ queue[k + 1].kind = "copy"
    BY <2>1
  <2>3. j + 1 = k + 1
    BY <2>2 DEF OneCopy
  <2>q. QED BY <2>1, <2>3
<1>4. ASSUME NEW c \in Jobs, queue' = Append(queue, c),
             \A k \in 1 .. Len(queue) : queue[k].kind # "copy"
      PROVE  OneCopy'
  <2>1. /\ Len(queue') = Len(queue) + 1 /\ Len(queue) \in Nat
        /\ \A k \in 1 .. Len(queue) : queue'[k] = queue[k]
    BY <1>4, JobAppended DEF FrameInv, LoopTypes
  <2>q. QED BY <1>4, <2>1 DEF OneCopy
<1>5. CASE SubmitCopy \/ Submit
  <2>1. pc # "copy_wait" /\ \E c \in Jobs : queue' = Append(queue, c)
    BY <1>5 DEF SubmitCopy, Submit, Go, Job, Jobs, FrameInv, LoopTypes
  <2>q. QED BY <1>4, <2>1 DEF Awaited
<1>6. UNCHANGED queue \/ MakeTexture \/ Finish \/ SubmitCopy \/ Submit
  BY DEF Next, Main, DrawFrame, Recreate, SetUp, PollEvents, TestDirty, Stage, CopyWait,
         WaitFence, Reset, Acquire, AcquireOutOfDate, Record, Present,
         PresentOutdated, Measure, Look, WaitEvents, SwapIdle, Swap, CloseIdle, Cleanup,
         Die, Resize, Minimise, Restore, Close, Happens, vars, gpu
<1>q. QED BY <1>1, <1>2, <1>3, <1>5, <1>6

LEMMA CopyInvariant == Spec => []OneCopy
<1>1. Init => OneCopy
  BY DEF Init, OneCopy
<1>2. FrameInv /\ Awaited /\ OneCopy /\ [Next]_vars => OneCopy'
  BY CopyStep
<1>q. QED BY <1>1, <1>2, FrameInvariant, QueueInvariant, PTL DEF Spec

(* Each job has a place of its own among the frames and the one copy.      *)
LEMMA QueueBounded ==
    ASSUME FrameInv, OneCopy
    PROVE  Len(queue) <= Frames + 1
<1> DEFINE place == [k \in 1 .. Len(queue) |->
                        IF queue[k].kind = "copy" THEN Frames ELSE queue[k].frame]
<1>1. /\ Len(queue) \in Nat /\ Frames \in Nat
      /\ \A k \in 1 .. Len(queue) : /\ queue[k].kind \in {"draw", "copy"}
                                    /\ queue[k].frame \in Slots
  <2>1. \A k \in 1 .. Len(queue) : queue[k] \in Jobs
    BY DEF FrameInv, LoopTypes
  <2>2. \A j \in Jobs : j.kind \in {"draw", "copy"} /\ j.frame \in Slots
    BY DEF Jobs
  <2>q. QED BY <2>1, <2>2, FramesAssumption DEF FrameInv, LoopTypes
<1>2. place \in [1 .. Len(queue) -> 0 .. Frames]
  BY <1>1 DEF Slots
<1>3. \A j, k \in 1 .. Len(queue) : place[j] = place[k] => j = k
  <2> SUFFICES ASSUME NEW j \in 1 .. Len(queue), NEW k \in 1 .. Len(queue),
                      place[j] = place[k]
               PROVE  j = k
    OBVIOUS
  <2>1. queue[j].frame # Frames /\ queue[k].frame # Frames
    BY <1>1 DEF Slots
  <2>2. CASE queue[j].kind = "copy"
    BY <1>1, <2>1, <2>2 DEF OneCopy
  <2>3. CASE queue[j].kind = "draw"
    <3>1. queue[k].kind = "draw" /\ queue[k].frame = queue[j].frame
      BY <1>1, <2>1, <2>3
    <3>q. QED BY <1>1, <2>3, <3>1 DEF FrameInv, OneDraw, IsDraw
  <2>q. QED BY <1>1, <2>2, <2>3
<1> HIDE DEF place
<1>4. /\ IsFiniteSet(1 .. Len(queue)) /\ IsFiniteSet(0 .. Frames)
      /\ Cardinality(1 .. Len(queue)) = Len(queue)
      /\ Cardinality(0 .. Frames) = Frames + 1
  <2>1. PICK n \in Nat : n = Len(queue)
    BY <1>1
  <2>2. IsFiniteSet(1 .. n) /\ Cardinality(1 .. n) = n
    BY FS_Interval
  <2>3. IsFiniteSet(0 .. Frames) /\ Cardinality(0 .. Frames) = Frames + 1
    BY <1>1, FS_Interval
  <2>q. QED BY <2>1, <2>2, <2>3
<1> SUFFICES ASSUME Frames + 1 < Len(queue) PROVE FALSE
  BY <1>1
<1>5. \E x, y \in 1 .. Len(queue) : x # y /\ place[x] = place[y]
  BY <1>2, <1>4, FS_PigeonHole
<1>q. QED BY <1>3, <1>5

(* The ranges of what is neither a fence nor in the queue.                 *)
Ranges == /\ pc \in Pcs /\ after \in {"return", "advance"} /\ seen \in BOOLEAN
          /\ outdated \in BOOLEAN /\ zero \in BOOLEAN /\ closed \in BOOLEAN
          /\ event \in BOOLEAN

LEMMA RangesStep ==
    ASSUME Ranges, [Next]_vars
    PROVE  Ranges'
<1> USE DEF Ranges, Go, gpu, window, Pcs
<1>1. CASE SetUp \/ PollEvents \/ TestDirty \/ Stage \/ MakeTexture
  BY <1>1 DEF SetUp, PollEvents, TestDirty, Stage, MakeTexture
<1>2. CASE SubmitCopy \/ CopyWait \/ SwapIdle \/ Swap \/ CloseIdle \/ Cleanup
  BY <1>2 DEF SubmitCopy, CopyWait, SwapIdle, Swap, CloseIdle, Cleanup
<1>3. CASE Measure \/ Look \/ WaitEvents
  BY <1>3 DEF Measure, Look, WaitEvents
<1>4. CASE WaitFence \/ Reset("reset", "acquire") \/ Reset("reset_again", "record")
           \/ Acquire \/ AcquireOutOfDate
  BY <1>4 DEF WaitFence, Reset, Acquire, AcquireOutOfDate
<1>5. CASE Record \/ Submit \/ Present \/ PresentOutdated
  BY <1>5 DEF Record, Submit, Present, PresentOutdated
<1>6. CASE Die \/ Finish \/ UNCHANGED vars
  BY <1>6 DEF Die, Finish, vars
<1>7. CASE Resize \/ Minimise \/ Restore \/ Close
  BY <1>7 DEF Resize, Minimise, Restore, Close, Happens
<1>q. QED BY <1>1, <1>2, <1>3, <1>4, <1>5, <1>6, <1>7
          DEF Next, Main, DrawFrame, Recreate

LEMMA DrawLoopTypes == Spec => []TypeOK
<1>1. Init => Ranges
  BY DEF Init, Ranges, Pcs
<1>2. Ranges /\ [Next]_vars => Ranges'
  BY RangesStep
<1>3. FrameInv /\ OneCopy /\ Semaphores /\ Ranges => TypeOK
  BY QueueBounded DEF FrameInv, LoopTypes, Semaphores, Ranges, TypeOK
<1>q. QED BY <1>1, <1>2, <1>3, FrameInvariant, CopyInvariant, SemaphoreInvariant, PTL
          DEF Spec

-----------------------------------------------------------------------------
(* What a sequence of calls does.  A world is what there is and what the   *)
(* descriptor set names.                                                   *)
CallRecords == [does : {"make", "drop", "write"}, object : Objects]
Worlds == [live : SUBSET Objects, set : {"none", "null", "view", "gone"}]
World == [live |-> live, set |-> set]
At(there, named) == [live |-> there, set |-> named]

Effect(c, w) ==
    [live |-> IF c.does = "make" THEN w.live \cup {c.object}
              ELSE IF c.does = "drop" THEN w.live \ {c.object} ELSE w.live,
     set  |-> IF c.does = "write"
              THEN IF "texture_view" \in w.live THEN "view" ELSE "null"
              ELSE IF c.does = "drop" /\ c.object = "texture_view" /\ w.set = "view"
              THEN "gone" ELSE w.set]

(* What the calls at a point destroy. *)
Dropped(point) == CASE point = "setup" -> {"shaders"}
                    [] point = "stage" -> {"staging", "staging_memory"}
                    [] point = "make" -> OfTexture
                    [] point \in {"swap", "cleanup"} -> Objects
                    [] OTHER -> {}
Admits(point, c, w) == /\ Fits(c, w.live)
                       /\ c.does = "drop" => c.object \in Dropped(point)

(* Made one after the other at a point, the calls of s fit, and turn the   *)
(* world v into w: h is the history of the worlds between them.            *)
Leads(s, point, v, w, h) ==
    /\ h[0] = v /\ h[Len(s)] = w
    /\ \A i \in 1 .. Len(s) : /\ Admits(point, s[i], h[i - 1])
                              /\ h[i] = Effect(s[i], h[i - 1])
Runs(s, point, v, w) == \E h \in [0 .. Len(s) -> Worlds] : Leads(s, point, v, w, h)

LEMMA EffectWorld ==
    ASSUME NEW c \in CallRecords, NEW w \in Worlds
    PROVE  Effect(c, w) \in Worlds
<1>1. c.object \in Objects /\ w.live \subseteq Objects
      /\ w.set \in {"none", "null", "view", "gone"}
  BY DEF CallRecords, Worlds
<1>2. (IF c.does = "make" THEN w.live \cup {c.object}
       ELSE IF c.does = "drop" THEN w.live \ {c.object} ELSE w.live) \in SUBSET Objects
  BY <1>1
<1>q. QED BY <1>1, <1>2 DEF Effect, Worlds

LEMMA RunsNothing ==
    ASSUME NEW point, NEW v \in Worlds, NEW w \in Worlds
    PROVE  Runs(<<>>, point, v, w) <=> v = w
<1>1. ASSUME Runs(<<>>, point, v, w) PROVE v = w
  BY <1>1 DEF Runs, Leads
<1>2. ASSUME v = w PROVE Runs(<<>>, point, v, w)
  <2> DEFINE h == [i \in 0 .. Len(<<>>) |-> v]
  <2>1. h \in [0 .. Len(<<>>) -> Worlds] /\ h[0] = v /\ h[Len(<<>>)] = w
    BY <1>2
  <2> HIDE DEF h
  <2>2. 1 .. Len(<<>>) = {}
    OBVIOUS
  <2>3. Leads(<<>>, point, v, w, h)
    BY <2>1, <2>2 DEF Leads
  <2>q. QED BY <2>1, <2>3 DEF Runs
<1>q. QED BY <1>1, <1>2

LEMMA RunsOne ==
    ASSUME NEW point, NEW v \in Worlds, NEW c \in CallRecords, Admits(point, c, v)
    PROVE  Runs(<<c>>, point, v, Effect(c, v))
<1>1. PICK w \in Worlds : w = Effect(c, v)
  BY EffectWorld
<1> DEFINE h == [i \in 0 .. 1 |-> IF i = 0 THEN v ELSE w]
<1>2. h \in [0 .. 1 -> Worlds] /\ h[0] = v /\ h[1] = w
  OBVIOUS
<1>3. Len(<<c>>) = 1 /\ <<c>>[1] = c /\ \A i \in 1 .. 1 : i = 1 /\ i - 1 = 0
  OBVIOUS
<1> HIDE DEF h
<1>4. Leads(<<c>>, point, v, w, h)
  BY <1>1, <1>2, <1>3 DEF Leads
<1>q. QED BY <1>1, <1>2, <1>3, <1>4 DEF Runs

LEMMA RunsBoth ==
    ASSUME NEW s \in Seq(CallRecords), NEW t \in Seq(CallRecords), NEW point,
           NEW u \in Worlds, NEW v \in Worlds, NEW w \in Worlds,
           Runs(s, point, u, v), Runs(t, point, v, w)
    PROVE  Runs(s \o t, point, u, w)
<1>1. PICK g \in [0 .. Len(s) -> Worlds] : Leads(s, point, u, v, g)
  BY DEF Runs
<1>2. PICK h \in [0 .. Len(t) -> Worlds] : Leads(t, point, v, w, h)
  BY DEF Runs
<1>3. PICK r \in Seq(CallRecords) :
         /\ r = s \o t /\ Len(r) = Len(s) + Len(t)
         /\ \A i \in 1 .. Len(s) + Len(t) : r[i] = IF i <= Len(s) THEN s[i] ELSE t[i - Len(s)]
  BY ConcatProperties
<1>4. Len(s) \in Nat /\ Len(t) \in Nat
  OBVIOUS
<1> DEFINE k == [i \in 0 .. Len(r) |-> IF i <= Len(s) THEN g[i] ELSE h[i - Len(s)]]
<1>5. k \in [0 .. Len(r) -> Worlds]
  BY <1>3, <1>4
<1>6. /\ \A i \in 0 .. Len(s) : k[i] = g[i]
      /\ \A i \in 0 .. Len(t) : k[Len(s) + i] = h[i]
  <2>1. g[Len(s)] = h[0]
    BY <1>1, <1>2 DEF Leads
  <2>2. \A i \in 0 .. Len(s) : k[i] = g[i]
    BY <1>3, <1>4
  <2>3. ASSUME NEW i \in 1 .. Len(t) PROVE k[Len(s) + i] = h[i]
    BY <1>3, <1>4
  <2>4. k[Len(s) + 0] = h[0]
    BY <1>4, <2>1, <2>2
  <2>5. ASSUME NEW i \in 0 .. Len(t) PROVE k[Len(s) + i] = h[i]
    <3>1. CASE i = 0
      BY <2>4, <3>1
    <3>2. CASE i \in 1 .. Len(t)
      BY <2>3, <3>2
    <3>q. QED BY <1>4, <3>1, <3>2
  <2>q. QED BY <2>2, <2>5
<1> HIDE DEF k
<1>7. k[0] = u /\ k[Len(r)] = w
  BY <1>1, <1>2, <1>3, <1>4, <1>6 DEF Leads
<1>8. ASSUME NEW i \in 1 .. Len(r)
      PROVE  Admits(point, r[i], k[i - 1]) /\ k[i] = Effect(r[i], k[i - 1])
  <2>1. CASE i \in 1 .. Len(s)
    <3>1. r[i] = s[i] /\ k[i] = g[i] /\ k[i - 1] = g[i - 1]
      BY <1>3, <1>4, <1>6, <2>1
    <3>q. QED BY <1>1, <2>1, <3>1 DEF Leads
  <2>2. ASSUME NEW j \in 1 .. Len(t), i = Len(s) + j
        PROVE  Admits(point, r[i], k[i - 1]) /\ k[i] = Effect(r[i], k[i - 1])
    <3>1. r[i] = t[j]
      BY <1>3, <1>4, <2>2
    <3>2. j \in 0 .. Len(t) /\ j - 1 \in 0 .. Len(t) /\ i - 1 = Len(s) + (j - 1)
      BY <1>4, <2>2
    <3>3. k[i] = h[j] /\ k[i - 1] = h[j - 1]
      BY <1>6, <2>2, <3>2
    <3>q. QED BY <1>2, <3>1, <3>3 DEF Leads
  <2>3. i \in 1 .. Len(s) \/ i - Len(s) \in 1 .. Len(t)
    BY <1>3, <1>4
  <2>4. i = Len(s) + (i - Len(s))
    BY <1>3, <1>4
  <2>q. QED BY <2>1, <2>2, <2>3, <2>4
<1>9. Leads(r, point, u, w, k)
  BY <1>7, <1>8 DEF Leads
<1>q. QED BY <1>3, <1>5, <1>9 DEF Runs

(* The first call fits, and the others run on from its effect.             *)
LEMMA RunsFirst ==
    ASSUME NEW s \in Seq(CallRecords), NEW point, NEW v \in Worlds, NEW w \in Worlds,
           Runs(s, point, v, w), s # <<>>
    PROVE  /\ Admits(point, Head(s), v)
           /\ Runs(Tail(s), point, Effect(Head(s), v), w)
<1>1. PICK h \in [0 .. Len(s) -> Worlds] : Leads(s, point, v, w, h)
  BY DEF Runs
<1>2. PICK t \in Seq(CallRecords) :
         /\ t = Tail(s) /\ Len(s) \in Nat \ {0} /\ Len(t) = Len(s) - 1 /\ Head(s) = s[1]
         /\ \A i \in 1 .. Len(t) : t[i] = s[i + 1]
  OBVIOUS
<1>3. 1 \in 1 .. Len(s) /\ 1 - 1 = 0
  BY <1>2
<1>4. Admits(point, s[1], v) /\ h[1] = Effect(s[1], v)
  <2>1. h[1 - 1] = v
    BY <1>1, <1>3 DEF Leads
  <2>q. QED BY <1>1, <1>3, <2>1 DEF Leads
<1> DEFINE g == [i \in 0 .. Len(t) |-> h[i + 1]]
<1>5. g \in [0 .. Len(t) -> Worlds] /\ \A i \in 0 .. Len(t) : g[i] = h[i + 1]
  BY <1>2
<1> HIDE DEF g
<1>6. g[0] = Effect(s[1], v) /\ g[Len(t)] = w
  BY <1>1, <1>2, <1>4, <1>5 DEF Leads
<1>7. ASSUME NEW i \in 1 .. Len(t)
      PROVE  Admits(point, t[i], g[i - 1]) /\ g[i] = Effect(t[i], g[i - 1])
  <2>1. i + 1 \in 1 .. Len(s) /\ (i + 1) - 1 = i /\ i - 1 \in 0 .. Len(t) /\ i \in 0 .. Len(t)
        /\ (i - 1) + 1 = i
    BY <1>2
  <2>2. t[i] = s[i + 1] /\ g[i] = h[i + 1] /\ g[i - 1] = h[i]
    BY <1>2, <1>5, <2>1
  <2>3. Admits(point, s[i + 1], h[(i + 1) - 1]) /\ h[i + 1] = Effect(s[i + 1], h[(i + 1) - 1])
    BY <1>1, <2>1 DEF Leads
  <2>q. QED BY <2>1, <2>2, <2>3
<1>8. Leads(t, point, Effect(s[1], v), w, g)
  BY <1>6, <1>7 DEF Leads
<1>q. QED BY <1>2, <1>4, <1>5, <1>8 DEF Runs

-----------------------------------------------------------------------------
(* The functions of the renderer.                                          *)
Does(s, point, v, w) == /\ s \in Seq(CallRecords) /\ v \in Worlds /\ w \in Worlds
                        /\ Runs(s, point, v, w)

LEMMA DoesBoth ==
    ASSUME NEW s, NEW t, NEW point, NEW u, NEW v, NEW w,
           Does(s, point, u, v), Does(t, point, v, w)
    PROVE  Does(s \o t, point, u, w)
<1>1. s \o t \in Seq(CallRecords)
  BY ConcatProperties DEF Does
<1>q. QED BY <1>1, RunsBoth DEF Does

LEMMA DoesNothing ==
    ASSUME NEW point, NEW v \in Worlds
    PROVE  Does(<<>>, point, v, v)
BY RunsNothing DEF Does

LEMMA DoesOne ==
    ASSUME NEW point, NEW c \in CallRecords, NEW v \in Worlds, NEW w,
           Admits(point, c, v), w = Effect(c, v)
    PROVE  Does(<<c>>, point, v, w)
<1>1. <<c>> \in Seq(CallRecords) /\ w \in Worlds
  BY EffectWorld
<1>q. QED BY <1>1, RunsOne DEF Does

Kinds == {"none", "null", "view", "gone"}

LEMMA DoesMake ==
    ASSUME NEW point, NEW o \in Objects, NEW a \in SUBSET Objects, NEW d \in Kinds,
           MadeFrom[o] \subseteq a, o \notin a, NEW b, b = a \cup {o}
    PROVE  Does(Make(o), point, At(a, d), At(b, d))
<1> DEFINE c == [does |-> "make", object |-> o]
<1>1. c \in CallRecords /\ Make(o) = <<c>> /\ c.does = "make" /\ c.object = o
  BY DEF CallRecords, Make
<1>2. At(a, d) \in Worlds /\ At(a, d).live = a /\ At(a, d).set = d
  BY DEF Worlds, At, Kinds
<1> HIDE DEF c
<1>3. Admits(point, c, At(a, d))
  BY <1>1, <1>2 DEF Admits, Fits
<1>4. At(b, d) = Effect(c, At(a, d))
  BY <1>1, <1>2 DEF Effect, At
<1>q. QED BY <1>1, <1>2, <1>3, <1>4, DoesOne

LEMMA DoesDrop ==
    ASSUME NEW point, NEW o \in Objects, NEW a \in SUBSET Objects, NEW d \in Kinds,
           o \in a, o \in Dropped(point),
           o \in DOMAIN Belongs
             => Belongs[o] \cap a = IF o = "device" THEN Forgotten ELSE {},
           NEW b, b = a \ {o},
           NEW e, e = IF o = "texture_view" /\ d = "view" THEN "gone" ELSE d
    PROVE  Does(Drop(o), point, At(a, d), At(b, e))
<1> DEFINE c == [does |-> "drop", object |-> o]
<1>1. c \in CallRecords /\ Drop(o) = <<c>> /\ c.does = "drop" /\ c.object = o
  BY DEF CallRecords, Drop
<1>2. At(a, d) \in Worlds /\ At(a, d).live = a /\ At(a, d).set = d
  BY DEF Worlds, At, Kinds
<1> HIDE DEF c
<1>3. Admits(point, c, At(a, d))
  BY <1>1, <1>2 DEF Admits, Fits
<1>4. At(b, e) = Effect(c, At(a, d))
  BY <1>1, <1>2 DEF Effect, At
<1>q. QED BY <1>1, <1>2, <1>3, <1>4, DoesOne

LEMMA DoesWrite ==
    ASSUME NEW point, NEW a \in SUBSET Objects, NEW d \in Kinds,
           {"descriptor_pool", "sampler"} \subseteq a,
           NEW e, e = IF "texture_view" \in a THEN "view" ELSE "null"
    PROVE  Does(Write, point, At(a, d), At(a, e))
<1> DEFINE c == [does |-> "write", object |-> "descriptor_pool"]
<1>0. "descriptor_pool" \in Objects
  BY DEF Objects, MadeFrom
<1>1. c \in CallRecords /\ Write = <<c>> /\ c.does = "write"
  BY <1>0 DEF CallRecords, Write
<1>2. At(a, d) \in Worlds /\ At(a, d).live = a /\ At(a, d).set = d
  BY DEF Worlds, At, Kinds
<1> HIDE DEF c
<1>3. Admits(point, c, At(a, d))
  BY <1>1, <1>2 DEF Admits, Fits
<1>4. At(a, e) = Effect(c, At(a, d))
  BY <1>1, <1>2 DEF Effect, At
<1>q. QED BY <1>1, <1>2, <1>3, <1>4, DoesOne

(* What there is after some of the functions of init_vulkan.               *)
Platform == {"window", "instance", "surface", "gpu", "device"}
Passes == Platform \cup {"swapchain", "image_views", "render_pass"}
Pipelined == Passes \cup {"set_layout", "pipeline_layout", "pipeline"}
Described == Pipelined \cup {"framebuffers", "command_pool", "sync", "sampler",
                            "descriptor_pool"}
Staged == Described \cup {"staging", "staging_memory"}
Whole == Staged \cup OfTexture

LEMMA ObjectNames ==
    Objects = Whole \cup {"shaders"}
BY DEF Objects, MadeFrom, Whole, Staged, Described, Pipelined, Passes,
       Platform, OfTexture

(* The four parts of init_vulkan. *)
Base == CreateInstance \o CreateSurface \o PickGpu \o CreateLogicalDevice
ToPipeline == Base \o CreateSwapchain \o CreateImageViews \o CreateRenderPass
                \o CreateGraphicsPipeline
ToSampler == ToPipeline \o CreateFramebuffers \o CreateCommandPool
               \o CreateSyncObjects \o CreateTextureSampler

LEMMA BaseMade ==
    Does(Base, "setup", At({"window"}, "none"), At(Platform, "none"))
<1>0. /\ Platform \subseteq Objects
      /\ "none" \in Kinds
      /\ {"instance", "surface", "gpu", "device", "window"} \subseteq Objects
  BY ObjectNames
     DEF Kinds, Platform, Passes, Pipelined, Described, Staged, Whole,
         OfTexture
<1>1. Does(CreateInstance, "setup",
           At({"window"}, "none"), At({"window", "instance"}, "none"))
  <2>1. MadeFrom["instance"] = {"window"}
    BY DEF MadeFrom
  <2>2. /\ {"window"} \subseteq {"window"}
        /\ "instance" \notin {"window"}
        /\ {"window", "instance"} = {"window"} \cup {"instance"}
    OBVIOUS
  <2>3. {"window"} \subseteq Objects /\ "instance" \in Objects
    BY <1>0 DEF Platform
  <2>q. QED BY <1>0, <2>1, <2>2, <2>3, DoesMake DEF CreateInstance
<1>2. Does(CreateSurface, "setup",
           At({"window", "instance"}, "none"),
           At({"window", "instance", "surface"}, "none"))
  <2>1. MadeFrom["surface"] = {"instance", "window"}
    BY DEF MadeFrom
  <2>2. /\ {"instance", "window"} \subseteq {"window", "instance"}
        /\ "surface" \notin {"window", "instance"}
        /\ {"window", "instance", "surface"}
             = {"window", "instance"} \cup {"surface"}
    OBVIOUS
  <2>3. {"window", "instance"} \subseteq Objects /\ "surface" \in Objects
    BY <1>0 DEF Platform
  <2>q. QED BY <1>0, <2>1, <2>2, <2>3, DoesMake DEF CreateSurface
<1>3. Does(PickGpu, "setup",
           At({"window", "instance", "surface"}, "none"),
           At({"window", "instance", "surface", "gpu"}, "none"))
  <2>1. MadeFrom["gpu"] = {"instance", "surface"}
    BY DEF MadeFrom
  <2>2. /\ {"instance", "surface"} \subseteq {"window", "instance", "surface"}
        /\ "gpu" \notin {"window", "instance", "surface"}
        /\ {"window", "instance", "surface", "gpu"}
             = {"window", "instance", "surface"} \cup {"gpu"}
    OBVIOUS
  <2>3. /\ {"window", "instance", "surface"} \subseteq Objects
        /\ "gpu" \in Objects
    BY <1>0 DEF Platform
  <2>q. QED BY <1>0, <2>1, <2>2, <2>3, DoesMake DEF PickGpu
<1>4. Does(CreateLogicalDevice, "setup",
           At({"window", "instance", "surface", "gpu"}, "none"),
           At(Platform, "none"))
  <2>1. MadeFrom["device"] = {"gpu", "surface"}
    BY DEF MadeFrom
  <2>2. /\ {"gpu", "surface"}
             \subseteq {"window", "instance", "surface", "gpu"}
        /\ "device" \notin {"window", "instance", "surface", "gpu"}
        /\ Platform = {"window", "instance", "surface", "gpu"} \cup {"device"}
    BY DEF Platform
  <2>3. /\ {"window", "instance", "surface", "gpu"} \subseteq Objects
        /\ "device" \in Objects
    BY <1>0 DEF Platform
  <2>q. QED BY <1>0, <2>1, <2>2, <2>3, DoesMake DEF CreateLogicalDevice
<1>q. QED BY <1>1, <1>2, <1>3, <1>4, DoesBoth DEF Base

LEMMA PipelineMade ==
    Does(ToPipeline, "setup", At({"window"}, "none"), At(Pipelined, "none"))
<1>0. /\ Pipelined \subseteq Objects
      /\ "none" \in Kinds
      /\ {"swapchain", "image_views", "render_pass", "shaders", "set_layout",
          "pipeline_layout", "pipeline"}
           \subseteq Objects
  BY ObjectNames
     DEF Kinds, Platform, Passes, Pipelined, Described, Staged, Whole,
         OfTexture
<1>1. Does(CreateSwapchain, "setup",
           At(Platform, "none"), At(Platform \cup {"swapchain"}, "none"))
  <2>1. MadeFrom["swapchain"] = {"device", "gpu", "surface"}
    BY DEF MadeFrom
  <2>2. /\ {"device", "gpu", "surface"} \subseteq Platform
        /\ "swapchain" \notin Platform
        /\ Platform \cup {"swapchain"} = Platform \cup {"swapchain"}
    BY DEF Platform
  <2>3. Platform \subseteq Objects /\ "swapchain" \in Objects
    BY <1>0 DEF Platform, Passes, Pipelined
  <2>q. QED BY <1>0, <2>1, <2>2, <2>3, DoesMake DEF CreateSwapchain
<1>2. Does(CreateImageViews, "setup",
           At(Platform \cup {"swapchain"}, "none"),
           At(Platform \cup {"swapchain", "image_views"}, "none"))
  <2>1. MadeFrom["image_views"] = {"swapchain"}
    BY DEF MadeFrom
  <2>2. /\ {"swapchain"} \subseteq Platform \cup {"swapchain"}
        /\ "image_views" \notin Platform \cup {"swapchain"}
        /\ Platform \cup {"swapchain", "image_views"}
             = (Platform \cup {"swapchain"}) \cup {"image_views"}
    BY DEF Platform
  <2>3. /\ Platform \cup {"swapchain"} \subseteq Objects
        /\ "image_views" \in Objects
    BY <1>0 DEF Platform, Passes, Pipelined
  <2>q. QED BY <1>0, <2>1, <2>2, <2>3, DoesMake DEF CreateImageViews
<1>3. Does(CreateRenderPass, "setup",
           At(Platform \cup {"swapchain", "image_views"}, "none"),
           At(Passes, "none"))
  <2>1. MadeFrom["render_pass"] = {"device", "swapchain"}
    BY DEF MadeFrom
  <2>2. /\ {"device", "swapchain"}
             \subseteq Platform \cup {"swapchain", "image_views"}
        /\ "render_pass" \notin Platform \cup {"swapchain", "image_views"}
        /\ Passes
             = (Platform \cup {"swapchain", "image_views"}) \cup {"render_pass"}
    BY DEF Platform, Passes
  <2>3. /\ Platform \cup {"swapchain", "image_views"} \subseteq Objects
        /\ "render_pass" \in Objects
    BY <1>0 DEF Platform, Passes, Pipelined
  <2>q. QED BY <1>0, <2>1, <2>2, <2>3, DoesMake DEF CreateRenderPass
<1>4. Does(CreateGraphicsPipeline, "setup",
           At(Passes, "none"), At(Pipelined, "none"))
  <2>1. Does(Make("shaders"), "setup",
             At(Passes, "none"), At(Passes \cup {"shaders"}, "none"))
    <3>1. MadeFrom["shaders"] = {"device"}
      BY DEF MadeFrom
    <3>2. /\ {"device"} \subseteq Passes
          /\ "shaders" \notin Passes
          /\ Passes \cup {"shaders"} = Passes \cup {"shaders"}
      BY DEF Platform, Passes
    <3>3. Passes \subseteq Objects /\ "shaders" \in Objects
      BY <1>0 DEF Platform, Passes, Pipelined
    <3>q. QED BY <1>0, <3>1, <3>2, <3>3, DoesMake
  <2>2. Does(Make("set_layout"), "setup",
             At(Passes \cup {"shaders"}, "none"),
             At(Passes \cup {"shaders", "set_layout"}, "none"))
    <3>1. MadeFrom["set_layout"] = {"device"}
      BY DEF MadeFrom
    <3>2. /\ {"device"} \subseteq Passes \cup {"shaders"}
          /\ "set_layout" \notin Passes \cup {"shaders"}
          /\ Passes \cup {"shaders", "set_layout"}
               = (Passes \cup {"shaders"}) \cup {"set_layout"}
      BY DEF Platform, Passes
    <3>3. Passes \cup {"shaders"} \subseteq Objects /\ "set_layout" \in Objects
      BY <1>0 DEF Platform, Passes, Pipelined
    <3>q. QED BY <1>0, <3>1, <3>2, <3>3, DoesMake
  <2>3. Does(Make("pipeline_layout"), "setup",
             At(Passes \cup {"shaders", "set_layout"}, "none"),
             At(Passes \cup {"shaders", "set_layout", "pipeline_layout"}, "none"))
    <3>1. MadeFrom["pipeline_layout"] = {"set_layout"}
      BY DEF MadeFrom
    <3>2. /\ {"set_layout"} \subseteq Passes \cup {"shaders", "set_layout"}
          /\ "pipeline_layout" \notin Passes \cup {"shaders", "set_layout"}
          /\ Passes \cup {"shaders", "set_layout", "pipeline_layout"}
               = (Passes \cup {"shaders", "set_layout"}) \cup {"pipeline_layout"}
      BY DEF Platform, Passes
    <3>3. /\ Passes \cup {"shaders", "set_layout"} \subseteq Objects
          /\ "pipeline_layout" \in Objects
      BY <1>0 DEF Platform, Passes, Pipelined
    <3>q. QED BY <1>0, <3>1, <3>2, <3>3, DoesMake
  <2>4. Does(Make("pipeline"), "setup",
             At(Passes \cup {"shaders", "set_layout", "pipeline_layout"}, "none"),
             At(Pipelined \cup {"shaders"}, "none"))
    <3>1. MadeFrom["pipeline"] = {"shaders", "pipeline_layout", "render_pass"}
      BY DEF MadeFrom
    <3>2. /\ {"shaders", "pipeline_layout", "render_pass"}
               \subseteq Passes \cup {"shaders", "set_layout", "pipeline_layout"}
          /\ "pipeline" \notin Passes \cup {"shaders", "set_layout", "pipeline_layout"}
          /\ Pipelined \cup {"shaders"}
               = (Passes \cup {"shaders", "set_layout", "pipeline_layout"}) \cup {"pipeline"}
      BY DEF Platform, Passes, Pipelined
    <3>3. /\ Passes \cup {"shaders", "set_layout", "pipeline_layout"}
               \subseteq Objects
          /\ "pipeline" \in Objects
      BY <1>0 DEF Platform, Passes, Pipelined
    <3>q. QED BY <1>0, <3>1, <3>2, <3>3, DoesMake
  <2>5. Does(Drop("shaders"), "setup",
             At(Pipelined \cup {"shaders"}, "none"), At(Pipelined, "none"))
    <3>1. "shaders" \notin DOMAIN Belongs /\ "shaders" \in Dropped("setup")
      BY DEF Belongs, Dropped
    <3>q. QED BY <1>0, <3>1, DoesDrop DEF Pipelined, Passes, Platform
  <2>q. QED BY <2>1, <2>2, <2>3, <2>4, <2>5, DoesBoth
     DEF CreateGraphicsPipeline
<1>q. QED BY <1>1, <1>2, <1>3, <1>4, BaseMade, DoesBoth DEF ToPipeline

LEMMA SamplerMade ==
    Does(ToSampler, "setup", At({"window"}, "none"),
         At(Pipelined \cup {"framebuffers", "command_pool", "sync", "sampler"}, "none"))
<1>0. /\ Described \subseteq Objects
      /\ "none" \in Kinds
      /\ {"framebuffers", "command_pool", "sync", "sampler"} \subseteq Objects
  BY ObjectNames
     DEF Kinds, Platform, Passes, Pipelined, Described, Staged, Whole,
         OfTexture
<1>1. Does(CreateFramebuffers, "setup",
           At(Pipelined, "none"), At(Pipelined \cup {"framebuffers"}, "none"))
  <2>1. MadeFrom["framebuffers"] = {"image_views", "render_pass"}
    BY DEF MadeFrom
  <2>2. /\ {"image_views", "render_pass"} \subseteq Pipelined
        /\ "framebuffers" \notin Pipelined
        /\ Pipelined \cup {"framebuffers"} = Pipelined \cup {"framebuffers"}
    BY DEF Platform, Passes, Pipelined
  <2>3. Pipelined \subseteq Objects /\ "framebuffers" \in Objects
    BY <1>0 DEF Platform, Passes, Pipelined, Described
  <2>q. QED BY <1>0, <2>1, <2>2, <2>3, DoesMake DEF CreateFramebuffers
<1>2. Does(CreateCommandPool, "setup",
           At(Pipelined \cup {"framebuffers"}, "none"),
           At(Pipelined \cup {"framebuffers", "command_pool"}, "none"))
  <2>1. MadeFrom["command_pool"] = {"device"}
    BY DEF MadeFrom
  <2>2. /\ {"device"} \subseteq Pipelined \cup {"framebuffers"}
        /\ "command_pool" \notin Pipelined \cup {"framebuffers"}
        /\ Pipelined \cup {"framebuffers", "command_pool"}
             = (Pipelined \cup {"framebuffers"}) \cup {"command_pool"}
    BY DEF Platform, Passes, Pipelined
  <2>3. /\ Pipelined \cup {"framebuffers"} \subseteq Objects
        /\ "command_pool" \in Objects
    BY <1>0 DEF Platform, Passes, Pipelined, Described
  <2>q. QED BY <1>0, <2>1, <2>2, <2>3, DoesMake DEF CreateCommandPool
<1>3. Does(CreateSyncObjects, "setup",
           At(Pipelined \cup {"framebuffers", "command_pool"}, "none"),
           At(Pipelined \cup {"framebuffers", "command_pool", "sync"}, "none"))
  <2>1. MadeFrom["sync"] = {"device"}
    BY DEF MadeFrom
  <2>2. /\ {"device"} \subseteq Pipelined \cup {"framebuffers", "command_pool"}
        /\ "sync" \notin Pipelined \cup {"framebuffers", "command_pool"}
        /\ Pipelined \cup {"framebuffers", "command_pool", "sync"}
             = (Pipelined \cup {"framebuffers", "command_pool"}) \cup {"sync"}
    BY DEF Platform, Passes, Pipelined
  <2>3. /\ Pipelined \cup {"framebuffers", "command_pool"} \subseteq Objects
        /\ "sync" \in Objects
    BY <1>0 DEF Platform, Passes, Pipelined, Described
  <2>q. QED BY <1>0, <2>1, <2>2, <2>3, DoesMake DEF CreateSyncObjects
<1>4. Does(CreateTextureSampler, "setup",
           At(Pipelined \cup {"framebuffers", "command_pool", "sync"}, "none"),
           At(Pipelined \cup {"framebuffers", "command_pool", "sync", "sampler"}, "none"))
  <2>1. MadeFrom["sampler"] = {"device"}
    BY DEF MadeFrom
  <2>2. /\ {"device"}
             \subseteq Pipelined \cup {"framebuffers", "command_pool", "sync"}
        /\ "sampler" \notin Pipelined \cup {"framebuffers", "command_pool", "sync"}
        /\ Pipelined \cup {"framebuffers", "command_pool", "sync", "sampler"}
             = (Pipelined \cup {"framebuffers", "command_pool", "sync"}) \cup {"sampler"}
    BY DEF Platform, Passes, Pipelined
  <2>3. /\ Pipelined \cup {"framebuffers", "command_pool", "sync"}
             \subseteq Objects
        /\ "sampler" \in Objects
    BY <1>0 DEF Platform, Passes, Pipelined, Described
  <2>q. QED BY <1>0, <2>1, <2>2, <2>3, DoesMake DEF CreateTextureSampler
<1>q. QED BY <1>1, <1>2, <1>3, <1>4, PipelineMade, DoesBoth DEF ToSampler

(* init_window and init_vulkan leave every object but the shaders, and a    *)
(* descriptor set that names the view of the texture.                      *)
LEMMA SetupDoes ==
    Does(Setup, "setup", At({}, "none"), At(Whole, "view"))
<1>0. /\ Whole \subseteq Objects
      /\ "none" \in Kinds /\ "null" \in Kinds /\ "view" \in Kinds
      /\ {"window", "descriptor_pool", "staging", "staging_memory", "texture",
          "texture_memory", "texture_view"}
           \subseteq Objects
  BY ObjectNames
     DEF Kinds, Platform, Passes, Pipelined, Described, Staged, Whole,
         OfTexture
<1>1. Does(CreateDescriptorPool, "setup",
           At(Pipelined \cup {"framebuffers", "command_pool", "sync", "sampler"}, "none"),
           At(Described, "none"))
  <2>1. MadeFrom["descriptor_pool"] = {"device", "set_layout"}
    BY DEF MadeFrom
  <2>2. /\ {"device", "set_layout"}
             \subseteq Pipelined \cup {"framebuffers", "command_pool", "sync", "sampler"}
        /\ "descriptor_pool" \notin Pipelined \cup {"framebuffers", "command_pool", "sync", "sampler"}
        /\ Described
             = (Pipelined \cup {"framebuffers", "command_pool", "sync", "sampler"}) \cup {"descriptor_pool"}
    BY DEF Platform, Passes, Pipelined, Described
  <2>3. /\ Pipelined \cup {"framebuffers", "command_pool", "sync", "sampler"}
             \subseteq Objects
        /\ "descriptor_pool" \in Objects
    BY <1>0
       DEF Platform, Passes, Pipelined, Described, Staged, Whole, OfTexture
  <2>q. QED BY <1>0, <2>1, <2>2, <2>3, DoesMake DEF CreateDescriptorPool
<1>2. Does(CreateDescriptorSet, "setup",
           At(Described, "none"), At(Described, "null"))
  <2>1. /\ {"descriptor_pool", "sampler"} \subseteq Described
        /\ "texture_view" \notin Described
        /\ Described \subseteq Objects
    BY <1>0
       DEF Platform, Passes, Pipelined, Described, Staged, Whole, OfTexture
  <2>q. QED BY <1>0, <2>1, DoesWrite DEF CreateDescriptorSet
<1>3. Does(CreateStagingBuffer(FALSE), "setup",
           At(Described, "null"), At(Staged, "null"))
  <2>1. Does(<<>>, "setup", At(Described, "null"), At(Described, "null"))
    BY <1>0, DoesNothing
       DEF At, Worlds, Platform, Passes, Pipelined, Described, Staged, Whole,
           OfTexture
  <2>2. Does(Make("staging"), "setup",
             At(Described, "null"), At(Described \cup {"staging"}, "null"))
    <3>1. MadeFrom["staging"] = {"device"}
      BY DEF MadeFrom
    <3>2. /\ {"device"} \subseteq Described
          /\ "staging" \notin Described
          /\ Described \cup {"staging"} = Described \cup {"staging"}
      BY DEF Platform, Passes, Pipelined, Described
    <3>3. Described \subseteq Objects /\ "staging" \in Objects
      BY <1>0
         DEF Platform, Passes, Pipelined, Described, Staged, Whole, OfTexture
    <3>q. QED BY <1>0, <3>1, <3>2, <3>3, DoesMake
  <2>3. Does(Make("staging_memory"), "setup",
             At(Described \cup {"staging"}, "null"), At(Staged, "null"))
    <3>1. MadeFrom["staging_memory"] = {"device", "staging"}
      BY DEF MadeFrom
    <3>2. /\ {"device", "staging"} \subseteq Described \cup {"staging"}
          /\ "staging_memory" \notin Described \cup {"staging"}
          /\ Staged = (Described \cup {"staging"}) \cup {"staging_memory"}
      BY DEF Platform, Passes, Pipelined, Described, Staged
    <3>3. /\ Described \cup {"staging"} \subseteq Objects
          /\ "staging_memory" \in Objects
      BY <1>0
         DEF Platform, Passes, Pipelined, Described, Staged, Whole, OfTexture
    <3>q. QED BY <1>0, <3>1, <3>2, <3>3, DoesMake
  <2>q. QED BY <2>1, <2>2, <2>3, DoesBoth DEF CreateStagingBuffer
<1>4. Does(NewTexture(FALSE), "setup", At(Staged, "null"), At(Whole, "view"))
  <2>1. Does(<<>>, "setup", At(Staged, "null"), At(Staged, "null"))
    BY <1>0, DoesNothing
       DEF At, Worlds, Platform, Passes, Pipelined, Described, Staged, Whole,
           OfTexture
  <2>2. Does(Make("texture"), "setup",
             At(Staged, "null"), At(Staged \cup {"texture"}, "null"))
    <3>1. MadeFrom["texture"] = {"device"}
      BY DEF MadeFrom
    <3>2. /\ {"device"} \subseteq Staged
          /\ "texture" \notin Staged
          /\ Staged \cup {"texture"} = Staged \cup {"texture"}
      BY DEF Platform, Passes, Pipelined, Described, Staged
    <3>3. Staged \subseteq Objects /\ "texture" \in Objects
      BY <1>0
         DEF Platform, Passes, Pipelined, Described, Staged, Whole, OfTexture
    <3>q. QED BY <1>0, <3>1, <3>2, <3>3, DoesMake
  <2>3. Does(Make("texture_memory"), "setup",
             At(Staged \cup {"texture"}, "null"),
             At(Staged \cup {"texture", "texture_memory"}, "null"))
    <3>1. MadeFrom["texture_memory"] = {"device", "texture"}
      BY DEF MadeFrom
    <3>2. /\ {"device", "texture"} \subseteq Staged \cup {"texture"}
          /\ "texture_memory" \notin Staged \cup {"texture"}
          /\ Staged \cup {"texture", "texture_memory"}
               = (Staged \cup {"texture"}) \cup {"texture_memory"}
      BY DEF Platform, Passes, Pipelined, Described, Staged
    <3>3. /\ Staged \cup {"texture"} \subseteq Objects
          /\ "texture_memory" \in Objects
      BY <1>0
         DEF Platform, Passes, Pipelined, Described, Staged, Whole, OfTexture
    <3>q. QED BY <1>0, <3>1, <3>2, <3>3, DoesMake
  <2>4. Does(Make("texture_view"), "setup",
             At(Staged \cup {"texture", "texture_memory"}, "null"),
             At(Whole, "null"))
    <3>1. MadeFrom["texture_view"] = {"texture", "texture_memory"}
      BY DEF MadeFrom
    <3>2. /\ {"texture", "texture_memory"}
               \subseteq Staged \cup {"texture", "texture_memory"}
          /\ "texture_view" \notin Staged \cup {"texture", "texture_memory"}
          /\ Whole
               = (Staged \cup {"texture", "texture_memory"}) \cup {"texture_view"}
      BY DEF Platform, Passes, Pipelined, Described, Staged, Whole, OfTexture
    <3>3. /\ Staged \cup {"texture", "texture_memory"} \subseteq Objects
          /\ "texture_view" \in Objects
      BY <1>0
         DEF Platform, Passes, Pipelined, Described, Staged, Whole, OfTexture
    <3>q. QED BY <1>0, <3>1, <3>2, <3>3, DoesMake
  <2>5. Does(Write, "setup", At(Whole, "null"), At(Whole, "view"))
    <3>1. {"descriptor_pool", "sampler", "texture_view"} \subseteq Whole
      BY DEF Platform, Passes, Pipelined, Described, Staged, Whole, OfTexture
    <3>q. QED BY <1>0, <3>1, DoesWrite
  <2>6. Does(CreateTextureImage(FALSE), "setup",
             At(Staged, "null"), At(Whole, "null"))
    BY <2>1, <2>2, <2>3, <2>4, DoesBoth DEF CreateTextureImage
  <2>q. QED BY <2>5, <2>6, DoesBoth DEF NewTexture
<1>5. Does(InitWindow, "setup", At({}, "none"), At({"window"}, "none"))
  <2>1. MadeFrom["window"] = {}
    BY DEF MadeFrom
  <2>2. /\ {} \subseteq {}
        /\ "window" \notin {}
        /\ {"window"} = {} \cup {"window"}
    OBVIOUS
  <2>3. {} \subseteq Objects /\ "window" \in Objects
    BY <1>0
       DEF Platform, Passes, Pipelined, Described, Staged, Whole, OfTexture
  <2>q. QED BY <1>0, <2>1, <2>2, <2>3, DoesMake DEF InitWindow
<1>6. Does(InitVulkan, "setup", At({"window"}, "none"), At(Whole, "view"))
  BY <1>1, <1>2, <1>3, <1>4, SamplerMade, DoesBoth
     DEF InitVulkan, ToSampler, ToPipeline, Base
<1>q. QED BY <1>5, <1>6, DoesBoth DEF Setup

LEMMA WholeNames ==
    Whole = {"window", "instance", "surface", "gpu", "device", "swapchain",
             "image_views", "render_pass", "set_layout", "pipeline_layout",
             "pipeline", "framebuffers", "command_pool", "sync", "sampler",
             "descriptor_pool", "staging", "staging_memory", "texture",
             "texture_memory", "texture_view"}
BY DEF Platform, Passes, Pipelined, Described, Staged, Whole, OfTexture

(* What is left without a swapchain, when the GPU may be let go, and in    *)
(* the end: what is forgotten, and the handle of the GPU.                  *)
Unswapped == Whole \ {"framebuffers", "image_views", "swapchain"}
Left == Platform \cup Forgotten
Bare == Forgotten \cup {"gpu"}

(* A staging buffer is replaced by another.                                *)
LEMMA StagingDoes ==
    Does(CreateStagingBuffer(TRUE), "stage",
         At(Whole, "view"), At(Whole, "view"))
<1>0. /\ Whole \subseteq Objects /\ Whole \in SUBSET Objects
      /\ "view" \in Kinds /\ "gone" \in Kinds
  BY ObjectNames DEF Kinds
<1>1. Does(Drop("staging"), "stage",
           At(Whole, "view"), At(Whole \ {"staging"}, "view"))
  <2>1. "staging" \in Whole /\ Whole \ {"staging"} = Whole \ {"staging"}
    BY WholeNames
  <2>2. Whole \subseteq Objects /\ "staging" \in Objects
    BY <1>0, WholeNames
  <2>3. "staging" \notin DOMAIN Belongs /\ "staging" \in Dropped("stage")
    BY <2>2 DEF Belongs, Dropped, OfTexture
  <2>q. QED BY <1>0, <2>1, <2>2, <2>3, DoesDrop
<1>2. Does(Drop("staging_memory"), "stage",
           At(Whole \ {"staging"}, "view"),
           At(Whole \ {"staging", "staging_memory"}, "view"))
  <2>1. /\ "staging_memory" \in Whole \ {"staging"}
        /\ Whole \ {"staging", "staging_memory"}
             = (Whole \ {"staging"}) \ {"staging_memory"}
    BY WholeNames
  <2>2. Whole \ {"staging"} \subseteq Objects /\ "staging_memory" \in Objects
    BY <1>0, WholeNames
  <2>3. /\ "staging_memory" \notin DOMAIN Belongs
        /\ "staging_memory" \in Dropped("stage")
    BY <2>2 DEF Belongs, Dropped, OfTexture
  <2>q. QED BY <1>0, <2>1, <2>2, <2>3, DoesDrop
<1>3. Does(Make("staging"), "stage",
           At(Whole \ {"staging", "staging_memory"}, "view"),
           At(Whole \ {"staging_memory"}, "view"))
  <2>1. MadeFrom["staging"] = {"device"}
    BY DEF MadeFrom
  <2>2. /\ {"device"} \subseteq Whole \ {"staging", "staging_memory"}
        /\ "staging" \notin Whole \ {"staging", "staging_memory"}
        /\ Whole \ {"staging_memory"}
             = (Whole \ {"staging", "staging_memory"}) \cup {"staging"}
    BY WholeNames
  <2>3. /\ Whole \ {"staging", "staging_memory"} \subseteq Objects
        /\ "staging" \in Objects
    BY <1>0, WholeNames
  <2>q. QED BY <1>0, <2>1, <2>2, <2>3, DoesMake
<1>4. Does(Make("staging_memory"), "stage",
           At(Whole \ {"staging_memory"}, "view"), At(Whole, "view"))
  <2>1. MadeFrom["staging_memory"] = {"device", "staging"}
    BY DEF MadeFrom
  <2>2. /\ {"device", "staging"} \subseteq Whole \ {"staging_memory"}
        /\ "staging_memory" \notin Whole \ {"staging_memory"}
        /\ Whole = (Whole \ {"staging_memory"}) \cup {"staging_memory"}
    BY WholeNames
  <2>3. /\ Whole \ {"staging_memory"} \subseteq Objects
        /\ "staging_memory" \in Objects
    BY <1>0, WholeNames
  <2>q. QED BY <1>0, <2>1, <2>2, <2>3, DoesMake
<1>5. Does(Drop("staging") \o Drop("staging_memory"), "stage",
           At(Whole, "view"),
           At(Whole \ {"staging", "staging_memory"}, "view"))
  BY <1>1, <1>2, DoesBoth
<1>q. QED BY <1>3, <1>4, <1>5, DoesBoth DEF CreateStagingBuffer

(* A texture is replaced, and the descriptor set told of the new view.     *)
LEMMA TextureDoes ==
    Does(NewTexture(TRUE), "make", At(Whole, "view"), At(Whole, "view"))
<1>0. /\ Whole \subseteq Objects /\ Whole \in SUBSET Objects
      /\ "view" \in Kinds /\ "gone" \in Kinds
  BY ObjectNames DEF Kinds
<1>1. Does(Drop("texture"), "make",
           At(Whole, "view"), At(Whole \ {"texture"}, "view"))
  <2>1. "texture" \in Whole /\ Whole \ {"texture"} = Whole \ {"texture"}
    BY WholeNames
  <2>2. Whole \subseteq Objects /\ "texture" \in Objects
    BY <1>0, WholeNames
  <2>3. "texture" \notin DOMAIN Belongs /\ "texture" \in Dropped("make")
    BY <2>2 DEF Belongs, Dropped, OfTexture
  <2>q. QED BY <1>0, <2>1, <2>2, <2>3, DoesDrop
<1>2. Does(Drop("texture_memory"), "make",
           At(Whole \ {"texture"}, "view"),
           At(Whole \ {"texture", "texture_memory"}, "view"))
  <2>1. /\ "texture_memory" \in Whole \ {"texture"}
        /\ Whole \ {"texture", "texture_memory"}
             = (Whole \ {"texture"}) \ {"texture_memory"}
    BY WholeNames
  <2>2. Whole \ {"texture"} \subseteq Objects /\ "texture_memory" \in Objects
    BY <1>0, WholeNames
  <2>3. /\ "texture_memory" \notin DOMAIN Belongs
        /\ "texture_memory" \in Dropped("make")
    BY <2>2 DEF Belongs, Dropped, OfTexture
  <2>q. QED BY <1>0, <2>1, <2>2, <2>3, DoesDrop
<1>3. Does(Drop("texture_view"), "make",
           At(Whole \ {"texture", "texture_memory"}, "view"),
           At(Whole \ {"texture", "texture_memory", "texture_view"}, "gone"))
  <2>1. /\ "texture_view" \in Whole \ {"texture", "texture_memory"}
        /\ Whole \ {"texture", "texture_memory", "texture_view"}
             = (Whole \ {"texture", "texture_memory"}) \ {"texture_view"}
    BY WholeNames
  <2>2. /\ Whole \ {"texture", "texture_memory"} \subseteq Objects
        /\ "texture_view" \in Objects
    BY <1>0, WholeNames
  <2>3. /\ "texture_view" \notin DOMAIN Belongs
        /\ "texture_view" \in Dropped("make")
    BY <2>2 DEF Belongs, Dropped, OfTexture
  <2>q. QED BY <1>0, <2>1, <2>2, <2>3, DoesDrop
<1>4. Does(Make("texture"), "make",
           At(Whole \ {"texture", "texture_memory", "texture_view"}, "gone"),
           At(Whole \ {"texture_memory", "texture_view"}, "gone"))
  <2>1. MadeFrom["texture"] = {"device"}
    BY DEF MadeFrom
  <2>2. /\ {"device"}
             \subseteq Whole \ {"texture", "texture_memory", "texture_view"}
        /\ "texture" \notin Whole \ {"texture", "texture_memory", "texture_view"}
        /\ Whole \ {"texture_memory", "texture_view"}
             = (Whole \ {"texture", "texture_memory", "texture_view"}) \cup {"texture"}
    BY WholeNames
  <2>3. /\ Whole \ {"texture", "texture_memory", "texture_view"}
             \subseteq Objects
        /\ "texture" \in Objects
    BY <1>0, WholeNames
  <2>q. QED BY <1>0, <2>1, <2>2, <2>3, DoesMake
<1>5. Does(Make("texture_memory"), "make",
           At(Whole \ {"texture_memory", "texture_view"}, "gone"),
           At(Whole \ {"texture_view"}, "gone"))
  <2>1. MadeFrom["texture_memory"] = {"device", "texture"}
    BY DEF MadeFrom
  <2>2. /\ {"device", "texture"}
             \subseteq Whole \ {"texture_memory", "texture_view"}
        /\ "texture_memory" \notin Whole \ {"texture_memory", "texture_view"}
        /\ Whole \ {"texture_view"}
             = (Whole \ {"texture_memory", "texture_view"}) \cup {"texture_memory"}
    BY WholeNames
  <2>3. /\ Whole \ {"texture_memory", "texture_view"} \subseteq Objects
        /\ "texture_memory" \in Objects
    BY <1>0, WholeNames
  <2>q. QED BY <1>0, <2>1, <2>2, <2>3, DoesMake
<1>6. Does(Make("texture_view"), "make",
           At(Whole \ {"texture_view"}, "gone"), At(Whole, "gone"))
  <2>1. MadeFrom["texture_view"] = {"texture", "texture_memory"}
    BY DEF MadeFrom
  <2>2. /\ {"texture", "texture_memory"} \subseteq Whole \ {"texture_view"}
        /\ "texture_view" \notin Whole \ {"texture_view"}
        /\ Whole = (Whole \ {"texture_view"}) \cup {"texture_view"}
    BY WholeNames
  <2>3. /\ Whole \ {"texture_view"} \subseteq Objects
        /\ "texture_view" \in Objects
    BY <1>0, WholeNames
  <2>q. QED BY <1>0, <2>1, <2>2, <2>3, DoesMake
<1>7. Does(Write, "make", At(Whole, "gone"), At(Whole, "view"))
  <2>1. {"descriptor_pool", "sampler", "texture_view"} \subseteq Whole
    BY WholeNames
  <2>q. QED BY <1>0, <2>1, DoesWrite
<1>8. Does(Drop("texture") \o Drop("texture_memory") \o Drop("texture_view"), "make",
           At(Whole, "view"),
           At(Whole \ {"texture", "texture_memory", "texture_view"}, "gone"))
  BY <1>1, <1>2, <1>3, DoesBoth
<1>9. Does(CreateTextureImage(TRUE), "make",
           At(Whole, "view"), At(Whole, "gone"))
  BY <1>4, <1>5, <1>6, <1>8, DoesBoth DEF CreateTextureImage
<1>q. QED BY <1>7, <1>9, DoesBoth DEF NewTexture

(* What goes with a swapchain, when it is replaced and at the end.          *)
LEMMA CleanupSwapchainDoes ==
    ASSUME NEW point \in {"swap", "cleanup"}
    PROVE  Does(CleanupSwapchain, point, At(Whole, "view"),
                At(Unswapped, "view"))
<1>0. /\ Whole \subseteq Objects /\ Whole \in SUBSET Objects
      /\ "view" \in Kinds /\ "gone" \in Kinds
  BY ObjectNames DEF Kinds
<1>1. Does(Drop("framebuffers"), point,
           At(Whole, "view"), At(Whole \ {"framebuffers"}, "view"))
  <2>1. /\ "framebuffers" \in Whole
        /\ Whole \ {"framebuffers"} = Whole \ {"framebuffers"}
    BY WholeNames
  <2>2. Whole \subseteq Objects /\ "framebuffers" \in Objects
    BY <1>0, WholeNames
  <2>3. /\ "framebuffers" \notin DOMAIN Belongs
        /\ "framebuffers" \in Dropped(point)
    BY <2>2 DEF Belongs, Dropped, OfTexture
  <2>q. QED BY <1>0, <2>1, <2>2, <2>3, DoesDrop
<1>2. Does(Drop("image_views"), point,
           At(Whole \ {"framebuffers"}, "view"),
           At(Whole \ {"framebuffers", "image_views"}, "view"))
  <2>1. /\ "image_views" \in Whole \ {"framebuffers"}
        /\ Whole \ {"framebuffers", "image_views"}
             = (Whole \ {"framebuffers"}) \ {"image_views"}
    BY WholeNames
  <2>2. Whole \ {"framebuffers"} \subseteq Objects /\ "image_views" \in Objects
    BY <1>0, WholeNames
  <2>3. "image_views" \notin DOMAIN Belongs /\ "image_views" \in Dropped(point)
    BY <2>2 DEF Belongs, Dropped, OfTexture
  <2>q. QED BY <1>0, <2>1, <2>2, <2>3, DoesDrop
<1>3. Does(Drop("swapchain"), point,
           At(Whole \ {"framebuffers", "image_views"}, "view"),
           At(Unswapped, "view"))
  <2>1. /\ "swapchain" \in Whole \ {"framebuffers", "image_views"}
        /\ Unswapped
             = (Whole \ {"framebuffers", "image_views"}) \ {"swapchain"}
    BY WholeNames DEF Unswapped
  <2>2. /\ Whole \ {"framebuffers", "image_views"} \subseteq Objects
        /\ "swapchain" \in Objects
    BY <1>0, WholeNames
  <2>3. "swapchain" \notin DOMAIN Belongs /\ "swapchain" \in Dropped(point)
    BY <2>2 DEF Belongs, Dropped, OfTexture
  <2>q. QED BY <1>0, <2>1, <2>2, <2>3, DoesDrop
<1>q. QED BY <1>1, <1>2, <1>3, DoesBoth DEF CleanupSwapchain

(* A swapchain is replaced.                                                *)
LEMMA RecreateDoes ==
    Does(RecreateSwapchain, "swap", At(Whole, "view"), At(Whole, "view"))
<1>0. /\ Whole \subseteq Objects /\ Whole \in SUBSET Objects
      /\ "view" \in Kinds /\ "gone" \in Kinds
  BY ObjectNames DEF Kinds
<1>1. Does(CreateSwapchain, "swap",
           At(Unswapped, "view"),
           At(Whole \ {"framebuffers", "image_views"}, "view"))
  <2>1. MadeFrom["swapchain"] = {"device", "gpu", "surface"}
    BY DEF MadeFrom
  <2>2. /\ {"device", "gpu", "surface"} \subseteq Unswapped
        /\ "swapchain" \notin Unswapped
        /\ Whole \ {"framebuffers", "image_views"}
             = Unswapped \cup {"swapchain"}
    BY WholeNames DEF Unswapped
  <2>3. Unswapped \subseteq Objects /\ "swapchain" \in Objects
    BY <1>0, WholeNames DEF Unswapped
  <2>q. QED BY <1>0, <2>1, <2>2, <2>3, DoesMake DEF CreateSwapchain
<1>2. Does(CreateImageViews, "swap",
           At(Whole \ {"framebuffers", "image_views"}, "view"),
           At(Whole \ {"framebuffers"}, "view"))
  <2>1. MadeFrom["image_views"] = {"swapchain"}
    BY DEF MadeFrom
  <2>2. /\ {"swapchain"} \subseteq Whole \ {"framebuffers", "image_views"}
        /\ "image_views" \notin Whole \ {"framebuffers", "image_views"}
        /\ Whole \ {"framebuffers"}
             = (Whole \ {"framebuffers", "image_views"}) \cup {"image_views"}
    BY WholeNames
  <2>3. /\ Whole \ {"framebuffers", "image_views"} \subseteq Objects
        /\ "image_views" \in Objects
    BY <1>0, WholeNames
  <2>q. QED BY <1>0, <2>1, <2>2, <2>3, DoesMake DEF CreateImageViews
<1>3. Does(CreateFramebuffers, "swap",
           At(Whole \ {"framebuffers"}, "view"), At(Whole, "view"))
  <2>1. MadeFrom["framebuffers"] = {"image_views", "render_pass"}
    BY DEF MadeFrom
  <2>2. /\ {"image_views", "render_pass"} \subseteq Whole \ {"framebuffers"}
        /\ "framebuffers" \notin Whole \ {"framebuffers"}
        /\ Whole = (Whole \ {"framebuffers"}) \cup {"framebuffers"}
    BY WholeNames
  <2>3. /\ Whole \ {"framebuffers"} \subseteq Objects
        /\ "framebuffers" \in Objects
    BY <1>0, WholeNames
  <2>q. QED BY <1>0, <2>1, <2>2, <2>3, DoesMake DEF CreateFramebuffers
<1>q. QED BY <1>1, <1>2, <1>3, CleanupSwapchainDoes, DoesBoth
   DEF RecreateSwapchain

LEMMA TeardownDoes ==
    Does(Teardown, "cleanup", At(Whole, "view"), At(Bare, "view"))
<1>0. /\ Whole \subseteq Objects /\ Whole \in SUBSET Objects
      /\ "view" \in Kinds /\ "gone" \in Kinds
  BY ObjectNames DEF Kinds
<1>1. Does(Drop("sync"), "cleanup",
           At(Unswapped, "view"),
           At(Unswapped \ {"sync"}, "view"))
  <2>1. "sync" \in Unswapped /\ Unswapped \ {"sync"} = Unswapped \ {"sync"}
    BY WholeNames DEF Unswapped
  <2>2. Unswapped \subseteq Objects /\ "sync" \in Objects
    BY <1>0, WholeNames DEF Unswapped
  <2>3. "sync" \notin DOMAIN Belongs /\ "sync" \in Dropped("cleanup")
    BY <2>2 DEF Belongs, Dropped, OfTexture
  <2>q. QED BY <1>0, <2>1, <2>2, <2>3, DoesDrop
<1>2. Does(Drop("command_pool"), "cleanup",
           At(Unswapped \ {"sync"}, "view"),
           At(Left \cup {"render_pass", "pipeline_layout", "pipeline"}, "view"))
  <2>1. /\ "command_pool" \in Unswapped \ {"sync"}
        /\ Left \cup {"render_pass", "pipeline_layout", "pipeline"}
             = (Unswapped \ {"sync"}) \ {"command_pool"}
    BY WholeNames DEF Unswapped, Left, Platform, Bare, Forgotten, OfTexture
  <2>2. Unswapped \ {"sync"} \subseteq Objects /\ "command_pool" \in Objects
    BY <1>0, WholeNames DEF Unswapped
  <2>3. /\ "command_pool" \notin DOMAIN Belongs
        /\ "command_pool" \in Dropped("cleanup")
    BY <2>2 DEF Belongs, Dropped, OfTexture
  <2>q. QED BY <1>0, <2>1, <2>2, <2>3, DoesDrop
<1>3. Does(Drop("pipeline"), "cleanup",
           At(Left \cup {"render_pass", "pipeline_layout", "pipeline"}, "view"),
           At(Left \cup {"render_pass", "pipeline_layout"}, "view"))
  <2>1. /\ "pipeline" \in Left \cup {"render_pass", "pipeline_layout", "pipeline"}
        /\ Left \cup {"render_pass", "pipeline_layout"}
             = (Left \cup {"render_pass", "pipeline_layout", "pipeline"}) \ {"pipeline"}
    BY WholeNames DEF Left, Platform, Bare, Forgotten, OfTexture
  <2>2. /\ Left \cup {"render_pass", "pipeline_layout", "pipeline"}
             \subseteq Objects
        /\ "pipeline" \in Objects
    BY <1>0, WholeNames DEF Left, Platform, Bare, Forgotten, OfTexture
  <2>3. "pipeline" \notin DOMAIN Belongs /\ "pipeline" \in Dropped("cleanup")
    BY <2>2 DEF Belongs, Dropped, OfTexture
  <2>q. QED BY <1>0, <2>1, <2>2, <2>3, DoesDrop
<1>4. Does(Drop("pipeline_layout"), "cleanup",
           At(Left \cup {"render_pass", "pipeline_layout"}, "view"),
           At(Left \cup {"render_pass"}, "view"))
  <2>1. /\ "pipeline_layout" \in Left \cup {"render_pass", "pipeline_layout"}
        /\ Left \cup {"render_pass"}
             = (Left \cup {"render_pass", "pipeline_layout"}) \ {"pipeline_layout"}
    BY WholeNames DEF Left, Platform, Bare, Forgotten, OfTexture
  <2>2. /\ Left \cup {"render_pass", "pipeline_layout"} \subseteq Objects
        /\ "pipeline_layout" \in Objects
    BY <1>0, WholeNames DEF Left, Platform, Bare, Forgotten, OfTexture
  <2>3. /\ "pipeline_layout" \notin DOMAIN Belongs
        /\ "pipeline_layout" \in Dropped("cleanup")
    BY <2>2 DEF Belongs, Dropped, OfTexture
  <2>q. QED BY <1>0, <2>1, <2>2, <2>3, DoesDrop
<1>5. Does(Drop("render_pass"), "cleanup",
           At(Left \cup {"render_pass"}, "view"),
           At(Left, "view"))
  <2>1. /\ "render_pass" \in Left \cup {"render_pass"}
        /\ Left = (Left \cup {"render_pass"}) \ {"render_pass"}
    BY WholeNames DEF Left, Platform, Bare, Forgotten, OfTexture
  <2>2. /\ Left \cup {"render_pass"} \subseteq Objects
        /\ "render_pass" \in Objects
    BY <1>0, WholeNames DEF Left, Platform, Bare, Forgotten, OfTexture
  <2>3. /\ "render_pass" \notin DOMAIN Belongs
        /\ "render_pass" \in Dropped("cleanup")
    BY <2>2 DEF Belongs, Dropped, OfTexture
  <2>q. QED BY <1>0, <2>1, <2>2, <2>3, DoesDrop
<1>6. Does(Drop("device"), "cleanup",
           At(Left, "view"),
           At(Bare \cup {"window", "instance", "surface"}, "view"))
  <2>1. /\ "device" \in Left
        /\ Bare \cup {"window", "instance", "surface"} = Left \ {"device"}
    BY WholeNames DEF Left, Platform, Bare, Forgotten, OfTexture
  <2>2. Left \subseteq Objects /\ "device" \in Objects
    BY <1>0, WholeNames DEF Left, Platform, Bare, Forgotten, OfTexture
  <2>3. Belongs["device"] = OfDevice
    BY DEF Belongs
  <2>4. OfDevice \cap Left = Forgotten
    BY ObjectNames, WholeNames
       DEF Left, Platform, Bare, Forgotten, OfTexture, OfDevice
  <2>5. "device" \in Dropped("cleanup")
    BY <2>2 DEF Dropped
  <2>q. QED BY <1>0, <2>1, <2>2, <2>3, <2>4, <2>5, DoesDrop
<1>7. Does(Drop("surface"), "cleanup",
           At(Bare \cup {"window", "instance", "surface"}, "view"),
           At(Bare \cup {"window", "instance"}, "view"))
  <2>1. /\ "surface" \in Bare \cup {"window", "instance", "surface"}
        /\ Bare \cup {"window", "instance"}
             = (Bare \cup {"window", "instance", "surface"}) \ {"surface"}
    BY WholeNames DEF Left, Platform, Bare, Forgotten, OfTexture
  <2>2. /\ Bare \cup {"window", "instance", "surface"} \subseteq Objects
        /\ "surface" \in Objects
    BY <1>0, WholeNames DEF Left, Platform, Bare, Forgotten, OfTexture
  <2>3. Belongs["surface"] = {"swapchain"}
    BY DEF Belongs
  <2>4. {"swapchain"} \cap (Bare \cup {"window", "instance", "surface"}) = {}
    BY WholeNames DEF Left, Platform, Bare, Forgotten, OfTexture
  <2>5. "surface" \in Dropped("cleanup")
    BY <2>2 DEF Dropped
  <2>q. QED BY <1>0, <2>1, <2>2, <2>3, <2>4, <2>5, DoesDrop
<1>8. Does(Drop("instance"), "cleanup",
           At(Bare \cup {"window", "instance"}, "view"),
           At(Bare \cup {"window"}, "view"))
  <2>1. /\ "instance" \in Bare \cup {"window", "instance"}
        /\ Bare \cup {"window"}
             = (Bare \cup {"window", "instance"}) \ {"instance"}
    BY WholeNames DEF Left, Platform, Bare, Forgotten, OfTexture
  <2>2. /\ Bare \cup {"window", "instance"} \subseteq Objects
        /\ "instance" \in Objects
    BY <1>0, WholeNames DEF Left, Platform, Bare, Forgotten, OfTexture
  <2>3. Belongs["instance"] = {"surface", "device"}
    BY DEF Belongs
  <2>4. {"surface", "device"} \cap (Bare \cup {"window", "instance"}) = {}
    BY WholeNames DEF Left, Platform, Bare, Forgotten, OfTexture
  <2>5. "instance" \in Dropped("cleanup")
    BY <2>2 DEF Dropped
  <2>q. QED BY <1>0, <2>1, <2>2, <2>3, <2>4, <2>5, DoesDrop
<1>9. Does(Drop("window"), "cleanup",
           At(Bare \cup {"window"}, "view"),
           At(Bare, "view"))
  <2>1. /\ "window" \in Bare \cup {"window"}
        /\ Bare = (Bare \cup {"window"}) \ {"window"}
    BY WholeNames DEF Left, Platform, Bare, Forgotten, OfTexture
  <2>2. Bare \cup {"window"} \subseteq Objects /\ "window" \in Objects
    BY <1>0, WholeNames DEF Left, Platform, Bare, Forgotten, OfTexture
  <2>3. Belongs["window"] = {"surface"}
    BY DEF Belongs
  <2>4. {"surface"} \cap (Bare \cup {"window"}) = {}
    BY WholeNames DEF Left, Platform, Bare, Forgotten, OfTexture
  <2>5. "window" \in Dropped("cleanup")
    BY <2>2 DEF Dropped
  <2>q. QED BY <1>0, <2>1, <2>2, <2>3, <2>4, <2>5, DoesDrop
<1>10. Does(CleanupSwapchain \o Drop("sync") \o Drop("command_pool") \o Drop("pipeline"),
            "cleanup", At(Whole, "view"),
            At(Left \cup {"render_pass", "pipeline_layout"}, "view"))
  BY <1>1, <1>2, <1>3, CleanupSwapchainDoes, DoesBoth
<1>11. Does(CleanupVulkan, "cleanup", At(Whole, "view"),
            At(Bare \cup {"window"}, "view"))
  BY <1>4, <1>5, <1>6, <1>7, <1>8, <1>10, DoesBoth DEF CleanupVulkan
<1>q. QED BY <1>9, <1>11, DoesBoth DEF Teardown, CleanupWindow

-----------------------------------------------------------------------------
(* The calls that are left at a point lead to the world that belongs there.*)
Goal(point) == IF point \in {"cleanup", "done"} THEN At(Bare, "view") ELSE At(Whole, "view")
Calling == {"setup", "stage", "make", "swap", "cleanup"}

ObjectsInv == /\ calls \in Seq(CallRecords) /\ World \in Worlds
              /\ pc # "died" => Runs(calls, pc, World, Goal(pc))
              /\ calls # <<>> => pc \in Calling \cup {"died"}

LEMMA GoalWorld ==
    ASSUME NEW point
    PROVE  Goal(point) \in Worlds
<1>1. Whole \subseteq Objects /\ Bare \subseteq Objects
  BY ObjectNames DEF Bare, Forgotten, Whole, Staged, Described, Pipelined, Passes,
                     Platform, OfTexture
<1>q. QED BY <1>1 DEF Goal, At, Worlds

LEMMA ObjectsStart == InitObjects => ObjectsInv
<1> SUFFICES ASSUME InitObjects PROVE ObjectsInv
  OBVIOUS
<1>1. pc = "setup" /\ calls = Setup /\ World = At({}, "none")
  BY DEF InitObjects, Init, World, At
<1>q. QED BY <1>1, SetupDoes DEF Does, ObjectsInv, Goal, Calling

(* A call of the model is a call in this sense.                            *)
LEMMA CallEffect ==
    ASSUME ObjectsInv, Call
    PROVE  /\ calls # <<>> /\ calls' = Tail(calls) /\ pc' = pc /\ pc # "died"
           /\ Head(calls) \in CallRecords /\ World' = Effect(Head(calls), World)
<1>1. /\ calls # <<>> /\ calls' = Tail(calls) /\ pc' = pc /\ pc # "died"
  BY DEF Call, vars
<1>2. PICK c \in CallRecords : c = Head(calls)
  BY <1>1, HeadTailProperties DEF ObjectsInv
<1>3. /\ live' = CASE c.does = "make" -> live \cup {c.object}
                   [] c.does = "drop" -> live \ {c.object}
                   [] OTHER -> live
      /\ set' = CASE c.does = "write" -> Named
                  [] c = Drop("texture_view")[1] /\ set = "view" -> "gone"
                  [] OTHER -> set
  BY <1>2 DEF Call
<1>4. c.does \in {"make", "drop", "write"}
      /\ (c = Drop("texture_view")[1] <=> c.does = "drop" /\ c.object = "texture_view")
  <2>1. Drop("texture_view")[1] = [does |-> "drop", object |-> "texture_view"]
    BY DEF Drop
  <2>q. QED BY <2>1 DEF CallRecords
<1>5. World.live = live /\ World.set = set
  BY DEF World
<1>6. live' = Effect(c, World).live
  BY <1>3, <1>4, <1>5 DEF Effect
<1>7. set' = Effect(c, World).set
  BY <1>3, <1>4, <1>5 DEF Effect, Named
<1>8. World' = Effect(c, World)
  BY <1>6, <1>7 DEF World, Effect
<1>q. QED BY <1>1, <1>2, <1>8

LEMMA ObjectsCall ==
    ASSUME ObjectsInv, Call
    PROVE  ObjectsInv'
<1>1. /\ calls # <<>> /\ calls' = Tail(calls) /\ pc' = pc /\ pc # "died"
      /\ Head(calls) \in CallRecords /\ World' = Effect(Head(calls), World)
  BY CallEffect
<1>2. calls' \in Seq(CallRecords) /\ World' \in Worlds
  BY <1>1, HeadTailProperties, EffectWorld DEF ObjectsInv
<1>3. Runs(Tail(calls), pc, Effect(Head(calls), World), Goal(pc))
  BY <1>1, RunsFirst, GoalWorld DEF ObjectsInv
<1>4. Runs(calls', pc', World', Goal(pc'))
  BY <1>1, <1>3
<1>q. QED BY <1>1, <1>2, <1>4 DEF ObjectsInv

(* Where the main thread goes.                                             *)
LEMMA MainGoes ==
    ASSUME Main
    PROVE  /\ pc \notin {"done", "died"} /\ pc' \notin {"setup", "died"}
           /\ pc = "cleanup" <=> pc' = "done"
<1> USE DEF Go
<1>1. CASE SetUp \/ PollEvents \/ TestDirty \/ Stage \/ MakeTexture \/ SubmitCopy
           \/ CopyWait \/ CloseIdle \/ Cleanup
  BY <1>1 DEF SetUp, PollEvents, TestDirty, Stage, MakeTexture, SubmitCopy, CopyWait,
              CloseIdle, Cleanup
<1>2. CASE Recreate
  BY <1>2 DEF Recreate, Measure, Look, WaitEvents, SwapIdle, Swap
<1>3. CASE DrawFrame
  BY <1>3 DEF DrawFrame, WaitFence, Reset, Acquire, AcquireOutOfDate, Record, Submit, Present,
              PresentOutdated
<1>q. QED BY <1>1, <1>2, <1>3 DEF Main

LEMMA ObjectsMove ==
    ASSUME ObjectsInv, Move
    PROVE  ObjectsInv'
<1>1. calls = <<>> /\ Main /\ calls' \in CallsAt(pc') /\ World' = World
  BY DEF Move, World
<1>2. /\ pc \notin {"done", "died"} /\ pc' \notin {"setup", "died"}
      /\ pc = "cleanup" <=> pc' = "done"
  BY <1>1, MainGoes
<1>3. World = Goal(pc)
  BY <1>1, <1>2, RunsNothing, GoalWorld DEF ObjectsInv
<1>4. Does(calls', pc', World, Goal(pc')) /\ (calls' # <<>> => pc' \in Calling)
  <2>1. CASE pc' = "stage"
    <3>1. World = At(Whole, "view") /\ Goal(pc') = At(Whole, "view")
      BY <1>2, <1>3, <2>1 DEF Goal
    <3>2. calls' \in {<<>>, CreateStagingBuffer(TRUE)}
      BY <1>1, <2>1 DEF CallsAt
    <3>q. QED BY <2>1, <3>1, <3>2, StagingDoes, DoesNothing, GoalWorld DEF Calling
  <2>2. CASE pc' = "make"
    <3>1. World = At(Whole, "view") /\ Goal(pc') = At(Whole, "view")
      BY <1>2, <1>3, <2>2 DEF Goal
    <3>2. calls' = NewTexture(TRUE)
      BY <1>1, <2>2 DEF CallsAt
    <3>q. QED BY <2>2, <3>1, <3>2, TextureDoes DEF Calling
  <2>3. CASE pc' = "swap"
    <3>1. World = At(Whole, "view") /\ Goal(pc') = At(Whole, "view")
      BY <1>2, <1>3, <2>3 DEF Goal
    <3>2. calls' = RecreateSwapchain
      BY <1>1, <2>3 DEF CallsAt
    <3>q. QED BY <2>3, <3>1, <3>2, RecreateDoes DEF Calling
  <2>4. CASE pc' = "cleanup"
    <3>1. World = At(Whole, "view") /\ Goal(pc') = At(Bare, "view")
      BY <1>2, <1>3, <2>4 DEF Goal
    <3>2. calls' = Teardown
      BY <1>1, <2>4 DEF CallsAt
    <3>q. QED BY <2>4, <3>1, <3>2, TeardownDoes DEF Calling
  <2>5. CASE pc' \notin {"stage", "make", "swap", "cleanup"}
    <3>1. World = Goal(pc') /\ Goal(pc') \in Worlds
      BY <1>2, <1>3, <2>5, GoalWorld DEF Goal
    <3>2. calls' = <<>>
      BY <1>1, <2>5 DEF CallsAt
    <3>q. QED BY <3>1, <3>2, DoesNothing
  <2>q. QED BY <2>1, <2>2, <2>3, <2>4, <2>5
<1>q. QED BY <1>1, <1>4 DEF Does, ObjectsInv

LEMMA ObjectsKept ==
    ASSUME ObjectsInv, [NextObjects]_allVars
    PROVE  ObjectsInv'
<1>1. CASE Call
  BY <1>1, ObjectsCall
<1>2. CASE Move
  BY <1>2, ObjectsMove
<1>3. ASSUME UNCHANGED objects, pc' = pc \/ pc' = "died"
      PROVE  ObjectsInv'
  BY <1>3 DEF ObjectsInv, objects, World
<1>4. CASE CallFails
  BY <1>3, <1>4 DEF CallFails, objects
<1>5. CASE FrameFails
  BY <1>3, <1>5 DEF FrameFails, Die, Go
<1>6. CASE Around
  BY <1>3, <1>6 DEF Around, Finish, Resize, Minimise, Restore, Close, Happens
<1>7. CASE UNCHANGED allVars
  BY <1>3, <1>7 DEF allVars, vars
<1>q. QED BY <1>1, <1>2, <1>4, <1>5, <1>6, <1>7 DEF NextObjects

LEMMA ObjectsInvariant == ObjectsSpec => []ObjectsInv
<1>1. InitObjects => ObjectsInv
  BY ObjectsStart
<1>2. ObjectsInv /\ [NextObjects]_allVars => ObjectsInv'
  BY ObjectsKept
<1>q. QED BY <1>1, <1>2, PTL DEF ObjectsSpec

(* At a point that waits for no call, its world is there.                  *)
LEMMA ObjectsThere ==
    ASSUME ObjectsInv, calls = <<>>, pc # "died"
    PROVE  World = Goal(pc)
BY RunsNothing, GoalWorld DEF ObjectsInv

(* Each object is made from what there is and destroyed after all that is  *)
(* made from it, through any number of resizes and textures, and           *)
(* cleanup_vulkan (vulkan.c:836) leaves only what Forgotten names: for any *)
(* number of frames in flight.                                             *)
THEOREM ObjectsConsistent == ObjectsSpec => []Consistent
<1>1. TypeOK /\ ObjectsInv => Consistent
  <2> SUFFICES ASSUME TypeOK, ObjectsInv PROVE Consistent
    OBVIOUS
  <2>1. live \subseteq Objects /\ set \in {"none", "null", "view", "gone"}
    <3>1. World.live = live /\ World.set = set
      BY DEF World
    <3>q. QED BY <3>1 DEF ObjectsInv, Worlds
  <2>2. ASSUME calls # <<>>, pc # "died" PROVE Fits(Head(calls), live)
    <3>1. Admits(pc, Head(calls), World)
      BY <2>2, RunsFirst, GoalWorld DEF ObjectsInv
    <3>q. QED BY <3>1 DEF Admits, World
  <2>3. ASSUME pc = "done" PROVE calls = <<>> /\ live = Forgotten \cup {"gpu"}
    <3>1. calls = <<>>
      BY <2>3 DEF ObjectsInv, Calling
    <3>2. World = At(Bare, "view")
      BY <2>3, <3>1, ObjectsThere DEF Goal
    <3>3. live = Bare
      BY <3>2 DEF World, At
    <3>q. QED BY <3>1, <3>3 DEF Bare
  <2>q. QED BY <2>1, <2>2, <2>3 DEF Consistent
<1>q. QED BY <1>1, ObjectsInvariant, RendererIsDrawLoop, DrawLoopTypes, PTL

(* When draw_frame records and submits (vulkan.c:913 and 996) or a texture *)
(* is copied, all it uses is there, and the descriptor set names the view  *)
(* of the texture that is (vulkan_texture.c:275).                          *)
THEOREM ObjectsUsedAreLive == ObjectsSpec => []UsedAreLive
<1>1. ObjectsInv => UsedAreLive
  <2> SUFFICES ASSUME ObjectsInv, calls = <<>>, pc \in {"record", "submit", "copy"}
               PROVE  Drawn \subseteq live /\ set = "view" /\ Copied \subseteq live
    BY DEF UsedAreLive
  <2>1. World = At(Whole, "view")
    BY ObjectsThere DEF Goal
  <2>2. live = Whole /\ set = "view"
    BY <2>1 DEF World, At
  <2>q. QED BY <2>2 DEF Drawn, Copied, Whole, Staged, Described, Pipelined, Passes,
                        Platform, OfTexture
<1>q. QED BY <1>1, ObjectsInvariant, PTL

(* recreate_swapchain, create_staging_buffer and cleanup_vulkan destroy    *)
(* nothing the GPU has still to use: they come after a wait for the GPU.   *)
(* Only create_texture_image (vulkan_texture.c:73) waits for nothing, and  *)
(* only a draw can lose its texture to it.                                 *)
THEOREM ObjectsGoneUnused == ObjectsSpec => GoneUnused
<1> DEFINE Spared == \A o \in live \ live' : \A j \in Pending :
                        o \in Uses(j) => o \in OfTexture /\ j.kind = "draw"
<1>1. FrameInv /\ Awaited /\ Emptied /\ ObjectsInv /\ [NextObjects]_allVars => [Spared]_allVars
  <2> SUFFICES ASSUME FrameInv, Awaited, Emptied, ObjectsInv, NextObjects,
                      NEW o \in live \ live', NEW j \in Pending, o \in Uses(j)
               PROVE  o \in OfTexture /\ j.kind = "draw"
    BY DEF allVars
  <2>1. Call
    BY DEF NextObjects, CallFails, Move, FrameFails, Around, objects, allVars
  <2>2. PICK c \in CallRecords : c = Head(calls)
    BY <2>1, CallEffect
  <2>3. c.does = "drop" /\ c.object = o
    <3>1. live' = Effect(c, World).live /\ World.live = live
      BY <2>1, <2>2, CallEffect DEF World
    <3>q. QED BY <3>1 DEF Effect
  <2>4. o \in Dropped(pc)
    <3>1. Admits(pc, Head(calls), World)
      BY <2>1, CallEffect, RunsFirst, GoalWorld DEF ObjectsInv
    <3>q. QED BY <2>2, <2>3, <3>1 DEF Admits
  <2>5. PICK k \in 1 .. Len(queue) : j = queue[k]
    BY PendingByPlace DEF FrameInv, LoopTypes
  <2>6. pc \notin {"swap", "cleanup"}
    BY <2>5 DEF Emptied
  <2>7. j.kind = "draw"
    <3>1. pc # "copy_wait"
      BY <2>4 DEF Dropped
    <3>2. queue[k] \in Jobs
      BY <2>5 DEF FrameInv, LoopTypes
    <3>q. QED BY <2>5, <3>1, <3>2 DEF Awaited, Jobs
  <2>8. o \in {"shaders", "staging", "staging_memory"} \cup OfTexture
    BY <2>4, <2>6 DEF Dropped
  <2>9. o \in Drawn
    BY <2>7 DEF Uses
  <2>q. QED BY <2>7, <2>8, <2>9 DEF Drawn
<1>2. [](FrameInv /\ Awaited /\ Emptied /\ ObjectsInv) /\ [][NextObjects]_allVars
         => [][Spared]_allVars
  BY <1>1, PTL
<1>q. QED BY <1>2, ObjectsInvariant, RendererIsDrawLoop, FrameInvariant, QueueInvariant, PTL
          DEF ObjectsSpec, GoneUnused
=============================================================================
