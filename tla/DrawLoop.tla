------------------------------ MODULE DrawLoop ------------------------------
(***************************************************************************)
(* The main thread of the test renderer and the GPU: window_mainloop of    *)
(* window.c, draw_callback of main.c, update_vulkan_texture_from_buffer of *)
(* vulkan_texture.c and draw_frame, recreate_swapchain and the shutdown of *)
(* vulkan.c in test-renderer/src.                                          *)
(*                                                                         *)
(* The GPU works through the jobs of the one queue in order; the end of a  *)
(* draw signals the fence of its frame.  Whether a frame brings a new      *)
(* buffer is open here; RenderBuffer has what the CPU copies.              *)
(***************************************************************************)
EXTENDS Naturals, Sequences

CONSTANT Frames         \* MAX_FRAMES_IN_FLIGHT

ASSUME FramesAssumption == Frames \in Nat \ {0}

VARIABLES pc,           \* where the main thread is
          currentFrame,
          after,        \* what follows recreate_swapchain: "return", "advance"
          seen,         \* the size recreate_swapchain has seen is not zero
          fence,        \* in_flight_fences: whether each is signaled
          acquired,     \* image_available_semaphores: signaled, not waited for
          queue,        \* the jobs submitted and not done
          outdated,     \* the swapchain does not fit the window any more
          zero,         \* the window has no area
          closed,       \* glfwWindowShouldClose
          event,        \* whether an event waits to be processed
          dropped       \* history: an acquire ended with OUT_OF_DATE

gpu == <<fence, acquired, queue>>
window == <<outdated, zero, closed, event>>
vars == <<pc, currentFrame, after, seen, gpu, window, dropped>>

Slots == 0 .. Frames - 1

(* A job: a draw of a frame, or a copy to the texture; and whether it uses *)
(* the texture that is, or one that was destroyed.                         *)
Job(kind, f) == [kind |-> kind, frame |-> f, texture |-> "live"]
Pending == {queue[k] : k \in DOMAIN queue}
Drawing(f) == \E j \in Pending : j.kind = "draw" /\ j.frame = f

(* Mutant: VK_FENCE_CREATE_SIGNALED_BIT is forgotten. *)
InitUnsignaled ==
        /\ pc = "setup" /\ currentFrame = 0
        /\ after = "advance" /\ seen = FALSE
        /\ fence = [f \in Slots |-> FALSE]
        /\ acquired = [f \in Slots |-> FALSE]
        /\ queue = <<>>
        /\ outdated = FALSE /\ zero = FALSE /\ closed = FALSE /\ event = FALSE
        /\ dropped = FALSE

Init == /\ pc = "setup" /\ currentFrame = 0
        /\ after = "advance" /\ seen = FALSE
        /\ fence = [f \in Slots |-> TRUE]
        /\ acquired = [f \in Slots |-> FALSE]
        /\ queue = <<>>
        /\ outdated = FALSE /\ zero = FALSE /\ closed = FALSE /\ event = FALSE
        /\ dropped = FALSE

Go(from, to) == pc = from /\ pc' = to
QueueIdle == queue = <<>>

-----------------------------------------------------------------------------
(* What main does before window_mainloop; module Renderer has its calls.   *)
SetUp == /\ Go("setup", "poll")
         /\ UNCHANGED <<currentFrame, after, seen, gpu, window, dropped>>

(* Mutant: the flag is not read. *)
PollBlind == /\ Go("poll", "update")
             /\ event' = FALSE
             /\ UNCHANGED <<currentFrame, after, seen, gpu, outdated, zero,
                            closed, dropped>>

(* window_mainloop: the flag is read, then the events are processed.       *)
PollEvents == /\ Go("poll", IF closed THEN "close_idle" ELSE "update")
              /\ event' = IF closed THEN event ELSE FALSE
              /\ UNCHANGED <<currentFrame, after, seen, gpu, outdated, zero,
                             closed, dropped>>

(* draw_callback, with a new buffer or without. *)
TestDirty == /\ \E to \in {"stage", "wait"} : Go("update", to)
             /\ UNCHANGED <<currentFrame, after, seen, gpu, window, dropped>>

(* create_staging_buffer, and the bytes are written; the texture is made   *)
(* anew or not.                                                            *)
Stage == /\ \E to \in {"make", "copy"} : Go("stage", to)
         /\ UNCHANGED <<currentFrame, after, seen, gpu, window, dropped>>

(* create_texture_image destroys the image that is; nobody waits for the   *)
(* draws that use it.                                                      *)
MakeTexture == /\ Go("make", "copy")
               /\ queue' = [k \in DOMAIN queue |->
                               [queue[k] EXCEPT !.texture = "destroyed"]]
               /\ UNCHANGED <<currentFrame, after, seen, fence, acquired,
                              window, dropped>>

SubmitCopy == /\ Go("copy", "copy_wait")
              /\ queue' = Append(queue, Job("copy", currentFrame))
              /\ UNCHANGED <<currentFrame, after, seen, fence, acquired,
                             window, dropped>>

(* Mutant: vkQueueWaitIdle is forgotten. *)
CopyNoWait == /\ Go("copy_wait", "wait")
              /\ UNCHANGED <<currentFrame, after, seen, gpu, window, dropped>>

CopyWait == /\ QueueIdle /\ Go("copy_wait", "wait")
            /\ UNCHANGED <<currentFrame, after, seen, gpu, window, dropped>>

-----------------------------------------------------------------------------
(* Mutant: the fence is not waited for. *)
WaitFenceNot == /\ Go("wait", "reset")
                /\ UNCHANGED <<currentFrame, after, seen, gpu, window, dropped>>

(* draw_frame.  The fence is reset here, and once more after the acquire.  *)
WaitFence == /\ fence[currentFrame] /\ Go("wait", "reset")
             /\ UNCHANGED <<currentFrame, after, seen, gpu, window, dropped>>

Reset(from, to) == /\ Go(from, to)
                   /\ fence' = [fence EXCEPT ![currentFrame] = FALSE]
                   /\ UNCHANGED <<currentFrame, after, seen, acquired, queue,
                                  window, dropped>>

(* SUCCESS or SUBOPTIMAL: the semaphore will be signaled.                  *)
Acquire == /\ Go("acquire", "reset_again")
           /\ acquired' = [acquired EXCEPT ![currentFrame] = TRUE]
           /\ UNCHANGED <<currentFrame, after, seen, fence, queue, window, dropped>>

AcquireOutOfDate == /\ outdated /\ Go("acquire", "measure")
                    /\ after' = "return" /\ dropped' = TRUE
                    /\ UNCHANGED <<currentFrame, seen, gpu, window>>

Record == /\ Go("record", "submit")
          /\ UNCHANGED <<currentFrame, after, seen, gpu, window, dropped>>

Submit == /\ Go("submit", "present")
          /\ queue' = Append(queue, Job("draw", currentFrame))
          /\ acquired' = [acquired EXCEPT ![currentFrame] = FALSE]
          /\ UNCHANGED <<currentFrame, after, seen, fence, window, dropped>>

NextFrame == currentFrame' = (currentFrame + 1) % Frames

Present == /\ Go("present", "poll") /\ NextFrame
           /\ UNCHANGED <<after, seen, gpu, window, dropped>>

(* OUT_OF_DATE or SUBOPTIMAL. *)
PresentOutdated == /\ outdated /\ Go("present", "measure")
                   /\ after' = "advance"
                   /\ UNCHANGED <<currentFrame, seen, gpu, window, dropped>>

(* Any other result of a call ends the process: by exit, or at "stage" and *)
(* "make" by an assertion.                                                 *)
Die == /\ \E from \in {"setup", "stage", "make", "acquire", "record", "submit",
                          "present", "swap"} :
              Go(from, "died")
       /\ UNCHANGED <<currentFrame, after, seen, gpu, window, dropped>>

-----------------------------------------------------------------------------
(* recreate_swapchain.  While the window has no area: the size is read,    *)
(* and an event waited for, also when the size just read is not zero.      *)
Measure == /\ Go("measure", IF zero THEN "look" ELSE "swap_idle")
           /\ UNCHANGED <<currentFrame, after, seen, gpu, window, dropped>>

Look == /\ Go("look", "events")
        /\ seen' = ~zero
        /\ UNCHANGED <<currentFrame, after, gpu, window, dropped>>

WaitEvents == /\ event /\ Go("events", IF seen THEN "swap_idle" ELSE "look")
              /\ event' = FALSE
              /\ UNCHANGED <<currentFrame, after, seen, gpu, outdated, zero,
                             closed, dropped>>

(* Mutant: vkDeviceWaitIdle is forgotten. *)
SwapNoWait == /\ Go("swap_idle", "swap")
              /\ UNCHANGED <<currentFrame, after, seen, gpu, window, dropped>>

SwapIdle == /\ QueueIdle /\ Go("swap_idle", "swap")
            /\ UNCHANGED <<currentFrame, after, seen, gpu, window, dropped>>

(* cleanup_swapchain and what makes the new one; then draw_frame returns.  *)
Swap == /\ Go("swap", "poll")
        /\ outdated' = FALSE
        /\ IF after = "advance" THEN NextFrame ELSE UNCHANGED currentFrame
        /\ UNCHANGED <<after, seen, gpu, zero, closed, event, dropped>>

(* The window was closed: device_idle, then cleanup_vulkan. *)
CloseIdle == /\ QueueIdle /\ Go("close_idle", "cleanup")
             /\ UNCHANGED <<currentFrame, after, seen, gpu, window, dropped>>

Cleanup == /\ Go("cleanup", "done")
           /\ UNCHANGED <<currentFrame, after, seen, gpu, window, dropped>>

-----------------------------------------------------------------------------
(* The GPU finishes its first job. *)
Finish == /\ queue # <<>> /\ queue' = Tail(queue)
          /\ fence' = IF Head(queue).kind = "draw"
                      THEN [fence EXCEPT ![Head(queue).frame] = TRUE] ELSE fence
          /\ UNCHANGED <<pc, currentFrame, after, seen, acquired, window, dropped>>

(* The user resizes the window, gives it no area, or an area, or closes it.*)
Happens == /\ event' = TRUE
           /\ UNCHANGED <<pc, currentFrame, after, seen, gpu, dropped>>
Resize == outdated' = TRUE /\ UNCHANGED <<zero, closed>> /\ Happens
Minimise == zero' = TRUE /\ outdated' = TRUE /\ UNCHANGED closed /\ Happens
Restore == zero' = FALSE /\ outdated' = TRUE /\ UNCHANGED closed /\ Happens
Close == closed' = TRUE /\ UNCHANGED <<outdated, zero>> /\ Happens

DrawFrame == \/ WaitFence \/ Reset("reset", "acquire")
             \/ Acquire \/ AcquireOutOfDate \/ Reset("reset_again", "record")
             \/ Record \/ Submit \/ Present \/ PresentOutdated
Recreate == Measure \/ Look \/ WaitEvents \/ SwapIdle \/ Swap
Main == \/ SetUp \/ PollEvents \/ TestDirty \/ Stage \/ MakeTexture \/ SubmitCopy \/ CopyWait
        \/ DrawFrame \/ Recreate \/ CloseIdle \/ Cleanup

Ended == pc \in {"done", "died"}
Next == \/ ~Ended /\ (Main \/ Die \/ Finish \/ Resize \/ Minimise \/ Restore \/ Close)
        \/ Ended /\ UNCHANGED vars

Spec == Init /\ [][Next]_vars

(* The main thread runs and the GPU works.  Nobody has to touch the window.*)
FairSpec == Spec /\ WF_vars(~Ended /\ Main) /\ WF_vars(~Ended /\ Finish)

-----------------------------------------------------------------------------
Pcs == {"setup", "poll", "update", "stage", "make", "copy", "copy_wait", "wait", "reset",
        "acquire", "reset_again", "record", "submit", "present", "measure",
        "look", "events", "swap_idle", "swap", "close_idle", "cleanup", "done",
        "died"}
Jobs == [kind : {"draw", "copy"}, frame : Slots, texture : {"live", "destroyed"}]

(* Types; and the GPU has one draw for each frame at the most. *)
TypeOK == /\ pc \in Pcs /\ currentFrame \in Slots
          /\ after \in {"return", "advance"} /\ seen \in BOOLEAN
          /\ fence \in [Slots -> BOOLEAN] /\ acquired \in [Slots -> BOOLEAN]
          /\ queue \in Seq(Jobs) /\ Len(queue) <= Frames + 1
          /\ outdated \in BOOLEAN /\ zero \in BOOLEAN /\ closed \in BOOLEAN
          /\ event \in BOOLEAN /\ dropped \in BOOLEAN

(* From the wait for its fence to its submission nothing of a frame is     *)
(* with the GPU, so its command buffer may be recorded and its fence reset *)
(* (vulkan.c:959 waits for it); and an image is acquired with a semaphore  *)
(* that is not signaled.                                                   *)
FrameIdle == /\ pc \in {"reset", "acquire", "reset_again", "record", "submit"}
                   => ~Drawing(currentFrame)
             /\ pc \in {"reset", "acquire"} => ~acquired[currentFrame]

(* The swapchain and all else is destroyed when the GPU is idle            *)
(* (vulkan.c:949, window.c:39).                                            *)
DestroyedIdle == pc \in {"swap", "cleanup"} => QueueIdle

(* The staging buffer is written, or replaced, when no copy reads it.      *)
StagingIdle == pc = "stage" => \A j \in Pending : j.kind # "copy"

(* A draw that is with the GPU when its texture is destroyed is done when  *)
(* the update returns: vkQueueWaitIdle comes late, but it comes.           *)
StaleEnds == (\E j \in Pending : j.texture = "destroyed")
                => pc \in {"copy", "copy_wait"}

(* Nothing is destroyed or overwritten that the GPU uses, at the points    *)
(* where the code waits for it, and a stale texture not for longer than    *)
(* the update.                                                             *)
NothingInUse == DestroyedIdle /\ StagingIdle /\ StaleEnds

(* A fence that is waited for has work before it ("Only reset the fence if *)
(* we are submitting work", vulkan.c:974).                                 *)
FenceHasWork == pc = "wait" /\ ~fence[currentFrame] => Drawing(currentFrame)

(* So it is unless an acquire has ended with OUT_OF_DATE, which returns    *)
(* with the fence reset and the same frame to come.                        *)
FenceHasWorkOnceAcquired == FenceHasWork \/ dropped

(* A window that is closed ends the program, wherever the loop is, unless  *)
(* it waits for an event because the window has no area or has just got    *)
(* one (glfwWaitEvents), or OUT_OF_DATE left a fence without work.         *)
CloseEnds == closed ~> Ended \/ pc \in {"look", "events"} \/ dropped
=============================================================================
