------------------------------ MODULE Renderer ------------------------------
(***************************************************************************)
(* The objects of the test renderer: what main.c, vulkan.c and             *)
(* vulkan_texture.c create and destroy, from the window to its end.        *)
(*                                                                         *)
(* The main thread moves as in DrawLoop.  On its way to the next point it  *)
(* makes the calls that stand in `calls`, one step for each; a function    *)
(* of the source is here the sequence of its calls.  A creation that fails *)
(* ends the process, by an assertion or exit.  The objects an array holds, *)
(* one per image or per frame, are one; command buffers and the descriptor *)
(* set go with their pools.                                                *)
(***************************************************************************)
EXTENDS DrawLoop

VARIABLES calls,        \* the calls up to the next point of DrawLoop
          live,         \* the objects there are
          set           \* what the descriptor set names: "none", "null", the
                        \* "view" of the texture, or one that is "gone"

objects == <<calls, live, set>>
allVars == <<vars, objects>>

Make(o) == <<[does |-> "make", object |-> o]>>
Drop(o) == <<[does |-> "drop", object |-> o]>>
Write == <<[does |-> "write", object |-> "descriptor_pool"]>>

-----------------------------------------------------------------------------
(* What a creation is given, by the fields of its create-info.             *)
MadeFrom == [
    window |-> {}, instance |-> {"window"}, surface |-> {"instance", "window"},
    gpu |-> {"instance", "surface"}, device |-> {"gpu", "surface"},
    swapchain |-> {"device", "gpu", "surface"}, image_views |-> {"swapchain"},
    render_pass |-> {"device", "swapchain"}, shaders |-> {"device"},
    set_layout |-> {"device"}, pipeline_layout |-> {"set_layout"},
    pipeline |-> {"shaders", "pipeline_layout", "render_pass"},
    framebuffers |-> {"image_views", "render_pass"},
    command_pool |-> {"device"}, sync |-> {"device"}, sampler |-> {"device"},
    descriptor_pool |-> {"device", "set_layout"},
    staging |-> {"device"}, staging_memory |-> {"device", "staging"},
    texture |-> {"device"}, texture_memory |-> {"device", "texture"},
    texture_view |-> {"texture", "texture_memory"}]

Objects == DOMAIN MadeFrom

(* What must be gone before it: Vulkan's owners.                           *)
OfDevice == Objects \ {"window", "instance", "surface", "gpu", "device"}
Belongs == [window |-> {"surface"}, instance |-> {"surface", "device"},
            surface |-> {"swapchain"}, device |-> OfDevice]

InitWindow == Make("window")
CleanupWindow == Drop("window")
CreateSurface == Make("surface")
CreateInstance == Make("instance")
(* No suitable device leaves the handle unset, and it is tested against    *)
(* NULL: the process exits, or fails over the handle in the next call.     *)
PickGpu == Make("gpu")
CreateLogicalDevice == Make("device")
CreateSwapchain == Make("swapchain")
CreateImageViews == Make("image_views")
CreateRenderPass == Make("render_pass")
CreateGraphicsPipeline ==
    Make("shaders") \o Make("set_layout") \o Make("pipeline_layout")
      \o Make("pipeline") \o Drop("shaders")
CreateFramebuffers == Make("framebuffers")
CreateCommandPool == Make("command_pool")
CreateSyncObjects == Make("sync")
CreateTextureSampler == Make("sampler")
CreateDescriptorPool == Make("descriptor_pool")
CreateDescriptorSet == Write

CreateStagingBuffer(old) ==
    (IF old THEN Drop("staging") \o Drop("staging_memory") ELSE <<>>)
      \o Make("staging") \o Make("staging_memory")

CreateTextureImage(old) ==
    (IF old THEN Drop("texture") \o Drop("texture_memory") \o Drop("texture_view")
            ELSE <<>>)
      \o Make("texture") \o Make("texture_memory") \o Make("texture_view")

(* Mutant: the descriptor set is not told. *)
NewTextureUntold(old) == CreateTextureImage(old)
NewTexture(old) == CreateTextureImage(old) \o Write

InitVulkan ==
    CreateInstance \o CreateSurface \o PickGpu \o CreateLogicalDevice
      \o CreateSwapchain \o CreateImageViews \o CreateRenderPass
      \o CreateGraphicsPipeline \o CreateFramebuffers \o CreateCommandPool
      \o CreateSyncObjects \o CreateTextureSampler \o CreateDescriptorPool
      \o CreateDescriptorSet \o CreateStagingBuffer(FALSE) \o NewTexture(FALSE)

CleanupSwapchain == Drop("framebuffers") \o Drop("image_views") \o Drop("swapchain")
RecreateSwapchain == CleanupSwapchain \o CreateSwapchain \o CreateImageViews
                       \o CreateFramebuffers

(* Mutant: the device goes before the render pass. *)
CleanupVulkanEarly ==
    CleanupSwapchain \o Drop("sync") \o Drop("command_pool") \o Drop("pipeline")
      \o Drop("pipeline_layout") \o Drop("device") \o Drop("render_pass")
      \o Drop("surface") \o Drop("instance")

CleanupVulkan ==
    CleanupSwapchain \o Drop("sync") \o Drop("command_pool") \o Drop("pipeline")
      \o Drop("pipeline_layout") \o Drop("render_pass") \o Drop("device")
      \o Drop("surface") \o Drop("instance")

(* main, before and after window_mainloop. *)
Setup == InitWindow \o InitVulkan
Teardown == CleanupVulkan \o CleanupWindow

CallsAt(point) == CASE point = "stage" -> {<<>>, CreateStagingBuffer(TRUE)}
                    [] point = "make" -> {NewTexture(TRUE)}
                    [] point = "swap" -> {RecreateSwapchain}
                    [] point = "cleanup" -> {Teardown}
                    [] OTHER -> {<<>>}

-----------------------------------------------------------------------------
InitObjects == /\ Init
               /\ calls = Setup /\ live = {} /\ set = "none"

(* The next call of the main thread succeeds. *)
Named == IF "texture_view" \in live THEN "view" ELSE "null"
Call == /\ calls # <<>> /\ pc # "died"
        /\ calls' = Tail(calls)
        /\ LET c == Head(calls)
           IN  /\ live' = CASE c.does = "make" -> live \cup {c.object}
                            [] c.does = "drop" -> live \ {c.object}
                            [] OTHER -> live
               /\ set' = CASE c.does = "write" -> Named
                           [] c = Drop("texture_view")[1] /\ set = "view" -> "gone"
                           [] OTHER -> set
        /\ UNCHANGED vars

(* A creation fails, at one of the points where something is created.      *)
CallFails == /\ calls # <<>> /\ Head(calls).does = "make"
             /\ pc \in {"setup", "stage", "make", "swap"} /\ pc' = "died"
             /\ UNCHANGED <<currentFrame, after, seen, gpu, window, dropped, objects>>

(* A step of DrawLoop's main thread, and the calls that come with it. *)
Move == /\ calls = <<>> /\ Main
        /\ calls' \in CallsAt(pc')
        /\ UNCHANGED <<live, set>>

(* Another call of a frame fails. *)
FrameFails == calls = <<>> /\ pc \notin {"setup", "make", "swap"} /\ Die /\ UNCHANGED objects

(* What happens to a window there is, and the GPU. *)
Around == /\ \/ Finish
             \/ "window" \in live /\ (Resize \/ Minimise \/ Restore \/ Close)
          /\ UNCHANGED objects

NextObjects == \/ ~Ended /\ (Call \/ CallFails \/ Move \/ FrameFails \/ Around)
               \/ Ended /\ UNCHANGED allVars

ObjectsSpec == /\ InitObjects /\ [][NextObjects]_allVars
               /\ WF_allVars(~Ended /\ (Call \/ Move))
               /\ WF_allVars(~Ended /\ Finish /\ UNCHANGED objects)

-----------------------------------------------------------------------------
OfTexture == {"texture", "texture_memory", "texture_view"}
Copied == {"command_pool", "staging", "staging_memory", "texture", "texture_memory"}
Drawn == OfTexture \cup
         {"swapchain", "image_views", "framebuffers", "render_pass", "pipeline",
          "pipeline_layout", "set_layout", "sampler", "descriptor_pool",
          "command_pool", "sync"}
Uses(job) == IF job.kind = "draw" THEN Drawn ELSE Copied

(* What cleanup_vulkan does not destroy, and the device takes along.       *)
Forgotten == {"set_layout", "sampler", "descriptor_pool", "staging",
              "staging_memory"} \cup OfTexture

(* A call is given what there is, creates what there is not, and destroys  *)
(* what there is, after all that belongs to it; only the device is         *)
(* destroyed before what is forgotten (vulkan.c:836).                      *)
Fits(c, there) ==
    CASE c.does = "make" -> MadeFrom[c.object] \subseteq there /\ c.object \notin there
      [] c.does = "write" -> {"descriptor_pool", "sampler"} \subseteq there
      [] OTHER -> /\ c.object \in there
                  /\ c.object \in DOMAIN Belongs
                        => Belongs[c.object] \cap there
                             = IF c.object = "device" THEN Forgotten ELSE {}

(* The types; each call fits what there is, at each point of the program's *)
(* life; and at its end nothing is left but what is forgotten, and the     *)
(* handle of the physical device, which nobody destroys.                   *)
Consistent ==
    /\ TypeOK /\ live \subseteq Objects
    /\ set \in {"none", "null", "view", "gone"}
    /\ calls # <<>> /\ pc # "died" => Fits(Head(calls), live)
    /\ pc = "done" => calls = <<>> /\ live = Forgotten \cup {"gpu"}

(* When a frame or a copy is recorded all that it uses is there, and the   *)
(* descriptor set names the view of the texture that is                    *)
(* (vulkan_texture.c:275, vulkan.c:913), however textures, staging buffers *)
(* and swapchains have come and gone.                                      *)
UsedAreLive ==
    calls = <<>> => /\ pc \in {"record", "submit"} => Drawn \subseteq live /\ set = "view"
                    /\ pc = "copy" => Copied \subseteq live

(* What a job uses is not destroyed before the GPU has done it, but for    *)
(* the texture of a draw: create_texture_image (vulkan_texture.c:73) waits *)
(* for nothing.                                                            *)
GoneUnused ==
    [][\A o \in live \ live' : \A j \in Pending :
          o \in Uses(j) => o \in OfTexture /\ j.kind = "draw"]_allVars
=============================================================================
