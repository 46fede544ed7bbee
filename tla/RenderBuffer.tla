---------------------------- MODULE RenderBuffer ----------------------------
(***************************************************************************)
(* The test renderer: the thread of test-renderer/src/buffer_mgr.c that    *)
(* receives the signals about buffers and maps their memory, and the main  *)
(* thread, which draws (main.c, vulkan_texture.c).  Both work on the one   *)
(* RenderBuffer_t of g_buffer_mgr, without a lock.                         *)
(*                                                                         *)
(* One step is one access to a field both threads use; fields that are     *)
(* stored side by side and read side by side are one.  Signal n brings the *)
(* descriptor n of a file; the larger its extent, the larger the file.     *)
(* Reading memory that is not mapped, or past its end, sets fault.         *)
(***************************************************************************)
EXTENDS Naturals, Sequences, FiniteSets

CONSTANTS MaxSignals,   \* bound on the signals that arrive
          Extents,      \* width * height of a buffer, in some unit
          Failures      \* whether the bus, fstat and mmap may fail

ASSUME SignalsAssumption == MaxSignals \in Nat
ASSUME ExtentsAssumption == Extents \subseteq Nat \ {0}
ASSUME FailuresAssumption == Failures \in BOOLEAN

VARIABLES fetch, draw,          \* where the two threads are
          running,              \* g_buffer_mgr->running
          data, size, extent,   \* of the RenderBuffer_t: data is 0 or a signal
          fd, mmaped, dirty,
          extents,              \* history: the extent of each signal, in order
          taken,                \* the last signal that was dispatched
          mapped, open,         \* files mapped and descriptors open
          staging,              \* vulkan->staging_buffer_size
          staged,               \* the signal whose bytes are in it
          texture,              \* the extent of the texture image, 0: the first, 1x1
          copied,               \* the extent that was last copied into it
          overlap,              \* history: both threads were at the struct at once
          fault

fields == <<data, size, extent, fd, mmaped, dirty>>
kernel == <<mapped, open>>
arrivals == <<extents, taken>>
vulkan == <<staging, staged, texture, copied>>
vars == <<fetch, draw, running, fields, arrivals, kernel, vulkan, overlap, fault>>

Init == /\ fetch = "connect" /\ draw = "test" /\ running = TRUE
        /\ data = 0 /\ size = 0 /\ extent = 0
        /\ fd = 0 /\ mmaped = FALSE /\ dirty = FALSE
        /\ extents = <<>> /\ taken = 0
        /\ mapped = {} /\ open = {}
        /\ staging = 0 /\ staged = 0 /\ texture = 0 /\ copied = 0
        /\ overlap = FALSE /\ fault = "none"

FetchGo(f, t) == fetch = f /\ fetch' = t /\ UNCHANGED draw
DrawGo(f, t) == draw = f /\ draw' = t /\ UNCHANGED fetch

-----------------------------------------------------------------------------
(* buffer_fetcher_worker.  Any failure to connect ends it.                 *)
Connect == /\ FetchGo("connect", "wait")
           /\ UNCHANGED <<running, fields, arrivals, kernel, vulkan, fault>>

ConnectFails == /\ Failures /\ FetchGo("connect", "exited")
                /\ UNCHANGED <<running, fields, arrivals, kernel, vulkan, fault>>

(* A dispatch that brings a signal, and with it a descriptor of our own.   *)
Dispatch == /\ running /\ taken < Len(extents)
            /\ FetchGo("wait", "map")
            /\ taken' = taken + 1
            /\ open' = open \cup {taken'}
            /\ UNCHANGED <<running, fields, extents, mapped, vulkan, fault>>

Leave == /\ ~running /\ FetchGo("wait", "exited")
         /\ UNCHANGED <<running, fields, arrivals, kernel, vulkan, fault>>

(* update_buffer_from_fd.  When fstat or mmap fails the descriptor stays.  *)
Map == /\ FetchGo("map", "unmap")
       /\ mapped' = mapped \cup {taken}
       /\ UNCHANGED <<running, fields, arrivals, open, vulkan, fault>>

MapFails == /\ Failures /\ FetchGo("map", "wait")
            /\ UNCHANGED <<running, fields, arrivals, kernel, vulkan, fault>>

(* Mutant: the old mapping is forgotten. *)
UnmapForgets == /\ FetchGo("unmap", "forget")
                /\ UNCHANGED <<running, fields, arrivals, kernel, vulkan, fault>>

Unmap == /\ FetchGo("unmap", "forget")
         /\ mapped' = IF mmaped THEN mapped \ {data} ELSE mapped
         /\ UNCHANGED <<running, fields, arrivals, open, vulkan, fault>>

Forget == /\ FetchGo("forget", "put_data")
          /\ data' = 0 /\ mmaped' = FALSE
          /\ UNCHANGED <<running, size, extent, fd, dirty, arrivals, kernel,
                         vulkan, fault>>

PutData == /\ FetchGo("put_data", "put_size")
           /\ data' = taken
           /\ UNCHANGED <<running, size, extent, fd, mmaped, dirty, arrivals,
                          kernel, vulkan, fault>>

PutSize == /\ FetchGo("put_size", "put_extent")
           /\ size' = extents[taken]
           /\ UNCHANGED <<running, data, extent, fd, mmaped, dirty, arrivals,
                          kernel, vulkan, fault>>

(* Mutant: width and height stay as they are. *)
PutExtentNot == /\ FetchGo("put_extent", "put_dirty")
                /\ UNCHANGED <<running, fields, arrivals, kernel, vulkan, fault>>

PutExtent == /\ FetchGo("put_extent", "put_dirty")
             /\ extent' = extents[taken]
             /\ UNCHANGED <<running, data, size, fd, mmaped, dirty, arrivals,
                            kernel, vulkan, fault>>

(* Mutant: the flag is forgotten. *)
PutClean == /\ FetchGo("put_dirty", "wait")
            /\ fd' = taken /\ mmaped' = TRUE
            /\ UNCHANGED <<running, data, size, extent, dirty, arrivals, kernel,
                           vulkan, fault>>

PutDirty == /\ FetchGo("put_dirty", "wait")
            /\ fd' = taken /\ mmaped' = TRUE /\ dirty' = TRUE
            /\ UNCHANGED <<running, data, size, extent, arrivals, kernel,
                           vulkan, fault>>

-----------------------------------------------------------------------------
(* draw_callback and update_vulkan_texture_from_buffer.                    *)
TestDirty == /\ dirty /\ DrawGo("test", "check")
             /\ UNCHANGED <<running, fields, arrivals, kernel, vulkan, fault>>

CheckBuffer == /\ DrawGo("check", IF data = 0 \/ size = 0 THEN "clear" ELSE "stage")
               /\ UNCHANGED <<running, fields, arrivals, kernel, vulkan, fault>>

Stage == /\ DrawGo("stage", "copy")
         /\ staging' = IF staging >= size THEN staging ELSE size
         /\ UNCHANGED <<running, fields, arrivals, kernel, staged, texture,
                        copied, fault>>

(* The file of signal n has extents[n] bytes. *)
Readable(n, bytes) == n \in mapped /\ bytes <= extents[n]

Copy == /\ draw = "copy"
        /\ IF Readable(data, size) /\ size <= staging
           THEN DrawGo("copy", "texture") /\ staged' = data /\ UNCHANGED fault
           ELSE /\ fault' = "bad copy"
                /\ UNCHANGED <<fetch, draw, staged>>
        /\ UNCHANGED <<running, fields, arrivals, kernel, staging, texture, copied>>

(* vulkan->current_buffer is the one buffer there is, compared with itself,*)
(* so the image is not made again for another extent.  The first time it   *)
(* is what is left of a local of init_vulkan, which may look like anything.*)
Texture == /\ DrawGo("texture", "region")
           /\ texture' \in IF copied = 0 THEN {extent, texture} ELSE {texture}
           /\ UNCHANGED <<running, fields, arrivals, kernel, staging, staged,
                          copied, fault>>

Region == /\ DrawGo("region", "clear")
          /\ copied' = extent
          /\ UNCHANGED <<running, fields, arrivals, kernel, staging, staged,
                         texture, fault>>

(* The flag is reset whatever was done, and the frame drawn.               *)
Clear == /\ DrawGo("clear", "test")
         /\ dirty' = FALSE
         /\ UNCHANGED <<running, data, size, extent, fd, mmaped, arrivals,
                        kernel, vulkan, fault>>

(* The window is closed: stop_buffermgr_thread, then cleanup_buffermgr.    *)
Stop == /\ DrawGo("test", "join")
        /\ running' = FALSE
        /\ UNCHANGED <<fields, arrivals, kernel, vulkan, fault>>

Join == /\ fetch = "exited" /\ DrawGo("join", "cleanup")
        /\ UNCHANGED <<running, fields, arrivals, kernel, vulkan, fault>>

(* fd is 0, nobody's descriptor here, when no signal came. *)
Cleanup == /\ DrawGo("cleanup", "done")
           /\ mapped' = IF mmaped THEN mapped \ {data} ELSE mapped
           /\ open' = open \ {fd}
           /\ mmaped' = FALSE
           /\ UNCHANGED <<running, data, size, extent, fd, dirty, arrivals,
                          vulkan, fault>>

-----------------------------------------------------------------------------
(* The compositor sends a signal for each attach. *)
Arrive == /\ Len(extents) < MaxSignals /\ draw # "done"
          /\ \E e \in Extents : extents' = Append(extents, e)
          /\ UNCHANGED <<fetch, draw, running, fields, taken, kernel, vulkan, fault>>

FetchStep == \/ Connect \/ ConnectFails \/ Dispatch \/ Leave \/ Map \/ MapFails
             \/ Unmap \/ Forget \/ PutData \/ PutSize \/ PutExtent \/ PutDirty
DrawStep == \/ TestDirty \/ CheckBuffer \/ Stage \/ Copy \/ Texture \/ Region
            \/ Clear \/ Join \/ Cleanup

Alive == fault = "none"

(* The one thread writes the struct, the other uses it. *)
Writing == fetch \in {"unmap", "forget", "put_data", "put_size", "put_extent",
                      "put_dirty"}
Using == draw \in {"check", "stage", "copy", "texture", "region", "clear"}
NoteOverlap == overlap' = (overlap \/ (Writing /\ Using)')

Next == \/ Alive /\ (FetchStep \/ DrawStep \/ Stop \/ Arrive) /\ NoteOverlap
        \/ /\ ~Alive \/ draw = "done"
           /\ UNCHANGED vars

Spec == Init /\ [][Next]_vars

(* Both threads run.  Nobody has to close the window or send a signal.     *)
FairSpec == /\ Spec
            /\ WF_vars(Alive /\ FetchStep /\ NoteOverlap)
            /\ WF_vars(Alive /\ DrawStep /\ NoteOverlap)

-----------------------------------------------------------------------------
Sizes == Extents \cup {0}
Signals == 1 .. MaxSignals
TypeOK == /\ fetch \in {"connect", "wait", "map", "unmap", "forget", "put_data",
                        "put_size", "put_extent", "put_dirty", "exited"}
          /\ draw \in {"test", "check", "stage", "copy", "texture", "region",
                       "clear", "join", "cleanup", "done"}
          /\ running \in BOOLEAN /\ mmaped \in BOOLEAN /\ dirty \in BOOLEAN
          /\ data \in Signals \cup {0} /\ fd \in Signals \cup {0}
          /\ {size, extent, staging, texture, copied} \subseteq Sizes
          /\ extents \in Seq(Extents) /\ taken \in 0 .. Len(extents)
          /\ open \subseteq 1 .. taken /\ mapped \subseteq open
          /\ staged \in 0 .. taken /\ overlap \in BOOLEAN
          /\ fault \in {"none", "bad copy"}

(* At any time at most the old and the new file are mapped, and at the end *)
(* none is: update_buffer_from_fd and cleanup_buffermgr unmap what they    *)
(* replace, however the window is closed.                                  *)
MappingsAccounted == /\ Cardinality(mapped) <= 2
                     /\ fetch \in {"wait", "exited"} => Cardinality(mapped) <= 1
                     /\ draw = "done" => mapped = {}

(* The struct is cleaned up and freed after the thread's last use of it.   *)
FreedAfterExit == draw \in {"cleanup", "done"} => fetch = "exited"

(* What the two threads hold is accounted for from the first signal to the *)
(* free of the struct.                                                     *)
Consistent == TypeOK /\ MappingsAccounted /\ FreedAfterExit

(* As long as the receiving thread does not write the struct while a frame *)
(* uses it,                                                                *)
(*  - the copy (vulkan_texture.c:238) reads mapped memory and no more than *)
(*    there is;                                                            *)
(*  - the bytes of a buffer are copied with its extent: the fields are     *)
(*    written before dirty is raised (buffer_mgr.c:49-58);                 *)
(*  - they cover the image they go to, if that was made for a buffer at all*)
(*    and every buffer has the same extent (vulkan_texture.c:253).         *)
(* Nothing excludes the two.  When they overlap the copy may read what was *)
(* unmapped, or one file with the size of another.                         *)
SameExtent == \A n \in DOMAIN extents : extents[n] = extents[1]
RightApart ==
    ~overlap => /\ fault = "none"
                /\ draw = "clear" /\ staged # 0 =>
                      /\ copied = extents[staged]
                      /\ SameExtent /\ texture # 0 => texture = copied

(* Until they overlap every buffer is drawn, or a later one comes, or the  *)
(* window is closed (window.c:32: every frame checks the buffer through    *)
(* dirty).  When they overlap one may be lost, as dirty is reset after the *)
(* frame that missed it (main.c:18).                                       *)
EachShown == \A n \in Signals :
    fetch = "put_dirty" /\ taken = n
       ~> \/ staged = n \/ taken > n
          \/ overlap \/ draw \in {"join", "cleanup", "done"} \/ ~Alive
=============================================================================
