--------------------------- MODULE BufferGeometry ---------------------------
(***************************************************************************)
(* The geometry of one buffer from the request to the screen, in the       *)
(* arithmetic of the C program: the checks of shm_pool_create_buffer, the  *)
(* struct buffer that buffer_create_shm fills in, the signal that          *)
(* surface_headless_attach sends, what update_buffer_from_fd of the        *)
(* renderer makes of it, and the region its GPU copies out of the file.    *)
(* An int counts to MaxInt and a size_t has twice as many bits (32 and 64  *)
(* in the build); signed overflow wraps, as compiled code does.            *)
(***************************************************************************)
EXTENDS Integers

CONSTANTS MaxInt,               \* INT_MAX
          Offsets, Widths, Heights, Strides,    \* what the request may hold
          PoolSizes,            \* what shm_create_pool admits: positive ints
          FileSizes,            \* how long the file is when the renderer maps it
          Nothing               \* in the place of what is not there yet

Ints == -MaxInt - 1 .. MaxInt
Words == 2 * (MaxInt + 1)       \* how many values an int or a uint32_t has

ASSUME IntAssumption == MaxInt \in Nat
ASSUME RequestAssumption == Offsets \cup Widths \cup Heights \cup Strides \subseteq Ints
ASSUME PoolSizeAssumption == PoolSizes \subseteq 1 .. MaxInt
ASSUME FileSizeAssumption == FileSizes \subseteq Nat \ {0}

Unsigned(x) == x % Words                        \* (uint32_t)x
Size(x) == x % (Words * Words)                  \* (size_t)x
Signed(x) == LET u == Unsigned(x) IN IF u > MaxInt THEN u - Words ELSE u

VARIABLES request,      \* the arguments, the format known or not, pool->size
          verdict,      \* "none" yet, "accepted", or why it was refused
          buffer,       \* the fields of struct buffer
          signal,       \* the numbers in the signal, in their order
          received,     \* the fields of the renderer's RenderBuffer_t
          region        \* the copy region of its GPU

numbers == <<request, verdict, buffer, signal, received, region>>

InitGeometry ==
    /\ request \in [offset : Offsets, width : Widths, height : Heights,
                    stride : Strides, known : BOOLEAN, pool : PoolSizes]
    /\ verdict = "none"
    /\ buffer = Nothing /\ signal = Nothing
    /\ received = Nothing /\ region = Nothing

-----------------------------------------------------------------------------
(* The checks, in the order of the code. *)
MinStride(r) == Signed(r.width * 4)
RequiredSize(r) == Size(Size(r.offset) + Size(r.height) * Size(r.stride))

(* Mutants: a stride counted in pixels; the offset forgotten.              *)
BadStridePixels(r) == r.stride < r.width
TooLargeNoOffset(r) == Size(Size(r.height) * Size(r.stride)) > r.pool

BadOffset(r) == r.offset < 0 \/ Size(r.offset) >= r.pool
BadExtent(r) == r.width <= 0 \/ r.height <= 0
BadStride(r) == r.stride < MinStride(r)
TooLarge(r) == RequiredSize(r) > r.pool

Verdict(r) == IF BadOffset(r) THEN "offset"
              ELSE IF BadExtent(r) THEN "extent"
              ELSE IF BadStride(r) THEN "stride"
              ELSE IF TooLarge(r) THEN "too large"
              ELSE IF ~r.known THEN "format"
              ELSE "accepted"

(* buffer_create_shm: fields are unsigned, and the offset is not among them.*)
Fields(r) == [width |-> Unsigned(r.width), height |-> Unsigned(r.height)]

CreateBuffer == /\ verdict = "none"
                /\ verdict' = Verdict(request)
                /\ buffer' = IF verdict' = "accepted" THEN Fields(request) ELSE Nothing
                /\ UNCHANGED <<request, signal, received, region>>

(* Mutant: two fields of the struct in the wrong order. *)
UpdatedSwapped(b) == <<b.height, b.width, Unsigned(b.width * 4)>>

(* buffer_module_send_update_signal, with what surface_headless_attach     *)
(* tells it: the stride is worked out anew, neither offset nor size go.    *)
Updated(b) == <<b.width, b.height, Unsigned(b.width * 4)>>

Attach == /\ verdict = "accepted" /\ signal = Nothing
          /\ signal' = Updated(buffer)
          /\ UNCHANGED <<request, verdict, buffer, received, region>>

(* message_handler reads the struct by position; update_buffer_from_fd     *)
(* maps the whole file from its first byte, as long as fstat finds it now. *)
(* The file is the client's: nobody compares it with the pool, neither     *)
(* shm_create_pool (shm.c:191), whose mmap goes beyond the end of a file,  *)
(* nor the renderer, and the client may change its length at any time.  Of *)
(* an empty file mmap fails, and the signal is dropped: see RenderBuffer.  *)
Receive == /\ signal # Nothing /\ received = Nothing
           /\ \E n \in FileSizes :
                 received' = [width |-> signal[1], height |-> signal[2],
                              stride |-> signal[3], size |-> n]
           /\ UNCHANGED <<request, verdict, buffer, signal, region>>

(* The region of update_vulkan_texture_from_buffer, in the staging buffer, *)
(* a copy of the file; a row of length 0 means one as long as the extent.  *)
RowLength(b) == LET n == b.stride \div 4 IN IF n = 0 THEN b.width ELSE n
Update == /\ received # Nothing /\ region = Nothing
          /\ region' = [row |-> RowLength(received), width |-> received.width,
                        height |-> received.height, of |-> received.size]
          /\ UNCHANGED <<request, verdict, buffer, signal, received>>

(* A refused request ends its client; a shown buffer stays as it is. *)
Done == \/ verdict \notin {"none", "accepted"}
        \/ region # Nothing
NextGeometry == \/ CreateBuffer \/ Attach \/ Receive \/ Update
                \/ Done /\ UNCHANGED numbers
GeometrySpec == InitGeometry /\ [][NextGeometry]_numbers

-----------------------------------------------------------------------------
(* What the checks are for, in the integers of mathematics: every row is   *)
(* as long as its pixels, and the last byte lies in the pool.              *)
Fits(r) == /\ r.offset >= 0 /\ r.width > 0 /\ r.height > 0
           /\ r.stride >= 4 * r.width
           /\ r.offset + r.height * r.stride <= r.pool

(* Rows of pixels that an int can count in bytes. *)
Narrow(r) == 4 * r.width <= MaxInt

(* A buffer is accepted exactly when it fits and its format is known, as   *)
(* long as width * 4 (shm.c:78) does not overflow; where it does, a stride *)
(* shorter than a row, or a negative one, is let through.                  *)
AcceptedIffFits ==
    Narrow(request) /\ verdict # "none"
       => (verdict = "accepted" <=> Fits(request) /\ request.known)

(* Where the pixel x, y of a buffer is in the file: for the client, and    *)
(* for the GPU.                                                            *)
DrawnAt(r, x, y) == r.offset + y * r.stride + 4 * x
CopiedAt(g, x, y) == 4 * (y * g.row + x)
Pixels(g) == (0 .. g.width - 1) \X (0 .. g.height - 1)

(* The last byte of the copy region, as the GPU counts.                    *)
CopyEnds(g) == CopiedAt(g, g.width - 1, g.height - 1) + 4

(* What the GPU reads for an accepted buffer (vulkan_texture.c:326) lies   *)
(* in the first bytes of the pool, whatever the stride the client asked    *)
(* for and wherever its buffer begins: the checks of create_buffer are     *)
(* made for other numbers than those that reach the renderer.  So the copy *)
(* ends within the file, of which the staging buffer is a copy, unless the *)
(* file is shorter than its pool; and then it leaves it exactly when the   *)
(* file is shorter than the rows of the request put end to end.            *)
CopyInPool ==
    region # Nothing /\ Narrow(request)
       => /\ \A p \in Pixels(region) :
                CopiedAt(region, p[1], p[2]) + 4 <= CopyEnds(region)
          /\ CopyEnds(region) <= request.pool
          /\ CopyEnds(region) > region.of
                <=> region.of < 4 * (request.height * request.width)

(* A buffer like that of the test clients, from the first byte of its pool *)
(* on and with rows no longer than their pixels, is shown as it was drawn: *)
(* as many pixels, each from its own place (buffer_mgr.c:71-135).  Any     *)
(* other is shown from the start of the file, in rows of its width.  How   *)
(* much of the file there is, CopyInPool says.                             *)
LikeTestClients(r) ==
    r.offset = 0 /\ (r.stride = 4 * r.width \/ r.height = 1)
ShownAsDrawn ==
    region # Nothing /\ Narrow(request) /\ LikeTestClients(request)
       => /\ region.width = request.width /\ region.height = request.height
          /\ \A p \in Pixels(region) :
                CopiedAt(region, p[1], p[2]) = DrawnAt(request, p[1], p[2])
=============================================================================
