------------------------- MODULE RenderBuffer_proofs -------------------------
(***************************************************************************)
(* What the two threads of the test renderer keep, for any number of       *)
(* signals, any extents, and whatever fails: every mapping is accounted    *)
(* for; and as long as the one does not write the struct while the other   *)
(* uses it, each frame copies the bytes of one buffer with its extent.     *)
(* And what the numbers of a buffer become on the way there: for an int of *)
(* any width, a copy stays inside the file it was checked for.             *)
(***************************************************************************)
EXTENDS RenderBuffer, BufferGeometry, FiniteSetTheorems, TLAPS

(* Where the receiving thread is before it has a new mapping; where it has *)
(* a descriptor that is not in the struct yet; where it stores the fields. *)
Before == {"connect", "wait", "map", "exited"}
Putting == {"put_data", "put_size", "put_extent", "put_dirty"}
Busy == {"map", "unmap", "forget"} \cup Putting

(* What the struct says is mapped.                                         *)
Kept == IF mmaped THEN {data} ELSE {}

(* What is mapped is what the struct says, but for the file in the         *)
(* receiving thread's hand.  That one is always newer, so unmapping the old*)
(* one leaves it.                                                          *)
Files == /\ fetch \in Before => mapped = Kept
         /\ fetch = "unmap" => mapped = Kept \cup {taken}
         /\ fetch \in {"forget"} \cup Putting => mapped = {taken}
         /\ fetch \in Putting => mmaped = FALSE
         /\ fetch \in {"put_size", "put_extent", "put_dirty"} => data = taken
         /\ fetch \in Busy => taken \in open /\ taken # 0
         /\ fetch \in Before \cup {"unmap"} /\ mmaped => data = fd /\ data # 0
         /\ fetch \in {"map", "unmap"} /\ mmaped => data < taken
         /\ data <= taken
         /\ draw = "done" => mmaped = FALSE

BufferInv == TypeOK /\ Files /\ FreedAfterExit /\ Len(extents) <= MaxSignals

(* Where a frame uses what it found in the struct.                         *)
Copying == {"stage", "copy", "texture", "region"}

(* Without an overlap: the struct describes one buffer, or none, whenever  *)
(* it is not being written; a frame stays with the buffer it found; what   *)
(* was staged was copied with its own extent, and the image is that of     *)
(* some buffer.                                                            *)
Described == /\ mmaped => size = extents[data] /\ extent = extents[data]
             /\ draw # "done" /\ ~mmaped => data = 0
             
WrittenSoFar == /\ fetch \in {"put_extent", "put_dirty"} => size = extents[taken]
                /\ fetch = "put_dirty" => extent = extents[taken]
Framed == /\ draw \in Copying => data # 0
          /\ draw = "copy" => size <= staging
          /\ draw \in {"texture", "region"} => staged = data
Shown == /\ draw \notin {"texture", "region"} /\ staged # 0 => copied = extents[staged]
         /\ texture # 0 => extents # <<>> /\ (SameExtent => texture = extents[1])
Apart == /\ fault = "none"
         /\ ~(Writing /\ Using)
         /\ fetch \in Before \cup {"unmap"} => Described
         /\ WrittenSoFar /\ Framed /\ Shown

ApartInv == ~overlap => Apart

-----------------------------------------------------------------------------
(* The numbers of the model.                                               *)
LEMMA Bounds ==
    ASSUME BufferInv
    PROVE  /\ taken \in Nat /\ Len(extents) \in Nat /\ MaxSignals \in Nat
           /\ taken <= Len(extents) /\ Len(extents) <= MaxSignals
           /\ data \in Nat /\ fd \in Nat /\ data <= taken
           /\ \A n \in 1 .. Len(extents) : extents[n] \in Extents
           /\ taken # 0 => extents[taken] \in Extents /\ taken \in Signals
           /\ data # 0 => extents[data] \in Extents
<1>1. /\ extents \in Seq(Extents) /\ taken \in 0 .. Len(extents)
      /\ data \in Signals \cup {0} /\ fd \in Signals \cup {0}
      /\ data <= taken /\ Len(extents) <= MaxSignals
  BY DEF BufferInv, TypeOK, Files
<1>2. /\ taken \in Nat /\ Len(extents) \in Nat /\ taken <= Len(extents)
      /\ \A n \in 1 .. Len(extents) : extents[n] \in Extents
  BY <1>1
<1>3. data \in Nat /\ fd \in Nat
  BY <1>1, SignalsAssumption DEF Signals
<1>q. QED BY <1>1, <1>2, <1>3, SignalsAssumption DEF Signals

LEMMA OverlapIsBoolean == NoteOverlap => overlap' \in BOOLEAN
BY DEF NoteOverlap, Writing, Using

(* The receiving thread.                                                   *)
LEMMA FetchKeeps ==
    ASSUME BufferInv, FetchStep, NoteOverlap
    PROVE  BufferInv'
<1>0. TypeOK /\ Files /\ FreedAfterExit
  BY DEF BufferInv
<1>b. /\ taken \in Nat /\ Len(extents) \in Nat /\ MaxSignals \in Nat
      /\ taken <= Len(extents) /\ Len(extents) <= MaxSignals
      /\ data \in Nat /\ fd \in Nat /\ data <= taken
      /\ taken # 0 => extents[taken] \in Extents /\ taken \in Signals
  BY Bounds
<1>o. overlap' \in BOOLEAN
  BY OverlapIsBoolean
<1>e. /\ UNCHANGED extents /\ Len(extents') <= MaxSignals
      /\ UNCHANGED <<draw, running, vulkan, fault>>
  BY <1>b DEF FetchStep, FetchGo, Connect, ConnectFails, Dispatch, Leave, Map, MapFails,
         Unmap, Forget, PutData, PutSize, PutExtent, PutDirty, arrivals
<1>d. draw' # "done"
  BY <1>0, <1>e DEF FreedAfterExit, FetchStep, FetchGo, Connect, ConnectFails, Dispatch,
         Leave, Map, MapFails, Unmap, Forget, PutData, PutSize, PutExtent, PutDirty
<1>f. FreedAfterExit'
  BY <1>0 DEF FreedAfterExit, FetchStep, FetchGo, Connect, ConnectFails, Dispatch, Leave,
         Map, MapFails, Unmap, Forget, PutData, PutSize, PutExtent, PutDirty
<1>1. CASE Connect \/ ConnectFails \/ Leave \/ MapFails
  <2>1. /\ fetch \in Before /\ fetch' \in Before \ {"map"}
        /\ UNCHANGED <<fields, arrivals, kernel>>
    BY <1>1 DEF Connect, ConnectFails, Leave, MapFails, FetchGo, Before
  <2>2. TypeOK'
    <3>1. UNCHANGED <<data, size, extent, fd, mmaped, dirty, extents, taken, mapped, open,
                      staging, staged, texture, copied, draw, running, fault>>
      BY <1>e, <2>1 DEF fields, arrivals, kernel, vulkan
    <3>2. fetch' \in {"connect", "wait", "map", "unmap", "forget", "put_data", "put_size",
                      "put_extent", "put_dirty", "exited"}
      BY <2>1 DEF Before
    <3>q. QED BY <1>0, <1>o, <3>1, <3>2 DEF TypeOK
  <2>3. Files'
    BY <1>0, <1>d, <2>1 DEF Files, fields, arrivals, kernel, Before, Putting, Busy, Kept
  <2>q. QED BY <1>e, <1>f, <2>2, <2>3 DEF BufferInv
<1>2. CASE Dispatch
  <2>1. /\ fetch = "wait" /\ fetch' = "map" /\ taken' = taken + 1
        /\ taken < Len(extents) /\ open' = open \cup {taken'}
        /\ UNCHANGED <<fields, mapped>>
    BY <1>2 DEF Dispatch, FetchGo
  <2>2. taken' \in 0 .. Len(extents') /\ open' \subseteq 1 .. taken' /\ staged' \in 0 .. taken'
    <3>1. open \subseteq 1 .. taken /\ staged \in 0 .. taken /\ staged' = staged
      BY <1>0, <1>e DEF TypeOK, vulkan
    <3>2. taken' \in 0 .. Len(extents')
      BY <1>b, <1>e, <2>1
    <3>3. open' \subseteq 1 .. taken'
      BY <1>b, <2>1, <3>1
    <3>q. QED BY <1>b, <2>1, <3>1, <3>2, <3>3
  <2>3. TypeOK'
    BY <1>0, <1>o, <1>e, <2>1, <2>2 DEF TypeOK, fields, vulkan
  <2>4. Files'
    BY <1>0, <1>d, <1>b, <2>1 DEF Files, fields, Before, Putting, Busy, Kept
  <2>q. QED BY <1>e, <1>f, <2>3, <2>4 DEF BufferInv
<1>3. CASE Map
  <2>1. /\ fetch = "map" /\ fetch' = "unmap" /\ mapped' = mapped \cup {taken}
        /\ UNCHANGED <<fields, arrivals, open>>
    BY <1>3 DEF Map, FetchGo
  <2>2. mapped' \subseteq open'
    BY <1>0, <2>1 DEF TypeOK, Files, Busy
  <2>3. TypeOK'
    BY <1>0, <1>o, <1>e, <2>1, <2>2 DEF TypeOK, fields, arrivals, vulkan
  <2>4. Files'
    BY <1>0, <1>d, <1>b, <2>1 DEF Files, fields, arrivals, Before, Putting, Busy, Kept
  <2>q. QED BY <1>e, <1>f, <2>3, <2>4 DEF BufferInv
<1>4. CASE Unmap
  <2>1. /\ fetch = "unmap" /\ fetch' = "forget"
        /\ mapped' = IF mmaped THEN mapped \ {data} ELSE mapped
        /\ UNCHANGED <<fields, arrivals, open>>
    BY <1>4 DEF Unmap, FetchGo
  <2>2. TypeOK'
    BY <1>0, <1>o, <1>e, <2>1 DEF TypeOK, fields, arrivals, vulkan
  <2>3. mapped' = {taken}
    BY <1>0, <1>b, <2>1 DEF Files, Kept
  <2>4. Files'
    BY <1>0, <1>d, <1>b, <2>1, <2>3 DEF Files, fields, arrivals, Before, Putting, Busy, Kept
  <2>q. QED BY <1>e, <1>f, <2>2, <2>4 DEF BufferInv
<1>5. CASE Forget
  <2>1. /\ fetch = "forget" /\ fetch' = "put_data" /\ data' = 0 /\ mmaped' = FALSE
        /\ UNCHANGED <<size, extent, fd, dirty, arrivals, kernel>>
    BY <1>5 DEF Forget, FetchGo
  <2>2. TypeOK'
    BY <1>0, <1>o, <1>e, <2>1 DEF TypeOK, arrivals, kernel, vulkan
  <2>3. Files'
    BY <1>0, <1>d, <1>b, <2>1 DEF Files, arrivals, kernel, Before, Putting, Busy, Kept
  <2>q. QED BY <1>e, <1>f, <2>2, <2>3 DEF BufferInv
<1>6. CASE PutData
  <2>1. /\ fetch = "put_data" /\ fetch' = "put_size" /\ data' = taken
        /\ UNCHANGED <<size, extent, fd, mmaped, dirty, arrivals, kernel>>
    BY <1>6 DEF PutData, FetchGo
  <2>2. taken \in Signals
    BY <1>0, <1>b, <2>1 DEF Files, Busy, Putting
  <2>3. TypeOK'
    BY <1>0, <1>o, <1>e, <2>1, <2>2 DEF TypeOK, arrivals, kernel, vulkan
  <2>4. Files'
    BY <1>0, <1>d, <1>b, <2>1 DEF Files, arrivals, kernel, Before, Putting, Busy, Kept
  <2>q. QED BY <1>e, <1>f, <2>3, <2>4 DEF BufferInv
<1>7. CASE PutSize
  <2>1. /\ fetch = "put_size" /\ fetch' = "put_extent" /\ size' = extents[taken]
        /\ UNCHANGED <<data, extent, fd, mmaped, dirty, arrivals, kernel>>
    BY <1>7 DEF PutSize, FetchGo
  <2>2. extents[taken] \in Sizes
    BY <1>0, <1>b, <2>1 DEF Files, Busy, Putting, Sizes
  <2>3. TypeOK'
    BY <1>0, <1>o, <1>e, <2>1, <2>2 DEF TypeOK, arrivals, kernel, vulkan
  <2>4. Files'
    BY <1>0, <1>d, <1>b, <2>1 DEF Files, arrivals, kernel, Before, Putting, Busy, Kept
  <2>q. QED BY <1>e, <1>f, <2>3, <2>4 DEF BufferInv
<1>8. CASE PutExtent
  <2>1. /\ fetch = "put_extent" /\ fetch' = "put_dirty" /\ extent' = extents[taken]
        /\ UNCHANGED <<data, size, fd, mmaped, dirty, arrivals, kernel>>
    BY <1>8 DEF PutExtent, FetchGo
  <2>2. extents[taken] \in Sizes
    BY <1>0, <1>b, <2>1 DEF Files, Busy, Putting, Sizes
  <2>3. TypeOK'
    BY <1>0, <1>o, <1>e, <2>1, <2>2 DEF TypeOK, arrivals, kernel, vulkan
  <2>4. Files'
    BY <1>0, <1>d, <1>b, <2>1 DEF Files, arrivals, kernel, Before, Putting, Busy, Kept
  <2>q. QED BY <1>e, <1>f, <2>3, <2>4 DEF BufferInv
<1>9. CASE PutDirty
  <2>1. /\ fetch = "put_dirty" /\ fetch' = "wait"
        /\ fd' = taken /\ mmaped' = TRUE /\ dirty' = TRUE
        /\ UNCHANGED <<data, size, extent, arrivals, kernel>>
    BY <1>9 DEF PutDirty, FetchGo
  <2>2. taken \in Signals /\ taken # 0
    BY <1>0, <1>b, <2>1 DEF Files, Busy, Putting
  <2>3. TypeOK'
    BY <1>0, <1>o, <1>e, <2>1, <2>2 DEF TypeOK, arrivals, kernel, vulkan
  <2>4. Files'
    BY <1>0, <1>d, <1>b, <2>1, <2>2 DEF Files, arrivals, kernel, Before, Putting, Busy, Kept
  <2>q. QED BY <1>e, <1>f, <2>3, <2>4 DEF BufferInv
<1>q. QED BY <1>1, <1>2, <1>3, <1>4, <1>5, <1>6, <1>7, <1>8, <1>9 DEF FetchStep

(* The drawing thread, the window that is closed and the signals.          *)
LEMMA DrawKeeps ==
    ASSUME BufferInv, DrawStep \/ Stop \/ Arrive, NoteOverlap
    PROVE  BufferInv'
<1>0. TypeOK /\ Files /\ FreedAfterExit
  BY DEF BufferInv
<1>b. /\ taken \in Nat /\ Len(extents) \in Nat /\ MaxSignals \in Nat
      /\ taken <= Len(extents) /\ Len(extents) <= MaxSignals
      /\ data \in Nat /\ fd \in Nat /\ data <= taken
  BY Bounds
<1>o. overlap' \in BOOLEAN
  BY OverlapIsBoolean
<1>f. FreedAfterExit' /\ UNCHANGED <<fetch, taken, data, fd>>
  BY <1>0 DEF FreedAfterExit, DrawStep, DrawGo, TestDirty, CheckBuffer, Stage, Copy,
         Texture, Region, Clear, Join, Cleanup, Stop, Arrive, fields, arrivals
<1>1. CASE TestDirty \/ CheckBuffer \/ Stop \/ Join \/ Clear
  <2>1. /\ draw' \in {"check", "clear", "stage", "join", "cleanup", "test"}
        /\ UNCHANGED <<mmaped, size, extent, arrivals, kernel, vulkan, fault>>
        /\ running' = running \/ running' = FALSE
        /\ dirty' = dirty \/ dirty' = FALSE
    BY <1>1 DEF TestDirty, CheckBuffer, Stop, Join, Clear, DrawGo, fields
  <2>r. running' \in BOOLEAN /\ dirty' \in BOOLEAN
    <3>1. running \in BOOLEAN /\ dirty \in BOOLEAN
      BY <1>0 DEF TypeOK
    <3>q. QED BY <2>1, <3>1
  <2>2. TypeOK'
    BY <1>0, <1>o, <1>f, <2>1, <2>r DEF TypeOK, arrivals, kernel, vulkan
  <2>3. Files'
    BY <1>0, <1>f, <2>1 DEF Files, arrivals, kernel, Before, Putting, Busy, Kept
  <2>q. QED BY <1>b, <1>f, <2>1, <2>2, <2>3 DEF BufferInv, arrivals
<1>2. CASE Stage \/ Copy \/ Texture \/ Region
  <2>1. /\ draw' \in {"copy", "texture", "region", "clear"}
        /\ UNCHANGED <<running, fields, arrivals, kernel>>
        /\ staging' \in {staging, size} /\ texture' \in {texture, extent}
        /\ copied' \in {copied, extent} /\ fault' \in {fault, "bad copy"}
        /\ staged' = staged \/ (staged' = data /\ data \in mapped)
    BY <1>2 DEF Stage, Copy, Texture, Region, DrawGo, Readable
  <2>2. staged' \in 0 .. taken'
    <3>1. mapped \subseteq 1 .. taken /\ staged \in 0 .. taken
      BY <1>0 DEF TypeOK
    <3>2. CASE staged' = staged
      BY <1>f, <3>1, <3>2
    <3>3. CASE staged' = data /\ data \in mapped
      <4>1. data \in 1 .. taken
        BY <3>1, <3>3
      <4>q. QED BY <1>b, <1>f, <3>3, <4>1
    <3>q. QED BY <2>1, <3>2, <3>3
  <2>r. /\ {size', extent', staging', texture', copied'} \subseteq Sizes
        /\ fault' \in {"none", "bad copy"}
    <3>1. /\ size \in Sizes /\ extent \in Sizes /\ staging \in Sizes
          /\ texture \in Sizes /\ copied \in Sizes /\ fault \in {"none", "bad copy"}
      BY <1>0 DEF TypeOK
    <3>q. QED BY <2>1, <3>1 DEF fields
  <2>3. TypeOK'
    BY <1>0, <1>o, <1>f, <2>1, <2>2, <2>r DEF TypeOK, fields, arrivals, kernel
  <2>4. Files'
    BY <1>0, <1>f, <2>1 DEF Files, fields, arrivals, kernel, Before, Putting, Busy, Kept
  <2>q. QED BY <1>b, <1>f, <2>1, <2>3, <2>4 DEF BufferInv, arrivals
<1>3. CASE Cleanup
  <2>1. /\ draw = "cleanup" /\ draw' = "done" /\ mmaped' = FALSE
        /\ mapped' = IF mmaped THEN mapped \ {data} ELSE mapped
        /\ open' = open \ {fd}
        /\ UNCHANGED <<running, size, extent, dirty, arrivals, vulkan, fault>>
    BY <1>3 DEF Cleanup, DrawGo
  <2>2. fetch = "exited"
    BY <1>0, <2>1 DEF FreedAfterExit
  <2>3. mapped' = {}
    BY <1>0, <2>1, <2>2 DEF Files, Before, Kept
  <2>4. TypeOK'
    BY <1>0, <1>o, <1>f, <2>1, <2>3 DEF TypeOK, arrivals, vulkan
  <2>5. Files'
    BY <1>0, <1>b, <1>f, <2>1, <2>2, <2>3 DEF Files, arrivals, Before, Putting, Busy, Kept
  <2>q. QED BY <1>b, <1>f, <2>1, <2>4, <2>5 DEF BufferInv, arrivals
<1>4. CASE Arrive
  <2>1. PICK e \in Extents : extents' = Append(extents, e)
    BY <1>4 DEF Arrive
  <2>2. /\ Len(extents) < MaxSignals
        /\ UNCHANGED <<draw, running, fields, kernel, vulkan, fault>>
    BY <1>4 DEF Arrive
  <2>3. extents' \in Seq(Extents) /\ Len(extents') = Len(extents) + 1
    <3>1. extents \in Seq(Extents)
      BY <1>0 DEF TypeOK
    <3>q. QED BY <2>1, <3>1
  <2>4. taken' \in 0 .. Len(extents') /\ Len(extents') <= MaxSignals
    BY <1>b, <1>f, <2>2, <2>3
  <2>5. TypeOK'
    <3>1. UNCHANGED <<data, size, extent, fd, mmaped, dirty, mapped, open, staging, staged,
                      texture, copied, fetch, draw, running, taken, fault>>
      BY <1>4, <2>2 DEF Arrive, fields, kernel, vulkan
    <3>2. /\ {size', extent', staging', texture', copied'} \subseteq Sizes
          /\ fault' \in {"none", "bad copy"}
      BY <1>0, <3>1 DEF TypeOK
    <3>3. /\ data' \in Signals \cup {0} /\ fd' \in Signals \cup {0}
          /\ running' \in BOOLEAN /\ mmaped' \in BOOLEAN /\ dirty' \in BOOLEAN
      BY <1>0, <3>1 DEF TypeOK
    <3>4. /\ open' \subseteq 1 .. taken' /\ mapped' \subseteq open'
          /\ staged' \in 0 .. taken'
      BY <1>0, <3>1 DEF TypeOK
    <3>5. overlap' \in BOOLEAN
      BY <1>o
    <3>6. /\ fetch' = fetch /\ draw' = draw
      BY <3>1
    <3>q. QED BY <1>0, <2>3, <2>4, <3>2, <3>3, <3>4, <3>5, <3>6 DEF TypeOK
  <2>6. Files'
    BY <1>0, <1>f, <2>2 DEF Files, fields, kernel, Before, Putting, Busy, Kept
  <2>q. QED BY <1>f, <2>4, <2>5, <2>6 DEF BufferInv
<1>q. QED BY <1>1, <1>2, <1>3, <1>4 DEF DrawStep

(* At most the old and the new file are mapped, and none at the end.       *)
LEMMA MappingsFollow ==
    ASSUME BufferInv
    PROVE  MappingsAccounted
<1>1. IsFiniteSet({}) /\ Cardinality({}) = 0
  BY FS_EmptySet
<1>2. /\ IsFiniteSet({data}) /\ Cardinality({data}) = 1
      /\ IsFiniteSet({taken}) /\ Cardinality({taken}) = 1
  BY FS_Singleton
<1>3. Cardinality({data} \cup {taken}) <= 2
  <2>1. /\ Cardinality({data} \cup {taken}) = Cardinality({data}) + Cardinality({taken})
                                             - Cardinality({data} \cap {taken})
        /\ IsFiniteSet({data} \cap {taken})
    BY <1>2, FS_Union, FS_Intersection
  <2>2. PICK n \in Nat : n = Cardinality({data} \cap {taken})
    BY <2>1, FS_CardinalityType
  <2>3. PICK c : c = Cardinality({data} \cup {taken})
    OBVIOUS
  <2>4. c = 1 + 1 - n
    BY <1>2, <2>1, <2>2, <2>3
  <2>5. c <= 2
    BY <2>2, <2>4
  <2>q. QED BY <2>3, <2>5
<1>4. /\ mapped \in {{}, {data}, {taken}, {data} \cup {taken}}
      /\ fetch \in {"wait", "exited"} => mapped \in {{}, {data}}
  BY DEF BufferInv, TypeOK, Files, Before, Putting, Kept
<1>5. /\ Cardinality(mapped) <= 2
      /\ fetch \in {"wait", "exited"} => Cardinality(mapped) <= 1
  BY <1>1, <1>2, <1>3, <1>4
<1>q. QED BY <1>5 DEF MappingsAccounted, BufferInv, FreedAfterExit, Files, Before, Kept

-----------------------------------------------------------------------------
(* A step without an overlap leaves the threads apart.                     *)
LEMMA StillApart ==
    ASSUME NoteOverlap, overlap' = FALSE
    PROVE  ~(Writing' /\ Using')
BY DEF NoteOverlap

LEMMA FetchApart ==
    ASSUME BufferInv, Apart, FetchStep, NoteOverlap, overlap' = FALSE
    PROVE  Apart'
<1>a. ~(Writing /\ Using)'
  BY StillApart
<1>b. /\ Files /\ taken \in Nat /\ Len(extents) \in Nat
  BY Bounds DEF BufferInv
<1>e. UNCHANGED <<draw, extents, vulkan, fault>>
  BY DEF FetchStep, FetchGo, Connect, ConnectFails, Dispatch, Leave, Map, MapFails,
         Unmap, Forget, PutData, PutSize, PutExtent, PutDirty, arrivals
<1>s. Shown'
  BY <1>e DEF Apart, Shown, SameExtent, vulkan
<1>1. CASE fetch' \in Before
  <2>1. CASE PutDirty
    <3>1. /\ fetch = "put_dirty" /\ mmaped' = TRUE
          /\ UNCHANGED <<data, size, extent, taken>>
      BY <2>1 DEF PutDirty, FetchGo, arrivals
    <3>2. data = taken /\ size = extents[taken] /\ extent = extents[taken]
          /\ data # 0
      BY <1>b, <3>1 DEF Apart, WrittenSoFar, Files, Busy, Putting
    <3>3. ~Using
      BY <3>1 DEF Apart, Writing
    <3>4. Described' /\ WrittenSoFar' /\ Framed'
      BY <1>e, <1>1, <3>1, <3>2, <3>3 DEF Described, WrittenSoFar, Framed, Copying, Using,
                                          Before
    <3>q. QED BY <1>a, <1>e, <1>s, <3>4 DEF Apart
  <2>2. CASE Connect \/ ConnectFails \/ Leave \/ MapFails \/ Dispatch
    <3>1. fetch \in Before /\ UNCHANGED fields
      BY <2>2 DEF Connect, ConnectFails, Leave, MapFails, Dispatch, FetchGo, Before
    <3>2. Described' /\ WrittenSoFar' /\ Framed'
      BY <1>e, <1>1, <3>1 DEF Apart, Described, WrittenSoFar, Framed, Before, fields, vulkan
    <3>q. QED BY <1>a, <1>e, <1>s, <3>2 DEF Apart
  <2>q. QED BY <1>1, <2>1, <2>2 DEF FetchStep, FetchGo, Map, Unmap, Forget, PutData,
               PutSize, PutExtent, Before
<1>2. CASE fetch' \notin Before
  <2>1. Writing'
    BY <1>2 DEF FetchStep, FetchGo, Connect, ConnectFails, Dispatch, Leave, Map, MapFails,
           Unmap, Forget, PutData, PutSize, PutExtent, PutDirty, Before, Writing
  <2>2. ~Using'
    BY <1>a, <2>1
  <2>3. Framed'
    BY <2>2 DEF Framed, Copying, Using
  <2>4. CASE Map
    <3>1. fetch = "map" /\ fetch' = "unmap" /\ UNCHANGED fields
      BY <2>4 DEF Map, FetchGo
    <3>2. Described' /\ WrittenSoFar'
      BY <1>e, <3>1 DEF Apart, Described, WrittenSoFar, Before, fields
    <3>q. QED BY <1>a, <1>e, <1>s, <2>3, <3>2 DEF Apart
  <2>5. CASE Unmap \/ Forget \/ PutData \/ PutSize \/ PutExtent
    <3>1. fetch' \notin Before \cup {"unmap"} /\ UNCHANGED taken
      BY <2>5 DEF Unmap, Forget, PutData, PutSize, PutExtent, FetchGo, Before, arrivals
    <3>2. WrittenSoFar'
      BY <1>e, <2>5 DEF Apart, WrittenSoFar, Unmap, Forget, PutData, PutSize, PutExtent,
                        FetchGo, arrivals
    <3>q. QED BY <1>a, <1>e, <1>s, <2>3, <3>1, <3>2 DEF Apart
  <2>q. QED BY <1>2, <2>4, <2>5 DEF FetchStep, FetchGo, Connect, ConnectFails, Dispatch,
               Leave, MapFails, PutDirty, Before
<1>q. QED BY <1>1, <1>2

LEMMA DrawApart ==
    ASSUME BufferInv, Apart, DrawStep \/ Stop \/ Arrive, NoteOverlap, overlap' = FALSE
    PROVE  Apart'
<1>a. ~(Writing /\ Using)'
  BY StillApart
<1>b. /\ Files /\ taken \in Nat /\ Len(extents) \in Nat /\ data \in Nat
      /\ taken <= Len(extents) /\ data <= taken
      /\ extents \in Seq(Extents) /\ staged \in 0 .. taken
      /\ data # 0 => extents[data] \in Extents
  BY Bounds DEF BufferInv, TypeOK
<1>f. UNCHANGED <<fetch, taken, data, size, extent, fd>>
  BY DEF DrawStep, DrawGo, TestDirty, CheckBuffer, Stage, Copy,
         Texture, Region, Clear, Join, Cleanup, Stop, Arrive, fields, arrivals
<1>1. CASE TestDirty \/ CheckBuffer \/ Stop \/ Join \/ Clear
  <2>1. /\ draw' \in {"check", "clear", "stage", "join", "cleanup", "test"}
        /\ draw \notin {"texture", "region", "done"}
        /\ UNCHANGED <<mmaped, extents, vulkan, fault>>
        /\ draw' \in Copying => data # 0
    BY <1>1 DEF TestDirty, CheckBuffer, Stop, Join, Clear, DrawGo, fields, arrivals, Copying
  <2>2. Described' \/ fetch' \notin Before \cup {"unmap"}
    BY <1>f, <2>1 DEF Apart, Described
  <2>3. WrittenSoFar' /\ Framed'
    BY <1>f, <2>1 DEF Apart, WrittenSoFar, Framed
  <2>4. Shown'
    BY <2>1 DEF Apart, Shown, SameExtent, vulkan
  <2>q. QED BY <1>a, <2>1, <2>2, <2>3, <2>4 DEF Apart
<1>2. CASE Stage \/ Copy \/ Texture \/ Region
  <2>1. UNCHANGED <<mmaped, extents, mapped, size, extent, extents>> /\ draw \in Copying
    BY <1>2 DEF Stage, Copy, Texture, Region, DrawGo, fields, arrivals, kernel, Copying
  <2>2. fetch \in Before /\ data # 0
    BY <2>1 DEF Apart, Writing, Using, Copying, Before, BufferInv, TypeOK, Framed
  <2>3. /\ mmaped = TRUE /\ data \in mapped
        /\ size = extents[data] /\ extent = extents[data]
    <3>1. mmaped \in BOOLEAN
      BY DEF BufferInv, TypeOK
    <3>2. draw # "done" /\ Described
      BY <2>1, <2>2 DEF Apart, Copying
    <3>3. mmaped = TRUE
      BY <2>2, <3>1, <3>2 DEF Described
    <3>q. QED BY <1>b, <2>2, <3>2, <3>3 DEF Described, Files, Kept
  <2>4. size \in Nat /\ size > 0 /\ data \in 1 .. Len(extents) /\ extents # <<>>
    <3>1. data \in 1 .. Len(extents) /\ extents # <<>>
      BY <1>b, <2>2
    <3>2. size \in Nat \ {0}
      BY <1>b, <2>2, <2>3, ExtentsAssumption
    <3>q. QED BY <3>1, <3>2
  <2>5. Described' /\ WrittenSoFar'
    BY <1>f, <2>1, <2>2, <2>3 DEF Described, WrittenSoFar, Before
  <2>6. CASE Stage
    <3>1. staging \in Nat
      <4>1. staging \in Extents \cup {0}
        BY DEF BufferInv, TypeOK, Sizes
      <4>q. QED BY <4>1, ExtentsAssumption
    <3>2. /\ draw = "stage" /\ draw' = "copy" /\ size' <= staging'
          /\ UNCHANGED <<staged, texture, copied, fault>>
      BY <1>f, <2>4, <2>6, <3>1 DEF Stage, DrawGo
    <3>3. Framed' /\ Shown'
      BY <1>f, <2>1, <2>2, <3>2 DEF Apart, Framed, Shown, Copying, SameExtent
    <3>q. QED BY <1>a, <2>5, <3>2, <3>3 DEF Apart
  <2>7. CASE Copy
    <3>1. draw = "copy" /\ Readable(data, size) /\ size <= staging
      <4>1. draw = "copy" /\ size <= staging
        BY <2>7 DEF Copy, Apart, Framed
      <4>q. QED BY <2>3, <2>4, <4>1 DEF Readable
    <3>2. /\ draw' = "texture" /\ staged' = data
          /\ UNCHANGED <<staging, texture, copied, fault>>
      BY <2>7, <3>1 DEF Copy, DrawGo
    <3>3. Framed' /\ Shown'
      BY <1>f, <2>1, <2>2, <3>2 DEF Apart, Framed, Shown, Copying, SameExtent
    <3>q. QED BY <1>a, <2>5, <3>2, <3>3 DEF Apart
  <2>8. CASE Texture
    <3>1. /\ draw = "texture" /\ draw' = "region"
          /\ texture' \in {extent, texture}
          /\ UNCHANGED <<staging, staged, copied, fault>>
      BY <2>8 DEF Texture, DrawGo
    <3>2. SameExtent => extent = extents[1]
      BY <2>3, <2>4 DEF SameExtent
    <3>3. Framed' /\ Shown'
      BY <1>f, <2>1, <2>2, <2>4, <3>1, <3>2 DEF Apart, Framed, Shown, Copying, SameExtent
    <3>q. QED BY <1>a, <2>5, <3>1, <3>3 DEF Apart
  <2>9. CASE Region
    <3>1. /\ draw = "region" /\ draw' = "clear" /\ copied' = extent
          /\ UNCHANGED <<staging, staged, texture, fault>>
      BY <2>9 DEF Region, DrawGo
    <3>2. copied' = extents'[staged']
      BY <2>1, <2>3, <3>1 DEF Apart, Framed
    <3>3. Framed' /\ Shown'
      BY <2>1, <3>1, <3>2 DEF Apart, Framed, Shown, Copying, SameExtent
    <3>q. QED BY <1>a, <2>5, <3>1, <3>3 DEF Apart
  <2>q. QED BY <1>2, <2>6, <2>7, <2>8, <2>9
<1>3. CASE Cleanup
  <2>1. /\ draw = "cleanup" /\ draw' = "done" /\ mmaped' = FALSE
        /\ UNCHANGED <<extents, vulkan, fault>>
    BY <1>3 DEF Cleanup, DrawGo, arrivals
  <2>2. Described' /\ WrittenSoFar' /\ Framed' /\ Shown'
    BY <1>f, <2>1 DEF Apart, Described, WrittenSoFar, Framed, Copying, Shown, SameExtent, vulkan
  <2>q. QED BY <1>a, <2>1, <2>2 DEF Apart
<1>4. CASE Arrive
  <2>1. PICK e \in Extents : extents' = Append(extents, e)
    BY <1>4 DEF Arrive
  <2>2. UNCHANGED <<draw, running, fields, kernel, vulkan, fault>>
    BY <1>4 DEF Arrive
  <2>3. /\ \A n \in 1 .. Len(extents) : extents'[n] = extents[n]
        /\ Len(extents') = Len(extents) + 1 /\ extents' # <<>>
        /\ DOMAIN extents' = 1 .. Len(extents) + 1 /\ DOMAIN extents = 1 .. Len(extents)
    BY <1>b, <2>1
  <2>4. /\ taken # 0 => extents'[taken] = extents[taken]
        /\ data # 0 => extents'[data] = extents[data]
        /\ staged # 0 => extents'[staged] = extents[staged]
        /\ extents # <<>> => extents'[1] = extents[1]
    <3>1. extents # <<>> => Len(extents) > 0
      BY <1>b
    <3>q. QED BY <1>b, <2>3, <3>1
  <2>5. extents # <<>> /\ SameExtent' => SameExtent
    <3>1. extents # <<>> => 1 \in 1 .. Len(extents)
      BY <1>b
    <3>2. \A n \in 1 .. Len(extents) : n \in 1 .. Len(extents) + 1
      BY <1>b
    <3>q. QED BY <2>3, <3>1, <3>2 DEF SameExtent
  <2>6. Described' \/ fetch' \notin Before \cup {"unmap"}
    <3>1. UNCHANGED <<data, size, extent, mmaped, fetch, draw>>
      BY <1>f, <2>2 DEF fields
    <3>2. SUFFICES ASSUME fetch \in Before \cup {"unmap"} PROVE Described'
      BY <3>1
    <3>3. Described /\ (mmaped => data # 0)
      BY <1>b, <3>2 DEF Apart, Files
    <3>q. QED BY <2>4, <3>1, <3>3 DEF Described
  <2>7. WrittenSoFar' /\ Framed'
    BY <1>b, <1>f, <2>2, <2>4 DEF Apart, WrittenSoFar, Framed, Files, Busy, Putting, vulkan
  <2>8. Shown'
    BY <2>2, <2>3, <2>4, <2>5 DEF Apart, Shown, vulkan
  <2>q. QED BY <1>a, <1>f, <2>2, <2>6, <2>7, <2>8 DEF Apart
<1>q. QED BY <1>1, <1>2, <1>3, <1>4 DEF DrawStep

-----------------------------------------------------------------------------
LEMMA BufferInvariant == Spec => []BufferInv
<1>1. Init => BufferInv
  <2> SUFFICES ASSUME Init PROVE BufferInv
    OBVIOUS
  <2>1. extents \in Seq(Extents) /\ Len(extents) = 0
    BY DEF Init
  <2>2. taken \in 0 .. Len(extents) /\ staged \in 0 .. taken /\ Len(extents) <= MaxSignals
    BY <2>1, SignalsAssumption DEF Init
  <2>3. TypeOK
    BY <2>1, <2>2 DEF Init, TypeOK, Sizes
  <2>q. QED BY <2>2, <2>3 DEF Init, BufferInv, Files, Before, Putting, Busy, Kept,
                              FreedAfterExit
<1>2. BufferInv /\ [Next]_vars => BufferInv'
  <2> SUFFICES ASSUME BufferInv, [Next]_vars PROVE BufferInv'
    OBVIOUS
  <2>1. CASE UNCHANGED vars
    <3>1. /\ UNCHANGED <<fetch, draw, running, extents, taken, mapped, open, overlap, fault>>
          /\ UNCHANGED <<data, size, extent, fd, mmaped, dirty>>
          /\ UNCHANGED <<staging, staged, texture, copied>>
      BY <2>1 DEF vars, fields, arrivals, kernel, vulkan
    <3>2. TypeOK
      BY DEF BufferInv
    <3>3. /\ {size', extent', staging', texture', copied'} \subseteq Sizes
          /\ running' \in BOOLEAN /\ mmaped' \in BOOLEAN /\ dirty' \in BOOLEAN
          /\ overlap' \in BOOLEAN
      BY <3>1, <3>2 DEF TypeOK
    <3>4. /\ extents' \in Seq(Extents) /\ taken' \in 0 .. Len(extents')
          /\ open' \subseteq 1 .. taken' /\ mapped' \subseteq open' /\ staged' \in 0 .. taken'
      BY <3>1, <3>2 DEF TypeOK
    <3>5. TypeOK'
      BY <3>1, <3>2, <3>3, <3>4 DEF TypeOK
    <3>q. QED BY <3>1, <3>5 DEF BufferInv, Files, Kept, FreedAfterExit
  <2>q. QED BY <2>1, FetchKeeps, DrawKeeps DEF Next
<1>q. QED BY <1>1, <1>2, PTL DEF Spec

(* Every variable keeps its range; at most two files are mapped, the old   *)
(* and the new, and none at the end, however the window is closed and      *)
(* whatever fails; the struct is cleaned up after the receiving thread's   *)
(* last use of it (update_buffer_from_fd, cleanup_buffermgr).              *)
THEOREM BufferConsistent == Spec => []Consistent
<1>1. BufferInv => Consistent
  BY MappingsFollow DEF BufferInv, Consistent
<1>q. QED BY <1>1, BufferInvariant, PTL

(* As long as the two threads do not overlap on the struct, a frame reads  *)
(* mapped memory within its size, copies the bytes of a buffer with the    *)
(* extent of that buffer, and covers an image made for one of the same     *)
(* extent (buffer_mgr.c:49-58, vulkan_texture.c:238 and 253).              *)
THEOREM RightWhileApart == Spec => []RightApart
<1>1. Init => ApartInv
  BY DEF Init, ApartInv, Apart, Writing, Using, Described, WrittenSoFar, Framed, Shown,
         Copying
<1>2. BufferInv /\ ApartInv /\ [Next]_vars => ApartInv'
  <2> SUFFICES ASSUME BufferInv, ApartInv, [Next]_vars PROVE ApartInv'
    OBVIOUS
  <2>1. CASE UNCHANGED vars
    <3>1. /\ UNCHANGED <<fetch, draw, extents, taken, mapped, overlap, fault>>
          /\ UNCHANGED <<data, size, extent, mmaped, staging, staged, texture, copied>>
      BY <2>1 DEF vars, fields, arrivals, kernel, vulkan
    <3>q. QED BY <3>1 DEF ApartInv, Apart, Writing, Using, Described, WrittenSoFar, Framed,
                 Shown, SameExtent
  <2>2. ASSUME FetchStep \/ DrawStep \/ Stop \/ Arrive, NoteOverlap PROVE ApartInv'
    <3>1. SUFFICES ASSUME ~overlap' PROVE Apart'
      BY DEF ApartInv
    <3>2. overlap' = FALSE /\ ~overlap
      BY <2>2, <3>1, OverlapIsBoolean DEF NoteOverlap
    <3>3. Apart
      BY <3>2 DEF ApartInv
    <3>q. QED BY <2>2, <3>2, <3>3, FetchApart, DrawApart
  <2>q. QED BY <2>1, <2>2 DEF Next
<1>3. BufferInv /\ ApartInv => RightApart
  <2> SUFFICES ASSUME BufferInv, ApartInv, ~overlap PROVE
               /\ fault = "none"
               /\ draw = "clear" /\ staged # 0 =>
                     /\ copied = extents[staged]
                     /\ SameExtent /\ texture # 0 => texture = copied
    BY DEF RightApart
  <2>1. fault = "none" /\ Shown
    BY DEF ApartInv, Apart
  <2>2. ASSUME staged # 0, SameExtent PROVE extents[staged] = extents[1]
    <3>1. staged \in DOMAIN extents
      <4>1. extents \in Seq(Extents) /\ taken \in 0 .. Len(extents) /\ staged \in 0 .. taken
        BY DEF BufferInv, TypeOK
      <4>q. QED BY <2>2, <4>1
    <3>q. QED BY <2>2, <3>1 DEF SameExtent
  <2>q. QED BY <2>1, <2>2 DEF Shown
<1>q. QED BY <1>1, <1>2, <1>3, BufferInvariant, PTL DEF Spec

-----------------------------------------------------------------------------
(* The numbers of a buffer: without an overflow the conversions change     *)
(* none of them.                                                           *)
Requests == [offset : Ints, width : Ints, height : Ints, stride : Ints,
             known : BOOLEAN, pool : 1 .. MaxInt]

(* What the checks and the conversions make of a number that an int can    *)
(* hold, or of two of them, multiplied.                                    *)
LEMMA WordSizes ==
    /\ MaxInt \in Nat /\ Words \in Nat \ {0} /\ Words > MaxInt
    /\ Words * Words \in Nat \ {0}
    /\ MaxInt + MaxInt * MaxInt < Words * Words
<1>1. MaxInt \in Nat /\ Words = 2 * (MaxInt + 1) /\ Words \in Nat \ {0}
  BY IntAssumption DEF Words
<1>2. Words * Words = 4 * (MaxInt * MaxInt) + 8 * MaxInt + 4
  BY <1>1
<1>3. MaxInt * MaxInt >= 0
  BY <1>1
<1>q. QED BY <1>1, <1>2, <1>3

LEMMA UnsignedKeeps ==
    ASSUME NEW x \in 0 .. MaxInt
    PROVE  Unsigned(x) = x
BY WordSizes DEF Unsigned

LEMMA SignedKeeps ==
    ASSUME NEW x \in 0 .. MaxInt
    PROVE  Signed(x) = x
BY WordSizes, UnsignedKeeps DEF Signed

LEMMA SizeKeeps ==
    ASSUME NEW x \in Nat, x <= MaxInt + MaxInt * MaxInt
    PROVE  Size(x) = x
<1>1. x \in 0 .. Words * Words - 1
  BY WordSizes
<1>2. \A n \in Nat \ {0} : x \in 0 .. n - 1 => x % n = x
  OBVIOUS
<1>q. QED BY <1>1, <1>2, WordSizes DEF Size

LEMMA ProductGrows ==
    ASSUME NEW a \in Nat, NEW b \in Nat, NEW c \in Nat, NEW d \in Nat,
           a <= b, c <= d
    PROVE  a * c \in Nat /\ b * d \in Nat /\ a * c <= b * d
<1>1. a * c <= b * c /\ b * c <= b * d
  OBVIOUS
<1>2. a * c \in Nat /\ b * d \in Nat /\ b * c \in Nat
  OBVIOUS
<1>q. QED BY <1>1, <1>2

LEMMA RequiredIs ==
    ASSUME NEW r \in Requests, r.offset >= 0, r.height >= 0, r.stride >= 0
    PROVE  RequiredSize(r) = r.offset + r.height * r.stride
<1>1. /\ r.offset \in 0 .. MaxInt /\ r.height \in 0 .. MaxInt
      /\ r.stride \in 0 .. MaxInt
  BY WordSizes DEF Requests, Ints
<1>2. MaxInt * MaxInt \in Nat
  BY WordSizes
<1>3. /\ Size(r.offset) = r.offset /\ Size(r.height) = r.height
      /\ Size(r.stride) = r.stride
  BY <1>1, <1>2, SizeKeeps, WordSizes
<1>4. r.height * r.stride \in Nat /\ r.height * r.stride <= MaxInt * MaxInt
  BY <1>1, ProductGrows, WordSizes
<1>5. r.offset + r.height * r.stride \in Nat
      /\ r.offset + r.height * r.stride <= MaxInt + MaxInt * MaxInt
  BY <1>1, <1>2, <1>4, WordSizes
<1>q. QED BY <1>3, <1>5, SizeKeeps DEF RequiredSize

LEMMA AcceptedFits ==
    ASSUME NEW r \in Requests, Narrow(r)
    PROVE  Verdict(r) = "accepted" <=> Fits(r) /\ r.known
<1>1. /\ r.offset \in Ints /\ r.width \in Ints /\ r.height \in Ints
      /\ r.stride \in Ints /\ r.pool \in 1 .. MaxInt /\ MaxInt \in Nat
      /\ r.offset \in Int /\ r.width \in Int /\ r.height \in Int
      /\ r.stride \in Int
  BY WordSizes DEF Requests, Ints
<1>2. ASSUME Verdict(r) = "accepted"
      PROVE  Fits(r) /\ r.known
  <2>1. ~BadOffset(r) /\ ~BadExtent(r) /\ ~BadStride(r) /\ ~TooLarge(r) /\ r.known
    BY <1>2 DEF Verdict
  <2>2. r.offset >= 0 /\ r.width > 0 /\ r.height > 0
    BY <1>1, <2>1 DEF BadOffset, BadExtent
  <2>3. MinStride(r) = 4 * r.width
    <3>1. r.width * 4 \in 0 .. MaxInt /\ r.width * 4 = 4 * r.width
      BY <1>1, <2>2 DEF Narrow
    <3>q. QED BY <3>1, SignedKeeps DEF MinStride
  <2>4. r.stride >= 4 * r.width
    BY <1>1, <2>1, <2>3 DEF BadStride
  <2>5. RequiredSize(r) = r.offset + r.height * r.stride
    BY <1>1, <2>2, <2>4, RequiredIs
  <2>6. r.height * r.stride \in Int
    BY <1>1
  <2>7. r.offset + r.height * r.stride <= r.pool
    BY <1>1, <2>1, <2>5, <2>6 DEF TooLarge
  <2>q. QED BY <2>1, <2>2, <2>4, <2>7 DEF Fits
<1>3. ASSUME Fits(r), r.known
      PROVE  Verdict(r) = "accepted"
  <2>1. /\ r.offset >= 0 /\ r.width > 0 /\ r.height > 0 /\ r.stride >= 4 * r.width
        /\ r.offset + r.height * r.stride <= r.pool
    BY <1>3 DEF Fits
  <2>2. ~BadExtent(r)
    BY <1>1, <2>1 DEF BadExtent
  <2>3. ~BadStride(r)
    <3>1. r.width * 4 \in 0 .. MaxInt /\ r.width * 4 = 4 * r.width
      BY <1>1, <2>1 DEF Narrow
    <3>q. QED BY <1>1, <2>1, <3>1, SignedKeeps DEF MinStride, BadStride
  <2>4. ~TooLarge(r)
    <3>1. RequiredSize(r) = r.offset + r.height * r.stride
      BY <1>1, <2>1, RequiredIs
    <3>2. r.height * r.stride \in Int
      BY <1>1
    <3>q. QED BY <1>1, <2>1, <3>1, <3>2 DEF TooLarge
  <2>5. ~BadOffset(r)
    <3>1. 1 * 1 <= r.height * r.stride /\ r.height * r.stride \in Nat
      BY <1>1, <2>1, ProductGrows
    <3>2. r.offset \in 0 .. MaxInt /\ r.offset < r.pool
      BY <1>1, <2>1, <3>1 DEF Ints
    <3>3. Size(r.offset) = r.offset
      <4>1. MaxInt * MaxInt \in Nat
        BY <1>1
      <4>q. QED BY <1>1, <3>2, <4>1, SizeKeeps
    <3>q. QED BY <1>1, <3>2, <3>3 DEF BadOffset
  <2>q. QED BY <1>3, <2>2, <2>3, <2>4, <2>5 DEF Verdict
<1>q. QED BY <1>2, <1>3

(* The numbers of an accepted buffer along its way, and n, the length of   *)
(* the file it is in.                                                      *)
Reception(r, n) == [width |-> Updated(Fields(r))[1], height |-> Updated(Fields(r))[2],
                    stride |-> Updated(Fields(r))[3], size |-> n]
RegionOf(r, n) == [row |-> RowLength(Reception(r, n)), width |-> Reception(r, n).width,
                   height |-> Reception(r, n).height, of |-> Reception(r, n).size]

GeometryInv ==
    /\ request \in Requests
    /\ verdict # "none" => verdict = Verdict(request)
    /\ verdict = "accepted" => buffer = Fields(request)
    /\ verdict # "accepted" => signal = Nothing
    /\ signal # Nothing => signal = Updated(Fields(request))
    /\ received # Nothing =>
          signal # Nothing /\ \E n \in FileSizes : received = Reception(request, n)
    /\ region # Nothing =>
          /\ received # Nothing
          /\ \E n \in FileSizes : region = RegionOf(request, n)

LEMMA GeometryStart == InitGeometry => GeometryInv
<1> SUFFICES ASSUME InitGeometry PROVE GeometryInv
  OBVIOUS
<1>1. request \in Requests
  BY RequestAssumption, PoolSizeAssumption DEF InitGeometry, Requests
<1>q. QED BY <1>1 DEF InitGeometry, GeometryInv

LEMMA GeometryStep ==
    ASSUME GeometryInv, [NextGeometry]_numbers
    PROVE  GeometryInv'
<1>1. CASE CreateBuffer
  BY <1>1 DEF CreateBuffer, GeometryInv
<1>2. CASE Attach
  BY <1>2 DEF Attach, GeometryInv
<1>3. CASE Receive
  BY <1>3 DEF Receive, GeometryInv, Reception
<1>4. CASE Update
  <2>1. PICK n \in FileSizes : received = Reception(request, n)
    BY <1>4 DEF Update, GeometryInv
  <2>2. region' = RegionOf(request, n)
    BY <1>4, <2>1 DEF Update, RegionOf
  <2>q. QED BY <1>4, <2>2 DEF Update, GeometryInv
<1>5. CASE UNCHANGED numbers
  BY <1>5 DEF numbers, GeometryInv
<1>q. QED BY <1>1, <1>2, <1>3, <1>4, <1>5 DEF NextGeometry

LEMMA GeometryInvariant == GeometrySpec => []GeometryInv
<1>1. InitGeometry => GeometryInv
  BY GeometryStart
<1>2. GeometryInv /\ [NextGeometry]_numbers => GeometryInv'
  BY GeometryStep
<1>q. QED BY <1>1, <1>2, PTL DEF GeometrySpec

(* A request is accepted exactly when its rows are as long as their pixels *)
(* and its last byte lies in the pool (shm.c:68-94): for every int, and    *)
(* every request whose width * 4 does not overflow.                        *)
THEOREM ChecksAreExact == GeometrySpec => []AcceptedIffFits
<1>1. GeometryInv => AcceptedIffFits
  BY AcceptedFits DEF GeometryInv, AcceptedIffFits
<1>q. QED BY <1>1, GeometryInvariant, PTL

(* What the renderer makes of an accepted buffer. *)
LEMMA RegionIs ==
    ASSUME NEW r \in Requests, Narrow(r), Verdict(r) = "accepted", NEW n \in FileSizes
    PROVE  /\ Fits(r) /\ r.width \in Nat \ {0} /\ r.height \in Nat \ {0}
           /\ r.offset \in Nat /\ r.stride \in Nat /\ r.pool \in Nat
           /\ RegionOf(r, n) = [row |-> r.width, width |-> r.width, height |-> r.height,
                                of |-> n]
<1>1. Fits(r)
  BY AcceptedFits
<1>2. /\ r.width \in 0 .. MaxInt /\ r.height \in 0 .. MaxInt
      /\ r.width \in Nat \ {0} /\ r.height \in Nat \ {0} /\ r.offset \in Nat
      /\ r.stride \in Nat /\ r.pool \in Nat
  BY <1>1, WordSizes DEF Fits, Requests, Ints
<1>3. Fields(r) = [width |-> r.width, height |-> r.height]
  BY <1>2, UnsignedKeeps DEF Fields
<1>4. Updated(Fields(r)) = <<r.width, r.height, r.width * 4>>
  <2>1. r.width * 4 \in 0 .. MaxInt
    BY <1>2, WordSizes DEF Narrow
  <2>q. QED BY <1>3, <2>1, UnsignedKeeps DEF Updated
<1>5. Reception(r, n) = [width |-> r.width, height |-> r.height,
                         stride |-> r.width * 4, size |-> n]
  BY <1>4 DEF Reception
<1>6. RowLength(Reception(r, n)) = r.width
  <2>1. (r.width * 4) \div 4 = r.width
    BY <1>2
  <2>q. QED BY <1>2, <1>5, <2>1 DEF RowLength
<1>q. QED BY <1>1, <1>2, <1>5, <1>6 DEF RegionOf

LEMMA RegionThere ==
    ASSUME GeometryInv, region # Nothing
    PROVE  /\ request \in Requests /\ Verdict(request) = "accepted"
           /\ \E n \in FileSizes : region = RegionOf(request, n)
BY DEF GeometryInv

(* What the GPU copies for an accepted buffer (vulkan_texture.c:326) lies  *)
(* in the pool, whatever stride and offset it was accepted with, and       *)
(* leaves the file exactly when that is shorter than the rows end to end.  *)
THEOREM CopiesStayInPool == GeometrySpec => []CopyInPool
<1>1. GeometryInv => CopyInPool
  <2> SUFFICES ASSUME GeometryInv, region # Nothing, Narrow(request)
               PROVE  /\ \A p \in Pixels(region) :
                            CopiedAt(region, p[1], p[2]) + 4 <= CopyEnds(region)
                      /\ CopyEnds(region) <= request.pool
                      /\ CopyEnds(region) > region.of
                            <=> region.of < 4 * (request.height * request.width)
    BY DEF CopyInPool
  <2>1. PICK r \in Requests, n \in FileSizes :
           r = request /\ Narrow(r) /\ Verdict(r) = "accepted" /\ region = RegionOf(r, n)
    BY RegionThere
  <2>2. /\ Fits(r) /\ r.width \in Nat \ {0} /\ r.height \in Nat \ {0}
        /\ r.offset \in Nat /\ r.stride \in Nat /\ r.pool \in Nat
        /\ region.row = r.width /\ region.width = r.width
        /\ region.height = r.height /\ region.of = n
    BY <2>1, RegionIs
  <2>3. CopyEnds(region) = 4 * ((r.height - 1) * r.width + (r.width - 1)) + 4
    BY <2>2 DEF CopyEnds, CopiedAt
  <2>4. (r.height - 1) * r.width = r.height * r.width - r.width
        /\ r.height * r.width \in Nat
    BY <2>2
  <2>5. CopyEnds(region) = 4 * (r.height * r.width)
    BY <2>2, <2>3, <2>4
  <2>6. ASSUME NEW p \in Pixels(region)
        PROVE  CopiedAt(region, p[1], p[2]) + 4 <= CopyEnds(region)
    <3>1. PICK x \in 0 .. r.width - 1, y \in 0 .. r.height - 1 : p[1] = x /\ p[2] = y
      BY <2>2, <2>6 DEF Pixels
    <3>2. y * r.width \in Nat /\ y * r.width <= (r.height - 1) * r.width
      BY <2>2, <3>1, ProductGrows
    <3>3. 4 * (y * r.width + x) + 4 <= 4 * (r.height * r.width)
      BY <2>2, <2>4, <3>1, <3>2
    <3>q. QED BY <2>2, <2>5, <3>1, <3>3 DEF CopiedAt
  <2>7. CopyEnds(region) <= r.pool
    <3>1. /\ r.height * (4 * r.width) <= r.height * r.stride
          /\ r.height * r.stride \in Nat
      BY <2>2, ProductGrows DEF Fits
    <3>2. r.height * (4 * r.width) = 4 * (r.height * r.width)
      BY <2>2
    <3>3. r.offset + r.height * r.stride <= r.pool
      BY <2>2 DEF Fits
    <3>q. QED BY <2>2, <2>4, <2>5, <3>1, <3>2, <3>3
  <2>8. CopyEnds(region) > region.of <=> region.of < 4 * (r.height * r.width)
    <3>1. n \in Nat
      BY FileSizeAssumption
    <3>q. QED BY <2>2, <2>4, <2>5, <3>1
  <2>q. QED BY <2>1, <2>6, <2>7, <2>8
<1>q. QED BY <1>1, GeometryInvariant, PTL

(* A buffer laid out as the test clients lay out theirs is shown pixel by  *)
(* pixel as it was drawn (buffer_mgr.c:71-135).                            *)
THEOREM PlainBuffersShown == GeometrySpec => []ShownAsDrawn
<1>1. GeometryInv => ShownAsDrawn
  <2> SUFFICES ASSUME GeometryInv, region # Nothing, Narrow(request),
                      LikeTestClients(request)
               PROVE  /\ region.width = request.width /\ region.height = request.height
                      /\ \A p \in Pixels(region) :
                            CopiedAt(region, p[1], p[2]) = DrawnAt(request, p[1], p[2])
    BY DEF ShownAsDrawn
  <2>1. PICK r \in Requests, n \in FileSizes :
           r = request /\ Narrow(r) /\ Verdict(r) = "accepted" /\ region = RegionOf(r, n)
    BY RegionThere
  <2>2. /\ r.width \in Nat \ {0} /\ r.height \in Nat \ {0} /\ r.stride \in Nat
        /\ region.row = r.width /\ region.width = r.width
        /\ region.height = r.height
    BY <2>1, RegionIs
  <2>3. ASSUME NEW p \in Pixels(region)
        PROVE  CopiedAt(region, p[1], p[2]) = DrawnAt(r, p[1], p[2])
    <3>1. PICK x \in 0 .. r.width - 1, y \in 0 .. r.height - 1 : p[1] = x /\ p[2] = y
      BY <2>2, <2>3 DEF Pixels
    <3>2. r.offset = 0 /\ (r.stride = 4 * r.width \/ y = 0)
      BY <2>1, <2>2, <3>1 DEF LikeTestClients
    <3>3. 4 * (y * r.width) = y * r.stride
      BY <2>2, <3>1, <3>2
    <3>4. y * r.width \in Int /\ y * r.stride \in Int
      BY <2>2, <3>1
    <3>q. QED BY <2>2, <3>1, <3>2, <3>3, <3>4 DEF CopiedAt, DrawnAt
  <2>q. QED BY <2>1, <2>2, <2>3
<1>q. QED BY <1>1, GeometryInvariant, PTL
=============================================================================
