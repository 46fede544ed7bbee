------------------------------- MODULE ShmPool -------------------------------
(***************************************************************************)
(* Shared-memory pools and their buffers, src/src/wayland/shm.c: what the  *)
(* requests of clients and the end of a client do to the structs, to the   *)
(* list each pool keeps of its buffers, and to the file descriptors of the *)
(* compositor.                                                             *)
(*                                                                         *)
(* The compositor handles one request at a time, and the end of a client   *)
(* in one go, so each is one action.  A step that follows a link into a    *)
(* freed struct sets fault and ends the behaviour.  A pool stands in       *)
(* server->shm_pools exactly while it is live.  A client draws the ids of  *)
(* its pools and buffers from the same numbers as those of its surfaces,   *)
(* regions and callbacks, of which nothing but the ids is modelled here.   *)
(***************************************************************************)
EXTENDS Naturals, Sequences, FiniteSets

CONSTANTS Clients,      \* the clients that ever connect
          Pools,        \* the pools ever made: struct shm_pool
          Buffers,      \* the buffers ever made: struct buffer
          Fds,          \* descriptor numbers the process may use for pools
          Ids,          \* object ids of a client: bounds its live objects
          MaxOthers,    \* bound on the live objects of a client not of this file
          Nobody        \* no client, no pool, no descriptor

ASSUME NumbersAssumption == Fds \subseteq Nat /\ Ids \subseteq Nat \ {0}
ASSUME NobodyAssumption == Nobody \notin Clients \cup Pools \cup Buffers \cup Fds

VARIABLES client,       \* "connected", "error" (posted: no request is read), "gone"
          highest,      \* per client, the highest id it has used
          others,       \* per client, the ids of its objects not of this file
          returned,     \* per client, every id it ever had back
          poolState, bufferState,   \* "unused", "live", "freed"; a pool: "leaked"
          poolFd, bufferFd,         \* pool->fd and its copy buffer->shm.fd
          poolId, bufferId,         \* the ids of their resources
          owner,        \* the client of a pool
          from,         \* the pool a buffer was made from
          links,        \* pool->buffers, from its head on
          file,         \* what each descriptor refers to: the file of a pool
          fault

clients == <<client, highest, others, returned>>
pools == <<poolState, poolFd, poolId, owner>>
buffers == <<bufferState, bufferFd, bufferId, from>>
vars == <<clients, pools, buffers, links, file, fault>>

Init == /\ client = [c \in Clients |-> "connected"]
        /\ highest = [c \in Clients |-> 0]
        /\ others = [c \in Clients |-> {}]
        /\ returned = [c \in Clients |-> {}]
        /\ poolState = [p \in Pools |-> "unused"]
        /\ poolFd = [p \in Pools |-> Nobody]
        /\ poolId = [p \in Pools |-> 0]
        /\ owner = [p \in Pools |-> Nobody]
        /\ bufferState = [b \in Buffers |-> "unused"]
        /\ bufferFd = [b \in Buffers |-> Nobody]
        /\ bufferId = [b \in Buffers |-> 0]
        /\ from = [b \in Buffers |-> Nobody]
        /\ links = [p \in Pools |-> <<>>]
        /\ file = [f \in Fds |-> Nobody]
        /\ fault = "none"

Live(p) == poolState[p] = "live"
OfClient(c, b) == \E p \in Pools : from[b] = p /\ owner[p] = c
Entries(p) == {links[p][k] : k \in DOMAIN links[p]}
Dangling(p) == \E b \in Entries(p) : bufferState[b] = "freed"

(* The client takes the next id after the highest, or one that it had back.*)
UsedIds(c) == {poolId[p] : p \in {q \in Pools : Live(q) /\ owner[q] = c}}
         \cup {bufferId[b] : b \in {d \in Buffers : bufferState[d] = "live"
                                                    /\ OfClient(c, d)}}
         \cup others[c]
FreeIds(c) == {i \in Ids : i = highest[c] + 1 \/ i \in returned[c]} \ UsedIds(c)
Note(c, i) == highest' = [highest EXCEPT ![c] = IF i > @ THEN i ELSE @]
Return(c, ids) == returned' = [returned EXCEPT ![c] = @ \cup ids]

(* The descriptor a message brings gets the lowest free number.            *)
IsNewFd(f) == /\ file[f] = Nobody
              /\ \A g \in Fds : file[g] = Nobody => f <= g

(* A handler that posts an error: the client is read no further.           *)
Error(c) == client' = [client EXCEPT ![c] = "error"]

Crash == /\ fault' = "freed buffer in a list"
         /\ UNCHANGED <<clients, pools, buffers, links, file>>

-----------------------------------------------------------------------------
(* An object of another file is made, and goes: the callback of a sync,    *)
(* which libwayland makes and ends, an xdg_surface (xdg-shell/surface.c:8).*)
(* Surfaces and regions are made too; nothing ever ends their resources.   *)
CreateOther(c) == /\ client[c] = "connected" /\ Cardinality(others[c]) < MaxOthers
                  /\ \E i \in FreeIds(c) :
                        others' = [others EXCEPT ![c] = @ \cup {i}] /\ Note(c, i)
                  /\ UNCHANGED <<client, returned, pools, buffers, links, file, fault>>

DestroyOther(c) == /\ client[c] = "connected"
                   /\ \E i \in others[c] :
                         others' = [others EXCEPT ![c] = @ \ {i}] /\ Return(c, {i})
                   /\ UNCHANGED <<client, highest, pools, buffers, links, file, fault>>

-----------------------------------------------------------------------------
(* shm_create_pool. *)
CreatePool(c, p) ==
    /\ client[c] = "connected" /\ poolState[p] = "unused"
    /\ \E f \in Fds, i \in FreeIds(c) :
          /\ IsNewFd(f)
          /\ file' = [file EXCEPT ![f] = p]
          /\ poolFd' = [poolFd EXCEPT ![p] = f]
          /\ poolId' = [poolId EXCEPT ![p] = i]
          /\ Note(c, i)
    /\ poolState' = [poolState EXCEPT ![p] = "live"]
    /\ owner' = [owner EXCEPT ![p] = c]
    /\ UNCHANGED <<client, others, returned, buffers, links, fault>>

(* Its failing paths: a size that is not positive, calloc, mmap, and       *)
(* wl_resource_create; what each has by then, and what it gives back.      *)
Acquired == [size |-> {"fd"}, memory |-> {"fd"}, map |-> {"fd", "struct"},
             resource |-> {"fd", "struct", "mapping"}]
(* Mutant: the descriptor stays open when mmap fails. *)
GivesBackLess == [size |-> {"fd"}, memory |-> {"fd"}, map |-> {"struct"},
                  resource |-> {"fd", "struct", "mapping"}]
GivesBack == [size |-> {"fd"}, memory |-> {"fd"}, map |-> {"fd", "struct"},
              resource |-> {"fd", "struct", "mapping"}]

CreatePoolFails(c) ==
    /\ client[c] = "connected" /\ Error(c)
    /\ \E path \in DOMAIN Acquired, f \in Fds, p \in Pools :
          LET left == Acquired[path] \ GivesBack[path]
          IN /\ IsNewFd(f) /\ poolState[p] = "unused"
             /\ file' = IF "fd" \in left THEN [file EXCEPT ![f] = p] ELSE file
             /\ poolState' = IF left \ {"fd"} = {} THEN poolState
                             ELSE [poolState EXCEPT ![p] = "leaked"]
    /\ UNCHANGED <<highest, others, returned, poolFd, poolId, owner, buffers,
                   links, fault>>

(* Mutant: the list is told, the buffer is not. *)
CreateBufferHalf(c, p, b) ==
    /\ client[c] = "connected"
    /\ Live(p) /\ owner[p] = c /\ bufferState[b] = "unused"
    /\ links' = [links EXCEPT ![p] = <<b>> \o @]
    /\ UNCHANGED <<clients, pools, buffers, file, fault>>

(* shm_pool_create_buffer: the new buffer goes to the head of the list,    *)
(* which writes to the one that was there.                                 *)
CreateBuffer(c, p, b) ==
    /\ client[c] = "connected"
    /\ Live(p) /\ owner[p] = c /\ bufferState[b] = "unused"
    /\ \/ /\ links[p] # <<>> /\ bufferState[Head(links[p])] = "freed"
          /\ Crash
       \/ /\ links[p] # <<>> => bufferState[Head(links[p])] # "freed"
          /\ \E i \in FreeIds(c) :
                /\ bufferId' = [bufferId EXCEPT ![b] = i]
                /\ Note(c, i)
          /\ links' = [links EXCEPT ![p] = <<b>> \o @]
          /\ bufferState' = [bufferState EXCEPT ![b] = "live"]
          /\ bufferFd' = [bufferFd EXCEPT ![b] = poolFd[p]]
          /\ from' = [from EXCEPT ![b] = p]
          /\ UNCHANGED <<client, others, returned, pools, file, fault>>

(* Mutant: the buffer is freed after it was linked. *)
CreateBufferFailsLate(c, p) ==
    /\ client[c] = "connected"
    /\ Live(p) /\ owner[p] = c
    /\ Error(c)
    /\ \E b \in Buffers :
          /\ bufferState[b] = "unused"
          /\ bufferState' = [bufferState EXCEPT ![b] = "freed"]
          /\ links' = [links EXCEPT ![p] = <<b>> \o @]
    /\ UNCHANGED <<highest, others, returned, pools, bufferFd, bufferId, from,
                   file, fault>>

(* Bad geometry (module BufferGeometry), an unknown format, no memory.     *)
CreateBufferFails(c, p) ==
    /\ client[c] = "connected"
    /\ Live(p) /\ owner[p] = c
    /\ Error(c)
    /\ UNCHANGED <<highest, others, returned, pools, buffers, links, file, fault>>

(* buffer_handle_destroy and shm_buffer_destructor: the list is not told.  *)
DestroyBuffer(c, b) ==
    /\ client[c] = "connected"
    /\ bufferState[b] = "live" /\ OfClient(c, b)
    /\ bufferState' = [bufferState EXCEPT ![b] = "freed"]
    /\ Return(c, {bufferId[b]})
    /\ UNCHANGED <<client, highest, others, pools, bufferFd, bufferId, from, links,
                   file, fault>>

(* What shm_pool_destructor does for the pools ps when no link of theirs   *)
(* dangles.                                                                *)
Close(ps) == file' = [f \in Fds |-> IF \E p \in ps : poolFd[p] = f
                                    THEN Nobody ELSE file[f]]
FreePools(ps) == /\ poolState' = [p \in Pools |-> IF p \in ps THEN "freed"
                                                  ELSE poolState[p]]
                 /\ UNCHANGED <<poolFd, poolId, owner>>
FreeBuffers(bs) == /\ bufferState' = [b \in Buffers |-> IF b \in bs THEN "freed"
                                                        ELSE bufferState[b]]
                   /\ UNCHANGED <<bufferFd, bufferId, from>>

(* Mutant: the buffers are kept, as wayland.xml asks, but not the file. *)
DestroyPoolOnly(c, p) ==
    /\ client[c] = "connected"
    /\ Live(p) /\ owner[p] = c
    /\ FreePools({p}) /\ Close({p})
    /\ UNCHANGED <<clients, buffers, links, fault>>

(* shm_pool_destroy and shm_pool_destructor. *)
DestroyPool(c, p) ==
    /\ client[c] = "connected"
    /\ Live(p) /\ owner[p] = c
    /\ \/ Dangling(p) /\ Crash
       \/ /\ ~Dangling(p)
          /\ FreeBuffers(Entries(p)) /\ FreePools({p}) /\ Close({p})
          /\ Return(c, {poolId[p]} \cup {bufferId[b] : b \in Entries(p)})
          /\ UNCHANGED <<client, highest, others, links, fault>>

(* The end of a client, its own doing, after an error, or as the           *)
(* compositor leaves (server_cleanup).  libwayland destroys its objects in *)
(* the order of their ids: a buffer with a lower id than its pool is freed *)
(* before the destructor of the pool walks the list.                       *)
DestroyedFirst(p) == \E b \in Entries(p) : bufferId[b] < poolId[p]

Disconnect(c) ==
    LET ps == {p \in Pools : Live(p) /\ owner[p] = c}
        bs == {b \in Buffers : bufferState[b] = "live" /\ OfClient(c, b)}
    IN /\ client[c] # "gone"
       /\ \/ (\E p \in ps : Dangling(p) \/ DestroyedFirst(p)) /\ Crash
          \/ /\ \A p \in ps : ~Dangling(p) /\ ~DestroyedFirst(p)
             /\ client' = [client EXCEPT ![c] = "gone"]
             /\ FreeBuffers(bs) /\ FreePools(ps) /\ Close(ps)
             /\ highest' = [highest EXCEPT ![c] = 0]
             /\ others' = [others EXCEPT ![c] = {}]
             /\ returned' = [returned EXCEPT ![c] = {}]
             /\ UNCHANGED <<links, fault>>

Request(c) == \/ \E p \in Pools : CreatePool(c, p) \/ DestroyPool(c, p)
              \/ CreatePoolFails(c)
              \/ \E p \in Pools, b \in Buffers : CreateBuffer(c, p, b)
              \/ \E p \in Pools : CreateBufferFails(c, p)
              \/ \E b \in Buffers : DestroyBuffer(c, b)
              \/ CreateOther(c) \/ DestroyOther(c)

Alive == fault = "none"

Next == \/ Alive /\ \E c \in Clients : Request(c) \/ Disconnect(c)
        \/ /\ ~Alive \/ \A c \in Clients : client[c] = "gone"
           /\ UNCHANGED vars

Spec == Init /\ [][Next]_vars

-----------------------------------------------------------------------------
(* Types; and a list holds only buffers that were made from its pool.      *)
States == {"unused", "live", "freed"}
TypeOK == /\ client \in [Clients -> {"connected", "error", "gone"}]
          /\ highest \in [Clients -> Ids \cup {0}]
          /\ others \in [Clients -> SUBSET Ids] /\ returned \in [Clients -> SUBSET Ids]
          /\ poolState \in [Pools -> States \cup {"leaked"}]
          /\ bufferState \in [Buffers -> States]
          /\ poolFd \in [Pools -> Fds \cup {Nobody}]
          /\ bufferFd \in [Buffers -> Fds \cup {Nobody}]
          /\ poolId \in [Pools -> Ids \cup {0}]
          /\ bufferId \in [Buffers -> Ids \cup {0}]
          /\ owner \in [Pools -> Clients \cup {Nobody}]
          /\ from \in [Buffers -> Pools \cup {Nobody}]
          /\ links \in [Pools -> Seq(Buffers)]
          /\ \A p \in Pools : \A b \in Entries(p) : from[b] = p
          /\ file \in [Fds -> Pools \cup {Nobody}]
          /\ fault \in {"none", "freed buffer in a list"}

(* The descriptors in use are those of the live pools, one each, and no    *)
(* struct or mapping is left behind: no path of shm_create_pool and        *)
(* shm_pool_destructor leaks one, and no descriptor is closed under a pool *)
(* that has it.                                                            *)
FdsAccounted == /\ \A f \in Fds, p \in Pools :
                      file[f] = p <=> Live(p) /\ poolFd[p] = f
                /\ \A p \in Pools : poolState[p] # "leaked"

(* The descriptor a live buffer copied from its pool, which an attach      *)
(* sends to the renderer, still refers to the file of that pool, however   *)
(* pools come and go and numbers are reused.                               *)
BufferFdValid == \A b \in Buffers :
                    bufferState[b] = "live" => file[bufferFd[b]] = from[b]

(* A link into a freed struct is followed only at a buffer whose id the    *)
(* client has had back: the buffer was destroyed by request and its pool   *)
(* was not, or it has, below the id of its pool, that of an object long    *)
(* gone -- of any kind, a callback will do -- and so is destroyed before   *)
(* its pool when the client leaves (shm.c:139).  A client that has no id   *)
(* back, whatever it makes and whatever fails, does no harm by leaving.    *)
HarmNeedsFreedId ==
    ~Alive => \E p \in Pools : Live(p) /\ \E b \in Entries(p) :
                 /\ bufferId[b] \in returned[owner[p]]
                 /\ bufferState[b] = "freed" \/ bufferId[b] < poolId[p]

(* The memory of a pool is kept until its buffers are gone, unless the     *)
(* client is (wayland.xml:252).                                            *)
MemoryKept ==
    [][\A p \in Pools, c \in Clients :
          Live(p) /\ poolState'[p] = "freed" /\ owner[p] = c
             => \/ client'[c] = "gone"
                \/ \A b \in Buffers : from[b] = p => bufferState[b] # "live"]_vars
=============================================================================
