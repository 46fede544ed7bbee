--------------------------- MODULE ShmPool_proofs ---------------------------
(***************************************************************************)
(* Descriptors are accounted for, and the copy a buffer keeps is good, for *)
(* any number of clients, pools, buffers and descriptors.  The links that  *)
(* may dangle do not matter to it: a live buffer is always in the list of  *)
(* its pool, so the destructor of the pool finds it.  And such a link is   *)
(* followed only at a buffer whose id the client has had back.             *)
(***************************************************************************)
EXTENDS ShmPool, TLAPS

(* What ties a buffer to its pool. *)
Tied == \A b \in Buffers :
           /\ bufferState[b] = "unused" => from[b] = Nobody
           /\ bufferState[b] = "live" =>
                 /\ from[b] \in Pools
                 /\ Live(from[b])
                 /\ bufferFd[b] = poolFd[from[b]]
                 /\ bufferId[b] \in Ids
                 /\ b \in Entries(from[b])
PoolFds == \A p \in Pools : Live(p) => poolFd[p] \in Fds /\ poolId[p] \in Ids

ShmInv == TypeOK /\ FdsAccounted /\ PoolFds /\ Tied

Elems(s) == {s[k] : k \in DOMAIN s}

(* wl_list_insert at the head: the list has the new entry and its old ones.*)
LEMMA HeadInsertion ==
    ASSUME NEW S, NEW s \in Seq(S), NEW b \in S,
           NEW t, t = <<b>> \o s
    PROVE  /\ t \in Seq(S)
           /\ Elems(t) = {b} \cup Elems(s)
<1>1. t \in Seq(S) /\ Len(t) = Len(s) + 1 /\ Len(s) \in Nat
  OBVIOUS
<1>2. t[1] = b
  OBVIOUS
<1>3. \A k \in 1 .. Len(s) : t[k + 1] = s[k]
  OBVIOUS
<1>4. \A k \in 2 .. Len(t) : k - 1 \in 1 .. Len(s) /\ t[k] = s[k - 1]
  BY <1>1, <1>3
<1>5. DOMAIN t = 1 .. Len(t) /\ DOMAIN s = 1 .. Len(s)
  BY <1>1
<1>6. ASSUME NEW x \in {t[k] : k \in DOMAIN t}
      PROVE  x \in {b} \cup {s[k] : k \in DOMAIN s}
  <2>1. PICK k \in 1 .. Len(t) : x = t[k]
    BY <1>5
  <2>2. CASE k = 1
    BY <2>1, <2>2, <1>2
  <2>3. CASE k # 1
    BY <2>1, <2>3, <1>1, <1>4, <1>5
  <2>q. QED BY <2>2, <2>3
<1>7. b \in {t[k] : k \in DOMAIN t}
  BY <1>1, <1>2, <1>5
<1>8. ASSUME NEW x \in {s[k] : k \in DOMAIN s}
      PROVE  x \in {t[k] : k \in DOMAIN t}
  <2>1. PICK k \in 1 .. Len(s) : x = s[k]
    BY <1>5
  <2>2. k + 1 \in 1 .. Len(t) /\ x = t[k + 1]
    BY <2>1, <1>1, <1>3
  <2>q. QED BY <2>2, <1>5
<1>9. {t[k] : k \in DOMAIN t} = {b} \cup {s[k] : k \in DOMAIN s}
  BY <1>6, <1>7, <1>8
<1>q. QED BY <1>1, <1>9 DEF Elems

-----------------------------------------------------------------------------
LEMMA InitEstablishes == Init => ShmInv
<1> SUFFICES ASSUME Init PROVE ShmInv  OBVIOUS
<1> USE NobodyAssumption DEF Init
<1>1. \A p \in Pools : links[p] \in Seq(Buffers) /\ Entries(p) = {}
  BY DEF Entries
<1>2. links \in [Pools -> Seq(Buffers)]
  BY <1>1
<1>3. TypeOK
  BY <1>1, <1>2 DEF TypeOK, States
<1>4. FdsAccounted /\ PoolFds /\ Tied
  BY DEF FdsAccounted, PoolFds, Tied, Live
<1>q. QED BY <1>3, <1>4 DEF ShmInv

LEMMA CrashKeeps == ASSUME ShmInv, Crash PROVE ShmInv'
<1>1. \A q \in Pools : Entries(q)' = Entries(q) /\ (Live(q)' <=> Live(q))
  BY DEF Crash, Entries, Live, pools
<1>2. TypeOK'
  BY <1>1 DEF Crash, ShmInv, TypeOK, clients, pools, buffers
<1>3. FdsAccounted'
  BY DEF Crash, ShmInv, FdsAccounted, Live, pools
<1>4. PoolFds' /\ Tied'
  BY <1>1 DEF Crash, ShmInv, PoolFds, Tied, pools, buffers
<1>q. QED BY <1>2, <1>3, <1>4 DEF ShmInv

LEMMA CreatePoolKeeps ==
    ASSUME ShmInv, NEW c \in Clients, NEW p \in Pools, CreatePool(c, p)
    PROVE  ShmInv'
<1>1. PICK f \in Fds, i \in FreeIds(c) :
         /\ IsNewFd(f) /\ Note(c, i)
         /\ file' = [file EXCEPT ![f] = p]
         /\ poolFd' = [poolFd EXCEPT ![p] = f]
         /\ poolId' = [poolId EXCEPT ![p] = i]
  BY DEF CreatePool
<1>2. i \in Ids
  BY DEF FreeIds
<1> USE DEF ShmInv
<1>3. TypeOK'
  <2>1. \A q \in Pools : Entries(q)' = Entries(q)
    BY DEF CreatePool, Entries
  <2>2. highest' \in [Clients -> Ids \cup {0}]
    BY <1>1, <1>2 DEF TypeOK, Note
  <2>3. /\ poolState' \in [Pools -> States \cup {"leaked"}]
        /\ poolFd' \in [Pools -> Fds \cup {Nobody}]
        /\ poolId' \in [Pools -> Ids \cup {0}]
        /\ owner' \in [Pools -> Clients \cup {Nobody}]
        /\ file' \in [Fds -> Pools \cup {Nobody}]
    BY <1>1, <1>2 DEF TypeOK, CreatePool, States
  <2>4. UNCHANGED <<client, others, returned, buffers, links, fault>>
    BY DEF CreatePool
  <2>5. \A q \in Pools : \A b \in Entries(q)' : from'[b] = q
    BY <2>1, <2>4 DEF TypeOK, buffers
  <2>q. QED BY <2>2, <2>3, <2>4, <2>5 DEF TypeOK, buffers
<1>4. FdsAccounted'
  <2>0. \A q \in Pools : poolState'[q] # "leaked"
    <3>1. poolState' = [poolState EXCEPT ![p] = "live"]
      BY DEF CreatePool
    <3>2. poolState \in [Pools -> States \cup {"leaked"}]
      BY DEF TypeOK
    <3>3. \A q \in Pools : poolState[q] # "leaked"
      BY DEF FdsAccounted
    <3>q. QED BY <3>1, <3>2, <3>3
  <2> SUFFICES ASSUME NEW g \in Fds, NEW q \in Pools
               PROVE  file'[g] = q <=> Live(q)' /\ poolFd'[q] = g
    BY <2>0 DEF FdsAccounted
  <2>1. /\ file[f] = Nobody /\ Nobody \notin Pools
        /\ poolState[p] = "unused"
        /\ poolState' = [poolState EXCEPT ![p] = "live"]
    BY <1>1, NobodyAssumption DEF IsNewFd, CreatePool
  <2>2. /\ file[g] = q <=> Live(q) /\ poolFd[q] = g
        /\ file[f] = q <=> Live(q) /\ poolFd[q] = f
        /\ file[g] = p <=> Live(p) /\ poolFd[p] = g
    BY DEF FdsAccounted
  <2>3. /\ file'[g] = IF g = f THEN p ELSE file[g]
        /\ poolFd'[q] = IF q = p THEN f ELSE poolFd[q]
        /\ poolState'[q] = IF q = p THEN "live" ELSE poolState[q]
    BY <1>1, <2>1 DEF TypeOK
  <2>q. QED BY <2>1, <2>2, <2>3 DEF Live
<1>5. PoolFds'
  BY <1>1, <1>2 DEF TypeOK, PoolFds, CreatePool, Live
<1>6. Tied'
  <2>1. \A q \in Pools : Entries(q)' = Entries(q)
    BY DEF CreatePool, Entries
  <2>2. \A q \in Pools : Live(q) => Live(q)' /\ poolFd'[q] = poolFd[q]
    BY <1>1 DEF TypeOK, CreatePool, Live
  <2>q. QED BY <2>1, <2>2 DEF Tied, CreatePool, buffers
<1>q. QED BY <1>3, <1>4, <1>5, <1>6

(* Every failing path of shm_create_pool gives back what it has.           *)
LEMMA NothingLeft ==
    ASSUME NEW c \in Clients, CreatePoolFails(c)
    PROVE  /\ Error(c)
           /\ UNCHANGED <<highest, others, returned, pools, buffers, links, file, fault>>
<1>1. PICK path \in DOMAIN Acquired, f \in Fds, p \in Pools :
         LET left == Acquired[path] \ GivesBack[path]
         IN /\ file' = IF "fd" \in left THEN [file EXCEPT ![f] = p] ELSE file
            /\ poolState' = IF left \ {"fd"} = {} THEN poolState
                            ELSE [poolState EXCEPT ![p] = "leaked"]
  BY DEF CreatePoolFails
<1>2. Acquired = GivesBack
  BY DEF Acquired, GivesBack
<1>3. Acquired[path] \ GivesBack[path] = {}
  BY <1>2
<1>4. UNCHANGED <<file, poolState>>
  BY <1>1, <1>3
<1>q. QED BY <1>4 DEF CreatePoolFails, pools

(* Objects of other files come and go: only ids change hands.              *)
LEMMA OtherKeeps ==
    ASSUME ShmInv, NEW c \in Clients, CreateOther(c) \/ DestroyOther(c)
    PROVE  ShmInv'
<1>1. UNCHANGED <<client, pools, buffers, links, file, fault>>
  BY DEF CreateOther, DestroyOther
<1>2. \A q \in Pools : Entries(q)' = Entries(q) /\ (Live(q)' <=> Live(q))
  BY <1>1 DEF Entries, Live, pools
<1>3. /\ highest' \in [Clients -> Ids \cup {0}]
      /\ others' \in [Clients -> SUBSET Ids] /\ returned' \in [Clients -> SUBSET Ids]
  <2>1. /\ highest \in [Clients -> Ids \cup {0}]
        /\ others \in [Clients -> SUBSET Ids] /\ returned \in [Clients -> SUBSET Ids]
    BY DEF ShmInv, TypeOK
  <2>2. CASE CreateOther(c)
    <3>1. PICK i \in Ids : others' = [others EXCEPT ![c] = @ \cup {i}] /\ Note(c, i)
      BY <2>2 DEF CreateOther, FreeIds
    <3>q. QED BY <2>1, <2>2, <3>1 DEF CreateOther, Note
  <2>3. CASE DestroyOther(c)
    <3>1. PICK i \in others[c] : others' = [others EXCEPT ![c] = @ \ {i}] /\ Return(c, {i})
      BY <2>3 DEF DestroyOther
    <3>2. i \in Ids
      BY <2>1, <3>1
    <3>q. QED BY <2>1, <2>3, <3>1, <3>2 DEF DestroyOther, Return
  <2>q. QED BY <2>2, <2>3
<1>4. TypeOK'
  BY <1>1, <1>2, <1>3 DEF ShmInv, TypeOK, pools, buffers
<1>q. QED
  BY <1>1, <1>2, <1>4 DEF ShmInv, FdsAccounted, PoolFds, Tied, pools, buffers

LEMMA ErrorKeeps ==
    ASSUME ShmInv, NEW c \in Clients, Error(c),
           UNCHANGED <<highest, others, returned, pools, buffers, links, file, fault>>
    PROVE  ShmInv'
<1>1. \A q \in Pools : Entries(q)' = Entries(q) /\ (Live(q)' <=> Live(q))
  BY DEF Entries, Live, pools
<1>2. client' \in [Clients -> {"connected", "error", "gone"}]
  BY DEF ShmInv, TypeOK, Error
<1>3. TypeOK'
  <2>1. \A q \in Pools : \A b \in Entries(q)' : from'[b] = q
    BY <1>1 DEF ShmInv, TypeOK, buffers
  <2>q. QED BY <1>2, <2>1 DEF ShmInv, TypeOK, pools, buffers
<1>4. FdsAccounted'
  BY DEF ShmInv, FdsAccounted, Live, pools
<1>5. PoolFds' /\ Tied'
  BY <1>1 DEF ShmInv, PoolFds, Tied, pools, buffers
<1>q. QED BY <1>3, <1>4, <1>5 DEF ShmInv

LEMMA CreateBufferKeeps ==
    ASSUME ShmInv, NEW c \in Clients, NEW p \in Pools, NEW b \in Buffers,
           CreateBuffer(c, p, b)
    PROVE  ShmInv'
<1>1. CASE Crash  BY <1>1, CrashKeeps
<1>2. CASE ~Crash
  <2>1. PICK i \in FreeIds(c) : Note(c, i) /\ bufferId' = [bufferId EXCEPT ![b] = i]
    BY <1>2 DEF CreateBuffer
  <2>2. i \in Ids
    BY DEF FreeIds
  <2>3. /\ Live(p) /\ bufferState[b] = "unused"
        /\ links' = [links EXCEPT ![p] = <<b>> \o @]
        /\ bufferState' = [bufferState EXCEPT ![b] = "live"]
        /\ bufferFd' = [bufferFd EXCEPT ![b] = poolFd[p]]
        /\ from' = [from EXCEPT ![b] = p]
        /\ UNCHANGED <<client, others, returned, pools, file, fault>>
    BY <1>2 DEF CreateBuffer
  <2> USE DEF ShmInv
  <2>4. links[p] \in Seq(Buffers)
    BY DEF TypeOK
  <2>t. links'[p] = <<b>> \o links[p]
    BY <2>3 DEF TypeOK
  <2>5. /\ links'[p] \in Seq(Buffers)
        /\ Elems(links'[p]) = {b} \cup Elems(links[p])
    <3>1. PICK t : t = links'[p]
      OBVIOUS
    <3>2. PICK s : s = links[p]
      OBVIOUS
    <3>3. s \in Seq(Buffers) /\ t = <<b>> \o s
      BY <2>4, <2>t, <3>1, <3>2
    <3>4. t \in Seq(Buffers) /\ Elems(t) = {b} \cup Elems(s)
      BY <3>3, HeadInsertion
    <3>q. QED BY <3>1, <3>2, <3>4
  <2>6. Entries(p)' = {b} \cup Entries(p)
    BY <2>5 DEF Entries, Elems
  <2>7. \A q \in Pools \ {p} : links'[q] = links[q] /\ Entries(q)' = Entries(q)
    <3>1. links \in [Pools -> Seq(Buffers)]
      BY DEF TypeOK
    <3>2. \A q \in Pools \ {p} : links'[q] = links[q]
      BY <2>3, <3>1
    <3>q. QED BY <3>2 DEF Entries
  <2>a. \A q \in Pools : \A e \in Entries(q) : e \in Buffers /\ from[e] = q
    <3> SUFFICES ASSUME NEW q \in Pools, NEW e \in Entries(q)
                 PROVE  e \in Buffers /\ from[e] = q
      OBVIOUS
    <3>1. links[q] \in Seq(Buffers) /\ from[e] = q
      BY DEF TypeOK
    <3>q. QED BY <3>1 DEF Entries
  <2>8. \A q \in Pools : b \notin Entries(q)
    BY <2>3, <2>a, NobodyAssumption DEF Tied
  <2>9. \A q \in Pools : \A e \in Entries(q)' : from'[e] = q
    <3> SUFFICES ASSUME NEW q \in Pools, NEW e \in Entries(q)'
                 PROVE  from'[e] = q
      OBVIOUS
    <3>1. CASE q = p /\ e = b
      BY <2>3, <3>1 DEF TypeOK
    <3>2. CASE ~(q = p /\ e = b)
      <4>1. e \in Entries(q) /\ e # b
        BY <2>6, <2>7, <2>8, <3>2
      <4>2. e \in Buffers /\ from[e] = q
        BY <4>1, <2>a
      <4>q. QED BY <2>3, <4>1, <4>2 DEF TypeOK
    <3>q. QED BY <3>1, <3>2
  <2>10. links' \in [Pools -> Seq(Buffers)]
    BY <2>3, <2>5 DEF TypeOK
  <2>11. TypeOK'
    <3>1. highest' \in [Clients -> Ids \cup {0}]
      BY <2>1, <2>2 DEF TypeOK, Note
    <3>2. /\ bufferState' \in [Buffers -> States]
          /\ bufferFd' \in [Buffers -> Fds \cup {Nobody}]
          /\ bufferId' \in [Buffers -> Ids \cup {0}]
          /\ from' \in [Buffers -> Pools \cup {Nobody}]
      BY <2>1, <2>2, <2>3 DEF TypeOK, States
    <3>q. QED BY <2>3, <2>9, <2>10, <3>1, <3>2 DEF TypeOK, pools
  <2>12. FdsAccounted' /\ PoolFds'
    BY <2>3 DEF FdsAccounted, PoolFds, Live, pools
  <2>13. Tied'
    <3> SUFFICES ASSUME NEW d \in Buffers
                 PROVE  /\ bufferState'[d] = "unused" => from'[d] = Nobody
                        /\ bufferState'[d] = "live" =>
                              /\ from'[d] \in Pools
                              /\ Live(from[d])'
                              /\ bufferFd'[d] = poolFd'[from'[d]]
                              /\ bufferId'[d] \in Ids
                              /\ d \in Entries(from[d])'
      BY DEF Tied
    <3>1. CASE d = b
      BY <3>1, <2>1, <2>2, <2>3, <2>6 DEF TypeOK, Live, pools
    <3>2. CASE d # b
      <4>1. /\ bufferState'[d] = bufferState[d] /\ from'[d] = from[d]
            /\ bufferFd'[d] = bufferFd[d] /\ bufferId'[d] = bufferId[d]
        BY <3>2, <2>1, <2>3 DEF TypeOK
      <4>2. \A q \in Pools : /\ Live(q)' <=> Live(q)
                             /\ poolFd'[q] = poolFd[q]
                             /\ Entries(q) \subseteq Entries(q)'
        BY <2>3, <2>6, <2>7 DEF Live, pools
      <4>q. QED BY <4>1, <4>2 DEF Tied
    <3>q. QED BY <3>1, <3>2
  <2>q. QED BY <2>11, <2>12, <2>13
<1>q. QED BY <1>1, <1>2

LEMMA DestroyBufferKeeps ==
    ASSUME ShmInv, NEW c \in Clients, NEW b \in Buffers, DestroyBuffer(c, b)
    PROVE  ShmInv'
<1>1. /\ bufferState' = [bufferState EXCEPT ![b] = "freed"]
      /\ Return(c, {bufferId[b]}) /\ bufferState[b] = "live" /\ OfClient(c, b)
      /\ UNCHANGED <<client, highest, others, pools, bufferFd, bufferId, from, links,
                     file, fault>>
  BY DEF DestroyBuffer
<1>2. bufferState' \in [Buffers -> States] /\ returned' \in [Clients -> SUBSET Ids]
  <2>1. bufferState' \in [Buffers -> States]
    BY <1>1 DEF ShmInv, TypeOK, States
  <2>2. bufferId[b] \in Ids
    BY <1>1 DEF ShmInv, Tied
  <2>3. returned \in [Clients -> SUBSET Ids]
    BY DEF ShmInv, TypeOK
  <2>q. QED BY <1>1, <2>1, <2>2, <2>3 DEF Return
<1>3. \A q \in Pools : Entries(q)' = Entries(q) /\ (Live(q)' <=> Live(q))
  BY <1>1 DEF Entries, Live, pools
<1>4. /\ UNCHANGED <<client, highest, others>> /\ UNCHANGED <<links, file, fault>>
      /\ UNCHANGED <<poolState, poolFd, poolId, owner>>
      /\ UNCHANGED <<bufferFd, bufferId, from>>
  BY <1>1 DEF pools
<1>5. TypeOK'
  <2>1. \A q \in Pools : \A d \in Entries(q)' : from'[d] = q
    BY <1>3, <1>4 DEF ShmInv, TypeOK
  <2>q. QED BY <1>2, <1>4, <2>1 DEF ShmInv, TypeOK
<1>6. Tied'
  <2>1. \A d \in Buffers : \/ bufferState'[d] = bufferState[d]
                           \/ bufferState'[d] = "freed"
    BY <1>1 DEF ShmInv, TypeOK
  <2>2. SUFFICES ASSUME NEW d \in Buffers
                 PROVE  /\ bufferState'[d] = "unused" => bufferState[d] = "unused"
                        /\ bufferState'[d] = "live" => bufferState[d] = "live"
    BY <1>3, <1>4 DEF ShmInv, Tied
  <2>q. QED BY <2>1
<1>q. QED
  BY <1>1, <1>3, <1>5, <1>6 DEF ShmInv, FdsAccounted, PoolFds, pools

(* What both destructions share: pools ps go, and every live buffer of     *)
(* theirs goes with them.                                                  *)
LEMMA FreeingKeeps ==
    ASSUME ShmInv, NEW ps \in SUBSET Pools, NEW bs,
           \A p \in ps : Live(p),
           \A b \in Buffers : bufferState[b] = "live" /\ from[b] \in ps => b \in bs,
           FreeBuffers(bs), FreePools(ps), Close(ps),
           \A b \in bs : b \in Buffers /\ bufferState[b] # "unused",
           client' \in [Clients -> {"connected", "error", "gone"}],
           highest' \in [Clients -> Ids \cup {0}],
           others' \in [Clients -> SUBSET Ids], returned' \in [Clients -> SUBSET Ids],
           UNCHANGED <<links, fault>>
    PROVE  ShmInv'
<1> USE DEF ShmInv
<1>1. \A q \in Pools : /\ Entries(q)' = Entries(q)
                       /\ poolFd'[q] = poolFd[q] /\ poolId'[q] = poolId[q]
                       /\ Live(q)' <=> Live(q) /\ q \notin ps
  <2>1. poolState' = [q \in Pools |-> IF q \in ps THEN "freed" ELSE poolState[q]]
        /\ poolFd' = poolFd /\ poolId' = poolId /\ links' = links
    BY DEF FreePools
  <2>2. \A q \in Pools : /\ Entries(q)' = Entries(q)
                         /\ poolFd'[q] = poolFd[q] /\ poolId'[q] = poolId[q]
    BY <2>1 DEF Entries
  <2>3. \A q \in Pools : Live(q)' <=> Live(q) /\ q \notin ps
    BY <2>1 DEF Live
  <2>q. QED BY <2>2, <2>3
<1>2. \A b \in Buffers : /\ bufferFd'[b] = bufferFd[b] /\ from'[b] = from[b]
                         /\ bufferId'[b] = bufferId[b]
                         /\ bufferState'[b] = "live" => /\ bufferState[b] = "live"
                                                        /\ b \notin bs
                         /\ bufferState'[b] = "unused" => bufferState[b] = "unused"
  BY DEF FreeBuffers
<1>3. TypeOK'
  <2>1. /\ poolState' \in [Pools -> States \cup {"leaked"}]
        /\ bufferState' \in [Buffers -> States]
        /\ file' \in [Fds -> Pools \cup {Nobody}]
    BY DEF TypeOK, FreePools, FreeBuffers, Close, States
  <2>2. \A q \in Pools : \A b \in Entries(q)' : from'[b] = q
    <3>1. from' = from /\ \A q \in Pools : \A b \in Entries(q) : from[b] = q
      BY DEF TypeOK, FreeBuffers
    <3>q. QED BY <1>1, <3>1
  <2>q. QED BY <2>1, <2>2 DEF TypeOK, FreePools, FreeBuffers
<1>4. FdsAccounted'
  <2>0. \A q \in Pools : poolState'[q] # "leaked"
    BY DEF FdsAccounted, FreePools
  <2> SUFFICES ASSUME NEW g \in Fds, NEW q \in Pools
               PROVE  file'[g] = q <=> Live(q)' /\ poolFd'[q] = g
    BY <2>0 DEF FdsAccounted
  <2>1. \A p \in Pools : file[g] = p <=> Live(p) /\ poolFd[p] = g
    BY DEF FdsAccounted
  <2>2. CASE \E p \in ps : poolFd[p] = g
    <3>1. file'[g] = Nobody
      BY <2>2 DEF Close
    <3>2. PICK p \in ps : poolFd[p] = g
      BY <2>2
    <3>3. file[g] = p
      BY <2>1, <3>2
    <3>q. QED BY <1>1, <2>1, <3>1, <3>2, <3>3, NobodyAssumption
  <2>3. CASE ~ \E p \in ps : poolFd[p] = g
    BY <1>1, <2>1, <2>3 DEF Close
  <2>q. QED BY <2>2, <2>3
<1>5. PoolFds'
  BY <1>1 DEF PoolFds
<1>6. Tied'
  BY <1>1, <1>2 DEF Tied
<1>q. QED BY <1>3, <1>4, <1>5, <1>6

LEMMA DestroyPoolKeeps ==
    ASSUME ShmInv, NEW c \in Clients, NEW p \in Pools, DestroyPool(c, p)
    PROVE  ShmInv'
<1>1. CASE Crash  BY <1>1, CrashKeeps
<1>2. CASE ~Crash
  <2>1. /\ Live(p) /\ ~Dangling(p)
        /\ FreeBuffers(Entries(p)) /\ FreePools({p}) /\ Close({p})
        /\ Return(c, {poolId[p]} \cup {bufferId[b] : b \in Entries(p)})
        /\ UNCHANGED <<client, highest, others, links, fault>>
    BY <1>2 DEF DestroyPool
  <2>2. \A b \in Entries(p) : b \in Buffers /\ from[b] = p
    <3> SUFFICES ASSUME NEW b \in Entries(p)
                 PROVE  b \in Buffers /\ from[b] = p
      OBVIOUS
    <3>1. links[p] \in Seq(Buffers) /\ from[b] = p
      BY DEF ShmInv, TypeOK
    <3>q. QED BY <3>1 DEF Entries
  <2>3. \A b \in Entries(p) : bufferState[b] # "unused"
    BY <2>2, NobodyAssumption DEF ShmInv, Tied
  <2>4. \A b \in Buffers : bufferState[b] = "live" /\ from[b] \in {p} => b \in Entries(p)
    BY DEF ShmInv, Tied
  <2>5. /\ client' \in [Clients -> {"connected", "error", "gone"}]
        /\ highest' \in [Clients -> Ids \cup {0}]
        /\ others' \in [Clients -> SUBSET Ids]
    BY <2>1 DEF ShmInv, TypeOK
  <2>6. UNCHANGED <<links, fault>>
    BY <2>1
  <2>r. returned' \in [Clients -> SUBSET Ids]
    <3>1. PICK ids : ids = {poolId[p]} \cup {bufferId[b] : b \in Entries(p)}
      OBVIOUS
    <3>2. ASSUME NEW b \in Entries(p) PROVE bufferId[b] \in Ids
      <4>1. bufferState[b] = "live"
        BY <2>1, <2>2, <2>3, <3>2 DEF ShmInv, TypeOK, States, Dangling
      <4>q. QED BY <2>2, <3>2, <4>1 DEF ShmInv, Tied
    <3>3. ids \subseteq Ids
      BY <2>1, <3>1, <3>2 DEF ShmInv, PoolFds
    <3>4. returned' = [returned EXCEPT ![c] = @ \cup ids]
      BY <2>1, <3>1 DEF Return
    <3>q. QED BY <3>3, <3>4 DEF ShmInv, TypeOK
  <2>7. PICK ps \in SUBSET Pools : ps = {p}
    OBVIOUS
  <2>8. PICK bs : bs = Entries(p)
    OBVIOUS
  <2>q. QED
    BY <2>1, <2>2, <2>3, <2>4, <2>5, <2>6, <2>r, <2>7, <2>8, FreeingKeeps
<1>q. QED BY <1>1, <1>2

LEMMA DisconnectKeeps ==
    ASSUME ShmInv, NEW c \in Clients, Disconnect(c)
    PROVE  ShmInv'
<1>1. CASE Crash  BY <1>1, CrashKeeps
<1>2. CASE ~Crash
  <2>1. PICK ps : ps = {p \in Pools : Live(p) /\ owner[p] = c}
    OBVIOUS
  <2>2. PICK bs : bs = {b \in Buffers : bufferState[b] = "live" /\ OfClient(c, b)}
    OBVIOUS
  <2>3. /\ client' = [client EXCEPT ![c] = "gone"]
        /\ FreeBuffers(bs) /\ FreePools(ps) /\ Close(ps)
        /\ highest' = [highest EXCEPT ![c] = 0]
        /\ others' = [others EXCEPT ![c] = {}] /\ returned' = [returned EXCEPT ![c] = {}]
        /\ UNCHANGED <<links, fault>>
    BY <1>2, <2>1, <2>2 DEF Disconnect
  <2>4. /\ client' \in [Clients -> {"connected", "error", "gone"}]
        /\ highest' \in [Clients -> Ids \cup {0}]
        /\ others' \in [Clients -> SUBSET Ids] /\ returned' \in [Clients -> SUBSET Ids]
    BY <2>3 DEF ShmInv, TypeOK
  <2>5. \A b \in Buffers : bufferState[b] = "live" /\ from[b] \in ps => b \in bs
    BY <2>1, <2>2 DEF OfClient
  <2>6. ps \in SUBSET Pools /\ \A p \in ps : Live(p)
    BY <2>1
  <2>7. \A b \in bs : b \in Buffers /\ bufferState[b] # "unused"
    BY <2>2
  <2>q. QED BY <2>3, <2>4, <2>5, <2>6, <2>7, FreeingKeeps
<1>q. QED BY <1>1, <1>2

-----------------------------------------------------------------------------
LEMMA ShmInvariant == Spec => []ShmInv
<1>1. Init => ShmInv  BY InitEstablishes
<1>2. ShmInv /\ [Next]_vars => ShmInv'
  <2> SUFFICES ASSUME ShmInv, [Next]_vars PROVE ShmInv'  OBVIOUS
  <2>1. CASE UNCHANGED vars
    <3>1. \A q \in Pools : Entries(q)' = Entries(q) /\ (Live(q)' <=> Live(q))
      BY <2>1 DEF vars, pools, Entries, Live
    <3>2. TypeOK'
      BY <2>1, <3>1 DEF ShmInv, TypeOK, vars, clients, pools, buffers
    <3>q. QED
      BY <2>1, <3>1, <3>2 DEF ShmInv, FdsAccounted, PoolFds, Tied, vars, pools, buffers
  <2>2. ASSUME NEW c \in Clients, Request(c) \/ Disconnect(c) PROVE ShmInv'
    <3>1. CASE \E p \in Pools : CreatePool(c, p)
      BY <3>1, CreatePoolKeeps
    <3>2. CASE \E p \in Pools : DestroyPool(c, p)
      BY <3>2, DestroyPoolKeeps
    <3>3. CASE CreatePoolFails(c) \/ \E p \in Pools : CreateBufferFails(c, p)
      BY <3>3, NothingLeft, ErrorKeeps DEF CreateBufferFails
    <3>4. CASE \E p \in Pools, b \in Buffers : CreateBuffer(c, p, b)
      BY <3>4, CreateBufferKeeps
    <3>5. CASE \E b \in Buffers : DestroyBuffer(c, b)
      BY <3>5, DestroyBufferKeeps
    <3>6. CASE Disconnect(c)
      BY <3>6, DisconnectKeeps
    <3>7. CASE CreateOther(c) \/ DestroyOther(c)
      BY <3>7, OtherKeeps
    <3>q. QED BY <2>2, <3>1, <3>2, <3>3, <3>4, <3>5, <3>6, <3>7 DEF Request
  <2>q. QED BY <2>1, <2>2 DEF Next
<1>q. QED BY <1>1, <1>2, PTL DEF Spec

(* Every list holds buffers of its own pool, and the rest keeps its type.  *)
THEOREM ShmTypeInvariant == Spec => []TypeOK
<1>1. ShmInv => TypeOK  BY DEF ShmInv
<1>q. QED BY <1>1, ShmInvariant, PTL

(* shm_create_pool and shm_pool_destructor neither leak a descriptor nor   *)
(* close one that a pool still has.                                        *)
THEOREM NoDescriptorLeaks == Spec => []FdsAccounted
<1>1. ShmInv => FdsAccounted  BY DEF ShmInv
<1>q. QED BY <1>1, ShmInvariant, PTL

(* buffer->shm.fd is the open file of the pool as long as the buffer lives.*)
THEOREM BufferDescriptorsValid == Spec => []BufferFdValid
<1>1. ShmInv => BufferFdValid
  BY DEF ShmInv, BufferFdValid, FdsAccounted, PoolFds, Tied
<1>q. QED BY <1>1, ShmInvariant, PTL

-----------------------------------------------------------------------------
(* A link leads to harm if its buffer is freed, or is to be freed first as *)
(* its client leaves.                                                      *)
Harms(p, b) == bufferState[b] = "freed" \/ bufferId[b] < poolId[p]

(* Of a live pool: a new id is above its own, and an entry that leads to   *)
(* harm has an id that its client had back.                                *)
Sound(p) ==
    Live(p) => /\ owner[p] \in Clients
               /\ poolId[p] <= highest[owner[p]]
               /\ \A b \in Entries(p) : Harms(p, b) => bufferId[b] \in returned[owner[p]]
(* What is not made yet has no buffers. *)
Unmade == \A b \in Buffers, p \in Pools : from[b] = p => poolState[p] # "unused"
HarmInv == Unmade /\ HarmNeedsFreedId /\ \A p \in Pools : Sound(p)

LEMMA EntriesOfPool ==
    ASSUME TypeOK, NEW p \in Pools
    PROVE  /\ Entries(p) = Elems(links[p])
           /\ \A b \in Entries(p) : b \in Buffers /\ from[b] = p
<1>1. links[p] \in Seq(Buffers)
  BY DEF TypeOK
<1>2. \A k \in DOMAIN links[p] : links[p][k] \in Buffers
  BY <1>1
<1>3. \A b \in Entries(p) : from[b] = p
  BY DEF TypeOK
<1>4. Entries(p) = Elems(links[p])
  BY DEF Entries, Elems
<1>5. \A b \in Elems(links[p]) : b \in Buffers
  BY <1>2 DEF Elems
<1>q. QED BY <1>3, <1>4, <1>5

LEMMA IdTypes ==
    ASSUME TypeOK
    PROVE  /\ Ids \subseteq Nat \ {0}
           /\ \A c \in Clients : highest[c] \in Nat
           /\ \A p \in Pools : poolId[p] \in Nat
           /\ \A b \in Buffers : bufferId[b] \in Nat
<1>1. Ids \subseteq Nat \ {0} /\ Ids \cup {0} \subseteq Nat
  BY NumbersAssumption
<1>2. /\ highest \in [Clients -> Ids \cup {0}]
      /\ poolId \in [Pools -> Ids \cup {0}]
      /\ bufferId \in [Buffers -> Ids \cup {0}]
  BY DEF TypeOK
<1>q. QED BY <1>1, <1>2

(* A pool for which a step does nothing but let its client's ids grow.     *)
Undisturbed(p) ==
    /\ UNCHANGED <<owner[p], poolId[p], links[p]>>
    /\ highest[owner[p]] <= highest'[owner[p]]
    /\ returned[owner[p]] \subseteq returned'[owner[p]]
    /\ \A b \in Entries(p) : UNCHANGED <<bufferState[b], bufferId[b]>>
StaysSound(p) == Sound(p)'

LEMMA UndisturbedIsSound ==
    ASSUME TypeOK, highest' \in [Clients -> Ids \cup {0}], NEW p \in Pools, Sound(p),
           Live(p)' => Live(p) /\ Undisturbed(p)
    PROVE  StaysSound(p)
<1> SUFFICES ASSUME Live(p)' PROVE StaysSound(p)
  BY DEF StaysSound, Sound
<1>1. /\ Live(p) /\ owner'[p] = owner[p] /\ owner[p] \in Clients
      /\ poolId'[p] = poolId[p] /\ Entries(p)' = Entries(p)
      /\ highest[owner[p]] <= highest'[owner[p]]
      /\ returned[owner[p]] \subseteq returned'[owner[p]]
      /\ \A b \in Entries(p) : /\ bufferState'[b] = bufferState[b]
                               /\ bufferId'[b] = bufferId[b]
  BY DEF Undisturbed, Entries, Sound
<1>2. /\ poolId[p] \in Nat /\ highest[owner[p]] \in Nat /\ highest'[owner[p]] \in Nat
      /\ poolId[p] <= highest[owner[p]]
  <2>1. owner[p] \in Clients /\ poolId[p] <= highest[owner[p]]
    BY <1>1 DEF Sound
  <2>2. poolId[p] \in Nat /\ highest[owner[p]] \in Nat
    BY <2>1, IdTypes
  <2>3. Ids \cup {0} \subseteq Nat
    BY NumbersAssumption
  <2>4. highest'[owner[p]] \in Nat
    BY <2>1, <2>3
  <2>q. QED BY <2>1, <2>2, <2>4
<1>3. poolId'[p] <= highest'[owner'[p]]
  BY <1>1, <1>2
<1>4. \A b \in Entries(p)' : Harms(p, b)' => bufferId'[b] \in returned'[owner'[p]]
  BY <1>1 DEF Sound, Harms
<1>q. QED BY <1>1, <1>3, <1>4 DEF StaysSound, Sound

(* A client that takes an id: its ids grow, those of the others stay.      *)
LEMMA NoteGrows ==
    ASSUME TypeOK, NEW c \in Clients, NEW i \in Ids, Note(c, i)
    PROVE  /\ highest' \in [Clients -> Ids \cup {0}] /\ i <= highest'[c]
           /\ \A d \in Clients : highest[d] <= highest'[d]
<1>1. /\ highest \in [Clients -> Ids \cup {0}] /\ Ids \subseteq Nat
      /\ i \in Nat /\ \A d \in Clients : highest[d] \in Nat
  BY IdTypes DEF TypeOK
<1>2. \A d \in Clients : highest'[d] = IF d = c /\ i > highest[c] THEN i ELSE highest[d]
  BY <1>1 DEF Note
<1>3. highest' \in [Clients -> Ids \cup {0}]
  BY <1>1 DEF Note
<1>q. QED BY <1>1, <1>2, <1>3

LEMMA ReturnGrows ==
    ASSUME TypeOK, NEW c \in Clients, NEW ids, Return(c, ids)
    PROVE  /\ ids \subseteq returned'[c]
           /\ \A d \in Clients : returned[d] \subseteq returned'[d]
BY DEF TypeOK, Return

(* A new id is above those of all pools of the client, or it had it back.  *)
LEMMA NewId ==
    ASSUME TypeOK, NEW c \in Clients, NEW i \in FreeIds(c)
    PROVE  i \in Ids /\ (i = highest[c] + 1 \/ i \in returned[c])
BY DEF FreeIds

(* A crash comes of an entry that leads to harm. *)
LEMMA CrashHarms ==
    ASSUME ShmInv, HarmInv, NEW p \in Pools, Live(p),
           Dangling(p) \/ DestroyedFirst(p), Crash
    PROVE  HarmInv'
<1>1. /\ UNCHANGED <<client, highest, others, returned>>
      /\ UNCHANGED <<poolState, poolFd, poolId, owner>>
      /\ UNCHANGED <<bufferState, bufferFd, bufferId, from>> /\ UNCHANGED links
  BY DEF Crash, clients, pools, buffers
<1>2. PICK b \in Entries(p) : Harms(p, b)
  BY DEF Dangling, DestroyedFirst, Harms
<1>3. bufferId[b] \in returned[owner[p]]
  BY <1>2 DEF HarmInv, Sound
<1>4. HarmNeedsFreedId'
  <2>1. b \in Entries(p)' /\ Live(p)'
    BY <1>1, <1>2 DEF Entries, Live
  <2>2. /\ bufferId'[b] \in returned'[owner'[p]]
        /\ bufferState'[b] = "freed" \/ bufferId'[b] < poolId'[p]
    BY <1>1, <1>2, <1>3 DEF Harms
  <2>q. QED BY <2>1, <2>2 DEF HarmNeedsFreedId
<1>5. Unmade'
  BY <1>1 DEF HarmInv, Unmade
<1>6. ASSUME NEW q \in Pools PROVE Sound(q)'
  BY <1>1 DEF HarmInv, Sound, Live, Entries, Harms
<1>q. QED BY <1>4, <1>5, <1>6 DEF HarmInv

(* Without a crash it is enough to look at the pools. *)
LEMMA HarmlessStep ==
    ASSUME Alive, fault' = fault, Unmade', \A p \in Pools : StaysSound(p)
    PROVE  HarmInv'
BY DEF HarmInv, HarmNeedsFreedId, Alive, StaysSound

(* A step that changes no pool and no buffer, and takes no id away.        *)
LEMMA IdleHarmless ==
    ASSUME ShmInv, HarmInv, Alive, UNCHANGED <<pools, buffers, links, fault>>,
           highest' \in [Clients -> Ids \cup {0}],
           \A d \in Clients : highest[d] <= highest'[d] /\ returned[d] \subseteq returned'[d]
    PROVE  HarmInv'
<1>1. /\ UNCHANGED <<poolState, poolFd, poolId, owner>> /\ UNCHANGED <<links, fault>>
      /\ UNCHANGED <<bufferState, bufferFd, bufferId, from>>
  BY DEF pools, buffers
<1>2. Unmade'
  BY <1>1 DEF HarmInv, Unmade
<1>3. ASSUME NEW p \in Pools PROVE StaysSound(p)
  <2>1. Live(p)' => Live(p) /\ Undisturbed(p)
    BY <1>1 DEF HarmInv, Sound, Live, Undisturbed
  <2>q. QED BY <2>1, UndisturbedIsSound DEF HarmInv, ShmInv
<1>q. QED BY <1>1, <1>2, <1>3, HarmlessStep

LEMMA OtherHarmless ==
    ASSUME ShmInv, HarmInv, Alive, NEW c \in Clients, CreateOther(c) \/ DestroyOther(c)
    PROVE  HarmInv'
<1>0. TypeOK
  BY DEF ShmInv
<1>1. UNCHANGED <<pools, buffers, links, fault>>
  BY DEF CreateOther, DestroyOther
<1>2. /\ highest' \in [Clients -> Ids \cup {0}]
      /\ \A d \in Clients : highest[d] <= highest'[d] /\ returned[d] \subseteq returned'[d]
  <2>1. CASE CreateOther(c)
    <3>1. PICK i \in FreeIds(c) : Note(c, i)
      BY <2>1 DEF CreateOther
    <3>2. i \in Ids /\ returned' = returned
      BY <1>0, <2>1, NewId DEF CreateOther
    <3>q. QED BY <1>0, <3>1, <3>2, NoteGrows
  <2>2. CASE DestroyOther(c)
    <3>1. PICK i \in others[c] : Return(c, {i})
      BY <2>2 DEF DestroyOther
    <3>2. highest' = highest /\ highest \in [Clients -> Ids \cup {0}]
          /\ \A d \in Clients : highest[d] \in Nat
      BY <1>0, <2>2, IdTypes DEF DestroyOther, TypeOK
    <3>q. QED BY <1>0, <3>1, <3>2, ReturnGrows
  <2>q. QED BY <2>1, <2>2
<1>q. QED BY <1>1, <1>2, IdleHarmless

LEMMA ErrorHarmless ==
    ASSUME ShmInv, HarmInv, Alive,
           UNCHANGED <<highest, returned, pools, buffers, links, fault>>
    PROVE  HarmInv'
<1>1. /\ highest \in [Clients -> Ids \cup {0}] /\ \A d \in Clients : highest[d] \in Nat
  BY IdTypes DEF ShmInv, TypeOK
<1>q. QED BY <1>1, IdleHarmless

(* A new pool: no link yet, and an id its client does not go below.        *)
LEMMA CreatePoolHarmless ==
    ASSUME ShmInv, HarmInv, Alive, NEW c \in Clients, NEW p \in Pools, CreatePool(c, p)
    PROVE  HarmInv'
<1>0. TypeOK /\ Unmade /\ \A q \in Pools : Sound(q)
  BY DEF ShmInv, HarmInv
<1>1. PICK i \in FreeIds(c) : poolId' = [poolId EXCEPT ![p] = i] /\ Note(c, i)
  BY DEF CreatePool
<1>2. /\ poolState[p] = "unused"
      /\ poolState' = [poolState EXCEPT ![p] = "live"]
      /\ owner' = [owner EXCEPT ![p] = c]
      /\ UNCHANGED <<links, fault, returned>>
      /\ UNCHANGED <<bufferState, bufferFd, bufferId, from>>
  BY DEF CreatePool, buffers
<1>3. /\ poolState'[p] = "live" /\ owner'[p] = c /\ poolId'[p] = i
      /\ \A q \in Pools \ {p} : /\ poolState'[q] = poolState[q]
                                /\ owner'[q] = owner[q] /\ poolId'[q] = poolId[q]
  BY <1>0, <1>1, <1>2 DEF TypeOK
<1>4. /\ i \in Ids /\ highest' \in [Clients -> Ids \cup {0}] /\ i <= highest'[c]
      /\ \A d \in Clients : highest[d] <= highest'[d]
  <2>1. i \in Ids
    BY <1>0, NewId
  <2>q. QED BY <1>0, <1>1, <2>1, NoteGrows
<1>5. Unmade'
  BY <1>0, <1>2, <1>3 DEF Unmade
<1>6. ASSUME NEW q \in Pools, q # p PROVE StaysSound(q)
  <2>1. Live(q)' => Live(q) /\ Undisturbed(q)
    BY <1>0, <1>2, <1>3, <1>4, <1>6 DEF Live, Undisturbed, Sound
  <2>q. QED BY <1>0, <1>4, <2>1, UndisturbedIsSound
<1>7. StaysSound(p)
  <2>1. Entries(p)' = {}
    <3>1. Entries(p)' = Entries(p)
      BY <1>2 DEF Entries
    <3>2. Entries(p) = {}
      BY <1>0, <1>2, EntriesOfPool DEF Unmade
    <3>q. QED BY <3>1, <3>2
  <2>q. QED BY <1>3, <1>4, <2>1 DEF StaysSound, Sound
<1>8. \A q \in Pools : StaysSound(q)
  BY <1>6, <1>7
<1>q. QED BY <1>2, <1>5, <1>8, HarmlessStep

(* A new buffer has a higher id than its pool, or one that its client had  *)
(* back.                                                                   *)
LEMMA CreateBufferHarmless ==
    ASSUME ShmInv, HarmInv, Alive, NEW c \in Clients, NEW p \in Pools,
           NEW b \in Buffers, CreateBuffer(c, p, b)
    PROVE  HarmInv'
<1>0. /\ TypeOK /\ Unmade /\ Tied /\ \A q \in Pools : Sound(q)
      /\ Live(p) /\ owner[p] = c /\ bufferState[b] = "unused"
  BY DEF ShmInv, HarmInv, CreateBuffer
<1>1. CASE links[p] # <<>> /\ bufferState[Head(links[p])] = "freed" /\ Crash
  <2>1. Head(links[p]) = links[p][1] /\ 1 \in DOMAIN links[p]
    <3>1. links[p] \in Seq(Buffers)
      BY <1>0 DEF TypeOK
    <3>q. QED BY <3>1, <1>1
  <2>2. Dangling(p)
    BY <2>1, <1>1 DEF Dangling, Entries
  <2>q. QED BY <2>2, <1>0, <1>1, CrashHarms
<1>2. ASSUME NEW i \in FreeIds(c), bufferId' = [bufferId EXCEPT ![b] = i], Note(c, i),
             links' = [links EXCEPT ![p] = <<b>> \o links[p]],
             bufferState' = [bufferState EXCEPT ![b] = "live"],
             from' = [from EXCEPT ![b] = p],
             UNCHANGED <<client, others, returned, pools, file, fault>>
      PROVE  HarmInv'
  <2>1. /\ bufferState'[b] = "live" /\ from'[b] = p /\ bufferId'[b] = i
        /\ \A e \in Buffers \ {b} : /\ bufferState'[e] = bufferState[e]
                                    /\ from'[e] = from[e] /\ bufferId'[e] = bufferId[e]
    BY <1>0, <1>2 DEF TypeOK
  <2>2. /\ UNCHANGED <<poolState, poolFd, poolId, owner>> /\ UNCHANGED <<returned, fault>>
        /\ \A q \in Pools \ {p} : links'[q] = links[q]
        /\ Elems(links'[p]) = {b} \cup Elems(links[p])
    <3>1. UNCHANGED <<poolState, poolFd, poolId, owner>> /\ UNCHANGED <<returned, fault>>
      BY <1>2 DEF pools
    <3>2. /\ \A q \in Pools \ {p} : links'[q] = links[q]
          /\ links'[p] = <<b>> \o links[p] /\ links[p] \in Seq(Buffers)
      BY <1>0, <1>2 DEF TypeOK
    <3>3. PICK t, s : t = links'[p] /\ s = links[p]
      OBVIOUS
    <3>4. s \in Seq(Buffers) /\ t = <<b>> \o s
      BY <3>2, <3>3
    <3>5. Elems(t) = {b} \cup Elems(s)
      BY <3>4, HeadInsertion
    <3>q. QED BY <3>1, <3>2, <3>3, <3>5
  <2>3. /\ i \in Ids /\ highest' \in [Clients -> Ids \cup {0}] /\ i <= highest'[c]
        /\ \A d \in Clients : highest[d] <= highest'[d]
    <3>1. i \in Ids
      BY <1>0, NewId
    <3>q. QED BY <1>0, <1>2, <3>1, NoteGrows
  <2>4. Unmade'
    BY <1>0, <2>1, <2>2 DEF Unmade, Live
  <2>5. \A q \in Pools : \A e \in Entries(q) : e \in Buffers \ {b}
    BY <1>0, EntriesOfPool, NobodyAssumption DEF Tied
  <2>6. ASSUME NEW q \in Pools, q # p PROVE StaysSound(q)
    <3>1. Live(q)' => Live(q) /\ Undisturbed(q)
      BY <1>0, <2>1, <2>2, <2>3, <2>5, <2>6 DEF Live, Undisturbed, Sound
    <3>q. QED BY <1>0, <2>3, <3>1, UndisturbedIsSound
  <2>7. StaysSound(p)
    <3>1. /\ owner'[p] = c /\ poolId'[p] = poolId[p] /\ returned'[c] = returned[c]
          /\ Entries(p)' = {b} \cup Entries(p)
      BY <1>0, <2>2 DEF Entries, Elems
    <3>2. /\ poolId[p] \in Nat /\ highest[c] \in Nat /\ highest'[c] \in Nat
          /\ poolId[p] <= highest[c] /\ highest[c] <= highest'[c]
      BY <1>0, <2>3, IdTypes, NumbersAssumption DEF Sound
    <3>3. poolId'[p] <= highest'[owner'[p]]
      BY <3>1, <3>2
    <3>4. ASSUME NEW e \in Entries(p)', Harms(p, e)' PROVE bufferId'[e] \in returned'[c]
      <4>1. CASE e = b
        <5>1. i < poolId[p]
          BY <2>1, <3>1, <3>4, <4>1 DEF Harms
        <5>2. i # highest[c] + 1
          BY <3>2, <5>1
        <5>3. i \in returned[c]
          BY <1>0, <5>2, NewId
        <5>q. QED BY <2>1, <3>1, <4>1, <5>3
      <4>2. CASE e # b
        <5>1. e \in Entries(p)
          BY <3>1, <3>4, <4>2
        <5>2. bufferState'[e] = bufferState[e] /\ bufferId'[e] = bufferId[e]
          BY <2>1, <2>5, <5>1
        <5>q. QED BY <1>0, <3>1, <3>4, <5>1, <5>2 DEF Harms, Sound
      <4>q. QED BY <4>1, <4>2
    <3>q. QED BY <3>1, <3>3, <3>4 DEF StaysSound, Sound
  <2>8. \A q \in Pools : StaysSound(q)
    BY <2>6, <2>7
  <2>q. QED BY <2>2, <2>4, <2>8, HarmlessStep
<1>q. QED BY <1>1, <1>2 DEF CreateBuffer

(* A buffer destroyed by request: its link stays, and its client has its   *)
(* id back.                                                                *)
LEMMA DestroyBufferHarmless ==
    ASSUME ShmInv, HarmInv, Alive, NEW c \in Clients, NEW b \in Buffers,
           DestroyBuffer(c, b)
    PROVE  HarmInv'
<1>0. TypeOK /\ Unmade /\ \A p \in Pools : Sound(p)
  BY DEF ShmInv, HarmInv
<1>1. PICK q \in Pools : from[b] = q /\ owner[q] = c
  BY DEF DestroyBuffer, OfClient
<1>2. /\ Return(c, {bufferId[b]})
      /\ UNCHANGED <<poolState, poolId, owner, bufferId, from, highest, links, fault>>
      /\ \A e \in Buffers \ {b} : bufferState'[e] = bufferState[e]
  BY <1>0 DEF DestroyBuffer, pools, TypeOK
<1>3. /\ bufferId[b] \in returned'[c]
      /\ \A d \in Clients : returned[d] \subseteq returned'[d]
  <2>1. PICK ids : ids = {bufferId[b]}
    OBVIOUS
  <2>2. Return(c, ids)
    BY <1>2, <2>1
  <2>q. QED BY <1>0, <2>1, <2>2, ReturnGrows
<1>4. Unmade'
  BY <1>0, <1>2 DEF Unmade
<1>5. ASSUME NEW p \in Pools PROVE StaysSound(p)
  <2> SUFFICES ASSUME Live(p)' PROVE StaysSound(p)
    BY DEF StaysSound, Sound
  <2>1. Live(p) /\ Entries(p)' = Entries(p) /\ owner[p] \in Clients
    BY <1>0, <1>2 DEF Live, Entries, Sound
  <2>2. ASSUME NEW e \in Entries(p), Harms(p, e)'
        PROVE  bufferId[e] \in returned'[owner[p]]
    <3>1. CASE e = b
      <4>1. p = q
        BY <1>0, <1>1, <2>2, <3>1, EntriesOfPool
      <4>q. QED BY <1>1, <1>3, <3>1, <4>1
    <3>2. CASE e # b
      <4>1. e \in Buffers \ {b}
        BY <1>0, <2>2, <3>2, EntriesOfPool
      <4>2. Harms(p, e)
        BY <1>2, <2>2, <4>1 DEF Harms
      <4>q. QED BY <1>0, <1>3, <2>1, <2>2, <4>2 DEF Sound
    <3>q. QED BY <3>1, <3>2
  <2>q. QED BY <1>0, <1>2, <2>1, <2>2 DEF StaysSound, Sound
<1>q. QED BY <1>2, <1>4, <1>5, HarmlessStep

(* Pools that go with buffers of theirs, and no others.                    *)
LEMMA FreeingHarmless ==
    ASSUME ShmInv, HarmInv, Alive, NEW c \in Clients,
           NEW ps \in SUBSET Pools, NEW bs \in SUBSET Buffers,
           \A b \in bs : from[b] \in ps,
           \A p \in Pools : poolState'[p] = IF p \in ps THEN "freed" ELSE poolState[p],
           \A b \in Buffers : bufferState'[b] = IF b \in bs THEN "freed"
                                                ELSE bufferState[b],
           highest' \in [Clients -> Ids \cup {0}],
           \A p \in Pools \ ps : Live(p) =>
               /\ highest[owner[p]] <= highest'[owner[p]]
               /\ returned[owner[p]] \subseteq returned'[owner[p]],
           UNCHANGED <<poolId, owner, bufferId, from, links, fault>>
    PROVE  HarmInv'
<1>0. TypeOK /\ Unmade /\ \A p \in Pools : Sound(p)
  BY DEF ShmInv, HarmInv
<1>1. Unmade'
  BY <1>0 DEF Unmade
<1>2. ASSUME NEW p \in Pools PROVE StaysSound(p)
  <2>1. ASSUME Live(p)' PROVE Live(p) /\ Undisturbed(p)
    <3>1. p \notin ps /\ Live(p)
      BY <2>1 DEF Live
    <3>2. \A b \in Entries(p) : b \in Buffers /\ b \notin bs
      BY <1>0, <3>1, EntriesOfPool
    <3>q. QED BY <3>1, <3>2 DEF Undisturbed
  <2>q. QED BY <1>0, <2>1, UndisturbedIsSound
<1>q. QED BY <1>1, <1>2, HarmlessStep

LEMMA DestroyPoolHarmless ==
    ASSUME ShmInv, HarmInv, Alive, NEW c \in Clients, NEW p \in Pools,
           DestroyPool(c, p)
    PROVE  HarmInv'
<1>0. TypeOK /\ \A q \in Pools : Sound(q)
  BY DEF ShmInv, HarmInv
<1>1. CASE Dangling(p) /\ Crash
  BY <1>1, CrashHarms DEF DestroyPool
<1>2. CASE /\ FreeBuffers(Entries(p)) /\ FreePools({p})
           /\ Return(c, {poolId[p]} \cup {bufferId[b] : b \in Entries(p)})
           /\ UNCHANGED <<client, highest, others, links, fault>>
  <2>1. PICK ps, bs : ps = {p} /\ bs = Entries(p)
    OBVIOUS
  <2>2. bs \in SUBSET Buffers /\ ps \in SUBSET Pools /\ \A b \in bs : from[b] \in ps
    BY <1>0, <2>1, EntriesOfPool
  <2>3. /\ \A q \in Pools : poolState'[q] = IF q \in ps THEN "freed" ELSE poolState[q]
        /\ \A b \in Buffers : bufferState'[b] = IF b \in bs THEN "freed"
                                                ELSE bufferState[b]
        /\ UNCHANGED <<poolId, owner, bufferId, from, links, fault>>
    BY <1>2, <2>1 DEF FreeBuffers, FreePools
  <2>4. /\ highest' \in [Clients -> Ids \cup {0}] /\ UNCHANGED highest
        /\ \A d \in Clients : highest[d] \in Nat
    BY <1>0, <1>2, IdTypes DEF TypeOK
  <2>5. \A d \in Clients : returned[d] \subseteq returned'[d]
    <3>1. PICK ids : ids = {poolId[p]} \cup {bufferId[b] : b \in Entries(p)}
      OBVIOUS
    <3>2. Return(c, ids)
      BY <1>2, <3>1
    <3>q. QED BY <1>0, <3>2, ReturnGrows
  <2>6. ASSUME NEW q \in Pools \ ps, Live(q)
        PROVE  /\ highest[owner[q]] <= highest'[owner[q]]
               /\ returned[owner[q]] \subseteq returned'[owner[q]]
    <3>1. owner[q] \in Clients
      BY <1>0, <2>6 DEF Sound
    <3>q. QED BY <2>4, <2>5, <3>1
  <2>q. QED BY <2>2, <2>3, <2>4, <2>6, FreeingHarmless
<1>q. QED BY <1>1, <1>2 DEF DestroyPool

(* The client that leaves takes its ids along; no other client has pools   *)
(* that are freed.                                                         *)
LEMMA DisconnectHarmless ==
    ASSUME ShmInv, HarmInv, Alive, NEW c \in Clients, Disconnect(c)
    PROVE  HarmInv'
<1>0. TypeOK /\ Tied /\ \A q \in Pools : Sound(q)
  BY DEF ShmInv, HarmInv
<1>1. PICK ps : ps = {p \in Pools : Live(p) /\ owner[p] = c}
  OBVIOUS
<1>2. PICK bs : bs = {b \in Buffers : bufferState[b] = "live" /\ OfClient(c, b)}
  OBVIOUS
<1>3. \/ (\E p \in ps : Dangling(p) \/ DestroyedFirst(p)) /\ Crash
      \/ /\ FreeBuffers(bs) /\ FreePools(ps) /\ UNCHANGED <<links, fault>>
         /\ highest' = [highest EXCEPT ![c] = 0]
         /\ returned' = [returned EXCEPT ![c] = {}]
  BY <1>1, <1>2 DEF Disconnect
<1>4. CASE (\E p \in ps : Dangling(p) \/ DestroyedFirst(p)) /\ Crash
  BY <1>1, <1>4, CrashHarms
<1>5. CASE /\ FreeBuffers(bs) /\ FreePools(ps) /\ UNCHANGED <<links, fault>>
           /\ highest' = [highest EXCEPT ![c] = 0]
           /\ returned' = [returned EXCEPT ![c] = {}]
  <2>1. /\ ps \in SUBSET Pools /\ bs \in SUBSET Buffers
        /\ \A b \in bs : from[b] \in ps
    BY <1>0, <1>1, <1>2 DEF OfClient, Tied
  <2>2. /\ \A p \in Pools : poolState'[p] = IF p \in ps THEN "freed" ELSE poolState[p]
        /\ \A b \in Buffers : bufferState'[b] = IF b \in bs THEN "freed"
                                                ELSE bufferState[b]
        /\ UNCHANGED <<poolId, owner, bufferId, from, links, fault>>
    BY <1>5 DEF FreeBuffers, FreePools
  <2>3. highest' \in [Clients -> Ids \cup {0}] /\ \A d \in Clients : highest[d] \in Nat
    BY <1>0, <1>5, IdTypes DEF TypeOK
  <2>4. ASSUME NEW q \in Pools \ ps, Live(q)
        PROVE  /\ highest[owner[q]] <= highest'[owner[q]]
               /\ returned[owner[q]] \subseteq returned'[owner[q]]
    <3>1. owner[q] \in Clients /\ owner[q] # c
      BY <1>0, <1>1, <2>4 DEF Sound
    <3>2. highest'[owner[q]] = highest[owner[q]] /\ returned'[owner[q]] = returned[owner[q]]
      BY <1>0, <1>5, <3>1 DEF TypeOK
    <3>q. QED BY <2>3, <3>1, <3>2
  <2>q. QED BY <2>1, <2>2, <2>3, <2>4, FreeingHarmless
<1>q. QED BY <1>3, <1>4, <1>5

(* The compositor follows a link into a freed buffer only where the client *)
(* has had back the id of that buffer: it was destroyed before its pool,   *)
(* or was given the id of an object long gone, below that of its pool.  A  *)
(* client that has no id back does no harm by leaving: its buffers have    *)
(* higher ids than their pools, so libwayland destroys the pools first     *)
(* (shm.c:139).                                                            *)
THEOREM HarmComesOfFreedIds == Spec => []HarmNeedsFreedId
<1>1. Init => HarmInv
  BY NobodyAssumption DEF Init, HarmInv, Unmade, HarmNeedsFreedId, Alive, Sound, Live
<1>2. ShmInv /\ HarmInv /\ [Next]_vars => HarmInv'
  <2> SUFFICES ASSUME ShmInv, HarmInv, [Next]_vars PROVE HarmInv'
    OBVIOUS
  <2>1. CASE UNCHANGED vars
    BY <2>1 DEF vars, clients, pools, buffers, HarmInv, Unmade, HarmNeedsFreedId, Alive,
                Live, Sound, Entries, Harms
  <2>2. ASSUME Alive, NEW c \in Clients, Request(c) \/ Disconnect(c) PROVE HarmInv'
    <3>1. CASE CreatePoolFails(c) \/ \E p \in Pools : CreateBufferFails(c, p)
      BY <2>2, <3>1, NothingLeft, ErrorHarmless DEF CreateBufferFails
    <3>q. QED BY <2>2, <3>1, CreatePoolHarmless, CreateBufferHarmless, OtherHarmless,
                 DestroyBufferHarmless, DestroyPoolHarmless, DisconnectHarmless DEF Request
  <2>q. QED BY <2>1, <2>2 DEF Next
<1>q. QED BY <1>1, <1>2, ShmInvariant, PTL DEF Spec, HarmInv
=============================================================================
