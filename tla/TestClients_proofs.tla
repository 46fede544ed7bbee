------------------------- MODULE TestClients_proofs -------------------------
(***************************************************************************)
(* Surfaces, their roles and the list of the compositor agree whatever     *)
(* well-behaved clients do, and whatever the test clients of TestClients   *)
(* do, for every set of clients, structs and addresses.                    *)
(***************************************************************************)
EXTENDS TestClients, SequenceTheorems, TLAPS

-----------------------------------------------------------------------------
(* The inductive invariant.  A surface a client holds has a live struct    *)
(* that points back at it, which no struct with its address stands before  *)
(* in the list; and the struct of a role names the xdg_surface it has.     *)
SurfaceData ==
    \A c \in Clients, a \in Addrs :
        Held(c, "surface", a) =>
            LET s == res[a].data
            IN  s \in Structs /\ state[s] = "live" /\ resource[s] = a
NoneBefore ==
    \A c \in Clients, a \in Addrs : \A j, k \in DOMAIN list :
        Held(c, "surface", a) /\ list[k] = res[a].data /\ j < k
            => resource[list[j]] # a
RoleKnown ==
    \A c \in Clients, x \in Addrs :
        Held(c, "xdg_surface", x) =>
            res[x].data \in Structs /\ res[x].of \in Addrs /\ xdg[res[x].data] = x

SurfacesInv == /\ TypeOK /\ ListLive /\ SurfaceData /\ NoneBefore
               /\ RoleData /\ RoleKnown /\ fault # "stray configure"

-----------------------------------------------------------------------------
(* The list without its k-th element, as surface_destroy leaves it. *)
Drop(s, k) == SubSeq(s, 1, k - 1) \o SubSeq(s, k + 1, Len(s))

LEMMA Dropped ==
    ASSUME NEW S, NEW s \in Seq(S), NEW k \in 1 .. Len(s)
    PROVE  /\ Drop(s, k) \in Seq(S)
           /\ Len(Drop(s, k)) = Len(s) - 1
           /\ \A i \in 1 .. Len(s) - 1 :
                 Drop(s, k)[i] = IF i < k THEN s[i] ELSE s[i + 1]
  <1>0. PICK n \in Nat : n = Len(s) /\ k \in 1 .. n
    BY LenProperties
  <1>s. \A i \in 1 .. n : s[i] \in S
    BY <1>0, ElementOfSeq
  <1>1. PICK a : a = SubSeq(s, 1, k - 1)
    OBVIOUS
  <1>2. PICK b : b = SubSeq(s, k + 1, n)
    OBVIOUS
  <1>3. /\ a \in Seq(S) /\ Len(a) = k - 1
        /\ \A i \in 1 .. k - 1 : a[i] = s[i]
    <2>1. /\ \A i \in 1 .. k - 1 : s[i] \in S
          /\ k - 1 \in Int
      BY <1>0, <1>s
    <2>2. /\ a \in Seq(S)
          /\ Len(a) = IF 1 <= k - 1 THEN k - 1 - 1 + 1 ELSE 0
          /\ \A i \in 1 .. k - 1 - 1 + 1 : a[i] = s[1 + i - 1]
      BY <2>1, <1>1, SubSeqProperties
    <2> QED BY <2>2, <1>0, SMT
  <1>4. /\ b \in Seq(S) /\ Len(b) = n - k
        /\ \A i \in 1 .. n - k : b[i] = s[k + i]
    <2>1. /\ \A i \in k + 1 .. n : s[i] \in S
          /\ k + 1 \in Int /\ n \in Int
      BY <1>0, <1>s
    <2>2. /\ b \in Seq(S)
          /\ Len(b) = IF k + 1 <= n THEN n - (k + 1) + 1 ELSE 0
          /\ \A i \in 1 .. n - (k + 1) + 1 : b[i] = s[k + 1 + i - 1]
      BY <2>1, <1>2, SubSeqProperties
    <2>3. \A i \in 1 .. n - k : k + 1 + i - 1 = k + i /\ i \in 1 .. n - (k + 1) + 1
      BY <1>0
    <2> QED BY <2>2, <2>3, <1>0
  <1>5. PICK t : t = Drop(s, k)
    OBVIOUS
  <1>r. t = a \o b
    BY <1>0, <1>1, <1>2, <1>5 DEF Drop
  <1>6. /\ t \in Seq(S) /\ Len(t) = Len(a) + Len(b)
        /\ \A i \in 1 .. Len(a) + Len(b) :
              t[i] = IF i <= Len(a) THEN a[i] ELSE b[i - Len(a)]
    BY <1>3, <1>4, <1>r, ConcatProperties
  <1>7. ASSUME NEW i \in 1 .. n - 1 PROVE t[i] = IF i < k THEN s[i] ELSE s[i + 1]
    <2>1. i \in 1 .. Len(a) + Len(b) /\ Len(a) = k - 1
      BY <1>0, <1>3, <1>4
    <2>2. CASE i < k
      BY <2>1, <2>2, <1>0, <1>3, <1>6
    <2>3. CASE ~ (i < k)
      <3>1. t[i] = b[i - (k - 1)]
        <4>1. ~ (i <= Len(a))
          BY <2>1, <2>3, <1>0
        <4> QED BY <2>1, <4>1, <1>6
      <3>2. i - (k - 1) \in 1 .. n - k /\ k + (i - (k - 1)) = i + 1
        BY <2>3, <1>0
      <3> QED BY <3>1, <3>2, <2>3, <1>4
    <2> QED BY <2>2, <2>3
  <1>8. Len(t) = n - 1
    BY <1>0, <1>3, <1>4, <1>6
  <1> QED BY <1>0, <1>5, <1>6, <1>7, <1>8


-----------------------------------------------------------------------------
(* What a new resource, of compositor_create_surface, get_xdg_surface,     *)
(* get_toplevel, create_region or create_positioner, changes of what       *)
(* clients hold.                                                           *)
Puts(a, k, c, s, o) == res' = [res EXCEPT ![a] = Resource(k, c, s, o)]
Put(a, k, c, s, o) ==
    /\ res' \in [Addrs -> OrNone(Resources)]
    /\ res'[a].data = s /\ res'[a].of = o /\ Held(c, k, a)'
    /\ \A b \in Addrs : b # a => res'[b] = res[b]
    /\ \A d, q, b : b \in Addrs /\ Held(d, q, b) => b # a /\ Held(d, q, b)'
    /\ \A d, q, b : b \in Addrs /\ Held(d, q, b)'
                     => \/ b = a /\ d = c /\ q = k
                        \/ b # a /\ Held(d, q, b)
LEMMA NewResource ==
    ASSUME TypeOK, NEW c \in Clients, NEW k \in Kinds, NEW a \in Addrs, Free(a),
           NEW s \in OrNone(Structs), NEW o \in OrNone(Addrs),
           Puts(a, k, c, s, o)
    PROVE  Put(a, k, c, s, o)
  <1>1. Resource(k, c, s, o) \in Resources /\ Resource(k, c, s, o) # None
    <2>1. Resource(k, c, s, o) \in Resources
      BY DEF Resource, Resources
    <2> QED BY <2>1, NoneAssumption
  <1>2. /\ res'[a] = Resource(k, c, s, o)
        /\ \A b \in Addrs : b # a => res'[b] = res[b]
        /\ res' \in [Addrs -> OrNone(Resources)]
    BY <1>1 DEF Puts, TypeOK, OrNone
  <1>3. /\ res'[a].kind = k /\ res'[a].client = c /\ res'[a].data = s
        /\ res'[a].of = o /\ res'[a].held = TRUE /\ res'[a] # None
    BY <1>1, <1>2 DEF Resource
  <1>4. \A d, q, b : b \in Addrs /\ Held(d, q, b) => b # a /\ Held(d, q, b)'
    BY <1>2 DEF Held, Free
  <1>5. \A d, q, b : b \in Addrs /\ Held(d, q, b)'
                       => \/ b = a /\ d = c /\ q = k
                          \/ b # a /\ Held(d, q, b)
    BY <1>2, <1>3 DEF Held, Free
  <1>6. Held(c, k, a)'
    BY <1>3 DEF Held, Free
  <1> QED BY <1>2, <1>3, <1>4, <1>5, <1>6 DEF Put

(* A surface is at the head of the list it was put in front of. *)
LEMMA Prepended ==
    ASSUME NEW S, NEW l \in Seq(S), NEW s \in S
    PROVE  /\ <<s>> \o l \in Seq(S)
           /\ DOMAIN (<<s>> \o l) = 1 .. Len(l) + 1
           /\ (<<s>> \o l)[1] = s
           /\ \A k \in 2 .. Len(l) + 1 : (<<s>> \o l)[k] = l[k - 1] /\ k - 1 \in DOMAIN l
           /\ \A k \in DOMAIN l : (<<s>> \o l)[k + 1] = l[k]
                                 /\ k + 1 \in 2 .. Len(l) + 1
  <1>1. <<s>> \in Seq(S) /\ Len(<<s>>) = 1 /\ Len(l) \in Nat
        /\ DOMAIN l = 1 .. Len(l) /\ <<s>>[1] = s
    BY LenProperties
  <1>2. PICK t : t = <<s>> \o l
    OBVIOUS
  <1>3. /\ t \in Seq(S) /\ Len(t) = 1 + Len(l)
        /\ \A i \in 1 .. 1 + Len(l) : t[i] = IF i <= 1 THEN s ELSE l[i - 1]
    BY <1>1, <1>2, ConcatProperties
  <1>4. DOMAIN t = 1 .. Len(l) + 1
    BY <1>1, <1>3, LenProperties
  <1> QED BY <1>1, <1>2, <1>3, <1>4

LEMMA ListFacts ==
    ASSUME TypeOK
    PROVE  /\ list \in Seq(Structs) /\ Len(list) \in Nat
           /\ DOMAIN list = 1 .. Len(list)
           /\ \A k \in DOMAIN list : list[k] \in Structs
  BY LenProperties, ElementOfSeq DEF TypeOK

(* What is held and what a resource is are one thing for one address. *)
LEMMA HeldOne ==
    ASSUME NEW c, NEW d, NEW k, NEW q, NEW a, Held(c, k, a), Held(d, q, a)
    PROVE  c = d /\ k = q
  BY DEF Held

(* A role that is left with its surface, and a surface that is left with   *)
(* its struct, by a step.                                                  *)
RoleStays(d, x) ==
    /\ Held(d, "xdg_surface", x) /\ res'[x] = res[x]
    /\ \A o \in Addrs : o = res[x].of =>
          Held(d, "surface", o)' /\ res'[o].data = res[o].data
    /\ LET s == res[x].data
       IN  state'[s] = state[s] /\ resource'[s] = resource[s] /\ xdg'[s] = xdg[s]
RoleStands(d, x) ==
    /\ state[res[x].data] = "live" /\ resource[res[x].data] = res[x].of
    /\ Held(d, "surface", res[x].of) /\ res[res[x].of].data = res[x].data
    /\ res[x].data \in Structs /\ res[x].of \in Addrs /\ xdg[res[x].data] = x
LEMMA RoleKept ==
    ASSUME RoleData, RoleKnown, NEW d \in Clients, NEW x \in Addrs, RoleStays(d, x)
    PROVE  RoleStands(d, x)'
  <1> SUFFICES /\ state'[res'[x].data] = "live"
               /\ resource'[res'[x].data] = res'[x].of
               /\ Held(d, "surface", res[x].of)'
               /\ res'[x].of = res[x].of
               /\ res'[res'[x].of].data = res'[x].data
               /\ res'[x].data \in Structs /\ res'[x].of \in Addrs
               /\ xdg'[res'[x].data] = x
    BY DEF RoleStands, Held
  <1>2. Held(d, "xdg_surface", x) /\ res'[x] = res[x]
    BY DEF RoleStays
  <1>3. PICK o \in Addrs : o = res[x].of
    BY <1>2 DEF RoleKnown
  <1>4. /\ state[res[x].data] = "live" /\ resource[res[x].data] = o
        /\ res[o].data = res[x].data
        /\ res[x].data \in Structs /\ xdg[res[x].data] = x
    BY <1>2, <1>3 DEF RoleData, RoleKnown
  <1>5. Held(d, "surface", o)' /\ res'[o].data = res[o].data
    BY <1>3 DEF RoleStays
  <1>6. Held(d, "surface", res[x].of)'
    BY <1>2, <1>3, <1>5 DEF Held
  <1> QED BY <1>2, <1>3, <1>4, <1>5, <1>6 DEF RoleStays
LEMMA RolesKept ==
    ASSUME RoleData, RoleKnown,
           ASSUME NEW d \in Clients, NEW x \in Addrs, Held(d, "xdg_surface", x)'
           PROVE  RoleStays(d, x) \/ RoleStands(d, x)'
    PROVE  RoleData' /\ RoleKnown'
  <1>1. ASSUME NEW d \in Clients, NEW x \in Addrs, Held(d, "xdg_surface", x)'
        PROVE  RoleStands(d, x)'
    BY <1>1, RoleKept
  <1> QED BY <1>1 DEF RoleData, RoleKnown, RoleStands

SurfaceStays(d, b) == Held(d, "surface", b) /\ res'[b].data = res[b].data
LEMMA SurfacesKept ==
    ASSUME ListLive, SurfaceData, NoneBefore, UNCHANGED <<state, resource, list>>,
           ASSUME NEW d \in Clients, NEW b \in Addrs, Held(d, "surface", b)'
           PROVE  SurfaceStays(d, b)
    PROVE  ListLive' /\ SurfaceData' /\ NoneBefore'
  <1>1. ListLive'
    BY DEF ListLive
  <1>2. SurfaceData'
    BY DEF SurfaceData, SurfaceStays
  <1>3. NoneBefore'
    BY DEF NoneBefore, SurfaceStays
  <1> QED BY <1>1, <1>2, <1>3

LEMMA CreateSurfaceKeeps ==
    ASSUME SurfacesInv, NEW c \in Clients, NEW s \in Structs, CreateSurface(c, s)
    PROVE  SurfacesInv'
  <1>0. /\ TypeOK /\ ListLive /\ SurfaceData /\ NoneBefore
        /\ RoleData /\ RoleKnown /\ fault # "stray configure"
    BY DEF SurfacesInv
  <1>1. PICK a \in Addrs :
          /\ Free(a)
          /\ res' = [res EXCEPT ![a] = Resource("surface", c, s, None)]
          /\ resource' = [resource EXCEPT ![s] = a]
    BY DEF CreateSurface
  <1>2. /\ res' \in [Addrs -> OrNone(Resources)] /\ res'[a].data = s
        /\ \A b \in Addrs : b # a => res'[b] = res[b]
        /\ \A d, q, b : b \in Addrs /\ Held(d, q, b) => b # a /\ Held(d, q, b)'
        /\ \A d, q, b : b \in Addrs /\ Held(d, q, b)'
                         => \/ b = a /\ d = c /\ q = "surface"
                            \/ b # a /\ Held(d, q, b)
    <2>1. "surface" \in Kinds /\ s \in OrNone(Structs) /\ None \in OrNone(Addrs)
      BY DEF Kinds, OrNone
    <2>2. Puts(a, "surface", c, s, None)
      BY <1>1 DEF Puts
    <2>3. Put(a, "surface", c, s, None)
      BY <1>0, <1>1, <2>1, <2>2, NewResource
    <2> QED BY <2>3 DEF Put
  <1>n. PICK n \in Nat : n = Len(list) /\ DOMAIN list = 1 .. n
    BY <1>0, ListFacts
  <1>3. /\ list' \in Seq(Structs) /\ DOMAIN list' = 1 .. n + 1 /\ list'[1] = s
        /\ \A k \in 2 .. n + 1 : list'[k] = list[k - 1] /\ k - 1 \in 1 .. n
        /\ \A k \in 1 .. n : list'[k + 1] = list[k] /\ k + 1 \in 2 .. n + 1
    <2>1. list' = <<s>> \o list /\ list \in Seq(Structs)
      BY <1>0, ListFacts DEF CreateSurface
    <2> QED BY <2>1, <1>n, Prepended
  <1>4. /\ state[s] = "unused" /\ state'[s] = "live" /\ resource'[s] = a
        /\ \A x \in Structs : x # s => state'[x] = state[x] /\ resource'[x] = resource[x]
        /\ \A k \in 1 .. n : list[k] \in Structs /\ list[k] # s
    <2>1. /\ state[s] = "unused" /\ state' = [state EXCEPT ![s] = "live"]
      BY DEF CreateSurface
    <2>2. \A k \in 1 .. n : list[k] \in Structs /\ state[list[k]] = "live"
      BY <1>0, <1>n, ListFacts DEF ListLive
    <2> QED BY <1>0, <1>1, <2>1, <2>2 DEF TypeOK
  <1>5. TypeOK'
    <2>1. /\ state' \in [Structs -> {"unused", "live", "freed"}]
          /\ resource' \in [Structs -> OrNone(Addrs)]
      BY <1>0, <1>1 DEF CreateSurface, TypeOK, OrNone
    <2>2. \A x \in Structs : resource'[x] = None <=> state'[x] = "unused"
      BY <1>0, <1>4, NoneAssumption DEF TypeOK
    <2> QED BY <1>0, <1>2, <1>3, <2>1, <2>2 DEF CreateSurface, TypeOK
  <1>6. ListLive'
    <2>1. ASSUME NEW j \in 1 .. n + 1, NEW k \in 1 .. n + 1, list'[j] = list'[k]
          PROVE  j = k
      <3>1. \A i, l \in 1 .. n : list[i] = list[l] => i = l
        BY <1>0, <1>n DEF ListLive
      <3>2. \A i \in 2 .. n + 1 : list'[i] # s
        BY <1>3, <1>4
      <3>3. CASE j = 1 \/ k = 1
        BY <2>1, <3>2, <3>3, <1>3
      <3>4. CASE j # 1 /\ k # 1
        <4>1. j \in 2 .. n + 1 /\ k \in 2 .. n + 1
          BY <3>4
        <4> QED BY <2>1, <3>1, <4>1, <1>3
      <3> QED BY <3>3, <3>4
    <2>2. ASSUME NEW x \in Structs
          PROVE  state'[x] = "live" <=> \E k \in 1 .. n + 1 : list'[k] = x
      <3>1. CASE x = s
        BY <3>1, <1>3, <1>4
      <3>2. CASE x # s
        <4>1. state[x] = "live" <=> \E k \in 1 .. n : list[k] = x
          BY <1>0, <1>n DEF ListLive
        <4>2. (\E k \in 1 .. n : list[k] = x) <=> (\E k \in 1 .. n + 1 : list'[k] = x)
          <5>1. ASSUME NEW k \in 1 .. n, list[k] = x
                PROVE  \E i \in 1 .. n + 1 : list'[i] = x
            <6>1. k + 1 \in 1 .. n + 1
              OBVIOUS
            <6> QED BY <5>1, <6>1, <1>3
          <5>2. ASSUME NEW k \in 1 .. n + 1, list'[k] = x
                PROVE  \E i \in 1 .. n : list[i] = x
            <6>1. k \in 2 .. n + 1
              BY <5>2, <3>2, <1>3
            <6> QED BY <5>2, <6>1, <1>3
          <5> QED BY <5>1, <5>2
        <4> QED BY <3>2, <4>1, <4>2, <1>4
      <3> QED BY <3>1, <3>2
    <2> QED BY <2>1, <2>2, <1>3 DEF ListLive
  <1>7. SurfaceData'
    <2> SUFFICES ASSUME NEW d \in Clients, NEW b \in Addrs, Held(d, "surface", b)'
                 PROVE  /\ res'[b].data \in Structs /\ state'[res'[b].data] = "live"
                        /\ resource'[res'[b].data] = b
      BY DEF SurfaceData
    <2>1. CASE b = a
      BY <2>1, <1>2, <1>4
    <2>2. CASE b # a
      <3>1. /\ res'[b] = res[b] /\ res[b].data \in Structs
            /\ state[res[b].data] = "live" /\ resource[res[b].data] = b
        BY <2>2, <1>0, <1>2 DEF SurfaceData
      <3> QED BY <3>1, <1>4
    <2> QED BY <2>1, <2>2
  <1>8. NoneBefore'
    <2> SUFFICES ASSUME NEW d \in Clients, NEW b \in Addrs,
                        NEW j \in 1 .. n + 1, NEW k \in 1 .. n + 1,
                        Held(d, "surface", b)', list'[k] = res'[b].data, j < k
                 PROVE  resource'[list'[j]] # b
      BY <1>3 DEF NoneBefore
    <2>1. k \in 2 .. n + 1 /\ list'[k] = list[k - 1] /\ k - 1 \in 1 .. n
      BY <1>3
    <2>2. b # a /\ Held(d, "surface", b) /\ list[k - 1] = res[b].data
      BY <2>1, <1>2, <1>4
    <2>3. CASE j = 1
      BY <2>2, <2>3, <1>3, <1>4
    <2>4. CASE j # 1
      <3>1. /\ list'[j] = list[j - 1] /\ j - 1 \in 1 .. n /\ j - 1 < k - 1
        <4>1. j \in 2 .. n + 1
          BY <2>4
        <4> QED BY <4>1, <2>1, <1>3
      <3>2. resource[list[j - 1]] # b
        BY <3>1, <2>1, <2>2, <1>0, <1>n DEF NoneBefore
      <3> QED BY <3>1, <3>2, <1>4
    <2> QED BY <2>3, <2>4
  <1>9. RoleData' /\ RoleKnown'
    <2>1. ASSUME NEW d \in Clients, NEW x \in Addrs, Held(d, "xdg_surface", x)'
          PROVE  RoleStays(d, x)
      <3>1. Held(d, "xdg_surface", x) /\ res'[x] = res[x]
        BY <2>1, <1>2
      <3>2. PICK o \in Addrs : o = res[x].of
        BY <3>1, <1>0 DEF RoleKnown
      <3>3. /\ res[x].data \in Structs /\ state[res[x].data] = "live"
            /\ Held(d, "surface", o)
        BY <3>1, <3>2, <1>0 DEF RoleData, RoleKnown
      <3>4. Held(d, "surface", o)' /\ res'[o] = res[o]
        BY <3>3, <1>2
      <3> QED BY <3>1, <3>2, <3>3, <3>4, <1>4 DEF RoleStays, CreateSurface
    <2> QED BY <2>1, <1>0, RolesKept
  <1> QED BY <1>0, <1>5, <1>6, <1>7, <1>8, <1>9 DEF CreateSurface, SurfacesInv
LEMMA NothingMoved ==
    ASSUME ListLive, SurfaceData, NoneBefore, RoleData, RoleKnown,
           UNCHANGED <<structs, res>>
    PROVE  ListLive' /\ SurfaceData' /\ NoneBefore' /\ RoleData' /\ RoleKnown'
  <1>1. UNCHANGED <<state, resource, list>> /\ xdg' = xdg /\ res' = res
    BY DEF structs
  <1>2. ListLive' /\ SurfaceData' /\ NoneBefore'
    <2>1. ASSUME NEW d \in Clients, NEW b \in Addrs, Held(d, "surface", b)'
          PROVE  SurfaceStays(d, b)
      BY <1>1, <2>1 DEF SurfaceStays, Held, Free
    <2> QED BY <1>1, <2>1, SurfacesKept
  <1>3. RoleData' /\ RoleKnown'
    <2>1. ASSUME NEW d \in Clients, NEW x \in Addrs, Held(d, "xdg_surface", x)'
          PROVE  RoleStays(d, x)
      <3>1. Held(d, "xdg_surface", x)
        BY <1>1, <2>1 DEF Held, Free
      <3>2. ASSUME NEW o \in Addrs, o = res[x].of PROVE Held(d, "surface", o)'
        <4>1. Held(d, "surface", o)
          BY <3>1, <3>2 DEF RoleData
        <4> QED BY <4>1, <1>1 DEF Held, Free
      <3> QED BY <1>1, <3>1, <3>2 DEF RoleStays
    <2> QED BY <2>1, RolesKept
  <1> QED BY <1>2, <1>3

(* No memory; a region or a positioner; a request nobody handles: the      *)
(* structs and what is held of them stay.                                  *)
LEMMA QuietKeeps ==
    ASSUME SurfacesInv, NEW c \in Clients,
           NoMemory(c) \/ CreateInert(c) \/ \E a \in Addrs : CallUnhandled(c, a)
    PROVE  SurfacesInv'
  <1>0. /\ TypeOK /\ ListLive /\ SurfaceData /\ NoneBefore
        /\ RoleData /\ RoleKnown /\ fault # "stray configure"
    BY DEF SurfacesInv
  <1>1. CASE NoMemory(c)
    <2>1. TypeOK'
      BY <1>0, <1>1 DEF NoMemory, TypeOK, structs
    <2>2. ListLive' /\ SurfaceData' /\ NoneBefore' /\ RoleData' /\ RoleKnown'
      BY <1>0, <1>1, NothingMoved DEF NoMemory
    <2> QED BY <1>0, <1>1, <2>1, <2>2 DEF NoMemory, SurfacesInv
  <1>2. CASE CreateInert(c)
    <2>1. PICK a \in Addrs :
            Free(a) /\ res' = [res EXCEPT ![a] = Resource("inert", c, None, None)]
      BY <1>2 DEF CreateInert
    <2>2. Put(a, "inert", c, None, None)
      <3>1. /\ "inert" \in Kinds /\ None \in OrNone(Structs) /\ None \in OrNone(Addrs)
            /\ Puts(a, "inert", c, None, None)
        BY <2>1 DEF Kinds, OrNone, Puts
      <3> QED BY <1>0, <2>1, <3>1, NewResource
    <2>3. /\ res' \in [Addrs -> OrNone(Resources)]
          /\ \A b \in Addrs : b # a => res'[b] = res[b]
          /\ \A d, q, b : b \in Addrs /\ Held(d, q, b) => b # a /\ Held(d, q, b)'
          /\ \A d, q, b : b \in Addrs /\ Held(d, q, b)' /\ q # "inert"
                           => b # a /\ Held(d, q, b)
      BY <2>2 DEF Put
    <2>4. /\ UNCHANGED <<state, resource, list>>
          /\ UNCHANGED <<client, xdg, fault>>
      BY <1>2 DEF CreateInert, structs
    <2>5. TypeOK'
      BY <1>0, <2>3, <2>4 DEF TypeOK
    <2>6. ListLive' /\ SurfaceData' /\ NoneBefore'
      <3>1. ASSUME NEW d \in Clients, NEW b \in Addrs, Held(d, "surface", b)'
            PROVE  SurfaceStays(d, b)
        BY <3>1, <2>3 DEF SurfaceStays
      <3> QED BY <1>0, <2>4, <3>1, SurfacesKept
    <2>7. RoleData' /\ RoleKnown'
      <3>1. ASSUME NEW d \in Clients, NEW x \in Addrs, Held(d, "xdg_surface", x)'
            PROVE  RoleStays(d, x)
        <4>1. Held(d, "xdg_surface", x) /\ res'[x] = res[x]
          BY <3>1, <2>3
        <4>2. \A o \in Addrs : o = res[x].of => Held(d, "surface", o)
          BY <4>1, <1>0 DEF RoleData
        <4> QED BY <4>1, <4>2, <2>3, <2>4 DEF RoleStays
      <3> QED BY <1>0, <3>1, RolesKept
    <2> QED BY <1>0, <2>4, <2>5, <2>6, <2>7 DEF SurfacesInv
  <1>3. CASE \E a \in Addrs : CallUnhandled(c, a)
    <2>1. TypeOK'
      BY <1>0, <1>3 DEF CallUnhandled, TypeOK, structs
    <2>2. ListLive' /\ SurfaceData' /\ NoneBefore' /\ RoleData' /\ RoleKnown'
      BY <1>0, <1>3, NothingMoved DEF CallUnhandled
    <2> QED BY <1>3, <2>1, <2>2 DEF CallUnhandled, SurfacesInv
  <1> QED BY <1>1, <1>2, <1>3

(* The lookup of get_xdg_surface: the struct of the surface is in the list *)
(* and none before it has its address.                                     *)
LEMMA LookupFindsOwn == SurfacesInv => FindsOwn
  <1> SUFFICES ASSUME SurfacesInv, NEW c \in Clients, NEW a \in Addrs,
                      Held(c, "surface", a)
               PROVE  \E k \in DOMAIN list : IsFirst(k, a) /\ list[k] = res[a].data
    BY DEF FindsOwn
  <1>1. PICK s \in Structs : s = res[a].data /\ state[s] = "live" /\ resource[s] = a
    BY DEF SurfacesInv, SurfaceData
  <1>2. PICK k \in DOMAIN list : list[k] = s
    BY <1>1 DEF SurfacesInv, ListLive
  <1>3. \A j \in DOMAIN list : j < k => resource[list[j]] # a
    BY <1>1, <1>2 DEF SurfacesInv, NoneBefore
  <1>4. DOMAIN list = 1 .. Len(list) /\ Len(list) \in Nat
    BY ListFacts DEF SurfacesInv
  <1>5. IsFirst(k, a)
    BY <1>1, <1>2, <1>3, <1>4 DEF IsFirst, Matches
  <1> QED BY <1>1, <1>2, <1>5

LEMMA GetXdgSurfaceKeeps ==
    ASSUME SurfacesInv, NEW c \in Clients, NEW a \in Addrs, GetXdgSurface(c, a)
    PROVE  SurfacesInv'
  <1>0. /\ TypeOK /\ ListLive /\ SurfaceData /\ NoneBefore
        /\ RoleData /\ RoleKnown /\ fault # "stray configure"
    BY DEF SurfacesInv
  <1>1. PICK x \in Addrs, k \in Matches(a) :
          /\ Free(x) /\ IsFirst(k, a)
          /\ res' = [res EXCEPT ![x] = Resource("xdg_surface", c, list[k], a)]
          /\ xdg' = [xdg EXCEPT ![list[k]] = x]
    BY DEF GetXdgSurface
  <1>2. PICK s \in Structs : /\ s = res[a].data /\ list[k] = s
                             /\ state[s] = "live" /\ resource[s] = a
    <2>1. PICK j \in DOMAIN list : IsFirst(j, a) /\ list[j] = res[a].data
      BY LookupFindsOwn DEF FindsOwn, GetXdgSurface
    <2>2. j = k
      <3>1. /\ j \in Matches(a) /\ k \in Matches(a) /\ j <= k /\ k <= j
        BY <1>1, <2>1 DEF IsFirst
      <3>2. j \in Nat /\ k \in Nat
        <4>1. DOMAIN list \subseteq Nat
          <5>1. PICK n \in Nat : DOMAIN list = 1 .. n
            BY <1>0, ListFacts
          <5> QED BY <5>1
        <4> QED BY <3>1, <4>1 DEF Matches
      <3> QED BY <3>1, <3>2
    <2> QED BY <1>0, <2>1, <2>2 DEF SurfaceData, GetXdgSurface
  <1>3. Put(x, "xdg_surface", c, s, a)
    <2>1. /\ "xdg_surface" \in Kinds /\ s \in OrNone(Structs) /\ a \in OrNone(Addrs)
          /\ Puts(x, "xdg_surface", c, s, a)
      BY <1>1, <1>2 DEF Kinds, OrNone, Puts
    <2> QED BY <1>0, <1>1, <2>1, NewResource
  <1>4. /\ res' \in [Addrs -> OrNone(Resources)]
        /\ res'[x].data = s /\ res'[x].of = a
        /\ \A b \in Addrs : b # x => res'[b] = res[b]
        /\ \A d, q, b : b \in Addrs /\ Held(d, q, b) => b # x /\ Held(d, q, b)'
        /\ \A d, q, b : b \in Addrs /\ Held(d, q, b)'
                         => \/ b = x /\ d = c /\ q = "xdg_surface"
                            \/ b # x /\ Held(d, q, b)
    BY <1>3 DEF Put
  <1>5. /\ UNCHANGED <<state, resource, list>>
        /\ UNCHANGED <<client, fault>>
        /\ xdg' = [xdg EXCEPT ![s] = x]
        /\ Held(c, "surface", a) /\ ~HasRole(c, "xdg_surface", a)
    BY <1>1, <1>2 DEF GetXdgSurface
  <1>6. TypeOK'
    BY <1>0, <1>4, <1>5 DEF TypeOK, OrNone
  <1>7. ListLive' /\ SurfaceData' /\ NoneBefore'
    <2>1. ASSUME NEW d \in Clients, NEW b \in Addrs, Held(d, "surface", b)'
          PROVE  SurfaceStays(d, b)
      BY <2>1, <1>4 DEF SurfaceStays
    <2> QED BY <1>0, <1>5, <2>1, SurfacesKept
  <1>8. ASSUME NEW d \in Clients, NEW y \in Addrs, Held(d, "xdg_surface", y)', y # x
        PROVE  RoleStays(d, y)
    <2>1. Held(d, "xdg_surface", y) /\ res'[y] = res[y]
      BY <1>8, <1>4
    <2>2. PICK o \in Addrs : o = res[y].of
      BY <2>1, <1>0 DEF RoleKnown
    <2>3. Held(d, "surface", o) /\ resource[res[y].data] = o /\ res[y].data \in Structs
      BY <2>1, <2>2, <1>0 DEF RoleData, RoleKnown
    <2>4. o # a
      <3> SUFFICES ASSUME o = a PROVE FALSE
        OBVIOUS
      <3>1. d = c
        BY <1>5, <2>3 DEF Held
      <3> QED BY <3>1, <2>1, <2>2, <1>5 DEF HasRole
    <2>5. res[y].data # s
      BY <1>2, <2>3, <2>4
    <2>6. Held(d, "surface", o)' /\ res'[o] = res[o]
      BY <2>3, <1>4
    <2>7. xdg'[res[y].data] = xdg[res[y].data]
      BY <1>0, <1>5, <2>3, <2>5 DEF TypeOK
    <2> QED BY <2>1, <2>2, <2>6, <2>7, <1>5 DEF RoleStays
  <1>9. RoleData' /\ RoleKnown'
    <2>1. /\ xdg'[s] = x /\ state'[s] = "live" /\ resource'[s] = a
          /\ Held(c, "surface", a)' /\ res'[a].data = s
      BY <1>0, <1>2, <1>4, <1>5 DEF TypeOK
    <2>2. ASSUME NEW d \in Clients, Held(d, "xdg_surface", x)' PROVE d = c
      BY <2>2, <1>4
    <2>3. RoleStands(c, x)'
      BY <1>2, <1>4, <2>1 DEF RoleStands, Held
    <2>4. ASSUME NEW d \in Clients, NEW y \in Addrs, Held(d, "xdg_surface", y)'
          PROVE  RoleStays(d, y) \/ RoleStands(d, y)'
      BY <2>2, <2>3, <2>4, <1>8
    <2> QED BY <1>0, <2>4, RolesKept
  <1> QED BY <1>0, <1>5, <1>6, <1>7, <1>9 DEF SurfacesInv
LEMMA GetToplevelKeeps ==
    ASSUME SurfacesInv, NEW c \in Clients, NEW x \in Addrs, GetToplevel(c, x)
    PROVE  SurfacesInv'
  <1>0. /\ TypeOK /\ ListLive /\ SurfaceData /\ NoneBefore
        /\ RoleData /\ RoleKnown /\ fault # "stray configure"
    BY DEF SurfacesInv
  <1>1. PICK s \in Structs : /\ s = res[x].data /\ state[s] = "live" /\ xdg[s] = x
    BY <1>0 DEF GetToplevel, RoleData, RoleKnown
  <1>2. PICK t \in Addrs :
          Free(t) /\ res' = [res EXCEPT ![t] = Resource("toplevel", c, s, x)]
    BY <1>1 DEF GetToplevel
  <1>3. Put(t, "toplevel", c, s, x)
    <2>1. /\ "toplevel" \in Kinds /\ s \in OrNone(Structs) /\ x \in OrNone(Addrs)
          /\ Puts(t, "toplevel", c, s, x)
      BY <1>2 DEF Kinds, OrNone, Puts
    <2> QED BY <1>0, <1>2, <2>1, NewResource
  <1>4. /\ res' \in [Addrs -> OrNone(Resources)]
        /\ \A b \in Addrs : b # t => res'[b] = res[b]
        /\ \A d, q, b : b \in Addrs /\ Held(d, q, b) => b # t /\ Held(d, q, b)'
        /\ \A d, q, b : b \in Addrs /\ Held(d, q, b)' /\ q # "toplevel"
                         => b # t /\ Held(d, q, b)
    BY <1>3 DEF Put
  <1>5. /\ UNCHANGED <<state, resource, list>>
        /\ UNCHANGED <<client, xdg>> /\ fault' = "none"
    BY <1>1 DEF GetToplevel, structs
  <1>6. TypeOK'
    BY <1>0, <1>4, <1>5 DEF TypeOK
  <1>7. ListLive' /\ SurfaceData' /\ NoneBefore'
    <2>1. ASSUME NEW d \in Clients, NEW b \in Addrs, Held(d, "surface", b)'
          PROVE  SurfaceStays(d, b)
      BY <2>1, <1>4 DEF SurfaceStays
    <2> QED BY <1>0, <1>5, <2>1, SurfacesKept
  <1>8. RoleData' /\ RoleKnown'
    <2>1. ASSUME NEW d \in Clients, NEW y \in Addrs, Held(d, "xdg_surface", y)'
          PROVE  RoleStays(d, y)
      <3>1. Held(d, "xdg_surface", y) /\ res'[y] = res[y]
        BY <2>1, <1>4
      <3>2. \A o \in Addrs : o = res[y].of => Held(d, "surface", o)
        BY <3>1, <1>0 DEF RoleData
      <3> QED BY <3>1, <3>2, <1>4, <1>5 DEF RoleStays
    <2> QED BY <1>0, <2>1, RolesKept
  <1> QED BY <1>5, <1>6, <1>7, <1>8 DEF SurfacesInv

(* Resources that go while the structs and the list stay: that of a role,  *)
(* or all of a client.                                                     *)
LEMMA ResourcesGone ==
    ASSUME SurfacesInv, NEW Gone \in SUBSET Addrs,
           res' = [b \in Addrs |-> IF b \in Gone THEN None ELSE res[b]],
           \A d \in Clients, y \in Addrs :
              Held(d, "xdg_surface", y) /\ y \notin Gone => res[y].of \notin Gone,
           UNCHANGED structs, fault' = fault,
           client' \in [Clients -> {"connected", "error", "gone"}]
    PROVE  SurfacesInv'
  <1>0. /\ TypeOK /\ ListLive /\ SurfaceData /\ NoneBefore
        /\ RoleData /\ RoleKnown /\ fault # "stray configure"
    BY DEF SurfacesInv
  <1>1. UNCHANGED <<state, resource, list>> /\ UNCHANGED <<xdg, fault>>
    BY DEF structs
  <1>2. /\ \A b \in Addrs : b \notin Gone => res'[b] = res[b]
        /\ \A b \in Addrs : b \in Gone => res'[b] = None
    OBVIOUS
  <1>3. ASSUME NEW d, NEW q, NEW b \in Addrs, Held(d, q, b)'
        PROVE  b \notin Gone /\ Held(d, q, b)
    BY <1>2, <1>3 DEF Held, Free
  <1>4. TypeOK'
    <2>1. res' \in [Addrs -> OrNone(Resources)]
      BY <1>0 DEF TypeOK, OrNone
    <2> QED BY <1>0, <1>1, <2>1 DEF TypeOK
  <1>5. ListLive' /\ SurfaceData' /\ NoneBefore'
    <2>1. ASSUME NEW d \in Clients, NEW b \in Addrs, Held(d, "surface", b)'
          PROVE  SurfaceStays(d, b)
      BY <2>1, <1>2, <1>3 DEF SurfaceStays
    <2> QED BY <1>0, <1>1, <2>1, SurfacesKept
  <1>6. RoleData' /\ RoleKnown'
    <2>1. ASSUME NEW d \in Clients, NEW y \in Addrs, Held(d, "xdg_surface", y)'
          PROVE  RoleStays(d, y)
      <3>1. Held(d, "xdg_surface", y) /\ y \notin Gone /\ res'[y] = res[y]
        BY <2>1, <1>2, <1>3
      <3>2. ASSUME NEW o \in Addrs, o = res[y].of
            PROVE  Held(d, "surface", o)' /\ res'[o].data = res[o].data
        <4>1. Held(d, "surface", o) /\ o \notin Gone /\ res'[o] = res[o]
          BY <3>1, <3>2, <1>0, <1>2 DEF RoleData
        <4> QED BY <4>1 DEF Held, Free
      <3> QED BY <3>1, <3>2, <1>1 DEF RoleStays
    <2> QED BY <1>0, <2>1, RolesKept
  <1> QED BY <1>0, <1>1, <1>4, <1>5, <1>6 DEF SurfacesInv

LEMMA DestroyRoleKeeps ==
    ASSUME SurfacesInv, NEW c \in Clients, NEW x \in Addrs, DestroyRole(c, x)
    PROVE  SurfacesInv'
  <1>1. /\ res \in [Addrs -> OrNone(Resources)]
        /\ client' \in [Clients -> {"connected", "error", "gone"}]
        /\ UNCHANGED structs /\ fault' = fault
    BY DEF SurfacesInv, TypeOK, DestroyRole
  <1>2. res' = [b \in Addrs |-> IF b \in {x} THEN None ELSE res[b]]
    BY <1>1 DEF DestroyRole
  <1>3. ASSUME NEW d \in Clients, NEW y \in Addrs, Held(d, "xdg_surface", y)
        PROVE  res[y].of \notin {x}
    <2>1. Held(d, "surface", res[y].of)
      BY <1>3 DEF SurfacesInv, RoleData
    <2> QED BY <2>1 DEF DestroyRole, Held
  <1> QED BY <1>1, <1>2, <1>3, ResourcesGone

LEMMA DisconnectKeeps ==
    ASSUME SurfacesInv, NEW c \in Clients, Disconnect(c)
    PROVE  SurfacesInv'
  <1> DEFINE Gone == {b \in Addrs : ~Free(b) /\ res[b].client = c}
  <1>1. /\ client' \in [Clients -> {"connected", "error", "gone"}]
        /\ UNCHANGED structs /\ fault' = fault
    BY DEF SurfacesInv, TypeOK, Disconnect
  <1>2. res' = [b \in Addrs |-> IF b \in Gone THEN None ELSE res[b]]
    BY DEF Disconnect
  <1>3. ASSUME NEW d \in Clients, NEW y \in Addrs, Held(d, "xdg_surface", y), y \notin Gone
        PROVE  res[y].of \notin Gone
    <2>1. Held(d, "surface", res[y].of)
      BY <1>3 DEF SurfacesInv, RoleData
    <2> QED BY <1>3, <2>1 DEF Held
  <1>4. Gone \in SUBSET Addrs
    OBVIOUS
  <1> HIDE DEF Gone
  <1> QED BY <1>1, <1>2, <1>3, <1>4, ResourcesGone
(* A surface whose roles are gone is destroyed: its struct leaves the list *)
(* and the others keep their order.                                        *)
LEMMA DestroySurfaceKeeps ==
    ASSUME SurfacesInv, NEW c \in Clients, NEW a \in Addrs, DestroySurface(c, a)
    PROVE  SurfacesInv'
  <1>0. /\ TypeOK /\ ListLive /\ SurfaceData /\ NoneBefore
        /\ RoleData /\ RoleKnown /\ fault # "stray configure"
    BY DEF SurfacesInv
  <1>1. /\ Held(c, "surface", a) /\ ~HasRole(c, "xdg_surface", a)
        /\ res' = [res EXCEPT ![a].held = FALSE]
        /\ UNCHANGED <<client, resource, xdg, fault>>
    BY DEF DestroySurface
  <1>2. PICK s \in Structs : s = res[a].data /\ state[s] = "live" /\ resource[s] = a
    BY <1>0, <1>1 DEF SurfaceData
  <1>3. PICK n \in Nat : DOMAIN list = 1 .. n /\ n = Len(list)
    BY <1>0, ListFacts
  <1>4. PICK k \in 1 .. n : list[k] = s /\ list' = Drop(list, k)
    BY <1>2, <1>3 DEF DestroySurface, Drop
  <1>5. /\ list' \in Seq(Structs) /\ Len(list') = n - 1 /\ DOMAIN list' = 1 .. n - 1
        /\ \A i \in 1 .. n - 1 : list'[i] = IF i < k THEN list[i] ELSE list[i + 1]
    <2>1. /\ list' \in Seq(Structs) /\ Len(list') = n - 1
          /\ \A i \in 1 .. n - 1 : list'[i] = IF i < k THEN list[i] ELSE list[i + 1]
      BY <1>0, <1>3, <1>4, ListFacts, Dropped
    <2> QED BY <2>1, LenProperties
  <1>6. /\ state' = [state EXCEPT ![s] = "freed"]
        /\ \A r \in Structs : r # s => state'[r] = state[r]
        /\ state'[s] = "freed"
    BY <1>0, <1>2 DEF DestroySurface, TypeOK
  <1>7. /\ res' \in [Addrs -> OrNone(Resources)]
        /\ \A b \in Addrs : b # a => res'[b] = res[b]
        /\ \A d, q, b : b \in Addrs /\ Held(d, q, b)' => b # a /\ Held(d, q, b)
    <2>1. res[a] \in Resources
      BY <1>0, <1>1 DEF Held, Free, TypeOK, OrNone
    <2>2. [res[a] EXCEPT !.held = FALSE] \in Resources
      BY <2>1 DEF Resources
    <2>3. res' = [res EXCEPT ![a] = [res[a] EXCEPT !.held = FALSE]]
      BY <1>1
    <2>4. /\ res' \in [Addrs -> OrNone(Resources)]
          /\ \A b \in Addrs : b # a => res'[b] = res[b]
      BY <2>2, <2>3, <1>0 DEF TypeOK, OrNone
    <2>5. res'[a].held = FALSE
      BY <2>1, <2>3, <1>0 DEF TypeOK, Resources
    <2>6. ASSUME NEW d, NEW q, NEW b \in Addrs, Held(d, q, b)'
          PROVE  b # a /\ Held(d, q, b)
      BY <2>4, <2>5, <2>6 DEF Held, Free
    <2> QED BY <2>4, <2>6
  <1>8. TypeOK'
    <2>1. state' \in [Structs -> {"unused", "live", "freed"}]
      BY <1>0, <1>6 DEF TypeOK
    <2>2. \A r \in Structs : resource'[r] = None <=> state'[r] = "unused"
      BY <1>0, <1>1, <1>2, <1>6 DEF TypeOK
    <2> QED BY <1>0, <1>1, <1>5, <1>7, <2>1, <2>2 DEF TypeOK
  <1>9. \A i, j \in 1 .. n : list[i] = list[j] => i = j
    BY <1>0, <1>3 DEF ListLive
  <1>10. ListLive'
    <2>1. ASSUME NEW i \in 1 .. n - 1, NEW j \in 1 .. n - 1, list'[i] = list'[j]
          PROVE  i = j
      <3>1. \A l \in 1 .. n - 1 : l \in 1 .. n /\ l + 1 \in 1 .. n
        BY <1>3
      <3>2. CASE i < k /\ j < k
        BY <2>1, <3>1, <3>2, <1>5, <1>9
      <3>3. CASE i < k /\ ~ (j < k)
        <4>1. list[i] = list[j + 1] /\ i # j + 1
          BY <2>1, <3>3, <1>3, <1>5
        <4> QED BY <4>1, <3>1, <1>9
      <3>4. CASE ~ (i < k) /\ j < k
        <4>1. list[i + 1] = list[j] /\ i + 1 # j
          BY <2>1, <3>4, <1>3, <1>5
        <4> QED BY <4>1, <3>1, <1>9
      <3>5. CASE ~ (i < k) /\ ~ (j < k)
        <4>1. list[i + 1] = list[j + 1]
          BY <2>1, <3>5, <1>5
        <4> QED BY <4>1, <3>1, <1>9
      <3> QED BY <3>2, <3>3, <3>4, <3>5
    <2>2. ASSUME NEW r \in Structs
          PROVE  (\E i \in 1 .. n : list[i] = r) /\ r # s
                   <=> \E i \in 1 .. n - 1 : list'[i] = r
      <3>1. ASSUME NEW i \in 1 .. n, list[i] = r, r # s
            PROVE  \E j \in 1 .. n - 1 : list'[j] = r
        <4>1. CASE i < k
          <5>1. i \in 1 .. n - 1
            BY <4>1, <1>3
          <5> QED BY <4>1, <5>1, <3>1, <1>5
        <4>2. CASE i > k
          <5>1. i - 1 \in 1 .. n - 1 /\ ~ (i - 1 < k) /\ i - 1 + 1 = i
            BY <4>2, <1>3
          <5> QED BY <5>1, <3>1, <1>5
        <4> QED BY <4>1, <4>2, <3>1, <1>3, <1>4
      <3>2. ASSUME NEW j \in 1 .. n - 1, list'[j] = r
            PROVE  (\E i \in 1 .. n : list[i] = r) /\ r # s
        BY <3>2, <1>3, <1>4, <1>5, <1>9
      <3> QED BY <3>1, <3>2
    <2>3. ASSUME NEW r \in Structs
          PROVE  state'[r] = "live" <=> \E i \in 1 .. n - 1 : list'[i] = r
      <3>1. state[r] = "live" <=> \E i \in 1 .. n : list[i] = r
        BY <1>0, <1>3 DEF ListLive
      <3>2. state'[r] = "live" <=> state[r] = "live" /\ r # s
        BY <1>6
      <3> QED BY <3>1, <3>2, <2>2
    <2> QED BY <2>1, <2>3, <1>5 DEF ListLive
  <1>11. SurfaceData'
    <2> SUFFICES ASSUME NEW d \in Clients, NEW b \in Addrs, Held(d, "surface", b)'
                 PROVE  /\ res'[b].data \in Structs /\ state'[res'[b].data] = "live"
                        /\ resource'[res'[b].data] = b
      BY DEF SurfaceData
    <2>1. b # a /\ Held(d, "surface", b) /\ res'[b] = res[b]
      BY <1>7
    <2>2. /\ res[b].data \in Structs /\ state[res[b].data] = "live"
          /\ resource[res[b].data] = b
      BY <2>1, <1>0 DEF SurfaceData
    <2> QED BY <2>1, <2>2, <1>1, <1>2, <1>6
  <1>12. NoneBefore'
    <2> SUFFICES ASSUME NEW d \in Clients, NEW b \in Addrs,
                        NEW i \in 1 .. n - 1, NEW j \in 1 .. n - 1,
                        Held(d, "surface", b)', list'[j] = res'[b].data, i < j
                 PROVE  resource'[list'[i]] # b
      BY <1>5 DEF NoneBefore
    <2>1. Held(d, "surface", b) /\ res'[b] = res[b]
      BY <1>7
    <2>2. PICK p, q \in 1 .. n : p < q /\ list'[i] = list[p] /\ list'[j] = list[q]
      <3>1. CASE j < k
        <4>1. /\ i < k /\ i \in 1 .. n /\ j \in 1 .. n
          BY <3>1, <1>3
        <4> QED BY <3>1, <4>1, <1>5
      <3>2. CASE i < k /\ ~ (j < k)
        <4>1. i < j + 1 /\ i \in 1 .. n /\ j + 1 \in 1 .. n
          BY <3>2, <1>3
        <4> QED BY <3>2, <4>1, <1>5
      <3>3. CASE ~ (i < k)
        <4>1. /\ ~ (j < k) /\ i + 1 < j + 1 /\ i + 1 \in 1 .. n /\ j + 1 \in 1 .. n
          BY <3>3, <1>3
        <4> QED BY <3>3, <4>1, <1>5
      <3> QED BY <3>1, <3>2, <3>3
    <2> QED BY <2>1, <2>2, <1>0, <1>1, <1>3 DEF NoneBefore
  <1>13. RoleData' /\ RoleKnown'
    <2>1. ASSUME NEW d \in Clients, NEW y \in Addrs, Held(d, "xdg_surface", y)'
          PROVE  RoleStays(d, y)
      <3>1. y # a /\ Held(d, "xdg_surface", y) /\ res'[y] = res[y]
        BY <2>1, <1>7
      <3>2. PICK o \in Addrs : o = res[y].of
        BY <3>1, <1>0 DEF RoleKnown
      <3>3. /\ Held(d, "surface", o) /\ resource[res[y].data] = o
            /\ res[y].data \in Structs
        BY <3>1, <3>2, <1>0 DEF RoleData, RoleKnown
      <3>4. o # a
        <4> SUFFICES ASSUME o = a PROVE FALSE
          OBVIOUS
        <4>1. d = c
          BY <1>1, <3>3 DEF Held
        <4> QED BY <4>1, <3>1, <3>2, <1>1 DEF HasRole
      <3>5. res[y].data # s
        BY <1>2, <3>3, <3>4
      <3>6. res'[o] = res[o] /\ Held(d, "surface", o)'
        BY <3>3, <3>4, <1>7 DEF Held, Free
      <3> QED BY <3>1, <3>2, <3>3, <3>5, <3>6, <1>1, <1>6 DEF RoleStays
    <2> QED BY <1>0, <2>1, RolesKept
  <1> QED BY <1>0, <1>1, <1>8, <1>10, <1>11, <1>12, <1>13 DEF SurfacesInv

-----------------------------------------------------------------------------
LEMMA InitSurfaces == Init => SurfacesInv
  <1> SUFFICES ASSUME Init PROVE SurfacesInv
    OBVIOUS
  <1>1. list \in Seq(Structs) /\ DOMAIN list = {}
    BY EmptySeq, LenProperties DEF Init
  <1>2. TypeOK
    BY <1>1 DEF Init, TypeOK, OrNone
  <1>3. \A c, k, a : a \in Addrs => ~Held(c, k, a)
    BY DEF Init, Held, Free
  <1>4. ListLive
    BY <1>1 DEF Init, ListLive
  <1> QED BY <1>1, <1>2, <1>3, <1>4
       DEF Init, SurfacesInv, SurfaceData, NoneBefore, RoleData, RoleKnown

LEMMA NextSurfaces ==
    ASSUME SurfacesInv, (\E c \in Clients : Step(c)) \/ UNCHANGED vars
    PROVE  SurfacesInv'
  <1>1. CASE UNCHANGED vars
    <2>1. TypeOK'
      BY <1>1 DEF SurfacesInv, TypeOK, vars, structs
    <2>2. UNCHANGED <<structs, res>> /\ fault' = fault
      BY <1>1 DEF vars
    <2> QED BY <2>1, <2>2, NothingMoved DEF SurfacesInv
  <1>2. ASSUME NEW c \in Clients, Step(c) PROVE SurfacesInv'
    BY <1>2, CreateSurfaceKeeps, DestroySurfaceKeeps, GetXdgSurfaceKeeps,
       GetToplevelKeeps, DestroyRoleKeeps, QuietKeeps, DisconnectKeeps DEF Step
  <1> QED BY <1>1, <1>2

LEMMA InvConsistent == SurfacesInv => Consistent
  BY LookupFindsOwn DEF SurfacesInv, Consistent

(* Whatever well-behaved clients ask for, and however they end: a role and *)
(* a search of get_xdg_surface only reach structs that are live, a search  *)
(* the one that was named, and a configure event goes to the xdg_surface   *)
(* that asked for the toplevel (wm_base.c:34-50, surface.c:31).            *)
THEOREM SurfacesConsistent == Spec => []Consistent
  <1>1. SurfacesInv /\ [Next]_vars => SurfacesInv'
    BY NextSurfaces DEF Next
  <1> QED BY <1>1, InitSurfaces, InvConsistent, PTL DEF Spec

(* The test clients are well-behaved clients: what the compositor does for *)
(* them it could do for others, and what they do themselves, and the calls *)
(* on their way, it does not see.                                          *)
LEMMA ClientsSteps ==
    ASSUME NextClients
    PROVE  (\E c \in Clients : Step(c)) \/ UNCHANGED vars
  <1>1. ASSUME NEW c \in Clients, Client(c) PROVE UNCHANGED vars
    BY <1>1 DEF Client, Start, Receive, SetUp, Draw, Loop, Signal, GiveUp
  <1>2. ASSUME NEW c \in Clients, Serve(c) PROVE Step(c) \/ UNCHANGED vars
    BY <1>2 DEF Serve, ServeDisplay, ServeSurface, ServeToplevel, ServeAttach, ServeAck,
                ServeQuiet, ServeFails, HangUp, Step
  <1>3. ASSUME NEW c \in Clients, Other(c) PROVE Step(c)
    BY <1>3 DEF Other
  <1> QED BY <1>1, <1>2, <1>3 DEF NextClients, all

THEOREM ClientsConsistent == ClientsSpec => []Consistent
  <1>1. SurfacesInv /\ [NextClients]_all => SurfacesInv'
    BY NextSurfaces, ClientsSteps DEF all
  <1>2. InitClients => SurfacesInv
    BY InitSurfaces DEF InitClients
  <1> QED BY <1>1, <1>2, InvConsistent, PTL DEF ClientsSpec
-----------------------------------------------------------------------------
(* What a test client asks for and is told, from its start to its main     *)
(* loop, is one sequence of requests and one of events: each event is      *)
(* handled before the next arrives, and what is asked for on one comes     *)
(* before what is asked for on the next.                                   *)
Script(p) ==
    IF p = "xdg"
    THEN <<"get_registry", "sync", "bind", "bind", "bind_wm_base",
           "create_pool", "create_buffer", "create_surface", "get_xdg_surface",
           "get_toplevel", "commit", "sync", "pong", "ack", "attach", "commit",
           "attach", "frame", "commit">>
    ELSE <<"get_registry", "sync", "bind", "bind", "create_pool",
           "create_buffer", "create_surface", "sync",
           "attach", "frame", "commit">>
Told(p) == IF p = "xdg" THEN <<"globals", "done", "ping", "configure", "done">>
                        ELSE <<"globals", "done", "done">>
Ends(p) == IF p = "xdg" THEN 19 ELSE 11
Rounds(p) == IF p = "xdg" THEN 5 ELSE 3

(* How much is asked for once r events are handled, and how many events    *)
(* there are once q requests are.                                          *)
Asked(p, r) ==
    IF p = "xdg" THEN IF r = 0 THEN 2 ELSE IF r = 1 THEN 5 ELSE IF r = 2 THEN 12
                 ELSE IF r = 3 THEN 13 ELSE IF r = 4 THEN 16 ELSE 19
    ELSE IF r = 0 THEN 2 ELSE IF r = 1 THEN 4 ELSE IF r = 2 THEN 8 ELSE 11
Answered(p, q) ==
    IF p = "xdg" THEN IF q < 1 THEN 0 ELSE IF q < 2 THEN 1 ELSE IF q < 5 THEN 2
                 ELSE IF q < 10 THEN 3 ELSE IF q < 12 THEN 4 ELSE 5
    ELSE IF q < 1 THEN 0 ELSE IF q < 2 THEN 1 ELSE IF q < 8 THEN 2 ELSE 3

(* Of client c the compositor has handled q requests of n, and the client  *)
(* r events.                                                               *)
Served(c, p, q, n) ==
    /\ q \in 0 .. n /\ n \in 0 .. Ends(p)
    /\ Len(sent[c]) = n - q
    /\ \A i \in 1 .. n - q : sent[c][i] = Script(p)[q + i]
    /\ p = "xdg" =>
          /\ Holds(c, "surface") <=> q >= 8
          /\ Holds(c, "xdg_surface") <=> q >= 9
          /\ Holds(c, "toplevel") <=> q >= 10
          /\ acked[c] = TRUE <=> q >= 14
          /\ shown[c] = IF q < 15 THEN 0 ELSE IF q < 17 THEN 1 ELSE 2
    /\ p # "xdg" =>
          /\ Holds(c, "surface") <=> q >= 7
          /\ shown[c] = IF q < 9 THEN 0 ELSE 1
Under(c, p, q, n, r) ==
    /\ r \in 0 .. Rounds(p)
    /\ n = IF at[c] = "start" THEN 0 ELSE Asked(p, r)
    /\ Answered(p, q) >= r
    /\ Len(events[c]) = Answered(p, q) - r
    /\ \A i \in 1 .. Answered(p, q) - r : events[c][i] = Told(p)[r + i]
    /\ frames[c] = IF r = Rounds(p) THEN 1 ELSE 0
    /\ at[c] = "start" <=> r = 0 /\ n = 0
    /\ at[c] = "globals" => r \in {0, 1}
    /\ at[c] = "configure" => r # 0 /\ r # 1 /\ r # Rounds(p)
    /\ at[c] \in {"test", "dispatch"} => r = Rounds(p)
InScript(c, p) ==
    \E q, n \in 0 .. Ends(p) :
       /\ Served(c, p, q, n)
       /\ at[c] # "closed" => \E r \in 0 .. Rounds(p) : Under(c, p, q, n, r)

Requests == Quiet \cup Creations \cup {"get_registry", "sync", "attach", "ack"}
EventNames == {"globals", "done", "ping", "configure"}
WireType == /\ program \in [Clients -> Programs]
            /\ at \in [Clients -> {"start", "globals", "configure", "test",
                                   "dispatch", "closed"}]
            /\ sent \in [Clients -> Seq(Requests)]
            /\ events \in [Clients -> Seq(EventNames)]
            /\ frames \in [Clients -> Nat] /\ acked \in [Clients -> BOOLEAN]
            /\ shown \in [Clients -> Nat] /\ stopped \in [Clients -> BOOLEAN]
Follows == \A c \in Clients :
    /\ program[c] = "other" => sent[c] = <<>> /\ at[c] = "start"
    /\ program[c] # "other" /\ Connected(c) => InScript(c, program[c])
ClientsInv == SurfacesInv /\ WireType /\ Follows
(* Where the requests that do something stand in the scripts. *)
LEMMA XdgScript ==
    ASSUME NEW k \in 1 .. 19
    PROVE  LET r == Script("xdg")[k]
           IN  /\ r = "get_registry" <=> k = 1
               /\ r = "sync" <=> k \in {2, 12}
               /\ r = "bind_wm_base" <=> k = 5
               /\ r = "create_surface" <=> k = 8
               /\ r = "get_xdg_surface" <=> k = 9
               /\ r = "get_toplevel" <=> k = 10
               /\ r = "ack" <=> k = 14
               /\ r = "attach" <=> k \in {15, 17}
               /\ r \in {"attach", "frame", "commit"} => k >= 11
  <1>1. \/ k = 1 \/ k = 2 \/ k = 3 \/ k = 4 \/ k = 5 \/ k = 6 \/ k = 7 \/ k = 8
        \/ k = 9 \/ k = 10 \/ k = 11 \/ k = 12 \/ k = 13 \/ k = 14 \/ k = 15
        \/ k = 16 \/ k = 17 \/ k = 18 \/ k = 19
    OBVIOUS
  <1>2. PICK t : t = Script("xdg")
    OBVIOUS
  <1>3. /\ t[1] = "get_registry" /\ t[2] = "sync" /\ t[3] = "bind"
        /\ t[4] = "bind" /\ t[5] = "bind_wm_base" /\ t[6] = "create_pool"
        /\ t[7] = "create_buffer" /\ t[8] = "create_surface"
        /\ t[9] = "get_xdg_surface" /\ t[10] = "get_toplevel"
        /\ t[11] = "commit" /\ t[12] = "sync" /\ t[13] = "pong"
        /\ t[14] = "ack" /\ t[15] = "attach" /\ t[16] = "commit"
        /\ t[17] = "attach" /\ t[18] = "frame" /\ t[19] = "commit"
    BY <1>2 DEF Script
  <1> QED BY <1>1, <1>2, <1>3

LEMMA PureScript ==
    ASSUME NEW p, p # "xdg", NEW k \in 1 .. 11
    PROVE  LET r == Script(p)[k]
           IN  /\ r = "get_registry" <=> k = 1
               /\ r = "sync" <=> k \in {2, 8}
               /\ r = "create_surface" <=> k = 7
               /\ r = "attach" <=> k = 9
               /\ r \in {"attach", "frame", "commit"} => k >= 9
               /\ r \notin {"bind_wm_base", "get_xdg_surface", "get_toplevel", "ack"}
  <1>1. \/ k = 1 \/ k = 2 \/ k = 3 \/ k = 4 \/ k = 5 \/ k = 6 \/ k = 7 \/ k = 8
        \/ k = 9 \/ k = 10 \/ k = 11
    OBVIOUS
  <1>2. PICK t : t = Script(p)
    OBVIOUS
  <1>3. /\ t[1] = "get_registry" /\ t[2] = "sync" /\ t[3] = "bind"
        /\ t[4] = "bind" /\ t[5] = "create_pool" /\ t[6] = "create_buffer"
        /\ t[7] = "create_surface" /\ t[8] = "sync" /\ t[9] = "attach"
        /\ t[10] = "frame" /\ t[11] = "commit"
    BY <1>2 DEF Script
  <1> QED BY <1>1, <1>2, <1>3

LEMMA TellFacts ==
    /\ \A k \in 1 .. 5 : LET e == Told("xdg")[k]
                         IN  /\ e = "globals" <=> k = 1
                             /\ e = "done" <=> k \in {2, 5}
                             /\ e = "ping" <=> k = 3
                             /\ e = "configure" <=> k = 4
    /\ \A p : p # "xdg" => \A k \in 1 .. 3 :
                            LET e == Told(p)[k]
                            IN  /\ e = "globals" <=> k = 1
                                /\ e = "done" <=> k \in {2, 3}
                                /\ e # "ping" /\ e # "configure"
  <1>1. ASSUME NEW k \in 1 .. 5 PROVE k = 1 \/ k = 2 \/ k = 3 \/ k = 4 \/ k = 5
    OBVIOUS
  <1>2. ASSUME NEW k \in 1 .. 3 PROVE k = 1 \/ k = 2 \/ k = 3
    OBVIOUS
  <1> QED BY <1>1, <1>2 DEF Told

-----------------------------------------------------------------------------
(* What a step of the compositor changes of what a client holds: nothing   *)
(* when it is for another client.                                          *)
HoldsSame(c) == /\ Holds(c, "surface")' <=> Holds(c, "surface")
                /\ Holds(c, "xdg_surface")' <=> Holds(c, "xdg_surface")
                /\ Holds(c, "toplevel")' <=> Holds(c, "toplevel")
HoldsMore(c, k) ==
    /\ Holds(c, "surface")' <=> Holds(c, "surface") \/ k = "surface"
    /\ Holds(c, "xdg_surface")' <=> Holds(c, "xdg_surface") \/ k = "xdg_surface"
    /\ Holds(c, "toplevel")' <=> Holds(c, "toplevel") \/ k = "toplevel"
Creates(c, k) == HoldsMore(c, k) /\ \A d \in Clients \ {c} : HoldsSame(d)

LEMMA PutHolds ==
    ASSUME NEW a \in Addrs, NEW k, NEW c, NEW s, NEW o, Put(a, k, c, s, o)
    PROVE  Creates(c, k)
  <1>1. /\ \A d, q, b : b \in Addrs /\ Held(d, q, b) => b # a /\ Held(d, q, b)'
        /\ \A d, q, b : b \in Addrs /\ Held(d, q, b)'
                         => \/ b = a /\ d = c /\ q = k
                            \/ b # a /\ Held(d, q, b)
        /\ Held(c, k, a)'
    BY DEF Put
  <1>2. \A q : Holds(c, q)' <=> Holds(c, q) \/ q = k
    BY <1>1 DEF Holds
  <1>3. \A d, q : d # c => (Holds(d, q)' <=> Holds(d, q))
    BY <1>1 DEF Holds
  <1> QED BY <1>2, <1>3 DEF Creates, HoldsMore, HoldsSame
LEMMA CreationHolds ==
    ASSUME TypeOK, NEW c, NEW a \in Addrs, NEW k \in Kinds, NEW s \in OrNone(Structs),
           NEW o \in OrNone(Addrs), c \in Clients, Free(a), Puts(a, k, c, s, o)
    PROVE  Creates(c, k)
  <1>1. Put(a, k, c, s, o)
    BY NewResource
  <1> QED BY <1>1, PutHolds

LEMMA CreationHoldsSurface ==
    ASSUME SurfacesInv, NEW c \in Clients, NEW s \in Structs, CreateSurface(c, s)
    PROVE  Creates(c, "surface")
  <1>1. PICK a \in Addrs : Free(a) /\ Puts(a, "surface", c, s, None)
    BY DEF CreateSurface, Puts
  <1>2. TypeOK /\ "surface" \in Kinds /\ s \in OrNone(Structs) /\ None \in OrNone(Addrs)
    BY DEF SurfacesInv, Kinds, OrNone
  <1> QED BY <1>1, <1>2, CreationHolds

LEMMA CreationHoldsRole ==
    ASSUME SurfacesInv, NEW c \in Clients, NEW x \in Addrs
    PROVE  /\ GetXdgSurface(c, x) => Creates(c, "xdg_surface")
           /\ GetToplevel(c, x) => Creates(c, "toplevel")
  <1>0. /\ TypeOK /\ "xdg_surface" \in Kinds /\ "toplevel" \in Kinds
        /\ x \in OrNone(Addrs)
    BY DEF SurfacesInv, Kinds, OrNone
  <1>1. ASSUME GetXdgSurface(c, x) PROVE Creates(c, "xdg_surface")
    <2>1. PICK a \in Addrs, k \in Matches(x) :
             Free(a) /\ Puts(a, "xdg_surface", c, list[k], x)
      BY <1>1 DEF GetXdgSurface, Puts
    <2>2. list[k] \in OrNone(Structs)
      BY <1>0, <2>1, ListFacts DEF OrNone, Matches
    <2> QED BY <1>0, <2>1, <2>2, CreationHolds
  <1>2. ASSUME GetToplevel(c, x) PROVE Creates(c, "toplevel")
    <2>1. PICK a \in Addrs : Free(a) /\ Puts(a, "toplevel", c, res[x].data, x)
      BY <1>2 DEF GetToplevel, Puts
    <2>2. res[x].data \in OrNone(Structs)
      BY <1>2 DEF GetToplevel, SurfacesInv, RoleKnown, OrNone
    <2> QED BY <1>0, <2>1, <2>2, CreationHolds
  <1> QED BY <1>1, <1>2

LEMMA CreationHoldsInert ==
    ASSUME SurfacesInv, NEW c \in Clients, CreateInert(c)
    PROVE  Creates(c, "inert")
  <1>1. PICK a \in Addrs : Free(a) /\ Puts(a, "inert", c, None, None)
    BY DEF CreateInert, Puts
  <1>2. /\ TypeOK /\ "inert" \in Kinds
        /\ None \in OrNone(Structs) /\ None \in OrNone(Addrs)
    BY DEF SurfacesInv, Kinds, OrNone
  <1> QED BY <1>1, <1>2, CreationHolds

LEMMA SameHolds ==
    ASSUME NEW d, \A a \in Addrs : \A k : Held(d, k, a)' <=> Held(d, k, a)
    PROVE  HoldsSame(d)
  <1>1. \A k : Holds(d, k)' <=> Holds(d, k)
    BY DEF Holds
  <1> QED BY <1>1 DEF HoldsSame

(* What one client does leaves the others their resources. *)
OthersKeep(c) == \A d \in Clients \ {c} : HoldsSame(d) /\ client'[d] = client[d]
LEMMA StepOthers ==
    ASSUME SurfacesInv, NEW c \in Clients, Step(c)
    PROVE  OthersKeep(c)
  <1>0. /\ client \in [Clients -> {"connected", "error", "gone"}]
        /\ res \in [Addrs -> OrNone(Resources)] /\ TypeOK
    BY DEF SurfacesInv, TypeOK
  <1>1. ASSUME NEW s \in Structs, CreateSurface(c, s) PROVE OthersKeep(c)
    <2>1. Creates(c, "surface") /\ client' = client
      BY <1>1, CreationHoldsSurface DEF CreateSurface
    <2> QED BY <2>1 DEF Creates, OthersKeep
  <1>2. ASSUME NEW a \in Addrs, GetXdgSurface(c, a) \/ GetToplevel(c, a)
        PROVE  OthersKeep(c)
    <2>1. (\E k : Creates(c, k)) /\ client' = client
      BY <1>2, CreationHoldsRole DEF GetXdgSurface, GetToplevel
    <2> QED BY <2>1 DEF Creates, OthersKeep
  <1>3. ASSUME CreateInert(c) PROVE OthersKeep(c)
    <2>1. Creates(c, "inert") /\ client' = client
      BY <1>3, CreationHoldsInert DEF CreateInert
    <2> QED BY <2>1 DEF Creates, OthersKeep
  <1>4. ASSUME NEW a \in Addrs, DestroySurface(c, a) PROVE OthersKeep(c)
    <2>1. /\ res[a].client = c /\ res[a] # None /\ res[a] \in Resources
          /\ res' = [res EXCEPT ![a] = [res[a] EXCEPT !.held = FALSE]]
          /\ client' = client
      BY <1>0, <1>4 DEF DestroySurface, Held, Free, OrNone
    <2>2. res'[a].client = c /\ \A b \in Addrs : b # a => res'[b] = res[b]
      BY <2>1, <1>0 DEF Resources
    <2>3. ASSUME NEW d \in Clients \ {c} PROVE HoldsSame(d)
      <3>1. ASSUME NEW b \in Addrs, NEW k PROVE Held(d, k, b)' <=> Held(d, k, b)
        BY <2>1, <2>2 DEF Held, Free
      <3> QED BY <3>1, SameHolds
    <2> QED BY <2>1, <2>3 DEF OthersKeep
  <1>5. ASSUME NEW a \in Addrs, DestroyRole(c, a) PROVE OthersKeep(c)
    <2>1. /\ res[a].client = c /\ res' = [res EXCEPT ![a] = None] /\ client' = client
      BY <1>5 DEF DestroyRole, Held
    <2>2. ASSUME NEW d \in Clients \ {c} PROVE HoldsSame(d)
      <3>1. ASSUME NEW b \in Addrs, NEW k PROVE Held(d, k, b)' <=> Held(d, k, b)
        BY <1>0, <2>1 DEF Held, Free
      <3> QED BY <3>1, SameHolds
    <2> QED BY <2>1, <2>2 DEF OthersKeep
  <1>6. ASSUME Disconnect(c) PROVE OthersKeep(c)
    <2>1. ASSUME NEW d \in Clients \ {c} PROVE HoldsSame(d)
      <3>1. ASSUME NEW b \in Addrs, NEW k PROVE Held(d, k, b)' <=> Held(d, k, b)
        BY <1>0, <1>6 DEF Disconnect, Held, Free
      <3> QED BY <3>1, SameHolds
    <2>2. \A d \in Clients \ {c} : client'[d] = client[d]
      BY <1>0, <1>6 DEF Disconnect
    <2> QED BY <2>1, <2>2 DEF OthersKeep
  <1>7. ASSUME NoMemory(c) \/ \E a \in Addrs : CallUnhandled(c, a)
        PROVE  OthersKeep(c)
    <2>1. res' = res /\ \A d \in Clients \ {c} : client'[d] = client[d]
      BY <1>0, <1>7 DEF NoMemory, CallUnhandled
    <2>2. ASSUME NEW d \in Clients \ {c} PROVE HoldsSame(d)
      <3>1. ASSUME NEW b \in Addrs, NEW k PROVE Held(d, k, b)' <=> Held(d, k, b)
        BY <2>1 DEF Held, Free
      <3> QED BY <3>1, SameHolds
    <2> QED BY <2>1, <2>2 DEF OthersKeep
  <1> QED BY <1>1, <1>2, <1>3, <1>4, <1>5, <1>6, <1>7 DEF Step

-----------------------------------------------------------------------------
(* What a step does not touch of a client. *)
FollowsAt(c) ==
    /\ program[c] = "other" => sent[c] = <<>> /\ at[c] = "start"
    /\ program[c] # "other" /\ Connected(c) => InScript(c, program[c])
Untouched(c) ==
    /\ sent'[c] = sent[c] /\ events'[c] = events[c] /\ at'[c] = at[c]
    /\ frames'[c] = frames[c] /\ acked'[c] = acked[c] /\ shown'[c] = shown[c]
    /\ program'[c] = program[c] /\ client'[c] = client[c] /\ HoldsSame(c)
KeepsFollowing(c) == FollowsAt(c)'

LEMMA UntouchedFollows ==
    ASSUME NEW c, FollowsAt(c), Untouched(c)
    PROVE  KeepsFollowing(c)
  <1>1. ASSUME NEW p, InScript(c, p) PROVE InScript(c, p)'
    <2>1. PICK q, n \in 0 .. Ends(p) :
             /\ Served(c, p, q, n)
             /\ at[c] # "closed" => \E r \in 0 .. Rounds(p) : Under(c, p, q, n, r)
      BY <1>1 DEF InScript
    <2>2. Served(c, p, q, n)'
      BY <2>1 DEF Served, Untouched, HoldsSame
    <2>3. ASSUME NEW r, Under(c, p, q, n, r) PROVE Under(c, p, q, n, r)'
      BY <2>3 DEF Under, Untouched
    <2> QED BY <2>1, <2>2, <2>3 DEF InScript, Untouched
  <1>2. PICK p : p = program[c]
    OBVIOUS
  <1>3. program[c] # "other" /\ Connected(c) => InScript(c, p)
    BY <1>2 DEF FollowsAt
  <1> QED BY <1>1, <1>2, <1>3 DEF FollowsAt, Untouched, KeepsFollowing, Connected

LEMMA OthersUntouched ==
    ASSUME ClientsInv, NEW c \in Clients, Client(c) \/ Serve(c) \/ Other(c),
           NEW d \in Clients, d # c
    PROVE  Untouched(d)
  <1>0. SurfacesInv /\ WireType
    BY DEF ClientsInv
  <1>1. client'[d] = client[d] /\ HoldsSame(d)
    <2>1. CASE UNCHANGED vars
      <3>1. res' = res /\ client' = client
        BY <2>1 DEF vars
      <3> QED BY <3>1, SameHolds DEF Held, Free
    <2>2. CASE Step(c)
      BY <2>2, <1>0, StepOthers DEF OthersKeep
    <2>3. UNCHANGED vars \/ Step(c)
      BY DEF Client, Start, Receive, SetUp, Draw, Loop, Signal, GiveUp,
             Serve, ServeDisplay, ServeSurface, ServeToplevel, ServeAttach, ServeAck,
             ServeQuiet, ServeFails, HangUp, Other, Step
    <2> QED BY <2>1, <2>2, <2>3
  <1>2. ASSUME Client(c)
        PROVE  /\ sent'[d] = sent[d] /\ events'[d] = events[d] /\ at'[d] = at[d]
               /\ frames'[d] = frames[d] /\ acked'[d] = acked[d]
               /\ shown'[d] = shown[d] /\ program'[d] = program[d]
    BY <1>0, <1>2 DEF Client, Start, Receive, SetUp, Draw, Loop, Signal, GiveUp,
             Returned, Send, GoTo, WireType, wire, seen
  <1>3. ASSUME Serve(c)
        PROVE  /\ sent'[d] = sent[d] /\ events'[d] = events[d] /\ at'[d] = at[d]
               /\ frames'[d] = frames[d] /\ acked'[d] = acked[d]
               /\ shown'[d] = shown[d] /\ program'[d] = program[d]
    BY <1>0, <1>3 DEF Serve, ServeDisplay, ServeSurface, ServeToplevel, ServeAttach,
             ServeAck, ServeQuiet, ServeFails, HangUp, Took, Reply, GoTo,
             WireType, programs, seen
  <1>4. ASSUME Other(c)
        PROVE  /\ sent'[d] = sent[d] /\ events'[d] = events[d] /\ at'[d] = at[d]
               /\ frames'[d] = frames[d] /\ acked'[d] = acked[d]
               /\ shown'[d] = shown[d] /\ program'[d] = program[d]
    BY <1>4 DEF Other, programs, wire, seen
  <1> QED BY <1>1, <1>2, <1>3, <1>4 DEF Untouched

-----------------------------------------------------------------------------
(* Calls and events, one taken from the front, some put at the end. *)
TakesOne(s, t) == /\ Len(t) = Len(s) - 1
                  /\ \A i \in 1 .. Len(s) - 1 : t[i] = s[i + 1]
Extends(s, t, u) == /\ Len(t) = Len(s) + Len(u)
                    /\ \A i \in 1 .. Len(s) : t[i] = s[i]
                    /\ \A i \in 1 .. Len(u) : t[Len(s) + i] = u[i]

LEMMA TailTakes ==
    ASSUME NEW S, NEW s \in Seq(S), s # <<>>
    PROVE  /\ Tail(s) \in Seq(S) /\ TakesOne(s, Tail(s))
           /\ Len(s) \in Nat \ {0} /\ Head(s) = s[1]
  <1>1. PICK t : t = Tail(s)
    OBVIOUS
  <1>2. PICK n \in Nat \ {0} : n = Len(s)
    BY EmptySeq
  <1>3. t \in Seq(S) /\ Len(t) = n - 1 /\ \A i \in 1 .. n - 1 : t[i] = s[i + 1]
    BY <1>1, <1>2, HeadTailProperties
  <1> QED BY <1>1, <1>2, <1>3 DEF TakesOne

LEMMA ConcatExtends ==
    ASSUME NEW S, NEW s \in Seq(S), NEW u \in Seq(S)
    PROVE  s \o u \in Seq(S) /\ Extends(s, s \o u, u)
  <1>1. PICK t : t = s \o u
    OBVIOUS
  <1>2. PICK n, m \in Nat : n = Len(s) /\ m = Len(u)
    BY LenProperties
  <1>3. /\ t \in Seq(S) /\ Len(t) = n + m
        /\ \A i \in 1 .. n + m : t[i] = IF i <= n THEN s[i] ELSE u[i - n]
    BY <1>1, <1>2, ConcatProperties
  <1>4. ASSUME NEW i \in 1 .. n PROVE t[i] = s[i]
    <2>1. i \in 1 .. n + m /\ i <= n
      BY <1>2
    <2> QED BY <2>1, <1>3
  <1>5. ASSUME NEW i \in 1 .. m PROVE t[n + i] = u[i]
    <2>1. n + i \in 1 .. n + m /\ ~(n + i <= n) /\ n + i - n = i
      BY <1>2
    <2> QED BY <2>1, <1>3
  <1> QED BY <1>1, <1>2, <1>3, <1>4, <1>5 DEF Extends

-----------------------------------------------------------------------------
(* What is sent and told has the form of requests and events. *)
LEMMA RequestLists ==
    /\ GetRegistry \in Seq(Requests) /\ CreateShmBuffer \in Seq(Requests)
    /\ FirstFrame \in Seq(Requests) /\ <<"sync">> \in Seq(Requests)
    /\ \A p : Window(p) \in Seq(Requests)
    /\ \A p, e : Answer(p, e) \in Seq(Requests)
  <1>1. {"get_registry", "sync", "bind", "bind_wm_base", "create_pool", "create_buffer",
         "create_surface", "get_xdg_surface", "get_toplevel", "commit", "attach",
         "frame", "pong", "ack"} \subseteq Requests
    BY DEF Requests, Quiet, Creations
  <1>2. /\ <<"get_registry", "sync">> \in Seq(Requests)
        /\ <<"create_pool", "create_buffer">> \in Seq(Requests)
        /\ <<"attach", "frame", "commit">> \in Seq(Requests)
        /\ <<"sync">> \in Seq(Requests)
    BY <1>1
  <1>3. /\ <<"create_surface", "get_xdg_surface", "get_toplevel", "commit">>
               \in Seq(Requests)
        /\ <<"create_surface">> \in Seq(Requests)
    BY <1>1
  <1>4. /\ <<"bind", "bind", "bind_wm_base">> \in Seq(Requests)
        /\ <<"bind", "bind">> \in Seq(Requests)
        /\ <<"pong">> \in Seq(Requests) /\ <<"ack", "attach", "commit">> \in Seq(Requests)
        /\ <<>> \in Seq(Requests)
    BY <1>1
  <1>5. \A p : Window(p) \in Seq(Requests)
    BY <1>3 DEF Window, CreateWindow
  <1>6. ASSUME NEW p, NEW e PROVE Answer(p, e) \in Seq(Requests)
    <2>1. RegistryGlobal(p) \in Seq(Requests)
      BY <1>4 DEF RegistryGlobal
    <2>2. \/ Answer(p, e) = RegistryGlobal(p) \/ Answer(p, e) = <<"pong">>
          \/ Answer(p, e) = <<"ack", "attach", "commit">> \/ Answer(p, e) = <<>>
      BY DEF Answer, XdgWmBasePing, XdgSurfaceConfigure
    <2> QED BY <2>1, <2>2, <1>4
  <1> QED BY <1>2, <1>5, <1>6 DEF GetRegistry, CreateShmBuffer, FirstFrame

Wired(c, s, e) == /\ sent' = [sent EXCEPT ![c] = s] /\ s \in Seq(Requests)
                  /\ events' = [events EXCEPT ![c] = e] /\ e \in Seq(EventNames)
LEMMA ClientWired ==
    ASSUME WireType, NEW c \in Clients, Client(c)
    PROVE  \E s, e : Wired(c, s, e)
  <1>0. /\ sent \in [Clients -> Seq(Requests)] /\ events \in [Clients -> Seq(EventNames)]
        /\ sent[c] \in Seq(Requests) /\ events[c] \in Seq(EventNames)
        /\ sent = [sent EXCEPT ![c] = sent[c]]
        /\ events = [events EXCEPT ![c] = events[c]]
    BY DEF WireType
  <1>1. CASE UNCHANGED <<sent, events>>
    BY <1>0, <1>1 DEF Wired
  <1>2. CASE Start(c)
    <2>1. sent[c] \o GetRegistry \in Seq(Requests)
      BY <1>0, RequestLists, ConcatExtends
    <2> QED BY <2>1, <1>0, <1>2 DEF Wired, Start, Send
  <1>3. ASSUME Receive(c) \/ Returned(c), NEW u \in Seq(Requests),
               Send(c, u) \/ UNCHANGED sent
        PROVE  \E s, e : Wired(c, s, e)
    <2>1. /\ Tail(events[c]) \in Seq(EventNames)
          /\ events' = [events EXCEPT ![c] = Tail(events[c])]
      BY <1>0, <1>3, TailTakes DEF Receive, Returned
    <2>2. sent[c] \o u \in Seq(Requests)
      BY <1>0, <1>3, ConcatExtends
    <2> QED BY <2>1, <2>2, <1>0, <1>3 DEF Wired, Send
  <1>4. CASE Receive(c)
    BY <1>3, <1>4, RequestLists DEF Receive
  <1>5. CASE SetUp(c)
    <2>1. CreateShmBuffer \o Window(program[c]) \in Seq(Requests)
      BY RequestLists, ConcatExtends
    <2>2. CreateShmBuffer \o Window(program[c]) \o <<"sync">> \in Seq(Requests)
      BY <2>1, RequestLists, ConcatExtends
    <2> QED BY <1>3, <1>5, <2>2 DEF SetUp
  <1>6. CASE Draw(c)
    BY <1>3, <1>6, RequestLists DEF Draw
  <1>7. Loop(c) \/ Signal(c) \/ GiveUp(c) => UNCHANGED <<sent, events>>
    BY DEF Loop, Signal, GiveUp, wire
  <1> QED BY <1>1, <1>2, <1>4, <1>5, <1>6, <1>7 DEF Client

LEMMA ClientWireType ==
    ASSUME WireType, NEW c \in Clients, Client(c)
    PROVE  WireType'
  <1>1. PICK s, e : Wired(c, s, e)
    BY ClientWired
  <1>2. /\ sent' \in [Clients -> Seq(Requests)]
        /\ events' \in [Clients -> Seq(EventNames)]
    BY <1>1 DEF Wired, WireType
  <1>3. program' = program /\ acked' = acked /\ shown' = shown
    BY DEF Client, Start, Receive, SetUp, Draw, Loop, Signal, GiveUp, seen
  <1>4. at' = at \/ \E w \in {"globals", "configure", "test", "dispatch", "closed"} :
                       at' = [at EXCEPT ![c] = w]
    <2>1. CASE Receive(c)
      BY <2>1 DEF Receive, Waiting, GoTo
    <2> QED BY <2>1 DEF Client, Start, SetUp, Draw, Loop, Signal, GiveUp, GoTo
  <1>5. at' \in [Clients -> {"start", "globals", "configure", "test",
                            "dispatch", "closed"}]
    BY <1>4 DEF WireType
  <1>6. frames' = frames \/ frames' = [frames EXCEPT ![c] = frames[c] + 1]
    BY DEF Client, Start, Receive, SetUp, Draw, Loop, Signal, GiveUp
  <1>7. stopped' = stopped \/ stopped' = [stopped EXCEPT ![c] = TRUE]
    BY DEF Client, Start, Receive, SetUp, Draw, Loop, Signal, GiveUp
  <1>8. frames' \in [Clients -> Nat] /\ stopped' \in [Clients -> BOOLEAN]
    <2>1. frames \in [Clients -> Nat] /\ stopped \in [Clients -> BOOLEAN]
      BY DEF WireType
    <2>2. frames[c] + 1 \in Nat
      BY <2>1
    <2> QED BY <1>6, <1>7, <2>1, <2>2
  <1> QED BY <1>2, <1>3, <1>5, <1>8 DEF WireType

-----------------------------------------------------------------------------
(* One request handled.  Some are answered with an event, three create     *)
(* something the client then holds, and two leave a trace in the history.  *)
Says(c, e) == Extends(events[c], events'[c], <<e>>)
Telling == {"get_registry", "sync", "bind_wm_base", "get_toplevel"}
Handled(c) ==
    /\ sent[c] # <<>> /\ TakesOne(sent[c], sent'[c])
    /\ Holds(c, "surface")' <=> Holds(c, "surface") \/ Next1(c) = "create_surface"
    /\ Holds(c, "xdg_surface")'
          <=> Holds(c, "xdg_surface") \/ Next1(c) = "get_xdg_surface"
    /\ Holds(c, "toplevel")' <=> Holds(c, "toplevel") \/ Next1(c) = "get_toplevel"
    /\ acked'[c] = TRUE <=> acked[c] = TRUE \/ Next1(c) = "ack"
    /\ Next1(c) = "attach" => shown'[c] = shown[c] + 1
    /\ Next1(c) # "attach" => shown'[c] = shown[c]
    /\ Next1(c) = "get_registry" => Says(c, "globals")
    /\ Next1(c) = "sync" => Says(c, "done")
    /\ Next1(c) = "bind_wm_base" => Says(c, "ping")
    /\ Next1(c) = "get_toplevel" => Says(c, "configure")
    /\ Next1(c) \notin Telling => events'[c] = events[c]
    /\ UNCHANGED <<at, frames, program, client>>
Answering(c) == ServeDisplay(c) \/ ServeSurface(c) \/ ServeToplevel(c)
                \/ ServeAttach(c) \/ ServeAck(c) \/ ServeQuiet(c)

LEMMA ServeHandles ==
    ASSUME ClientsInv, NEW c \in Clients, Answering(c)
    PROVE  Handled(c)
  <1>0. /\ SurfacesInv
        /\ sent \in [Clients -> Seq(Requests)] /\ events \in [Clients -> Seq(EventNames)]
        /\ sent[c] \in Seq(Requests) /\ events[c] \in Seq(EventNames)
        /\ acked \in [Clients -> BOOLEAN] /\ shown \in [Clients -> Nat]
    BY DEF ClientsInv, WireType
  <1>1. Took(c)
    BY DEF Answering, ServeDisplay, ServeSurface, ServeToplevel, ServeAttach, ServeAck,
           ServeQuiet
  <1>2. sent[c] # <<>> /\ TakesOne(sent[c], sent'[c])
    <2>1. sent'[c] = Tail(sent[c]) /\ sent[c] # <<>>
      BY <1>0, <1>1 DEF Took
    <2> QED BY <2>1, <1>0, TailTakes
  <1>3. UNCHANGED <<at, frames, program>>
    BY <1>1 DEF Took, programs
  <1>4. ASSUME NEW e \in EventNames, Reply(c, <<e>>) PROVE Says(c, e)
    <2>1. <<e>> \in Seq(EventNames)
      BY <1>4
    <2>2. events'[c] = events[c] \o <<e>>
      BY <1>0, <1>4 DEF Reply
    <2> QED BY <2>1, <2>2, <1>0, ConcatExtends DEF Says
  <1>5. {"globals", "done", "ping", "configure"} = EventNames
    BY DEF EventNames
  <1>6. UNCHANGED vars => HoldsSame(c) /\ UNCHANGED client
    <2>1. ASSUME UNCHANGED vars PROVE HoldsSame(c) /\ UNCHANGED client
      <3>1. res' = res /\ client' = client
        BY <2>1 DEF vars
      <3> QED BY <3>1, SameHolds DEF Held, Free
    <2> QED BY <2>1
  <1>7. CASE ServeDisplay(c)
    <2>1. UNCHANGED vars /\ UNCHANGED <<acked, shown>>
      BY <1>7 DEF ServeDisplay, seen
    <2>2. \/ Next1(c) = "get_registry" /\ Says(c, "globals")
          \/ Next1(c) = "sync" /\ Says(c, "done")
          \/ Next1(c) = "bind_wm_base" /\ Says(c, "ping")
      BY <1>4, <1>5, <1>7 DEF ServeDisplay
    <2> QED BY <1>2, <1>3, <1>6, <2>1, <2>2 DEF Handled, Telling, HoldsSame
  <1>8. CASE ServeSurface(c)
    <2>1. events' = events /\ UNCHANGED <<acked, shown>> /\ UNCHANGED client
      BY <1>8 DEF ServeSurface, seen, CreateSurface, GetXdgSurface
    <2>2. \/ Next1(c) = "create_surface" /\ Creates(c, "surface")
          \/ Next1(c) = "get_xdg_surface" /\ Creates(c, "xdg_surface")
      BY <1>0, <1>8, CreationHoldsSurface, CreationHoldsRole DEF ServeSurface
    <2>3. CASE Next1(c) = "create_surface" /\ Creates(c, "surface")
      BY <1>2, <1>3, <2>1, <2>3 DEF Handled, Telling, Creates, HoldsMore
    <2>4. CASE Next1(c) = "get_xdg_surface" /\ Creates(c, "xdg_surface")
      BY <1>2, <1>3, <2>1, <2>4 DEF Handled, Telling, Creates, HoldsMore
    <2> QED BY <2>2, <2>3, <2>4
  <1>9. CASE ServeToplevel(c)
    <2>1. Says(c, "configure") /\ UNCHANGED <<acked, shown>> /\ UNCHANGED client
          /\ Next1(c) = "get_toplevel"
      BY <1>4, <1>5, <1>9 DEF ServeToplevel, seen, GetToplevel
    <2>2. Creates(c, "toplevel")
      BY <1>0, <1>9, CreationHoldsRole DEF ServeToplevel
    <2> QED BY <1>2, <1>3, <2>1, <2>2 DEF Handled, Telling, Creates, HoldsMore
  <1>10. CASE ServeAttach(c)
    <2>1. UNCHANGED vars /\ events' = events /\ acked' = acked
          /\ shown'[c] = shown[c] + 1 /\ Next1(c) = "attach"
      BY <1>0, <1>10 DEF ServeAttach
    <2> QED BY <1>2, <1>3, <1>6, <2>1 DEF Handled, Telling, HoldsSame
  <1>11. CASE ServeAck(c)
    <2>1. UNCHANGED vars /\ events' = events /\ shown' = shown
          /\ acked'[c] = TRUE /\ Next1(c) = "ack"
      BY <1>0, <1>11 DEF ServeAck
    <2> QED BY <1>2, <1>3, <1>6, <2>1 DEF Handled, Telling, HoldsSame
  <1>12. CASE ServeQuiet(c)
    <2>1. UNCHANGED vars /\ events' = events /\ UNCHANGED <<acked, shown>>
          /\ Next1(c) \notin Telling
          /\ Next1(c) \notin {"create_surface", "get_xdg_surface", "attach", "ack"}
      BY <1>12 DEF ServeQuiet, seen, Quiet, Telling
    <2> QED BY <1>2, <1>3, <1>6, <2>1 DEF Handled, Telling, HoldsSame
  <1> QED BY <1>7, <1>8, <1>9, <1>10, <1>11, <1>12 DEF Answering

LEMMA ServeWireType ==
    ASSUME WireType, NEW c \in Clients, Serve(c)
    PROVE  WireType'
  <1>0. /\ sent[c] \in Seq(Requests) /\ events[c] \in Seq(EventNames)
        /\ shown[c] + 1 \in Nat
    BY DEF WireType
  <1>1. \/ sent' = [sent EXCEPT ![c] = Tail(sent[c])] /\ sent[c] # <<>>
        \/ sent' = [sent EXCEPT ![c] = <<>>]
    BY DEF Serve, ServeDisplay, ServeSurface, ServeToplevel, ServeAttach, ServeAck,
           ServeQuiet, ServeFails, HangUp, Took
  <1>2. \/ events' = events \/ events' = [events EXCEPT ![c] = <<>>]
        \/ \E e \in EventNames : events' = [events EXCEPT ![c] = events[c] \o <<e>>]
    BY DEF Serve, ServeDisplay, ServeSurface, ServeToplevel, ServeAttach, ServeAck,
           ServeQuiet, ServeFails, HangUp, Reply, EventNames
  <1>3. sent' \in [Clients -> Seq(Requests)]
    <2>1. /\ <<>> \in Seq(Requests)
          /\ sent[c] # <<>> => Tail(sent[c]) \in Seq(Requests)
      BY <1>0, TailTakes, EmptySeq
    <2> QED BY <1>1, <2>1 DEF WireType
  <1>4. events' \in [Clients -> Seq(EventNames)]
    <2>1. <<>> \in Seq(EventNames)
      BY EmptySeq
    <2>2. ASSUME NEW e \in EventNames PROVE events[c] \o <<e>> \in Seq(EventNames)
      <3>1. <<e>> \in Seq(EventNames)
        OBVIOUS
      <3> QED BY <3>1, <1>0, ConcatExtends
    <2> QED BY <1>2, <2>1, <2>2 DEF WireType
  <1>5. /\ program' = program
        /\ at' = at \/ at' = [at EXCEPT ![c] = "closed"]
        /\ frames' = frames \/ frames' = [frames EXCEPT ![c] = 0]
        /\ stopped' = stopped \/ stopped' = [stopped EXCEPT ![c] = FALSE]
        /\ acked' = acked \/ acked' = [acked EXCEPT ![c] = TRUE]
                          \/ acked' = [acked EXCEPT ![c] = FALSE]
        /\ shown' = shown \/ shown' = [shown EXCEPT ![c] = 0]
                          \/ shown' = [shown EXCEPT ![c] = shown[c] + 1]
    BY DEF Serve, ServeDisplay, ServeSurface, ServeToplevel, ServeAttach, ServeAck,
           ServeQuiet, ServeFails, HangUp, Took, GoTo, programs, seen
  <1>6. /\ at' \in [Clients -> {"start", "globals", "configure", "test",
                                "dispatch", "closed"}]
        /\ frames' \in [Clients -> Nat] /\ stopped' \in [Clients -> BOOLEAN]
        /\ acked' \in [Clients -> BOOLEAN] /\ shown' \in [Clients -> Nat]
    <2>1. at' \in [Clients -> {"start", "globals", "configure", "test",
                               "dispatch", "closed"}]
      BY <1>5 DEF WireType
    <2>2. frames' \in [Clients -> Nat]
      <3>1. frames \in [Clients -> Nat] /\ 0 \in Nat
        BY DEF WireType
      <3>2. frames' = frames \/ frames' = [frames EXCEPT ![c] = 0]
        BY <1>5
      <3> QED BY <3>1, <3>2
    <2>3. stopped' \in [Clients -> BOOLEAN]
      BY <1>5 DEF WireType
    <2>4. acked' \in [Clients -> BOOLEAN]
      BY <1>5 DEF WireType
    <2>5. shown' \in [Clients -> Nat]
      <3>1. shown \in [Clients -> Nat] /\ 0 \in Nat
        BY DEF WireType
      <3>2. \/ shown' = shown \/ shown' = [shown EXCEPT ![c] = 0]
            \/ shown' = [shown EXCEPT ![c] = shown[c] + 1]
        BY <1>5
      <3> QED BY <1>0, <3>1, <3>2
    <2> QED BY <2>1, <2>2, <2>3, <2>4, <2>5
  <1> QED BY <1>3, <1>4, <1>5, <1>6 DEF WireType

(* The request that is handled is the next of the script. *)
LEMMA NextOfScript ==
    ASSUME NEW c, NEW p, NEW n \in 0 .. Ends(p), NEW q \in 0 .. n,
           sent[c] \in Seq(Requests), sent[c] # <<>>, Served(c, p, q, n)
    PROVE  q + 1 \in 1 .. n /\ Next1(c) = Script(p)[q + 1]
  <1>1. Len(sent[c]) \in Nat \ {0} /\ Next1(c) = sent[c][1]
    BY TailTakes DEF Next1
  <1>2. q \in Nat /\ n \in Nat /\ 1 \in 1 .. n - q
    <2>1. Ends(p) \in Nat
      BY DEF Ends
    <2> QED BY <1>1, <2>1 DEF Served
  <1>3. Len(sent[c]) = n - q /\ \A i \in 1 .. n - q : sent[c][i] = Script(p)[q + i]
    BY DEF Served
  <1>4. sent[c][1] = Script(p)[q + 1]
    BY <1>2, <1>3
  <1>5. q + 1 \in 1 .. n
    BY <1>2
  <1> QED BY <1>1, <1>4, <1>5

LEMMA HandledXdg ==
    ASSUME NEW c, NEW n \in 0 .. 19, NEW q \in 0 .. n,
           sent[c] \in Seq(Requests), Served(c, "xdg", q, n), Handled(c),
           shown[c] \in Nat
    PROVE  Served(c, "xdg", q + 1, n)'
  <1>1. /\ q + 1 \in 1 .. n /\ Next1(c) = Script("xdg")[q + 1]
        /\ q \in Nat /\ n \in Nat /\ q + 1 \in 1 .. 19
    <2>1. q + 1 \in 1 .. n /\ Next1(c) = Script("xdg")[q + 1]
      BY NextOfScript DEF Ends, Handled
    <2> QED BY <2>1
  <1>2. /\ Next1(c) = "create_surface" <=> q + 1 = 8
        /\ Next1(c) = "get_xdg_surface" <=> q + 1 = 9
        /\ Next1(c) = "get_toplevel" <=> q + 1 = 10
        /\ Next1(c) = "ack" <=> q + 1 = 14
        /\ Next1(c) = "attach" <=> q + 1 \in {15, 17}
    <2>1. PICK k \in 1 .. 19 : k = q + 1
      BY <1>1
    <2>2. Next1(c) = Script("xdg")[k]
      BY <1>1, <2>1
    <2>3. /\ Next1(c) = "create_surface" <=> k = 8
          /\ Next1(c) = "get_xdg_surface" <=> k = 9
          /\ Next1(c) = "get_toplevel" <=> k = 10
          /\ Next1(c) = "ack" <=> k = 14
          /\ Next1(c) = "attach" <=> k \in {15, 17}
      <3>1. PICK r : r = Script("xdg")[k]
        OBVIOUS
      <3>2. /\ r = "create_surface" <=> k = 8
            /\ r = "get_xdg_surface" <=> k = 9
            /\ r = "get_toplevel" <=> k = 10
            /\ r = "ack" <=> k = 14
            /\ r = "attach" <=> k \in {15, 17}
        BY <3>1, XdgScript
      <3> QED BY <2>2, <3>1, <3>2
    <2> QED BY <2>1, <2>3
  <1>3. /\ Holds(c, "surface") <=> q >= 8
        /\ Holds(c, "xdg_surface") <=> q >= 9
        /\ Holds(c, "toplevel") <=> q >= 10
        /\ acked[c] = TRUE <=> q >= 14
        /\ shown[c] = IF q < 15 THEN 0 ELSE IF q < 17 THEN 1 ELSE 2
        /\ Len(sent[c]) = n - q
        /\ \A i \in 1 .. n - q : sent[c][i] = Script("xdg")[q + i]
    BY DEF Served
  <1>4. /\ Len(sent'[c]) = n - (q + 1)
        /\ \A i \in 1 .. n - (q + 1) : sent'[c][i] = Script("xdg")[q + 1 + i]
    <2>1. /\ Len(sent'[c]) = n - q - 1
          /\ \A i \in 1 .. n - q - 1 : sent'[c][i] = sent[c][i + 1]
      BY <1>3 DEF Handled, TakesOne
    <2>2. ASSUME NEW i \in 1 .. n - (q + 1)
          PROVE  sent'[c][i] = Script("xdg")[q + 1 + i]
      <3>1. i \in 1 .. n - q - 1 /\ i + 1 \in 1 .. n - q /\ q + (i + 1) = q + 1 + i
        BY <1>1
      <3>2. sent'[c][i] = sent[c][i + 1] /\ sent[c][i + 1] = Script("xdg")[q + (i + 1)]
        BY <3>1, <2>1, <1>3
      <3> QED BY <3>1, <3>2
    <2> QED BY <2>1, <2>2, <1>1
  <1>5. /\ Holds(c, "surface")' <=> q + 1 >= 8
        /\ Holds(c, "xdg_surface")' <=> q + 1 >= 9
        /\ Holds(c, "toplevel")' <=> q + 1 >= 10
        /\ acked'[c] = TRUE <=> q + 1 >= 14
    BY <1>1, <1>2, <1>3 DEF Handled
  <1>6. shown'[c] = IF q + 1 < 15 THEN 0 ELSE IF q + 1 < 17 THEN 1 ELSE 2
    <2>1. CASE q + 1 \in {15, 17}
      <3>1. shown'[c] = shown[c] + 1
        BY <2>1, <1>2 DEF Handled
      <3> QED BY <3>1, <2>1, <1>1, <1>3
    <2>2. CASE q + 1 \notin {15, 17}
      <3>1. shown'[c] = shown[c]
        BY <2>2, <1>2 DEF Handled
      <3> QED BY <3>1, <2>2, <1>1, <1>3
    <2> QED BY <2>1, <2>2
  <1> QED BY <1>1, <1>4, <1>5, <1>6 DEF Served, Ends

LEMMA HandledPure ==
    ASSUME NEW c, NEW p, p # "xdg", NEW n \in 0 .. 11, NEW q \in 0 .. n,
           sent[c] \in Seq(Requests), Served(c, p, q, n), Handled(c),
           shown[c] \in Nat
    PROVE  Served(c, p, q + 1, n)'
  <1>1. /\ q + 1 \in 1 .. n /\ Next1(c) = Script(p)[q + 1]
        /\ q \in Nat /\ n \in Nat /\ q + 1 \in 1 .. 11
    <2>1. q + 1 \in 1 .. n /\ Next1(c) = Script(p)[q + 1]
      BY NextOfScript DEF Ends, Handled
    <2> QED BY <2>1
  <1>2. /\ Next1(c) = "create_surface" <=> q + 1 = 7
        /\ Next1(c) = "attach" <=> q + 1 = 9
    BY <1>1, PureScript
  <1>3. /\ Holds(c, "surface") <=> q >= 7
        /\ shown[c] = IF q < 9 THEN 0 ELSE 1
        /\ Len(sent[c]) = n - q
        /\ \A i \in 1 .. n - q : sent[c][i] = Script(p)[q + i]
    BY DEF Served
  <1>4. /\ Len(sent'[c]) = n - (q + 1)
        /\ \A i \in 1 .. n - (q + 1) : sent'[c][i] = Script(p)[q + 1 + i]
    <2>1. /\ Len(sent'[c]) = n - q - 1
          /\ \A i \in 1 .. n - q - 1 : sent'[c][i] = sent[c][i + 1]
      BY <1>3 DEF Handled, TakesOne
    <2>2. ASSUME NEW i \in 1 .. n - (q + 1)
          PROVE  sent'[c][i] = Script(p)[q + 1 + i]
      <3>1. i \in 1 .. n - q - 1 /\ i + 1 \in 1 .. n - q /\ q + (i + 1) = q + 1 + i
        BY <1>1
      <3>2. sent'[c][i] = sent[c][i + 1] /\ sent[c][i + 1] = Script(p)[q + (i + 1)]
        BY <3>1, <2>1, <1>3
      <3> QED BY <3>1, <3>2
    <2> QED BY <2>1, <2>2, <1>1
  <1>5. Holds(c, "surface")' <=> q + 1 >= 7
    BY <1>1, <1>2, <1>3 DEF Handled
  <1>6. shown'[c] = IF q + 1 < 9 THEN 0 ELSE 1
    BY <1>1, <1>2, <1>3 DEF Handled
  <1> QED BY <1>1, <1>4, <1>5, <1>6 DEF Served, Ends

(* The event that answers it is the next of those the client is told. *)
LEMMA AnsweredIsNumber == \A p, q : Answered(p, q) \in Nat
  BY DEF Answered

LEMMA AnswerOfScript ==
    ASSUME NEW c, NEW p, NEW k \in 1 .. Ends(p), NEW r \in 0 .. Rounds(p),
           Next1(c) = Script(p)[k], Handled(c), Answered(p, k - 1) >= r
    PROVE  /\ Answered(p, k) \in Nat /\ Answered(p, k - 1) \in Nat
           /\ \/ Answered(p, k) = Answered(p, k - 1) /\ events'[c] = events[c]
              \/ /\ Answered(p, k) = Answered(p, k - 1) + 1
                 /\ Says(c, Told(p)[Answered(p, k)])
  <1>1. CASE p = "xdg"
    <2>1. k \in 1 .. 19
      BY <1>1 DEF Ends
    <2>2. /\ Next1(c) = "get_registry" <=> k = 1
          /\ Next1(c) = "sync" <=> k \in {2, 12}
          /\ Next1(c) = "bind_wm_base" <=> k = 5
          /\ Next1(c) = "get_toplevel" <=> k = 10
      BY <2>1, <1>1, XdgScript
    <2>3. PICK t : t = Told(p)
      OBVIOUS
    <2>4. /\ t[1] = "globals" /\ t[2] = "done" /\ t[3] = "ping"
          /\ t[4] = "configure" /\ t[5] = "done"
      BY <1>1, <2>3 DEF Told
    <2>5. /\ k = 1 => Says(c, t[1])
          /\ k = 2 => Says(c, t[2])
          /\ k = 5 => Says(c, t[3])
          /\ k = 10 => Says(c, t[4])
          /\ k = 12 => Says(c, t[5])
          /\ k \notin {1, 2, 5, 10, 12} => events'[c] = events[c]
      BY <2>2, <2>4 DEF Handled, Telling
    <2>6. CASE k \notin {1, 2, 5, 10, 12}
      <3>1. Answered(p, k) = Answered(p, k - 1) /\ Answered(p, k) \in Nat
        BY <2>1, <2>6, <1>1 DEF Answered
      <3> QED BY <3>1, <2>5, <2>6
    <2>7. CASE k \in {1, 2, 5, 10, 12}
      <3>1. /\ Answered(p, k) = Answered(p, k - 1) + 1
            /\ Answered(p, k) \in Nat /\ Answered(p, k - 1) \in Nat
        BY <2>7, <1>1 DEF Answered
      <3>2. /\ k = 1 => Answered(p, k) = 1
            /\ k = 2 => Answered(p, k) = 2
            /\ k = 5 => Answered(p, k) = 3
            /\ k = 10 => Answered(p, k) = 4
            /\ k = 12 => Answered(p, k) = 5
        BY <1>1 DEF Answered
      <3>3. Says(c, t[Answered(p, k)])
        BY <2>7, <2>5, <3>2
      <3> QED BY <3>1, <3>3, <2>3
    <2> QED BY <2>6, <2>7
  <1>2. CASE p # "xdg"
    <2>1. k \in 1 .. 11
      BY <1>2 DEF Ends
    <2>2. /\ Next1(c) = "get_registry" <=> k = 1
          /\ Next1(c) = "sync" <=> k \in {2, 8}
          /\ Next1(c) \notin {"bind_wm_base", "get_toplevel"}
      BY <2>1, <1>2, PureScript
    <2>3. PICK t : t = Told(p)
      OBVIOUS
    <2>4. t[1] = "globals" /\ t[2] = "done" /\ t[3] = "done"
      BY <1>2, <2>3 DEF Told
    <2>5. /\ k = 1 => Says(c, t[1])
          /\ k = 2 => Says(c, t[2])
          /\ k = 8 => Says(c, t[3])
          /\ k \notin {1, 2, 8} => events'[c] = events[c]
      BY <2>2, <2>4 DEF Handled, Telling
    <2>6. CASE k \notin {1, 2, 8}
      <3>1. Answered(p, k) = Answered(p, k - 1) /\ Answered(p, k) \in Nat
        BY <2>1, <2>6, <1>2 DEF Answered
      <3> QED BY <3>1, <2>5, <2>6
    <2>7. CASE k \in {1, 2, 8}
      <3>1. /\ Answered(p, k) = Answered(p, k - 1) + 1
            /\ Answered(p, k) \in Nat /\ Answered(p, k - 1) \in Nat
        BY <2>7, <1>2 DEF Answered
      <3>2. /\ k = 1 => Answered(p, k) = 1
            /\ k = 2 => Answered(p, k) = 2
            /\ k = 8 => Answered(p, k) = 3
        BY <1>2 DEF Answered
      <3>3. Says(c, t[Answered(p, k)])
        BY <2>7, <2>5, <3>2
      <3> QED BY <3>1, <3>3, <2>3
    <2> QED BY <2>6, <2>7
  <1> QED BY <1>1, <1>2

LEMMA AnsweringFollows ==
    ASSUME ClientsInv, NEW c \in Clients, Answering(c), FollowsAt(c)
    PROVE  KeepsFollowing(c)
  <1>0. /\ sent[c] \in Seq(Requests) /\ shown[c] \in Nat
        /\ Handled(c) /\ sent[c] # <<>> /\ Connected(c)
        /\ program[c] # "other"
    <2>1. Handled(c)
      BY ServeHandles
    <2>2. sent[c] # <<>> /\ Connected(c)
      BY DEF Answering, ServeDisplay, ServeSurface, ServeToplevel, ServeAttach, ServeAck,
             ServeQuiet, Took, Connected
    <2> QED BY <2>1, <2>2 DEF ClientsInv, WireType, FollowsAt
  <1>1. PICK p : p = program[c]
    OBVIOUS
  <1>2. PICK q, n \in 0 .. Ends(p) :
             /\ Served(c, p, q, n)
             /\ at[c] # "closed" => \E r \in 0 .. Rounds(p) : Under(c, p, q, n, r)
    BY <1>0, <1>1 DEF FollowsAt, InScript
  <1>3. /\ q \in 0 .. n /\ q + 1 \in 1 .. n /\ Next1(c) = Script(p)[q + 1]
        /\ q \in Nat /\ n \in Nat /\ q + 1 \in 1 .. Ends(p)
    <2>1. q \in 0 .. n
      BY <1>2 DEF Served
    <2>2. q + 1 \in 1 .. n /\ Next1(c) = Script(p)[q + 1]
      BY <1>0, <1>2, <2>1, NextOfScript
    <2>3. Ends(p) \in Nat
      BY DEF Ends
    <2> QED BY <2>1, <2>2, <2>3
  <1>4. Served(c, p, q + 1, n)'
    <2>1. CASE p = "xdg"
      BY <2>1, <1>0, <1>2, <1>3, HandledXdg DEF Ends
    <2>2. CASE p # "xdg"
      BY <2>2, <1>0, <1>2, <1>3, HandledPure DEF Ends
    <2> QED BY <2>1, <2>2
  <1>5. ASSUME NEW r \in 0 .. Rounds(p), Under(c, p, q, n, r)
        PROVE  Under(c, p, q + 1, n, r)'
    <2>1. q + 1 - 1 = q /\ r \in Nat
      <3>1. Rounds(p) \in Nat
        BY DEF Rounds
      <3> QED BY <1>3, <3>1
    <2>2. /\ Answered(p, q) >= r
          /\ Len(events[c]) = Answered(p, q) - r
          /\ \A i \in 1 .. Answered(p, q) - r : events[c][i] = Told(p)[r + i]
      BY <1>5 DEF Under
    <2>3. PICK a, b \in Nat : a = Answered(p, q) /\ b = Answered(p, q + 1)
      <3>1. Answered(p, q) \in Nat /\ Answered(p, q + 1) \in Nat
        BY AnsweredIsNumber
      <3> QED BY <3>1
    <2>4. \/ b = a /\ events'[c] = events[c]
          \/ b = a + 1 /\ Says(c, Told(p)[b])
      BY <1>0, <1>3, <2>1, <2>2, <2>3, AnswerOfScript DEF Says
    <2>5. /\ b >= r /\ Len(events'[c]) = b - r
          /\ \A i \in 1 .. b - r : events'[c][i] = Told(p)[r + i]
      <3>1. CASE b = a /\ events'[c] = events[c]
        BY <3>1, <2>2, <2>3
      <3>2. CASE b = a + 1 /\ Says(c, Told(p)[b])
        <4>1. PICK u : u = <<Told(p)[b]>>
          OBVIOUS
        <4>2. Len(u) = 1 /\ u[1] = Told(p)[b]
          BY <4>1
        <4>3. /\ Len(events'[c]) = a - r + 1
              /\ \A i \in 1 .. a - r : events'[c][i] = Told(p)[r + i]
              /\ events'[c][a - r + 1] = Told(p)[b]
          <5>1. Extends(events[c], events'[c], u)
            BY <3>2, <4>1 DEF Says
          <5>2. PICK l \in Nat : l = a - r
            BY <2>1, <2>2, <2>3
          <5>3. /\ Len(events'[c]) = l + 1
                /\ \A i \in 1 .. l : events'[c][i] = events[c][i]
                /\ \A i \in 1 .. 1 : events'[c][l + i] = u[i]
            BY <5>1, <5>2, <4>2, <2>2, <2>3 DEF Extends
          <5>4. \A i \in 1 .. l : events[c][i] = Told(p)[r + i]
            BY <5>2, <2>2, <2>3
          <5>5. events'[c][l + 1] = Told(p)[b] /\ 1 \in 1 .. 1
            BY <5>3, <4>2
          <5> QED BY <5>2, <5>3, <5>4, <5>5
        <4>4. ASSUME NEW i \in 1 .. b - r PROVE events'[c][i] = Told(p)[r + i]
          <5>1. CASE i = a - r + 1
            <6>1. r + i = b
              BY <5>1, <3>2, <2>1, <2>3
            <6> QED BY <5>1, <6>1, <4>3
          <5>2. CASE i # a - r + 1
            <6>1. i \in 1 .. a - r
              BY <5>2, <4>4, <3>2, <2>1, <2>3
            <6> QED BY <6>1, <4>3
          <5> QED BY <5>1, <5>2
        <4>5. b >= r /\ a - r + 1 = b - r
          <5>1. b = a + 1 /\ a >= r
            BY <3>2, <2>2, <2>3
          <5> QED BY <5>1, <2>1
        <4> QED BY <4>3, <4>4, <4>5
      <3> QED BY <3>1, <3>2, <2>4
    <2>6. UNCHANGED <<at, frames>>
      BY <1>0 DEF Handled
    <2> QED BY <1>5, <2>3, <2>5, <2>6 DEF Under
  <1>6. UNCHANGED <<at, program, client>>
    BY <1>0 DEF Handled
  <1>7. InScript(c, p)'
    <2>1. q + 1 \in 0 .. Ends(p)
      BY <1>3
    <2>2. at'[c] # "closed" => \E r \in 0 .. Rounds(p) : Under(c, p, q + 1, n, r)'
      BY <1>2, <1>5, <1>6
    <2> QED BY <2>1, <2>2, <1>2, <1>4 DEF InScript
  <1> QED BY <1>0, <1>1, <1>6, <1>7 DEF KeepsFollowing, FollowsAt

LEMMA ServeFollows ==
    ASSUME ClientsInv, NEW c \in Clients, Serve(c), FollowsAt(c)
    PROVE  KeepsFollowing(c)
  <1>0. /\ client \in [Clients -> {"connected", "error", "gone"}]
        /\ sent \in [Clients -> Seq(Requests)]
    BY DEF ClientsInv, SurfacesInv, TypeOK, WireType
  <1>1. CASE ServeFails(c)
    <2>1. /\ client'[c] = "error" /\ program' = program
          /\ sent[c] # <<>>
      BY <1>0, <1>1 DEF ServeFails, NoMemory, Took, programs
    <2> QED BY <2>1 DEF KeepsFollowing, FollowsAt, Connected
  <1>2. CASE HangUp(c)
    <2>1. client'[c] = "gone" /\ program' = program /\ program[c] # "other"
      BY <1>0, <1>2 DEF HangUp, Disconnect, Runs
    <2> QED BY <2>1 DEF KeepsFollowing, FollowsAt, Connected
  <1> QED BY <1>1, <1>2, AnsweringFollows DEF Serve, Answering

-----------------------------------------------------------------------------
(* What the programs ask for at a time continues the script. *)
Asks(p, n, m, u) == /\ n \in 0 .. Ends(p) /\ m \in n .. Ends(p) /\ Len(u) = m - n
                    /\ \A j \in 1 .. m - n : u[j] = Script(p)[n + j]
SetUpList(p) == CreateShmBuffer \o Window(p) \o <<"sync">>

LEMMA AsksXdg ==
    /\ Asks("xdg", 0, 2, GetRegistry)
    /\ Asks("xdg", 2, 5, RegistryGlobal("xdg"))
    /\ Asks("xdg", 5, 12, SetUpList("xdg"))
    /\ Asks("xdg", 12, 13, XdgWmBasePing)
    /\ Asks("xdg", 13, 16, XdgSurfaceConfigure)
    /\ Asks("xdg", 16, 19, FirstFrame)
  <1>1. PICK t : t = Script("xdg")
    OBVIOUS
  <1>2. /\ t[1] = "get_registry" /\ t[2] = "sync" /\ t[3] = "bind"
        /\ t[4] = "bind" /\ t[5] = "bind_wm_base" /\ t[6] = "create_pool"
        /\ t[7] = "create_buffer" /\ t[8] = "create_surface"
        /\ t[9] = "get_xdg_surface" /\ t[10] = "get_toplevel"
        /\ t[11] = "commit" /\ t[12] = "sync" /\ t[13] = "pong"
        /\ t[14] = "ack" /\ t[15] = "attach" /\ t[16] = "commit"
        /\ t[17] = "attach" /\ t[18] = "frame" /\ t[19] = "commit"
    BY <1>1 DEF Script
  <1>3. /\ \A j : j \in 1 .. 1 => j = 1
        /\ \A j : j \in 1 .. 2 => j = 1 \/ j = 2
        /\ \A j : j \in 1 .. 3 => j = 1 \/ j = 2 \/ j = 3
        /\ \A j : j \in 1 .. 7 => j = 1 \/ j = 2 \/ j = 3 \/ j = 4 \/ j = 5 \/ j = 6 \/ j = 7
    OBVIOUS
  <1>4. Asks("xdg", 0, 2, GetRegistry)
    <2>1. PICK u : u = GetRegistry
      OBVIOUS
    <2>2. Len(u) = 2 /\ u[1] = t[0 + 1] /\ u[2] = t[0 + 2]
      BY <2>1, <1>2 DEF GetRegistry
    <2>3. Len(u) = 2 - 0 /\ \A j \in 1 .. 2 - 0 : u[j] = t[0 + j]
      BY <2>2, <1>3
    <2> QED BY <2>1, <2>3, <1>1 DEF Asks, Ends
  <1>5. Asks("xdg", 2, 5, RegistryGlobal("xdg"))
    <2>1. PICK u : u = RegistryGlobal("xdg")
      OBVIOUS
    <2>2. Len(u) = 3 /\ u[1] = t[2 + 1] /\ u[2] = t[2 + 2] /\ u[3] = t[2 + 3]
      BY <2>1, <1>2 DEF RegistryGlobal
    <2>3. Len(u) = 5 - 2 /\ \A j \in 1 .. 5 - 2 : u[j] = t[2 + j]
      BY <2>2, <1>3
    <2> QED BY <2>1, <2>3, <1>1 DEF Asks, Ends
  <1>6. Asks("xdg", 5, 12, SetUpList("xdg"))
    <2>1. PICK u : u = SetUpList("xdg")
      OBVIOUS
    <2>2. PICK v, w, z : /\ v = CreateShmBuffer \o w /\ w = Window("xdg")
                         /\ z = <<"sync">>
      OBVIOUS
    <2>3. /\ v \in Seq(Requests) /\ Extends(CreateShmBuffer, v, w)
          /\ Extends(v, u, z) /\ Len(z) = 1 /\ z[1] = "sync"
      BY <2>1, <2>2, RequestLists, ConcatExtends DEF SetUpList
    <2>4. /\ Len(v) = 6 /\ v[1] = "create_pool" /\ v[2] = "create_buffer"
          /\ v[2 + 1] = "create_surface" /\ v[2 + 2] = "get_xdg_surface"
          /\ v[2 + 3] = "get_toplevel" /\ v[2 + 4] = "commit"
      BY <2>2, <2>3 DEF Extends, CreateShmBuffer, Window, CreateWindow
    <2>5. Len(u) = 7 /\ u[6 + 1] = "sync" /\ \A j \in 1 .. 6 : u[j] = v[j]
      <3>1. /\ Len(u) = 6 + 1 /\ \A j \in 1 .. 6 : u[j] = v[j]
            /\ \A j \in 1 .. 1 : u[6 + j] = z[j]
        BY <2>3, <2>4 DEF Extends
      <3>2. 1 \in 1 .. 1
        OBVIOUS
      <3> QED BY <3>1, <3>2, <2>3
    <2>6. /\ u[1] = t[5 + 1] /\ u[2] = t[5 + 2] /\ u[3] = t[5 + 3]
          /\ u[4] = t[5 + 4] /\ u[5] = t[5 + 5] /\ u[6] = t[5 + 6] /\ u[7] = t[5 + 7]
      BY <2>4, <2>5, <1>2
    <2>7. Len(u) = 12 - 5 /\ \A j \in 1 .. 12 - 5 : u[j] = t[5 + j]
      BY <2>5, <2>6, <1>3
    <2> QED BY <2>1, <2>7, <1>1 DEF Asks, Ends
  <1>7. Asks("xdg", 12, 13, XdgWmBasePing)
    <2>1. PICK u : u = XdgWmBasePing
      OBVIOUS
    <2>2. Len(u) = 1 /\ u[1] = t[12 + 1]
      BY <2>1, <1>2 DEF XdgWmBasePing
    <2>3. Len(u) = 13 - 12 /\ \A j \in 1 .. 13 - 12 : u[j] = t[12 + j]
      BY <2>2, <1>3
    <2> QED BY <2>1, <2>3, <1>1 DEF Asks, Ends
  <1>8. Asks("xdg", 13, 16, XdgSurfaceConfigure)
    <2>1. PICK u : u = XdgSurfaceConfigure
      OBVIOUS
    <2>2. Len(u) = 3 /\ u[1] = t[13 + 1] /\ u[2] = t[13 + 2] /\ u[3] = t[13 + 3]
      BY <2>1, <1>2 DEF XdgSurfaceConfigure
    <2>3. Len(u) = 16 - 13 /\ \A j \in 1 .. 16 - 13 : u[j] = t[13 + j]
      BY <2>2, <1>3
    <2> QED BY <2>1, <2>3, <1>1 DEF Asks, Ends
  <1>9. Asks("xdg", 16, 19, FirstFrame)
    <2>1. PICK u : u = FirstFrame
      OBVIOUS
    <2>2. Len(u) = 3 /\ u[1] = t[16 + 1] /\ u[2] = t[16 + 2] /\ u[3] = t[16 + 3]
      BY <2>1, <1>2 DEF FirstFrame
    <2>3. Len(u) = 19 - 16 /\ \A j \in 1 .. 19 - 16 : u[j] = t[16 + j]
      BY <2>2, <1>3
    <2> QED BY <2>1, <2>3, <1>1 DEF Asks, Ends
  <1> QED BY <1>4, <1>5, <1>6, <1>7, <1>8, <1>9

LEMMA AsksPure ==
    ASSUME NEW p, p # "xdg"
    PROVE  /\ Asks(p, 0, 2, GetRegistry)
           /\ Asks(p, 2, 4, RegistryGlobal(p))
           /\ Asks(p, 4, 8, SetUpList(p))
           /\ Asks(p, 8, 11, FirstFrame)
  <1>1. PICK t : t = Script(p)
    OBVIOUS
  <1>2. /\ t[1] = "get_registry" /\ t[2] = "sync" /\ t[3] = "bind"
        /\ t[4] = "bind" /\ t[5] = "create_pool" /\ t[6] = "create_buffer"
        /\ t[7] = "create_surface" /\ t[8] = "sync" /\ t[9] = "attach"
        /\ t[10] = "frame" /\ t[11] = "commit"
    BY <1>1 DEF Script
  <1>3. /\ \A j : j \in 1 .. 2 => j = 1 \/ j = 2
        /\ \A j : j \in 1 .. 3 => j = 1 \/ j = 2 \/ j = 3
        /\ \A j : j \in 1 .. 4 => j = 1 \/ j = 2 \/ j = 3 \/ j = 4
    OBVIOUS
  <1>4. Asks(p, 0, 2, GetRegistry)
    <2>1. PICK u : u = GetRegistry
      OBVIOUS
    <2>2. Len(u) = 2 /\ u[1] = t[0 + 1] /\ u[2] = t[0 + 2]
      BY <2>1, <1>2 DEF GetRegistry
    <2>3. Len(u) = 2 - 0 /\ \A j \in 1 .. 2 - 0 : u[j] = t[0 + j]
      BY <2>2, <1>3
    <2> QED BY <2>1, <2>3, <1>1 DEF Asks, Ends
  <1>5. Asks(p, 2, 4, RegistryGlobal(p))
    <2>1. PICK u : u = RegistryGlobal(p)
      OBVIOUS
    <2>2. Len(u) = 2 /\ u[1] = t[2 + 1] /\ u[2] = t[2 + 2]
      BY <2>1, <1>2 DEF RegistryGlobal
    <2>3. Len(u) = 4 - 2 /\ \A j \in 1 .. 4 - 2 : u[j] = t[2 + j]
      BY <2>2, <1>3
    <2> QED BY <2>1, <2>3, <1>1 DEF Asks, Ends
  <1>6. Asks(p, 4, 8, SetUpList(p))
    <2>1. PICK u : u = SetUpList(p)
      OBVIOUS
    <2>2. PICK v, w, z : /\ v = CreateShmBuffer \o w /\ w = Window(p)
                         /\ z = <<"sync">>
      OBVIOUS
    <2>3. /\ v \in Seq(Requests) /\ Extends(CreateShmBuffer, v, w)
          /\ Extends(v, u, z) /\ Len(z) = 1 /\ z[1] = "sync"
      BY <2>1, <2>2, RequestLists, ConcatExtends DEF SetUpList
    <2>4. /\ Len(v) = 3 /\ v[1] = "create_pool" /\ v[2] = "create_buffer"
          /\ v[2 + 1] = "create_surface"
      BY <2>2, <2>3 DEF Extends, CreateShmBuffer, Window
    <2>5. Len(u) = 4 /\ u[3 + 1] = "sync" /\ \A j \in 1 .. 3 : u[j] = v[j]
      <3>1. /\ Len(u) = 3 + 1 /\ \A j \in 1 .. 3 : u[j] = v[j]
            /\ \A j \in 1 .. 1 : u[3 + j] = z[j]
        BY <2>3, <2>4 DEF Extends
      <3>2. 1 \in 1 .. 1
        OBVIOUS
      <3> QED BY <3>1, <3>2, <2>3
    <2>6. /\ u[1] = t[4 + 1] /\ u[2] = t[4 + 2]
          /\ u[3] = t[4 + 3] /\ u[4] = t[4 + 4]
      BY <2>4, <2>5, <1>2
    <2>7. Len(u) = 8 - 4 /\ \A j \in 1 .. 8 - 4 : u[j] = t[4 + j]
      BY <2>5, <2>6, <1>3
    <2> QED BY <2>1, <2>7, <1>1 DEF Asks, Ends
  <1>7. Asks(p, 8, 11, FirstFrame)
    <2>1. PICK u : u = FirstFrame
      OBVIOUS
    <2>2. Len(u) = 3 /\ u[1] = t[8 + 1] /\ u[2] = t[8 + 2] /\ u[3] = t[8 + 3]
      BY <2>1, <1>2 DEF FirstFrame
    <2>3. Len(u) = 11 - 8 /\ \A j \in 1 .. 11 - 8 : u[j] = t[8 + j]
      BY <2>2, <1>3
    <2> QED BY <2>1, <2>3, <1>1 DEF Asks, Ends
  <1> QED BY <1>4, <1>5, <1>6, <1>7

-----------------------------------------------------------------------------
(* The steps of a program. *)
LEMMA ClientHolds ==
    ASSUME NEW c \in Clients, Client(c)
    PROVE  /\ HoldsSame(c) /\ acked' = acked /\ shown' = shown
           /\ program' = program /\ client' = client
  <1>1. UNCHANGED vars /\ UNCHANGED seen /\ program' = program
    BY DEF Client, Start, Receive, SetUp, Draw, Loop, Signal, GiveUp
  <1>2. res' = res /\ client' = client
    BY <1>1 DEF vars
  <1> QED BY <1>1, <1>2, SameHolds DEF Held, Free, seen

LEMMA MoreAsked ==
    ASSUME NEW c \in Clients, Client(c), NEW p, NEW q, NEW n, NEW m, NEW u,
           Served(c, p, q, n), Asks(p, n, m, u), Extends(sent[c], sent'[c], u)
    PROVE  Served(c, p, q, m)'
  <1>0. Ends(p) \in Nat
    BY DEF Ends
  <1>1. /\ n \in Nat /\ m \in Nat /\ q \in Nat /\ q \in 0 .. m /\ m \in 0 .. Ends(p)
        /\ q <= n /\ n <= m
    BY <1>0 DEF Served, Asks
  <1>2. /\ Len(sent[c]) = n - q
        /\ \A i \in 1 .. n - q : sent[c][i] = Script(p)[q + i]
    BY DEF Served
  <1>3. Len(u) = m - n /\ \A j \in 1 .. m - n : u[j] = Script(p)[n + j]
    BY DEF Asks
  <1>4. /\ Len(sent'[c]) = n - q + (m - n)
        /\ \A i \in 1 .. n - q : sent'[c][i] = sent[c][i]
        /\ \A i \in 1 .. m - n : sent'[c][n - q + i] = u[i]
    BY <1>2, <1>3 DEF Extends
  <1>5. Len(sent'[c]) = m - q
    BY <1>1, <1>4
  <1>6. ASSUME NEW i \in 1 .. m - q PROVE sent'[c][i] = Script(p)[q + i]
    <2>1. CASE i <= n - q
      <3>1. i \in 1 .. n - q
        BY <2>1, <1>1
      <3> QED BY <3>1, <1>2, <1>4
    <2>2. CASE ~(i <= n - q)
      <3>1. PICK j \in 1 .. m - n : j = i - (n - q)
        BY <2>2, <1>1
      <3>2. n - q + j = i /\ n + j = q + i
        BY <3>1, <1>1
      <3>3. sent'[c][n - q + j] = Script(p)[n + j]
        BY <1>3, <1>4
      <3> QED BY <3>2, <3>3
    <2> QED BY <2>1, <2>2
  <1> QED BY <1>1, <1>5, <1>6, ClientHolds DEF Served, HoldsSame

(* A round: an event is taken, and what is asked for on it continues the   *)
(* script.                                                                 *)
AtRound(p, w, r) == /\ w # "start"
                    /\ w = "globals" => r \in {0, 1}
                    /\ w = "configure" => r # 0 /\ r # 1 /\ r # Rounds(p)
                    /\ w \in {"test", "dispatch"} => r = Rounds(p)
LEMMA ShiftsByOne ==
    \A a, r \in Nat : \A i \in 1 .. a - (r + 1) :
      i \in 1 .. a - r - 1 /\ i + 1 \in 1 .. a - r /\ r + (i + 1) = r + 1 + i
  OBVIOUS

LEMMA RoundFollows ==
    ASSUME WireType, NEW c \in Clients, Client(c), NEW p, NEW n, NEW q,
           NEW r \in 0 .. Rounds(p), NEW u \in Seq(Requests), NEW w,
           Served(c, p, q, n), Under(c, p, q, n, r), at[c] # "start", r # Rounds(p),
           events[c] # <<>>, events'[c] = Tail(events[c]), sent'[c] = sent[c] \o u,
           Asks(p, Asked(p, r), Asked(p, r + 1), u),
           at'[c] = w, AtRound(p, w, r + 1),
           frames'[c] = IF r + 1 = Rounds(p) THEN 1 ELSE 0
    PROVE  InScript(c, p)'
  <1>0. sent[c] \in Seq(Requests) /\ events[c] \in Seq(EventNames)
    BY DEF WireType
  <1>1. PICK m : m = Asked(p, r + 1)
    OBVIOUS
  <1>2. n = Asked(p, r)
    BY DEF Under
  <1>3. Served(c, p, q, m)'
    BY <1>0, <1>1, <1>2, MoreAsked, ConcatExtends
  <1>4. PICK a : a = Answered(p, q)
    OBVIOUS
  <1>5. /\ a \in Nat /\ r \in Nat /\ r + 1 \in 0 .. Rounds(p)
    <2>1. Rounds(p) \in Nat
      BY DEF Rounds
    <2> QED BY <2>1, <1>4 DEF Answered
  <1>6. /\ a >= r /\ Len(events[c]) = a - r
        /\ \A i \in 1 .. a - r : events[c][i] = Told(p)[r + i]
    BY <1>4 DEF Under
  <1>7. /\ Len(events[c]) \in Nat \ {0} /\ Len(events'[c]) = a - r - 1
        /\ \A i \in 1 .. a - r - 1 : events'[c][i] = events[c][i + 1]
    BY <1>0, <1>6, TailTakes DEF TakesOne
  <1>8. a >= r + 1 /\ Len(events'[c]) = a - (r + 1)
    BY <1>5, <1>6, <1>7
  <1>9. ASSUME NEW i \in 1 .. a - (r + 1) PROVE events'[c][i] = Told(p)[r + 1 + i]
    <2>1. i \in 1 .. a - r - 1 /\ i + 1 \in 1 .. a - r /\ r + (i + 1) = r + 1 + i
      BY <1>5, ShiftsByOne
    <2>2. events'[c][i] = events[c][i + 1] /\ events[c][i + 1] = Told(p)[r + (i + 1)]
      BY <2>1, <1>6, <1>7
    <2> QED BY <2>1, <2>2
  <1>10. Under(c, p, q, m, r + 1)'
    <2>1. w # "start" /\ (w = "start" <=> r + 1 = 0 /\ m = 0)
      BY <1>5 DEF AtRound
    <2> QED BY <2>1, <1>1, <1>4, <1>5, <1>8, <1>9 DEF Under, AtRound
  <1>11. q \in 0 .. Ends(p) /\ m \in 0 .. Ends(p)
    <2>1. q \in 0 .. n /\ n \in 0 .. Ends(p) /\ m \in n .. Ends(p)
      BY <1>1, <1>2 DEF Served, Asks
    <2>2. Ends(p) \in Nat
      BY DEF Ends
    <2> QED BY <2>1, <2>2
  <1> QED BY <1>3, <1>5, <1>10, <1>11 DEF InScript

(* Where a program that waits stands in its script: it is told "globals"   *)
(* first, then that they are there, and what follows the window it makes.  *)
LEMMA WhereItWaits ==
    ASSUME WireType, NEW c \in Clients, NEW p, NEW n, NEW q, NEW r \in 0 .. Rounds(p),
           Under(c, p, q, n, r), events[c] # <<>>, at[c] \in Waiting
    PROVE  /\ r # Rounds(p) /\ at[c] # "dispatch"
           /\ Head(events[c]) = Told(p)[r + 1]
           /\ at[c] = "globals" => IF Head(events[c]) = "done" THEN r = 1 ELSE r = 0
           /\ at[c] = "configure" =>
                 IF Head(events[c]) = "done" THEN r = Rounds(p) - 1
                 ELSE p = "xdg" /\ \/ r = 2 /\ Head(events[c]) = "ping"
                                   \/ r = 3 /\ Head(events[c]) = "configure"
  <1>0. events[c] \in Seq(EventNames)
    BY DEF WireType
  <1>1. PICK a : a = Answered(p, q)
    OBVIOUS
  <1>2. a \in Nat /\ r \in Nat /\ a <= Rounds(p)
    BY <1>1 DEF Answered, Rounds
  <1>3. /\ Len(events[c]) = a - r
        /\ \A i \in 1 .. a - r : events[c][i] = Told(p)[r + i]
        /\ Len(events[c]) \in Nat \ {0} /\ Head(events[c]) = events[c][1]
    BY <1>0, <1>1, TailTakes DEF Under
  <1>4. r # Rounds(p) /\ r < Rounds(p)
    BY <1>2, <1>3 DEF Rounds
  <1>5. Head(events[c]) = Told(p)[r + 1]
    <2>1. 1 \in 1 .. a - r
      BY <1>2, <1>3
    <2> QED BY <2>1, <1>3
  <1>6. PICK e : e = Told(p)[r + 1]
    OBVIOUS
  <1>7. /\ p = "xdg" => /\ r + 1 \in 1 .. 5
                        /\ e = "done" <=> r + 1 \in {2, 5}
                        /\ e = "ping" <=> r + 1 = 3
                        /\ e = "configure" <=> r + 1 = 4
        /\ p # "xdg" => /\ r + 1 \in 1 .. 3
                        /\ e = "done" <=> r + 1 \in {2, 3}
    <2>1. CASE p = "xdg"
      <3>1. r + 1 \in 1 .. 5
        BY <2>1, <1>2, <1>4 DEF Rounds
      <3> QED BY <2>1, <3>1, <1>6, TellFacts
    <2>2. CASE p # "xdg"
      <3>1. r + 1 \in 1 .. 3
        BY <2>2, <1>2, <1>4 DEF Rounds
      <3> QED BY <2>2, <3>1, <1>6, TellFacts
    <2> QED BY <2>1, <2>2
  <1>8. /\ at[c] = "globals" => r \in {0, 1}
        /\ at[c] = "configure" => r # 0 /\ r # 1 /\ r # Rounds(p)
        /\ at[c] # "dispatch"
    BY <1>4 DEF Under
  <1>9. at[c] = "globals" => IF e = "done" THEN r = 1 ELSE r = 0
    BY <1>2, <1>7, <1>8
  <1>10. at[c] = "configure" =>
                 IF e = "done" THEN r = Rounds(p) - 1
                 ELSE p = "xdg" /\ \/ r = 2 /\ e = "ping"
                                   \/ r = 3 /\ e = "configure"
    <2>1. CASE p = "xdg"
      BY <2>1, <1>2, <1>7, <1>8 DEF Rounds
    <2>2. CASE p # "xdg"
      BY <2>2, <1>2, <1>7, <1>8 DEF Rounds
    <2> QED BY <2>1, <2>2
  <1> QED BY <1>4, <1>5, <1>6, <1>8, <1>9, <1>10

LEMMA ClientFollows ==
    ASSUME ClientsInv, NEW c \in Clients, Client(c), FollowsAt(c),
           program[c] # "other", Connected(c)
    PROVE  KeepsFollowing(c)
  <1>0. /\ WireType
        /\ sent \in [Clients -> Seq(Requests)] /\ events \in [Clients -> Seq(EventNames)]
        /\ at \in [Clients -> {"start", "globals", "configure", "test",
                               "dispatch", "closed"}]
        /\ frames \in [Clients -> Nat]
    BY DEF ClientsInv, WireType
  <1>1. PICK p : p = program[c]
    OBVIOUS
  <1>2. PICK q, n \in 0 .. Ends(p) :
             /\ Served(c, p, q, n)
             /\ at[c] # "closed" => \E r \in 0 .. Rounds(p) : Under(c, p, q, n, r)
    BY <1>1 DEF FollowsAt, InScript
  <1> SUFFICES InScript(c, p)'
    BY <1>1, ClientHolds DEF KeepsFollowing, FollowsAt
  <1>3. ASSUME sent'[c] = sent[c] PROVE Served(c, p, q, n)'
    BY <1>2, <1>3, ClientHolds DEF Served, HoldsSame
  <1>4. ASSUME sent'[c] = sent[c], at'[c] = "closed" PROVE InScript(c, p)'
    BY <1>2, <1>3, <1>4 DEF InScript
  <1>5. CASE Start(c)
    <2>1. PICK r \in 0 .. Rounds(p) : Under(c, p, q, n, r)
      BY <1>2, <1>5 DEF Start
    <2>2. /\ at[c] = "start" /\ at'[c] = "globals" /\ r = 0 /\ n = 0
          /\ sent'[c] = sent[c] \o GetRegistry
          /\ events' = events /\ frames' = frames
      BY <1>0, <1>5, <2>1 DEF Start, GoTo, Send, Under
    <2>3. Extends(sent[c], sent'[c], GetRegistry)
      BY <1>0, <2>2, RequestLists, ConcatExtends
    <2>4. Asks(p, n, 2, GetRegistry)
      BY <2>2, AsksXdg, AsksPure
    <2>5. Served(c, p, q, 2)'
      BY <1>2, <2>3, <2>4, MoreAsked
    <2>6. Under(c, p, q, 2, 0)'
      <3>1. Asked(p, 0) = 2
        BY DEF Asked
      <3> QED BY <2>1, <2>2, <3>1 DEF Under
    <2>7. 0 \in 0 .. Rounds(p) /\ 2 \in 0 .. Ends(p)
      BY DEF Rounds, Ends
    <2> QED BY <1>2, <2>5, <2>6, <2>7 DEF InScript
  <1>6. ASSUME NEW r \in 0 .. Rounds(p), Under(c, p, q, n, r), NEW u \in Seq(Requests),
               NEW w, at[c] \in Waiting, r # Rounds(p), events[c] # <<>>,
               events'[c] = Tail(events[c]), sent'[c] = sent[c] \o u,
               Asks(p, Asked(p, r), Asked(p, r + 1), u), at'[c] = w,
               AtRound(p, w, r + 1), frames'[c] = IF r + 1 = Rounds(p) THEN 1 ELSE 0
        PROVE  InScript(c, p)'
    <2>1. at[c] # "start"
      BY <1>6 DEF Waiting
    <2> QED BY <2>1, <1>0, <1>2, <1>6, RoundFollows
  <1>7. CASE Receive(c)
    <2>1. PICK e : e = Head(events[c])
      OBVIOUS
    <2>2. /\ at[c] \in Waiting /\ events[c] # <<>> /\ e # "done"
          /\ events'[c] = Tail(events[c]) /\ frames' = frames
          /\ sent'[c] = sent[c] \o Answer(p, e)
          /\ at'[c] = IF at[c] = "dispatch" THEN "test" ELSE at[c]
      BY <1>0, <1>1, <1>7, <2>1 DEF Receive, GoTo, Send
    <2>3. PICK r \in 0 .. Rounds(p) : Under(c, p, q, n, r)
      BY <1>2, <2>2 DEF Waiting
    <2>4. /\ r # Rounds(p) /\ at[c] # "dispatch" /\ e = Told(p)[r + 1]
          /\ at[c] = "globals" => r = 0
          /\ at[c] = "configure" => p = "xdg" /\ \/ r = 2 /\ e = "ping"
                                                 \/ r = 3 /\ e = "configure"
      BY <1>0, <2>1, <2>2, <2>3, WhereItWaits
    <2>5. at[c] = "globals" \/ at[c] = "configure"
      BY <2>2, <2>4 DEF Waiting
    <2>6. Asks(p, Asked(p, r), Asked(p, r + 1), Answer(p, e))
      <3>1. CASE at[c] = "globals"
        <4>1. r = 0 /\ e = "globals"
          BY <3>1, <2>4 DEF Told
        <4>2. Answer(p, e) = RegistryGlobal(p)
          BY <4>1 DEF Answer
        <4>3. CASE p = "xdg"
          BY <4>1, <4>2, <4>3, AsksXdg DEF Asked
        <4>4. CASE p # "xdg"
          BY <4>1, <4>2, <4>4, AsksPure DEF Asked
        <4> QED BY <4>3, <4>4
      <3>2. CASE p = "xdg" /\ r = 2 /\ e = "ping"
        <4>1. Answer(p, e) = XdgWmBasePing
          BY <3>2 DEF Answer
        <4> QED BY <3>2, <4>1, AsksXdg DEF Asked
      <3>3. CASE p = "xdg" /\ r = 3 /\ e = "configure"
        <4>1. Answer(p, e) = XdgSurfaceConfigure
          BY <3>3 DEF Answer
        <4> QED BY <3>3, <4>1, AsksXdg DEF Asked
      <3> QED BY <2>4, <2>5, <3>1, <3>2, <3>3
    <2>7. AtRound(p, at[c], r + 1) /\ r + 1 # Rounds(p)
      BY <2>2, <2>4, <2>5 DEF AtRound, Rounds
    <2>8. frames'[c] = IF r + 1 = Rounds(p) THEN 1 ELSE 0
      BY <2>2, <2>3, <2>4, <2>7 DEF Under
    <2>9. PICK w : w = at[c] /\ at'[c] = w
      BY <2>2, <2>4
    <2>10. PICK u \in Seq(Requests) : u = Answer(p, e)
      BY RequestLists
    <2> QED BY <1>6, <2>2, <2>3, <2>4, <2>6, <2>7, <2>8, <2>9, <2>10
  <1>8. CASE SetUp(c)
    <2>1. /\ at[c] = "globals" /\ events[c] # <<>> /\ Head(events[c]) = "done"
          /\ events'[c] = Tail(events[c]) /\ frames' = frames
      BY <1>0, <1>8 DEF SetUp, Returned
    <2>2. \/ sent'[c] = sent[c] \o SetUpList(p) /\ at'[c] = "configure"
          \/ sent'[c] = sent[c] /\ at'[c] = "closed"
      BY <1>0, <1>1, <1>8 DEF SetUp, GoTo, Send, SetUpList
    <2>3. PICK r \in 0 .. Rounds(p) : Under(c, p, q, n, r)
      BY <1>2, <2>1
    <2>4. r # Rounds(p) /\ r = 1
      BY <1>0, <2>1, <2>3, WhereItWaits DEF Waiting
    <2>5. Asks(p, Asked(p, r), Asked(p, r + 1), SetUpList(p))
      <3>1. CASE p = "xdg"
        BY <3>1, <2>4, AsksXdg DEF Asked
      <3>2. CASE p # "xdg"
        BY <3>2, <2>4, AsksPure DEF Asked
      <3> QED BY <3>1, <3>2
    <2>6. AtRound(p, "configure", r + 1) /\ r + 1 # Rounds(p)
      BY <2>4 DEF AtRound, Rounds
    <2>7. frames'[c] = IF r + 1 = Rounds(p) THEN 1 ELSE 0
      BY <2>1, <2>3, <2>4, <2>6 DEF Under
    <2>8. PICK u \in Seq(Requests) : u = SetUpList(p)
      <3>1. CreateShmBuffer \o Window(p) \in Seq(Requests)
        BY RequestLists, ConcatExtends
      <3>2. SetUpList(p) \in Seq(Requests)
        BY <3>1, RequestLists, ConcatExtends DEF SetUpList
      <3> QED BY <3>2
    <2> QED BY <1>4, <1>6, <2>1, <2>2, <2>3, <2>4, <2>5, <2>6, <2>7, <2>8 DEF Waiting
  <1>9. CASE Draw(c)
    <2>1. /\ at[c] = "configure" /\ events[c] # <<>> /\ Head(events[c]) = "done"
          /\ events'[c] = Tail(events[c]) /\ frames'[c] = frames[c] + 1
          /\ sent'[c] = sent[c] \o FirstFrame /\ at'[c] = "test"
      BY <1>0, <1>9 DEF Draw, Returned, GoTo, Send
    <2>2. PICK r \in 0 .. Rounds(p) : Under(c, p, q, n, r)
      BY <1>2, <2>1
    <2>3. r = Rounds(p) - 1
      BY <1>0, <2>1, <2>2, WhereItWaits DEF Waiting
    <2>4. r # Rounds(p) /\ r + 1 = Rounds(p)
      BY <2>3 DEF Rounds
    <2>5. Asks(p, Asked(p, r), Asked(p, r + 1), FirstFrame)
      <3>1. CASE p = "xdg"
        BY <3>1, <2>3, AsksXdg DEF Asked, Rounds
      <3>2. CASE p # "xdg"
        BY <3>2, <2>3, AsksPure DEF Asked, Rounds
      <3> QED BY <3>1, <3>2
    <2>6. AtRound(p, "test", r + 1)
      BY <2>4 DEF AtRound
    <2>7. frames'[c] = IF r + 1 = Rounds(p) THEN 1 ELSE 0
      BY <2>1, <2>2, <2>4 DEF Under
    <2>8. at[c] \in Waiting /\ FirstFrame \in Seq(Requests)
      BY <2>1, RequestLists DEF Waiting
    <2> QED BY <1>6, <2>1, <2>2, <2>4, <2>5, <2>6, <2>7, <2>8
  <1>10. CASE Loop(c)
    <2>1. /\ at[c] = "test" /\ at'[c] \in {"closed", "dispatch"}
          /\ sent' = sent /\ events' = events /\ frames' = frames
      BY <1>0, <1>10 DEF Loop, GoTo, wire
    <2>2. PICK r \in 0 .. Rounds(p) : Under(c, p, q, n, r)
      BY <1>2, <2>1
    <2>3. at'[c] = "dispatch" => Under(c, p, q, n, r)'
      BY <2>1, <2>2 DEF Under
    <2> QED BY <1>2, <1>3, <1>4, <2>1, <2>3 DEF InScript
  <1>11. CASE Signal(c)
    <2>1. sent' = sent /\ events' = events /\ frames' = frames /\ at' = at
      BY <1>11 DEF Signal, wire
    <2>2. ASSUME NEW r, Under(c, p, q, n, r) PROVE Under(c, p, q, n, r)'
      BY <2>1, <2>2 DEF Under
    <2> QED BY <1>2, <1>3, <2>1, <2>2 DEF InScript
  <1>12. CASE GiveUp(c)
    <2>1. sent' = sent /\ at'[c] = "closed"
      BY <1>0, <1>12 DEF GiveUp, GoTo, wire
    <2> QED BY <1>4, <2>1
  <1> QED BY <1>5, <1>7, <1>8, <1>9, <1>10, <1>11, <1>12 DEF Client

-----------------------------------------------------------------------------
LEMMA InitFollows == InitClients => ClientsInv
  <1> SUFFICES ASSUME InitClients PROVE ClientsInv
    OBVIOUS
  <1>1. SurfacesInv
    BY InitSurfaces DEF InitClients
  <1>2. WireType
    <2>1. <<>> \in Seq(Requests) /\ <<>> \in Seq(EventNames)
      BY EmptySeq
    <2> QED BY <2>1 DEF InitClients, WireType
  <1>3. ASSUME NEW c \in Clients PROVE FollowsAt(c)
    <2>1. /\ sent[c] = <<>> /\ events[c] = <<>> /\ at[c] = "start" /\ frames[c] = 0
          /\ acked[c] = FALSE /\ shown[c] = 0
      BY DEF InitClients
    <2>2. \A k : ~Holds(c, k)
      BY DEF InitClients, Init, Holds, Held, Free
    <2>3. Len(sent[c]) = 0 /\ Len(events[c]) = 0
      BY <2>1, EmptySeq
    <2>4. ASSUME NEW p PROVE InScript(c, p)
      <3>1. Served(c, p, 0, 0)
        BY <2>1, <2>2, <2>3 DEF Served, Ends
      <3>2. Answered(p, 0) = 0
        BY DEF Answered
      <3>3. Under(c, p, 0, 0, 0)
        BY <2>1, <2>3, <3>2 DEF Under, Rounds
      <3>4. 0 \in 0 .. Ends(p) /\ 0 \in 0 .. Rounds(p)
        BY DEF Ends, Rounds
      <3> QED BY <3>1, <3>3, <3>4 DEF InScript
    <2> QED BY <2>1, <2>4 DEF FollowsAt
  <1> QED BY <1>1, <1>2, <1>3 DEF ClientsInv, Follows, FollowsAt

LEMMA NextFollows == ClientsInv /\ [NextClients]_all => ClientsInv'
  <1> SUFFICES ASSUME ClientsInv, [NextClients]_all PROVE ClientsInv'
    OBVIOUS
  <1>0. SurfacesInv /\ WireType /\ \A c \in Clients : FollowsAt(c)
    BY DEF ClientsInv, Follows, FollowsAt
  <1>1. SurfacesInv'
    BY <1>0, NextSurfaces, ClientsSteps DEF all
  <1>2. CASE UNCHANGED all
    <2>1. UNCHANGED <<res, client>> /\ UNCHANGED <<program, at, stopped, frames>>
          /\ UNCHANGED <<sent, events>> /\ UNCHANGED <<acked, shown>>
      BY <1>2 DEF all, vars, programs, wire, seen
    <2>2. WireType'
      BY <2>1, <1>0 DEF WireType
    <2>3. ASSUME NEW c \in Clients PROVE KeepsFollowing(c)
      <3>1. HoldsSame(c)
        BY <2>1, SameHolds DEF Held, Free
      <3>2. Untouched(c)
        BY <2>1, <3>1 DEF Untouched
      <3> QED BY <3>2, <1>0, UntouchedFollows
    <2> QED BY <1>1, <2>2, <2>3 DEF ClientsInv, Follows, KeepsFollowing, FollowsAt
  <1>3. ASSUME NEW c \in Clients, Client(c) \/ Serve(c) \/ Other(c) PROVE ClientsInv'
    <2>1. WireType'
      <3>1. CASE Other(c)
        BY <3>1, <1>0 DEF Other, programs, wire, seen, WireType
      <3> QED BY <3>1, <1>0, <1>3, ClientWireType, ServeWireType
    <2>2. KeepsFollowing(c)
      <3>1. CASE Serve(c)
        BY <3>1, <1>0, ServeFollows
      <3>2. CASE Other(c)
        BY <3>2, <1>0 DEF Other, programs, wire, Runs, KeepsFollowing, FollowsAt
      <3>3. CASE Client(c)
        <4>1. CASE program[c] = "other"
          <5>1. at[c] = "start"
            BY <4>1, <1>0 DEF FollowsAt
          <5> QED BY <3>3, <4>1, <5>1 DEF Client, Start, Receive, SetUp, Draw, Loop,
                    Signal, GiveUp, Runs, Waiting
        <4>2. CASE program[c] # "other" /\ ~Connected(c)
          <5>1. program' = program /\ client' = client
            BY <3>3, ClientHolds
          <5> QED BY <4>2, <5>1 DEF KeepsFollowing, FollowsAt, Connected
        <4> QED BY <4>1, <4>2, <3>3, <1>0, ClientFollows
      <3> QED BY <1>3, <3>1, <3>2, <3>3
    <2>3. ASSUME NEW d \in Clients PROVE KeepsFollowing(d)
      <3>1. CASE d # c
        BY <3>1, <1>0, <1>3, OthersUntouched, UntouchedFollows
      <3> QED BY <3>1, <2>2
    <2> QED BY <1>1, <2>1, <2>3 DEF ClientsInv, Follows, KeepsFollowing, FollowsAt
  <1> QED BY <1>2, <1>3 DEF NextClients

(* The surface a client holds lives. *)
LEMMA SurfaceLives ==
    ASSUME SurfacesInv, NEW c \in Clients, Holds(c, "surface")
    PROVE  state[res[Surface(c)].data] = "live"
  <1>1. Surface(c) \in Addrs /\ Held(c, "surface", Surface(c))
    BY DEF Holds, Surface
  <1> QED BY <1>1 DEF SurfacesInv, SurfaceData

LEMMA FollowsFits == ClientsInv => WellBehaved
  <1> SUFFICES ASSUME ClientsInv, NEW c \in Clients, Connected(c), sent[c] # <<>>
               PROVE  Fits(c, Next1(c))
    BY DEF WellBehaved
  <1>0. SurfacesInv /\ sent[c] \in Seq(Requests) /\ acked[c] \in BOOLEAN
    BY DEF ClientsInv, WireType
  <1>1. PICK p : p = program[c]
    OBVIOUS
  <1>2. InScript(c, p)
    BY <1>1 DEF ClientsInv, Follows
  <1>3. PICK q, n \in 0 .. Ends(p) : Served(c, p, q, n)
    BY <1>2 DEF InScript
  <1>4. q \in 0 .. n
    BY <1>3 DEF Served
  <1>5. PICK r : r = Next1(c)
    OBVIOUS
  <1>6. PICK k \in 1 .. n : k = q + 1 /\ r = Script(p)[k]
    BY <1>0, <1>3, <1>4, <1>5, NextOfScript
  <1>7. k \in 1 .. Ends(p) /\ q = k - 1
    BY <1>3, <1>6 DEF Ends
  <1>8. CASE p = "xdg"
    <2>1. /\ r = "get_xdg_surface" <=> k = 9
          /\ r = "get_toplevel" <=> k = 10
          /\ r = "ack" <=> k = 14
          /\ r = "attach" <=> k \in {15, 17}
          /\ r \in {"attach", "frame", "commit"} => k >= 11
      BY <1>6, <1>7, <1>8, XdgScript DEF Ends
    <2>2. /\ Holds(c, "surface") <=> q >= 8
          /\ Holds(c, "xdg_surface") <=> q >= 9
          /\ Holds(c, "toplevel") <=> q >= 10
          /\ acked[c] = TRUE <=> q >= 14
      BY <1>3, <1>8 DEF Served
    <2>3. /\ r \in {"attach", "frame", "commit"} => Holds(c, "surface")
          /\ r = "attach" => acked[c] = TRUE
          /\ r = "get_xdg_surface" => Holds(c, "surface") /\ ~Holds(c, "xdg_surface")
          /\ r = "get_toplevel" => Holds(c, "xdg_surface") /\ ~Holds(c, "toplevel")
          /\ r = "ack" => Holds(c, "xdg_surface")
      BY <1>7, <2>1, <2>2 DEF Ends
    <2> QED BY <1>0, <1>5, <2>3, SurfaceLives DEF Fits
  <1>9. CASE p # "xdg"
    <2>1. /\ r \in {"attach", "frame", "commit"} => k >= 9
          /\ r \notin {"bind_wm_base", "get_xdg_surface", "get_toplevel", "ack"}
      BY <1>6, <1>7, <1>9, PureScript DEF Ends
    <2>2. Holds(c, "surface") <=> q >= 7
      BY <1>3, <1>9 DEF Served
    <2>3. r \in {"attach", "frame", "commit"} => Holds(c, "surface")
      BY <1>7, <2>1, <2>2 DEF Ends
    <2> QED BY <1>0, <1>1, <1>5, <1>9, <2>1, <2>3, SurfaceLives DEF Fits
  <1> QED BY <1>8, <1>9

LEMMA FollowsSettles == ClientsInv => Settled
  <1> SUFFICES ASSUME ClientsInv, NEW c \in Clients, at[c] = "dispatch", Connected(c)
               PROVE  /\ frames[c] = 1 /\ events[c] = <<>>
                      /\ sent[c] = <<>> =>
                         /\ Holds(c, "surface") /\ state[res[Surface(c)].data] = "live"
                         /\ program[c] = "xdg" => Holds(c, "toplevel") /\ acked[c]
                         /\ shown[c] = IF program[c] = "xdg" THEN 2 ELSE 1
    BY DEF Settled
  <1>0. SurfacesInv /\ events[c] \in Seq(EventNames) /\ acked[c] \in BOOLEAN
    BY DEF ClientsInv, WireType
  <1>1. PICK p : p = program[c]
    OBVIOUS
  <1>2. InScript(c, p)
    BY <1>1 DEF ClientsInv, Follows
  <1>3. PICK q, n \in 0 .. Ends(p), r \in 0 .. Rounds(p) :
             Served(c, p, q, n) /\ Under(c, p, q, n, r)
    BY <1>2 DEF InScript
  <1>4. r = Rounds(p) /\ frames[c] = 1 /\ n = Asked(p, r)
    BY <1>3 DEF Under
  <1>5. n = Ends(p)
    BY <1>4 DEF Asked, Rounds, Ends
  <1>6. events[c] = <<>>
    <2>1. Len(events[c]) = Answered(p, q) - r /\ Answered(p, q) <= r /\ Answered(p, q) >= r
          /\ r \in Nat /\ Answered(p, q) \in Nat
      BY <1>3, <1>4 DEF Under, Answered, Rounds
    <2>2. Len(events[c]) = 0
      BY <2>1
    <2> QED BY <2>2, <1>0, EmptySeq
  <1>7. ASSUME sent[c] = <<>>
        PROVE  /\ Holds(c, "surface")
               /\ p = "xdg" => Holds(c, "toplevel") /\ acked[c] = TRUE
               /\ shown[c] = IF p = "xdg" THEN 2 ELSE 1
    <2>1. Len(sent[c]) = 0
      BY <1>7, EmptySeq
    <2>2. q = n
      BY <1>3, <2>1 DEF Served, Ends
    <2> QED BY <1>3, <1>5, <2>2 DEF Served, Ends
  <1> QED BY <1>0, <1>1, <1>4, <1>6, <1>7, SurfaceLives

(* The requests of the test clients are those of a well-behaved client:    *)
(* each names what the client has, a surface that lives, a role where      *)
(* there is none yet, and no buffer is attached before the configure event *)
(* is acknowledged (client-xdg.c:312).                                     *)
THEOREM ClientsWellBehaved == ClientsSpec => []WellBehaved
  BY InitFollows, NextFollows, FollowsFits, PTL DEF ClientsSpec

(* A test client that waits in its main loop is never told anything again; *)
(* its requests handled, it has its surface, with its role, its buffer was *)
(* announced, and it drew one frame (compositor_surface.c:76).             *)
THEOREM ClientsSettled == ClientsSpec => []Settled
  BY InitFollows, NextFollows, FollowsSettles, PTL DEF ClientsSpec
=============================================================================
