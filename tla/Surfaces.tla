------------------------------ MODULE Surfaces ------------------------------
(***************************************************************************)
(* Surfaces and their roles: src/src/wayland/compositor.c and              *)
(* compositor_surface.c, src/src/xdg-shell/*.c.  What the requests of      *)
(* well-behaved clients, and the end of a client, do to the structs of     *)
(* surfaces, to server->surfaces and to the resources that point at them.  *)
(*                                                                         *)
(* A struct surface is used once (Structs); the addresses of resources     *)
(* (Addrs) are given out again by the allocator, which matters because     *)
(* get_xdg_surface looks a surface up by the address of its resource.      *)
(* The compositor handles one request at a time: one request, one action.  *)
(* Well-behaved: roles are made and destroyed in the order of xdg-shell    *)
(* (and of client-xdg.c:353-355), one at a time for each surface.          *)
(***************************************************************************)
EXTENDS Naturals, Sequences

CONSTANTS Clients,      \* the clients that ever connect
          Structs,      \* the structs surface ever made
          Addrs,        \* addresses of resources
          None          \* no client, no struct, no resource

Kinds == {"surface", "xdg_surface", "toplevel", "inert"}
OrNone(S) == S \cup {None}
Resources == [kind : Kinds, client : Clients, held : BOOLEAN,
              data : OrNone(Structs), of : OrNone(Addrs)]

ASSUME NoneAssumption ==
    None \notin Clients \cup Structs \cup Addrs \cup Resources

VARIABLES client,       \* "connected", "error" (posted: no request is read), "gone"
          state,        \* of each struct: "unused", "live", "freed"
          resource, xdg,  \* surface->resource, surface->xdg_surface
          list,         \* server->surfaces, from its head on
          res,          \* what is at each address
          fault

structs == <<state, resource, xdg, list>>
vars == <<client, structs, res, fault>>

(* A resource: its kind, its client, its user data, and for a role the     *)
(* resource it was made for.  held: the client still has its proxy.        *)
Resource(k, c, s, a) == [kind |-> k, client |-> c, data |-> s, of |-> a,
                         held |-> TRUE]

Init == /\ client = [c \in Clients |-> "connected"]
        /\ state = [s \in Structs |-> "unused"]
        /\ resource = [s \in Structs |-> None]
        /\ xdg = [s \in Structs |-> None]
        /\ list = <<>>
        /\ res = [a \in Addrs |-> None]
        /\ fault = "none"

Free(a) == res[a] = None
Held(c, k, a) == /\ ~Free(a) /\ res[a].kind = k /\ res[a].client = c
                 /\ res[a].held
HasRole(c, k, a) == \E x \in Addrs : Held(c, k, x) /\ res[x].of = a
Connected(c) == client[c] = "connected"

Matches(a) == {k \in DOMAIN list : resource[list[k]] = a}
IsFirst(k, a) == k \in Matches(a) /\ \A j \in Matches(a) : k <= j

-----------------------------------------------------------------------------
(* Mutant: the new surface goes to the end of the list. *)
CreateSurfaceLast(c, s) ==
    /\ Connected(c) /\ state[s] = "unused"
    /\ \E a \in Addrs :
          /\ Free(a)
          /\ res' = [res EXCEPT ![a] = Resource("surface", c, s, None)]
          /\ resource' = [resource EXCEPT ![s] = a]
    /\ state' = [state EXCEPT ![s] = "live"]
    /\ list' = Append(list, s)
    /\ UNCHANGED <<client, xdg, fault>>

(* compositor_create_surface: the new surface goes to the head. *)
CreateSurface(c, s) ==
    /\ Connected(c) /\ state[s] = "unused"
    /\ \E a \in Addrs :
          /\ Free(a)
          /\ res' = [res EXCEPT ![a] = Resource("surface", c, s, None)]
          /\ resource' = [resource EXCEPT ![s] = a]
    /\ state' = [state EXCEPT ![s] = "live"]
    /\ list' = <<s>> \o list
    /\ UNCHANGED <<client, xdg, fault>>

(* No memory for a resource or a struct: wl_client_post_no_memory. *)
NoMemory(c) == /\ Connected(c)
               /\ client' = [client EXCEPT ![c] = "error"]
               /\ UNCHANGED <<structs, res, fault>>

(* surface_destroy: the struct goes, the resource stays.  The client has   *)
(* destroyed its proxy and names the resource no more.                     *)
DestroySurface(c, a) ==
    /\ Connected(c) /\ Held(c, "surface", a)
    /\ ~HasRole(c, "xdg_surface", a)
    /\ LET s == res[a].data
       IN  /\ state' = [state EXCEPT ![s] = "freed"]
           /\ \E k \in DOMAIN list :
                 /\ list[k] = s
                 /\ list' = SubSeq(list, 1, k - 1)
                              \o SubSeq(list, k + 1, Len(list))
    /\ res' = [res EXCEPT ![a].held = FALSE]
    /\ UNCHANGED <<client, resource, xdg, fault>>

-----------------------------------------------------------------------------
(* xdg_wm_base_get_xdg_surface.  After a search without a match surf is    *)
(* the head of the list taken for a surface, which is never NULL; FindsOwn *)
(* says that there always is one.                                          *)
GetXdgSurface(c, a) ==
    /\ Connected(c) /\ Held(c, "surface", a)
    /\ ~HasRole(c, "xdg_surface", a)
    /\ \E x \in Addrs, k \in Matches(a) :
          /\ Free(x) /\ IsFirst(k, a)
          /\ res' = [res EXCEPT ![x] = Resource("xdg_surface", c, list[k], a)]
          /\ xdg' = [xdg EXCEPT ![list[k]] = x]
    /\ UNCHANGED <<client, state, resource, list, fault>>

(* xdg_surface_get_toplevel: configures what the struct says is the        *)
(* xdg_surface.                                                            *)
GetToplevel(c, x) ==
    /\ Connected(c) /\ Held(c, "xdg_surface", x) /\ ~HasRole(c, "toplevel", x)
    /\ LET s == res[x].data
       IN  /\ \E t \in Addrs :
                 /\ Free(t)
                 /\ res' = [res EXCEPT ![t] = Resource("toplevel", c, s, x)]
           /\ fault' = IF state[s] = "live" /\ xdg[s] = x
                       THEN "none" ELSE "stray configure"
    /\ UNCHANGED <<client, structs>>

(* xdg_surface_destroy and xdg_toplevel_destroy end the resource alone.    *)
DestroyRole(c, x) ==
    /\ Connected(c)
    /\ \/ Held(c, "toplevel", x)
       \/ Held(c, "xdg_surface", x) /\ ~HasRole(c, "toplevel", x)
    /\ res' = [res EXCEPT ![x] = None]
    /\ UNCHANGED <<client, structs, fault>>

-----------------------------------------------------------------------------
(* compositor_create_region and xdg_wm_base_create_positioner: a resource  *)
(* without an implementation.                                              *)
CreateInert(c) ==
    /\ Connected(c)
    /\ \E a \in Addrs :
          /\ Free(a)
          /\ res' = [res EXCEPT ![a] = Resource("inert", c, None, None)]
    /\ UNCHANGED <<client, structs, fault>>

(* A request with no handler: any of a region or a positioner, or one that *)
(* xdg_toplevel_implementation leaves NULL.  libwayland ends the process.  *)
CallUnhandled(c, a) ==
    /\ Connected(c) /\ (Held(c, "inert", a) \/ Held(c, "toplevel", a))
    /\ fault' = "no handler"
    /\ UNCHANGED <<client, structs, res>>

(* libwayland destroys the client's resources; no destructor is set, so    *)
(* the structs stay, and stay in the list.                                 *)
Disconnect(c) ==
    /\ client[c] # "gone"
    /\ client' = [client EXCEPT ![c] = "gone"]
    /\ res' = [a \in Addrs |-> IF ~Free(a) /\ res[a].client = c
                               THEN None ELSE res[a]]
    /\ UNCHANGED <<structs, fault>>

Alive == fault = "none"
Step(c) == \/ \E s \in Structs : CreateSurface(c, s)
           \/ \E a \in Addrs : \/ DestroySurface(c, a)
                               \/ GetXdgSurface(c, a)
                               \/ GetToplevel(c, a)
                               \/ DestroyRole(c, a)
                               \/ CallUnhandled(c, a)
           \/ NoMemory(c) \/ CreateInert(c) \/ Disconnect(c)
Next == \/ Alive /\ \E c \in Clients : Step(c)
        \/ /\ ~Alive \/ \A c \in Clients : client[c] = "gone"
           /\ UNCHANGED vars

Spec == Init /\ [][Next]_vars

-----------------------------------------------------------------------------
TypeOK ==
    /\ client \in [Clients -> {"connected", "error", "gone"}]
    /\ state \in [Structs -> {"unused", "live", "freed"}]
    /\ resource \in [Structs -> OrNone(Addrs)]
    /\ \A s \in Structs : resource[s] = None <=> state[s] = "unused"
    /\ xdg \in [Structs -> OrNone(Addrs)]
    /\ list \in Seq(Structs)
    /\ res \in [Addrs -> OrNone(Resources)]
    /\ fault \in {"none", "stray configure", "no handler"}

(* The lookup of get_xdg_surface finds the surface that was named, and     *)
(* finds one: structs of clients that are gone stand in the list with an   *)
(* address that a new surface may have (wm_base.c:34-38).                  *)
FindsOwn ==
    \A c \in Clients, a \in Addrs :
        Held(c, "surface", a) =>
            \E k \in DOMAIN list : IsFirst(k, a) /\ list[k] = res[a].data

(* A role acts on the struct of the surface it was made for, and that      *)
(* struct is live (wl_resource_set_implementation of wm_base.c:50).        *)
RoleData ==
    \A c \in Clients, x \in Addrs :
        Held(c, "xdg_surface", x) =>
            LET s == res[x].data
            IN  /\ state[s] = "live" /\ resource[s] = res[x].of
                /\ Held(c, "surface", res[x].of)
                /\ res[res[x].of].data = s

(* The list has each live struct once and no other: what a search reads    *)
(* is live (surface_destroy unlinks before it frees).                      *)
ListLive == /\ \A s \in Structs :
                  state[s] = "live" <=> \E k \in DOMAIN list : list[k] = s
            /\ \A j, k \in DOMAIN list : list[j] = list[k] => j = k

(* The structs, the list and the resources agree: a role and a search only *)
(* ever reach structs that are live, a search the one that was named, and  *)
(* a configure event goes to the xdg_surface that asked for the toplevel,  *)
(* never to one that was destroyed (surface.c:31).                         *)
Consistent == TypeOK /\ RoleData /\ ListLive /\ FindsOwn /\ fault # "stray configure"
=============================================================================
