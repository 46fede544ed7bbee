----------------------------- MODULE TestClients -----------------------------
(***************************************************************************)
(* The compositor with the clients the repository brings along:            *)
(* test-client/client-xdg.c and client-pure.c, beside any other            *)
(* well-behaved client of module Surfaces.                                 *)
(*                                                                         *)
(* A program moves from one call that waits for the compositor to the next;*)
(* what it asks for in between is on its way, in order, and handled one    *)
(* request at a time.  wl_display_disconnect flushes nothing, so what a    *)
(* program destroys as it ends (client-xdg.c:353-365) never leaves it.     *)
(***************************************************************************)
EXTENDS Surfaces

VARIABLES program,      \* what each client runs: "xdg", "pure", "other"
          at,           \* the call a program waits in
          stopped,      \* ~keep_running
          sent,         \* requests on their way to the compositor
          events,       \* events on their way to the client
          frames,       \* state->frame_count
          acked,        \* history: a configure event has been acknowledged
          shown         \* history: the signals about a buffer sent for it

wire == <<sent, events>>
programs == <<program, at, stopped, frames>>
seen == <<acked, shown>>
all == <<vars, programs, wire, seen>>

Programs == {"xdg", "pure", "other"}

InitClients == /\ Init
               /\ program \in [Clients -> Programs]
               /\ at = [c \in Clients |-> "start"]
               /\ stopped = [c \in Clients |-> FALSE]
               /\ sent = [c \in Clients |-> <<>>]
               /\ events = [c \in Clients |-> <<>>]
               /\ frames = [c \in Clients |-> 0]
               /\ acked = [c \in Clients |-> FALSE]
               /\ shown = [c \in Clients |-> 0]

-----------------------------------------------------------------------------
(* What the functions of the programs ask for; set_title and damage, which *)
(* the compositor only logs, are left out, and so is the configure event   *)
(* of a toplevel, which client-xdg.c only logs.                            *)
GetRegistry == <<"get_registry", "sync">>
RegistryGlobal(p) == IF p = "xdg" THEN <<"bind", "bind", "bind_wm_base">>
                                  ELSE <<"bind", "bind">>
CreateShmBuffer == <<"create_pool", "create_buffer">>

CreateWindow ==
    <<"create_surface", "get_xdg_surface", "get_toplevel", "commit">>
Window(p) == IF p = "xdg" THEN CreateWindow ELSE <<"create_surface">>

FirstFrame == <<"attach", "frame", "commit">>

(* The handlers of events; "done" ends a roundtrip.                        *)
XdgWmBasePing == <<"pong">>
XdgSurfaceConfigure == <<"ack", "attach", "commit">>
Answer(p, e) == CASE e = "globals" -> RegistryGlobal(p)
                  [] e = "ping" -> XdgWmBasePing
                  [] e = "configure" -> XdgSurfaceConfigure
                  [] OTHER -> <<>>

Send(c, requests) == sent' = [sent EXCEPT ![c] = @ \o requests]
GoTo(c, to) == at' = [at EXCEPT ![c] = to]
Runs(c, p) == program[c] = p \/ (p = "test" /\ program[c] # "other")

(* main, up to the first roundtrip. *)
Start(c) == /\ Runs(c, "test") /\ at[c] = "start"
            /\ GoTo(c, "globals") /\ Send(c, GetRegistry)
            /\ UNCHANGED <<vars, program, stopped, frames, events, seen>>

(* An event, in a roundtrip or in the main loop.                           *)
Waiting == {"globals", "configure", "dispatch"}
Receive(c) == /\ at[c] \in Waiting /\ Connected(c)
              /\ events[c] # <<>> /\ Head(events[c]) # "done"
              /\ events' = [events EXCEPT ![c] = Tail(@)]
              /\ Send(c, Answer(program[c], Head(events[c])))
              /\ GoTo(c, IF at[c] = "dispatch" THEN "test" ELSE at[c])
              /\ UNCHANGED <<vars, program, stopped, frames, seen>>

Returned(c) == /\ Connected(c) /\ events[c] # <<>> /\ Head(events[c]) = "done"
               /\ events' = [events EXCEPT ![c] = Tail(@)]

(* Mutant: the first buffer is shown without waiting for the configure.    *)
SetUpHasty(c) ==
    /\ at[c] = "globals" /\ Returned(c)
    /\ Send(c, CreateShmBuffer \o Window(program[c]) \o FirstFrame)
    /\ GoTo(c, "test")
    /\ frames' = [frames EXCEPT ![c] = @ + 1]
    /\ UNCHANGED <<vars, program, stopped, seen>>

(* The globals are there: the buffer and the window; the memory for the    *)
(* buffer may not be had, and main returns.                                *)
SetUp(c) == /\ at[c] = "globals" /\ Returned(c)
            /\ \/ /\ Send(c, CreateShmBuffer \o Window(program[c]) \o <<"sync">>)
                  /\ GoTo(c, "configure")
               \/ GoTo(c, "closed") /\ UNCHANGED sent
            /\ UNCHANGED <<vars, program, stopped, frames, seen>>

(* draw_frame and the first frame. *)
Draw(c) == /\ at[c] = "configure" /\ Returned(c)
           /\ Send(c, FirstFrame)
           /\ frames' = [frames EXCEPT ![c] = @ + 1]
           /\ GoTo(c, "test")
           /\ UNCHANGED <<vars, program, stopped, seen>>

(* The main loop.  A signal does not end a wait for events.                *)
Loop(c) == /\ at[c] = "test"
           /\ GoTo(c, IF stopped[c] THEN "closed" ELSE "dispatch")
           /\ UNCHANGED <<vars, program, stopped, frames, wire, seen>>

Signal(c) == /\ Runs(c, "xdg") /\ at[c] # "closed"
             /\ stopped' = [stopped EXCEPT ![c] = TRUE]
             /\ UNCHANGED <<vars, program, at, frames, wire, seen>>

(* The client is killed, or something it needs is not there.               *)
GiveUp(c) == /\ Runs(c, "test") /\ at[c] # "closed"
             /\ GoTo(c, "closed")
             /\ UNCHANGED <<vars, program, stopped, frames, wire, seen>>

Client(c) == \/ Start(c) \/ Receive(c) \/ SetUp(c) \/ Draw(c) \/ Loop(c)
             \/ Signal(c) \/ GiveUp(c)

-----------------------------------------------------------------------------
(* The compositor: the next request of a client.                           *)
Next1(c) == Head(sent[c])
Reply(c, es) == events' = [events EXCEPT ![c] = @ \o es]
Took(c) == /\ client[c] = "connected" /\ sent[c] # <<>>
           /\ sent' = [sent EXCEPT ![c] = Tail(@)]
           /\ UNCHANGED programs

(* What libwayland and the binding of a global answer.                     *)
ServeDisplay(c) ==
    /\ Took(c)
    /\ \/ Next1(c) = "get_registry" /\ Reply(c, <<"globals">>)
       \/ Next1(c) = "sync" /\ Reply(c, <<"done">>)
       \/ Next1(c) = "bind_wm_base" /\ Reply(c, <<"ping">>)
    /\ UNCHANGED <<vars, seen>>

(* Mutant: the toplevel is made without a configure event. *)
ServeToplevelSilently(c) ==
    /\ Took(c) /\ Next1(c) = "get_toplevel"
    /\ \E x \in Addrs : GetToplevel(c, x)
    /\ UNCHANGED <<events, seen>>

ServeToplevel(c) ==
    /\ Took(c) /\ Next1(c) = "get_toplevel"
    /\ \E x \in Addrs : GetToplevel(c, x)
    /\ Reply(c, <<"configure">>)
    /\ UNCHANGED seen

ServeSurface(c) ==
    /\ Took(c)
    /\ \/ Next1(c) = "create_surface" /\ \E s \in Structs : CreateSurface(c, s)
       \/ Next1(c) = "get_xdg_surface" /\ \E a \in Addrs : GetXdgSurface(c, a)
    /\ UNCHANGED <<events, seen>>

(* surface_headless_attach sends the signal there and then. *)
ServeAttach(c) ==
    /\ Took(c) /\ Next1(c) = "attach"
    /\ shown' = [shown EXCEPT ![c] = @ + 1]
    /\ UNCHANGED <<vars, events, acked>>

ServeAck(c) == /\ Took(c) /\ Next1(c) = "ack"
               /\ acked' = [acked EXCEPT ![c] = TRUE]
               /\ UNCHANGED <<vars, events, shown>>

(* Handlers that change nothing here: pools are the matter of ShmPool, and *)
(* surface_frame and surface_commit only log.                              *)
Quiet == {"bind", "create_pool", "create_buffer", "commit", "frame", "pong"}
ServeQuiet(c) == /\ Took(c) /\ Next1(c) \in Quiet
                 /\ UNCHANGED <<vars, events, seen>>

(* No memory for what was asked for. *)
Creations == {"bind", "bind_wm_base", "create_pool", "create_buffer",
              "create_surface", "get_xdg_surface", "get_toplevel"}
ServeFails(c) == /\ Took(c) /\ Next1(c) \in Creations
                 /\ NoMemory(c)
                 /\ UNCHANGED <<events, seen>>

(* The end of a connection, and with it of the program: what is still on   *)
(* its way is lost.                                                        *)
HangUp(c) == /\ at[c] = "closed" \/ client[c] = "error"
             /\ Runs(c, "test") /\ Disconnect(c)
             /\ GoTo(c, "closed")
             /\ stopped' = [stopped EXCEPT ![c] = FALSE]
             /\ frames' = [frames EXCEPT ![c] = 0]
             /\ sent' = [sent EXCEPT ![c] = <<>>]
             /\ events' = [events EXCEPT ![c] = <<>>]
             /\ acked' = [acked EXCEPT ![c] = FALSE]
             /\ shown' = [shown EXCEPT ![c] = 0]
             /\ UNCHANGED program

Serve(c) == \/ ServeDisplay(c) \/ ServeSurface(c) \/ ServeToplevel(c)
            \/ ServeAttach(c) \/ ServeAck(c) \/ ServeQuiet(c) \/ ServeFails(c)
            \/ HangUp(c)

Other(c) == /\ Runs(c, "other") /\ Step(c)
            /\ UNCHANGED <<programs, wire, seen>>

AllGone == \A c \in Clients : client[c] = "gone"
NextClients == \/ Alive /\ \E c \in Clients : Client(c) \/ Serve(c) \/ Other(c)
               \/ (~Alive \/ AllGone) /\ UNCHANGED all

ClientsSpec == InitClients /\ [][NextClients]_all

-----------------------------------------------------------------------------
Holds(c, k) == \E a \in Addrs : Held(c, k, a)
Surface(c) == CHOOSE a \in Addrs : Held(c, "surface", a)

(* Each request of a test client is one Surfaces takes from a well-behaved *)
(* client: it names what the client has, a surface whose struct lives, and *)
(* a role where there is none yet; and no buffer is attached to a surface  *)
(* with a role before its configure event is acknowledged (xdg-shell), for *)
(* which client-xdg.c:312 waits.                                           *)
Fits(c, r) ==
    CASE r \in {"attach", "frame", "commit"} ->
             /\ Holds(c, "surface") /\ state[res[Surface(c)].data] = "live"
             /\ program[c] = "xdg" /\ r = "attach" => acked[c]
      [] r = "get_xdg_surface" -> Holds(c, "surface") /\ ~Holds(c, "xdg_surface")
      [] r = "get_toplevel" -> Holds(c, "xdg_surface") /\ ~Holds(c, "toplevel")
      [] r = "ack" -> Holds(c, "xdg_surface")
      [] OTHER -> TRUE
WellBehaved == \A c \in Clients :
    Connected(c) /\ sent[c] # <<>> => Fits(c, Next1(c))

(* A test client that waits in its main loop, its requests handled, has    *)
(* its one surface, with its role, and its buffer was announced, twice for *)
(* client-xdg.  It has drawn one frame, and no event will come: surface    *)
(* frame keeps no callback (compositor_surface.c:76), so neither a second  *)
(* frame nor, after a signal, the end of the program.                      *)
Settled == \A c \in Clients :
    at[c] = "dispatch" /\ Connected(c) =>
        /\ frames[c] = 1 /\ events[c] = <<>>
        /\ sent[c] = <<>> =>
              /\ Holds(c, "surface") /\ state[res[Surface(c)].data] = "live"
              /\ program[c] = "xdg" => Holds(c, "toplevel") /\ acked[c]
              /\ shown[c] = IF program[c] = "xdg" THEN 2 ELSE 1
=============================================================================
