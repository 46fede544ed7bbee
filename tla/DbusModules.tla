---------------------------- MODULE DbusModules ----------------------------
(***************************************************************************)
(* The registry of modules of the D-Bus server, a singly linked list with  *)
(* a head and a tail pointer (dbus-server/server.c:398-487), and the       *)
(* search of handle_method_call through it (server.c:194-233).             *)
(*                                                                         *)
(* Each operation holds server->mutex from its first step to its last, so  *)
(* operations follow one another; DbusServer has the mutex itself.  The    *)
(* search gives the mutex up while it calls a handler, and a handler may   *)
(* use the registry.  The walks go pointer by pointer.  Following a        *)
(* pointer into a destroyed module sets fault.  What the modules hold, and *)
(* the next-state relation, are in DbusObjects.                            *)
(***************************************************************************)
EXTENDS Naturals, Sequences

CONSTANTS Modules,      \* struct dbus_server_module, each used once
          Names, NameOf,
          Null,         \* no module, no name
          Results       \* what handlers return

ASSUME NullAssumption == Null \notin Modules \cup Names
ASSUME RegistryNamesAssumption == NameOf \in [Modules -> Names]
ASSUME ResultsAssumption == Results \subseteq {"HANDLED", "NOT_YET_HANDLED"}

VARIABLES state,                \* of each module: "new", "linked", "destroyed"
          head, tail, next,     \* server->modules, modules_tail, module->next
          order,                \* history: the modules linked, as linked
          op, doomed,           \* the operation under way; the name to remove
          current, prev,        \* its local variables
          search, module,       \* the search and where it is
          wanted,               \* the modules that have a method for the call
          tried,                \* the modules whose handler it called
          repeats,              \* whether it called one twice
          fault

registry == <<state, head, tail, next, order>>
operation == <<op, doomed, current, prev>>
call == <<search, module, wanted, tried, repeats>>
vars == <<registry, operation, call, fault>>

Init == /\ state = [m \in Modules |-> "new"]
        /\ head = Null /\ tail = Null
        /\ next = [m \in Modules |-> Null]
        /\ order = <<>>
        /\ op = "idle" /\ doomed = Null /\ current = Null /\ prev = Null
        /\ search = "idle" /\ module = Null /\ wanted = {}
        /\ tried = {} /\ repeats = FALSE
        /\ fault = "none"

(* Mutant: the search does not hold the mutex. *)
UnlockedInSearch == op = "idle"
Unlocked == op = "idle" /\ search \in {"idle", "handler"}
Linked(m) == state[m] = "linked"
Crash == /\ fault' = "destroyed module"
         /\ UNCHANGED <<registry, operation, call>>

-----------------------------------------------------------------------------
(* dbus_server_add_module. *)
AddFirst(m) == /\ Unlocked /\ state[m] = "new" /\ head = Null
               /\ head' = m /\ tail' = m
               /\ next' = [next EXCEPT ![m] = Null]
               /\ state' = [state EXCEPT ![m] = "linked"]
               /\ order' = Append(order, m)
               /\ UNCHANGED <<operation, call, fault>>

AddLast(m) == /\ Unlocked /\ state[m] = "new" /\ head # Null
              /\ next' = [next EXCEPT ![m] = Null, ![tail] = m]
              /\ tail' = m
              /\ state' = [state EXCEPT ![m] = "linked"]
              /\ order' = Append(order, m)
              /\ UNCHANGED <<head, operation, call, fault>>

-----------------------------------------------------------------------------
(* dbus_server_remove_module: a walk for the name, then the unlinking.     *)
RemoveBegin(n) == /\ Unlocked
                  /\ op' = "remove" /\ doomed' = n
                  /\ current' = head /\ prev' = Null
                  /\ UNCHANGED <<registry, call, fault>>

RemoveNext == /\ op = "remove" /\ current # Null
              /\ NameOf[current] # doomed
              /\ prev' = current /\ current' = next[current]
              /\ UNCHANGED <<registry, op, doomed, call, fault>>

Done == op' = "idle" /\ doomed' = Null /\ current' = Null /\ prev' = Null
WithoutItem(s, x) == LET k == CHOOSE i \in DOMAIN s : s[i] = x
                     IN  SubSeq(s, 1, k - 1) \o SubSeq(s, k + 1, Len(s))

(* Mutants: the tail still points at the destroyed module; nothing looks   *)
(* at the name.                                                            *)
RemoveTailStays == /\ op = "remove" /\ current # Null
                   /\ NameOf[current] = doomed
                   /\ IF prev = Null
                      THEN head' = next[current] /\ UNCHANGED next
                      ELSE /\ next' = [next EXCEPT ![prev] = next[current]]
                           /\ UNCHANGED head
                   /\ state' = [state EXCEPT ![current] = "destroyed"]
                   /\ order' = WithoutItem(order, current)
                   /\ Done /\ UNCHANGED <<tail, call, fault>>
RemoveAny == /\ op = "remove" /\ current # Null
             /\ IF prev = Null
                THEN head' = next[current] /\ UNCHANGED next
                ELSE /\ next' = [next EXCEPT ![prev] = next[current]]
                     /\ UNCHANGED head
             /\ tail' = IF current = tail THEN prev ELSE tail
             /\ state' = [state EXCEPT ![current] = "destroyed"]
             /\ order' = WithoutItem(order, current)
             /\ Done /\ UNCHANGED <<call, fault>>

RemoveFound == /\ op = "remove" /\ current # Null
               /\ NameOf[current] = doomed
               /\ IF prev = Null
                  THEN head' = next[current] /\ UNCHANGED next
                  ELSE /\ next' = [next EXCEPT ![prev] = next[current]]
                       /\ UNCHANGED head
               /\ tail' = IF current = tail THEN prev ELSE tail
               /\ state' = [state EXCEPT ![current] = "destroyed"]
               /\ order' = WithoutItem(order, current)
               /\ Done /\ UNCHANGED <<call, fault>>

RemoveNone == /\ op = "remove" /\ current = Null
              /\ Done /\ UNCHANGED <<registry, call, fault>>

-----------------------------------------------------------------------------
(* dbus_server_remove_all_modules, as dbus_server_cleanup calls it. *)
ClearBegin == /\ Unlocked /\ head # Null
              /\ op' = "clear" /\ current' = head
              /\ UNCHANGED <<registry, doomed, prev, call, fault>>

ClearNext == /\ op = "clear" /\ current # Null
             /\ current' = next[current]
             /\ state' = [state EXCEPT ![current] = "destroyed"]
             /\ UNCHANGED <<head, tail, next, order, op, doomed, prev, call, fault>>

ClearEnd == /\ op = "clear" /\ current = Null
            /\ head' = Null /\ tail' = Null /\ order' = <<>>
            /\ Done /\ UNCHANGED <<state, next, call, fault>>

-----------------------------------------------------------------------------
(* handle_method_call; module_find_method says whether a module is wanted. *)
SearchBegin(w) == /\ Unlocked /\ search = "idle"
                  /\ search' = "walk" /\ module' = head
                  /\ wanted' = w /\ tried' = {} /\ repeats' = FALSE
                  /\ UNCHANGED <<registry, operation, fault>>

WalkNext == /\ search = "walk" /\ module # Null
            /\ Linked(module) /\ module \notin wanted
            /\ module' = next[module]
            /\ UNCHANGED <<registry, operation, search, wanted, tried, repeats,
                           fault>>

WalkCall == /\ search = "walk" /\ module # Null
            /\ Linked(module) /\ module \in wanted
            /\ search' = "handler"
            /\ tried' = tried \cup {module}
            /\ repeats' = (repeats \/ module \in tried)
            /\ UNCHANGED <<registry, operation, module, wanted, fault>>

WalkDestroyed == /\ search = "walk" /\ module # Null /\ ~Linked(module)
                 /\ Crash

(* The end of the list: the caller is told that there is no such method.   *)
WalkEnd == /\ search = "walk" /\ module = Null
           /\ search' = "idle"
           /\ UNCHANGED <<registry, operation, module, wanted, tried, repeats,
                          fault>>

(* module is not advanced: the search goes on at the same module. *)
HandlerReturns == /\ search = "handler" /\ op = "idle"
                  /\ \E r \in Results :
                        search' = IF r = "HANDLED" THEN "idle" ELSE "walk"
                  /\ UNCHANGED <<registry, operation, module, wanted, tried,
                                 repeats, fault>>

-----------------------------------------------------------------------------
Addition == \E m \in Modules : AddFirst(m) \/ AddLast(m)
Removal == \/ \E n \in Names : RemoveBegin(n)
           \/ RemoveNext \/ RemoveFound \/ RemoveNone
           \/ ClearBegin \/ ClearNext \/ ClearEnd
Walk == WalkNext \/ WalkCall \/ WalkDestroyed \/ WalkEnd \/ HandlerReturns
Alive == fault = "none"

-----------------------------------------------------------------------------
OrNull == Modules \cup {Null}
TypeOK == /\ state \in [Modules -> {"new", "linked", "destroyed"}]
          /\ head \in OrNull /\ tail \in OrNull
          /\ next \in [Modules -> OrNull]
          /\ order \in Seq(Modules)
          /\ op \in {"idle", "remove", "clear"} /\ doomed \in Names \cup {Null}
          /\ current \in OrNull /\ prev \in OrNull
          /\ op = "remove" /\ prev # Null => current = next[prev]
          /\ search \in {"idle", "walk", "handler"} /\ module \in OrNull
          /\ op # "idle" => search # "walk"
          /\ wanted \subseteq Modules /\ tried \subseteq wanted
          /\ repeats \in BOOLEAN
          /\ fault \in {"none", "destroyed module"}

(* From head, next leads through the linked modules, in order and each     *)
(* once, to tail, and no further: add, remove and remove_all keep the two  *)
(* ends and the links of the list in agreement.                            *)
Shape ==
    op # "clear" =>
        /\ head = IF order = <<>> THEN Null ELSE order[1]
        /\ tail = IF order = <<>> THEN Null ELSE order[Len(order)]
        /\ \A k \in DOMAIN order :
              next[order[k]] = IF k = Len(order) THEN Null ELSE order[k + 1]
        /\ \A j, k \in DOMAIN order : order[j] = order[k] => j = k

(* A module is linked until it is destroyed, once: what is in the list is  *)
(* live, and nothing live has left it (module_destroy of server.c:458,     *)
(* 479).                                                                   *)
LinkedInList ==
    op # "clear" =>
        \A m \in Modules : Linked(m) <=> \E k \in DOMAIN order : order[k] = m

(* No search follows a pointer into a destroyed module before it has       *)
(* called a handler: the mutex keeps changes out.  One that goes on after  *)
(* NOT_YET_HANDLED may (server.c:209), as the handler ran without it.      *)
SafeUntilHandler == fault # "none" => tried # {}

(* Links, ends and states of the modules agree between two operations, and *)
(* a search meets no destroyed module before it has called a handler.      *)
Consistent == TypeOK /\ Shape /\ LinkedInList /\ SafeUntilHandler

(* A search that calls no handler, and so answers that there is no such    *)
(* method, is right when it gives the mutex up: nothing in the registry    *)
(* has one (server.c:223).                                                 *)
NotFoundIsTrue ==
    [][search = "walk" /\ search' = "idle" /\ tried = {}
          => \A m \in wanted : ~Linked(m)]_vars

(* The registry is the list it promises to be. *)
List == INSTANCE ModuleList WITH modules <- order
ImplementsList == List!ListSpec
=============================================================================
