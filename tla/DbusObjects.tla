----------------------------- MODULE DbusObjects -----------------------------
(***************************************************************************)
(* The registry of module DbusModules with what its modules hold: the      *)
(* interfaces and methods of dbus-server/module-lib.c, filled in by a      *)
(* constructor like create_buffer_module before a module is added; calls   *)
(* that name an interface, a method and a path; and what Introspect tells  *)
(* of them (server.c:87-191).                                              *)
(*                                                                         *)
(* Introspect changes nothing and holds the mutex throughout, so it is an  *)
(* operator of the state.  It walks the list, which order is by Consistent.*)
(***************************************************************************)
EXTENDS DbusModules, SequencesExt

CONSTANTS ConstructorOf,        \* the calls by which each module is filled in
          InterfaceNames, MethodNames,
          Paths,                \* object paths
          NodeOf,               \* the last component of a path; Null of "/"
          MaxNodes              \* the nodes an overview has room for: 100

ASSUME NodesAssumption == DOMAIN NodeOf = Paths /\ MaxNodes \in Nat
ASSUME ConstructorsAssumption ==
    ConstructorOf \in [Modules -> Seq([add : {"interface"}, name : InterfaceNames,
                                                           path : Paths]
                                       \cup [add : {"method"}, name : MethodNames])]

VARIABLE interfaces     \* module->interfaces, from the head on

objects == <<vars, interfaces>>

-----------------------------------------------------------------------------
(* module_add_interface and interface_add_method insert at the head; the   *)
(* constructor adds methods to the interface it added last.                *)
AddInterface(ifs, name, path) ==
    <<[name |-> name, path |-> path, methods |-> <<>>]>> \o ifs
AddMethod(ifs, name) == [ifs EXCEPT ![1].methods = <<name>> \o @]
Apply(ifs, c) == IF c.add = "interface" THEN AddInterface(ifs, c.name, c.path)
                                        ELSE AddMethod(ifs, c.name)

Interface(name, path) == [add |-> "interface", name |-> name, path |-> path]
Method(name) == [add |-> "method", name |-> name]

(* create_buffer_module. *)
CreateBufferModule == <<Interface("Buffer", "/e/Buffer"),
                        Method("Update"), Method("Get"), Method("Set")>>

(* An interface that cannot be had ends the constructor, and nothing is    *)
(* added to the registry; a method that cannot is passed over.             *)
Losses(calls) == SUBSET {k \in DOMAIN calls : calls[k].add = "method"}
Construct(calls, lost) ==
    FoldLeftDomain(LAMBDA ifs, k : IF k \in lost THEN ifs ELSE Apply(ifs, calls[k]),
                   <<>>, calls)

(* Whatever time a module is added at, what it holds is settled before.    *)
InitObjects ==
    /\ Init
    /\ \E lost \in [Modules -> UNION {Losses(ConstructorOf[m]) : m \in Modules}] :
          /\ \A m \in Modules : lost[m] \in Losses(ConstructorOf[m])
          /\ interfaces = [m \in Modules |-> Construct(ConstructorOf[m], lost[m])]

-----------------------------------------------------------------------------
(* module_find_method. *)
Has(m, name, method, path) ==
    \E k \in DOMAIN interfaces[m] :
        LET i == interfaces[m][k]
        IN  i.name = name /\ i.path = path /\ method \in ToSet(i.methods)

Call(name, method, path) ==
    SearchBegin({m \in Modules : Has(m, name, method, path)})

(* generate_interface_introspection, and module_generate_introspection_xml *)
(* for the interfaces of a module that are at a path.                      *)
Methods(i) == {<<i.name, method>> : method \in ToSet(i.methods)}
At(m, path) == {k \in DOMAIN interfaces[m] : interfaces[m][k].path = path}

(* Mutant: the path of an interface is not looked at. *)
DescribeAll(m, path) ==
    UNION {Methods(interfaces[m][k]) : k \in DOMAIN interfaces[m]}
Describe(m, path) == UNION {Methods(interfaces[m][k]) : k \in At(m, path)}

(* generate_root_introsperction_xml: each last component once, while there *)
(* is room.                                                                *)
See(seen, node) == IF node = Null \/ Cardinality(seen) >= MaxNodes THEN seen
                   ELSE seen \cup {node}
SeeModule(seen, m) == FoldLeft(LAMBDA s, i : See(s, NodeOf[i.path]), seen,
                               interfaces[m])
Overview == FoldLeft(SeeModule, {}, order)

(* handle_introspect: the first module with an interface at the path, and  *)
(* else the overview.                                                      *)
Tells(path) == {k \in DOMAIN order : At(order[k], path) # {}}
Introspect(path) ==
    IF Tells(path) = {} THEN [methods |-> {}, nodes |-> Overview]
    ELSE [methods |-> Describe(order[Min(Tells(path))], path), nodes |-> {}]

-----------------------------------------------------------------------------
Begin == \E name \in InterfaceNames, method \in MethodNames, path \in Paths :
             Call(name, method, path)
NextObjects == /\ \/ Alive /\ (Addition \/ Removal \/ Begin \/ Walk)
                  \/ ~Alive /\ UNCHANGED vars
               /\ UNCHANGED interfaces

ObjectsSpec == InitObjects /\ [][NextObjects]_objects

-----------------------------------------------------------------------------
(* What Introspect tells of a path can be called there.  What can be called*)
(* is told, unless an older module has an interface at its path and hides  *)
(* it; and its path is in the overview of the root, by its last component, *)
(* as long as there is room (server.c:116).                                *)
Offers(m) == {o \in InterfaceNames \X MethodNames \X Paths :
                Has(m, o[1], o[2], o[3])}
IntrospectAgrees ==
    op # "clear" =>
      /\ \A path \in Paths : \A t \in Introspect(path).methods :
            \E k \in DOMAIN order : Has(order[k], t[1], t[2], path)
      /\ \A k \in DOMAIN order : \A o \in Offers(order[k]) :
            /\ \/ <<o[1], o[2]>> \in Introspect(o[3]).methods
               \/ \E j \in Tells(o[3]) : j < k
            /\ \/ NodeOf[o[3]] \in Overview \cup {Null}
               \/ Cardinality(Overview) = MaxNodes
=============================================================================
