----------------------------- MODULE ModuleList -----------------------------
(***************************************************************************)
(* What the registry of D-Bus modules promises: the modules that were      *)
(* added and not removed, in the order they were added.  A name need not   *)
(* be unique; remove takes the first module that has it.                   *)
(***************************************************************************)
EXTENDS Naturals, Sequences

CONSTANTS Modules, Names, NameOf

VARIABLE modules

Contains(m) == \E k \in DOMAIN modules : modules[k] = m
IsFirstNamed(k, n) == /\ NameOf[modules[k]] = n
                      /\ \A j \in 1 .. k - 1 : NameOf[modules[j]] # n
Without(s, k) == SubSeq(s, 1, k - 1) \o SubSeq(s, k + 1, Len(s))

ListInit == modules = <<>>

Add(m) == ~Contains(m) /\ modules' = Append(modules, m)
RemoveFirst(n) == \E k \in DOMAIN modules :
                      IsFirstNamed(k, n) /\ modules' = Without(modules, k)
RemoveAll == modules' = <<>>

ListNext == \/ \E m \in Modules : Add(m)
            \/ \E n \in Names : RemoveFirst(n)
            \/ RemoveAll

ListSpec == ListInit /\ [][ListNext]_modules
=============================================================================
