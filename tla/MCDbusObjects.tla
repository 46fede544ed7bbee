---------------------------- MODULE MCDbusObjects ----------------------------
(* Three modules, two of them with the same name; the first is the buffer  *)
(* module, the others share its path or have others.                       *)
EXTENDS DbusObjects

CONSTANTS m1, m2, m3, n1, n2

MCNameOf == [m \in {m1, m2, m3} |-> IF m = m2 THEN n2 ELSE n1]
MCConstructorOf ==
    [m \in {m1, m2, m3} |->
       CASE m = m1 -> CreateBufferModule
         [] m = m2 -> <<Interface("Buffer", "/e/Buffer"), Method("Get"),
                        Interface("Shell", "/e/Shell"), Method("Set")>>
         [] m = m3 -> <<Interface("Shell", "/"), Method("Get"),
                        Interface("Buffer", "/e/Buffer")>>]
MCNodeOf == [p \in Paths |-> CASE p = "/" -> Null
                               [] p = "/e/Buffer" -> "Buffer"
                               [] p = "/e/Shell" -> "Shell"]
=============================================================================
