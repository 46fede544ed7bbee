---------------------------- MODULE MCTestClients ----------------------------
(* Test clients with interchangeable clients, structs and addresses. *)
EXTENDS TestClients, TLC

Symmetry == Permutations(Clients) \cup Permutations(Structs)
              \cup Permutations(Addrs)
=============================================================================
