------------------------------ MODULE MCShmPool ------------------------------
(* ShmPool for TLC: clients, pools and buffers are interchangeable.        *)
EXTENDS ShmPool, TLC

ObjectSymmetry == Permutations(Clients) \cup Permutations(Pools)
                     \cup Permutations(Buffers)
=============================================================================
