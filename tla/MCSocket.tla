------------------------------ MODULE MCSocket ------------------------------
(* Model-checking instance of Socket: as many native sockets, clients and  *)
(* plugin sockets as the configuration gives.  Native sockets, clients and *)
(* plugin sockets are each interchangeable; the symmetry is for invariants *)
(* only.                                                                   *)
EXTENDS Socket, TLC

Symmetry == Permutations(Natives) \cup Permutations(Clients)
              \cup Permutations(Socks)
=============================================================================
