--------------------------- MODULE MCConnections ----------------------------
(***************************************************************************)
(* Small servers for TLC: the clients are interchangeable.                 *)
(***************************************************************************)
EXTENDS Connections, TLC

Symmetry == Permutations(Clients)
=============================================================================
