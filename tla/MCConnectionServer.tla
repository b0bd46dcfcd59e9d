------------------------- MODULE MCConnectionServer -------------------------
(* Small instances of ConnectionServer for TLC. *)
EXTENDS ConnectionServer

CONSTANTS k1, k2, k3
=============================================================================
