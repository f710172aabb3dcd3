--------------------------- MODULE MCDiscovery ---------------------------
(* Discovery for TLC: the root endpoint and one more. *)
EXTENDS Discovery

CONSTANTS root, leaf
=============================================================================
