---------------------------- MODULE MCConnection ----------------------------
(* Connection with one set of symmetric identifiers for TLC.               *)
EXTENDS Connection, TLC

CONSTANTS a, b, e1, e2, e3, s1, s2, s3

(* Exchanges other than 0 and sessions are interchangeable. *)
IdSymmetry == Permutations({e1, e2, e3} \cap ExchangeIds)
                \cup Permutations({s1, s2, s3} \cap SessionIds)
=============================================================================
