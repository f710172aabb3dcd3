------------------------------- MODULE MCMrp -------------------------------
(* Mrp with two peers for TLC, at addresses of their own.  The second sends *)
(* one message on one session.                                              *)
EXTENDS Mrp

CONSTANTS p, q, x, y

OwnAddress == [d \in Peers |-> IF d = p THEN x ELSE y]
SameCounters == [d \in Peers |-> 0]
Twice == [d \in Peers |-> IF d = p THEN 2 ELSE 1]
=============================================================================
