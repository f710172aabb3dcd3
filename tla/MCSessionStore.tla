--------------------------- MODULE MCSessionStore ---------------------------
(* SessionStore for TLC: two devices through a restart; one through two     *)
(* restarts and rediscoveries, or with writes that fail; clean restarts.    *)
EXTENDS SessionStore

Pair == [present |-> {1, 2}, rediscovered |-> {}, crashes |-> TRUE, writesFail |-> FALSE,
         attempts |-> 2, counter |-> 3, restarts |-> 1]
One == [present |-> {1}, rediscovered |-> {1}, crashes |-> TRUE, writesFail |-> FALSE,
        attempts |-> 2, counter |-> 4, restarts |-> 2]
Failing == [One EXCEPT !.rediscovered = {}, !.writesFail = TRUE]
Clean == [present |-> {1}, rediscovered |-> {}, crashes |-> FALSE, writesFail |-> FALSE,
          attempts |-> 2, counter |-> 25, restarts |-> 3]

Bounded == {Pair, One, Failing}
OnlyClean == {Clean}
=============================================================================
