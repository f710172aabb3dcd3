----------------------------- MODULE MCConsumer -----------------------------
(* Consumer alone, for TLC: a cover at one endpoint. *)
EXTENDS Consumer

OneCover == {<<[values |-> {"position"}, features |-> {}, presses |-> 0]>>}
=============================================================================
