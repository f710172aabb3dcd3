-------------------------- MODULE MCCommissioning --------------------------
(* Commissioning for TLC: p is the address of an IPv4 device, q that of a   *)
(* device on the Thread mesh.  Beside it Mrp with one peer: they share no   *)
(* state, one of the two moves and the other stands still, so that one run  *)
(* shows that what waits for an answer does not wait for ever.              *)
EXTENDS Commissioning

CONSTANTS p, q, peer, RetransMax, Window, MaxSent, MaxReceived, MaxSession

VARIABLES
  part,
  session, inTable, counter, sent, msg, outcome, retries, owed, seen, log, acks,
  wire, peerSent, got

mrpVars ==
  <<session, inTable, counter, sent, msg, outcome, retries, owed, seen, log, acks,
    wire, peerSent, got>>

ThePeer == {peer}
Messages == INSTANCE Mrp WITH
  Peers <- ThePeer, Address <- [d \in ThePeer |-> d],
  FirstCounter <- [d \in ThePeer |-> 0],
  MaxReceived <- [d \in ThePeer |-> MaxReceived],
  MaxSession <- [d \in ThePeer |-> MaxSession],
  live <- inTable

(* The part that stands still is in one initial state. *)
PartInit ==
  /\ part \in {"commissioning", "messages"}
  /\ Init
  /\ Messages!Init
  /\ part # "commissioning" => ~threadReady /\ manner = CHOOSE m \in Manners : TRUE

PartNext ==
  \/ part = "commissioning" /\ Next /\ UNCHANGED <<part, mrpVars>>
  \/ part = "messages" /\ Messages!Next /\ UNCHANGED <<part, vars>>

(* In its initial state neither has a timer that runs: the fairness of the  *)
(* one that stands still asks for nothing.                                  *)
PartSpec ==
  /\ PartInit
  /\ [][PartNext]_<<part, vars, mrpVars>>
  /\ Fairness
  /\ Messages!Fairness

(* No message stays in the queue of MRP for ever: it is acked, or failed    *)
(* after its last retry (MRP::processTimers).                               *)
Resolved == Messages!Resolved

(* Every ack MRP owes is sent in the end, alone or with a message. *)
AcksFlow == Messages!AcksFlow
=============================================================================
