----------------------------- MODULE DeviceLink -----------------------------
(***************************************************************************)
(* What the connection manager promises, with no sessions, exchanges,      *)
(* messages or timers: each device has one link that is down, connecting,  *)
(* up or removed.  A link comes up only out of a connection attempt of its *)
(* own, one at a time; it never goes back to connecting without having     *)
(* been down; no device is brought back once it is removed, and a step     *)
(* removes one device at most.                                             *)
(***************************************************************************)
CONSTANTS Devices

VARIABLE link

Init == link \in [Devices -> {"down", "connecting", "up"}]

(* Several links at a time: the reconnect timer and the ping timer serve    *)
(* every device in one event.                                               *)
Connect(ds) ==
  /\ \A d \in ds : link[d] = "down"
  /\ link' = [d \in Devices |-> IF d \in ds THEN "connecting" ELSE link[d]]

Establish(d) ==
  /\ link[d] = "connecting"
  /\ link' = [link EXCEPT ![d] = "up"]

Lose(d) ==
  /\ link[d] \in {"connecting", "up"}
  /\ link' = [link EXCEPT ![d] = "down"]

Remove(d) ==
  /\ link[d] # "removed"
  /\ link' = [link EXCEPT ![d] = "removed"]

Next ==
  \/ \E ds \in SUBSET Devices : Connect(ds)
  \/ \E d \in Devices : Establish(d)
  \/ \E d \in Devices : Lose(d)
  \/ \E d \in Devices : Remove(d)

Spec == Init /\ [][Next]_link
=============================================================================
