-------------------------- MODULE MCCaseHandshake --------------------------
(* CaseHandshake for TLC, and beside it Connection on one device that stops *)
(* failing.  They share no state: one of the two moves, the other stands    *)
(* still, so that one run shows how both get back to a session.             *)
EXTENDS CaseHandshake

CONSTANTS device, ExchangeIds, SessionIds, MaxOutbound

VARIABLES
  part,
  listed, online, nextReconnect, endpoints, resumption, caseFor, casePhase, owner,
  active, unproven, outbound, timer, threadReady, pendingRemove, common, asked, sound

linkVars ==
  <<listed, online, nextReconnect, endpoints, resumption, caseFor, casePhase, owner,
    active, unproven, outbound, timer, threadReady, pendingRemove, common, asked, sound>>

(* A mains device behind Thread that nobody removes. *)
TheDevice == {device}
Links == INSTANCE Connection WITH
  Devices <- TheDevice, Thread <- TheDevice, Battery <- {}, Addressed <- TheDevice,
  Resuming <- TheDevice, Removable <- {}, Rediscovered <- TheDevice, Settling <- TheDevice,
  validating <- unproven, held <- common

(* The part that stands still is in one initial state. *)
PartInit ==
  /\ part \in {"handshake", "links"}
  /\ Init
  /\ Links!Init
  /\ part # "handshake" => quirk = CHOOSE q \in Quirks : TRUE
  /\ part # "links" => ~threadReady /\ ~resumption[device] /\ ~endpoints[device]

PartNext ==
  \/ part = "handshake" /\ Next /\ UNCHANGED <<part, linkVars>>
  \/ part = "links" /\ Links!Next /\ UNCHANGED <<part, vars>>

(* Before it is calm CaseHandshake's fairness asks for nothing, and where   *)
(* it stands still it never is.                                            *)
PartSpec ==
  /\ PartInit
  /\ [][PartNext]_<<part, vars, linkVars>>
  /\ Fairness
  /\ part = "links" => Links!Fairness

(* Once its peer has stopped failing a mains device gets back to a session  *)
(* that its peer holds too, and in the end keeps it (connectDevice and the  *)
(* reconnect timer).                                                        *)
Reconnects == part = "links" => Links!Reconnects
=============================================================================
