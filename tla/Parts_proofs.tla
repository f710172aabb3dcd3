---------------------------- MODULE Parts_proofs ----------------------------
(***************************************************************************)
(* Proofs about four of the system's smaller parts.                       *)
(*                                                                         *)
(* Sharing, for every device, every passcode and every number of shares    *)
(* and sessions: the codes handed out are those of a window that was       *)
(* opened, and so SharedOpens, as every code is read as it was written     *)
(* (Codes_proofs).                                                         *)
(*                                                                         *)
(* Btp, for every packet size, window, length of a message and number of   *)
(* messages and connections: BtpInv, and MessagesWhole from it.            *)
(*                                                                         *)
(* Mdns, for every set of services and addresses and every order of the    *)
(* records of an answer: MdnsInv, and ServicesRight from it.               *)
(*                                                                         *)
(* Consumer, for every device and every number of commands, gestures,      *)
(* changes by hand and reports: ConsumerInv, and UserRight from it.        *)
(***************************************************************************)
EXTENDS Sharing, Btp, Mdns, Consumer, Codes_proofs, FiniteSetTheorems

(* What takes nothing from the wire and touches no share. *)
LEMMA OthersStep ==
  ASSUME SharingInv, SharingTypes', UNCHANGED <<share, verifier, given>>,
         wire' \subseteq wire, opened \subseteq opened'
  PROVE  SharingInv'
<1>1. \A k \in wire' : OfShare(k) /\ k \in wire
  BY DEF SharingInv, OneMessage
<1>2. \A k \in wire' : OfShare(k)'
  BY <1>1 DEF OfShare
<1>3. OneMessage'
  BY <1>1, <1>2 DEF SharingInv, OneMessage
<1>4. CodesOfWindow'
  BY DEF SharingInv, CodesOfWindow
<1> QED
  BY <1>3, <1>4 DEF SharingInv

(* A message that is another's with a type and a content of its own. *)
LEMMA AnswerIs ==
  ASSUME NEW k, NEW type, NEW content,
         k = [device |-> k.device, session |-> k.session, type |-> k.type, content |-> k.content]
  PROVE  [k EXCEPT !.type = type, !.content = content]
           = [device |-> k.device, session |-> k.session, type |-> type, content |-> content]
<1> DEFINE r(t, c) == [device |-> k.device, session |-> k.session, type |-> t, content |-> c]
<1>1. [r(k.type, k.content) EXCEPT !.type = type] = r(type, k.content)
  OBVIOUS
<1>2. [r(type, k.content) EXCEPT !.content = content] = r(type, content)
  OBVIOUS
<1>3. k = r(k.type, k.content)
  OBVIOUS
<1> HIDE DEF r
<1>4. [k EXCEPT !.type = type, !.content = content]
        = [[k EXCEPT !.type = type] EXCEPT !.content = content]
  OBVIOUS
<1>5. [k EXCEPT !.type = type] = r(type, k.content)
  BY <1>1, <1>3
<1> QED
  BY <1>2, <1>4, <1>5 DEF r

(* One message k in the place of all there was of its device. *)
LEMMA Follows ==
  ASSUME OneMessage, NEW d \in Devices, NEW k, k.device = d, OfShare(k)',
         \A l \in wire' : l = k \/ (l \in wire /\ l.device # d),
         \A c \in Devices : c # d => share'[c] = share[c] /\ verifier'[c] = verifier[c],
         opened \subseteq opened'
  PROVE  OneMessage'
<1>1. \A l \in wire' : OfShare(l)'
  <2> SUFFICES ASSUME NEW l \in wire', l \in wire, l.device # d PROVE OfShare(l)'
    OBVIOUS
  <2>1. OfShare(l)
    BY DEF OneMessage
  <2> QED
    BY <2>1 DEF OfShare
<1>2. \A l, m \in wire' : l.device = m.device => l = m
  BY DEF OneMessage
<1> QED
  BY <1>1, <1>2 DEF OneMessage

(* No message of the device is left. *)
LEMMA Ends ==
  ASSUME OneMessage, NEW d \in Devices,
         \A l \in wire' : l \in wire /\ l.device # d,
         \A c \in Devices : c # d => share'[c] = share[c] /\ verifier'[c] = verifier[c],
         opened \subseteq opened'
  PROVE  OneMessage'
<1>1. \A l \in wire' : OfShare(l)'
  <2> SUFFICES ASSUME NEW l \in wire' PROVE OfShare(l)'
    OBVIOUS
  <2>1. OfShare(l)
    BY DEF OneMessage
  <2> QED
    BY <2>1 DEF OfShare
<1>2. \A l, m \in wire' : l.device = m.device => l = m
  BY DEF OneMessage
<1> QED
  BY <1>1, <1>2 DEF OneMessage

-----------------------------------------------------------------------------
(* shareDevice: nothing of an earlier share is on its way. *)
LEMMA ShareDeviceStep ==
  ASSUME SharingInv, NEW d \in Devices, ShareDevice(d)
  PROVE  SharingInv'
<1>. PICK k : k = To(d, "TimedRequest", shares')
  OBVIOUS
<1>1. /\ share[d] = Unshared /\ shares < MaxShares /\ shares' = shares + 1
      /\ wire' = wire \cup {k}
      /\ UNCHANGED <<active, session, announced, window, opened, given>>
  BY DEF ShareDevice, MayShare, deviceVars
<1>2. PICK passcode \in Passcodes, discriminator \in Discriminators :
        /\ share' = [share EXCEPT ![d] = [passcode |-> passcode, exchange |-> shares',
                       discriminator |-> discriminator, timedInvokePending |-> TRUE]]
        /\ verifier' = [verifier EXCEPT ![d] = passcode]
  BY DEF ShareDevice
<1>3. shares \in Nat /\ shares' \in 0..MaxShares /\ shares' \in Nat
  BY <1>1, SharesAssumption DEF SharingInv, SharingTypes
<1>4. /\ DOMAIN share = Devices /\ DOMAIN verifier = Devices
      /\ share'[d] \in Share /\ share'[d].passcode = passcode /\ share'[d].timedInvokePending
      /\ verifier'[d] = passcode
      /\ \A c \in Devices : c # d => share'[c] = share[c] /\ verifier'[c] = verifier[c]
  BY <1>2, <1>3 DEF SharingInv, SharingTypes, Share
<1>5. SharingTypes'
  <2>1. share' \in [Devices -> Share \cup {Unshared}] /\ verifier' \in [Devices -> Passcodes \cup {Unshared}]
    BY <1>2, <1>4 DEF SharingInv, SharingTypes
  <2> QED
    BY <1>1, <1>3, <2>1 DEF SharingInv, SharingTypes
<1>6. /\ k.device = d /\ k.type = "TimedRequest"
      /\ k = [device |-> k.device, session |-> k.session, type |-> k.type, content |-> k.content]
  BY DEF To
<1>7. OfShare(k)'
  BY <1>4, <1>6, SharesAssumption DEF OfShare
<1>8. \A l \in wire' : l = k \/ (l \in wire /\ l.device # d)
  BY <1>1 DEF SharingInv, OneMessage, OfShare
<1>9. OneMessage'
  BY <1>1, <1>4, <1>6, <1>7, <1>8, Follows DEF SharingInv
<1>10. CodesOfWindow'
  BY <1>1 DEF SharingInv, CodesOfWindow
<1> QED
  BY <1>5, <1>9, <1>10 DEF SharingInv

(* The answer to a TimedRequest: the verifier of the share goes out. *)
LEMMA HandleStatusResponseStep ==
  ASSUME SharingInv, NEW k \in wire, HandleStatusResponse(k)
  PROVE  SharingInv'
<1> DEFINE d == k.device
<1>. PICK n : n = To(d, "InvokeRequest",
                     [exchange |-> share[d].exchange, verifier |-> verifier[d],
                      discriminator |-> share[d].discriminator])
  OBVIOUS
<1>1. /\ k.type = "StatusResponse"
      /\ UNCHANGED <<active, session, shares, announced, window, opened, given>>
  BY DEF HandleStatusResponse, deviceVars
<1>2. /\ OfShare(k) /\ d \in Devices
      /\ \A l \in wire \ {k} : l.device # d
  BY DEF SharingInv, OneMessage, OfShare
<1>3. CASE wire' = wire \ {k} /\ UNCHANGED <<share, verifier>>
  <2>1. SharingTypes'
    BY <1>1, <1>3 DEF SharingInv, SharingTypes
  <2> QED
    BY <1>1, <1>3, <2>1, OthersStep
<1>4. CASE /\ share[d] # Unshared /\ share[d].timedInvokePending
           /\ share' = [share EXCEPT ![d].timedInvokePending = FALSE]
           /\ verifier' = [verifier EXCEPT ![d] = Unshared]
           /\ wire' = (wire \ {k}) \cup {n}
  <2>1. /\ share[d] \in Share /\ verifier[d] = share[d].passcode
        /\ DOMAIN share = Devices /\ DOMAIN verifier = Devices
    BY <1>2, <1>4 DEF SharingInv, SharingTypes, OfShare
  <2>2. /\ share'[d] = [share[d] EXCEPT !.timedInvokePending = FALSE]
        /\ \A c \in Devices : c # d => share'[c] = share[c] /\ verifier'[c] = verifier[c]
    BY <1>2, <1>4, <2>1
  <2>3. /\ share'[d] \in Share /\ share'[d] # Unshared
        /\ share'[d].passcode = share[d].passcode
        /\ share'[d].discriminator = share[d].discriminator
        /\ ~share'[d].timedInvokePending
    BY <2>1, <2>2, SharesAssumption DEF Share
  <2>4. SharingTypes'
    <3>1. share' \in [Devices -> Share \cup {Unshared}]
      BY <1>4, <2>2, <2>3 DEF SharingInv, SharingTypes
    <3>2. verifier' \in [Devices -> Passcodes \cup {Unshared}]
      BY <1>4 DEF SharingInv, SharingTypes
    <3> QED
      BY <1>1, <3>1, <3>2 DEF SharingInv, SharingTypes
  <2>5. /\ n.device = d /\ n.type = "InvokeRequest"
        /\ n.content.verifier = verifier[d] /\ n.content.discriminator = share[d].discriminator
        /\ n = [device |-> n.device, session |-> n.session, type |-> n.type, content |-> n.content]
    BY DEF To
  <2>6. OfShare(n)'
    BY <1>2, <2>1, <2>3, <2>5 DEF OfShare
  <2>7. \A l \in wire' : l = n \/ (l \in wire /\ l.device # d)
    BY <1>2, <1>4
  <2>8. OneMessage'
    <3> HIDE DEF d
    <3> QED
      BY <1>1, <1>2, <2>2, <2>5, <2>6, <2>7, Follows DEF SharingInv
  <2>9. CodesOfWindow'
    BY <1>1 DEF SharingInv, CodesOfWindow
  <2> QED
    BY <2>4, <2>8, <2>9 DEF SharingInv
<1> QED
  BY <1>3, <1>4 DEF HandleStatusResponse

(* The answer to OpenCommissioningWindow: the codes are those of the window *)
(* it tells of.                                                             *)
LEMMA HandleInvokeResponseStep ==
  ASSUME SharingInv, NEW k \in wire, HandleInvokeResponse(k)
  PROVE  SharingInv'
<1> DEFINE d == k.device
           code == [device |-> d,
                    manual |-> GenerateManualCode(share[d].passcode, share[d].discriminator),
                    qr |-> GenerateQRCode(share[d].passcode, share[d].discriminator)]
<1>1. /\ k.type = "InvokeResponse" /\ wire' = wire \ {k}
      /\ UNCHANGED <<active, session, verifier, shares, announced, window, opened>>
  BY DEF HandleInvokeResponse, deviceVars
<1>2. /\ OfShare(k) /\ d \in Devices
      /\ \A l \in wire \ {k} : l.device # d
  BY DEF SharingInv, OneMessage, OfShare
<1>3. CASE UNCHANGED <<share, given>>
  <2>1. SharingTypes'
    BY <1>1, <1>3 DEF SharingInv, SharingTypes
  <2> QED
    BY <1>1, <1>3, <2>1, OthersStep
<1>4. CASE /\ share[d] # Unshared
           /\ share' = [share EXCEPT ![d] = Unshared]
           /\ given' = IF ~k.content.ok THEN given ELSE given \cup {code}
  <2>1. SharingTypes'
    BY <1>1, <1>4 DEF SharingInv, SharingTypes
  <2>2. /\ \A c \in Devices : c # d => share'[c] = share[c]
        /\ \A l \in wire' : l \in wire /\ l.device # d
    BY <1>1, <1>2, <1>4 DEF SharingInv, SharingTypes
  <2>3. OneMessage'
    <3> HIDE DEF d
    <3> QED
      BY <1>1, <1>2, <2>2, Ends DEF SharingInv
  <2>4. CodesOfWindow'
    <3>1. CASE ~k.content.ok
      BY <1>1, <1>4, <3>1 DEF SharingInv, CodesOfWindow
    <3>2. CASE k.content.ok
      <4> DEFINE w == [device |-> d, verifier |-> share[d].passcode,
                       discriminator |-> share[d].discriminator]
      <4>1. w \in opened
        BY <1>1, <1>2, <3>2 DEF OfShare
      <4>2. code = [device |-> w.device,
                    manual |-> GenerateManualCode(w.verifier, w.discriminator),
                    qr |-> GenerateQRCode(w.verifier, w.discriminator)]
        OBVIOUS
      <4> HIDE DEF code, w
      <4>3. given' = given \cup {code} /\ opened' = opened
        BY <1>1, <1>4, <3>2
      <4> QED
        BY <4>1, <4>2, <4>3 DEF SharingInv, CodesOfWindow
    <3> QED
      BY <3>1, <3>2
  <2> QED
    BY <2>1, <2>3, <2>4 DEF SharingInv
<1> QED
  BY <1>3, <1>4 DEF HandleInvokeResponse

LEMMA DeviceAnnouncedStep ==
  ASSUME SharingInv, NEW k \in wire, NEW ok \in BOOLEAN, DeviceAnnounced(k, ok)
  PROVE  SharingInv'
<1> DEFINE n == [device |-> k.device, session |-> k.session, type |-> "StatusResponse",
                 content |-> [exchange |-> k.content, ok |-> ok]]
<1>0. k = [device |-> k.device, session |-> k.session, type |-> k.type, content |-> k.content]
  BY DEF SharingInv, OneMessage, OfShare
<1>1. /\ k.type = "TimedRequest" /\ wire' = (wire \ {k}) \cup {n}
      /\ UNCHANGED <<active, session, share, verifier, shares, window, opened, given>>
  BY <1>0, AnswerIs DEF DeviceAnnounced
<1>2. /\ OfShare(k) /\ k.device \in Devices
      /\ \A l \in wire \ {k} : l.device # k.device
      /\ k = [device |-> k.device, session |-> k.session, type |-> k.type, content |-> k.content]
  BY DEF SharingInv, OneMessage, OfShare
<1>3. /\ n.device = k.device /\ n.type = "StatusResponse"
      /\ n = [device |-> n.device, session |-> n.session, type |-> n.type, content |-> n.content]
  OBVIOUS
<1> HIDE DEF n
<1>4. SharingTypes'
  BY <1>1 DEF SharingInv, SharingTypes
<1>5. OfShare(n)'
  BY <1>1, <1>2, <1>3 DEF OfShare
<1>6. OneMessage'
  <2>1. \A l \in wire' : l = n \/ (l \in wire /\ l.device # k.device)
    BY <1>1, <1>2
  <2> QED
    BY <1>1, <1>2, <1>3, <1>5, <2>1, Follows DEF SharingInv
<1>7. CodesOfWindow'
  BY <1>1 DEF SharingInv, CodesOfWindow
<1> QED
  BY <1>4, <1>6, <1>7 DEF SharingInv

(* The device opens a window for the verifier it was given, and says so. *)
LEMMA DeviceInvokedStep ==
  ASSUME SharingInv, NEW k \in wire, NEW inTime \in BOOLEAN, DeviceInvoked(k, inTime)
  PROVE  SharingInv'
<1> DEFINE d == k.device
           opens == inTime /\ window[d] = Unshared
           begun == [device |-> d, verifier |-> k.content.verifier,
                     discriminator |-> k.content.discriminator]
<1>. PICK n : n = [device |-> k.device, session |-> k.session, type |-> "InvokeResponse",
                   content |-> [ok |-> opens]]
  OBVIOUS
<1>0. k = [device |-> k.device, session |-> k.session, type |-> k.type, content |-> k.content]
  BY DEF SharingInv, OneMessage, OfShare
<1>a. n = [k EXCEPT !.type = "InvokeResponse", !.content = [ok |-> opens]]
  <2>1. PICK content : content = [ok |-> opens]
    OBVIOUS
  <2> HIDE DEF opens
  <2>2. [k EXCEPT !.type = "InvokeResponse", !.content = content]
          = [device |-> k.device, session |-> k.session, type |-> "InvokeResponse",
             content |-> content]
    BY <1>0, AnswerIs
  <2> QED
    BY <2>1, <2>2
<1>1. /\ k.type = "InvokeRequest"
      /\ UNCHANGED <<active, session, share, verifier, shares, given>>
      /\ \/ wire' = wire \ {k} /\ UNCHANGED opened
         \/ /\ wire' = (wire \ {k}) \cup {n}
            /\ opened' = IF opens THEN opened \cup {begun} ELSE opened
  BY <1>a DEF DeviceInvoked
<1>2. /\ OfShare(k) /\ d \in Devices /\ share[d] # Unshared
      /\ \A l \in wire \ {k} : l.device # d
      /\ k = [device |-> k.device, session |-> k.session, type |-> k.type, content |-> k.content]
      /\ k.content.verifier = share[d].passcode /\ k.content.discriminator = share[d].discriminator
  BY <1>1 DEF SharingInv, OneMessage, OfShare
<1>3. share[d] \in Share
  BY <1>2 DEF SharingInv, SharingTypes
<1>4. begun.verifier \in Passcodes /\ begun.discriminator \in Discriminators
  BY <1>2, <1>3 DEF Share
<1>5. begun = [device |-> d, verifier |-> share[d].passcode, discriminator |-> share[d].discriminator]
  BY <1>2
<1>6. /\ n.device = d /\ n.type = "InvokeResponse" /\ n.content.ok = opens
      /\ n = [device |-> n.device, session |-> n.session, type |-> n.type, content |-> n.content]
  OBVIOUS
<1> HIDE DEF begun, opens
<1>7. CASE wire' = wire \ {k} /\ UNCHANGED opened
  <2>1. SharingTypes'
    BY <1>1, <1>7 DEF SharingInv, SharingTypes
  <2> QED
    BY <1>1, <1>7, <2>1, OthersStep
<1>8. CASE /\ wire' = (wire \ {k}) \cup {n}
           /\ opened' = IF opens THEN opened \cup {begun} ELSE opened
  <2>1. SharingTypes'
    BY <1>1, <1>4, <1>8 DEF SharingInv, SharingTypes
  <2>2. OfShare(n)'
    <3>1. n.content.ok => begun \in opened'
      BY <1>6, <1>8
    <3> QED
      BY <1>1, <1>2, <1>5, <1>6, <3>1 DEF OfShare
  <2>3. OneMessage'
    <3>1. \A l \in wire' : l = n \/ (l \in wire /\ l.device # d)
      BY <1>2, <1>8
    <3>2. opened \subseteq opened'
      BY <1>8
    <3> HIDE DEF d
    <3> QED
      BY <1>1, <1>2, <1>6, <2>2, <3>1, <3>2, Follows DEF SharingInv
  <2>4. CodesOfWindow'
    BY <1>1, <1>8 DEF SharingInv, CodesOfWindow
  <2> QED
    BY <2>1, <2>3, <2>4 DEF SharingInv
<1> QED
  BY <1>1, <1>7, <1>8

-----------------------------------------------------------------------------
LEMMA SharingStarts == SharingInit => SharingInv
<1> SUFFICES ASSUME SharingInit PROVE SharingInv
  OBVIOUS
<1>1. SharingTypes
  BY SharesAssumption DEF SharingInit, SharingTypes
<1>2. OneMessage /\ CodesOfWindow
  BY DEF SharingInit, OneMessage, CodesOfWindow
<1> QED
  BY <1>1, <1>2 DEF SharingInv

LEMMA SharingKept ==
  ASSUME SharingInv, [SharingNext]_sharingVars
  PROVE  SharingInv'
<1>1. ASSUME NEW d \in Devices, LoseSession(d) \/ NewSession(d) \/ DeviceCloses(d)
      PROVE  SharingInv'
  <2>1. UNCHANGED <<share, verifier, wire, shares, opened, given>>
    BY <1>1 DEF LoseSession, NewSession, DeviceCloses, deviceVars
  <2>2. active' \in [Devices -> BOOLEAN] /\ session' \in [Devices -> Nat]
    <3>1. active \in [Devices -> BOOLEAN] /\ session \in [Devices -> Nat]
      BY DEF SharingInv, SharingTypes
    <3>2. CASE LoseSession(d)
      BY <3>1, <3>2 DEF LoseSession
    <3>3. CASE NewSession(d)
      BY <3>1, <3>3 DEF NewSession
    <3>4. CASE DeviceCloses(d)
      BY <3>1, <3>4 DEF DeviceCloses
    <3> QED
      BY <1>1, <3>2, <3>3, <3>4
  <2>3. SharingTypes'
    BY <2>1, <2>2 DEF SharingInv, SharingTypes
  <2> QED
    BY <2>1, <2>3, OthersStep
<1>2. ASSUME NEW k \in wire, Lose(k)
      PROVE  SharingInv'
  <2>1. /\ wire' = wire \ {k}
        /\ UNCHANGED <<active, session, share, verifier, shares, opened, given>>
    BY <1>2 DEF Lose, deviceVars
  <2>2. SharingTypes'
    BY <2>1 DEF SharingInv, SharingTypes
  <2> QED
    BY <2>1, <2>2, OthersStep
<1>3. CASE UNCHANGED sharingVars
  <2>1. UNCHANGED <<active, session, share, verifier, wire, shares, opened, given>>
    BY <1>3 DEF sharingVars, deviceVars
  <2>2. SharingTypes'
    BY <2>1 DEF SharingInv, SharingTypes
  <2> QED
    BY <2>1, <2>2, OthersStep
<1>4. CASE SharingNext
  BY <1>1, <1>2, <1>4, ShareDeviceStep, HandleStatusResponseStep, HandleInvokeResponseStep,
     DeviceAnnouncedStep, DeviceInvokedStep DEF SharingNext
<1> QED
  BY <1>3, <1>4

(* A share has at most one message on its way, which is of the passcode and  *)
(* the discriminator that are remembered, though answers are told apart by   *)
(* nothing but their session (matter.cpp:1519).                              *)
THEOREM SharingInvariant == SharingSpec => []SharingInv
<1>1. SharingInv /\ [SharingNext]_sharingVars => SharingInv'
  BY SharingKept
<1> QED
  BY SharingStarts, <1>1, PTL DEF SharingSpec

(* Both codes of a passcode and a discriminator are read as these two.       *)
LEMMA CodesAreRead == CodesRead
<1> SUFFICES ASSUME NEW p \in Passcodes, NEW d \in Discriminators,
                    NEW search \in {ParseManualCode(GenerateManualCode(p, d)),
                                    ParseQRCode(GenerateQRCode(p, d))}
             PROVE  search.passcode = p /\ Matches(search, d)
  BY Zenon DEF CodesRead
<1>1. LastPasscode \in Nat
  BY SMT DEF LastPasscode
<1>2. p \in Nat /\ p # 0 /\ p <= LastPasscode
  BY <1>1, SharingAssumption
<1>3. d \in Nat /\ d < 4096
  BY SharingAssumption, SMT
<1>4. ParseManualCode(GenerateManualCode(p, d))
        = [passcode |-> p, discriminator |-> d \div 256, short |-> TRUE]
  BY ONLY <1>2, <1>3, ManualRead
<1>5. ParseQRCode(GenerateQRCode(p, d))
        = [passcode |-> p, discriminator |-> d, short |-> FALSE]
  BY ONLY <1>2, <1>3, QRRead
<1>6. CASE search = [passcode |-> p, discriminator |-> d \div 256, short |-> TRUE]
  BY ONLY <1>6, SMT DEF Matches
<1>7. CASE search = [passcode |-> p, discriminator |-> d, short |-> FALSE]
  BY ONLY <1>7, SMT DEF Matches
<1> QED
  BY <1>4, <1>5, <1>6, <1>7, Zenon

(* The codes the user is given are those of a window that was opened at the  *)
(* device: by either of them it is found and its passcode known.             *)
THEOREM SharedAlwaysOpens == SharingSpec => []SharedOpens
<1>1. SharingInv => SharedOpens
  <2> SUFFICES ASSUME SharingInv, NEW g \in given
               PROVE  \E w \in opened :
                        /\ w.device = g.device
                        /\ \A search \in {ParseManualCode(g.manual), ParseQRCode(g.qr)} :
                             search.passcode = w.verifier /\ Matches(search, w.discriminator)
    BY DEF SharedOpens
  <2>1. PICK w \in opened :
          g = [device |-> w.device, manual |-> GenerateManualCode(w.verifier, w.discriminator),
               qr |-> GenerateQRCode(w.verifier, w.discriminator)]
    BY DEF SharingInv, CodesOfWindow
  <2>2. w.verifier \in Passcodes /\ w.discriminator \in Discriminators
    BY DEF SharingInv, SharingTypes
  <2>3. /\ g.device = w.device /\ g.manual = GenerateManualCode(w.verifier, w.discriminator)
        /\ g.qr = GenerateQRCode(w.verifier, w.discriminator)
    BY <2>1
  <2> QED
    BY <2>2, <2>3, CodesAreRead DEF CodesRead
<1> QED
  BY <1>1, SharingInvariant, PTL

-----------------------------------------------------------------------------
(* Division, for a remainder that is between.                                *)
LEMMA Divides ==
  ASSUME NEW a \in Nat, NEW b \in Nat \ {0}
  PROVE  /\ a \div b \in Nat
         /\ (a \div b) * b <= a
         /\ a < (a \div b) * b + b
  OBVIOUS

(* Sequence numbers go round once at most.                                   *)
LEMMA Wraps ==
  ASSUME NEW S \in Nat \ {0}, NEW x \in Nat, x < 2 * S
  PROVE  x % S = IF x < S THEN x ELSE x - S
  OBVIOUS

(* Products, without the prover's help.                                      *)
LEMMA Grows ==
  ASSUME NEW a \in Nat, NEW b \in Nat, a < b, NEW r \in Nat
  PROVE  /\ a * r \in Nat /\ b * r \in Nat
         /\ a * r + r <= b * r
         /\ (a + 1) * r = a * r + r
  OBVIOUS

(* A message goes into one packet or into as many as its length needs: all   *)
(* but the last are full.                                                    *)
LEMMA Filled ==
  ASSUME NEW L \in Nat \ {0}, NEW size \in Nat, size > 5
  PROVE  LET N == Packets(L, size) IN
         /\ N \in Nat \ {0}
         /\ L <= (size - 5) + (N - 1) * (size - 2)
         /\ N > 1 => (size - 5) + (N - 2) * (size - 2) < L
<1> DEFINE f == size - 5
           r == size - 2
           N == Packets(L, size)
<1>1. f \in Nat \ {0} /\ r \in Nat \ {0} /\ size - 3 = r - 1 /\ r - 1 \in Nat
  OBVIOUS
<1>2. CASE L <= f
  <2>1. N = 1
    BY <1>2 DEF Packets
  <2>2. 0 * r = 0
    BY <1>1
  <2> QED
    BY <1>1, <1>2, <2>1, <2>2
<1>3. CASE ~(L <= f)
  <2> DEFINE x == L - f
             q == (x + (r - 1)) \div r
  <2>1. x \in Nat \ {0} /\ x + (r - 1) \in Nat
    BY <1>1, <1>3
  <2>2. N = 1 + q
    BY <1>1, <1>3 DEF Packets
  <2> HIDE DEF f, r, N
  <2>3. q \in Nat /\ q * r <= x + (r - 1) /\ x + (r - 1) < q * r + r
    BY <1>1, <2>1, Divides
  <2> HIDE DEF q
  <2>4. q # 0
    <3> SUFFICES ASSUME q = 0 PROVE FALSE
      OBVIOUS
    <3>1. q * r = 0
      BY <1>1
    <3> QED
      BY <1>1, <2>1, <2>3, <3>1
  <2>5. q - 1 \in Nat /\ q = (q - 1) + 1
    BY <2>3, <2>4
  <2>6. q * r = (q - 1) * r + r /\ (q - 1) * r \in Nat /\ q * r \in Nat
    BY <1>1, <2>5, Grows
  <2>7. N - 1 = q /\ N - 2 = q - 1 /\ N \in Nat \ {0}
    BY <2>2, <2>3
  <2>8. L <= f + q * r /\ f + (q - 1) * r < L
    BY <1>1, <2>1, <2>3, <2>6
  <2> QED
    BY <2>7, <2>8 DEF f, r, N
<1> QED
  BY <1>2, <1>3

(* Where the packets end.                                                    *)
LEMMA Cuts ==
  ASSUME NEW L \in Nat \ {0}, NEW size \in Nat, size > 5
  PROVE  LET N == Packets(L, size)
             cut(k) == Cut(L, size, k)
         IN /\ N \in Nat \ {0} /\ cut(0) = 0 /\ cut(N) = L
            /\ \A k \in 0..N : cut(k) \in 0..L
            /\ \A k \in 1..N : cut(k - 1) < L
            /\ \A k \in 1..N : cut(k - 1) = IF k = 1 THEN 0 ELSE (size - 5) + (k - 2) * (size - 2)
            /\ \A k \in 1..N : cut(k) = Smaller(L, IF k = 1 THEN size - 5 ELSE cut(k - 1) + (size - 2))
<1> DEFINE f == size - 5
           r == size - 2
           N == Packets(L, size)
           cut(k) == Cut(L, size, k)
<1>1. f \in Nat \ {0} /\ r \in Nat \ {0}
  OBVIOUS
<1>2. N \in Nat \ {0} /\ L <= f + (N - 1) * r /\ (N > 1 => f + (N - 2) * r < L)
  BY Filled
<1> HIDE DEF f, r, N
<1>3. \A k \in Nat : cut(k) = IF k = 0 THEN 0 ELSE Smaller(L, f + (k - 1) * r)
  BY DEF Cut, f, r
<1> HIDE DEF cut
<1>4. \A k \in Nat : k * r \in Nat /\ (k + 1) * r = k * r + r
  BY <1>1, Grows
<1>5. \A k \in 0..N : cut(k) \in 0..L
  <2> SUFFICES ASSUME NEW k \in 1..N PROVE cut(k) \in 0..L
    BY <1>2, <1>3
  <2>1. k - 1 \in Nat /\ (k - 1) * r \in Nat
    BY <1>2, <1>4
  <2> QED
    BY <1>1, <1>2, <1>3, <2>1 DEF Smaller
<1>6. ASSUME NEW k \in 1..N
      PROVE  cut(k - 1) < L /\ cut(k - 1) = IF k = 1 THEN 0 ELSE f + (k - 2) * r
  <2>1. CASE k = 1
    BY <1>3, <2>1
  <2>2. CASE k > 1
    <3>1. k - 1 \in Nat /\ k - 1 # 0 /\ (k - 1) - 1 = k - 2 /\ k - 2 \in Nat /\ N - 2 \in Nat /\ k - 2 <= N - 2
      BY <1>2, <2>2
    <3>2. (k - 2) * r <= (N - 2) * r /\ (k - 2) * r \in Nat /\ (N - 2) * r \in Nat
      <4>1. CASE k - 2 = N - 2
        BY <1>4, <3>1, <4>1
      <4>2. CASE k - 2 < N - 2
        BY <1>1, <3>1, <4>2, Grows
      <4> QED
        BY <3>1, <4>1, <4>2
    <3>3. f + (k - 2) * r < L
      BY <1>1, <1>2, <2>2, <3>1, <3>2
    <3>4. cut(k - 1) = Smaller(L, f + (k - 2) * r)
      BY <1>3, <3>1
    <3> QED
      BY <1>1, <2>2, <3>2, <3>3, <3>4 DEF Smaller
  <2> QED
    BY <1>2, <2>1, <2>2
<1>7. ASSUME NEW k \in 1..N
      PROVE  cut(k) = Smaller(L, IF k = 1 THEN f ELSE cut(k - 1) + r)
  <2>1. cut(k) = Smaller(L, f + (k - 1) * r)
    BY <1>2, <1>3
  <2>2. CASE k = 1
    <3>1. 0 * r = 0
      BY <1>1
    <3> QED
      BY <1>1, <2>1, <2>2, <3>1
  <2>3. CASE k > 1
    <3>1. k - 2 \in Nat /\ (k - 2) + 1 = k - 1
      BY <1>2, <2>3
    <3>2. (k - 1) * r = (k - 2) * r + r /\ (k - 2) * r \in Nat
      BY <1>4, <3>1
    <3>3. cut(k - 1) + r = f + (k - 1) * r
      BY <1>1, <1>6, <2>3, <3>2
    <3> QED
      BY <2>1, <2>3, <3>3
  <2> QED
    BY <1>2, <2>2, <2>3
<1>8. cut(0) = 0
  BY <1>3
<1>9. cut(N) = L
  <2>1. N - 1 \in Nat /\ (N - 1) * r \in Nat
    BY <1>2, <1>4
  <2> QED
    BY <1>1, <1>2, <1>3, <2>1 DEF Smaller
<1> QED
  BY <1>2, <1>5, <1>6, <1>7, <1>8, <1>9 DEF f, r, N, cut

(* Where one packet begins and ends.                                         *)
LEMMA CutAt ==
  ASSUME NEW L \in Nat \ {0}, NEW size \in Nat, size > 5, NEW k \in 1 .. Packets(L, size),
         NEW a, a = Cut(L, size, k - 1), NEW b, b = Cut(L, size, k)
  PROVE  /\ Packets(L, size) \in Nat \ {0} /\ k \in Nat
         /\ a \in 0..L /\ b \in a..L /\ a < L
         /\ (k = 1 <=> a = 0) /\ (k = Packets(L, size) <=> b = L)
         /\ a = (IF k = 1 THEN 0 ELSE (size - 5) + (k - 2) * (size - 2))
         /\ b = Smaller(L, IF k = 1 THEN size - 5 ELSE a + (size - 2))
<1>1. PICK N : N = Packets(L, size)
  OBVIOUS
<1>2. /\ N \in Nat \ {0} /\ Cut(L, size, 0) = 0 /\ Cut(L, size, N) = L
      /\ \A i \in 0..N : Cut(L, size, i) \in 0..L
      /\ \A i \in 1..N : Cut(L, size, i - 1) < L
      /\ a = (IF k = 1 THEN 0 ELSE (size - 5) + (k - 2) * (size - 2))
      /\ b = Smaller(L, IF k = 1 THEN size - 5 ELSE a + (size - 2))
  BY <1>1, Cuts
<1>3. k \in 1..N /\ k - 1 \in 0..N /\ k \in 0..N /\ k \in Nat
  BY <1>1, <1>2
<1>4. a \in 0..L /\ a < L /\ b \in 0..L
  BY <1>2, <1>3
<1>5. b \in a..L
  <2>1. b >= a
    BY <1>2, <1>4 DEF Smaller
  <2> QED
    BY <1>4, <2>1
<1>6. k # 1 => a # 0
  <2> SUFFICES ASSUME k # 1 PROVE a # 0
    OBVIOUS
  <2>1. PICK r, n : r = size - 2 /\ n = k - 2
    OBVIOUS
  <2>2. n \in Nat /\ r \in Nat
    BY <1>3, <2>1
  <2>3. a = (size - 5) + n * r
    BY <1>2, <2>1
  <2>4. PICK x \in Nat : x = n * r
    BY <2>2, Grows
  <2>5. a = (size - 5) + x
    BY <2>3, <2>4
  <2> QED
    BY <2>5
<1>7. k # N => b # L
  <2> SUFFICES ASSUME k # N PROVE b # L
    OBVIOUS
  <2>1. k + 1 \in 1..N /\ (k + 1) - 1 = k
    BY <1>2, <1>3
  <2>2. Cut(L, size, k) < L
    BY <1>2, <2>1
  <2> QED
    BY <2>2
<1>8. k = N => b = L
  BY <1>2
<1>9. k = 1 => a = 0
  BY <1>2
<1> QED
  BY <1>1, <1>2, <1>3, <1>4, <1>5, <1>6, <1>7, <1>8, <1>9

(* The sizes there are.                                                      *)
LEMMA Sized ==
  ASSUME NEW m \in Seq(Byte), m # <<>>, NEW size \in Mtus
  PROVE  Len(m) \in Nat \ {0} /\ size \in Nat /\ size > 5
<1>1. Len(m) \in Nat \ {0}
  BY EmptySeq
<1>2. size \in Nat /\ size \notin 0..5
  BY BtpAssumption
<1> QED
  BY <1>1, <1>2

(* Part of a sequence, from one place to another.                            *)
LEMMA PartOf ==
  ASSUME NEW S, NEW s \in Seq(S), NEW b \in 0..Len(s), NEW a \in 0..b
  PROVE  /\ Piece(s, a, b) \in Seq(S) /\ Len(Piece(s, a, b)) = b - a
         /\ \A i \in 1 .. b - a : Piece(s, a, b)[i] = s[a + i]
<1>1. PICK l, n : l = a + 1 /\ n = b - a
  OBVIOUS
<1>2. l \in Int /\ b \in Int /\ a \in Nat /\ n \in Nat /\ b - l + 1 = n /\ (l <= b <=> n # 0)
  BY <1>1
<1>3. \A i \in l..b : s[i] \in S
  <2> SUFFICES ASSUME NEW i \in l..b PROVE s[i] \in S
    OBVIOUS
  <2>1. Len(s) \in Nat
    OBVIOUS
  <2>2. i \in 1..Len(s)
    BY <1>1, <2>1
  <2> QED
    BY <2>2, ElementOfSeq
<1>4. \A i \in 1..n : l + i - 1 = a + i
  BY <1>1, <1>2
<1>5. /\ SubSeq(s, l, b) \in Seq(S)
      /\ Len(SubSeq(s, l, b)) = IF l <= b THEN b - l + 1 ELSE 0
      /\ \A i \in 1 .. b - l + 1 : SubSeq(s, l, b)[i] = s[l + i - 1]
  BY <1>2, <1>3, SubSeqProperties
<1>6. Len(SubSeq(s, l, b)) = n
  BY <1>2, <1>5
<1>7. \A i \in 1..n : SubSeq(s, l, b)[i] = s[a + i]
  BY <1>2, <1>4, <1>5
<1>8. Piece(s, a, b) = SubSeq(s, l, b)
  BY <1>1 DEF Piece
<1>9. PICK part : part = SubSeq(s, l, b)
  OBVIOUS
<1>10. part \in Seq(S) /\ Len(part) = n /\ \A i \in 1..n : part[i] = s[a + i]
  BY <1>5, <1>6, <1>7, <1>9
<1>11. part = Piece(s, a, b)
  BY <1>8, <1>9
<1> QED
  BY <1>1, <1>10, <1>11

(* Part of a message.                                                        *)
LEMMA PartFrom ==
  ASSUME NEW m \in Seq(Byte), NEW b \in 0..Len(m), NEW a \in 0..b
  PROVE  /\ Piece(m, a, b) \in Seq(Byte) /\ Len(Piece(m, a, b)) = b - a
         /\ \A i \in 1 .. b - a : Piece(m, a, b)[i] = m[a + i]
         /\ Piece(m, a, b) = <<>> <=> a = b
<1>1. PICK part : part = Piece(m, a, b)
  OBVIOUS
<1>2. part \in Seq(Byte) /\ Len(part) = b - a /\ \A i \in 1 .. b - a : part[i] = m[a + i]
  BY <1>1, PartOf
<1>3. Len(m) \in Nat /\ (b - a = 0 <=> a = b)
  <2>1. Len(m) \in Nat
    BY LenProperties
  <2> QED
    BY <2>1
<1>4. part = <<>> <=> a = b
  BY <1>2, <1>3, EmptySeq
<1> QED
  BY <1>1, <1>2, <1>4

(* A part of what is left of a message is a part of the message.             *)
LEMMA Rest ==
  ASSUME NEW m \in Seq(Byte), NEW a \in 0..Len(m), NEW rest, rest = Piece(m, a, Len(m)),
         NEW b \in 0 .. Len(m) - a, NEW c \in b .. Len(m) - a
  PROVE  Piece(rest, b, c) = Piece(m, a + b, a + c)
<1>1. PICK L, n, x, y : L = Len(m) /\ n = c - b /\ x = a + b /\ y = a + c
  OBVIOUS
<1>2. /\ L \in Nat /\ a \in 0..L /\ n \in Nat /\ x \in 0..y /\ y \in 0..L /\ y - x = n
      /\ b \in 0..c /\ c \in 0 .. L - a
      /\ \A i \in 1..n : b + i \in 1 .. L - a /\ a + (b + i) = x + i
  BY <1>1
<1>3. rest \in Seq(Byte) /\ Len(rest) = L - a /\ \A i \in 1 .. L - a : rest[i] = m[a + i]
  <2>1. L \in 0..Len(m)
    BY <1>1, <1>2
  <2>2. /\ Piece(m, a, L) \in Seq(Byte) /\ Len(Piece(m, a, L)) = L - a
        /\ \A i \in 1 .. L - a : Piece(m, a, L)[i] = m[a + i]
    BY <1>2, <2>1, PartFrom
  <2> QED
    BY <1>1, <2>2
<1>4. PICK one, other : one = Piece(rest, b, c) /\ other = Piece(m, x, y)
  OBVIOUS
<1>5. one \in Seq(Byte) /\ Len(one) = n /\ \A i \in 1..n : one[i] = rest[b + i]
  <2>1. c \in 0..Len(rest) /\ b \in 0..c /\ rest \in Seq(Byte)
    BY <1>2, <1>3
  <2>2. /\ Piece(rest, b, c) \in Seq(Byte) /\ Len(Piece(rest, b, c)) = c - b
        /\ \A i \in 1 .. c - b : Piece(rest, b, c)[i] = rest[b + i]
    BY ONLY <2>1, PartFrom, ZenonT(40)
  <2> QED
    BY <1>1, <1>4, <2>2
<1>6. other \in Seq(Byte) /\ Len(other) = n /\ \A i \in 1..n : other[i] = m[x + i]
  <2>1. y \in 0..Len(m) /\ x \in 0..y /\ m \in Seq(Byte)
    BY <1>1, <1>2
  <2>2. /\ Piece(m, x, y) \in Seq(Byte) /\ Len(Piece(m, x, y)) = y - x
        /\ \A i \in 1 .. y - x : Piece(m, x, y)[i] = m[x + i]
    BY ONLY <2>1, PartFrom, ZenonT(40)
  <2> QED
    BY <1>2, <1>4, <2>2
<1>7. ASSUME NEW i \in 1..n PROVE one[i] = other[i]
  <2>1. b + i \in 1 .. L - a /\ a + (b + i) = x + i
    BY <1>2
  <2>2. one[i] = rest[b + i]
    BY <1>5
  <2>3. rest[b + i] = m[a + (b + i)]
    BY <1>3, <2>1, Zenon
  <2>4. other[i] = m[x + i]
    BY <1>6
  <2> QED
    BY <2>1, <2>2, <2>3, <2>4, Zenon
<1>8. one = other
  BY <1>5, <1>6, <1>7, SeqEqual
<1> QED
  BY <1>1, <1>4, <1>8

(* The fields of a packet.                                                   *)
LEMMA FieldsOf ==
  ASSUME NEW begin, NEW end, NEW ack, NEW sequence, NEW length,
         NEW payload, NEW p, p = Packet(begin, end, ack, sequence, length, payload)
  PROVE  /\ ~IsHandshake(p) /\ p.begin = begin /\ p.end = end
         /\ p.ack = ack /\ p.sequence = sequence /\ p.length = length
         /\ p.payload = payload
<1>1. p = [begin |-> begin, end |-> end, ack |-> ack, sequence |-> sequence,
           length |-> length, payload |-> payload]
  BY DEF Packet
<1>2. DOMAIN p = {"begin", "end", "ack", "sequence", "length", "payload"}
  BY <1>1
<1>3. ~IsHandshake(p)
  BY <1>2 DEF IsHandshake
<1>4. /\ p.begin = begin /\ p.end = end
      /\ p.ack = ack /\ p.sequence = sequence /\ p.length = length
      /\ p.payload = payload
  BY <1>1
<1> QED
  BY <1>3, <1>4

(* A packet of a message: its flags tell the first and the last, and it is   *)
(* no larger than packets are.                                               *)
LEMMA PacketIs ==
  ASSUME NEW m \in Seq(Byte), m # <<>>, NEW size \in Mtus, NEW ack, NEW sequence,
         NEW k \in 1 .. Packets(Len(m), size), k = 1 \/ ack = None,
         NEW p, p = PacketOf(m, size, k, ack, sequence)
  PROVE  /\ (p.begin <=> k = 1) /\ (p.end <=> k = Packets(Len(m), size))
         /\ p.ack = ack /\ p.sequence = sequence
         /\ p.length = (IF k = 1 THEN Len(m) ELSE None)
         /\ p.payload \in Seq(Byte)
         /\ Len(p.payload) = Cut(Len(m), size, k) - Cut(Len(m), size, k - 1)
         /\ Size(p) <= size
<1>1. PICK L, N, c, d, n : /\ L = Len(m) /\ N = Packets(L, size)
                           /\ c = Cut(L, size, k - 1) /\ d = Cut(L, size, k) /\ n = d - c
  OBVIOUS
<1>2. L \in Nat \ {0} /\ size \in Nat /\ size > 5
  BY <1>1, Sized
<1>3. /\ c \in 0..L /\ d \in c..L
      /\ (k = 1 => c = 0) /\ d = Smaller(L, IF k = 1 THEN size - 5 ELSE c + (size - 2))
  BY <1>1, <1>2, CutAt
<1>4. PICK length, payload, begin, end :
        /\ length = (IF k = 1 THEN L ELSE None) /\ payload = Piece(m, c, d)
        /\ begin = (k = 1) /\ end = (k = N)
  OBVIOUS
<1>5. /\ p.begin = begin /\ p.end = end
      /\ p.ack = ack /\ p.sequence = sequence /\ p.length = length
      /\ p.payload = payload
  <2>1. p = Packet(begin, end, ack, sequence, length, payload)
    BY <1>1, <1>4 DEF PacketOf
  <2> QED
    BY <2>1, FieldsOf
<1>6. (p.begin <=> k = 1) /\ (p.end <=> k = N)
  BY <1>4, <1>5, Zenon
<1>7. payload \in Seq(Byte) /\ Len(payload) = n
  <2>1. d \in 0..Len(m) /\ c \in 0..d
    BY <1>1, <1>2, <1>3
  <2> QED
    BY <1>1, <1>4, <2>1, PartFrom
<1>8. Size(p) <= size
  <2>1. Size(p) = 2 + (IF ack = None THEN 0 ELSE 1) + (IF k = 1 THEN 2 ELSE 0) + n
    BY <1>5, <1>6, <1>7 DEF Size
  <2>2. CASE k = 1
    <3>1. n <= size - 5 /\ n \in Nat
      BY <1>1, <1>2, <1>3, <2>2 DEF Smaller
    <3> QED
      BY <1>2, <2>1, <2>2, <3>1
  <2>3. CASE k # 1
    <3>1. n <= size - 2 /\ n \in Nat
      BY <1>1, <1>2, <1>3, <2>3 DEF Smaller
    <3> QED
      BY <1>2, <2>1, <2>3, <3>1
  <2> QED
    BY <2>2, <2>3
<1> QED
  BY <1>1, <1>4, <1>5, <1>6, <1>7, <1>8

(* One part of a message after another.                                      *)
Joined(a, b) == a \o b

(* What is taken with the packets before it, and with it.                    *)
LEMMA TakenIs ==
  ASSUME NEW m \in Seq(Byte), m # <<>>, NEW size \in Mtus,
         NEW k \in 1 .. Packets(Len(m), size),
         NEW ack, NEW sequence, NEW payload, payload = PacketOf(m, size, k, ack, sequence).payload,
         NEW before, before = FrontOf(m, size, k - 1), NEW after, after = FrontOf(m, size, k)
  PROVE  /\ before \in Seq(Byte) /\ Len(before) = Cut(Len(m), size, k - 1)
         /\ Joined(before, payload) = after
<1>1. PICK L, c, d : L = Len(m) /\ c = Cut(L, size, k - 1) /\ d = Cut(L, size, k)
  OBVIOUS
<1>2. L \in Nat \ {0} /\ size \in Nat /\ size > 5
  BY <1>1, Sized
<1>3. c \in 0..L /\ d \in c..L
  BY <1>1, <1>2, CutAt
<1>4. Piece(m, 0, c) \in Seq(Byte) /\ Len(Piece(m, 0, c)) = c
  <2>1. c \in 0..Len(m) /\ 0 \in 0..c /\ c - 0 = c
    BY <1>1, <1>2, <1>3
  <2>2. Piece(m, 0, c) \in Seq(Byte) /\ Len(Piece(m, 0, c)) = c - 0
    BY <2>1, PartFrom
  <2> QED
    BY <2>1, <2>2
<1>5. Joined(Piece(m, 0, c), Piece(m, c, d)) = Piece(m, 0, d)
  <2>1. 1 \in 1 .. Len(m) + 1 /\ c \in 1 - 1 .. Len(m) /\ d \in c .. Len(m) /\ 0 + 1 = 1
    BY <1>1, <1>2, <1>3
  <2>2. SubSeq(m, 1, c) \o SubSeq(m, c + 1, d) = SubSeq(m, 1, d)
    BY <2>1, ConcatAdjacentSubSeq
  <2> QED
    BY <2>1, <2>2 DEF Piece, Joined
<1>6. before = Piece(m, 0, c) /\ after = Piece(m, 0, d) /\ payload = Piece(m, c, d)
  BY <1>1 DEF FrontOf, PacketOf, Packet
<1> QED
  BY <1>1, <1>4, <1>5, <1>6

(* All packets of a message, and none.                                       *)
LEMMA Whole ==
  ASSUME NEW m \in Seq(Byte), m # <<>>, NEW size \in Mtus
  PROVE  /\ Packets(Len(m), size) \in Nat \ {0}
         /\ FrontOf(m, size, 0) = <<>>
         /\ FrontOf(m, size, Packets(Len(m), size)) = m
         /\ Left(m, size, 0) = m
         /\ Left(m, size, Packets(Len(m), size)) = <<>>
<1>1. PICK L, N : L = Len(m) /\ N = Packets(L, size)
  OBVIOUS
<1>2. L \in Nat \ {0} /\ size \in Nat /\ size > 5
  BY <1>1, Sized
<1>3. N \in Nat \ {0} /\ Cut(L, size, 0) = 0 /\ Cut(L, size, N) = L
  BY <1>1, <1>2, Cuts
<1>4. Piece(m, 0, L) = m
  <2>1. SubSeq(m, 1, L) = m
    BY <1>1, SubSeqFull
  <2>2. 0 + 1 = 1
    OBVIOUS
  <2> QED
    BY <2>1, <2>2 DEF Piece
<1>5. Piece(m, L, L) = <<>> /\ Piece(m, 0, 0) = <<>>
  <2>1. L \in 0..Len(m) /\ L \in 0..L /\ 0 \in 0..Len(m) /\ 0 \in 0..0
    BY <1>1, <1>2
  <2> QED
    BY <2>1, PartFrom
<1> QED
  BY <1>1, <1>3, <1>4, <1>5 DEF FrontOf, Left

(* sendSegments: the segments of a message are its packets.                  *)
LEMMA Segmented ==
  ASSUME NEW m \in Seq(Byte), m # <<>>, mtu \in Mtus, NEW k \in 1 .. Packets(Len(m), mtu)
  PROVE  Segment(m, k) = PacketOf(m, mtu, k, IF k = 1 THEN rxSequence ELSE None,
                                  (txSequence + k - 1) % Space)
<1>1. PICK L, N, a, b : /\ L = Len(m) /\ N = Packets(L, mtu)
                        /\ a = Cut(L, mtu, k - 1) /\ b = Cut(L, mtu, k)
  OBVIOUS
<1>2. L \in Nat \ {0} /\ mtu \in Nat /\ mtu > 5
  BY <1>1, Sized
<1>3. /\ k # 0 /\ (k = N <=> b = L)
      /\ a = (IF k = 1 THEN 0 ELSE (mtu - 5) + (k - 2) * (mtu - 2))
  BY <1>1, <1>2, CutAt
<1>4. Smaller(L, FirstRoom + (k - 1) * Room) = b
  BY <1>1, <1>3 DEF Cut, FirstRoom, Room
<1>5. (IF k = 1 THEN 1 ELSE FirstRoom + (k - 2) * Room + 1) = a + 1
  BY <1>2, <1>3 DEF FirstRoom, Room
<1>6. PICK ack, sequence, payload :
        /\ ack = (IF k = 1 THEN rxSequence ELSE None) /\ sequence = (txSequence + k - 1) % Space
        /\ payload = SubSeq(m, a + 1, b)
  OBVIOUS
<1>7. Segment(m, k) = Packet(k = 1, b = L, ack, sequence, IF k = 1 THEN L ELSE None, payload)
  BY <1>1, <1>4, <1>5, <1>6 DEF Segment
<1>8. PacketOf(m, mtu, k, ack, sequence)
        = Packet(k = 1, k = N, ack, sequence, IF k = 1 THEN L ELSE None, payload)
  BY <1>1, <1>6 DEF PacketOf, Piece
<1> QED
  BY <1>3, <1>6, <1>7, <1>8

(* What was said before is the beginning of what is said now.                *)
LEMMA GoesBefore ==
  ASSUME NEW S, NEW s \in Seq(S), NEW x \in S
  PROVE  IsPrefix(s, s) /\ IsPrefix(s, Append(s, x))
<1>1. PICK n, t : n = Len(s) /\ t = Append(s, x)
  OBVIOUS
<1>2. n \in Nat /\ t \in Seq(S) /\ Len(t) = n + 1 /\ \A i \in 1..n : t[i] = s[i]
  BY <1>1, AppendProperties, LenProperties
<1>3. n \in 0..Len(s) /\ n \in 0..Len(t) /\ 0 \in 0..n /\ n - 0 = n /\ \A i \in 1..n : 0 + i = i
  BY <1>1, <1>2
<1>4. PICK one : one = Piece(s, 0, n)
  OBVIOUS
<1>5. PICK other : other = Piece(t, 0, n)
  OBVIOUS
<1>6. one \in Seq(S) /\ Len(one) = n /\ \A i \in 1..n : one[i] = s[0 + i]
  <2>1. /\ Piece(s, 0, n) \in Seq(S) /\ Len(Piece(s, 0, n)) = n - 0
        /\ \A i \in 1 .. n - 0 : Piece(s, 0, n)[i] = s[0 + i]
    BY <1>3, PartOf
  <2> QED
    BY <1>3, <1>4, <2>1
<1>7. other \in Seq(S) /\ Len(other) = n /\ \A i \in 1..n : other[i] = t[0 + i]
  <2>1. t \in Seq(S)
    BY <1>2
  <2>2. /\ Piece(t, 0, n) \in Seq(S) /\ Len(Piece(t, 0, n)) = n - 0
        /\ \A i \in 1 .. n - 0 : Piece(t, 0, n)[i] = t[0 + i]
    BY <1>3, <2>1, PartOf
  <2> QED
    BY <1>3, <1>5, <2>2
<1>8. \A i \in 1..n : other[i] = one[i]
  BY <1>2, <1>3, <1>6, <1>7
<1>9. one = other
  BY <1>6, <1>7, <1>8, SeqEqual
<1>10. SubSeq(s, 1, n) = SubSeq(t, 1, n)
  <2>1. 0 + 1 = 1
    OBVIOUS
  <2>2. Piece(s, 0, n) = Piece(t, 0, n)
    BY <1>4, <1>5, <1>9
  <2> QED
    BY <2>1, <2>2, Zenon DEF Piece
<1> QED
  BY <1>1, <1>2, <1>3, <1>10 DEF IsPrefix

(* What both ends have of the connection is right in each of its phases.     *)
LEMMA Connected ==
  ASSUME BtpTypes', linked', peer' \in Device, Beginning' \/ Going'
  PROVE  BtpInv'
<1> SUFFICES IsPrefix(heard, said)' /\ IsPrefix(got, replied)'
  BY DEF BtpInv
<1> DEFINE M == Seq(Byte)
<1>1. said' \in Seq(M) /\ heard' \in Seq(M) /\ replied' \in Seq(M) /\ got' \in Seq(M)
  BY DEF BtpTypes
<1>2. <<>> \in M
  BY EmptySeq
<1> HIDE DEF M
<1>3. CASE Beginning'
  <2>1. heard' = said' /\ got' = replied'
    BY <1>3 DEF Beginning
  <2> QED
    BY <1>1, <1>2, <2>1, GoesBefore
<1>4. CASE Idle'
  <2>1. heard' = said' /\ got' = replied'
    BY <1>4 DEF Idle
  <2> QED
    BY <1>1, <1>2, <2>1, GoesBefore
<1>5. ASSUME NEW message, NEW j, Sending(message, j)'
      PROVE  IsPrefix(heard, said)' /\ IsPrefix(got, replied)'
  <2>1. message \in M /\ said' = Append(heard', message) /\ got' = replied'
    BY <1>5 DEF Sending, InPackets, M
  <2> QED
    BY <1>1, <1>2, <2>1, GoesBefore
<1>6. ASSUME NEW message, NEW h, NEW s, NEW e, NEW o, Answering(message, h, s, e, o)'
      PROVE  IsPrefix(heard, said)' /\ IsPrefix(got, replied)'
  <2>1. message \in M /\ replied' = Append(got', message) /\ heard' = said'
    BY <1>6 DEF Answering, InPackets, M
  <2> QED
    BY <1>1, <1>2, <2>1, GoesBefore
<1> QED
  BY <1>3, <1>4, <1>5, <1>6 DEF Going

(* Nothing is connected at first.                                            *)
LEMMA BtpStarts == BtpInit => BtpInv
<1> SUFFICES ASSUME BtpInit PROVE BtpInv
  OBVIOUS
<1>1. BtpTypes
  <2>1. <<>> \in Seq(Seq(Byte))
    BY EmptySeq
  <2> QED
    BY <2>1 DEF BtpInit, BtpTypes
<1> QED
  BY <1>1 DEF BtpInit, BtpInv

-----------------------------------------------------------------------------
(* A new connection begins with the device's answer to the handshake.        *)
LEMMA ConnectStep ==
  ASSUME BtpInv, Connect
  PROVE  BtpInv'
<1>1. PICK size \in Mtus : peer' = Fresh(size) /\ in' = <<Handshake(size)>>
  BY DEF Connect
<1>2. /\ ~linked /\ linked' /\ ~commissioning /\ connection' = connection + 1 /\ out = <<>>
      /\ said' = <<>> /\ heard' = <<>> /\ replied' = <<>> /\ got' = <<>>
      /\ UNCHANGED <<commissioning, ready, mtu, txSequence, rxSequence, rxBuffer, out>>
      /\ linked' = TRUE
  BY DEF Connect, BtpInv, ownVars
<1>3. BtpTypes'
  <2>1. <<>> \in Seq(Seq(Byte))
    BY EmptySeq
  <2> QED
    BY <1>2, <2>1 DEF BtpInv, BtpTypes
<1>4. peer' \in Device /\ peer'.mtu = size
  <2>1. 0 \in Number /\ size \in Mtus /\ <<>> \in Seq(Byte)
    BY BtpAssumption, EmptySeq DEF Number
  <2> QED
    BY <1>1, <2>1 DEF Fresh, Device
<1>5. Beginning'
  BY <1>1, <1>2, <1>4 DEF Beginning
<1> QED
  BY <1>2, <1>3, <1>4, <1>5, Connected

(* A connection that breaks off, at any moment.                              *)
LEMMA DisconnectStep ==
  ASSUME BtpInv, Disconnect
  PROVE  BtpInv'
<1>1. /\ linked' = FALSE /\ commissioning' = FALSE /\ in' = <<>> /\ out' = <<>>
      /\ UNCHANGED <<ready, mtu, txSequence, rxSequence, rxBuffer, peer, connection, said, heard, replied, got>>
  BY DEF Disconnect, ownVars
<1>2. BtpTypes'
  BY <1>1 DEF BtpInv, BtpTypes
<1>3. (peer # None => peer \in Device /\ IsPrefix(heard, said) /\ IsPrefix(got, replied))'
  BY <1>1 DEF BtpInv
<1> QED
  BY <1>1, <1>2, <1>3 DEF BtpInv

(* A handshake is on its way only while the connection begins; a packet of   *)
(* the device's only while it answers.                                       *)
LEMMA Under ==
  ASSUME BtpInv
  PROVE  /\ (in # <<>> \/ out # <<>>) => linked
         /\ in # <<>> => (IsHandshake(Head(in)) => Beginning) /\ (~IsHandshake(Head(in)) => Going)
         /\ commissioning => linked /\ Going
<1>1. /\ (in # <<>> \/ out # <<>>) => linked
      /\ commissioning => linked /\ Going
  BY DEF BtpInv, Beginning
<1>2. ASSUME in # <<>>, Beginning PROVE IsHandshake(Head(in))
  <2>1. Head(in) = Handshake(peer.mtu)
    BY <1>2 DEF Beginning
  <2>2. DOMAIN Head(in) = {"handshake"}
    BY <2>1 DEF Handshake
  <2> QED
    BY <2>2 DEF IsHandshake
<1>3. ASSUME in # <<>>, Going PROVE ~IsHandshake(Head(in))
  <2>1. Head(in) \in AnyPacket
    BY <1>3, HeadTailProperties DEF Going
  <2>2. DOMAIN Head(in) = {"begin", "end", "ack", "sequence", "length", "payload"}
    BY <2>1 DEF AnyPacket
  <2> QED
    BY <2>2 DEF IsHandshake
<1> QED
  BY <1>1, <1>2, <1>3 DEF BtpInv

(* The handshake response opens the connection, whatever an earlier one left *)
(* in the buffer.                                                            *)
LEMMA HandleHandshakeStep ==
  ASSUME BtpInv, HandleHandshake
  PROVE  BtpInv'
<1>1. Beginning /\ linked /\ in # <<>>
  BY Under DEF HandleHandshake
<1>2. peer \in Device
  BY <1>1 DEF BtpInv
<1>3. peer = Fresh(peer.mtu)
  BY <1>1 DEF Beginning
<1>4. /\ peer.next = 0 /\ peer.sent = 0 /\ peer.buffer = <<>> /\ peer.length = None
      /\ peer.reply = <<>> /\ peer.owes = 0
  BY <1>3 DEF Fresh
<1>5. in' = <<>> /\ mtu' = peer.mtu
  <2>1. in = <<Handshake(peer.mtu)>>
    BY <1>1 DEF Beginning
  <2> QED
    BY <2>1 DEF HandleHandshake, Handshake
<1>6. /\ ready' = TRUE /\ txSequence' = 0 /\ rxSequence' = 0 /\ commissioning' = TRUE
      /\ UNCHANGED <<rxBuffer, linked, out, peer, connection, said, heard, replied, got>>
  BY DEF HandleHandshake
<1>7. Idle'
  BY <1>1, <1>4, <1>5, <1>6 DEF Idle, AtRest, Beginning
<1>8. Going'
  <2>1. <<>> \in Seq(AnyPacket)
    BY EmptySeq
  <2>2. in' = <<>> /\ out' = <<>>
    BY <1>1, <1>5, <1>6 DEF Beginning
  <2> QED
    BY <1>5, <1>6, <1>7, <2>1, <2>2 DEF Going
<1>9. BtpTypes'
  BY <1>6 DEF BtpInv, BtpTypes
<1> QED
  BY <1>1, <1>2, <1>6, <1>8, <1>9, Connected

(* The device's sequence numbers.                                            *)
LEMMA Numbered ==
  ASSUME peer \in Device
  PROVE  /\ peer.next \in Number /\ peer.sent \in Number /\ peer.sent \in Nat
         /\ Space \in Nat \ {0} /\ None \notin Number
<1>1. peer.next \in Number /\ peer.sent \in Number
  BY DEF Device
<1>2. Space \in Nat \ {0} /\ None \notin Nat
  BY BtpAssumption
<1>3. Number \subseteq Nat
  BY <1>2 DEF Number
<1> QED
  BY <1>1, <1>2, <1>3

(* Sequence numbers, one further.                                            *)
LEMMA Onward ==
  ASSUME NEW a \in Number, NEW k \in 1 .. Space - 1
  PROVE  /\ (a + 1) % Space \in Number
         /\ (((a + 1) % Space) + (k - 1)) % Space = (a + k) % Space
         /\ (a + (1 - 1)) % Space = a
<1>1. Space \in Nat \ {0} /\ a \in Nat /\ a < Space /\ k \in Nat /\ k > 0 /\ k < Space
  BY BtpAssumption DEF Number
<1>2. (a + 1) % Space = IF a + 1 < Space THEN a + 1 ELSE 0
  <2>1. a + 1 \in Nat /\ a + 1 < 2 * Space /\ (~(a + 1 < Space) => (a + 1) - Space = 0)
    BY <1>1
  <2> QED
    BY <1>1, <2>1, Wraps
<1>3. (a + k) % Space = IF a + k < Space THEN a + k ELSE a + k - Space
  <2>. PICK x : x = a + k
    OBVIOUS
  <2>1. x \in Nat /\ x < 2 * Space
    BY <1>1
  <2>2. x % Space = IF x < Space THEN x ELSE x - Space
    BY <1>1, <2>1, Wraps
  <2> QED
    BY <1>1, <2>1, <2>2
<1>4. (a + (1 - 1)) % Space = a
  <2>1. a + (1 - 1) = a /\ a < 2 * Space
    BY <1>1
  <2> QED
    BY <1>1, <2>1, Wraps
<1>5. CASE a + 1 < Space
  <2>1. (a + 1) + (k - 1) = a + k
    BY <1>1
  <2> QED
    BY <1>1, <1>2, <1>4, <1>5, <2>1 DEF Number
<1>6. CASE ~(a + 1 < Space)
  <2>1. a + k - Space = k - 1 /\ ~(a + k < Space) /\ 0 + (k - 1) = k - 1 /\ k - 1 \in Nat /\ k - 1 < Space
    BY <1>1, <1>6
  <2>2. (k - 1) % Space = k - 1
    <3>1. k - 1 < 2 * Space
      BY <1>1
    <3> QED
      BY <1>1, <2>1, <3>1, Wraps
  <2> QED
    BY <1>1, <1>2, <1>3, <1>4, <1>6, <2>1, <2>2 DEF Number
<1> QED
  BY <1>5, <1>6

(* The bytes of a message.                                                   *)
LEMMA MessageIs ==
  ASSUME connection \in Nat, NEW n \in Nat, NEW length \in Lengths
  PROVE  /\ Message(n, length) \in Seq(Byte) /\ Message(n, length) # <<>>
         /\ Len(Message(n, length)) = length
<1>1. length \in Nat \ {0}
  BY BtpAssumption
<1>2. Message(n, length) = [i \in 1..length |-> <<connection, n, i>>]
  BY DEF Message
<1>3. \A i \in 1..length : <<connection, n, i>> \in Byte
  BY <1>1 DEF Byte
<1> QED
  BY <1>1, <1>2, <1>3

(* A message of the controller: its acks are of the device's last segment.   *)
LEMMA SendMessageStep ==
  ASSUME BtpInv, NEW length \in Lengths, SendMessage(length)
  PROVE  BtpInv'
<1>. PICK m : m = Message(Len(said) + 1, length)
  OBVIOUS
<1> DEFINE N == Packets(length, mtu)
<1>1. linked /\ Going /\ peer \in Device /\ mtu = peer.mtu /\ ready /\ mtu \in Mtus
  BY Under DEF SendMessage, BtpInv, Going, Device
<1>2. /\ Len(said) = Len(got) /\ N < Window
      /\ said' = Append(said, m) /\ out' = out \o Segments(m)
      /\ txSequence' = (txSequence + Len(Segments(m))) % Space
      /\ UNCHANGED <<commissioning, ready, mtu, rxSequence, rxBuffer, linked, in, peer,
                     connection, heard, replied, got>>
  BY <1>1 DEF SendMessage
<1>3. Idle
  <2>1. /\ said \in Seq(Seq(Byte)) /\ heard \in Seq(Seq(Byte)) /\ got \in Seq(Seq(Byte))
        /\ replied \in Seq(Seq(Byte))
    BY DEF BtpInv, BtpTypes
  <2>2. ASSUME NEW message, NEW j, Sending(message, j) PROVE FALSE
    <3>1. message \in Seq(Byte) /\ said = Append(heard, message) /\ Len(heard) = Len(got)
      BY <2>2 DEF Sending, InPackets
    <3>2. Len(said) = Len(heard) + 1 /\ Len(heard) \in Nat
      BY <2>1, <3>1, AppendProperties, LenProperties
    <3> QED
      BY <1>2, <3>1, <3>2
  <2>3. ASSUME NEW message, NEW h, NEW s, NEW e, NEW o, Answering(message, h, s, e, o) PROVE FALSE
    <3>1. message \in Seq(Byte) /\ replied = Append(got, message) /\ Len(said) = Len(replied)
      BY <2>3 DEF Answering, InPackets
    <3>2. Len(replied) = Len(got) + 1 /\ Len(got) \in Nat
      BY <2>1, <3>1, AppendProperties, LenProperties
    <3> QED
      BY <1>2, <3>1, <3>2
  <2> QED
    BY <1>1, <2>2, <2>3 DEF Going
<1>4. m \in Seq(Byte) /\ Len(m) = length /\ m # <<>>
  <2>1. connection \in Nat /\ said \in Seq(Seq(Byte))
    BY DEF BtpInv, BtpTypes
  <2>2. Len(said) + 1 \in Nat
    BY <2>1, LenProperties
  <2> QED
    BY <2>1, <2>2, MessageIs
<1>5. N \in Nat \ {0} /\ mtu \in Nat /\ mtu > 5 /\ length \in Nat \ {0} /\ Cut(length, mtu, 0) = 0
  <2>1. length \in Nat \ {0} /\ mtu \in Nat /\ mtu \notin 0..5
    BY <1>1, BtpAssumption
  <2>2. mtu > 5
    BY <2>1
  <2> QED
    BY <2>1, <2>2, Cuts
<1> HIDE DEF N
<1>6. /\ Segments(m) \in Seq(AnyPacket) /\ Len(Segments(m)) = N
      /\ \A k \in 1..N : Segments(m)[k] = PacketOf(m, mtu, k, IF k = 1 THEN rxSequence ELSE None,
                                                   (txSequence + (k - 1)) % Space)
  <2>1. Segments(m) = [k \in 1..N |-> Segment(m, k)]
    BY <1>4 DEF Segments, N
  <2>2. ASSUME NEW k \in 1..N
        PROVE  /\ Segment(m, k) = PacketOf(m, mtu, k, IF k = 1 THEN rxSequence ELSE None,
                                           (txSequence + (k - 1)) % Space)
               /\ Segment(m, k) \in AnyPacket
    <3>. PICK ack, q : ack = (IF k = 1 THEN rxSequence ELSE None) /\ q = (txSequence + (k - 1)) % Space
      OBVIOUS
    <3>1. txSequence \in Number /\ rxSequence \in Number
      BY <1>1, <1>3 DEF Idle, AtRest, Device
    <3>2. txSequence + k - 1 = txSequence + (k - 1) /\ q \in Number
      <4>1. txSequence + k - 1 = txSequence + (k - 1) /\ txSequence + (k - 1) \in Nat
        BY <1>5, <3>1 DEF Number
      <4>2. Space \in Nat \ {0}
        BY BtpAssumption
      <4> HIDE DEF N
      <4> QED
        BY <4>1, <4>2 DEF Number
    <3>3. Segment(m, k) = PacketOf(m, mtu, k, ack, q)
      BY <1>1, <1>4, <3>2, Segmented DEF N
    <3>4. PacketOf(m, mtu, k, ack, q).payload \in Seq(Byte)
      <4>1. k \in 1 .. Packets(Len(m), mtu) /\ (k = 1 \/ ack = None)
        BY <1>4, <3>1 DEF N
      <4> QED
        BY <1>1, <1>4, <4>1, PacketIs
    <3>5. PacketOf(m, mtu, k, ack, q) \in AnyPacket
      <4>1. /\ ack \in Number \cup {None}
            /\ (IF k = 1 THEN length ELSE None) \in Nat \cup {None}
        BY <1>5, <3>1
      <4> QED
        BY <1>4, <3>2, <3>4, <4>1 DEF PacketOf, Packet, AnyPacket
    <3> QED
      BY <3>3, <3>5
  <2> QED
    BY <1>5, <2>1, <2>2
<1>7. out' = Segments(m)
  <2>1. out = <<>>
    BY <1>3 DEF Idle, AtRest
  <2> QED
    BY <1>2, <1>6, <2>1, ConcatEmptySeq
<1>8. Sending(m, 0)'
  <2>1. /\ heard = said /\ replied = got /\ Len(said) = Len(got) /\ peer.buffer = <<>>
        /\ peer.length = None /\ txSequence = peer.next /\ peer.reply = <<>> /\ peer.owes = 0
        /\ in = <<>> /\ rxSequence = peer.sent
    BY <1>3 DEF Idle, AtRest
  <2>2. InPackets(m, mtu)'
    BY <1>2, <1>4 DEF InPackets, N
  <2>3. FrontOf(m, mtu, 0) = <<>>
    BY <1>1, <1>4, Whole
  <2>4. N - 0 = N /\ 0 < N /\ \A k \in 1..N : 0 + k = k
    BY <1>5
  <2>5. /\ Len(out') = N
        /\ \A k \in 1..N : out'[k] = PacketOf(m, mtu', 0 + k, IF 0 + k = 1 THEN rxSequence' ELSE None,
                                              (peer'.next + (k - 1)) % Space)
    BY <1>2, <1>6, <1>7, <2>1, <2>4
  <2>6. txSequence' = (peer'.next + N) % Space
    BY <1>2, <1>6, <2>1
  <2>7. peer'.buffer = FrontOf(m, mtu', 0)
    BY <1>2, <2>1, <2>3
  <2>8. N = Packets(Len(m), mtu')
    BY <1>2, <1>4 DEF N
  <2>9. /\ said' = Append(heard', m) /\ replied' = got' /\ Len(heard') = Len(got')
        /\ peer'.length = None /\ peer'.reply = <<>> /\ peer'.owes = 0
        /\ in' = <<>> /\ rxSequence' = peer'.sent
    BY <1>2, <2>1
  <2>10. /\ 0 < Packets(Len(m), mtu') /\ Len(out') = Packets(Len(m), mtu') - 0
         /\ txSequence' = (peer'.next + (Packets(Len(m), mtu') - 0)) % Space
         /\ \A k \in 1 .. Packets(Len(m), mtu') - 0 :
              out'[k] = PacketOf(m, mtu', 0 + k, IF 0 + k = 1 THEN rxSequence' ELSE None,
                                 (peer'.next + (k - 1)) % Space)
    BY <2>4, <2>5, <2>6, <2>8
  <2> QED
    BY <2>2, <2>7, <2>9, <2>10 DEF Sending
<1>9. BtpTypes'
  <2>1. said' \in Seq(Seq(Byte))
    BY <1>2, <1>4, AppendProperties DEF BtpInv, BtpTypes
  <2> QED
    BY <1>2, <2>1 DEF BtpInv, BtpTypes
<1>10. Going'
  <2>1. m \in ToSet(said')
    <3>1. said \in Seq(Seq(Byte))
      BY DEF BtpInv, BtpTypes
    <3>2. said'[Len(said')] = m /\ Len(said') \in DOMAIN said'
      BY <1>2, <1>4, <3>1, AppendProperties, LenProperties
    <3> QED
      BY <3>2 DEF ToSet
  <2>2. in' \in Seq(AnyPacket) /\ out' \in Seq(AnyPacket)
    BY <1>1, <1>2, <1>6, <1>7 DEF Going
  <2>3. 0 \in 0..Window
    BY BtpAssumption
  <2> QED
    BY <1>1, <1>2, <1>8, <2>1, <2>2, <2>3 DEF Going
<1> QED
  BY <1>1, <1>2, <1>9, <1>10, Connected

(* What the device takes of a packet: it is the next one, and acceptable.    *)
LEMMA PacketTaken ==
  ASSUME peer \in Device, mtu = peer.mtu, NEW m, NEW j \in 0..Window, Sending(m, j),
         out \in Seq(AnyPacket), out # <<>>
  PROVE  /\ j + 1 \in 1 .. Packets(Len(m), mtu)
         /\ Acceptable(Head(out))
         /\ Head(out).ack = (IF j = 0 THEN peer.sent ELSE None)
         /\ Head(out).end <=> j + 1 = Packets(Len(m), mtu)
         /\ Head(out).length = (IF j = 0 THEN Len(m) ELSE None)
         /\ Head(out).begin <=> j = 0
         /\ Joined(peer.buffer, Head(out).payload) = FrontOf(m, mtu, j + 1)
         /\ Joined(peer.buffer, Head(out).payload) \in Seq(Byte)
<1>0. j \in Nat /\ j + 1 \in Nat /\ Len(m) \in Nat
  <2>1. j \in Nat
    BY BtpAssumption
  <2> QED
    BY <2>1, EmptySeq DEF Sending, InPackets
<1>. PICK k \in Nat, L \in Nat : k = j + 1 /\ L = Len(m)
  BY <1>0
<1>. PICK ack : ack = (IF k = 1 THEN rxSequence ELSE None)
  OBVIOUS
<1> DEFINE N == Packets(L, mtu)
           p == Head(out)
           c == Cut(L, mtu, j)
           d == Cut(L, mtu, k)
<1>1. /\ m \in Seq(Byte) /\ m # <<>> /\ N < Window /\ j < N /\ Len(out) = N - j
      /\ out[1] = PacketOf(m, mtu, j + 1, IF j + 1 = 1 THEN rxSequence ELSE None,
                           (peer.next + (1 - 1)) % Space)
      /\ peer.buffer = FrontOf(m, mtu, j) /\ peer.length = (IF j = 0 THEN None ELSE L)
      /\ peer.owes = j /\ rxSequence = peer.sent
  <2>1. Len(m) \in Nat \ {0} /\ mtu \in Nat /\ mtu > 5 /\ j \in Nat
    <3>1. m \in Seq(Byte) /\ m # <<>>
      BY DEF Sending, InPackets
    <3>2. mtu \in Nat /\ mtu \notin 0..5
      BY BtpAssumption DEF Device
    <3> QED
      BY <3>1, <3>2, EmptySeq
  <2>2. N \in Nat
    BY <2>1, Cuts
  <2> HIDE DEF N
  <2>3. j < N => 1 \in 1 .. N - j
    BY <2>1, <2>2
  <2> QED
    BY <2>3 DEF Sending, InPackets, N
<1>2. mtu \in Mtus /\ peer.sent \in Number /\ peer.next \in Number /\ peer.acked \in Number \cup {None}
  BY DEF Device
<1>3. /\ L \in Nat \ {0} /\ N \in Nat /\ k \in 1..N /\ k - 1 = j /\ j \in Nat /\ (k = 1 <=> j = 0)
      /\ mtu \in Nat /\ mtu > 5
  <2>1. L \in Nat \ {0} /\ mtu \in Nat /\ mtu \notin 0..5
    BY <1>1, <1>2, BtpAssumption, EmptySeq
  <2>2. mtu > 5
    BY <2>1
  <2>3. N \in Nat
    BY <2>1, <2>2, Cuts
  <2> HIDE DEF N
  <2> QED
    BY <1>1, <2>1, <2>2, <2>3
<1>4. p = PacketOf(m, mtu, k, ack, peer.next)
  <2>1. p = out[1]
    BY <1>1, HeadTailProperties
  <2>2. (peer.next + (1 - 1)) % Space = peer.next
    <3>1. 1 \in 1 .. Space - 1
      BY BtpAssumption
    <3> QED
      BY <1>2, <3>1, Onward
  <2> QED
    BY <1>1, <2>1, <2>2
<1>. PICK before, after : before = FrontOf(m, mtu, j) /\ after = FrontOf(m, mtu, k)
  OBVIOUS
<1>5. /\ (p.begin <=> k = 1) /\ (p.end <=> k = N) /\ p.ack = ack /\ p.sequence = peer.next
      /\ p.length = (IF k = 1 THEN L ELSE None)
      /\ Size(p) <= mtu /\ p.payload \in Seq(Byte) /\ Len(p.payload) = d - c
      /\ before \in Seq(Byte) /\ Len(before) = c /\ Joined(before, p.payload) = after
  <2>1. k = 1 \/ ack = None
    OBVIOUS
  <2>2. k \in 1 .. Packets(Len(m), mtu) /\ m \in Seq(Byte) /\ m # <<>> /\ mtu \in Mtus
    BY <1>1, <1>2, <1>3
  <2>3. before = FrontOf(m, mtu, k - 1) /\ after = FrontOf(m, mtu, k)
    BY <1>3
  <2>. PICK q, packet : q = peer.next /\ packet = PacketOf(m, mtu, k, ack, q)
    OBVIOUS
  <2>4. /\ (packet.begin <=> k = 1) /\ (packet.end <=> k = Packets(Len(m), mtu))
        /\ packet.ack = ack /\ packet.sequence = q
        /\ packet.length = (IF k = 1 THEN Len(m) ELSE None)
        /\ Size(packet) <= mtu /\ packet.payload \in Seq(Byte)
        /\ Len(packet.payload) = Cut(Len(m), mtu, k) - Cut(Len(m), mtu, k - 1)
    BY <2>1, <2>2, PacketIs
  <2>6. /\ before \in Seq(Byte) /\ Len(before) = Cut(Len(m), mtu, k - 1)
        /\ Joined(before, packet.payload) = after
    <3>. PICK payload : payload = packet.payload
      OBVIOUS
    <3>1. payload = PacketOf(m, mtu, k, ack, q).payload
      OBVIOUS
    <3>2. /\ before \in Seq(Byte) /\ Len(before) = Cut(Len(m), mtu, k - 1)
          /\ Joined(before, payload) = after
      BY ONLY <2>2, <2>3, <3>1, TakenIs
    <3> QED
      BY <3>2
  <2>5. packet = p /\ k - 1 = j
    BY <1>3, <1>4
  <2> QED
    BY <2>4, <2>5, <2>6
<1>6. /\ c \in Nat /\ d \in Nat /\ (d = L <=> k = N)
  <2>1. /\ \A i \in 0..N : Cut(L, mtu, i) \in 0..L
        /\ Cut(L, mtu, N) = L
        /\ \A i \in 1..N : Cut(L, mtu, i - 1) < L
    BY <1>3, Cuts
  <2>2. j \in 0..N /\ k \in 0..N
    BY <1>3
  <2>3. c \in 0..L /\ d \in 0..L
    BY <2>1, <2>2
  <2>4. ASSUME k # N PROVE d < L
    <3>1. k + 1 \in 1..N /\ (k + 1) - 1 = k
      BY <1>3, <2>4
    <3> HIDE DEF N
    <3> QED
      BY <2>1, <3>1
  <2> HIDE DEF c, d, N
  <2> QED
    BY <1>3, <2>1, <2>3, <2>4 DEF d
<1>7. /\ peer.buffer \in Seq(Byte) /\ Len(peer.buffer) = c /\ Len(p.payload) = d - c
      /\ Joined(peer.buffer, p.payload) = FrontOf(m, mtu, k)
  <2>1. peer.buffer = before
    BY <1>1
  <2> QED
    BY <1>5, <2>1
<1> HIDE DEF p, c, d, N
<1>8. Joined(peer.buffer, p.payload) \in Seq(Byte)
  BY <1>5, <1>7, ConcatProperties DEF Joined
<1>9. ack # None => (peer.sent + Space - ack) % Space <= InWindow
  <2> SUFFICES ASSUME ack # None PROVE (peer.sent + Space - ack) % Space <= InWindow
    OBVIOUS
  <2>1. ack = peer.sent /\ peer.sent \in Nat /\ Space \in Nat \ {0}
    BY <1>1, <1>2, BtpAssumption DEF Number
  <2>2. (peer.sent + Space - ack) % Space = 0
    <3>1. peer.sent + Space - ack = Space /\ Space < 2 * Space /\ Space - Space = 0 /\ ~(Space < Space)
      BY <2>1
    <3>2. Space % Space = 0
      BY <2>1, <3>1, Wraps
    <3> QED
      BY <3>1, <3>2
  <2>3. InWindow \in Nat
    <3>1. CASE peer.acked = None
      BY <2>1, <3>1 DEF InWindow
    <3>2. CASE peer.acked # None
      <4>1. peer.sent + Space - peer.acked \in Nat
        BY <1>2, <2>1, <3>2 DEF Number
      <4> QED
        BY <2>1, <3>2, <4>1 DEF InWindow
    <3> QED
      BY <3>1, <3>2
  <2> QED
    BY <2>2, <2>3
<1>10. Acceptable(p)
  <2>1. p.begin <=> peer.length = None
    <3>1. None # L
      BY <1>3, BtpAssumption
    <3> QED
      BY <1>1, <1>3, <1>5, <3>1
  <2>2. peer.owes < Window
    BY <1>1, <1>3, BtpAssumption
  <2>3. (IF p.begin THEN p.length ELSE peer.length) = L
    BY <1>1, <1>3, <1>5
  <2>4. Len(peer.buffer) + Len(p.payload) = d
    BY <1>6, <1>7
  <2>5. p.end <=> Len(peer.buffer) + Len(p.payload) = L
    BY <1>5, <1>6, <2>4
  <2> QED
    BY <1>5, <1>9, <2>1, <2>2, <2>3, <2>5 DEF Acceptable
<1> QED
  BY <1>1, <1>3, <1>5, <1>7, <1>8, <1>10 DEF p, c, d, N

(* What a device has once it has taken a segment.                            *)
Took(device, next, acked) == [device EXCEPT !.next = next, !.owes = device.owes + 1, !.acked = acked]

LEMMA TookIs ==
  ASSUME NEW device \in Device, NEW next, NEW acked,
         NEW taken, taken = Took(device, next, acked)
  PROVE  /\ DOMAIN taken = DOMAIN device
         /\ taken.next = next /\ taken.owes = device.owes + 1 /\ taken.acked = acked
         /\ taken.mtu = device.mtu /\ taken.sent = device.sent /\ taken.buffer = device.buffer
         /\ taken.length = device.length /\ taken.reply = device.reply
         /\ taken.closed = device.closed
<1>1. DOMAIN device = {"mtu", "next", "sent", "acked", "buffer", "length", "reply", "owes", "closed"}
  BY DEF Device
<1>2. PICK owes : owes = device.owes + 1
  OBVIOUS
<1>3. taken = [device EXCEPT !.next = next, !.owes = owes, !.acked = acked]
  BY <1>2 DEF Took
<1>4. DOMAIN taken = DOMAIN device
  BY <1>3
<1>5. taken.next = next /\ taken.owes = owes /\ taken.acked = acked
  BY <1>1, <1>3
<1>6. /\ taken.mtu = device.mtu /\ taken.sent = device.sent /\ taken.buffer = device.buffer
      /\ taken.length = device.length /\ taken.reply = device.reply
      /\ taken.closed = device.closed
  BY <1>1, <1>3
<1> QED
  BY <1>2, <1>4, <1>5, <1>6

(* The device takes a segment, and with the last of them makes its answer.   *)
LEMMA DeviceTakesStep ==
  ASSUME BtpInv, DeviceTakes
  PROVE  BtpInv'
<1>1. /\ linked /\ Going /\ peer \in Device /\ mtu = peer.mtu /\ out # <<>> /\ mtu \in Mtus
      /\ in \in Seq(AnyPacket) /\ out \in Seq(AnyPacket)
  <2>1. out # <<>> /\ linked
    BY Under DEF DeviceTakes
  <2>2. ~Beginning
    BY <2>1 DEF Beginning
  <2> QED
    BY <2>1, <2>2 DEF BtpInv, Going, Device
<1>2. PICK m \in ToSet(said), j \in 0..Window : Sending(m, j)
  <2>1. ASSUME NEW message, NEW h, NEW s, NEW e, NEW o, Answering(message, h, s, e, o) PROVE FALSE
    BY <1>1, <2>1 DEF Answering, AtRest
  <2>2. ~Idle
    BY <1>1 DEF Idle, AtRest
  <2> QED
    BY <1>1, <2>1, <2>2 DEF Going
<1>3. PICK p, buffer, N : p = Head(out) /\ buffer = Joined(peer.buffer, p.payload) /\ N = Packets(Len(m), mtu)
  OBVIOUS
<1>4. /\ j + 1 \in 1..N /\ Acceptable(p) /\ p.ack = (IF j = 0 THEN peer.sent ELSE None)
      /\ (p.end <=> j + 1 = N) /\ p.length = (IF j = 0 THEN Len(m) ELSE None) /\ (p.begin <=> j = 0)
      /\ buffer = FrontOf(m, mtu, j + 1) /\ buffer \in Seq(Byte)
  BY <1>1, <1>2, <1>3, PacketTaken
<1>5. /\ m \in Seq(Byte) /\ m # <<>> /\ N < Window /\ N \in Nat /\ j \in Nat /\ j < N
      /\ said = Append(heard, m) /\ replied = got /\ Len(heard) = Len(got)
      /\ Len(out) = N - j
      /\ txSequence = (peer.next + (N - j)) % Space
      /\ peer.length = (IF j = 0 THEN None ELSE Len(m))
      /\ peer.reply = <<>> /\ peer.owes = j /\ (j > 0 => peer.acked = peer.sent)
      /\ in = <<>> /\ rxSequence = peer.sent
  <2>1. m \in Seq(Byte) /\ m # <<>>
    BY <1>2 DEF Sending, InPackets
  <2>2. Packets(Len(m), mtu) \in Nat \ {0}
    BY <1>1, <2>1, Whole
  <2>3. j \in Nat
    BY BtpAssumption
  <2> QED
    BY <1>2, <1>3, <2>1, <2>2, <2>3 DEF Sending, InPackets
<1>6. /\ out' = Tail(out) /\ ~peer.closed
      /\ UNCHANGED <<commissioning, ready, mtu, txSequence, rxSequence, rxBuffer, linked, in,
                     connection, said, got>>
  BY DEF DeviceTakes, ownVars
<1>7. peer.next \in Number /\ peer.sent \in Number /\ Space \in Nat \ {0} /\ None \notin Number
  BY <1>1, Numbered
<1>8. /\ (peer.next + 1) % Space \in Number
      /\ \A k \in 1 .. N - j : (((peer.next + 1) % Space) + (k - 1)) % Space = (peer.next + k) % Space
  <2>1. 1 \in 1 .. Space - 1 /\ \A k \in 1 .. N - j : k \in 1 .. Space - 1
    BY <1>5, BtpAssumption
  <2> QED
    BY <1>7, <2>1, Onward
<1>9. out' \in Seq(AnyPacket) /\ Len(out') = N - (j + 1) /\ \A k \in 1 .. N - (j + 1) : out'[k] = out[k + 1]
  <2>1. Len(Tail(out)) = Len(out) - 1 /\ Tail(out) \in Seq(AnyPacket)
        /\ \A k \in 1 .. Len(Tail(out)) : Tail(out)[k] = out[k + 1]
    BY <1>1, HeadTailProperties
  <2> QED
    BY <1>5, <1>6, <2>1
<1>10. ASSUME ~p.end PROVE peer' \in Device /\ BtpTypes' /\ Going'
  <2>0. PICK next, acked, length, taken :
          /\ next = (peer.next + 1) % Space /\ acked = (IF p.ack = None THEN peer.acked ELSE p.ack)
          /\ length = (IF p.begin THEN p.length ELSE peer.length)
          /\ taken = Took(peer, next, acked)
    OBVIOUS
  <2>1. /\ peer' = [taken EXCEPT !.buffer = buffer, !.length = length]
        /\ heard' = heard /\ replied' = replied
    <3>1. peer' = [[peer EXCEPT !.next = (@ + 1) % Space, !.owes = @ + 1,
                                !.acked = IF p.ack = None THEN @ ELSE p.ack]
                     EXCEPT !.buffer = buffer, !.length = IF p.begin THEN p.length ELSE @]
      BY <1>3, <1>4, <1>10 DEF DeviceTakes, Joined
    <3>2. heard' = heard /\ replied' = replied
      BY <1>3, <1>4, <1>10 DEF DeviceTakes
    <3>3. taken = [peer EXCEPT !.next = (@ + 1) % Space, !.owes = @ + 1,
                               !.acked = IF p.ack = None THEN @ ELSE p.ack]
      BY <2>0 DEF Took
    <3>4. taken.length = peer.length
      BY <1>1, <2>0, TookIs
    <3> QED
      BY <2>0, <3>1, <3>2, <3>3, <3>4
  <2>2. /\ peer'.mtu = peer.mtu /\ peer'.next = next /\ peer'.sent = peer.sent /\ peer'.acked = acked
        /\ peer'.buffer = buffer /\ peer'.length = length /\ peer'.reply = peer.reply
        /\ peer'.owes = peer.owes + 1 /\ peer'.closed = peer.closed
        /\ DOMAIN peer' = DOMAIN peer
    <3>1. /\ DOMAIN taken = DOMAIN peer
          /\ taken.next = next /\ taken.owes = peer.owes + 1 /\ taken.acked = acked
          /\ taken.mtu = peer.mtu /\ taken.sent = peer.sent
          /\ taken.reply = peer.reply /\ taken.closed = peer.closed
      BY <1>1, <2>0, TookIs
    <3>2. DOMAIN peer = {"mtu", "next", "sent", "acked", "buffer", "length", "reply", "owes", "closed"}
      BY <1>1 DEF Device
    <3> QED
      BY <2>1, <3>1, <3>2
  <2>3. acked = peer.sent /\ length = Len(m) /\ length \in Nat /\ next \in Number
    <3>1. acked = peer.sent
      BY <1>4, <1>5, <1>7, <2>0
    <3>2. length = Len(m)
      BY <1>4, <1>5, <2>0
    <3> QED
      BY <1>5, <1>8, <2>0, <3>1, <3>2, LenProperties
  <2>4. peer' \in Device
    <3>1. /\ next \in Number /\ acked \in Number \cup {None} /\ buffer \in Seq(Byte)
          /\ length \in Nat \cup {None} /\ peer.owes + 1 \in Nat
      BY <1>4, <1>5, <1>7, <2>3
    <3>2. peer' = [[peer EXCEPT !.next = next, !.owes = peer.owes + 1, !.acked = acked]
                     EXCEPT !.buffer = buffer, !.length = length]
      BY <2>0, <2>1 DEF Took
    <3> QED
      BY <1>1, <3>1, <3>2 DEF Device
  <2>5. BtpTypes'
    BY <1>6, <2>1 DEF BtpInv, BtpTypes
  <2>6. Sending(m, j + 1)'
    <3>1. InPackets(m, mtu)'
      BY <1>3, <1>5, <1>6 DEF InPackets
    <3>2. N = Packets(Len(m), mtu')
      BY <1>3, <1>6
    <3>3. \A k \in 1 .. N - (j + 1) :
            out'[k] = PacketOf(m, mtu', j + 1 + k, IF j + 1 + k = 1 THEN rxSequence' ELSE None,
                               (peer'.next + (k - 1)) % Space)
      <4> SUFFICES ASSUME NEW k \in 1 .. N - (j + 1)
                   PROVE  out'[k] = PacketOf(m, mtu, j + 1 + k, None, (next + (k - 1)) % Space)
        <5>1. j \in Nat /\ N \in Nat
          BY <1>5
        <5>2. \A k \in 1 .. N - (j + 1) : j + 1 + k # 1
          BY <5>1
        <5> QED
          BY <1>6, <2>2, <5>2
      <4>1. /\ k + 1 \in 1 .. N - j /\ k \in 1 .. N - j /\ j + (k + 1) = j + 1 + k
            /\ j + (k + 1) # 1 /\ (k + 1) - 1 = k
        BY <1>5
      <4>2. out[k + 1] = PacketOf(m, mtu, j + (k + 1), IF j + (k + 1) = 1 THEN rxSequence ELSE None,
                                  (peer.next + ((k + 1) - 1)) % Space)
        BY <1>2, <1>3, <4>1 DEF Sending
      <4>3. (next + (k - 1)) % Space = (peer.next + k) % Space
        BY <1>8, <2>0, <4>1
      <4> QED
        BY <1>9, <4>1, <4>2, <4>3
    <3>4. txSequence' = (peer'.next + (N - (j + 1))) % Space
      <4>1. N - j \in 1 .. N - j /\ (N - j) - 1 = N - (j + 1)
        BY <1>5
      <4>2. (next + ((N - j) - 1)) % Space = (peer.next + (N - j)) % Space
        BY <1>8, <2>0, <4>1
      <4> QED
        BY <1>5, <1>6, <2>2, <4>1, <4>2
    <3>5. j + 1 < N /\ Len(out') = N - (j + 1)
      <4>1. j + 1 \in 1..N /\ j + 1 # N
        BY <1>4, <1>10
      <4> QED
        BY <1>5, <1>9, <4>1
    <3>6. /\ said' = Append(heard', m) /\ replied' = got' /\ Len(heard') = Len(got')
          /\ peer'.buffer = FrontOf(m, mtu', j + 1)
          /\ peer'.length = (IF j + 1 = 0 THEN None ELSE Len(m))
          /\ peer'.reply = <<>> /\ peer'.owes = j + 1 /\ (j + 1 > 0 => peer'.acked = peer'.sent)
          /\ in' = <<>> /\ rxSequence' = peer'.sent
      BY <1>4, <1>5, <1>6, <2>1, <2>2, <2>3
    <3> QED
      BY <3>1, <3>2, <3>3, <3>4, <3>5, <3>6 DEF Sending
  <2>7. Going'
    <3>1. j + 1 \in 0..Window /\ m \in ToSet(said')
      BY <1>4, <1>5, <1>6, BtpAssumption
    <3>2. commissioning /\ ready
      BY <1>1 DEF Going
    <3>3. Sending(m, j + 1)' /\ commissioning' /\ ready' /\ mtu' = peer'.mtu /\ {in', out'} \subseteq Seq(AnyPacket)
      BY <1>1, <1>6, <1>9, <2>2, <2>6, <3>2
    <3> QED
      BY <3>1, <3>3 DEF Going
  <2> QED
    BY <2>4, <2>5, <2>7
<1>11. ASSUME p.end PROVE peer' \in Device /\ BtpTypes' /\ Going'
  <2>1. PICK size \in Lengths :
          /\ Packets(size, peer.mtu) < Window
          /\ peer' = [[peer EXCEPT !.next = (peer.next + 1) % Space, !.owes = peer.owes + 1,
                                    !.acked = IF p.ack = None THEN peer.acked ELSE p.ack]
                       EXCEPT !.buffer = <<>>, !.length = None, !.reply = Message(Len(heard) + 1, size)]
          /\ heard' = Append(heard, buffer)
          /\ replied' = Append(replied, Message(Len(heard) + 1, size))
    BY <1>3, <1>4, <1>11 DEF DeviceTakes, Joined
  <2>0. PICK next, acked, reply, taken :
          /\ next = (peer.next + 1) % Space /\ acked = (IF p.ack = None THEN peer.acked ELSE p.ack)
          /\ reply = Message(Len(heard) + 1, size)
          /\ taken = Took(peer, next, acked)
    OBVIOUS
  <2>2. peer' = [taken EXCEPT !.buffer = <<>>, !.length = None, !.reply = reply]
    BY <2>0, <2>1 DEF Took
  <2>3. /\ peer'.mtu = peer.mtu /\ peer'.next = next /\ peer'.sent = peer.sent /\ peer'.acked = acked
        /\ peer'.buffer = <<>> /\ peer'.length = None /\ peer'.reply = reply
        /\ peer'.owes = peer.owes + 1 /\ peer'.closed = peer.closed
    <3>1. /\ DOMAIN taken = DOMAIN peer
          /\ taken.next = next /\ taken.owes = peer.owes + 1 /\ taken.acked = acked
          /\ taken.mtu = peer.mtu /\ taken.sent = peer.sent /\ taken.closed = peer.closed
      BY <1>1, <2>0, TookIs
    <3>2. DOMAIN peer = {"mtu", "next", "sent", "acked", "buffer", "length", "reply", "owes", "closed"}
      BY <1>1 DEF Device
    <3> QED
      BY <2>2, <3>1, <3>2
  <2>4. /\ {said, heard, replied, got} \subseteq Seq(Seq(Byte)) /\ connection \in Nat
        /\ Len(heard) \in Nat
    BY LenProperties DEF BtpInv, BtpTypes
  <2>5. reply \in Seq(Byte) /\ reply # <<>> /\ Len(reply) = size
    <3>1. Len(heard) + 1 \in Nat
      BY <2>4
    <3> QED
      BY <2>0, <2>4, <3>1, MessageIs
  <2>6. /\ j + 1 = N /\ buffer = m /\ heard' = said /\ replied' = Append(got, reply)
        /\ acked = peer.sent /\ next \in Number
    <3>1. j + 1 = N
      BY <1>4, <1>11
    <3>2. FrontOf(m, mtu, N) = m
      BY <1>1, <1>3, <1>5, Whole
    <3>3. acked = peer.sent
      BY <1>4, <1>5, <1>7, <2>0
    <3> QED
      BY <1>4, <1>5, <1>8, <2>0, <2>1, <3>1, <3>2, <3>3
  <2>7. peer' \in Device
    <3>1. /\ next \in Number /\ acked \in Number \cup {None} /\ <<>> \in Seq(Byte)
          /\ peer.owes + 1 \in Nat /\ None \in Nat \cup {None}
      BY <1>5, <1>7, <2>6, EmptySeq
    <3>2. peer' = [[peer EXCEPT !.next = next, !.owes = peer.owes + 1, !.acked = acked]
                     EXCEPT !.buffer = <<>>, !.length = None, !.reply = reply]
      BY <2>0, <2>2 DEF Took
    <3> QED
      BY <1>1, <2>5, <3>1, <3>2 DEF Device
  <2>8. BtpTypes'
    <3>1. heard' \in Seq(Seq(Byte))
      BY <1>6, <2>4, <2>6
    <3>2. replied' \in Seq(Seq(Byte)) /\ Len(replied') = Len(got) + 1 /\ reply \in ToSet(replied')
      <4>1. /\ replied' \in Seq(Seq(Byte)) /\ Len(replied') = Len(got) + 1
            /\ replied'[Len(replied')] = reply /\ Len(replied') \in DOMAIN replied'
        BY <2>4, <2>5, <2>6, AppendProperties, LenProperties
      <4> QED
        BY <4>1 DEF ToSet
    <3> QED
      BY <1>6, <2>4, <3>1, <3>2 DEF BtpInv, BtpTypes
  <2>9. Len(said) = Len(replied') /\ reply \in ToSet(replied')
    <3>1. /\ Len(replied') = Len(got) + 1
          /\ replied'[Len(replied')] = reply /\ Len(replied') \in DOMAIN replied'
      BY <2>4, <2>5, <2>6, AppendProperties, LenProperties
    <3>2. Len(said) = Len(heard) + 1
      BY <1>5, <2>4, AppendProperties
    <3> QED
      BY <1>5, <3>1, <3>2 DEF ToSet
  <2>10. Answering(reply, 0, 0, 0, 0)'
    <3>1. InPackets(reply, mtu)' /\ 0 <= Packets(Len(reply), mtu') /\ 0 < Packets(Len(reply), mtu')
      <4>1. Packets(Len(reply), mtu) \in Nat \ {0}
        BY <1>1, <2>5, Whole
      <4> QED
        BY <1>1, <1>6, <2>1, <2>5, <4>1 DEF InPackets
    <3>2. AtRest'
      <4>1. Len(out') = 0
        BY <1>5, <1>9, <2>6
      <4>2. out' = <<>>
        BY <1>9, <4>1, EmptySeq
      <4>3. txSequence = next
        <5>1. N - j = 1
          BY <1>5, <2>6
        <5> QED
          BY <1>5, <2>0, <5>1
      <4> QED
        BY <1>6, <2>3, <4>2, <4>3 DEF AtRest
    <3>3. peer'.acked # None /\ InWindow' = 0 + 0
      <4>1. peer.sent + Space - peer.sent = Space /\ peer'.acked = peer.sent /\ peer'.sent = peer.sent
        BY <1>7, <2>3, <2>6 DEF Number
      <4>2. Space % Space = 0
        <5>1. Space < 2 * Space /\ Space \in Nat /\ ~(Space < Space) /\ Space - Space = 0
          BY <1>7
        <5> QED
          BY <1>7, <5>1, Wraps
      <4>3. peer'.acked # None
        BY <1>7, <4>1
      <4>4. InWindow' = (peer'.sent + Space - peer'.acked) % Space
        BY <4>3 DEF InWindow
      <4> QED
        BY <4>1, <4>2, <4>3, <4>4
    <3>4. peer'.reply = Left(reply, mtu', 0)
      BY <1>1, <1>6, <2>3, <2>5, Whole
    <3>5. /\ heard' = said' /\ replied' = Append(got', reply) /\ Len(said') = Len(replied')
          /\ 0 + 0 <= Window /\ ~(0 + 0 > 0) /\ ~(0 > 0)
      <4>1. 0 + 0 <= Window /\ ~(0 + 0 > 0) /\ ~(0 > 0)
        BY BtpAssumption
      <4>2. heard' = said' /\ replied' = Append(got', reply) /\ Len(said') = Len(replied')
        BY <1>6, <2>6, <2>9
      <4> QED
        BY <4>1, <4>2
    <3>6. OnTheWay(reply, 0, 0, 0)'
      <4>1. in' = <<>> /\ rxSequence' = peer'.sent
        BY <1>5, <1>6, <2>3
      <4>2. Len(in') = 0 + (0 - 0) /\ \A k \in 1 .. 0 - 0 : FALSE
        BY <4>1
      <4> QED
        BY <4>1, <4>2 DEF OnTheWay
    <3> QED
      BY <3>1, <3>2, <3>3, <3>4, <3>5, <3>6 DEF Answering
  <2>11. Going'
    <3>1. 0 \in 0..Window /\ 0 \in 0..1 /\ 0 \in 0..0
      BY BtpAssumption
    <3>2. commissioning /\ ready
      BY <1>1 DEF Going
    <3>3. commissioning' /\ ready' /\ mtu' = peer'.mtu /\ {in', out'} \subseteq Seq(AnyPacket)
      BY <1>1, <1>6, <1>9, <2>3, <3>2
    <3> QED
      BY <2>9, <2>10, <3>1, <3>3 DEF Going
  <2> QED
    BY <2>7, <2>8, <2>11
<1> QED
  <2>1. linked'
    BY <1>1, <1>6
  <2> QED
    BY <1>10, <1>11, <2>1, Connected

(* At the beginning the device has nothing to send.                          *)
LEMMA NothingYet ==
  ASSUME Beginning
  PROVE  peer.reply = <<>> /\ peer.owes = 0 /\ in # <<>>
<1>1. peer = Fresh(peer.mtu) /\ in = <<Handshake(peer.mtu)>>
  BY DEF Beginning
<1>2. peer.reply = <<>> /\ peer.owes = 0
  BY <1>1 DEF Fresh
<1> QED
  BY <1>1, <1>2

(* When the device's answer is under way.                                    *)
LEMMA UnderAnswer ==
  ASSUME BtpInv, linked, ~Beginning,
         in # <<>> \/ peer.reply # <<>> \/ (out = <<>> /\ peer.owes > 1)
  PROVE  /\ peer \in Device /\ mtu = peer.mtu /\ mtu \in Mtus /\ commissioning /\ ready
         /\ in \in Seq(AnyPacket) /\ out \in Seq(AnyPacket)
         /\ \E m \in ToSet(replied), N, s, h, e, o \in Nat :
              /\ h <= s /\ s <= Window /\ o <= e /\ e <= 1
              /\ m \in Seq(Byte) /\ m # <<>> /\ N = Packets(Len(m), mtu) /\ N # 0 /\ N < Window
              /\ s <= N /\ h < N
              /\ Answering(m, h, s, e, o)
<1>1. /\ peer \in Device /\ Going /\ mtu = peer.mtu /\ mtu \in Mtus /\ commissioning /\ ready
      /\ in \in Seq(AnyPacket) /\ out \in Seq(AnyPacket)
  BY DEF BtpInv, Going, Device
<1>2. ASSUME NEW message, NEW j \in 0..Window, Sending(message, j) PROVE FALSE
  <2>1. PICK n : n = Packets(Len(message), mtu)
    OBVIOUS
  <2>2. /\ message \in Seq(Byte) /\ message # <<>> /\ j < n /\ Len(out) = n - j
        /\ in = <<>> /\ peer.reply = <<>>
    BY <1>2, <2>1 DEF Sending, InPackets
  <2>3. n \in Nat /\ j \in Nat
    BY <1>1, <2>1, <2>2, Whole, BtpAssumption
  <2>4. Len(out) = 0
    BY <2>2
  <2> QED
    BY <2>2, <2>3, <2>4
<1>3. ~Idle
  BY DEF Idle
<1>4. PICK m \in ToSet(replied), s \in 0..Window, e \in 0..1 :
        \E h \in 0..s, o \in 0..e : Answering(m, h, s, e, o)
  BY <1>1, <1>2, <1>3 DEF Going
<1>5. PICK h \in 0..s, o \in 0..e : Answering(m, h, s, e, o)
  BY <1>4
<1>6. PICK N : N = Packets(Len(m), mtu)
  OBVIOUS
<1>7. m \in Seq(Byte) /\ m # <<>> /\ N < Window /\ s <= N /\ h < N
  BY <1>5, <1>6 DEF Answering, InPackets
<1>8. N \in Nat /\ N # 0
  BY <1>1, <1>6, <1>7, Whole
<1>9. s \in Nat /\ h \in Nat /\ e \in Nat /\ o \in Nat /\ h <= s /\ s <= Window /\ o <= e /\ e <= 1
  BY BtpAssumption
<1> QED
  BY <1>1, <1>5, <1>6, <1>7, <1>8, <1>9

(* What the controller makes of a segment: an ack alone changes nothing but  *)
(* what the next message acks, and the last of a message hands it over.      *)
LEMMA HandleSegmentStep ==
  ASSUME BtpInv, HandleSegment
  PROVE  BtpInv'
<1>1. linked /\ in # <<>> /\ ~Beginning
  <2>1. in # <<>> /\ ~IsHandshake(Head(in)) /\ linked
    BY Under DEF HandleSegment
  <2>2. ASSUME Beginning PROVE FALSE
    <3>1. Head(in) = Handshake(peer.mtu)
      BY <2>2 DEF Beginning
    <3>2. DOMAIN Head(in) = {"handshake"}
      BY <3>1 DEF Handshake
    <3> QED
      BY <2>1, <3>2 DEF IsHandshake
  <2> QED
    BY <2>1, <2>2
<1>2. /\ peer \in Device /\ mtu = peer.mtu /\ mtu \in Mtus /\ commissioning /\ ready
      /\ in \in Seq(AnyPacket) /\ out \in Seq(AnyPacket)
  BY <1>1, UnderAnswer
<1>3. PICK m \in ToSet(replied), N, s, h, e, o \in Nat :
        /\ h <= s /\ s <= Window /\ o <= e /\ e <= 1
        /\ m \in Seq(Byte) /\ m # <<>> /\ N = Packets(Len(m), mtu) /\ N # 0 /\ N < Window
        /\ s <= N /\ h < N
        /\ Answering(m, h, s, e, o)
  BY <1>1, UnderAnswer
<1>4. PICK p, buffer, q : p = Head(in) /\ buffer = Joined(Begun(p), p.payload) /\ q = p.sequence
  OBVIOUS
<1>5. /\ heard = said /\ replied = Append(got, m) /\ Len(said) = Len(replied)
      /\ AtRest /\ InPackets(m, mtu)
      /\ peer.reply = Left(m, mtu, s)
      /\ peer.acked # None /\ InWindow = e + s /\ e + s <= Window
      /\ (e + s > 0 => peer.owes = 0)
      /\ (o = 1 => h = 0)
      /\ (h > 0 => rxBuffer = FrontOf(m, mtu, h))
      /\ OnTheWay(m, h, s, o)
  BY <1>3 DEF Answering
<1>6. /\ Len(in) = o + (s - h)
      /\ (o = 1 => in[1] = AckAlone(in[1].sequence))
      /\ (\A k \in 1 .. s - h : in[o + k] = PacketOf(m, mtu, h + k, None, in[o + k].sequence))
      /\ in[Len(in)].sequence = peer.sent
  BY <1>1, <1>5 DEF OnTheWay
<1>7. /\ in' = Tail(in) /\ rxSequence' = q
      /\ rxBuffer' = (IF p.end THEN <<>> ELSE buffer)
      /\ got' = (IF p.end THEN Append(got, buffer) ELSE got)
      /\ UNCHANGED <<commissioning, ready, mtu, txSequence, linked, out, peer, connection,
                     said, heard, replied>>
  BY <1>2, <1>4 DEF HandleSegment, Received, Joined
<1>8. /\ in' \in Seq(AnyPacket) /\ Len(in') = o + (s - h) - 1 /\ \A k \in 1 .. Len(in') : in'[k] = in[k + 1]
      /\ p = in[1]
  <2>1. /\ Len(Tail(in)) = Len(in) - 1 /\ Tail(in) \in Seq(AnyPacket)
        /\ \A k \in 1 .. Len(Tail(in)) : Tail(in)[k] = in[k + 1]
        /\ Head(in) = in[1]
    BY <1>1, <1>2, HeadTailProperties
  <2> QED
    BY <1>4, <1>6, <1>7, <2>1
<1>9. IF in' = <<>> THEN rxSequence' = peer'.sent ELSE in'[Len(in')].sequence = peer'.sent
  <2>1. PICK n \in Nat : n = Len(in')
    BY <1>8, LenProperties
  <2>2. Len(in) = n + 1
    BY <1>3, <1>6, <1>8, <2>1
  <2>3. CASE in' = <<>>
    <3>1. n = 0
      <4>1. Len(in') = 0
        BY <2>3
      <4> QED
        BY <2>1, <4>1
    <3>2. q = peer.sent
      <4>1. p = in[1] /\ q = p.sequence /\ in[Len(in)].sequence = peer.sent
        BY <1>4, <1>6, <1>8
      <4>2. Len(in) = 1
        BY <2>2, <3>1
      <4> QED
        BY <4>1, <4>2
    <3> QED
      BY <1>7, <2>3, <3>2
  <2>4. CASE in' # <<>>
    <3>1. n # 0
      BY <1>8, <2>1, <2>4, EmptySeq
    <3>2. in'[n] = in[n + 1]
      BY <1>8, <2>1, <3>1
    <3>3. in'[Len(in')].sequence = peer.sent
      BY <1>6, <2>1, <2>2, <3>2
    <3> QED
      BY <1>7, <2>4, <3>3
  <2> QED
    BY <2>3, <2>4
<1>10. InPackets(m, mtu)' /\ AtRest' /\ InWindow' = e + s /\ N = Packets(Len(m), mtu')
  BY <1>3, <1>5, <1>7 DEF InPackets, AtRest, InWindow
<1>11. ASSUME NEW t \in Nat, t <= s, t < N, OnTheWay(m, t, s, 0)', got' = got,
              t > 0 => rxBuffer' = FrontOf(m, mtu, t)
       PROVE  BtpInv'
  <2>1. /\ heard' = said' /\ replied' = Append(got', m) /\ Len(said') = Len(replied')
        /\ peer'.reply = Left(m, mtu', s) /\ peer'.acked # None /\ e + s <= Window
        /\ (e + s > 0 => peer'.owes = 0) /\ (t > 0 => rxBuffer' = FrontOf(m, mtu', t))
    BY <1>5, <1>7, <1>11
  <2>2. s <= Packets(Len(m), mtu') /\ t < Packets(Len(m), mtu')
    BY <1>3, <1>10, <1>11
  <2>3. Answering(m, t, s, e, 0)'
    BY <1>10, <1>11, <2>1, <2>2 DEF Answering
  <2>4. BtpTypes'
    BY <1>7, <1>11 DEF BtpInv, BtpTypes
  <2>5. Going'
    <3>1. /\ t \in 0..s /\ 0 \in 0..e /\ s \in 0..Window /\ e \in 0..1
      BY <1>3, <1>11, BtpAssumption
    <3>2. /\ commissioning' /\ ready' /\ mtu' = peer'.mtu /\ {in', out'} \subseteq Seq(AnyPacket)
          /\ m \in ToSet(replied')
      BY <1>2, <1>7, <1>8
    <3> QED
      BY <2>3, <3>1, <3>2 DEF Going
  <2> QED
    BY <1>1, <1>2, <1>7, <2>4, <2>5, Connected
<1>12. CASE o = 1
  <2>1. h = 0 /\ p = AckAlone(q)
    BY <1>4, <1>5, <1>6, <1>8, <1>12
  <2>2. p.end = FALSE
    BY <2>1 DEF AckAlone, Packet
  <2>3. \A k \in 1 .. s - 0 : in'[0 + k] = PacketOf(m, mtu', 0 + k, None, in'[0 + k].sequence)
    <3>1. ASSUME NEW k \in 1..s
          PROVE  in'[k] = PacketOf(m, mtu, k, None, in'[k].sequence)
      <4>1. k \in 1 .. s - h /\ h + k = k /\ o + k = k + 1 /\ k \in 1 .. Len(in')
        BY <1>3, <1>8, <1>12, <2>1
      <4>2. in[o + k] = PacketOf(m, mtu, h + k, None, in[o + k].sequence)
        BY <1>6, <4>1
      <4>3. in'[k] = in[k + 1]
        BY <1>8, <4>1
      <4> QED
        BY <4>1, <4>2, <4>3
    <3>2. mtu' = mtu /\ \A k \in 1 .. s - 0 : k \in 1..s /\ 0 + k = k
      BY <1>3, <1>7
    <3> QED
      BY <3>1, <3>2
  <2>4. Len(in') = 0 + (s - 0)
    BY <1>3, <1>8, <1>12, <2>1
  <2>5. OnTheWay(m, 0, s, 0)'
    BY <1>9, <2>3, <2>4 DEF OnTheWay
  <2>6. got' = got
    BY <1>7, <2>2
  <2>7. 0 <= s /\ 0 < N
    BY <1>3
  <2> QED
    BY <1>11, <2>5, <2>6, <2>7
<1>13. CASE o = 0
  <2>1. PICK t, payload : t = h + 1 /\ payload = p.payload
    OBVIOUS
  <2>2. t \in Nat /\ t <= s /\ t \in 1..N /\ t - 1 = h /\ (t = 1 <=> h = 0)
    <3>1. Len(in) # 0
      BY <1>1, <1>2, EmptySeq
    <3>2. Len(in) = o + (s - h)
      BY <1>6
    <3>3. h <= s /\ s <= N
      BY <1>3
    <3>4. s # h
      BY <1>13, <3>1, <3>2
    <3> QED
      BY <2>1, <3>3, <3>4
  <2>3. p = PacketOf(m, mtu, t, None, q)
    <3>1. 1 \in 1 .. s - h /\ o + 1 = 1
      BY <1>3, <1>13, <2>1, <2>2
    <3>2. in[o + 1] = PacketOf(m, mtu, h + 1, None, in[o + 1].sequence)
      BY <1>6, <3>1
    <3> QED
      BY <1>4, <1>8, <2>1, <3>1, <3>2
  <2>4. t \in 1 .. Packets(Len(m), mtu) /\ m \in Seq(Byte) /\ m # <<>> /\ mtu \in Mtus
    BY <1>2, <1>3, <2>2
  <2>5. (p.begin <=> t = 1) /\ (p.end <=> t = N)
    <3>1. (p.begin <=> t = 1) /\ (p.end <=> t = Packets(Len(m), mtu))
      BY <2>3, <2>4, PacketIs
    <3> QED
      BY <1>3, <3>1
  <2>6. buffer = FrontOf(m, mtu, t)
    <3>1. PICK before, after : before = FrontOf(m, mtu, t - 1) /\ after = FrontOf(m, mtu, t)
      OBVIOUS
    <3>2. Begun(p) = before
      <4>1. CASE h = 0
        <5>1. FrontOf(m, mtu, 0) = <<>>
          BY <2>4, Whole
        <5> QED
          BY <2>2, <2>5, <3>1, <4>1, <5>1 DEF Begun
      <4>2. CASE h # 0
        BY <1>5, <2>2, <2>5, <3>1, <4>2 DEF Begun
      <4> QED
        BY <4>1, <4>2
    <3>3. payload = PacketOf(m, mtu, t, None, q).payload
      BY <2>1, <2>3
    <3>4. Joined(before, payload) = after
      BY <2>4, <3>1, <3>3, TakenIs
    <3> QED
      BY <1>4, <2>1, <3>1, <3>2, <3>4
  <2>7. CASE t = N
    <3>1. p.end /\ s = N
      BY <1>3, <2>2, <2>5, <2>7
    <3>2. in' = <<>>
      <4>1. Len(in') = 0
        BY <1>3, <1>8, <1>13, <2>1, <2>7, <3>1
      <4> QED
        BY <1>8, <4>1, EmptySeq
    <3>3. got' = replied
      <4>1. FrontOf(m, mtu, N) = m
        BY <1>3, <2>4, Whole
      <4> QED
        BY <1>5, <1>7, <2>6, <2>7, <3>1, <4>1
    <3>4. Idle'
      <4>1. peer.reply = <<>>
        BY <1>3, <1>5, <2>4, <3>1, Whole
      <4>2. peer.owes = 0
        BY <1>3, <1>5, <3>1
      <4>3. heard' = said' /\ replied' = got' /\ Len(said') = Len(got') /\ rxSequence' = peer'.sent
        BY <1>5, <1>7, <1>9, <3>2, <3>3
      <4> QED
        BY <1>7, <1>10, <3>2, <4>1, <4>2, <4>3 DEF Idle
    <3>5. BtpTypes'
      BY <1>7, <3>3 DEF BtpInv, BtpTypes
    <3>6. Going'
      BY <1>2, <1>7, <1>8, <3>4 DEF Going
    <3> QED
      BY <1>1, <1>2, <1>7, <3>5, <3>6, Connected
  <2>8. CASE t # N
    <3>1. ~p.end /\ t < N
      BY <1>3, <2>2, <2>5, <2>8
    <3>2. got' = got /\ rxBuffer' = buffer
      BY <1>7, <3>1
    <3>3. \A k \in 1 .. s - t : in'[0 + k] = PacketOf(m, mtu', t + k, None, in'[0 + k].sequence)
      <4>1. ASSUME NEW k \in 1 .. s - t
            PROVE  in'[k] = PacketOf(m, mtu, t + k, None, in'[k].sequence)
        <5>1. Len(in') = s - t
          BY <1>3, <1>8, <1>13, <2>1
        <5>2. /\ k + 1 \in 1 .. s - h /\ h + (k + 1) = t + k /\ o + (k + 1) = k + 1
              /\ k \in 1 .. Len(in')
          BY <1>3, <1>13, <2>1, <5>1
        <5>3. in[o + (k + 1)] = PacketOf(m, mtu, h + (k + 1), None, in[o + (k + 1)].sequence)
          BY <1>6, <5>2
        <5>4. in'[k] = in[k + 1]
          BY <1>8, <5>2
        <5> QED
          BY <5>2, <5>3, <5>4
      <4>2. mtu' = mtu /\ \A k \in 1 .. s - t : 0 + k = k
        BY <1>7, <2>2
      <4> QED
        BY <4>1, <4>2
    <3>4. Len(in') = 0 + (s - t)
      BY <1>3, <1>8, <1>13, <2>1
    <3>5. OnTheWay(m, t, s, 0)'
      BY <1>9, <3>3, <3>4 DEF OnTheWay
    <3> QED
      BY <1>11, <2>2, <2>6, <3>1, <3>2, <3>5
  <2> QED
    BY <2>7, <2>8
<1>14. o = 0 \/ o = 1
  BY <1>3
<1> QED
  BY <1>12, <1>13, <1>14

(* What the device sends next of what is left of its answer, and what it     *)
(* leaves.                                                                   *)
NextOf(rest, message, size) ==
  Piece(rest, 0, Smaller(Len(rest), IF Len(rest) = Len(message) THEN size - 5 ELSE size - 2))
After(rest, payload) == Piece(rest, Len(payload), Len(rest))

(* It is the next packet of the answer, and leaves the packets after it.     *)
LEMMA LeftIs ==
  ASSUME NEW m \in Seq(Byte), m # <<>>, NEW size \in Mtus, NEW ack, NEW sequence,
         NEW s \in Nat, s < Packets(Len(m), size),
         NEW rest, rest = Left(m, size, s),
         NEW payload, payload = NextOf(rest, m, size)
  PROVE  /\ Len(rest) = Len(m) <=> s = 0
         /\ Len(payload) = Len(rest) <=> s + 1 = Packets(Len(m), size)
         /\ payload = PacketOf(m, size, s + 1, ack, sequence).payload
         /\ After(rest, payload) = Left(m, size, s + 1)
         /\ Left(m, size, s + 1) \in Seq(Byte)
<1>1. PICK L, N, k, left :
        L = Len(m) /\ N = Packets(L, size) /\ k = s + 1 /\ left = Left(m, size, k)
  OBVIOUS
<1>2. PICK a, b, c : a = Cut(L, size, k - 1) /\ b = Cut(L, size, k) /\ c = b - a
  OBVIOUS
<1>3. PICK room : room = (IF Len(rest) = L THEN size - 5 ELSE size - 2)
  OBVIOUS
<1>4. L \in Nat \ {0} /\ size \in Nat /\ size > 5
  BY <1>1, Sized
<1>5. k \in Nat /\ k - 1 = s /\ k <= N /\ k \in 1 .. Packets(L, size) /\ (k = 1 <=> s = 0)
  <2>1. N \in Nat
    BY <1>1, <1>4, Cuts
  <2>2. s < N /\ k = s + 1
    BY <1>1
  <2>3. k \in Nat /\ k - 1 = s /\ k <= N /\ (k = 1 <=> s = 0) /\ k \in 1..N
    BY <2>1, <2>2
  <2> QED
    BY <1>1, <2>3
<1>6. /\ a \in 0..L /\ b \in a..L /\ a < L
      /\ (k = 1 <=> a = 0) /\ (k = N <=> b = L)
      /\ b = Smaller(L, IF k = 1 THEN size - 5 ELSE a + (size - 2))
  <2>1. /\ L \in Nat \ {0} /\ size \in Nat /\ size > 5 /\ k \in 1 .. Packets(L, size)
        /\ a = Cut(L, size, k - 1) /\ b = Cut(L, size, k)
    BY <1>4, <1>5, <1>2
  <2>2. /\ a \in 0..L /\ b \in a..L /\ a < L
        /\ (k = 1 <=> a = 0) /\ (k = Packets(L, size) <=> b = L)
        /\ b = Smaller(L, IF k = 1 THEN size - 5 ELSE a + (size - 2))
    BY ONLY <2>1, CutAt
  <2> QED
    BY <1>1, <2>2
<1>7. /\ c \in 0 .. L - a /\ a + c = b /\ L - a \in Nat /\ a + (L - a) = L /\ a + 0 = a
      /\ (c = L - a <=> b = L) /\ (L - a = L <=> a = 0) /\ L - a \in c .. L - a
  <2>1. L \in Nat /\ a \in Nat /\ b \in Nat /\ a <= b /\ b <= L /\ c = b - a
    BY <1>4, <1>6, <1>2
  <2>2. c \in 0 .. L - a /\ a + c = b /\ L - a \in Nat /\ a + (L - a) = L /\ a + 0 = a
    BY ONLY <2>1
  <2>3. (c = L - a <=> b = L) /\ (L - a = L <=> a = 0)
    BY ONLY <2>1
  <2>4. L - a \in c .. L - a
    BY ONLY <2>2
  <2> QED
    BY <2>2, <2>3, <2>4
<1>8. rest = Piece(m, a, L) /\ rest \in Seq(Byte) /\ Len(rest) = L - a
  <2>1. rest = Piece(m, a, L)
    BY <1>1, <1>5, <1>2 DEF Left
  <2>2. L \in 0..Len(m) /\ a \in 0..L
    BY <1>1, <1>4, <1>6
  <2>3. m \in Seq(Byte)
    OBVIOUS
  <2>4. Piece(m, a, L) \in Seq(Byte) /\ Len(Piece(m, a, L)) = L - a
    BY ONLY <2>2, <2>3, PartFrom
  <2> QED
    BY <2>1, <2>4
<1>9. \A i \in 0 .. L - a : \A j \in i .. L - a : Piece(rest, i, j) = Piece(m, a + i, a + j)
  <2>1. rest = Piece(m, a, Len(m)) /\ a \in 0..Len(m)
    BY <1>1, <1>6, <1>8
  <2>2. \A i \in 0 .. Len(m) - a : \A j \in i .. Len(m) - a : Piece(rest, i, j) = Piece(m, a + i, a + j)
    BY <2>1, Rest
  <2> QED
    BY <1>1, <2>2
<1>10. Len(rest) = L <=> s = 0
  BY <1>5, <1>6, <1>7, <1>8
<1>11. Smaller(Len(rest), room) = c
  <2>1. CASE s = 0
    <3>1. room = size - 5 /\ room \in Nat /\ a = 0 /\ b = Smaller(L, room)
      BY <1>4, <1>5, <1>6, <1>10, <1>3, <2>1
    <3>2. Smaller(L - 0, room) = b - 0
      BY <1>4, <3>1 DEF Smaller
    <3> QED
      BY <1>8, <1>2, <3>1, <3>2
  <2>2. CASE s # 0
    <3>1. room = size - 2 /\ room \in Nat /\ a \in Nat /\ b = Smaller(L, a + room)
      BY <1>4, <1>5, <1>6, <1>10, <1>3, <2>2
    <3>2. Smaller(L - a, room) = b - a
      BY <1>4, <3>1 DEF Smaller
    <3> QED
      BY <1>8, <1>2, <3>2
  <2> QED
    BY <2>1, <2>2
<1>12. payload = Piece(m, a, b)
  <2>1. payload = Piece(rest, 0, c)
    BY <1>1, <1>11, <1>3 DEF NextOf
  <2>2. 0 \in 0 .. L - a /\ c \in 0 .. L - a
    BY <1>7
  <2>3. Piece(rest, 0, c) = Piece(m, a + 0, a + c)
    BY <1>9, <2>2
  <2> QED
    BY <1>7, <2>1, <2>3
<1>13. Len(payload) = c
  <2>1. b \in 0..Len(m) /\ a \in 0..b
    BY <1>1, <1>4, <1>6
  <2>2. Len(Piece(m, a, b)) = b - a
    BY <2>1, PartFrom
  <2> QED
    BY <1>12, <1>2, <2>2
<1>14. payload = PacketOf(m, size, k, ack, sequence).payload
  BY <1>1, <1>12, <1>2 DEF PacketOf, Packet
<1>15. left = Piece(m, b, L)
  BY <1>1, <1>2 DEF Left
<1>16. After(rest, payload) = left
  <2>1. After(rest, payload) = Piece(rest, c, L - a)
    BY <1>8, <1>13 DEF After
  <2>2. Piece(rest, c, L - a) = Piece(m, a + c, a + (L - a))
    BY <1>7, <1>9
  <2> QED
    BY <1>7, <1>15, <2>1, <2>2
<1>17. left \in Seq(Byte)
  <2>1. L \in 0..Len(m) /\ b \in 0..L
    BY <1>1, <1>4, <1>6
  <2> QED
    BY <1>15, <2>1, PartFrom
<1>18. Len(payload) = Len(rest) <=> k = N
  BY <1>6, <1>7, <1>8, <1>13
<1> QED
  BY <1>1, <1>10, <1>14, <1>16, <1>17, <1>18

(* One more packet in the window.                                            *)
LEMMA OneMore ==
  ASSUME NEW sent \in Number, NEW acked \in Number, NEW w \in Nat, w + 1 < Space,
         (sent + Space - acked) % Space = w
  PROVE  (((sent + 1) % Space) + Space - acked) % Space = w + 1
<1>1. Space \in Nat \ {0} /\ sent \in Nat /\ sent < Space /\ acked \in Nat /\ acked < Space
  BY BtpAssumption DEF Number
<1>2. PICK x, y, z : x = sent + Space - acked /\ y = sent + 1 /\ z = (y % Space) + Space - acked
  OBVIOUS
<1>3. x \in Nat /\ x < 2 * Space /\ y \in Nat /\ y < 2 * Space
  BY <1>1, <1>2
<1>4. w = (IF x < Space THEN x ELSE x - Space) /\ y % Space = (IF y < Space THEN y ELSE y - Space)
  BY <1>1, <1>2, <1>3, Wraps
<1>5. z \in Nat /\ z < 2 * Space
  BY <1>1, <1>2, <1>3, <1>4
<1>6. z % Space = IF z < Space THEN z ELSE z - Space
  BY <1>1, <1>5, Wraps
<1>7. (IF z < Space THEN z ELSE z - Space) = w + 1
  BY <1>1, <1>2, <1>4
<1> QED
  BY <1>2, <1>6, <1>7

(* The device's next segment: it holds the next of its answer, and there was *)
(* room for it.                                                              *)
LEMMA DeviceSendsStep ==
  ASSUME BtpInv, DeviceSends
  PROVE  BtpInv'
<1>1. linked /\ peer.reply # <<>> /\ InWindow < Window /\ ~Beginning
  BY NothingYet DEF DeviceSends
<1>2. /\ peer \in Device /\ mtu = peer.mtu /\ mtu \in Mtus /\ commissioning /\ ready
      /\ in \in Seq(AnyPacket) /\ out \in Seq(AnyPacket)
  BY <1>1, UnderAnswer
<1>3. PICK m \in ToSet(replied), N, s, h, e, o \in Nat :
        /\ h <= s /\ s <= Window /\ o <= e /\ e <= 1
        /\ m \in Seq(Byte) /\ m # <<>> /\ N = Packets(Len(m), mtu) /\ N # 0 /\ N < Window
        /\ s <= N /\ h < N
        /\ Answering(m, h, s, e, o)
  BY <1>1, UnderAnswer
<1>4. m \in Seq(Byte) /\ m # <<>> /\ N = Packets(Len(m), mtu)
  BY <1>3
<1>5. /\ h <= s /\ s <= Window /\ o <= e /\ e <= 1 /\ N # 0 /\ N < Window /\ s <= N /\ h < N
      /\ (o = 0 \/ o = 1)
  BY <1>3
<1>6. /\ heard = said /\ replied = Append(got, m) /\ Len(said) = Len(replied)
      /\ AtRest /\ InPackets(m, mtu)
      /\ peer.reply = Left(m, mtu, s)
      /\ peer.acked # None /\ InWindow = e + s
      /\ (o = 1 => h = 0)
      /\ (h > 0 => rxBuffer = FrontOf(m, mtu, h))
      /\ OnTheWay(m, h, s, o)
  BY <1>3 DEF Answering
<1>7. /\ Len(in) = o + (s - h)
      /\ (o = 1 => in[1] = AckAlone(in[1].sequence))
      /\ (\A k \in 1 .. s - h : in[o + k] = PacketOf(m, mtu, h + k, None, in[o + k].sequence))
  BY <1>6 DEF OnTheWay
<1>8. s < N
  <2>1. Left(m, mtu, N) = <<>>
    BY <1>2, <1>4, Whole
  <2> QED
    BY <1>1, <1>5, <1>6, <2>1
<1>9. replied[Len(replied)] = m
  <2>1. got \in Seq(Seq(Byte))
    BY DEF BtpInv, BtpTypes
  <2> QED
    BY <1>4, <1>6, <2>1, AppendProperties, LenProperties
<1>10. PICK rest, payload, next, packet, left :
         /\ rest = peer.reply
         /\ payload = NextOf(rest, m, mtu)
         /\ next = (peer.sent + 1) % Space
         /\ packet = PacketOf(m, mtu, s + 1, None, next)
         /\ left = After(rest, payload)
  OBVIOUS
<1>11. /\ (Len(rest) = Len(m) <=> s = 0)
       /\ (Len(payload) = Len(rest) <=> s + 1 = N)
       /\ payload = packet.payload
       /\ left = Left(m, mtu, s + 1) /\ left \in Seq(Byte)
  <2>1. rest = Left(m, mtu, s) /\ s < Packets(Len(m), mtu) /\ mtu \in Mtus
    BY <1>2, <1>4, <1>6, <1>8, <1>10
  <2>2. /\ Len(rest) = Len(m) <=> s = 0
        /\ Len(payload) = Len(rest) <=> s + 1 = Packets(Len(m), mtu)
        /\ payload = PacketOf(m, mtu, s + 1, None, next).payload
        /\ After(rest, payload) = Left(m, mtu, s + 1)
        /\ Left(m, mtu, s + 1) \in Seq(Byte)
    BY <1>4, <1>10, <2>1, LeftIs
  <2> QED
    BY <1>4, <1>10, <2>2
<1>12. packet = Packet(Len(rest) = Len(m), Len(payload) = Len(rest), None, next,
                       IF Len(rest) = Len(m) THEN Len(m) ELSE None, payload)
  <2>1. packet = Packet(s + 1 = 1, s + 1 = N, None, next, IF s + 1 = 1 THEN Len(m) ELSE None, packet.payload)
    BY <1>4, <1>10 DEF PacketOf, Packet
  <2>2. s + 1 = 1 <=> Len(rest) = Len(m)
    BY <1>11
  <2> QED
    BY <1>11, <2>1, <2>2
<1>13. /\ peer' = [peer EXCEPT !.sent = next, !.owes = 0, !.reply = left]
       /\ in' = Append(in, packet)
       /\ UNCHANGED <<commissioning, ready, mtu, txSequence, rxSequence, rxBuffer, linked, out,
                      connection, said, heard, replied, got>>
  <2>1. payload = SubSeq(rest, 1, Smaller(Len(rest), IF Len(rest) = Len(m) THEN mtu - 5 ELSE mtu - 2))
    <3>1. 0 + 1 = 1
      OBVIOUS
    <3> QED
      BY <1>10, <3>1 DEF NextOf, Piece
  <2>2. left = SubSeq(rest, Len(payload) + 1, Len(rest))
    BY <1>10, Zenon DEF After, Piece
  <2>3. /\ peer' = [peer EXCEPT !.sent = next, !.owes = 0, !.reply = SubSeq(rest, Len(payload) + 1, Len(rest))]
        /\ in' = Append(in, Packet(Len(rest) = Len(m), Len(payload) = Len(rest), None, next,
                                   IF Len(rest) = Len(m) THEN Len(m) ELSE None, payload))
    BY <1>2, <1>9, <1>10, <2>1 DEF DeviceSends
  <2>4. UNCHANGED <<commissioning, ready, mtu, txSequence, rxSequence, rxBuffer, linked, out,
                    connection, said, heard, replied, got>>
    BY DEF DeviceSends, ownVars
  <2> QED
    BY <1>12, <2>2, <2>3, <2>4
<1>14. next \in Number /\ packet \in AnyPacket /\ left \in Seq(Byte)
  <2>1. next \in Number
    <3>1. Space \in Nat \ {0} /\ peer.sent \in Nat
      BY <1>2, Numbered
    <3> QED
      BY <1>10, <3>1 DEF Number
  <2>2. packet.payload \in Seq(Byte)
    <3>1. PICK k : k = s + 1
      OBVIOUS
    <3>2. k \in 1 .. Packets(Len(m), mtu) /\ packet = PacketOf(m, mtu, k, None, next)
      BY <1>4, <1>5, <1>8, <1>10, <3>1
    <3> QED
      BY <1>2, <1>4, <3>2, PacketIs
  <2>3. Len(m) \in Nat
    BY <1>4, LenProperties
  <2> QED
    BY <1>11, <1>12, <2>1, <2>2, <2>3 DEF Packet, AnyPacket
<1>15. /\ peer' \in Device /\ peer'.mtu = peer.mtu /\ peer'.next = peer.next /\ peer'.sent = next
       /\ peer'.acked = peer.acked /\ peer'.buffer = peer.buffer /\ peer'.length = peer.length
       /\ peer'.reply = left /\ peer'.owes = 0
  BY <1>2, <1>13, <1>14 DEF Device
<1>16. /\ in' \in Seq(AnyPacket) /\ Len(in') = Len(in) + 1 /\ in'[Len(in) + 1] = packet
       /\ \A k \in 1 .. Len(in) : in'[k] = in[k]
  BY <1>2, <1>13, <1>14, AppendProperties
<1>17. InWindow' = e + (s + 1) /\ e + (s + 1) <= Window
  <2>1. InWindow = (peer.sent + Space - peer.acked) % Space
    BY <1>6 DEF InWindow
  <2>2. InWindow' = (next + Space - peer.acked) % Space
    BY <1>6, <1>15 DEF InWindow
  <2>3. peer.sent \in Number /\ peer.acked \in Number
    BY <1>2, <1>6 DEF Device
  <2>4. PICK w \in Nat : w = e + s
    BY <1>5
  <2>5. w + 1 = e + (s + 1) /\ w + 1 <= Window /\ w + 1 < Space
    BY <1>1, <1>6, <2>4, BtpAssumption
  <2>6. (((peer.sent + 1) % Space) + Space - peer.acked) % Space = w + 1
    BY <1>6, <2>1, <2>3, <2>4, <2>5, OneMore
  <2> QED
    BY <1>10, <2>2, <2>5, <2>6
<1>18. PICK t \in Nat : t = s + 1
  OBVIOUS
<1>19. OnTheWay(m, h, t, o)'
  <2>1. \A k \in 1 .. t - h :
          in'[o + k] = PacketOf(m, mtu', h + k, None, in'[o + k].sequence)
    <3> SUFFICES ASSUME NEW k \in 1 .. t - h
                 PROVE  in'[o + k] = PacketOf(m, mtu, h + k, None, in'[o + k].sequence)
      BY <1>13
    <3>1. CASE k \in 1 .. s - h
      <4>1. o + k \in 1 .. Len(in)
        BY <1>5, <1>7, <3>1
      <4>2. in'[o + k] = in[o + k]
        BY <1>16, <4>1
      <4>3. in[o + k] = PacketOf(m, mtu, h + k, None, in[o + k].sequence)
        BY <1>7, <3>1
      <4> QED
        BY <4>2, <4>3
    <3>2. CASE k = t - h
      <4>1. o + k = Len(in) + 1 /\ h + k = s + 1
        BY <1>5, <1>7, <1>18, <3>2
      <4>2. in'[o + k] = packet
        BY <1>16, <4>1
      <4>3. packet.sequence = next
        BY <1>12, FieldsOf
      <4> QED
        BY <1>10, <4>1, <4>2, <4>3
    <3> QED
      BY <1>5, <1>18, <3>1, <3>2
  <2>2. o = 1 => in'[1] = AckAlone(in'[1].sequence)
    <3> SUFFICES ASSUME o = 1
                 PROVE  in'[1] = AckAlone(in'[1].sequence)
      OBVIOUS
    <3>1. 1 \in 1 .. Len(in)
      BY <1>5, <1>7
    <3>2. in'[1] = in[1]
      BY <1>16, <3>1
    <3> QED
      BY <1>7, <3>2
  <2>3. IF in' = <<>> THEN rxSequence' = peer'.sent ELSE in'[Len(in')].sequence = peer'.sent
    <3>1. packet.sequence = next
      BY <1>12, FieldsOf
    <3>2. in' # <<>>
      <4>1. Len(in) \in Nat /\ Len(in') # 0
        BY <1>2, <1>16, LenProperties
      <4> QED
        BY <4>1
    <3> QED
      BY <1>15, <1>16, <3>1, <3>2
  <2>4. Len(in') = o + (t - h)
    BY <1>5, <1>7, <1>16, <1>18
  <2> QED
    BY <2>1, <2>2, <2>3, <2>4 DEF OnTheWay
<1>20. Answering(m, h, t, e, o)'
  <2>1. InPackets(m, mtu)' /\ t <= Packets(Len(m), mtu') /\ h < Packets(Len(m), mtu')
    <3>1. t <= N /\ h < N /\ N = Packets(Len(m), mtu')
      BY <1>4, <1>5, <1>8, <1>13, <1>18
    <3> QED
      BY <1>6, <1>13, <3>1 DEF InPackets
  <2>2. AtRest'
    BY <1>6, <1>13, <1>15 DEF AtRest
  <2>3. /\ heard' = said' /\ replied' = Append(got', m) /\ Len(said') = Len(replied')
        /\ peer'.reply = Left(m, mtu', t) /\ peer'.acked # None
        /\ peer'.owes = 0 /\ (h > 0 => rxBuffer' = FrontOf(m, mtu', h))
    BY <1>6, <1>11, <1>13, <1>15, <1>18
  <2>4. InWindow' = e + t /\ e + t <= Window
    BY <1>17, <1>18
  <2> QED
    BY <1>6, <1>19, <2>1, <2>2, <2>3, <2>4 DEF Answering
<1>21. Going'
  <2>1. t \in 0..Window /\ e \in 0..1 /\ h \in 0..t /\ o \in 0..e
    BY <1>5, <1>8, <1>18, BtpAssumption
  <2>2. m \in ToSet(replied')
    BY <1>3, <1>13
  <2>3. commissioning' /\ ready' /\ mtu' = peer'.mtu /\ {in', out'} \subseteq Seq(AnyPacket)
    BY <1>2, <1>13, <1>15, <1>16
  <2> QED
    BY <1>20, <2>1, <2>2, <2>3 DEF Going
<1>22. BtpTypes'
  BY <1>13 DEF BtpInv, BtpTypes
<1> QED
  BY <1>1, <1>13, <1>15, <1>21, <1>22, Connected

(* The device acks the last segment of a message, before its answer.         *)
LEMMA DeviceAcksStep ==
  ASSUME BtpInv, DeviceAcks
  PROVE  BtpInv'
<1>1. linked /\ peer.owes > 1 /\ out = <<>> /\ ~Beginning
  <2>1. linked /\ peer.owes > 1 /\ out = <<>>
    BY DEF DeviceAcks
  <2> QED
    BY <2>1, NothingYet
<1>2. /\ peer \in Device /\ mtu = peer.mtu /\ mtu \in Mtus /\ commissioning /\ ready
      /\ in \in Seq(AnyPacket) /\ out \in Seq(AnyPacket)
  BY <1>1, UnderAnswer
<1>3. PICK m \in ToSet(replied), N, s, h, e, o \in Nat :
        /\ h <= s /\ s <= Window /\ o <= e /\ e <= 1
        /\ m \in Seq(Byte) /\ m # <<>> /\ N = Packets(Len(m), mtu) /\ N # 0 /\ N < Window
        /\ s <= N /\ h < N
        /\ Answering(m, h, s, e, o)
  BY <1>1, UnderAnswer
<1>4. /\ heard = said /\ replied = Append(got, m) /\ Len(said) = Len(replied)
      /\ AtRest /\ InPackets(m, mtu)
      /\ peer.reply = Left(m, mtu, s)
      /\ peer.acked # None /\ InWindow = e + s
      /\ (e + s > 0 => peer.owes = 0)
      /\ OnTheWay(m, h, s, o)
  BY <1>3 DEF Answering
<1>5. s = 0 /\ e = 0 /\ h = 0 /\ o = 0
  <2>1. ~(e + s > 0)
    BY <1>1, <1>4
  <2>2. s = 0 /\ e = 0
    BY <2>1
  <2> QED
    BY <1>3, <2>2
<1>6. /\ peer.reply = Left(m, mtu, 0) /\ InWindow = 0 /\ Len(in) = 0
  <2>1. Len(in) = 0 + (0 - 0)
    BY <1>4, <1>5 DEF OnTheWay
  <2> QED
    BY <1>4, <1>5, <2>1
<1>7. PICK next, packet : next = (peer.sent + 1) % Space /\ packet = AckAlone(next)
  OBVIOUS
<1>8. /\ peer' = [peer EXCEPT !.sent = next, !.owes = 0] /\ in' = <<packet>>
      /\ UNCHANGED <<commissioning, ready, mtu, txSequence, rxSequence, rxBuffer, linked, out,
                     connection, said, heard, replied, got>>
  <2>1. in = <<>>
    BY <1>2, <1>6, EmptySeq
  <2> QED
    BY <1>7, <2>1 DEF DeviceAcks, ownVars
<1>9. next \in Number
  <2>1. Space \in Nat \ {0} /\ peer.sent \in Nat
    BY <1>2, Numbered
  <2> QED
    BY <1>7, <2>1 DEF Number
<1>10. packet \in AnyPacket /\ packet.sequence = next
  <2>1. <<>> \in Seq(Byte)
    BY EmptySeq
  <2> QED
    BY <1>7, <1>9, <2>1 DEF AckAlone, Packet, AnyPacket
<1>11. /\ peer' \in Device /\ peer'.mtu = peer.mtu /\ peer'.next = peer.next /\ peer'.sent = next
       /\ peer'.acked = peer.acked /\ peer'.buffer = peer.buffer /\ peer'.length = peer.length
       /\ peer'.reply = peer.reply /\ peer'.owes = 0
  BY <1>2, <1>8, <1>9 DEF Device
<1>12. InWindow' = 1
  <2>1. InWindow = (peer.sent + Space - peer.acked) % Space
    BY <1>4 DEF InWindow
  <2>2. InWindow' = (next + Space - peer.acked) % Space
    BY <1>4, <1>11 DEF InWindow
  <2>3. peer.sent \in Number /\ peer.acked \in Number
    BY <1>2, <1>4 DEF Device
  <2>4. PICK w \in Nat : w = 0
    OBVIOUS
  <2>5. w + 1 < Space /\ w + 1 = 1
    BY <2>4, BtpAssumption
  <2>6. (((peer.sent + 1) % Space) + Space - peer.acked) % Space = w + 1
    BY <1>6, <2>1, <2>3, <2>4, <2>5, OneMore
  <2> QED
    BY <1>7, <2>2, <2>5, <2>6
<1>13. OnTheWay(m, 0, 0, 1)'
  <2>1. in' = <<packet>> /\ packet.sequence = peer'.sent
    BY <1>8, <1>10, <1>11
  <2>2. Len(in') = 1 /\ in'[1] = packet /\ in' # <<>>
    BY <2>1
  <2>3. in'[1] = AckAlone(in'[1].sequence)
    BY <1>7, <1>10, <2>2
  <2>4. /\ Len(in') = 1 + (0 - 0) /\ in'[Len(in')].sequence = peer'.sent
        /\ \A k \in 1 .. 0 - 0 : FALSE
    BY <2>1, <2>2
  <2> QED
    BY <2>2, <2>3, <2>4 DEF OnTheWay
<1>14. Answering(m, 0, 0, 1, 1)'
  <2>1. InPackets(m, mtu)' /\ 0 <= Packets(Len(m), mtu') /\ 0 < Packets(Len(m), mtu')
    <3>1. 0 <= N /\ 0 < N /\ N = Packets(Len(m), mtu')
      BY <1>3, <1>8
    <3> QED
      BY <1>4, <1>8, <3>1 DEF InPackets
  <2>2. AtRest'
    BY <1>4, <1>8, <1>11 DEF AtRest
  <2>3. InWindow' = 1 + 0 /\ 1 + 0 <= Window /\ ~(0 > 0)
    BY <1>12, BtpAssumption
  <2>4. /\ heard' = said' /\ replied' = Append(got', m) /\ Len(said') = Len(replied')
        /\ peer'.reply = Left(m, mtu', 0) /\ peer'.acked # None /\ peer'.owes = 0
    BY <1>4, <1>6, <1>8, <1>11
  <2> QED
    BY <1>13, <2>1, <2>2, <2>3, <2>4 DEF Answering
<1>15. Going'
  <2>1. 0 \in 0..Window /\ 1 \in 0..1 /\ 0 \in 0..0 /\ m \in ToSet(replied')
    BY <1>3, <1>8, BtpAssumption
  <2>2. commissioning' /\ ready' /\ mtu' = peer'.mtu /\ {in', out'} \subseteq Seq(AnyPacket)
    <3>1. in' \in Seq(AnyPacket)
      BY <1>8, <1>10
    <3> QED
      BY <1>2, <1>8, <1>11, <3>1
  <2> QED
    BY <1>14, <2>1, <2>2 DEF Going
<1>16. BtpTypes'
  BY <1>8 DEF BtpInv, BtpTypes
<1> QED
  BY <1>1, <1>8, <1>11, <1>15, <1>16, Connected

(* A step that changes nothing.                                              *)
LEMMA BtpStays ==
  ASSUME BtpInv, UNCHANGED btpVars
  PROVE  BtpInv'
<1>1. UNCHANGED <<commissioning, ready, mtu, txSequence, rxSequence, rxBuffer, linked, out, in, peer,
                  connection, said, heard, replied, got>>
  BY DEF btpVars, ownVars
<1>2. BtpTypes'
  BY <1>1 DEF BtpInv, BtpTypes
<1>3. CASE linked
  <2>1. peer' \in Device /\ linked'
    BY <1>1, <1>3 DEF BtpInv
  <2>2. CASE Beginning
    BY <1>1, <1>2, <2>1, <2>2, Connected DEF Beginning
  <2>3. CASE Going
    <3>1. Idle => Idle'
      BY <1>1 DEF Idle, AtRest
    <3>2. \A message, j : Sending(message, j) => Sending(message, j)'
      BY <1>1 DEF Sending
    <3>3. \A message, h, s, e, o : Answering(message, h, s, e, o) => Answering(message, h, s, e, o)'
      <4> SUFFICES ASSUME NEW message, NEW h, NEW s, NEW e, NEW o, Answering(message, h, s, e, o)
                   PROVE  Answering(message, h, s, e, o)'
        OBVIOUS
      <4>1. /\ InWindow' = InWindow /\ (AtRest => AtRest') /\ (InPackets(message, mtu) => InPackets(message, mtu)')
            /\ (OnTheWay(message, h, s, o) => OnTheWay(message, h, s, o)')
        BY <1>1 DEF InWindow, AtRest, InPackets, OnTheWay
      <4> QED
        BY <1>1, <4>1 DEF Answering
    <3>4. Going'
      BY <1>1, <2>3, <3>1, <3>2, <3>3 DEF Going
    <3> QED
      BY <1>2, <2>1, <3>4, Connected
  <2> QED
    BY <1>3, <2>2, <2>3 DEF BtpInv
<1>4. CASE ~linked
  BY <1>1, <1>2, <1>4 DEF BtpInv
<1> QED
  BY <1>3, <1>4

(* BTP: the connection is between two messages, or the device is taking one  *)
(* of the controller's, or the controller one of the device's.               *)
THEOREM BtpInvariant == BtpSpec => []BtpInv
<1>1. BtpInv /\ [BtpNext]_btpVars => BtpInv'
  BY ConnectStep, DisconnectStep, HandleHandshakeStep, HandleSegmentStep, SendMessageStep, DeviceTakesStep,
     DeviceSendsStep, DeviceAcksStep, BtpStays DEF BtpNext
<1> QED
  BY BtpStarts, <1>1, PTL DEF BtpSpec

(* Either end takes what the other gave, whole and in order, the device never *)
(* closes, and it always may go on with its answer.                           *)
THEOREM MessagesAlwaysWhole == BtpSpec => []MessagesWhole
<1>1. BtpInv => MessagesWhole
  <2> SUFFICES ASSUME BtpInv PROVE MessagesWhole
    OBVIOUS
  <2>1. peer # None => ~peer.closed /\ IsPrefix(heard, said) /\ IsPrefix(got, replied)
    BY DEF BtpInv, Device
  <2>2. ASSUME linked, in = <<>>, peer.reply # <<>> PROVE InWindow < Window
    <3>1. ~Beginning
      BY <2>2, NothingYet
    <3>2. PICK m \in ToSet(replied), N, s, h, e, o \in Nat :
            /\ h <= s /\ s <= Window /\ o <= e /\ e <= 1
            /\ m \in Seq(Byte) /\ m # <<>> /\ N = Packets(Len(m), mtu) /\ N # 0 /\ N < Window
            /\ s <= N /\ h < N
            /\ Answering(m, h, s, e, o)
      BY <2>2, <3>1, UnderAnswer
    <3>3. InWindow = e + s /\ OnTheWay(m, h, s, o)
      BY <3>2 DEF Answering
    <3>4. Len(in) = o + (s - h)
      BY <3>3 DEF OnTheWay
    <3>5. Len(in) = 0 /\ Window \in Nat
      BY <2>2, BtpAssumption
    <3>6. o = 0 /\ s = h
      BY <3>2, <3>4, <3>5
    <3> QED
      BY <3>2, <3>3, <3>5, <3>6
  <2> QED
    BY <2>1, <2>2 DEF BtpInv, MessagesWhole
<1> QED
  BY BtpInvariant, <1>1, PTL

-----------------------------------------------------------------------------
(* The records there may be, and what may be known of the instances.         *)
Records ==
  {Pointer(i) : i \in Instances} \cup {Target(i) : i \in Instances}
    \cup {Addressed(h, a) : h \in Hosts, a \in Addresses}
Cache == [Instances -> Service \cup {Unknown}]

(* What Named and Apply make of what is known is of that kind.               *)
LEMMA NamedType ==
  ASSUME NEW known \in Cache, NEW records
  PROVE  Named(known, records) \in Cache
  <1>1. New \in Service BY DEF New, Service
  <1> DEFINE some == ToSet(records)
             Of(i) == IF Pointer(i) \notin some THEN known[i]
                      ELSE [(IF known[i] = Unknown THEN New ELSE known[i])
                             EXCEPT !.operational = @ \/ i \in Operational]
  <1>2. ASSUME NEW i \in Instances PROVE Of(i) \in Service \cup {Unknown}
    <2>1. known[i] \in Service \cup {Unknown} BY DEF Cache
    <2>2. PICK s : s = IF known[i] = Unknown THEN New ELSE known[i] OBVIOUS
    <2>3. s \in Service BY <1>1, <2>1, <2>2
    <2>4. [s EXCEPT !.operational = @ \/ i \in Operational] \in Service
      BY <2>3 DEF Service
    <2> QED BY <2>1, <2>2, <2>4
  <1>3. Named(known, records) = [i \in Instances |-> Of(i)] BY DEF Named
  <1> QED BY <1>2, <1>3 DEF Cache

LEMMA ApplyType ==
  ASSUME NEW known \in Cache, NEW r \in Records
  PROVE  Apply(known, r) \in Cache
  <1> DEFINE Of(i) == IF known[i] = Unknown THEN Unknown
     ELSE IF r.type = "SRV" /\ r.instance = i THEN [known[i] EXCEPT !.host = HostOf[i]]
     ELSE IF r.type \in {"A", "AAAA"} /\ Overrides(r, known[i])
     THEN [known[i] EXCEPT !.address = r.address]
     ELSE known[i]
  <1>1. r.type \in {"A", "AAAA"} => r.address \in Addresses
    BY DEF Records, Pointer, Target, Addressed
  <1>2. ASSUME NEW i \in Instances PROVE Of(i) \in Service \cup {Unknown}
    <2>1. known[i] \in Service \cup {Unknown} BY DEF Cache
    <2>2. HostOf[i] \in Hosts BY MdnsAssumption
    <2>3. ASSUME known[i] # Unknown PROVE [known[i] EXCEPT !.host = HostOf[i]] \in Service
      BY <2>1, <2>2, <2>3 DEF Service
    <2>4. ASSUME known[i] # Unknown, r.type \in {"A", "AAAA"}
          PROVE  [known[i] EXCEPT !.address = r.address] \in Service
      BY <2>1, <1>1, <2>4 DEF Service
    <2> HIDE DEF Overrides
    <2> QED BY <2>1, <2>3, <2>4
  <1>3. Apply(known, r) = [i \in Instances |-> Of(i)] BY DEF Apply
  <1> QED BY <1>2, <1>3 DEF Cache

(* Learned applies the records one after another.                            *)
LEMMA LearnedStepByStep ==
  ASSUME NEW known \in Cache, NEW N \in Nat, NEW records \in [1..N -> Records]
  PROVE  \E f \in [0..N -> Cache] :
           /\ f[0] = Named(known, records)
           /\ \A n \in 1..N : f[n] = Apply(f[n - 1], records[n])
           /\ Learned(known, records) = f[N]
  <1> DEFINE Is(f) == f = [n \in 0..Len(records) |->
                 IF n = 0 THEN Named(known, records) ELSE Apply(f[n - 1], records[n])]
  <1>1. Len(records) = N OBVIOUS
  <1> DEFINE G == [p \in Cache \X (1..N) |-> Apply(p[1], records[p[2]])]
             b == Named(known, records)
  <1>2. b \in Cache BY NamedType
  <1>3. G \in [Cache \X (1..N) -> Cache]
    <2>1. ASSUME NEW p \in Cache \X (1..N) PROVE Apply(p[1], records[p[2]]) \in Cache
      <3>1. p[1] \in Cache /\ records[p[2]] \in Records OBVIOUS
      <3> HIDE DEF Cache, Records
      <3> QED BY <3>1, ApplyType
    <2> QED BY <2>1
  <1>4. PICK f \in [0..N -> Cache] :
          Built(f, b, N, G)
    <2> HIDE DEF b, G, Cache
    <2> QED BY <1>2, <1>3, StepByStep
  <1>5. ASSUME NEW n \in 1..N PROVE f[n] = Apply(f[n - 1], records[n])
    <2>1. f[n - 1] \in Cache BY <1>4
    <2>2. G[<<f[n - 1], n>>] = Apply(f[n - 1], records[n]) BY <2>1
    <2> QED BY <1>4, <2>2 DEF Built
  <1>6. Is(f) 
    <2>1. f = [n \in 0..N |-> f[n]] BY <1>4
    <2>2. ASSUME NEW n \in 0..N
          PROVE  f[n] = IF n = 0 THEN Named(known, records) ELSE Apply(f[n - 1], records[n])
      BY <1>4, <1>5 DEF Built
    <2> QED BY <1>1, <2>1, <2>2
  <1> DEFINE after == CHOOSE g : Is(g)
  <1>7. Is(after)
    <2> HIDE DEF Is
    <2> QED BY <1>6
  <1>8. Learned(known, records) = after[N] BY <1>1 DEF Learned
  <1> HIDE DEF after
  <1>9. after[0] = b /\ \A n \in 1..N : after[n] = Apply(after[n - 1], records[n])
    BY <1>1, <1>7
  <1>10. \A n \in 0..N : after[n] \in Cache
    <2> DEFINE S == {n \in Nat : n <= N => after[n] \in Cache}
    <2>1. 0 \in S BY <1>2, <1>9
    <2>2. ASSUME NEW n \in Nat, n \in S PROVE n + 1 \in S
      <3> SUFFICES ASSUME n + 1 <= N PROVE after[n + 1] \in Cache OBVIOUS
      <3>1. after[n] \in Cache BY <2>2
      <3>2. n + 1 \in 1..N /\ (n + 1) - 1 = n OBVIOUS
      <3>3. after[n + 1] = Apply(after[n], records[n + 1]) BY <1>9, <3>2
      <3>4. records[n + 1] \in Records BY <3>2
      <3> HIDE DEF Cache, Records
      <3> QED BY <3>1, <3>3, <3>4, ApplyType
    <2>3. \A n \in Nat : n \in S
      <3> HIDE DEF S
      <3> QED BY <2>1, <2>2, EveryNumber
    <2> QED BY <2>3
  <1>11. after = [n \in 0..N |-> after[n]] BY <1>1, <1>7
  <1>12. after \in [0..N -> Cache] BY <1>10, <1>11
  <1> QED BY <1>8, <1>9, <1>12

(* The types of the variables.                                               *)
MdnsTypeOK ==
  /\ services \in Cache
  /\ at \in [Hosts -> (SUBSET Addresses) \ {{}}]
  /\ told \subseteq Instances
  /\ whole \in (SUBSET Instances) \X (SUBSET Instances)
  /\ claimed \in [Hosts -> SUBSET Addresses]

(* A service that is known has been announced, and has the host and an       *)
(* address of its own device.                                                *)
ServiceTrue(i, s, t, c) ==
  s # Unknown =>
    /\ i \in t
    /\ s.host \in {Unknown, HostOf[i]}
    /\ s.address \in {Unknown} \cup c[HostOf[i]]
    /\ (s.operational <=> i \in Operational)

(* So it is of every instance.                                               *)
AllTrue(known, t, c) == \A i \in Instances : ServiceTrue(i, known[i], t, c)

(* A service whose host is known.                                            *)
Located(known, i) == known[i] # Unknown /\ known[i].host = HostOf[i]

(* Whoever sent a whole answer is located; whoever sent one after that has an *)
(* address as well.                                                          *)
WholeKnown ==
  /\ \A i \in whole[1] : Located(services, i)
  /\ \A i \in whole[2] : i \in whole[1] /\ services[i].address # Unknown

(* The inductive invariant: FoundSoon needs to know more of the services than *)
(* that what was reported is true.                                           *)
MdnsInv ==
  MdnsTypeOK /\ AllTrue(services, told, claimed) /\ WholeKnown /\ FoundTrue

(* What Named leaves is true.                                                *)
LEMMA NamedTrue ==
  ASSUME NEW known \in Cache, NEW records, NEW t, NEW c,
         \A j \in Instances : Pointer(j) \in ToSet(records) => j \in t,
         AllTrue(known, t, c)
  PROVE  AllTrue(Named(known, records), t, c)
  <1> DEFINE some == ToSet(records)
  <1>1. ASSUME NEW i \in Instances PROVE ServiceTrue(i, Named(known, records)[i], t, c)
    <2>1. CASE Pointer(i) \notin some
      <3>1. Named(known, records)[i] = known[i] BY <2>1 DEF Named
      <3> QED BY <3>1 DEF AllTrue
    <2>2. CASE Pointer(i) \in some
      <3>1. PICK s : s = IF known[i] = Unknown THEN New ELSE known[i] OBVIOUS
      <3>2. s \in Service
        BY <3>1 DEF Cache, New, Service
      <3>3. Named(known, records)[i] = [s EXCEPT !.operational = @ \/ i \in Operational]
        BY <2>2, <3>1 DEF Named
      <3>4. i \in t BY <2>2
      <3>5. s.host \in {Unknown, HostOf[i]} /\ s.address \in {Unknown} \cup c[HostOf[i]]
        BY <3>1 DEF AllTrue, ServiceTrue, New
      <3>6. s.operational => i \in Operational
        BY <3>1 DEF AllTrue, ServiceTrue, New
      <3> DEFINE u == [s EXCEPT !.operational = @ \/ i \in Operational]
      <3>7. u.host = s.host /\ u.address = s.address
            /\ u.operational = (s.operational \/ i \in Operational)
        BY <3>2 DEF Service
      <3>8. s.operational \in BOOLEAN BY <3>2 DEF Service
      <3>9. u.operational <=> i \in Operational BY <3>6, <3>7, <3>8
      <3> HIDE DEF u
      <3> QED BY <3>3, <3>4, <3>5, <3>7, <3>9 DEF ServiceTrue, u
    <2> QED BY <2>1, <2>2
  <1> QED BY <1>1 DEF AllTrue

(* What a record of an answer about an instance may be.                      *)
About(i, c) ==
  {Pointer(i), Target(i)} \cup {Addressed(HostOf[i], a) : a \in c[HostOf[i]]}

(* So is what a record leaves.                                               *)
LEMMA ApplyTrue ==
  ASSUME NEW known \in Cache, NEW i \in Instances, NEW t, NEW c \in [Hosts -> SUBSET Addresses],
         NEW r \in About(i, c), AllTrue(known, t, c)
  PROVE  AllTrue(Apply(known, r), t, c)
  <1>1. ASSUME NEW j \in Instances PROVE ServiceTrue(j, Apply(known, r)[j], t, c)
    <2>0. HostOf[i] \in Hosts /\ HostOf[j] \in Hosts BY MdnsAssumption
    <2>1. known[j] \in Service \cup {Unknown} BY DEF Cache
    <2>2. ServiceTrue(j, known[j], t, c) BY DEF AllTrue
    <2>3. CASE known[j] = Unknown
      BY <2>3 DEF Apply, ServiceTrue
    <2>4. CASE known[j] # Unknown /\ r.type = "SRV" /\ r.instance = j
      <3>1. Apply(known, r)[j] = [known[j] EXCEPT !.host = HostOf[j]] BY <2>4 DEF Apply
      <3>2. known[j] \in Service BY <2>1, <2>4
      <3> DEFINE u == [known[j] EXCEPT !.host = HostOf[j]]
      <3>3. u.host = HostOf[j] /\ u.address = known[j].address
            /\ u.operational = known[j].operational
        BY <3>2 DEF Service
      <3> HIDE DEF u
      <3> QED BY <2>2, <2>4, <3>1, <3>3 DEF ServiceTrue, u
    <2>5. CASE known[j] # Unknown /\ r.type \in {"A", "AAAA"} /\ Overrides(r, known[j])
      <3>1. r.type # "SRV" BY <2>5
      <3>2. Apply(known, r)[j] = [known[j] EXCEPT !.address = r.address]
        BY <2>5, <3>1 DEF Apply
      <3>3. known[j] \in Service BY <2>1, <2>5
      <3> DEFINE u == [known[j] EXCEPT !.address = r.address]
      <3>4. u.host = known[j].host /\ u.address = r.address
            /\ u.operational = known[j].operational
        BY <3>3 DEF Service
      <3>5. PICK a \in c[HostOf[i]] : r = Addressed(HostOf[i], a)
        BY <2>5, <3>1 DEF About, Pointer, Target
      <3>6. r.host = HostOf[i] /\ r.address = a BY <3>5 DEF Addressed
      <3>7. known[j].host = HostOf[i] BY <2>5, <3>6 DEF Overrides
      <3>8. HostOf[i] # Unknown BY <2>0, MdnsAssumption
      <3>9. HostOf[i] = HostOf[j] BY <2>2, <2>5, <3>7, <3>8 DEF ServiceTrue
      <3>10. r.address \in c[HostOf[j]] BY <3>6, <3>9
      <3> HIDE DEF u
      <3> QED BY <2>2, <2>5, <3>2, <3>4, <3>10 DEF ServiceTrue, u
    <2>6. CASE ~(r.type = "SRV" /\ r.instance = j)
               /\ ~(r.type \in {"A", "AAAA"} /\ Overrides(r, known[j]))
      <3>1. Apply(known, r)[j] = known[j] BY <2>6 DEF Apply
      <3> QED BY <2>2, <3>1
    <2> QED BY <2>3, <2>4, <2>5, <2>6
  <1> QED BY <1>1 DEF AllTrue

(* A service that has an address.                                            *)
Reached(known, i) == known[i] # Unknown /\ known[i].address # Unknown

(* Nothing that is known is lost.                                            *)
Better(known, after) ==
  \A i \in Instances :
    /\ known[i] # Unknown => after[i] # Unknown
    /\ Located(known, i) => Located(after, i)
    /\ Reached(known, i) => Reached(after, i)

(* Twice better is better.                                                   *)
LEMMA BetterYet ==
  ASSUME NEW k1, NEW k2, NEW k3, Better(k1, k2), Better(k2, k3)
  PROVE  Better(k1, k3)
  BY DEF Better

(* Named loses nothing.                                                      *)
LEMMA NamedBetter ==
  ASSUME NEW known \in Cache, NEW records
  PROVE  /\ Better(known, Named(known, records))
         /\ \A i \in Instances : Pointer(i) \in ToSet(records) => Named(known, records)[i] # Unknown
  <1> DEFINE some == ToSet(records)
  <1>1. ASSUME NEW i \in Instances
        PROVE  /\ known[i] # Unknown => Named(known, records)[i] # Unknown
               /\ Located(known, i) => Located(Named(known, records), i)
               /\ Reached(known, i) => Reached(Named(known, records), i)
               /\ Pointer(i) \in some => Named(known, records)[i] # Unknown
    <2>1. CASE Pointer(i) \notin some
      <3>1. Named(known, records)[i] = known[i] BY <2>1 DEF Named
      <3> QED BY <2>1, <3>1 DEF Located, Reached
    <2>2. CASE Pointer(i) \in some
      <3>1. PICK s : s = IF known[i] = Unknown THEN New ELSE known[i] OBVIOUS
      <3>2. s \in Service
        BY <3>1 DEF Cache, New, Service
      <3>3. Named(known, records)[i] = [s EXCEPT !.operational = @ \/ i \in Operational]
        BY <2>2, <3>1 DEF Named
      <3> DEFINE u == [s EXCEPT !.operational = @ \/ i \in Operational]
      <3>4. u.host = s.host /\ u.address = s.address BY <3>2 DEF Service
      <3>5. u \in Service BY <3>2 DEF Service
      <3>6. u # Unknown BY <3>5, MdnsAssumption
      <3> HIDE DEF u
      <3> QED BY <3>1, <3>3, <3>4, <3>6 DEF Located, Reached, u
    <2> QED BY <2>1, <2>2
  <1> QED BY <1>1 DEF Better

(* Nor does a record.                                                        *)
LEMMA ApplyBetter ==
  ASSUME NEW known \in Cache, NEW r \in Records
  PROVE  Better(known, Apply(known, r))
  <1>1. ASSUME NEW j \in Instances
        PROVE  /\ known[j] # Unknown => Apply(known, r)[j] # Unknown
               /\ Located(known, j) => Located(Apply(known, r), j)
               /\ Reached(known, j) => Reached(Apply(known, r), j)
    <2>1. known[j] \in Service \cup {Unknown} BY DEF Cache
    <2>2. CASE known[j] = Unknown BY <2>2 DEF Located, Reached
    <2>3. CASE known[j] # Unknown /\ r.type = "SRV" /\ r.instance = j
      <3>1. Apply(known, r)[j] = [known[j] EXCEPT !.host = HostOf[j]] BY <2>3 DEF Apply
      <3>2. known[j] \in Service BY <2>1, <2>3
      <3> DEFINE u == [known[j] EXCEPT !.host = HostOf[j]]
      <3>3. u.host = HostOf[j] /\ u.address = known[j].address
        BY <3>2 DEF Service
      <3>4. HostOf[j] \in Hosts BY MdnsAssumption
      <3>5. u \in Service BY <3>2, <3>4 DEF Service
      <3>6. u # Unknown BY <3>5, MdnsAssumption
      <3> HIDE DEF u
      <3> QED BY <2>3, <3>1, <3>3, <3>6 DEF Located, Reached, u
    <2>4. CASE known[j] # Unknown /\ r.type \in {"A", "AAAA"} /\ Overrides(r, known[j])
      <3>1. r.type # "SRV" BY <2>4
      <3>2. Apply(known, r)[j] = [known[j] EXCEPT !.address = r.address]
        BY <2>4, <3>1 DEF Apply
      <3>3. known[j] \in Service BY <2>1, <2>4
      <3>4. r.address \in Addresses
        BY <2>4, <3>1 DEF Records, Pointer, Target, Addressed
      <3> DEFINE u == [known[j] EXCEPT !.address = r.address]
      <3>5. u.host = known[j].host /\ u.address = r.address
        BY <3>3 DEF Service
      <3>6. u \in Service BY <3>3, <3>4 DEF Service
      <3>7. u # Unknown /\ r.address # Unknown BY <3>4, <3>6, MdnsAssumption
      <3> HIDE DEF u
      <3> QED BY <2>4, <3>2, <3>5, <3>7 DEF Located, Reached, u
    <2>5. CASE ~(r.type = "SRV" /\ r.instance = j)
               /\ ~(r.type \in {"A", "AAAA"} /\ Overrides(r, known[j]))
      <3>1. Apply(known, r)[j] = known[j] BY <2>5 DEF Apply
      <3> QED BY <3>1 DEF Located, Reached
    <2> QED BY <2>2, <2>3, <2>4, <2>5
  <1> QED BY <1>1 DEF Better

(* With every record it only gets better.                                    *)
LEMMA OnAndOn ==
  ASSUME NEW N \in Nat, NEW records \in [1..N -> Records], NEW f \in [0..N -> Cache],
         \A n \in 1..N : f[n] = Apply(f[n - 1], records[n])
  PROVE  \A l, m \in 0..N : l <= m => Better(f[l], f[m])
  <1> DEFINE S == {d \in Nat : \A m \in 0..N : d <= m => Better(f[m - d], f[m])}
  <1>1. 0 \in S BY DEF Better
  <1>2. ASSUME NEW d \in Nat, d \in S PROVE d + 1 \in S
    <2> SUFFICES ASSUME NEW m \in 0..N, d + 1 <= m PROVE Better(f[m - (d + 1)], f[m])
      OBVIOUS
    <2>1. m - d \in 1..N /\ (m - d) - 1 = m - (d + 1) /\ m - (d + 1) \in 0..N OBVIOUS
    <2>2. f[m - d] = Apply(f[m - (d + 1)], records[m - d]) BY <2>1
    <2>3. records[m - d] \in Records /\ f[m - (d + 1)] \in Cache BY <2>1
    <2>4. Better(f[m - (d + 1)], f[m - d])
      <3> HIDE DEF Cache, Records
      <3> QED BY <2>2, <2>3, ApplyBetter
    <2>5. Better(f[m - d], f[m]) BY <1>2
    <2> QED BY <2>4, <2>5, BetterYet
  <1>3. \A d \in Nat : d \in S
    <2> HIDE DEF S
    <2> QED BY <1>1, <1>2, EveryNumber
  <1>4. ASSUME NEW l \in 0..N, NEW m \in 0..N, l <= m PROVE Better(f[l], f[m])
    <2>1. m - l \in Nat /\ m - (m - l) = l /\ m - l <= m BY <1>4
    <2>2. m - l \in S BY <1>3, <2>1
    <2>3. Better(f[m - (m - l)], f[m]) BY <2>1, <2>2
    <2> QED BY <2>1, <2>3
  <1> QED BY <1>4

(* What an answer leaves is true and better than what was known; a whole one *)
(* makes its service located, and one that was located is reached.           *)
LEMMA LearnedRight ==
  ASSUME NEW known \in Cache, NEW i \in Instances, NEW N \in Nat,
         NEW t, NEW c \in [Hosts -> SUBSET Addresses],
         NEW records \in [1..N -> About(i, c)],
         Pointer(i) \in ToSet(records) => i \in t,
         AllTrue(known, t, c)
  PROVE  /\ Learned(known, records) \in Cache
         /\ AllTrue(Learned(known, records), t, c)
         /\ Better(known, Learned(known, records))
         /\ {Pointer(i), Target(i)} \subseteq ToSet(records) => Located(Learned(known, records), i)
         /\ \A a \in Addresses :
              /\ Located(known, i)
              /\ Addressed(HostOf[i], a) \in ToSet(records)
              => Reached(Learned(known, records), i)
  <1>0. HostOf[i] \in Hosts BY MdnsAssumption
  <1>1. About(i, c) \subseteq Records BY <1>0 DEF About, Records
  <1>2. records \in [1..N -> Records]
    <2> HIDE DEF Records, About
    <2> QED BY <1>1
  <1>3. PICK f \in [0..N -> Cache] :
           /\ f[0] = Named(known, records)
           /\ \A n \in 1..N : f[n] = Apply(f[n - 1], records[n])
           /\ Learned(known, records) = f[N]
    <2> HIDE DEF Cache, Records
    <2> QED BY <1>2, LearnedStepByStep
  <1>4. Len(records) = N /\ ToSet(records) = {records[n] : n \in 1..N}
    BY DEF ToSet
  <1>5. AllTrue(f[0], t, c)
    <2>1. ASSUME NEW j \in Instances, Pointer(j) \in ToSet(records) PROVE j \in t
      <3>1. PICK n \in 1..N : records[n] = Pointer(j) BY <1>4, <2>1
      <3>2. Pointer(j) \in About(i, c) BY <3>1
      <3>3. j = i BY <3>2 DEF About, Pointer, Target, Addressed
      <3> QED BY <2>1, <3>3
    <2> HIDE DEF Cache
    <2> QED BY <1>3, <2>1, NamedTrue
  <1>6. AllTrue(f[N], t, c)
    <2> DEFINE S == {n \in Nat : n <= N => AllTrue(f[n], t, c)}
    <2>1. 0 \in S BY <1>5
    <2>2. ASSUME NEW n \in Nat, n \in S PROVE n + 1 \in S
      <3> SUFFICES ASSUME n + 1 <= N PROVE AllTrue(f[n + 1], t, c) OBVIOUS
      <3>1. AllTrue(f[n], t, c) BY <2>2
      <3>2. n + 1 \in 1..N /\ (n + 1) - 1 = n /\ n \in 0..N OBVIOUS
      <3>3. f[n + 1] = Apply(f[n], records[n + 1]) BY <1>3, <3>2
      <3>4. records[n + 1] \in About(i, c) /\ f[n] \in Cache BY <3>2
      <3> HIDE DEF Cache, About
      <3> QED BY <3>1, <3>3, <3>4, ApplyTrue
    <2>3. \A n \in Nat : n \in S
      <3> HIDE DEF S
      <3> QED BY <2>1, <2>2, EveryNumber
    <2> QED BY <2>3
  <1>7. \A l, m \in 0..N : l <= m => Better(f[l], f[m])
    <2> HIDE DEF Cache, Records
    <2> QED BY <1>2, <1>3, OnAndOn
  <1>8. Better(known, f[0]) /\ (Pointer(i) \in ToSet(records) => f[0][i] # Unknown)
    <2> HIDE DEF Cache
    <2> QED BY <1>3, NamedBetter
  <1>9. Better(known, f[N])
    <2>1. Better(f[0], f[N]) BY <1>7
    <2> QED BY <1>8, <2>1, BetterYet
  <1>10. ASSUME {Pointer(i), Target(i)} \subseteq ToSet(records) PROVE Located(f[N], i)
    <2>1. PICK m \in 1..N : records[m] = Target(i) BY <1>4, <1>10
    <2>2. m - 1 \in 0..N /\ m \in 0..N OBVIOUS
    <2>3. f[m - 1][i] # Unknown
      <3>1. f[0][i] # Unknown BY <1>8, <1>10
      <3>2. Better(f[0], f[m - 1]) BY <1>7, <2>2
      <3> QED BY <3>1, <3>2 DEF Better
    <2>4. f[m] = Apply(f[m - 1], Target(i)) BY <1>3, <2>1
    <2>5. Target(i).type = "SRV" /\ Target(i).instance = i BY DEF Target
    <2>6. f[m][i] = [f[m - 1][i] EXCEPT !.host = HostOf[i]]
      BY <2>3, <2>4, <2>5 DEF Apply
    <2>7. f[m - 1][i] \in Service /\ f[m][i] \in Service \cup {Unknown}
      BY <2>2, <2>3 DEF Cache
    <2>8. f[m][i].host = HostOf[i] BY <2>6, <2>7 DEF Service
    <2>9. f[m][i] \in Service BY <1>0, <2>6, <2>7 DEF Service
    <2>10. f[m][i] # Unknown BY <2>9, MdnsAssumption
    <2>11. Located(f[m], i) BY <2>8, <2>10 DEF Located
    <2> QED BY <1>7, <2>2, <2>11 DEF Better
  <1>11. ASSUME NEW a \in Addresses, Located(known, i),
                Addressed(HostOf[i], a) \in ToSet(records)
         PROVE  Reached(f[N], i)
    <2>1. PICK m \in 1..N : records[m] = Addressed(HostOf[i], a) BY <1>4, <1>11
    <2> DEFINE r == Addressed(HostOf[i], a)
    <2>2. m - 1 \in 0..N /\ m \in 0..N OBVIOUS
    <2>3. Located(f[m - 1], i)
      <3>1. Located(f[0], i) BY <1>8, <1>11 DEF Better
      <3>2. Better(f[0], f[m - 1]) BY <1>7, <2>2
      <3> QED BY <3>1, <3>2 DEF Better
    <2>4. f[m] = Apply(f[m - 1], r) BY <1>3, <2>1
    <2>5. r.type \in {"A", "AAAA"} /\ r.type # "SRV" /\ r.host = HostOf[i] /\ r.address = a
      BY DEF Addressed
    <2>6. f[m - 1][i] \in Service /\ f[m - 1][i] # Unknown /\ f[m - 1][i].host = HostOf[i]
      BY <2>2, <2>3 DEF Cache, Located
    <2>7. a # Unknown BY MdnsAssumption
    <2> HIDE DEF r
    <2>8. CASE Overrides(r, f[m - 1][i])
      <3>1. f[m][i] = [f[m - 1][i] EXCEPT !.address = a]
        BY <2>4, <2>5, <2>6, <2>8 DEF Apply
      <3>2. f[m][i] \in Service /\ f[m][i].address = a BY <2>6, <3>1 DEF Service
      <3>3. f[m][i] # Unknown BY <3>2, MdnsAssumption
      <3>4. Reached(f[m], i) BY <2>7, <3>2, <3>3 DEF Reached
      <3> QED BY <1>7, <2>2, <3>4 DEF Better
    <2>9. CASE ~Overrides(r, f[m - 1][i])
      <3>1. f[m - 1][i].address # Unknown BY <2>5, <2>6, <2>9 DEF Overrides
      <3>2. Reached(f[m - 1], i) BY <2>6, <3>1 DEF Reached
      <3> QED BY <1>7, <2>2, <3>2 DEF Better
    <2> QED BY <2>8, <2>9
  <1>12. f[N] \in Cache OBVIOUS
  <1> QED BY <1>3, <1>6, <1>9, <1>10, <1>11, <1>12

(* The first state has the invariant.                                        *)
LEMMA MdnsInitInv == MdnsInit => MdnsInv
  <1> SUFFICES ASSUME MdnsInit PROVE MdnsInv OBVIOUS
  <1>1. services \in Cache BY DEF MdnsInit, Cache
  <1>2. MdnsTypeOK BY <1>1, MdnsAssumption DEF MdnsInit, MdnsTypeOK
  <1>3. AllTrue(services, told, claimed) BY DEF MdnsInit, AllTrue, ServiceTrue
  <1>4. WholeKnown /\ FoundTrue BY DEF MdnsInit, WholeKnown, FoundTrue
  <1> QED BY <1>2, <1>3, <1>4 DEF MdnsInv

(* An answer keeps it, whichever of its records arrive and in whatever order. *)
LEMMA AnswerKeeps ==
  ASSUME MdnsInv, NEW i \in Instances, ProcessMdnsResponse(i)
  PROVE  MdnsInv'
  <1> DEFINE h == HostOf[i]
             all == {Pointer(i), Target(i)} \cup {Addressed(h, a) : a \in at[h]}
  <1>1. PICK n \in 1..MaxRecords : \E records \in Injection(1..n, all) :
       /\ services' = Learned(services, records)
       /\ found' = {[instance |-> j, address |-> services'[j].address] :
                      j \in Complete(services')}
       /\ told' = IF Pointer(i) \in ToSet(records) THEN told \cup {i} ELSE told
       /\ whole' = IF ToSet(records) # all THEN whole
                   ELSE <<whole[1] \cup {i}, whole[2] \cup ({i} \cap whole[1])>>
       /\ claimed' = [claimed EXCEPT ![h] =
                        @ \cup {a \in at[h] : Addressed(h, a) \in ToSet(records)}]
    BY Zenon DEF ProcessMdnsResponse
  <1>2. PICK records \in Injection(1..n, all) :
       /\ services' = Learned(services, records)
       /\ found' = {[instance |-> j, address |-> services'[j].address] :
                      j \in Complete(services')}
       /\ told' = IF Pointer(i) \in ToSet(records) THEN told \cup {i} ELSE told
       /\ whole' = IF ToSet(records) # all THEN whole
                   ELSE <<whole[1] \cup {i}, whole[2] \cup ({i} \cap whole[1])>>
       /\ claimed' = [claimed EXCEPT ![h] =
                        @ \cup {a \in at[h] : Addressed(h, a) \in ToSet(records)}]
    BY <1>1
  <1>3. records \in [1..n -> all] /\ n \in Nat BY MdnsAssumption DEF Injection
  <1>4. h \in Hosts BY MdnsAssumption
  <1>5. at' = at BY DEF ProcessMdnsResponse
  <1>6. claimed' \in [Hosts -> SUBSET Addresses]
    BY <1>2, <1>4 DEF MdnsInv, MdnsTypeOK
  <1>7. \A k \in Hosts : claimed[k] \subseteq claimed'[k]
    BY <1>2, <1>4 DEF MdnsInv, MdnsTypeOK
  <1>8. \A a \in at[h] : Addressed(h, a) \in ToSet(records) => a \in claimed'[h]
    BY <1>2, <1>4 DEF MdnsInv, MdnsTypeOK
  <1>9. told \subseteq told' /\ told' \subseteq Instances
        /\ (Pointer(i) \in ToSet(records) => i \in told')
    BY <1>2 DEF MdnsInv, MdnsTypeOK
  <1>10. records \in [1..n -> About(i, claimed')]
    <2>1. ASSUME NEW m \in 1..n PROVE records[m] \in About(i, claimed')
      <3>1. records[m] \in all BY <1>3
      <3>2. records[m] \in ToSet(records) BY <1>3 DEF ToSet
      <3> QED BY <1>8, <3>1, <3>2 DEF About
    <2> QED BY <1>3, <2>1
  <1>11. AllTrue(services, told', claimed')
    <2>1. ASSUME NEW j \in Instances PROVE ServiceTrue(j, services[j], told', claimed')
      <3>1. HostOf[j] \in Hosts BY MdnsAssumption
      <3>2. ServiceTrue(j, services[j], told, claimed) BY DEF MdnsInv, AllTrue
      <3>3. claimed[HostOf[j]] \subseteq claimed'[HostOf[j]] BY <1>7, <3>1
      <3> QED BY <1>9, <3>2, <3>3 DEF ServiceTrue
    <2> QED BY <2>1 DEF AllTrue
  <1> DEFINE L == services'
  <1>12. services \in Cache BY DEF MdnsInv, MdnsTypeOK
  <1>13. /\ L \in Cache
         /\ AllTrue(L, told', claimed')
         /\ Better(services, L)
         /\ {Pointer(i), Target(i)} \subseteq ToSet(records) => Located(L, i)
         /\ \A a \in Addresses :
              /\ Located(services, i)
              /\ Addressed(HostOf[i], a) \in ToSet(records)
              => Reached(L, i)
    <2>1. PICK c : c = claimed' OBVIOUS
    <2>2. PICK t : t = told' OBVIOUS
    <2>3. records \in [1..n -> About(i, c)] BY <1>10, <2>1
    <2>4. c \in [Hosts -> SUBSET Addresses] BY <1>6, <2>1
    <2>5. AllTrue(services, t, c) BY <1>11, <2>1, <2>2
    <2>6. Pointer(i) \in ToSet(records) => i \in t BY <1>9, <2>2
    <2>7. L = Learned(services, records) BY <1>2
    <2> HIDE DEF Cache, About, L
    <2>8. /\ L \in Cache
          /\ AllTrue(L, t, c)
          /\ Better(services, L)
          /\ {Pointer(i), Target(i)} \subseteq ToSet(records) => Located(L, i)
          /\ \A a \in Addresses :
               /\ Located(services, i)
               /\ Addressed(HostOf[i], a) \in ToSet(records)
               => Reached(L, i)
      BY <1>3, <1>12, <2>3, <2>4, <2>5, <2>6, <2>7, LearnedRight
    <2> QED BY <2>1, <2>2, <2>8
  <1>14. whole \in (SUBSET Instances) \X (SUBSET Instances) BY DEF MdnsInv, MdnsTypeOK
  <1>15. whole' \in (SUBSET Instances) \X (SUBSET Instances)
    <2>1. CASE ToSet(records) # all BY <1>2, <1>14, <2>1
    <2>2. CASE ToSet(records) = all
      <3>1. whole' = <<whole[1] \cup {i}, whole[2] \cup ({i} \cap whole[1])>> BY <1>2, <2>2
      <3> QED BY <1>14, <3>1
    <2> QED BY <2>1, <2>2
  <1>16. MdnsTypeOK'
    BY <1>5, <1>6, <1>9, <1>13, <1>15 DEF MdnsInv, MdnsTypeOK, Cache, Service
  <1>17. ASSUME NEW j \in whole'[1] PROVE Located(L, j)
    <2>1. CASE j \in whole[1]
      <3>1. Located(services, j) /\ j \in Instances BY <1>14, <2>1 DEF MdnsInv, WholeKnown
      <3> QED BY <1>13, <3>1 DEF Better
    <2>2. CASE j \notin whole[1]
      <3>1. ToSet(records) = all BY <1>2, <1>17, <2>2
      <3>2. whole'[1] = whole[1] \cup {i} BY <1>2, <3>1
      <3>3. j = i BY <1>17, <2>2, <3>2
      <3> QED BY <1>13, <3>1, <3>3
    <2> QED BY <2>1, <2>2
  <1>18. ASSUME NEW j \in whole'[2] PROVE j \in whole'[1] /\ L[j].address # Unknown
    <2>1. CASE j \in whole[2]
      <3>1. j \in whole[1] /\ Located(services, j) /\ services[j].address # Unknown /\ j \in Instances
        BY <1>14, <2>1 DEF MdnsInv, WholeKnown
      <3>2. Reached(services, j) BY <3>1 DEF Reached, Located
      <3>3. Reached(L, j) BY <1>13, <3>1, <3>2 DEF Better
      <3>4. j \in whole'[1]
        <4>1. CASE ToSet(records) # all BY <1>2, <3>1, <4>1
        <4>2. CASE ToSet(records) = all
          <5>1. whole'[1] = whole[1] \cup {i} BY <1>2, <4>2
          <5> QED BY <3>1, <5>1
        <4> QED BY <4>1, <4>2
      <3> QED BY <3>3, <3>4 DEF Reached
    <2>2. CASE j \notin whole[2]
      <3>1. ToSet(records) = all BY <1>2, <1>18, <2>2
      <3>2. whole' = <<whole[1] \cup {i}, whole[2] \cup ({i} \cap whole[1])>> BY <1>2, <3>1
      <3>3. j = i /\ i \in whole[1] /\ j \in whole'[1] BY <1>18, <2>2, <3>2
      <3>4. Located(services, i) BY <3>3 DEF MdnsInv, WholeKnown
      <3>5. PICK a \in at[h] : TRUE BY <1>4 DEF MdnsInv, MdnsTypeOK
      <3>6. a \in Addresses /\ Addressed(HostOf[i], a) \in ToSet(records)
        BY <1>4, <3>1, <3>5 DEF MdnsInv, MdnsTypeOK
      <3>7. Reached(L, i) BY <1>13, <3>4, <3>6
      <3> QED BY <3>3, <3>7 DEF Reached
    <2> QED BY <2>1, <2>2
  <1>19. WholeKnown' BY <1>17, <1>18 DEF WholeKnown, Located
  <1>20. FoundTrue'
    <2>1. ASSUME NEW g \in found'
          PROVE  g.instance \in told' /\ g.address \in claimed'[HostOf[g.instance]]
      <3>1. PICK j \in Complete(services') : g = [instance |-> j, address |-> services'[j].address]
        BY <1>2
      <3>2. j \in Instances /\ services'[j] # Unknown /\ services'[j].address # Unknown
        BY DEF Complete
      <3>3. ServiceTrue(j, services'[j], told', claimed') BY <1>13, <3>2 DEF AllTrue
      <3> QED BY <3>1, <3>2, <3>3 DEF ServiceTrue
    <2> QED BY <2>1 DEF FoundTrue
  <1>21. AllTrue(services, told, claimed)' BY <1>13 DEF AllTrue, ServiceTrue
  <1> QED BY <1>16, <1>19, <1>20, <1>21 DEF MdnsInv

(* purgeOperational keeps it: it takes as much from the history as from the  *)
(* services.                                                                 *)
LEMMA PurgeKeeps ==
  ASSUME MdnsInv, NEW a \in Addresses, PurgeOperational(a)
  PROVE  MdnsInv'
  <1> DEFINE gone == {i \in Operational : services[i] # Unknown /\ services[i].address = a}
  <1>1. /\ services' = [i \in Instances |-> IF i \in Purged(a) THEN Unknown ELSE services[i]]
        /\ found' = {}
        /\ told' = told \ gone
        /\ whole' = <<whole[1] \ gone, whole[2] \ gone>>
        /\ at' = at /\ claimed' = claimed
    BY DEF PurgeOperational
  <1>2. \A i \in Instances : ServiceTrue(i, services[i], told, claimed)
    BY DEF MdnsInv, AllTrue
  <1>3. \A i \in Instances : i \in Purged(a) <=> i \in gone
    BY <1>2 DEF Purged, ServiceTrue, Instances
  <1>4. MdnsTypeOK' BY <1>1 DEF MdnsInv, MdnsTypeOK, Cache
  <1>5. ASSUME NEW i \in Instances PROVE ServiceTrue(i, services'[i], told', claimed')
    <2>1. CASE i \in gone
      <3>1. services'[i] = Unknown BY <1>1, <1>3, <2>1
      <3> QED BY <3>1 DEF ServiceTrue
    <2>2. CASE i \notin gone
      <3>1. services'[i] = services[i] BY <1>1, <1>3, <2>2
      <3> QED BY <1>1, <1>2, <2>2, <3>1 DEF ServiceTrue
    <2> QED BY <2>1, <2>2
  <1>6. AllTrue(services, told, claimed)' BY <1>5 DEF AllTrue, ServiceTrue
  <1>7. \A i \in Instances \ gone : services'[i] = services[i] BY <1>1, <1>3
  <1>8. whole'[1] = whole[1] \ gone /\ whole'[2] = whole[2] \ gone BY <1>1
  <1>9. whole[1] \subseteq Instances /\ whole[2] \subseteq Instances BY DEF MdnsInv, MdnsTypeOK
  <1>10. WholeKnown' BY <1>7, <1>8, <1>9 DEF MdnsInv, WholeKnown, Located
  <1>11. FoundTrue' BY <1>1 DEF FoundTrue
  <1> QED BY <1>4, <1>6, <1>10, <1>11 DEF MdnsInv

(* A device that moves keeps it.                                             *)
LEMMA MoveKeeps ==
  ASSUME MdnsInv, NEW h \in Hosts, NEW a \in Addresses, Move(h, a)
  PROVE  MdnsInv'
  <1>1. UNCHANGED <<services, found, told, whole, claimed>> BY DEF Move, historyVars
  <1>2. at' \in [Hosts -> (SUBSET Addresses) \ {{}}] BY DEF Move, MdnsInv, MdnsTypeOK
  <1>3. MdnsTypeOK' BY <1>1, <1>2 DEF MdnsInv, MdnsTypeOK
  <1>4. AllTrue(services, told, claimed)' BY <1>1 DEF MdnsInv, AllTrue, ServiceTrue
  <1>5. WholeKnown' /\ FoundTrue' BY <1>1 DEF MdnsInv, WholeKnown, Located, FoundTrue
  <1> QED BY <1>3, <1>4, <1>5 DEF MdnsInv

(* What is reported of a service is true of its device, and a service of which *)
(* a second whole answer has come is complete, for every set of services, hosts *)
(* and addresses, whichever records an answer has and in whatever order      *)
(* (mdns.cpp:275-325).                                                       *)
THEOREM ServicesAlwaysRight == MdnsSpec => []ServicesRight
  <1>1. MdnsInit => MdnsInv BY MdnsInitInv
  <1>2. MdnsInv /\ [MdnsNext]_mdnsVars => MdnsInv'
    <2> SUFFICES ASSUME MdnsInv, [MdnsNext]_mdnsVars PROVE MdnsInv' OBVIOUS
    <2>1. CASE \E i \in Instances : ProcessMdnsResponse(i) BY <2>1, AnswerKeeps
    <2>2. CASE \E a \in Addresses : PurgeOperational(a) BY <2>2, PurgeKeeps
    <2>3. CASE \E h \in Hosts, a \in Addresses : Move(h, a) BY <2>3, MoveKeeps
    <2>4. CASE UNCHANGED mdnsVars
      <3>1. UNCHANGED <<services, found, at, told, whole, claimed>>
        BY <2>4 DEF mdnsVars, historyVars
      <3>2. MdnsTypeOK' BY <3>1 DEF MdnsInv, MdnsTypeOK
      <3>3. AllTrue(services, told, claimed)' BY <3>1 DEF MdnsInv, AllTrue, ServiceTrue
      <3>4. WholeKnown' /\ FoundTrue' BY <3>1 DEF MdnsInv, WholeKnown, Located, FoundTrue
      <3> QED BY <3>2, <3>3, <3>4 DEF MdnsInv
    <2> QED BY <2>1, <2>2, <2>3, <2>4 DEF MdnsNext
  <1>3. MdnsInv => ServicesRight
    <2> SUFFICES ASSUME MdnsInv PROVE FoundSoon
      BY DEF ServicesRight, MdnsInv
    <2>1. ASSUME NEW i \in whole[2] PROVE i \in Complete(services)
      <3>1. i \in whole[1] /\ services[i].address # Unknown /\ i \in Instances
        BY DEF MdnsInv, WholeKnown, MdnsTypeOK
      <3>2. Located(services, i) BY <3>1 DEF MdnsInv, WholeKnown
      <3>3. HostOf[i] # Unknown BY <3>1, MdnsAssumption
      <3> QED BY <3>1, <3>2, <3>3 DEF Located, Complete
    <2> QED BY <2>1 DEF FoundSoon
  <1> QED BY <1>1, <1>2, <1>3, PTL DEF MdnsSpec

(* The names of attributes, and what a device may say of each.               *)
AttributeNames == Names \ {"action", "count"}
AttributeOf(name) ==
  IF name = "status" THEN BOOLEAN
  ELSE IF name = "powerOnStatus" THEN {0, 1, 2, Unset} ELSE Nat

(* What a property may hold, the values of all the endpoints, and what MQTT   *)
(* is told of an action.                                                     *)
Values == Nat \cup BOOLEAN \cup Words \cup {Unset}
Table == [Endpoints -> [Names -> Values]]
ActionsShown == [endpoint : Endpoints, action : Words, count : Nat \cup {Unset}]
States == [value : Table, latest : Table, actions : Seq(ActionsShown)]

(* An endpoint between two reports: nothing is left of an action, and what it *)
(* holds has been published.                                                 *)
SettledAt(now, x) ==
  /\ now.value[x]["action"] = Unset
  /\ now.value[x]["count"] \in Nat \cup {Unset}
  /\ \A name \in Names : now.value[x][name] # Unset => now.latest[x][name] = now.value[x][name]

Settled(now) == now \in States /\ \A x \in Endpoints : SettledAt(now, x)

(* The sequence of one thing, and of none.                                   *)
LEMMA SequenceOfOne ==
  ASSUME NEW x
  PROVE  SetToSeq({x}) = <<x>>
  <1>1. Cardinality({x}) = 1 BY FS_Singleton
  <1> DEFINE Is(f) == f \in [1..Cardinality({x}) -> {x}] /\ IsInjective(f)
  <1>2. <<x>> \in [1..1 -> {x}] /\ DOMAIN <<x>> = 1..1 OBVIOUS
  <1>3. Is(<<x>>) BY <1>1, <1>2 DEF IsInjective
  <1>4. SetToSeq({x}) = CHOOSE f : Is(f)
    BY DEF SetToSeq
  <1>5. Is(SetToSeq({x}))
    <2> HIDE DEF Is
    <2> QED BY <1>3, <1>4
  <1>6. SetToSeq({x}) \in [1..1 -> {x}] BY <1>1, <1>5
  <1> QED BY <1>6

(* The sequence of nothing.                                                  *)
LEMMA SequenceOfNone == SetToSeq({}) = <<>>
  <1>1. Cardinality({}) = 0 BY FS_EmptySet
  <1> DEFINE Is(f) == f \in [1..Cardinality({}) -> {}] /\ IsInjective(f)
  <1>2. <<>> \in [1..0 -> {}] /\ DOMAIN <<>> = 1..0 OBVIOUS
  <1>3. Is(<<>>) BY <1>1, <1>2 DEF IsInjective
  <1>4. SetToSeq({}) = CHOOSE f : Is(f)
    BY DEF SetToSeq
  <1>5. Is(SetToSeq({}))
    <2> HIDE DEF Is
    <2> QED BY <1>3, <1>4
  <1>6. SetToSeq({}) \in [1..0 -> {}] BY <1>1, <1>5
  <1> QED BY <1>6

(* The sequence of the things in a finite set.                               *)
LEMMA SequenceOf ==
  ASSUME NEW S, IsFiniteSet(S)
  PROVE  SetToSeq(S) \in Seq(S) /\ Len(SetToSeq(S)) = Cardinality(S)
  <1>1. Cardinality(S) \in Nat /\ ExistsBijection(1..Cardinality(S), S)
    BY FS_CardinalityType
  <1> DEFINE Is(f) == f \in [1..Cardinality(S) -> S] /\ IsInjective(f)
  <1>2. PICK f \in Bijection(1..Cardinality(S), S) : TRUE
    BY <1>1 DEF ExistsBijection
  <1>3. Is(f)
    <2>1. f \in [1..Cardinality(S) -> S] BY <1>2 DEF Bijection, Injection
    <2>2. IsInjective(f) BY <1>2, <2>1 DEF Bijection, Injection, IsInjective
    <2> QED BY <2>1, <2>2
  <1>4. SetToSeq(S) = CHOOSE g : Is(g)
    BY DEF SetToSeq
  <1>5. Is(SetToSeq(S))
    <2> HIDE DEF Is
    <2> QED BY <1>3, <1>4
  <1> QED BY <1>1, <1>5

-----------------------------------------------------------------------------
(* What endpointUpdated makes of a state: the values of an endpoint go out, and *)
(* its action with them, and it is settled.                                  *)
Published(now, e, u) ==
  /\ Settled(u)
  /\ \A x \in Endpoints, name \in Names :
       u.latest[x][name] = IF x = e /\ now.value[e][name] # Unset
                           THEN now.value[e][name] ELSE now.latest[x][name]
  /\ u.actions = IF now.value[e]["action"] = Unset THEN now.actions
                 ELSE Append(now.actions, [endpoint |-> e, action |-> now.value[e]["action"],
                                           count |-> now.value[e]["count"]])

(* It does so when no other endpoint has an action.                          *)
LEMMA UpdatedIs ==
  ASSUME NEW now \in States, NEW e \in Endpoints,
         now.value[e]["action"] \in Words \cup {Unset},
         now.value[e]["count"] \in Nat \cup {Unset},
         \A x \in Endpoints \ {e} : SettledAt(now, x)
  PROVE  Published(now, e, EndpointUpdated(now, e))
  <1> DEFINE es == {x \in Endpoints : Multiple(x) => x = e}
             acting == {x \in es : now.value[x]["action"] # Unset}
             One(x) == [endpoint |-> x, action |-> now.value[x]["action"],
                        count |-> now.value[x]["count"]]
             new == Cleared(now.value, es)
             next == [x \in Endpoints |-> [name \in Names |->
                       IF x \in es /\ now.value[x][name] # Unset
                       THEN now.value[x][name] ELSE now.latest[x][name]]]
             u == EndpointUpdated(now, e)
  <1>1. e \in es /\ es \subseteq Endpoints OBVIOUS
  <1>2. u = [value |-> new, latest |-> next,
             actions |-> now.actions \o SetToSeq({One(x) : x \in acting})]
    BY Zenon DEF EndpointUpdated
  <1>3. now.value \in Table /\ now.latest \in Table /\ now.actions \in Seq(ActionsShown)
    BY DEF States
  <1>4. "action" \in Names /\ "count" \in Names BY DEF Names
  <1>5. \A x \in Endpoints, name \in Names :
          new[x][name] = IF x \in es /\ name = "action" THEN Unset ELSE now.value[x][name]
    BY <1>3, <1>4 DEF Cleared, Table
  <1>6. new \in Table
    <2>1. \A x \in Endpoints : new[x] \in [Names -> Values]
      BY <1>3, <1>4 DEF Cleared, Table, Values
    <2>2. new = [x \in Endpoints |-> new[x]] BY DEF Cleared
    <2> QED BY <2>1, <2>2 DEF Table
  <1>7. next \in Table BY <1>3 DEF Table
  <1>8. \A x \in Endpoints \ {e} : now.value[x]["action"] = Unset BY DEF SettledAt
  <1>9. now.actions \o SetToSeq({One(x) : x \in acting})
          = IF now.value[e]["action"] = Unset THEN now.actions ELSE Append(now.actions, One(e))
    <2>1. CASE now.value[e]["action"] = Unset
      <3>1. {One(x) : x \in acting} = {} BY <1>8, <2>1
      <3>2. now.actions \o <<>> = now.actions BY <1>3
      <3> HIDE DEF One, acting
      <3> QED BY <2>1, <3>1, <3>2, SequenceOfNone
    <2>2. CASE now.value[e]["action"] # Unset
      <3>1. acting = {e} BY <1>1, <1>8, <2>2
      <3>2. {One(x) : x \in acting} = {One(e)} BY <3>1
      <3>3. now.actions \o <<One(e)>> = Append(now.actions, One(e)) BY <1>3
      <3> HIDE DEF One, acting
      <3> QED BY <2>2, <3>2, <3>3, SequenceOfOne
    <2> QED BY <2>1, <2>2
  <1>10. u.actions \in Seq(ActionsShown)
    <2>1. CASE now.value[e]["action"] = Unset
      <3>1. u.actions = now.actions \o SetToSeq({One(x) : x \in acting}) BY <1>2
      <3> HIDE DEF u, One, acting
      <3> QED BY <1>3, <1>9, <2>1, <3>1
    <2>2. CASE now.value[e]["action"] # Unset
      <3>0. ASSUME NEW w \in Words, NEW c \in Nat \cup {Unset}
            PROVE  [endpoint |-> e, action |-> w, count |-> c] \in ActionsShown
        BY DEF ActionsShown
      <3>01. now.value[e]["action"] \in Words BY <2>2
      <3>1. One(e) \in ActionsShown BY <3>0, <3>01
      <3>2. u.actions = Append(now.actions, One(e)) BY SMTT(20), <1>2, <1>9, <2>2
      <3> HIDE DEF One, u
      <3> QED BY <1>3, <3>1, <3>2
    <2> QED BY <2>1, <2>2
  <1>11. u.value = new /\ u.latest = next /\ u.actions = now.actions \o SetToSeq({One(x) : x \in acting})
    BY <1>2
  <1>12. u \in States BY <1>2, <1>6, <1>7, <1>10, <1>11 DEF States
  <1>13. \A x \in Endpoints, name \in Names :
           next[x][name] = IF x = e /\ now.value[e][name] # Unset
                          THEN now.value[e][name] ELSE now.latest[x][name]
    BY <1>1 DEF SettledAt
  <1>14. ASSUME NEW x \in Endpoints PROVE SettledAt(u, x)
    <2>1. new[x]["action"] = Unset
      BY <1>1, <1>4, <1>5, <1>8
    <2>2. new[x]["count"] \in Nat \cup {Unset}
      <3>1. now.value[x]["count"] \in Nat \cup {Unset} BY DEF SettledAt
      <3> QED BY <1>4, <1>5, <3>1
    <2>3. ASSUME NEW name \in Names, new[x][name] # Unset PROVE next[x][name] = new[x][name]
      <3>1. new[x][name] = now.value[x][name] BY <1>5, <2>3
      <3>2. CASE x = e BY <1>13, <2>3, <3>1, <3>2
      <3>3. CASE x # e
        <4>1. SettledAt(now, x) BY <3>3
        <4> QED BY <1>13, <2>3, <3>1, <3>3, <4>1 DEF SettledAt
      <3> QED BY <3>2, <3>3
    <2> HIDE DEF new, next, u
    <2> QED BY <1>11, <2>1, <2>2, <2>3 DEF SettledAt
  <1>15. Settled(u) BY <1>12, <1>14 DEF Settled
  <1>17. /\ \A x \in Endpoints, name \in Names :
              u.latest[x][name] = IF x = e /\ now.value[e][name] # Unset
                                  THEN now.value[e][name] ELSE now.latest[x][name]
         /\ u.actions = IF now.value[e]["action"] = Unset THEN now.actions
                        ELSE Append(now.actions, One(e))
    <2> HIDE DEF u, next, new, acting, es, One
    <2> QED BY <1>9, <1>11, <1>13
  <1> QED BY <1>15, <1>17, Zenon DEF Published

-----------------------------------------------------------------------------
(* A report that can be handled: of an attribute, with what a device may say *)
(* of it, or an event from which an action is made.                          *)
EventTypes == {"SwitchLatched", "InitialPress", "ShortRelease", "LongPress", "LongRelease",
               "MultiPressComplete"}
Reports == [endpoint : Endpoints, name : AttributeNames \cup {"event"},
            value : Nat \cup BOOLEAN \cup {Unset} \cup [type : EventTypes, presses : Nat]]
EventRight(e, v) ==
  /\ ActionOf(kind[e], v, Unset) \in Words
  /\ \A c \in Nat \cup {Unset} : CountOf(kind[e], v, c) \in Nat \cup {Unset}
ReportRight(r) ==
  /\ r.endpoint \in Endpoints
  /\ IF r.name = "event" THEN EventRight(r.endpoint, r.value)
     ELSE r.name \in AttributeNames /\ r.value \in AttributeOf(r.name)

(* What a property takes from an attribute is a value.                       *)
LEMMA ParsedIs ==
  ASSUME NEW name \in AttributeNames, NEW v \in AttributeOf(name)
  PROVE  Parsed(name, v) \in Values \ {Unset}
  <1>1. Unset \notin Nat /\ Unset \notin Words BY ConsumerAssumption
  <1>2. Unset \notin BOOLEAN BY ConsumerAssumption
  <1>3. CASE name = "status"
    <2>1. Parsed(name, v) = IF v THEN "on" ELSE "off" BY <1>3 DEF Parsed
    <2>2. Parsed(name, v) \in Words
      <3>1. "on" \in Words /\ "off" \in Words BY DEF Words
      <3> QED BY <2>1, <3>1, Zenon
    <2> QED BY <1>1, <2>2 DEF Values
  <1>4. CASE name = "level"
    <2>1. v \in Nat BY <1>4 DEF AttributeOf
    <2>2. Parsed(name, v) = IF v > 254 THEN 255 ELSE (v * 255) \div 254 BY <1>4 DEF Parsed
    <2>3. Parsed(name, v) \in Nat BY <2>1, <2>2
    <2> QED BY <1>1, <2>3 DEF Values
  <1>5. CASE name = "lock"
    <2>1. Parsed(name, v) = (v = 1) BY <1>5 DEF Parsed
    <2>2. (v = 1) \in BOOLEAN OBVIOUS
    <2>3. Parsed(name, v) \in BOOLEAN BY <2>1, <2>2
    <2> QED BY <1>2, <2>3 DEF Values
  <1>6. CASE name = "position"
    <2>1. v \in Nat BY <1>6 DEF AttributeOf
    <2>2. Parsed(name, v) = v \div 100 BY <1>6 DEF Parsed
    <2>3. Parsed(name, v) \in Nat BY <2>1, <2>2
    <2> QED BY <1>1, <2>3 DEF Values
  <1>7. CASE name = "powerOnStatus"
    <2>1. v \in {0, 1, 2, Unset} BY <1>7 DEF AttributeOf
    <2>2. Parsed(name, v) = CASE v = 0 -> "off" [] v = 1 -> "on" [] v = 2 -> "toggle"
                              [] v = Unset -> "previous"
      BY <1>7 DEF Parsed
    <2>3. Unset # 0 /\ Unset # 1 /\ Unset # 2 BY <1>1
    <2>4. Parsed(name, v) \in Words
      <3>1. "on" \in Words /\ "off" \in Words /\ "toggle" \in Words /\ "previous" \in Words
        BY DEF Words
      <3>2. v = 0 \/ v = 1 \/ v = 2 \/ v = Unset BY <2>1
      <3> QED BY <2>2, <2>3, <3>1, <3>2
    <2> QED BY <1>1, <2>4 DEF Values
  <1>8. CASE name = "colorTemperature"
    <2>1. v \in Nat BY <1>8 DEF AttributeOf
    <2>2. Parsed(name, v) = v BY <1>8 DEF Parsed
    <2> QED BY <1>1, <2>1, <2>2 DEF Values
  <1> QED BY <1>3, <1>4, <1>5, <1>6, <1>7, <1>8 DEF AttributeNames, Names

(* The state in which one endpoint has got new values.                       *)
HasGot(s, now, e, new) ==
  /\ s \in States
  /\ s.value[e] = new /\ \A x \in Endpoints \ {e} : s.value[x] = now.value[x]
  /\ s.latest = now.latest /\ s.actions = now.actions
  /\ \A x \in Endpoints \ {e} : SettledAt(s, x)

(* Given new values, an endpoint has them and the others keep theirs.        *)
LEMMA Given ==
  ASSUME NEW now, Settled(now), NEW e \in Endpoints, NEW new \in [Names -> Values],
         new["action"] \in Words \cup {Unset}, new["count"] \in Nat \cup {Unset}
  PROVE  HasGot([now EXCEPT !.value[e] = new], now, e, new)
  <1> DEFINE s == [now EXCEPT !.value[e] = new]
  <1>1. now.value \in Table /\ now.latest \in Table /\ now.actions \in Seq(ActionsShown)
        /\ now = [value |-> now.value, latest |-> now.latest, actions |-> now.actions]
    BY DEF Settled, States
  <1>2. s = [value |-> [now.value EXCEPT ![e] = new], latest |-> now.latest,
             actions |-> now.actions]
    BY SMTT(20), <1>1
  <1>3. s.value = [now.value EXCEPT ![e] = new] /\ s.latest = now.latest /\ s.actions = now.actions
    BY <1>2
  <1>4. s.value \in Table BY <1>1, <1>3 DEF Table
  <1>5. s \in States BY <1>1, <1>2, <1>3, <1>4 DEF States
  <1>6. s.value[e] = new /\ \A x \in Endpoints \ {e} : s.value[x] = now.value[x]
    BY <1>1, <1>3 DEF Table
  <1>7. \A x \in Endpoints \ {e} : SettledAt(s, x)
    BY <1>3, <1>6 DEF Settled, SettledAt
  <1> HIDE DEF s
  <1>8. HasGot(s, now, e, new) BY <1>3, <1>5, <1>6, <1>7 DEF HasGot
  <1> QED BY <1>8 DEF s

(* A report of an attribute shows that and nothing else.                     *)
LEMMA AttributeHandled ==
  ASSUME NEW now, Settled(now), NEW r, ReportRight(r), r.name # "event"
  PROVE  LET h == Handle(now, r)
         IN /\ Settled(h)
            /\ h.actions = now.actions
            /\ \A x \in Endpoints, name \in AttributeNames :
                 h.latest[x][name] = IF x = r.endpoint /\ name = r.name
                                     THEN Parsed(r.name, r.value) ELSE now.latest[x][name]
  <1> DEFINE e == r.endpoint
             old == now.value[e]
             p == Parsed(r.name, r.value)
             new == [old EXCEPT ![r.name] = p]
             s == [now EXCEPT !.value[e] = new]
             u == EndpointUpdated(s, e)
  <1>1. e \in Endpoints /\ r.name \in AttributeNames /\ r.value \in AttributeOf(r.name)
    BY DEF ReportRight
  <1>2. p \in Values /\ p # Unset BY <1>1, ParsedIs
  <1>3. r.name \in Names /\ r.name # "action" /\ r.name # "count" BY <1>1 DEF AttributeNames
  <1>4. old \in [Names -> Values] /\ SettledAt(now, e) BY <1>1 DEF Settled, States, Table
  <1>5. "action" \in Names /\ "count" \in Names BY DEF Names
  <1>6. /\ new \in [Names -> Values]
        /\ new[r.name] = p
        /\ \A name \in Names \ {r.name} : new[name] = old[name]
    <2> HIDE DEF p, old
    <2> QED BY <1>2, <1>3, <1>4
  <1>7. new["action"] = Unset /\ new["count"] \in Nat \cup {Unset}
    <2>1. old["action"] = Unset /\ old["count"] \in Nat \cup {Unset} BY <1>4 DEF SettledAt
    <2> HIDE DEF new, old
    <2> QED BY <1>3, <1>5, <1>6, <2>1
  <1>8. Handle(now, r) = u BY DEF Handle
  <1>9. /\ s \in States
        /\ s.value[e] = new /\ \A x \in Endpoints \ {e} : s.value[x] = now.value[x]
        /\ s.latest = now.latest /\ s.actions = now.actions
        /\ \A x \in Endpoints \ {e} : SettledAt(s, x)
    <2>1. HasGot(s, now, e, new)
      <3> HIDE DEF new, e
      <3> QED BY <1>1, <1>6, <1>7, Given
    <2> QED BY <2>1, Zenon DEF HasGot
  <1>10. /\ Settled(u)
         /\ \A x \in Endpoints, name \in Names :
              u.latest[x][name] = IF x = e /\ new[name] # Unset
                                  THEN new[name] ELSE now.latest[x][name]
         /\ u.actions = now.actions
    <2> HIDE DEF new, e, s
    <2>1. s.value[e]["action"] \in Words \cup {Unset} /\ s.value[e]["count"] \in Nat \cup {Unset}
      BY <1>7, <1>9
    <2>2. Published(s, e, u)
      <3>1. u = EndpointUpdated(s, e) OBVIOUS
      <3> HIDE DEF u
      <3> QED BY <1>1, <1>9, <2>1, <3>1, UpdatedIs
    <2> HIDE DEF u
    <2> QED BY <1>7, <1>9, <2>2 DEF Published
  <1>11. ASSUME NEW x \in Endpoints, NEW name \in AttributeNames
         PROVE  u.latest[x][name] = IF x = e /\ name = r.name THEN p ELSE now.latest[x][name]
    <2>1. name \in Names BY DEF AttributeNames
    <2>2. u.latest[x][name] = IF x = e /\ new[name] # Unset THEN new[name] ELSE now.latest[x][name]
      BY <1>10, <2>1
    <2>3. CASE x = e /\ name # r.name
      <3>1. new[name] = now.value[e][name] BY <1>6, <2>1, <2>3
      <3>2. now.value[e][name] # Unset => now.latest[e][name] = now.value[e][name]
        BY <1>4, <2>1 DEF SettledAt
      <3> HIDE DEF new, u, e
      <3> QED BY <2>2, <2>3, <3>1, <3>2
    <2>4. CASE ~(x = e /\ name # r.name)
      <3> HIDE DEF new, u, e, p
      <3> QED BY <1>2, <1>6, <2>2, <2>4
    <2> QED BY <2>3, <2>4
  <1>12. u.actions = now.actions BY <1>10
  <1>13. Settled(u) BY <1>10
  <1> QED BY <1>8, <1>11, <1>12, <1>13, ZenonT(30)

(* An event shows one action.                                                *)
LEMMA EventHandled ==
  ASSUME NEW now, Settled(now), NEW r, ReportRight(r), r.name = "event"
  PROVE  LET h == Handle(now, r)
         IN /\ Settled(h)
            /\ h.actions = Append(now.actions,
                             [endpoint |-> r.endpoint,
                              action |-> ActionOf(kind[r.endpoint], r.value, Unset),
                              count |-> CountOf(kind[r.endpoint], r.value,
                                                now.value[r.endpoint]["count"])])
            /\ \A x \in Endpoints, name \in AttributeNames : h.latest[x][name] = now.latest[x][name]
  <1> DEFINE e == r.endpoint
             old == now.value[e]
             a == ActionOf(kind[e], r.value, old["action"])
             c == CountOf(kind[e], r.value, old["count"])
             new == [old EXCEPT !["action"] = ActionOf(kind[e], r.value, @),
                                !["count"] = CountOf(kind[e], r.value, @)]
             s == [now EXCEPT !.value[e] = new]
             u == EndpointUpdated(s, e)
  <1>1. e \in Endpoints /\ EventRight(e, r.value) BY DEF ReportRight
  <1>4. old \in [Names -> Values] /\ SettledAt(now, e) BY <1>1 DEF Settled, States, Table
  <1>2. a = ActionOf(kind[e], r.value, Unset) /\ a \in Words /\ c \in Nat \cup {Unset}
    BY <1>1, <1>4 DEF EventRight, SettledAt
  <1>3. Unset \notin Words BY ConsumerAssumption
  <1>5. "action" \in Names /\ "count" \in Names BY DEF Names
  <1>6. /\ new \in [Names -> Values]
        /\ new["action"] = a /\ new["count"] = c
        /\ \A name \in AttributeNames : new[name] = old[name]
    <2>1. new = [old EXCEPT !["action"] = a, !["count"] = c] BY <1>4, <1>5
    <2>2. a \in Values /\ c \in Values BY <1>2 DEF Values
    <2> HIDE DEF a, c, old, new
    <2> QED BY <1>4, <1>5, <2>1, <2>2 DEF AttributeNames
  <1>8. Handle(now, r) = u BY DEF Handle
  <1>9. /\ s \in States
        /\ s.value[e] = new /\ \A x \in Endpoints \ {e} : s.value[x] = now.value[x]
        /\ s.latest = now.latest /\ s.actions = now.actions
        /\ \A x \in Endpoints \ {e} : SettledAt(s, x)
    <2>1. new["action"] \in Words \cup {Unset} /\ new["count"] \in Nat \cup {Unset}
      <3> HIDE DEF new, e, a, c
      <3> QED BY <1>2, <1>6
    <2>2. e \in Endpoints BY <1>1
    <2>3. new \in [Names -> Values] BY <1>6
    <2>4. HasGot(s, now, e, new)
      <3> HIDE DEF new, e
      <3> QED BY <2>1, <2>2, <2>3, Given
    <2> QED BY <2>4, Zenon DEF HasGot
  <1>10. /\ Settled(u)
         /\ \A x \in Endpoints, name \in Names :
              u.latest[x][name] = IF x = e /\ new[name] # Unset
                                  THEN new[name] ELSE now.latest[x][name]
         /\ u.actions = Append(now.actions, [endpoint |-> e, action |-> a, count |-> c])
    <2> HIDE DEF new, e, s, a, c
    <2>1. s.value[e]["action"] \in Words \cup {Unset} /\ s.value[e]["count"] \in Nat \cup {Unset}
      BY <1>2, <1>6, <1>9
    <2>2. s.value[e]["action"] # Unset BY <1>2, <1>3, <1>6, <1>9
    <2>3. Published(s, e, u)
      <3>1. u = EndpointUpdated(s, e) OBVIOUS
      <3> HIDE DEF u
      <3> QED BY <1>1, <1>9, <2>1, <3>1, UpdatedIs
    <2> HIDE DEF u
    <2> QED BY <1>6, <1>9, <2>2, <2>3 DEF Published
  <1>11. ASSUME NEW x \in Endpoints, NEW name \in AttributeNames
         PROVE  u.latest[x][name] = now.latest[x][name]
    <2>1. name \in Names BY DEF AttributeNames
    <2>2. u.latest[x][name] = IF x = e /\ new[name] # Unset THEN new[name] ELSE now.latest[x][name]
      BY <1>10, <2>1
    <2>3. new[name] = now.value[e][name] BY <1>6
    <2>4. now.value[e][name] # Unset => now.latest[e][name] = now.value[e][name]
      BY <1>4, <2>1 DEF SettledAt
    <2> HIDE DEF new, u, e
    <2> QED BY <2>2, <2>3, <2>4
  <1>12. u.actions = Append(now.actions,
                       [endpoint |-> e, action |-> ActionOf(kind[e], r.value, Unset), count |-> c])
    <2> HIDE DEF u, e, a, c
    <2> QED BY <1>2, <1>10
  <1> QED BY <1>8, <1>10, <1>11, <1>12, ZenonT(30)

(* A state stays settled whatever report is handled.                         *)
LEMMA HandleSettles ==
  ASSUME NEW now, Settled(now), NEW r, ReportRight(r)
  PROVE  Settled(Handle(now, r))
  <1>1. CASE r.name = "event" BY <1>1, EventHandled
  <1>2. CASE r.name # "event" BY <1>2, AttributeHandled
  <1> QED BY <1>1, <1>2

-----------------------------------------------------------------------------
(* The states in which each report leaves the one before.                    *)
AllRight(some) == some \in Seq(Reports) /\ \A i \in 1..Len(some) : ReportRight(some[i])
Follow(after, now, some, names) ==
  /\ after[0] = now
  /\ \A i \in 1..Len(some) :
       after[i] = IF some[i].name \in names THEN Handle(after[i - 1], some[i]) ELSE after[i - 1]
  /\ \A i \in 0..Len(some) : Settled(after[i])
  /\ Handled(now, some, names) = after[Len(some)]

(* Handled goes through them.                                                *)
LEMMA HandledStepByStep ==
  ASSUME NEW now, Settled(now), NEW some, AllRight(some), NEW names
  PROVE  \E after : Follow(after, now, some, names)
  <1> DEFINE V == {s \in States : Settled(s)}
             N == Len(some)
             Then(s, i) == IF some[i].name \in names THEN Handle(s, some[i]) ELSE s
             Is(f) == f = [i \in 0..Len(some) |->
                             IF i = 0 THEN now
                             ELSE IF some[i].name \in names THEN Handle(f[i - 1], some[i])
                             ELSE f[i - 1]]
             G == [p \in V \X (1..N) |-> Then(p[1], p[2])]
  <1>0. N \in Nat /\ \A i \in 1..N : ReportRight(some[i]) BY DEF AllRight
  <1>1. ASSUME NEW s, Settled(s), NEW i \in 1..N PROVE Settled(Then(s, i))
    <2>1. CASE some[i].name \in names BY <1>0, <1>1, <2>1, HandleSettles
    <2>2. CASE some[i].name \notin names BY <1>1, <2>2
    <2> QED BY <2>1, <2>2
  <1>2. \A s : s \in V <=> Settled(s) BY DEF Settled
  <1>3. G \in [V \X (1..N) -> V]
    <2>1. ASSUME NEW p \in V \X (1..N) PROVE Then(p[1], p[2]) \in V
      <3>1. p[1] \in V /\ p[2] \in 1..N OBVIOUS
      <3>2. Settled(Then(p[1], p[2])) BY <1>1, <1>2, <3>1
      <3> HIDE DEF V, Then
      <3> QED BY <1>2, <3>2
    <2> HIDE DEF V, Then
    <2> QED BY <2>1
  <1>4. PICK f \in [0..N -> V] : Built(f, now, N, G)
    <2>1. now \in V BY <1>2
    <2> HIDE DEF V, G, N
    <2> QED BY <1>0, <1>3, <2>1, StepByStep
  <1>5. ASSUME NEW i \in 1..N PROVE f[i] = Then(f[i - 1], i)
    <2>1. f[i - 1] \in V BY <1>0, <1>4
    <2>2. G[<<f[i - 1], i>>] = Then(f[i - 1], i)
      <3> HIDE DEF V, Then
      <3> QED BY <2>1
    <2> HIDE DEF V, Then, G, N
    <2> QED BY <1>4, <2>2 DEF Built
  <1>6. Is(f)
    <2>1. f = [i \in 0..N |-> f[i]] BY <1>4
    <2>2. f[0] = now BY <1>4 DEF Built
    <2>3. ASSUME NEW i \in 0..N
          PROVE  f[i] = IF i = 0 THEN now
                        ELSE IF some[i].name \in names THEN Handle(f[i - 1], some[i])
                        ELSE f[i - 1]
      <3>1. CASE i = 0 BY <2>2, <3>1
      <3>2. CASE i # 0
        <4>1. i \in 1..N BY <1>0, <3>2
        <4>2. f[i] = Then(f[i - 1], i) BY <1>5, <4>1
        <4> QED BY <3>2, <4>2
      <3> QED BY <3>1, <3>2
    <2> QED BY <2>1, <2>3
  <1> DEFINE after == CHOOSE g : Is(g)
  <1>7. Is(after)
    <2> HIDE DEF Is
    <2> QED BY <1>6
  <1>8. Handled(now, some, names) = after[N] BY DEF Handled
  <1> HIDE DEF after
  <1>9. after[0] = now /\ \A i \in 1..N : after[i] = Then(after[i - 1], i)
    <2>0. \A i \in 0..N :
            after[i] = IF i = 0 THEN now
                       ELSE IF some[i].name \in names THEN Handle(after[i - 1], some[i])
                       ELSE after[i - 1]
      BY <1>7
    <2>1. after[0] = now BY <1>0, <2>0
    <2>2. ASSUME NEW i \in 1..N PROVE after[i] = Then(after[i - 1], i)
      <3>1. i \in 0..N /\ i # 0 BY <1>0
      <3> QED BY <2>0, <3>1
    <2> QED BY <2>1, <2>2
  <1>10. \A i \in 0..N : Settled(after[i])
    <2> DEFINE S == {i \in Nat : i <= N => Settled(after[i])}
    <2>1. 0 \in S BY <1>9
    <2>2. ASSUME NEW i \in Nat, i \in S PROVE i + 1 \in S
      <3> SUFFICES ASSUME i + 1 <= N PROVE Settled(after[i + 1]) OBVIOUS
      <3>1. Settled(after[i]) BY <1>0, <2>2
      <3>2. i + 1 \in 1..N /\ (i + 1) - 1 = i BY <1>0
      <3>3. after[i + 1] = Then(after[i], i + 1) BY <1>9, <3>2
      <3> HIDE DEF Then, N
      <3> QED BY <1>1, <3>1, <3>2, <3>3
    <2>3. \A i \in Nat : i \in S
      <3> HIDE DEF S
      <3> QED BY <2>1, <2>2, EveryNumber
    <2> QED BY <1>0, <2>3
  <1> QED BY <1>8, <1>9, <1>10 DEF Follow

(* Refreshing changes nothing of a settled state.                            *)
LEMMA UpdatedStays ==
  ASSUME NEW now, Settled(now), NEW e
  PROVE  EndpointUpdated(now, e) = now
  <1> DEFINE es == {x \in Endpoints : Multiple(x) => x = e}
             acting == {x \in es : now.value[x]["action"] # Unset}
             One(x) == [endpoint |-> x, action |-> now.value[x]["action"],
                        count |-> now.value[x]["count"]]
             new == Cleared(now.value, es)
             next == [x \in Endpoints |-> [name \in Names |->
                       IF x \in es /\ now.value[x][name] # Unset
                       THEN now.value[x][name] ELSE now.latest[x][name]]]
  <1>1. EndpointUpdated(now, e)
          = [value |-> new, latest |-> next,
             actions |-> now.actions \o SetToSeq({One(x) : x \in acting})]
    BY Zenon DEF EndpointUpdated
  <1>2. now.value \in Table /\ now.latest \in Table /\ now.actions \in Seq(ActionsShown)
        /\ now = [value |-> now.value, latest |-> now.latest, actions |-> now.actions]
    BY DEF Settled, States
  <1>3. \A x \in Endpoints : SettledAt(now, x) BY DEF Settled
  <1>4. new = now.value
    <2>1. ASSUME NEW x \in Endpoints PROVE new[x] = now.value[x]
      <3>1. now.value[x] \in [Names -> Values] /\ now.value[x]["action"] = Unset
        BY <1>2, <1>3 DEF Table, SettledAt
      <3>2. [now.value[x] EXCEPT !["action"] = Unset] = now.value[x] BY <3>1
      <3> QED BY <3>2 DEF Cleared
    <2>2. new = [x \in Endpoints |-> new[x]] BY DEF Cleared
    <2>3. now.value = [x \in Endpoints |-> now.value[x]] BY <1>2 DEF Table
    <2> HIDE DEF new
    <2> QED BY <2>1, <2>2, <2>3
  <1>5. next = now.latest
    <2>1. ASSUME NEW x \in Endpoints PROVE next[x] = now.latest[x]
      <3>1. now.latest[x] \in [Names -> Values] BY <1>2 DEF Table
      <3>2. \A name \in Names : now.value[x][name] # Unset => now.latest[x][name] = now.value[x][name]
        BY <1>3 DEF SettledAt
      <3> QED BY <3>1, <3>2
    <2>2. next = [x \in Endpoints |-> next[x]] OBVIOUS
    <2>3. now.latest = [x \in Endpoints |-> now.latest[x]] BY <1>2 DEF Table
    <2> HIDE DEF next
    <2> QED BY <2>1, <2>2, <2>3
  <1>6. now.actions \o SetToSeq({One(x) : x \in acting}) = now.actions
    <2>1. {One(x) : x \in acting} = {} BY <1>3 DEF SettledAt
    <2>2. now.actions \o <<>> = now.actions BY <1>2
    <2> HIDE DEF One, acting
    <2> QED BY <2>1, <2>2, SequenceOfNone
  <1> HIDE DEF new, next, One, acting
  <1> QED BY <1>1, <1>2, <1>4, <1>5, <1>6

(* Refreshing every endpoint when nothing has happened shows no action again. *)
LEMMA RefreshStays ==
  ASSUME NEW now, Settled(now)
  PROVE  Refreshed(now) = now
  <1> DEFINE es == SetToSeq(Endpoints)
             N == Len(es)
             Is(f) == f = [i \in 0..Len(es) |->
                             IF i = 0 THEN now ELSE EndpointUpdated(f[i - 1], es[i])]
             same == [i \in 0..N |-> now]
             after == CHOOSE g : Is(g)
  <1>1. N \in Nat
    <2>1. IsFiniteSet(Endpoints) BY ConsumerAssumption
    <2>2. es \in Seq(Endpoints) BY <2>1, SequenceOf
    <2> HIDE DEF es
    <2> QED BY <2>2
  <1>2. Is(same)
    <2>1. ASSUME NEW i \in 0..N
          PROVE  now = IF i = 0 THEN now ELSE EndpointUpdated(same[i - 1], es[i])
      <3>1. CASE i = 0 BY <3>1
      <3>2. CASE i # 0
        <4>1. same[i - 1] = now BY <1>1, <3>2
        <4>2. EndpointUpdated(now, es[i]) = now BY UpdatedStays
        <4> HIDE DEF same, es
        <4> QED BY <3>2, <4>1, <4>2
      <3> QED BY <3>1, <3>2
    <2> QED BY <2>1
  <1>3. Is(after)
    <2> HIDE DEF Is
    <2> QED BY <1>2
  <1>4. Refreshed(now) = after[N] BY DEF Refreshed
  <1> HIDE DEF after
  <1>5. after[0] = now /\ \A i \in 1..N : after[i] = EndpointUpdated(after[i - 1], es[i])
    BY <1>1, <1>3
  <1> DEFINE S == {i \in Nat : i <= N => after[i] = now}
  <1>6. 0 \in S BY <1>5
  <1>7. ASSUME NEW i \in Nat, i \in S PROVE i + 1 \in S
    <2> SUFFICES ASSUME i + 1 <= N PROVE after[i + 1] = now OBVIOUS
    <2>1. after[i] = now BY <1>1, <1>7
    <2>2. i + 1 \in 1..N /\ (i + 1) - 1 = i BY <1>1
    <2>3. after[i + 1] = EndpointUpdated(now, es[i + 1])
      <3> HIDE DEF es, N
      <3> QED BY <1>5, <2>1, <2>2
    <2> HIDE DEF es
    <2> QED BY <2>3, UpdatedStays
  <1>8. \A i \in Nat : i \in S
    <2> HIDE DEF S
    <2> QED BY <1>6, <1>7, EveryNumber
  <1>9. N \in S BY <1>1, <1>8
  <1> HIDE DEF N
  <1> QED BY <1>1, <1>4, <1>9

-----------------------------------------------------------------------------
(* Report i of some is of this attribute, and the last of its first k that is. *)
Of(some, i, x, name) == some[i].endpoint = x /\ some[i].name = name
LastOf(some, k, i, x, name) ==
  Of(some, i, x, name) /\ \A j \in 1..k : Of(some, j, x, name) => j <= i

(* What is shown of an attribute after k reports: what the last of them said. *)
ShownAfter(now, h, some, k) ==
  /\ h.actions = now.actions
  /\ \A x \in Endpoints, name \in AttributeNames :
       /\ (\A i \in 1..k : ~Of(some, i, x, name)) => h.latest[x][name] = now.latest[x][name]
       /\ \A i \in 1..k : LastOf(some, k, i, x, name)
                            => h.latest[x][name] = Parsed(name, some[i].value)

(* The first pass: what is shown of an attribute is the last said of it.     *)
LEMMA AttributesHandled ==
  ASSUME NEW now, Settled(now), NEW some, AllRight(some)
  PROVE  LET h == Handled(now, some, Names)
         IN Settled(h) /\ ShownAfter(now, h, some, Len(some))
  <1>1. PICK after : Follow(after, now, some, Names) BY HandledStepByStep
  <1> DEFINE N == Len(some)
  <1>2. /\ after[0] = now
        /\ \A i \in 1..N : after[i] = IF some[i].name \in Names THEN Handle(after[i - 1], some[i])
                                      ELSE after[i - 1]
        /\ \A i \in 0..N : Settled(after[i])
        /\ Handled(now, some, Names) = after[N]
    BY <1>1 DEF Follow
  <1>3. N \in Nat /\ \A i \in 1..N : ReportRight(some[i]) BY DEF AllRight
  <1> DEFINE S == {k \in Nat : k <= N => ShownAfter(now, after[k], some, k)}
  <1> HIDE DEF N
  <1>4. 0 \in S BY <1>2 DEF ShownAfter
  <1>5. ASSUME NEW k \in Nat, k \in S PROVE k + 1 \in S
    <2> SUFFICES ASSUME k + 1 <= N PROVE ShownAfter(now, after[k + 1], some, k + 1) OBVIOUS
    <2> DEFINE r == some[k + 1]
    <2>1. k \in 0..N /\ k + 1 \in 1..N /\ (k + 1) - 1 = k BY <1>3
    <2>2. ShownAfter(now, after[k], some, k) /\ Settled(after[k]) /\ ReportRight(r)
      BY <1>2, <1>3, <1>5, <2>1
    <2>3. CASE r.name = "event"
      <3>1. "event" \notin Names BY DEF Names
      <3>2. after[k + 1] = after[k] BY <1>2, <2>1, <2>3, <3>1
      <3>3. \A x \in Endpoints, name \in AttributeNames : ~Of(some, k + 1, x, name)
        BY <2>3, <3>1 DEF Of, AttributeNames
      <3>4. ASSUME NEW x \in Endpoints, NEW name \in AttributeNames,
                   \A i \in 1..(k + 1) : ~Of(some, i, x, name)
            PROVE  after[k + 1].latest[x][name] = now.latest[x][name]
        BY <2>2, <3>2, <3>4 DEF ShownAfter
      <3>5. ASSUME NEW x \in Endpoints, NEW name \in AttributeNames, NEW i \in 1..(k + 1),
                   LastOf(some, k + 1, i, x, name)
            PROVE  after[k + 1].latest[x][name] = Parsed(name, some[i].value)
        <4>1. i # k + 1 BY <3>3, <3>5 DEF LastOf
        <4>2. i \in 1..k BY <4>1
        <4>3. LastOf(some, k, i, x, name) BY <3>5 DEF LastOf
        <4> QED BY <2>2, <3>2, <4>2, <4>3 DEF ShownAfter
      <3>6. after[k + 1].actions = now.actions BY <2>2, <3>2 DEF ShownAfter
      <3> QED BY <3>4, <3>5, <3>6 DEF ShownAfter
    <2>4. CASE r.name # "event"
      <3>1. r.name \in Names /\ r.endpoint \in Endpoints /\ r.name \in AttributeNames
        BY <2>2, <2>4 DEF ReportRight, AttributeNames
      <3>2. after[k + 1] = Handle(after[k], r) BY <1>2, <2>1, <3>1
      <3> DEFINE h == after[k + 1]
      <3>3. /\ h.actions = after[k].actions
            /\ \A x \in Endpoints, name \in AttributeNames :
                 h.latest[x][name] = IF x = r.endpoint /\ name = r.name
                                     THEN Parsed(r.name, r.value) ELSE after[k].latest[x][name]
        BY <2>2, <2>4, <3>2, AttributeHandled
      <3>4. ASSUME NEW x \in Endpoints, NEW name \in AttributeNames,
                   \A i \in 1..(k + 1) : ~Of(some, i, x, name)
            PROVE  h.latest[x][name] = now.latest[x][name]
        <4>1. ~(x = r.endpoint /\ name = r.name) BY <3>4 DEF Of
        <4>2. h.latest[x][name] = after[k].latest[x][name] BY <3>3, <4>1
        <4>3. after[k].latest[x][name] = now.latest[x][name] BY <2>2, <3>4 DEF ShownAfter
        <4> QED BY <4>2, <4>3
      <3>5. ASSUME NEW x \in Endpoints, NEW name \in AttributeNames, NEW i \in 1..(k + 1),
                   LastOf(some, k + 1, i, x, name)
            PROVE  h.latest[x][name] = Parsed(name, some[i].value)
        <4>1. CASE i = k + 1
          <5>1. x = r.endpoint /\ name = r.name BY <3>5, <4>1 DEF LastOf, Of
          <5> HIDE DEF h
          <5> QED BY <3>3, <4>1, <5>1
        <4>2. CASE i # k + 1
          <5>1. i \in 1..k BY <4>2
          <5>2. ~Of(some, k + 1, x, name) BY <3>5, <5>1 DEF LastOf
          <5>3. ~(x = r.endpoint /\ name = r.name) BY <5>2 DEF Of
          <5>4. LastOf(some, k, i, x, name) BY <3>5 DEF LastOf
          <5>5. after[k].latest[x][name] = Parsed(name, some[i].value)
            BY <2>2, <5>1, <5>4 DEF ShownAfter
          <5> HIDE DEF h
          <5> QED BY <3>3, <5>3, <5>5
        <4> QED BY <4>1, <4>2
      <3>6. h.actions = now.actions BY <2>2, <3>3 DEF ShownAfter
      <3> QED BY <3>4, <3>5, <3>6 DEF ShownAfter
    <2> QED BY <2>3, <2>4
  <1>6. \A k \in Nat : k \in S
    <2> HIDE DEF S
    <2> QED BY <1>4, <1>5, EveryNumber
  <1>7. Settled(after[N]) /\ ShownAfter(now, after[N], some, N) BY <1>2, <1>3, <1>6
  <1> QED BY <1>2, <1>7 DEF N

(* The actions that have been shown are the first of those meant.            *)
Right(shown, meant) ==
  \A j \in 1..Len(shown) : SameAction(shown[j], meant[j])
                           /\ shown[j].action \in Offered(kind[shown[j].endpoint])

(* An event from which the action that is meant will be made.                *)
Shows(r, m) ==
  /\ r.endpoint = m.endpoint
  /\ ActionOf(kind[r.endpoint], r.value, Unset) = m.action
  /\ m.action \in Offered(kind[m.endpoint])
  /\ m.count # Unset => \A c \in Nat \cup {Unset} : CountOf(kind[r.endpoint], r.value, c) = m.count

(* Report i of some shows the action that it counts, if it is an event.      *)
Counts(c, some, meant, i) ==
  IF some[i].name = "event"
  THEN c[i] = c[i - 1] + 1 /\ c[i] <= Len(meant) /\ Shows(some[i], meant[c[i]])
  ELSE c[i] = c[i - 1]

ShownUpto(now, h, meant, m) ==
  /\ Len(h.actions) = m
  /\ Right(h.actions, meant)
  /\ \A x \in Endpoints, name \in AttributeNames : h.latest[x][name] = now.latest[x][name]

(* The second pass: one action is shown for each event, the one it means.    *)
LEMMA EventsHandled ==
  ASSUME NEW now, Settled(now), NEW some, AllRight(some),
         NEW meant, Right(now.actions, meant),
         NEW c, c[0] = Len(now.actions), \A i \in 1..Len(some) : Counts(c, some, meant, i)
  PROVE  LET h == Handled(now, some, {"event"})
         IN Settled(h) /\ ShownUpto(now, h, meant, c[Len(some)])
  <1>1. PICK after : Follow(after, now, some, {"event"}) BY HandledStepByStep
  <1> DEFINE N == Len(some)
  <1>2. /\ after[0] = now
        /\ \A i \in 1..N : after[i] = IF some[i].name \in {"event"} THEN Handle(after[i - 1], some[i])
                                      ELSE after[i - 1]
        /\ \A i \in 0..N : Settled(after[i])
        /\ Handled(now, some, {"event"}) = after[N]
    BY <1>1 DEF Follow
  <1>3. N \in Nat /\ \A i \in 1..N : ReportRight(some[i]) BY DEF AllRight
  <1>31. \A i \in 1..N : Counts(c, some, meant, i) OBVIOUS
  <1> DEFINE S == {k \in Nat : k <= N => ShownUpto(now, after[k], meant, c[k])}
  <1> HIDE DEF N
  <1>4. 0 \in S BY <1>2 DEF ShownUpto
  <1>5. ASSUME NEW k \in Nat, k \in S PROVE k + 1 \in S
    <2> SUFFICES ASSUME k + 1 <= N PROVE ShownUpto(now, after[k + 1], meant, c[k + 1]) OBVIOUS
    <2> DEFINE r == some[k + 1]
    <2>1. k \in 0..N /\ k + 1 \in 1..N /\ (k + 1) - 1 = k BY <1>3
    <2>2. ShownUpto(now, after[k], meant, c[k]) /\ Settled(after[k]) /\ ReportRight(r)
      BY <1>2, <1>3, <1>5, <2>1
    <2>21. Counts(c, some, meant, k + 1) BY <1>31, <2>1
    <2>3. CASE r.name # "event"
      <3>1. after[k + 1] = after[k] BY <1>2, <2>1, <2>3
      <3>2. c[k + 1] = c[k] BY <2>1, <2>21, <2>3 DEF Counts
      <3> QED BY <2>2, <3>1, <3>2
    <2>4. CASE r.name = "event"
      <3>1. after[k + 1] = Handle(after[k], r) BY <1>2, <2>1, <2>4
      <3>2. c[k + 1] = c[k] + 1 /\ Shows(r, meant[c[k + 1]]) BY <2>1, <2>21, <2>4 DEF Counts
      <3> DEFINE h == after[k + 1]
                 v == CountOf(kind[r.endpoint], r.value, after[k].value[r.endpoint]["count"])
                 one == [endpoint |-> r.endpoint,
                         action |-> ActionOf(kind[r.endpoint], r.value, Unset), count |-> v]
      <3>3. /\ h.actions = Append(after[k].actions, one)
            /\ \A x \in Endpoints, name \in AttributeNames :
                 h.latest[x][name] = after[k].latest[x][name]
        BY SMTT(20), <2>2, <2>4, <3>1, EventHandled
      <3>4. after[k].actions \in Seq(ActionsShown) /\ Len(after[k].actions) = c[k]
            /\ Right(after[k].actions, meant)
        BY <2>2 DEF Settled, States, ShownUpto
      <3>5. /\ Len(h.actions) = c[k] + 1
            /\ h.actions[c[k] + 1] = one
            /\ \A j \in 1..c[k] : h.actions[j] = after[k].actions[j]
        <4> HIDE DEF h, one
        <4> QED BY <3>3, <3>4
      <3>6. after[k].value[r.endpoint]["count"] \in Nat \cup {Unset}
        BY <2>2 DEF Settled, SettledAt, ReportRight
      <3>7. SameAction(one, meant[c[k + 1]]) /\ one.action \in Offered(kind[one.endpoint])
        BY <3>2, <3>6 DEF Shows, SameAction
      <3>8. Right(h.actions, meant)
        <4>1. c[k] \in Nat BY <3>4
        <4>2. ASSUME NEW j \in 1..Len(h.actions)
              PROVE  SameAction(h.actions[j], meant[j])
                     /\ h.actions[j].action \in Offered(kind[h.actions[j].endpoint])
          <5>1. CASE j = c[k] + 1
            <6> HIDE DEF h, one
            <6> QED BY <3>2, <3>5, <3>7, <5>1
          <5>2. CASE j # c[k] + 1
            <6>1. j \in 1..c[k]
              <7> HIDE DEF h
              <7> QED BY <3>5, <4>1, <5>2
            <6>2. h.actions[j] = after[k].actions[j] BY <3>5, <6>1
            <6>3. SameAction(after[k].actions[j], meant[j])
                  /\ after[k].actions[j].action \in Offered(kind[after[k].actions[j].endpoint])
              BY <3>4, <6>1 DEF Right
            <6> HIDE DEF h
            <6> QED BY <6>2, <6>3
          <5> QED BY <5>1, <5>2
        <4> QED BY <4>2 DEF Right
      <3>9. \A x \in Endpoints, name \in AttributeNames : h.latest[x][name] = now.latest[x][name]
        BY <2>2, <3>3 DEF ShownUpto
      <3> QED BY <3>2, <3>5, <3>8, <3>9 DEF ShownUpto
    <2> QED BY <2>3, <2>4
  <1>6. \A k \in Nat : k \in S
    <2> HIDE DEF S
    <2> QED BY <1>4, <1>5, EveryNumber
  <1>7. Settled(after[N]) /\ ShownUpto(now, after[N], meant, c[N]) BY <1>2, <1>3, <1>6
  <1> QED BY <1>2, <1>7 DEF N

-----------------------------------------------------------------------------
(* A device that does as it is told has the attribute that was asked for, to  *)
(* the step for a level.                                                     *)
LEMMA LevelNear ==
  ASSUME NEW v \in 0..255
  PROVE  /\ ((v * 254) \div 255) % 256 = (v * 254) \div 255
         /\ (v * 254) \div 255 <= 254
         /\ Near((((v * 254) \div 255) * 255) \div 254, v)
  <1> DEFINE t == (v * 254) \div 255
             p == (t * 255) \div 254
  <1>1. t \in Nat /\ 255 * t <= 254 * v /\ 254 * v < 255 * t + 255 OBVIOUS
  <1>2. t <= 254 BY <1>1
  <1>3. t % 256 = t BY <1>1, <1>2
  <1>4. p \in Nat /\ 254 * p <= 255 * t /\ 255 * t < 254 * p + 254
    <2> HIDE DEF t
    <2> QED BY <1>1
  <1> HIDE DEF t, p
  <1>5. p <= v + 1 /\ v <= p + 1 BY <1>1, <1>4
  <1>6. Near(p, v) BY <1>5 DEF Near
  <1> QED BY <1>2, <1>3, <1>6 DEF t, p

(* What is subscribed to are attributes. *)
LEMMA SubscribedAre ==
  /\ \A name \in SubscribedValues : name \in AttributeNames /\ name \in Names
  /\ "lock" \notin SubscribedValues /\ "position" \notin SubscribedValues
  BY DEF SubscribedValues, AttributeNames, Names

(* What the device becomes when told reads as what was asked for, of a value  *)
(* that is subscribed to.                                                    *)
LEMMA DoneAsAsked ==
  ASSUME NEW e \in Endpoints, NEW name \in AttributeNames, NEW v \in Wanted(name),
         attribute[e][name] \in AttributeOf(name)
  PROVE  LET b == Becoming(e, name, Told(name, v))
         IN /\ b \in AttributeOf(name)
            /\ name \in SubscribedValues => AsAsked(name, Parsed(name, b), Meant(e, name, v))
  <1> DEFINE asTold == Told(name, v)
             b == Becoming(e, name, asTold)
  <1>0. Unset \notin Nat BY ConsumerAssumption
  <1>1. CASE name = "status"
    <2> DEFINE old == attribute[e][name]
    <2>0. old \in BOOLEAN BY <1>1 DEF AttributeOf
    <2>1. asTold = CASE v = "on" -> "On" [] v = "toggle" -> "Toggle" [] OTHER -> "Off"
      BY <1>1 DEF Told
    <2>2. v = "on" \/ v = "off" \/ v = "toggle" BY <1>1 DEF Wanted
    <2>3. b = IF asTold = "Toggle" THEN ~old ELSE asTold = "On" BY <1>1 DEF Becoming
    <2>4. Meant(e, name, v) = IF v = "toggle" THEN IF old THEN "off" ELSE "on" ELSE v
      BY <1>1 DEF Meant
    <2>5. Parsed(name, b) = IF b THEN "on" ELSE "off" BY <1>1 DEF Parsed
    <2>6. AttributeOf(name) = BOOLEAN BY <1>1 DEF AttributeOf
    <2>7. AsAsked(name, Parsed(name, b), Meant(e, name, v)) <=> Parsed(name, b) = Meant(e, name, v)
      BY <1>1 DEF AsAsked
    <2>8. CASE v = "toggle"
      <3>1. asTold = "Toggle" BY <2>1, <2>8
      <3>2. b = ~old BY <2>3, <3>1
      <3>3. b \in BOOLEAN BY <3>2
      <3>4. Parsed(name, b) = Meant(e, name, v)
        <4>1. CASE old = TRUE
          <5>1. b = FALSE BY <3>2, <4>1
          <5> QED BY <2>4, <2>5, <2>8, <4>1, <5>1
        <4>2. CASE old = FALSE
          <5>1. b = TRUE BY <3>2, <4>2
          <5> QED BY <2>4, <2>5, <2>8, <4>2, <5>1
        <4> QED BY <2>0, <4>1, <4>2
      <3> QED BY <2>6, <2>7, <3>3, <3>4
    <2>9. CASE v = "on"
      <3>1. asTold = "On" BY <2>1, <2>9
      <3>2. b = TRUE BY <2>3, <3>1
      <3>3. Parsed(name, b) = Meant(e, name, v) BY <2>4, <2>5, <2>9, <3>2
      <3> QED BY <2>6, <2>7, <3>2, <3>3
    <2>10. CASE v = "off"
      <3>1. asTold = "Off" BY <2>1, <2>10
      <3>2. b = FALSE BY <2>3, <3>1
      <3>3. Parsed(name, b) = Meant(e, name, v) BY <2>4, <2>5, <2>10, <3>2
      <3> QED BY <2>6, <2>7, <3>2, <3>3
    <2> QED BY <2>2, <2>8, <2>9, <2>10
  <1>2. CASE name = "level"
    <2>1. v \in 0..255 BY <1>2, ConsumerAssumption DEF Wanted
    <2> DEFINE t == (v * 254) \div 255
    <2>2. asTold = t % 256 BY <1>2 DEF Told
    <2>3. t % 256 = t /\ t <= 254 /\ t \in Nat /\ Near((t * 255) \div 254, v) BY <2>1, LevelNear
    <2>4. b = IF asTold > 254 THEN 254 ELSE asTold BY <1>2 DEF Becoming
    <2> HIDE DEF t, b, asTold
    <2>5. b = t BY <2>2, <2>3, <2>4
    <2>6. Parsed(name, b) = (t * 255) \div 254
      <3>1. Parsed(name, b) = IF b > 254 THEN 255 ELSE (b * 255) \div 254 BY <1>2 DEF Parsed
      <3> QED BY <2>3, <2>5, <3>1
    <2>7. Meant(e, name, v) = v BY <1>2 DEF Meant
    <2>8. AsAsked(name, Parsed(name, b), v) <=> Near(Parsed(name, b), v) BY <1>2 DEF AsAsked
    <2>9. b \in AttributeOf(name) BY <1>2, <2>3, <2>5 DEF AttributeOf
    <2> QED BY <2>3, <2>6, <2>7, <2>8, <2>9 DEF b, asTold
  <1>3. CASE name = "lock"
    <2>1. v = "lock" \/ v = "unlock" BY <1>3 DEF Wanted
    <2>2. asTold = IF v = "lock" THEN 1 ELSE 2 BY <1>3 DEF Told
    <2>3. b = asTold BY <1>3 DEF Becoming
    <2>4. b \in Nat BY <2>2, <2>3
    <2>5. AttributeOf(name) = Nat BY <1>3 DEF AttributeOf
    <2>6. name \notin SubscribedValues BY <1>3, SubscribedAre
    <2> HIDE DEF b
    <2> QED BY <2>4, <2>5, <2>6 DEF b
  <1>4. CASE name = "position"
    <2>1. v \in {0, 50, 100} BY <1>4 DEF Wanted
    <2>2. asTold = v % 65536 BY <1>4 DEF Told
    <2>3. asTold = v BY <2>1, <2>2
    <2>4. b = IF asTold > 10000 THEN attribute[e][name] ELSE asTold BY <1>4 DEF Becoming
    <2>5. b = v BY <2>1, <2>3, <2>4
    <2>6. b \in AttributeOf(name) BY <1>4, <2>1, <2>5 DEF AttributeOf
    <2>7. name \notin SubscribedValues BY <1>4, SubscribedAre
    <2> HIDE DEF b
    <2> QED BY <2>6, <2>7 DEF b
  <1>5. CASE name = "powerOnStatus"
    <2>1. v = "off" \/ v = "on" \/ v = "toggle" \/ v = "previous" BY <1>5 DEF Wanted
    <2>2. asTold = CASE v = "off" -> 0 [] v = "on" -> 1 [] v = "toggle" -> 2 [] OTHER -> Unset
      BY <1>5 DEF Told
    <2>3. b = asTold BY <1>5 DEF Becoming
    <2>4. Parsed(name, b) = CASE b = 0 -> "off" [] b = 1 -> "on" [] b = 2 -> "toggle"
                              [] b = Unset -> "previous"
      BY <1>5 DEF Parsed
    <2>5. Meant(e, name, v) = v BY <1>5 DEF Meant
    <2>6. AsAsked(name, Parsed(name, b), v) <=> Parsed(name, b) = v BY <1>5 DEF AsAsked
    <2>7. b \in AttributeOf(name) BY <1>5, <2>1, <2>2, <2>3 DEF AttributeOf
    <2>8. Unset # 0 /\ Unset # 1 /\ Unset # 2 BY <1>0
    <2> HIDE DEF b, asTold
    <2>9. Parsed(name, b) = v BY <2>1, <2>2, <2>3, <2>4, <2>8
    <2> QED BY <2>5, <2>6, <2>7, <2>9 DEF b, asTold
  <1>6. CASE name = "colorTemperature"
    <2>1. v = 153 \/ v = 65535 BY <1>6 DEF Wanted
    <2>2. asTold = v % 65536 BY <1>6 DEF Told
    <2>3. asTold = v BY <2>1, <2>2
    <2>4. b = asTold BY <1>6 DEF Becoming
    <2>5. Parsed(name, b) = b BY <1>6 DEF Parsed
    <2>6. Meant(e, name, v) = v BY <1>6 DEF Meant
    <2>7. AsAsked(name, Parsed(name, b), v) <=> Parsed(name, b) = v BY <1>6 DEF AsAsked
    <2>8. b \in AttributeOf(name) BY <1>6, <2>1, <2>3, <2>4 DEF AttributeOf
    <2> HIDE DEF b, asTold
    <2> QED BY <2>3, <2>4, <2>5, <2>6, <2>7, <2>8 DEF b, asTold
  <1> QED BY <1>1, <1>2, <1>3, <1>4, <1>5, <1>6 DEF AttributeNames, Names

-----------------------------------------------------------------------------
(* The events of a gesture are those from which what it means will be made.  *)
EventShows(e, v, m) ==
  /\ v \in [type : EventTypes, presses : Nat]
  /\ EventRight(e, v)
  /\ m \in ActionsShown
  /\ Shows(Report(e, "event", v), m)
MeansIt(e, events, ms) ==
  /\ Len(events) = Len(ms)
  /\ events \in Seq([type : EventTypes, presses : Nat]) /\ ms \in Seq(ActionsShown)
  /\ \A i \in 1..Len(ms) : EventShows(e, events[i], ms[i])

(* Sequences of nothing and of one thing, put together.                     *)
LEMMA Shortly ==
  ASSUME NEW a, NEW b
  PROVE  /\ <<>> \o <<>> = <<>> /\ <<>> \o <<a>> = <<a>> /\ <<a>> \o <<>> = <<a>>
         /\ <<a>> \o <<b>> = <<a, b>>
  <1>1. <<a>> \in Seq({a, b}) /\ <<b>> \in Seq({a, b}) /\ <<>> \in Seq({a, b}) OBVIOUS
  <1>2. <<>> \o <<>> = <<>> OBVIOUS
  <1>3. <<>> \o <<a>> = <<a>> BY <1>1
  <1>4. <<a>> \o <<>> = <<a>> BY <1>1
  <1>5. <<a>> \o <<b>> = Append(<<a>>, b) BY <1>1
  <1>6. Append(<<a>>, b) = <<a, b>>
    <2> DEFINE s == Append(<<a>>, b)
               t == <<a, b>>
    <2>1. s \in Seq({a, b}) /\ Len(s) = 2 /\ s[1] = a /\ s[2] = b BY <1>1
    <2>2. <<a, b>> \in Seq({a, b}) /\ Len(<<a, b>>) = 2 OBVIOUS
    <2>3. \A i \in 1..2 : i = 1 \/ i = 2 OBVIOUS
    <2>4. \A i \in 1..Len(s) : s[i] = t[i] BY <2>1, <2>3
    <2>5. t \in Seq({a, b}) /\ Len(t) = Len(s) BY <2>1, <2>2
    <2> HIDE DEF s, t
    <2>6. s = t BY <2>1, <2>4, <2>5, SeqEqual
    <2> QED BY <2>6 DEF s, t
  <1> QED BY <1>2, <1>3, <1>4, <1>5, <1>6

(* A gesture of one event that means one action.                             *)
LEMMA MatchesOne ==
  ASSUME NEW e, NEW v, NEW m, EventShows(e, v, m)
  PROVE  MeansIt(e, <<v>>, <<m>>)
  <1>1. Len(<<v>>) = 1 /\ Len(<<m>>) = 1 /\ <<v>>[1] = v /\ <<m>>[1] = m OBVIOUS
  <1>2. v \in [type : EventTypes, presses : Nat] /\ m \in ActionsShown BY DEF EventShows
  <1>3. <<v>> \in Seq([type : EventTypes, presses : Nat]) /\ <<m>> \in Seq(ActionsShown)
    BY <1>2
  <1>4. \A i \in 1..Len(<<m>>) : EventShows(e, <<v>>[i], <<m>>[i]) BY <1>1
  <1> QED BY <1>1, <1>3, <1>4 DEF MeansIt

(* A gesture of two events that means two.                                   *)
LEMMA MatchesTwo ==
  ASSUME NEW e, NEW v, NEW m, EventShows(e, v, m), NEW w, NEW n, EventShows(e, w, n)
  PROVE  MeansIt(e, <<v, w>>, <<m, n>>)
  <1>1. /\ Len(<<v, w>>) = 2 /\ Len(<<m, n>>) = 2 /\ <<v, w>>[1] = v /\ <<m, n>>[1] = m
        /\ <<v, w>>[2] = w /\ <<m, n>>[2] = n OBVIOUS
  <1>2. /\ {v, w} \subseteq [type : EventTypes, presses : Nat] /\ {m, n} \subseteq ActionsShown
    BY DEF EventShows
  <1>3. <<v, w>> \in Seq([type : EventTypes, presses : Nat]) /\ <<m, n>> \in Seq(ActionsShown)
    BY <1>2
  <1>4. \A i \in 1..Len(<<m, n>>) : EventShows(e, <<v, w>>[i], <<m, n>>[i])
    <2>1. \A i \in 1..2 : i = 1 \/ i = 2 OBVIOUS
    <2> QED BY <1>1, <2>1
  <1> QED BY <1>1, <1>3, <1>4 DEF MeansIt

(* The event of a switch is shown as the action it makes, which is offered.  *)
LEMMA EventIsShown ==
  ASSUME NEW e \in Endpoints, NEW t \in EventTypes, NEW n \in Nat, NEW a \in Words,
         ActionOf(kind[e], [type |-> t, presses |-> n], Unset) = a, a \in Offered(kind[e]),
         NEW c \in Nat \cup {Unset},
         c # Unset => Encoder(kind[e]) /\ t = "MultiPressComplete" /\ n > 0 /\ c = n
  PROVE  EventShows(e, [type |-> t, presses |-> n], [endpoint |-> e, action |-> a, count |-> c])
  <1> DEFINE v == [type |-> t, presses |-> n]
             m == [endpoint |-> e, action |-> a, count |-> c]
             r == Report(e, "event", v)
  <1>1. v \in [type : EventTypes, presses : Nat] /\ v.type = t /\ v.presses = n OBVIOUS
  <1>2. m \in ActionsShown /\ m.endpoint = e /\ m.action = a /\ m.count = c BY DEF ActionsShown
  <1>3. r.endpoint = e /\ r.value = v BY DEF Report
  <1> HIDE DEF v, m, r
  <1>4. \A d \in Nat \cup {Unset} :
          CountOf(kind[e], v, d) = IF Encoder(kind[e]) /\ t = "MultiPressComplete" /\ n > 0
                                   THEN n ELSE d
    BY <1>1 DEF CountOf
  <1>5. \A d \in Nat \cup {Unset} : CountOf(kind[e], v, d) \in Nat \cup {Unset} BY <1>4
  <1>6. c # Unset => \A d \in Nat \cup {Unset} : CountOf(kind[e], v, d) = c BY <1>4
  <1>7. ActionOf(kind[e], v, Unset) = a BY DEF v
  <1>8. EventRight(e, v) BY <1>5, <1>7 DEF EventRight
  <1>9. Shows(r, m) BY <1>2, <1>3, <1>6, <1>7 DEF Shows
  <1> QED BY <1>1, <1>2, <1>8, <1>9 DEF EventShows, v, m, r

(* The events subscribed to of a gesture make the actions it means.          *)
LEMMA GestureMatches ==
  ASSUME NEW e \in Endpoints, kind[e].presses \in Nat, NEW g \in Gestures(kind[e])
  PROVE  MeansIt(e, Events(kind[e], g), Meaning([endpoint |-> e, gesture |-> g]))
  <1> DEFINE k == kind[e]
             n == g.presses
             v(type) == [type |-> type, presses |-> n]
             one(action, count) == [endpoint |-> e, action |-> action, count |-> count]
             sent(type) == IF type \in Subscribed(k) THEN <<v(type)>> ELSE <<>>
             events == Events(k, g)
             ms == Meaning([endpoint |-> e, gesture |-> g])
  <1>0. k.presses \in Nat OBVIOUS
  <1>1. /\ ("SwitchLatched" \in Subscribed(k) <=> "LS" \in k.features)
        /\ ("InitialPress" \in Subscribed(k) <=> Encoder(k))
        /\ ("ShortRelease" \in Subscribed(k) <=> "MSR" \in k.features /\ "MSM" \notin k.features)
        /\ ("LongPress" \in Subscribed(k) <=> "MSL" \in k.features)
        /\ ("LongRelease" \in Subscribed(k) <=> "MSL" \in k.features)
        /\ ("MultiPressComplete" \in Subscribed(k) <=> "MSM" \in k.features)
    BY DEF Subscribed
  <1>2. Encoder(k) => "MSM" \in k.features /\ "MSL" \notin k.features BY DEF Encoder
  <1>3. \/ "LS" \in k.features /\ g = [type |-> "latch", presses |-> 0]
        \/ "MSL" \in k.features /\ g = [type |-> "long", presses |-> 0]
        \/ \E i \in 1..(IF k.presses = 0 THEN 1 ELSE k.presses) : g = [type |-> "press", presses |-> i]
    BY DEF Gestures
  <1>4. events = CASE g.type = "latch" -> sent("SwitchLatched")
                   [] g.type = "long" -> sent("InitialPress") \o sent("LongPress") \o sent("LongRelease")
                   [] OTHER -> sent("InitialPress") \o sent("ShortRelease") \o sent("MultiPressComplete")
    BY DEF Events
  <1>5. ms = CASE g.type = "latch" -> <<one("latched", Unset)>>
       [] g.type = "long" -> <<one("hold", Unset), one("release", Unset)>>
       [] g.type = "press" /\ Encoder(k) -> <<one("start", Unset), one("stop", n)>>
       [] g.type = "press" /\ ~Encoder(k) /\ "MSM" \in k.features -> <<one(Click(n), Unset)>>
       [] OTHER -> IF "MSR" \in k.features THEN <<one("singleClick", Unset)>> ELSE <<>>
    BY DEF Meaning
  <1>6. {"SwitchLatched", "InitialPress", "ShortRelease", "LongPress", "LongRelease",
         "MultiPressComplete"} \subseteq EventTypes
    BY DEF EventTypes
  <1>7. {"latched", "start", "stop", "hold", "release", "singleClick"} \subseteq Words
    BY DEF Words
  <1>8. \A i \in Nat : Click(i) \in Words BY DEF Click, Words
  <1> HIDE DEF k, events, ms
  <1>9. CASE "LS" \in k.features /\ g = [type |-> "latch", presses |-> 0]
    <2>1. g.type = "latch" /\ n = 0 BY <1>9
    <2>2. events = <<v("SwitchLatched")>> BY <1>1, <1>4, <1>9, <2>1
    <2>3. ms = <<one("latched", Unset)>> BY <1>5, <2>1
    <2>4. ActionOf(k, v("SwitchLatched"), Unset) = "latched" BY DEF ActionOf
    <2>5. "latched" \in Offered(k) BY <1>9 DEF Offered
    <2>6. EventShows(e, v("SwitchLatched"), one("latched", Unset))
      <3> HIDE DEF n
      <3> QED BY <1>6, <1>7, <2>1, <2>4, <2>5, EventIsShown DEF k
    <2> HIDE DEF v, one
    <2> QED BY <2>2, <2>3, <2>6, MatchesOne DEF events, ms, k
  <1>10. CASE "MSL" \in k.features /\ g = [type |-> "long", presses |-> 0]
    <2>1. g.type = "long" /\ n = 0 BY <1>10
    <2>2. events = <<v("LongPress"), v("LongRelease")>>
      <3>1. events = sent("InitialPress") \o sent("LongPress") \o sent("LongRelease")
        BY <1>4, <2>1
      <3>2. sent("InitialPress") = <<>> /\ sent("LongPress") = <<v("LongPress")>>
            /\ sent("LongRelease") = <<v("LongRelease")>>
        BY <1>1, <1>2, <1>10
      <3> HIDE DEF sent, v
      <3> QED BY <3>1, <3>2, Shortly
    <2>3. ms = <<one("hold", Unset), one("release", Unset)>> BY <1>5, <2>1
    <2>4. ActionOf(k, v("LongPress"), Unset) = "hold" /\ ActionOf(k, v("LongRelease"), Unset) = "release"
      BY DEF ActionOf
    <2>5. "hold" \in Offered(k) /\ "release" \in Offered(k) BY <1>10 DEF Offered
    <2>6. EventShows(e, v("LongPress"), one("hold", Unset))
      <3> HIDE DEF n
      <3> QED BY <1>6, <1>7, <2>1, <2>4, <2>5, EventIsShown DEF k
    <2>7. EventShows(e, v("LongRelease"), one("release", Unset))
      <3> HIDE DEF n
      <3> QED BY <1>6, <1>7, <2>1, <2>4, <2>5, EventIsShown DEF k
    <2> HIDE DEF v, one
    <2> QED BY <2>2, <2>3, <2>6, <2>7, MatchesTwo DEF events, ms, k
  <1>11. CASE \E i \in 1..(IF k.presses = 0 THEN 1 ELSE k.presses) : g = [type |-> "press", presses |-> i]
    <2>0. k.presses \in Nat BY <1>0 DEF k
    <2>1. /\ g.type = "press" /\ n \in Nat /\ n > 0
          /\ n \in 1..(IF k.presses = 0 THEN 1 ELSE k.presses)
      BY <1>11, <2>0
    <2>2. events = sent("InitialPress") \o sent("ShortRelease") \o sent("MultiPressComplete")
      BY <1>4, <2>1
    <2>3. CASE Encoder(k)
      <3>1. "MSM" \in k.features BY <1>2, <2>3
      <3>2. sent("InitialPress") = <<v("InitialPress")>> /\ sent("ShortRelease") = <<>>
            /\ sent("MultiPressComplete") = <<v("MultiPressComplete")>>
        BY <1>1, <2>3, <3>1
      <3>3. events = <<v("InitialPress"), v("MultiPressComplete")>>
        <4> HIDE DEF sent, v
        <4> QED BY <2>2, <3>2, Shortly
      <3>4. ms = <<one("start", Unset), one("stop", n)>> BY <1>5, <2>1, <2>3
      <3>5. ActionOf(k, v("InitialPress"), Unset) = "start"
            /\ ActionOf(k, v("MultiPressComplete"), Unset) = "stop"
        BY <2>3 DEF ActionOf
      <3>6. "start" \in Offered(k) /\ "stop" \in Offered(k) BY <2>3 DEF Offered
      <3>7. EventShows(e, v("InitialPress"), one("start", Unset))
        <4> HIDE DEF n
        <4> QED BY <1>6, <1>7, <2>1, <3>5, <3>6, EventIsShown DEF k
      <3>8. EventShows(e, v("MultiPressComplete"), one("stop", n))
        <4> HIDE DEF n
        <4> QED BY <1>6, <1>7, <2>1, <2>3, <3>5, <3>6, EventIsShown DEF k
      <3> HIDE DEF v, one
      <3> QED BY <3>3, <3>4, <3>7, <3>8, MatchesTwo DEF events, ms, k
    <2>4. CASE ~Encoder(k) /\ "MSM" \in k.features
      <3>2. sent("InitialPress") = <<>> /\ sent("ShortRelease") = <<>>
            /\ sent("MultiPressComplete") = <<v("MultiPressComplete")>>
        BY <1>1, <2>4
      <3>3. events = <<v("MultiPressComplete")>>
        <4> HIDE DEF sent, v
        <4> QED BY <2>2, <3>2, Shortly
      <3>4. ms = <<one(Click(n), Unset)>> BY <1>5, <2>1, <2>4
      <3>5. ActionOf(k, v("MultiPressComplete"), Unset) = Click(n)
        <4> HIDE DEF n
        <4> QED BY <2>1, <2>4 DEF ActionOf
      <3>6. Click(n) \in Offered(k) BY <2>1, <2>4 DEF Offered
      <3>7. Click(n) \in Words BY <1>8, <2>1
      <3>8. EventShows(e, v("MultiPressComplete"), one(Click(n), Unset))
        <4> HIDE DEF n
        <4> QED BY <1>6, <2>1, <3>5, <3>6, <3>7, EventIsShown DEF k
      <3> HIDE DEF v, one
      <3> QED BY <3>3, <3>4, <3>8, MatchesOne DEF events, ms, k
    <2>5. CASE ~Encoder(k) /\ "MSM" \notin k.features /\ "MSR" \in k.features
      <3>2. sent("InitialPress") = <<>> /\ sent("ShortRelease") = <<v("ShortRelease")>>
            /\ sent("MultiPressComplete") = <<>>
        BY <1>1, <2>5
      <3>3. events = <<v("ShortRelease")>>
        <4> HIDE DEF sent, v
        <4> QED BY <2>2, <3>2, Shortly
      <3>4. ms = <<one("singleClick", Unset)>> BY <1>5, <2>1, <2>5
      <3>5. ActionOf(k, v("ShortRelease"), Unset) = "singleClick"
        <4> HIDE DEF n
        <4> QED BY <2>5 DEF ActionOf
      <3>6. "singleClick" \in Offered(k) BY <2>5 DEF Offered
      <3>8. EventShows(e, v("ShortRelease"), one("singleClick", Unset))
        <4> HIDE DEF n
        <4> QED BY <1>6, <1>7, <2>1, <3>5, <3>6, EventIsShown DEF k
      <3> HIDE DEF v, one
      <3> QED BY <3>3, <3>4, <3>8, MatchesOne DEF events, ms, k
    <2>6. CASE ~Encoder(k) /\ "MSM" \notin k.features /\ "MSR" \notin k.features
      <3>2. sent("InitialPress") = <<>> /\ sent("ShortRelease") = <<>>
            /\ sent("MultiPressComplete") = <<>>
        BY <1>1, <2>6
      <3>3. events = <<>>
        <4> HIDE DEF sent
        <4> QED BY <2>2, <3>2, Shortly
      <3>4. ms = <<>> BY <1>5, <2>1, <2>6
      <3>5. MeansIt(e, <<>>, <<>>) BY DEF MeansIt
      <3> QED BY <3>3, <3>4, <3>5 DEF events, ms, k
    <2> QED BY <2>3, <2>4, <2>5, <2>6
  <1> QED BY <1>3, <1>9, <1>10, <1>11 DEF k

-----------------------------------------------------------------------------
(* FlattenSeq, one sequence after another.                                   *)
Flat(f, s) == f[1] = s[1] /\ \A i \in 2..Len(s) : f[i] = f[i - 1] \o s[i]

(* What FlattenSeq does, one sequence after the other.                       *)
LEMMA FlattenStepByStep ==
  ASSUME NEW M, NEW s \in Seq(Seq(M)), Len(s) # 0
  PROVE  \E f \in [1..Len(s) -> Seq(M)] : Flat(f, s) /\ FlattenSeq(s) = f[Len(s)]
  <1> DEFINE V == Seq(M)
             N == Len(s)
             Is(f) == f = [i \in 1..Len(s) |-> IF i = 1 THEN s[i] ELSE f[i - 1] \o s[i]]
             Then(p, i) == IF i = 1 THEN s[i] ELSE p \o s[i]
             G == [q \in V \X (1..N) |-> Then(q[1], q[2])]
  <1>1. N \in Nat \ {0} /\ \A i \in 1..N : s[i] \in V OBVIOUS
  <1>2. ASSUME NEW p \in V, NEW i \in 1..N PROVE Then(p, i) \in V
    <2>1. s[i] \in V BY <1>1
    <2>2. p \o s[i] \in V BY <2>1
    <2> QED BY <2>1, <2>2
  <1>3. G \in [V \X (1..N) -> V]
    <2>1. ASSUME NEW q \in V \X (1..N) PROVE Then(q[1], q[2]) \in V
      <3>1. q[1] \in V /\ q[2] \in 1..N OBVIOUS
      <3> HIDE DEF V, Then, N
      <3> QED BY <1>2, <3>1
    <2> HIDE DEF V, Then
    <2> QED BY <2>1
  <1>4. <<>> \in V OBVIOUS
  <1>5. PICK h \in [0..N -> V] : Built(h, <<>>, N, G)
    <2> HIDE DEF V, G, N
    <2> QED BY <1>1, <1>3, <1>4, StepByStep
  <1> DEFINE f == [i \in 1..N |-> h[i]]
  <1>6. ASSUME NEW i \in 1..N PROVE h[i] = Then(h[i - 1], i)
    <2>0. i - 1 \in 0..N BY <1>1
    <2>1. h[i - 1] \in V
      <3> HIDE DEF V, N
      <3> QED BY <1>5, <2>0
    <2>2. G[<<h[i - 1], i>>] = Then(h[i - 1], i)
      <3> HIDE DEF V, Then
      <3> QED BY <2>1
    <2> HIDE DEF V, Then, G, N
    <2> QED BY <1>5, <2>2 DEF Built
  <1>7. Is(f)
    <2>1. ASSUME NEW i \in 1..N PROVE f[i] = IF i = 1 THEN s[i] ELSE f[i - 1] \o s[i]
      <3>1. f[i] = Then(h[i - 1], i) BY <1>6
      <3>2. CASE i = 1 BY <3>1, <3>2
      <3>3. CASE i # 1
        <4>1. i - 1 \in 1..N BY <1>1, <3>3
        <4>2. f[i - 1] = h[i - 1] BY <4>1
        <4> HIDE DEF f
        <4> QED BY <3>1, <3>3, <4>2
      <3> QED BY <3>2, <3>3
    <2>2. f = [i \in 1..N |-> f[i]] OBVIOUS
    <2> HIDE DEF f
    <2> QED BY <2>1, <2>2
  <1> DEFINE g == CHOOSE x : Is(x)
  <1>8. Is(g)
    <2> HIDE DEF Is, f
    <2> QED BY <1>7
  <1>9. FlattenSeq(s) = g[N] BY <1>1 DEF FlattenSeq
  <1> HIDE DEF g
  <1>10. \A i \in 1..N : g[i] = IF i = 1 THEN s[i] ELSE g[i - 1] \o s[i] BY <1>8
  <1>11. Flat(g, s)
    <2>1. g[1] = s[1] BY <1>1, <1>10
    <2>2. ASSUME NEW i \in 2..N PROVE g[i] = g[i - 1] \o s[i]
      <3>1. i \in 1..N /\ i # 1 BY <1>1
      <3> QED BY <1>10, <3>1
    <2> QED BY <2>1, <2>2 DEF Flat
  <1>12. g \in [1..N -> V]
    <2> DEFINE S == {i \in Nat : i + 1 <= N => g[i + 1] \in V}
    <2>1. 0 \in S BY SMTT(20), <1>1, <1>10
    <2>2. ASSUME NEW i \in Nat, i \in S PROVE i + 1 \in S
      <3> SUFFICES ASSUME (i + 1) + 1 <= N PROVE g[(i + 1) + 1] \in V OBVIOUS
      <3>1. i + 1 \in 1..N /\ (i + 1) + 1 \in 1..N /\ (i + 1) + 1 # 1
            /\ ((i + 1) + 1) - 1 = i + 1 BY <1>1
      <3>2. g[i + 1] \in V BY <1>1, <2>2, <3>1
      <3>3. g[(i + 1) + 1] = g[i + 1] \o s[(i + 1) + 1] BY <1>10, <3>1
      <3>4. s[(i + 1) + 1] \in V BY <1>1, <3>1
      <3>5. \A a \in Seq(M), b \in Seq(M) : a \o b \in Seq(M) OBVIOUS
      <3> QED BY <3>2, <3>3, <3>4, <3>5
    <2>3. \A i \in Nat : i \in S
      <3> HIDE DEF S
      <3> QED BY <2>1, <2>2, EveryNumber
    <2>4. ASSUME NEW i \in 1..N PROVE g[i] \in V
      <3>1. i - 1 \in Nat /\ (i - 1) + 1 = i BY <1>1
      <3>2. i - 1 \in S BY <2>3, <3>1
      <3> HIDE DEF V
      <3> QED BY <1>1, <3>1, <3>2
    <2>5. g = [i \in 1..N |-> g[i]] BY <1>8
    <2> HIDE DEF V, N
    <2> QED BY <2>4, <2>5
  <1> QED BY <1>9, <1>11, <1>12

(* Of one more sequence the rest stays, and that comes after it.             *)
LEMMA FlattenMore ==
  ASSUME NEW M, NEW s \in Seq(Seq(M)), NEW x \in Seq(M)
  PROVE  FlattenSeq(s) \in Seq(M) /\ FlattenSeq(Append(s, x)) = FlattenSeq(s) \o x
  <1> DEFINE t == Append(s, x)
             N == Len(s)
  <1>1. /\ N \in Nat /\ t \in Seq(Seq(M)) /\ Len(t) = N + 1 /\ t[N + 1] = x
        /\ \A i \in 1..N : t[i] = s[i]
    OBVIOUS
  <1>2. PICK g \in [1..Len(t) -> Seq(M)] : Flat(g, t) /\ FlattenSeq(t) = g[Len(t)]
    <2>1. Len(t) # 0 /\ t \in Seq(Seq(M)) BY <1>1
    <2> HIDE DEF t, N
    <2> QED BY <2>1, FlattenStepByStep
  <1>3. CASE N = 0
    <2>1. FlattenSeq(s) = s BY <1>3 DEF FlattenSeq
    <2>2. s = <<>> BY <1>3
    <2>3. FlattenSeq(t) = x
      <3> HIDE DEF t, N
      <3> QED BY <1>1, <1>2, <1>3 DEF Flat
    <2>4. <<>> \o x = x /\ <<>> \in Seq(M) OBVIOUS
    <2> HIDE DEF t
    <2> QED BY <2>1, <2>2, <2>3, <2>4 DEF t
  <1>4. CASE N # 0
    <2>1. PICK f \in [1..N -> Seq(M)] : Flat(f, s) /\ FlattenSeq(s) = f[N]
      BY <1>4, FlattenStepByStep
    <2>2. \A i \in 1..N : g[i] = f[i]
      <3> DEFINE S == {i \in Nat : i + 1 <= N => g[i + 1] = f[i + 1]}
      <3> HIDE DEF t, N
      <3>1. 0 \in S
        <4>1. g[1] = t[1] /\ f[1] = s[1] BY <1>2, <2>1 DEF Flat
        <4>2. 1 \in 1..N BY <1>1, <1>4
        <4> QED BY <1>1, <4>1, <4>2
      <3>2. ASSUME NEW i \in Nat, i \in S PROVE i + 1 \in S
        <4> SUFFICES ASSUME (i + 1) + 1 <= N PROVE g[(i + 1) + 1] = f[(i + 1) + 1] OBVIOUS
        <4> DEFINE j == (i + 1) + 1
        <4>1. j \in 2..N /\ j \in 1..N /\ j \in 2..Len(t) /\ j - 1 = i + 1 /\ i + 1 <= N BY <1>1
        <4>2. g[i + 1] = f[i + 1] BY <3>2, <4>1
        <4>3. g[j] = g[j - 1] \o t[j] BY <1>2, <4>1 DEF Flat
        <4>4. f[j] = f[j - 1] \o s[j] BY <2>1, <4>1 DEF Flat, N
        <4>5. t[j] = s[j] BY <1>1, <4>1
        <4> HIDE DEF j
        <4>6. g[j] = f[j] BY <4>1, <4>2, <4>3, <4>4, <4>5
        <4> QED BY <4>6 DEF j
      <3>3. \A i \in Nat : i \in S
        <4> HIDE DEF S
        <4> QED BY <3>1, <3>2, EveryNumber
      <3>4. ASSUME NEW i \in 1..N PROVE g[i] = f[i]
        <4>1. i - 1 \in Nat /\ (i - 1) + 1 = i BY <1>1
        <4>2. i - 1 \in S BY <3>3, <4>1
        <4> QED BY <1>1, <4>1, <4>2
      <3> QED BY <3>4
    <2>3. g[N + 1] = g[N] \o t[N + 1]
      <3>1. N + 1 \in 2..Len(t) /\ (N + 1) - 1 = N BY <1>1, <1>4
      <3> HIDE DEF t, N
      <3> QED BY <1>2, <3>1 DEF Flat
    <2>4. N \in 1..N BY <1>1, <1>4
    <2>5. FlattenSeq(t) = FlattenSeq(s) \o x
      <3> HIDE DEF t, N
      <3> QED BY <1>1, <1>2, <2>1, <2>2, <2>3, <2>4
    <2>6. FlattenSeq(s) \in Seq(M)
      <3> HIDE DEF N
      <3> QED BY <2>1, <2>4
    <2> QED BY <2>5, <2>6
  <1> QED BY <1>3, <1>4

-----------------------------------------------------------------------------
(* The types of the variables.                                               *)
Asks == {Unset} \cup UNION {Wanted(name) : name \in AttributeNames}
CommandRight(c) ==
  /\ c.endpoint \in Endpoints /\ c.name \in AttributeNames
  /\ c.value \in Wanted(c.name) /\ c.told = Told(c.name, c.value)
Commands == [endpoint : Endpoints, name : AttributeNames, told : {Told(name, v) : name \in AttributeNames, v \in Asks},
             value : Asks]
GesturesMade == [endpoint : Endpoints,
                 gesture : [type : {"latch", "long", "press"}, presses : Nat]]
MeaningOf == [i \in DOMAIN gestures |-> Meaning(gestures[i])]
MeantActions == FlattenSeq(MeaningOf)

ConsumerTypeOK ==
  /\ kind \in Arrangements
  /\ attribute \in [Endpoints -> [Names -> Nat \cup BOOLEAN \cup {Unset}]]
  /\ \A e \in Endpoints, name \in AttributeNames : attribute[e][name] \in AttributeOf(name)
  /\ asked \in [Endpoints -> [Names -> Asks]]
  /\ commands \in Seq(Commands) /\ \A i \in 1..Len(commands) : CommandRight(commands[i])
  /\ AllRight(reports)
  /\ gestures \in Seq(GesturesMade)
  /\ MeaningOf \in Seq(Seq(ActionsShown))

(* What is asked for will be shown, if it is subscribed to: the last report of *)
(* an attribute tells what it is, that is what it was meant to be, and without *)
(* a report it is shown.                                                     *)
ComingOf(e, name, some, have, shown, wish) ==
  /\ \A i \in 1..Len(some) : LastOf(some, Len(some), i, e, name) => some[i].value = have
  /\ wish # Unset =>
       /\ (\A i \in 1..Len(some) : ~Of(some, i, e, name)) => shown = Parsed(name, have)
       /\ AsAsked(name, Parsed(name, have), wish)
ValuesComing ==
  /\ \A e \in Endpoints : asked[e]["action"] = Unset /\ asked[e]["count"] = Unset
  /\ \A e \in Endpoints, name \in SubscribedValues :
       ComingOf(e, name, reports, attribute[e][name], latest[e][name], asked[e][name])

(* The actions that are meant are those shown and then, one for each event   *)
(* that is reported, those to come.                                          *)
StillComing(c, some, shown, meant) ==
  /\ c \in [0..Len(some) -> 0..Len(meant)]
  /\ c[0] = Len(shown) /\ c[Len(some)] = Len(meant)
  /\ \A i \in 1..Len(some) : Counts(c, some, meant, i)
GesturesComing ==
  /\ Right(actions, MeantActions)
  /\ \E c : StillComing(c, reports, actions, MeantActions)

(* The inductive invariant.                                                  *)
ConsumerInv == ConsumerTypeOK /\ Settled(Now) /\ ValuesComing /\ GesturesComing

(* UserRight is what it says once all is quiet.                              *)
LEMMA InvShowsUserRight == ConsumerInv => UserRight
  <1> SUFFICES ASSUME ConsumerInv PROVE UserRight OBVIOUS
  <1> DEFINE meant == MeantActions
  <1>1. PICK c : StillComing(c, reports, actions, meant) BY DEF ConsumerInv, GesturesComing
  <1>2. Right(actions, meant) BY DEF ConsumerInv, GesturesComing
  <1>3. Len(reports) \in Nat /\ reports \in Seq(Reports)
    BY DEF ConsumerInv, ConsumerTypeOK, AllRight
  <1>4. meant \in Seq(ActionsShown)
    <2>1. MeaningOf \in Seq(Seq(ActionsShown)) BY DEF ConsumerInv, ConsumerTypeOK
    <2>2. <<>> \in Seq(ActionsShown) OBVIOUS
    <2> QED BY <2>1, <2>2, FlattenMore DEF MeantActions
  <1>5. Len(actions) <= Len(meant)
    <2>1. c[0] = Len(actions) /\ c[0] \in 0..Len(meant) BY <1>1, <1>3 DEF StillComing
    <2> HIDE DEF meant
    <2> QED BY <1>4, <2>1
  <1>6. ASSUME reports = <<>> PROVE Len(actions) = Len(meant)
    <2>1. Len(reports) = 0 BY <1>6
    <2> HIDE DEF meant
    <2> QED BY <1>1, <2>1 DEF StillComing
  <1>7. GesturesShown
    <2>1. meant = FlattenSeq([i \in DOMAIN gestures |-> Meaning(gestures[i])])
      BY DEF MeantActions, MeaningOf
    <2>2. \A i \in DOMAIN actions : SameAction(actions[i], meant[i])
            /\ actions[i].action \in Offered(kind[actions[i].endpoint])
      <3>1. actions \in Seq(ActionsShown) BY DEF ConsumerInv, Settled, States, Now
      <3>2. DOMAIN actions = 1..Len(actions) BY <3>1
      <3> QED BY <1>2, <3>2 DEF Right
    <2> HIDE DEF meant
    <2> QED BY <1>5, <1>6, <2>1, <2>2 DEF GesturesShown
  <1>8. ValuesShown
    <2> SUFFICES ASSUME Quiet, NEW e \in Endpoints, NEW name \in SubscribedValues,
                        asked[e][name] # Unset
                 PROVE  AsAsked(name, latest[e][name], asked[e][name])
      BY DEF ValuesShown
    <2>1. ComingOf(e, name, reports, attribute[e][name], latest[e][name], asked[e][name])
      BY DEF ConsumerInv, ValuesComing
    <2>2. 1..Len(reports) = {} BY DEF Quiet
    <2> QED BY <2>1, <2>2 DEF ComingOf
  <1> QED BY <1>7, <1>8 DEF UserRight

-----------------------------------------------------------------------------
(* At the start nothing is asked for, nothing shown and nothing on its way.  *)
LEMMA ConsumerStarts == ConsumerInit => ConsumerInv
  <1> SUFFICES ASSUME ConsumerInit PROVE ConsumerInv OBVIOUS
  <1>1. /\ kind \in Arrangements /\ actions = <<>> /\ commands = <<>> /\ reports = <<>>
        /\ gestures = <<>> /\ latest = value /\ asked = value
        /\ value = [e \in Endpoints |-> [name \in Names |-> Unset]]
        /\ attribute = [e \in Endpoints |-> [name \in Names |-> FirstValue(name)]]
    BY DEF ConsumerInit
  <1>2. \A name \in Names : FirstValue(name) \in Nat \cup BOOLEAN \cup {Unset}
    BY DEF FirstValue
  <1>3. \A name \in AttributeNames : FirstValue(name) \in AttributeOf(name)
    <2> SUFFICES ASSUME NEW name \in AttributeNames PROVE FirstValue(name) \in AttributeOf(name)
      OBVIOUS
    <2>1. CASE name = "status"
      <3>1. FirstValue(name) = FALSE BY <2>1 DEF FirstValue
      <3>2. AttributeOf(name) = BOOLEAN BY <2>1 DEF AttributeOf
      <3> QED BY <3>1, <3>2
    <2>2. CASE name = "powerOnStatus" BY <2>2 DEF FirstValue, AttributeOf
    <2>3. CASE name # "status" /\ name # "powerOnStatus" BY <2>3 DEF FirstValue, AttributeOf
    <2> QED BY <2>1, <2>2, <2>3
  <1>4. \A name \in AttributeNames : name \in Names BY DEF AttributeNames
  <1>5. MeaningOf = <<>> /\ MeantActions = <<>>
    <2>1. MeaningOf = <<>> BY <1>1 DEF MeaningOf
    <2>2. Len(<<>>) = 0 OBVIOUS
    <2> QED BY <2>1, <2>2, Zenon DEF MeantActions, FlattenSeq
  <1>6. ConsumerTypeOK
    <2>1. attribute \in [Endpoints -> [Names -> Nat \cup BOOLEAN \cup {Unset}]] BY <1>1, <1>2
    <2>2. \A e \in Endpoints, name \in AttributeNames : attribute[e][name] \in AttributeOf(name)
      BY <1>1, <1>3, <1>4
    <2>3. asked \in [Endpoints -> [Names -> Asks]]
      <3>1. Unset \in Asks BY Zenon DEF Asks
      <3> QED BY <1>1, <3>1
    <2>4. commands \in Seq(Commands) /\ \A i \in 1..Len(commands) : CommandRight(commands[i])
      BY <1>1
    <2>5. AllRight(reports) BY <1>1 DEF AllRight
    <2>6. gestures \in Seq(GesturesMade) BY <1>1
    <2>7. MeaningOf \in Seq(Seq(ActionsShown)) BY <1>5
    <2> QED BY <1>1, <2>1, <2>2, <2>3, <2>4, <2>5, <2>6, <2>7 DEF ConsumerTypeOK
  <1>7. "action" \in Names /\ "count" \in Names BY DEF Names
  <1>8. Settled(Now)
    <2>1. value \in Table /\ latest \in Table BY <1>1 DEF Table, Values
    <2>2. actions \in Seq(ActionsShown) BY <1>1
    <2>3. Now.value = value /\ Now.latest = latest /\ Now \in States BY <2>1, <2>2 DEF Now, States
    <2>4. \A x \in Endpoints : SettledAt(Now, x) BY <1>1, <1>7, <2>3 DEF SettledAt
    <2> QED BY <2>3, <2>4 DEF Settled
  <1>9. ValuesComing
    <2>1. 1..Len(reports) = {} BY <1>1
    <2>2. \A e \in Endpoints, name \in Names : asked[e][name] = Unset BY <1>1
    <2>3. \A e \in Endpoints, name \in SubscribedValues :
            ComingOf(e, name, reports, attribute[e][name], latest[e][name], asked[e][name])
      BY <2>1, <2>2, SubscribedAre DEF ComingOf
    <2> QED BY <1>7, <2>2, <2>3 DEF ValuesComing
  <1>10. GesturesComing
    <2> DEFINE c == [i \in 0..0 |-> 0]
    <2>1. Right(<<>>, <<>>) BY DEF Right
    <2>2. StillComing(c, <<>>, <<>>, <<>>) BY DEF StillComing
    <2> HIDE DEF c
    <2> QED BY <1>1, <1>5, <2>1, <2>2 DEF GesturesComing
  <1> QED BY <1>6, <1>8, <1>9, <1>10 DEF ConsumerInv

(* What depends on no variable but kind stays as it is.                      *)
LEMMA OfKind ==
  ASSUME UNCHANGED kind
  PROVE  /\ \A r : ReportRight(r)' <=> ReportRight(r)
         /\ \A some : AllRight(some)' <=> AllRight(some)
         /\ \A s : Settled(s)' <=> Settled(s)
         /\ \A shown, meant : Right(shown, meant)' <=> Right(shown, meant)
         /\ \A c, some, meant, i : Counts(c, some, meant, i)' <=> Counts(c, some, meant, i)
         /\ \A h : Meaning(h)' = Meaning(h)
  <1>1. kind' = kind OBVIOUS
  <1>2. \A r : ReportRight(r)' <=> ReportRight(r) BY <1>1 DEF ReportRight, EventRight
  <1>3. \A some : AllRight(some)' <=> AllRight(some) BY <1>2 DEF AllRight
  <1>4. \A s : Settled(s)' <=> Settled(s) OBVIOUS
  <1>5. \A shown, meant : Right(shown, meant)' <=> Right(shown, meant) BY <1>1 DEF Right
  <1>6. \A r, m : Shows(r, m)' <=> Shows(r, m) BY <1>1 DEF Shows
  <1>7. \A c, some, meant, i : Counts(c, some, meant, i)' <=> Counts(c, some, meant, i)
    BY <1>6 DEF Counts
  <1>8. \A h : Meaning(h)' = Meaning(h) BY <1>1 DEF Meaning
  <1> QED BY <1>2, <1>3, <1>4, <1>5, <1>7, <1>8

-----------------------------------------------------------------------------
(* What is made from finitely many things is finite.                         *)
LEMMA MadeFromFinite ==
  ASSUME NEW S, IsFiniteSet(S), NEW T, NEW f \in [S -> T]
  PROVE  IsFiniteSet({f[x] : x \in S})
  <1> DEFINE R == {f[x] : x \in S}
  <1>1. f \in Surjection(S, R) BY DEF Surjection
  <1> HIDE DEF R
  <1>2. IsFiniteSet(R) BY <1>1, FS_Surjection
  <1> QED BY <1>2 DEF R

(* What the gestures mean stays as it is.                                    *)
LEMMA MeantSame ==
  ASSUME UNCHANGED <<kind, gestures>>
  PROVE  MeaningOf' = MeaningOf /\ MeantActions' = MeantActions
  <1>1. MeaningOf' = MeaningOf BY OfKind DEF MeaningOf
  <1> QED BY <1>1 DEF MeantActions

(* What is on its way stays so in a step that touches none of it.            *)
LEMMA GesturesSame ==
  ASSUME ConsumerInv, UNCHANGED <<kind, gestures, actions, reports>>
  PROVE  GesturesComing'
  <1>1. MeantActions' = MeantActions BY MeantSame
  <1>2. Right(actions, MeantActions)' BY <1>1, OfKind DEF ConsumerInv, GesturesComing
  <1>3. PICK c : StillComing(c, reports, actions, MeantActions) BY DEF ConsumerInv, GesturesComing
  <1>4. StillComing(c, reports, actions, MeantActions)' BY <1>1, <1>3, OfKind DEF StillComing
  <1> QED BY <1>2, <1>4 DEF GesturesComing

(* A command is on its way.                                                  *)
LEMMA DeviceActionStep ==
  ASSUME ConsumerInv, NEW es \in {Endpoints} \cup {{e} : e \in Endpoints},
         NEW name \in AttributeNames, NEW v \in Wanted(name), DeviceAction(es, name, v)
  PROVE  ConsumerInv'
  <1> DEFINE able == {e \in es : name \in kind[e].values}
             One(e) == [endpoint |-> e, name |-> name, told |-> Told(name, v), value |-> v]
             ones == {One(e) : e \in able}
             more == SetToSeq(ones)
  <1>1. commands' = commands \o more /\ UNCHANGED <<kind, mqttVars, attribute, reports, asked, gestures>>
    BY DEF DeviceAction
  <1>2. UNCHANGED <<kind, value, latest, actions, attribute, reports, asked, gestures>>
    BY <1>1 DEF mqttVars
  <1>3. able \subseteq Endpoints OBVIOUS
  <1>4. v \in Asks
    <2> HIDE DEF able, more
    <2> QED BY Zenon DEF Asks
  <1>5. \A e \in able : One(e) \in Commands /\ CommandRight(One(e))
    BY <1>3, <1>4 DEF Commands, CommandRight
  <1>6. IsFiniteSet(ones)
    <2>1. IsFiniteSet(Endpoints) BY ConsumerAssumption
    <2>2. IsFiniteSet(able)
      <3> HIDE DEF able
      <3> QED BY <1>3, <2>1, FS_Subset
    <2> DEFINE f == [e \in able |-> One(e)]
    <2>3. f \in [able -> Commands] BY <1>5
    <2>4. ones = {f[e] : e \in able} OBVIOUS
    <2> HIDE DEF f, ones, able
    <2> QED BY <2>2, <2>3, <2>4, MadeFromFinite
  <1>7. more \in Seq(ones)
    <2> HIDE DEF ones
    <2> QED BY <1>6, SequenceOf
  <1>8. ones \subseteq Commands /\ \A c \in ones : CommandRight(c) BY <1>5
  <1>9. commands \in Seq(Commands) /\ \A i \in 1..Len(commands) : CommandRight(commands[i])
    BY DEF ConsumerInv, ConsumerTypeOK
  <1> HIDE DEF ones, more
  <1>10. /\ more \in Seq(Commands) /\ \A i \in 1..Len(more) : CommandRight(more[i])
    BY <1>7, <1>8
  <1>11. /\ commands' \in Seq(Commands)
         /\ \A i \in 1..Len(commands') : CommandRight(commands'[i])
    <2>1. commands' \in Seq(Commands) /\ Len(commands') = Len(commands) + Len(more)
      BY <1>1, <1>9, <1>10
    <2>2. ASSUME NEW i \in 1..Len(commands') PROVE CommandRight(commands'[i])
      <3>1. Len(commands) \in Nat /\ Len(more) \in Nat BY <1>9, <1>10
      <3>2. commands'[i] = IF i <= Len(commands) THEN commands[i] ELSE more[i - Len(commands)]
        BY <1>1, <1>9, <1>10, <2>1
      <3>3. CASE i <= Len(commands)
        <4>1. i \in 1..Len(commands) BY <2>1, <3>1, <3>3
        <4> QED BY <1>9, <3>2, <3>3, <4>1
      <3>4. CASE ~(i <= Len(commands))
        <4>1. i - Len(commands) \in 1..Len(more) BY <2>1, <3>1, <3>4
        <4> QED BY <1>10, <3>2, <3>4, <4>1
      <3> QED BY <3>3, <3>4
    <2> QED BY <2>1, <2>2
  <1>12. \A c : CommandRight(c)' <=> CommandRight(c) OBVIOUS
  <1>13. ConsumerTypeOK'
    <2>1. AllRight(reports)' BY <1>2, OfKind DEF ConsumerInv, ConsumerTypeOK
    <2>2. MeaningOf' \in Seq(Seq(ActionsShown)) BY <1>2, MeantSame DEF ConsumerInv, ConsumerTypeOK
    <2> QED BY <1>2, <1>11, <1>12, <2>1, <2>2 DEF ConsumerInv, ConsumerTypeOK
  <1>14. Settled(Now)' BY <1>2, OfKind DEF ConsumerInv, Now
  <1>15. ValuesComing' BY <1>2 DEF ConsumerInv, ValuesComing
  <1>16. GesturesComing' BY <1>2, GesturesSame
  <1> QED BY <1>13, <1>14, <1>15, <1>16 DEF ConsumerInv

(* Publishing again changes nothing.                                         *)
LEMMA UpdatePropertiesStep ==
  ASSUME ConsumerInv, UpdateProperties
  PROVE  ConsumerInv'
  <1>1. UNCHANGED <<kind, attribute, commands, reports, asked, gestures>> /\ Becomes(Refreshed(Now))
    BY DEF UpdateProperties
  <1>2. Refreshed(Now) = Now BY RefreshStays DEF ConsumerInv
  <1>3. UNCHANGED <<value, latest, actions>> BY <1>1, <1>2 DEF Becomes, Now
  <1>13. ConsumerTypeOK'
    <2>1. AllRight(reports)' BY <1>1, OfKind DEF ConsumerInv, ConsumerTypeOK
    <2>2. MeaningOf' \in Seq(Seq(ActionsShown)) BY <1>1, MeantSame DEF ConsumerInv, ConsumerTypeOK
    <2> QED BY <1>1, <2>1, <2>2 DEF ConsumerInv, ConsumerTypeOK
  <1>14. Settled(Now)' BY <1>1, <1>3, OfKind DEF ConsumerInv, Now
  <1>15. ValuesComing' BY <1>1, <1>3 DEF ConsumerInv, ValuesComing
  <1>16. GesturesComing' BY <1>1, <1>3, GesturesSame
  <1> QED BY <1>13, <1>14, <1>15, <1>16 DEF ConsumerInv

-----------------------------------------------------------------------------
(* One more report of an attribute is the last there is of it.               *)
LEMMA ComingAfter ==
  ASSUME NEW some \in Seq(Reports), NEW r \in Reports, NEW t, t = Append(some, r),
         NEW x, NEW name, NEW have, NEW shown, NEW wish, NEW have1, NEW wish1,
         ComingOf(x, name, some, have, shown, wish),
         IF r.endpoint = x /\ r.name = name
         THEN have1 = r.value /\ (wish1 # Unset => AsAsked(name, Parsed(name, have1), wish1))
         ELSE have1 = have /\ wish1 = wish
  PROVE  ComingOf(x, name, t, have1, shown, wish1)
  <1> DEFINE N == Len(some)
  <1>1. /\ N \in Nat /\ Len(t) = N + 1 /\ t[N + 1] = r
        /\ \A i \in 1..N : t[i] = some[i]
    OBVIOUS
  <1>2. \A i \in 1..N : Of(t, i, x, name) <=> Of(some, i, x, name) BY <1>1 DEF Of
  <1>3. Of(t, N + 1, x, name) <=> r.endpoint = x /\ r.name = name BY <1>1 DEF Of
  <1> HIDE DEF N
  <1>4. CASE r.endpoint = x /\ r.name = name
    <2>1. ASSUME NEW i \in 1..(N + 1), LastOf(t, N + 1, i, x, name) PROVE t[i] = r
      <3>1. N + 1 \in 1..(N + 1) BY <1>1
      <3>2. N + 1 <= i BY <1>3, <1>4, <2>1, <3>1 DEF LastOf
      <3>3. i = N + 1 BY <1>1, <3>2
      <3> QED BY <1>1, <3>3
    <2>2. \E i \in 1..(N + 1) : Of(t, i, x, name)
      <3>1. N + 1 \in 1..(N + 1) BY <1>1
      <3> QED BY <1>3, <1>4, <3>1
    <2> QED BY <1>1, <1>4, <2>1, <2>2 DEF ComingOf
  <1>5. CASE ~(r.endpoint = x /\ r.name = name)
    <2>1. ~Of(t, N + 1, x, name) BY <1>3, <1>5
    <2>2. ASSUME NEW i \in 1..(N + 1), LastOf(t, N + 1, i, x, name)
          PROVE  i \in 1..N /\ LastOf(some, N, i, x, name)
      <3>1. i # N + 1 BY <2>1, <2>2 DEF LastOf
      <3>2. i \in 1..N BY <1>1, <3>1
      <3>3. \A j \in 1..N : j \in 1..(N + 1) BY <1>1
      <3> QED BY <1>2, <2>2, <3>2, <3>3 DEF LastOf
    <2>3. \A j \in 1..N : j \in 1..(N + 1) BY <1>1
    <2>4. (\A i \in 1..(N + 1) : ~Of(t, i, x, name)) => \A i \in 1..N : ~Of(some, i, x, name)
      BY <1>2, <2>3
    <2> QED BY <1>1, <1>5, <2>2, <2>4 DEF ComingOf, N
  <1> QED BY <1>4, <1>5

(* More reports that are of no attribute change nothing of it.               *)
LEMMA ComingStill ==
  ASSUME NEW some \in Seq(Reports), NEW more \in Seq(Reports), NEW t, t = some \o more,
         NEW x, NEW name \in AttributeNames, NEW have, NEW shown, NEW wish,
         ComingOf(x, name, some, have, shown, wish),
         \A i \in 1..Len(more) : more[i].name = "event"
  PROVE  ComingOf(x, name, t, have, shown, wish)
  <1> DEFINE N == Len(some)
             L == Len(more)
  <1>0. name # "event" BY DEF AttributeNames, Names
  <1>1. /\ N \in Nat /\ L \in Nat /\ Len(t) = N + L
        /\ \A i \in 1..(N + L) : t[i] = IF i <= N THEN some[i] ELSE more[i - N]
    OBVIOUS
  <1> HIDE DEF N
  <1>2. \A i \in 1..N : i \in 1..(N + L) /\ i <= N BY <1>1
  <1>3. \A i \in 1..N : Of(t, i, x, name) <=> Of(some, i, x, name) BY <1>1, <1>2 DEF Of
  <1>4. ASSUME NEW i \in 1..(N + L), ~(i <= N) PROVE ~Of(t, i, x, name)
    <2>1. i - N \in 1..L BY <1>1, <1>4
    <2>2. t[i] = more[i - N] BY <1>1, <1>4
    <2> QED BY <1>0, <2>1, <2>2 DEF Of
  <1>5. ASSUME NEW i \in 1..(N + L), LastOf(t, N + L, i, x, name)
        PROVE  i \in 1..N /\ LastOf(some, N, i, x, name)
    <2>1. i <= N BY <1>4, <1>5 DEF LastOf
    <2>2. i \in 1..N BY <1>1, <2>1
    <2> QED BY <1>2, <1>3, <1>5, <2>2 DEF LastOf
  <1>6. (\A i \in 1..(N + L) : ~Of(t, i, x, name)) => \A i \in 1..N : ~Of(some, i, x, name)
    BY <1>2, <1>3
  <1>7. \A i \in 1..N : t[i] = some[i] BY <1>1, <1>2
  <1> HIDE DEF L
  <1>8. Len(t) = N + L /\ Len(some) = N BY <1>1 DEF N
  <1> QED BY <1>5, <1>6, <1>7, <1>8 DEF ComingOf

-----------------------------------------------------------------------------
(* The actions to come are the same after one more report of an attribute.   *)
LEMMA WayOfAttribute ==
  ASSUME NEW some \in Seq(Reports), NEW r \in Reports, r.name # "event", NEW t, t = Append(some, r),
         NEW shown, NEW meant \in Seq(ActionsShown), NEW c, StillComing(c, some, shown, meant)
  PROVE  \E d : StillComing(d, t, shown, meant)
  <1> DEFINE N == Len(some)
             d == [i \in 0..(N + 1) |-> IF i = N + 1 THEN c[N] ELSE c[i]]
  <1>1. /\ N \in Nat /\ Len(t) = N + 1 /\ t[N + 1] = r
        /\ \A i \in 1..N : t[i] = some[i]
    OBVIOUS
  <1>2. /\ c \in [0..N -> 0..Len(meant)] /\ c[0] = Len(shown) /\ c[N] = Len(meant)
        /\ \A i \in 1..N : Counts(c, some, meant, i)
    BY DEF StillComing
  <1> HIDE DEF N
  <1>3. \A i \in 0..N : i \in 0..(N + 1) /\ i # N + 1 BY <1>1
  <1>4. \A i \in 0..N : d[i] = c[i] BY <1>3
  <1>5. d[N + 1] = c[N] /\ N \in 0..N /\ 0 \in 0..N BY <1>1
  <1>6. d \in [0..(N + 1) -> 0..Len(meant)]
    <2>1. \A i \in 0..(N + 1) : i = N + 1 \/ i \in 0..N BY <1>1
    <2>2. \A i \in 0..(N + 1) : d[i] \in 0..Len(meant) BY <1>2, <1>4, <1>5, <2>1
    <2> QED BY <2>2
  <1> HIDE DEF d
  <1>7. ASSUME NEW i \in 1..(N + 1) PROVE Counts(d, t, meant, i)
    <2>1. CASE i = N + 1
      <3>1. i - 1 = N /\ d[i] = d[i - 1] BY <1>1, <1>4, <1>5, <2>1
      <3> QED BY <1>1, <2>1, <3>1 DEF Counts
    <2>2. CASE i # N + 1
      <3>1. i \in 1..N /\ i \in 0..N /\ i - 1 \in 0..N BY <1>1, <2>2
      <3>2. Counts(c, some, meant, i) BY <1>2, <3>1
      <3>3. d[i] = c[i] /\ d[i - 1] = c[i - 1] /\ t[i] = some[i] BY <1>1, <1>4, <3>1
      <3> QED BY <3>2, <3>3 DEF Counts
    <2> QED BY <2>1, <2>2
  <1>8. d[0] = Len(shown) /\ d[N + 1] = Len(meant) BY <1>2, <1>4, <1>5
  <1> QED BY <1>1, <1>6, <1>7, <1>8 DEF StillComing

(* Events of which each shows what is meant.                                 *)
ShowAll(more, ms) ==
  /\ Len(more) = Len(ms)
  /\ \A i \in 1..Len(ms) : more[i].name = "event" /\ Shows(more[i], ms[i])

(* After the events of a gesture, those it means come last.                  *)
LEMMA WayOfGesture ==
  ASSUME NEW some \in Seq(Reports), NEW more \in Seq(Reports),
         NEW shown, NEW meant \in Seq(ActionsShown), NEW ms \in Seq(ActionsShown),
         ShowAll(more, ms),
         NEW c, StillComing(c, some, shown, meant)
  PROVE  \E d : StillComing(d, some \o more, shown, meant \o ms)
  <1> DEFINE t == some \o more
             all == meant \o ms
  <1>0. t = some \o more /\ all = meant \o ms OBVIOUS
  <1> HIDE DEF t, all
  <1> DEFINE N == Len(some)
             L == Len(ms)
             A == Len(meant)
             d == [i \in 0..(N + L) |-> IF i <= N THEN c[i] ELSE A + (i - N)]
  <1>1. /\ N \in Nat /\ L \in Nat /\ Len(t) = N + L
        /\ \A i \in 1..(N + L) : t[i] = IF i <= N THEN some[i] ELSE more[i - N]
    <2>1. /\ Len(some) \in Nat /\ Len(more) \in Nat /\ Len(t) = Len(some) + Len(more)
          /\ \A i \in 1..(Len(some) + Len(more)) :
               t[i] = IF i <= Len(some) THEN some[i] ELSE more[i - Len(some)]
      <3>1. some \in Seq(Reports) /\ more \in Seq(Reports) /\ t = some \o more BY <1>0
      <3> QED BY ONLY <3>1
    <2>2. Len(more) = L BY DEF ShowAll
    <2> HIDE DEF L
    <2> QED BY <2>1, <2>2
  <1>2. /\ A \in Nat /\ Len(all) = A + L
        /\ \A i \in 1..(A + L) : all[i] = IF i <= A THEN meant[i] ELSE ms[i - A]
    BY <1>0
  <1>3. /\ c \in [0..N -> 0..A] /\ c[0] = Len(shown) /\ c[N] = A
        /\ \A i \in 1..N : Counts(c, some, meant, i)
    BY DEF StillComing
  <1>31. \A i \in 1..L : more[i].name = "event" /\ Shows(more[i], ms[i]) BY DEF ShowAll
  <1> HIDE DEF N, L, A
  <1>4. \A i \in 0..N : i \in 0..(N + L) /\ i <= N BY <1>1
  <1>5. \A i \in 0..N : d[i] = c[i] BY <1>4
  <1>6. \A i \in N..(N + L) : d[i] = A + (i - N)
    <2>1. ASSUME NEW i \in N..(N + L) PROVE d[i] = A + (i - N)
      <3>1. i \in 0..(N + L) BY <1>1
      <3>2. CASE i = N
        <4>1. d[i] = c[N] BY <1>1, <3>1, <3>2
        <4> HIDE DEF d
        <4> QED BY <1>1, <1>2, <1>3, <3>2, <4>1
      <3>3. CASE i # N
        <4>1. ~(i <= N) BY <1>1, <3>3
        <4> QED BY <3>1, <4>1
      <3> QED BY <3>2, <3>3
    <2> QED BY <2>1
  <1>7. d \in [0..(N + L) -> 0..(A + L)]
    <2>1. ASSUME NEW i \in 0..(N + L) PROVE d[i] \in 0..(A + L)
      <3>1. CASE i <= N
        <4>1. i \in 0..N BY <1>1, <3>1
        <4>2. d[i] = c[i] /\ c[i] \in 0..A BY <1>3, <1>5, <4>1
        <4> HIDE DEF d
        <4> QED BY <1>1, <1>2, <4>2
      <3>2. CASE ~(i <= N)
        <4>1. i \in N..(N + L) BY <1>1, <3>2
        <4>2. d[i] = A + (i - N) BY <1>6, <4>1
        <4> HIDE DEF d
        <4> QED BY <1>1, <1>2, <4>1, <4>2
      <3> QED BY <3>1, <3>2
    <2>2. d = [i \in 0..(N + L) |-> d[i]] OBVIOUS
    <2> HIDE DEF d
    <2> QED BY <2>1, <2>2
  <1> HIDE DEF d
  <1>8. ASSUME NEW i \in 1..(N + L) PROVE Counts(d, t, all, i)
    <2>1. CASE i <= N
      <3>1. i \in 1..N /\ i \in 0..N /\ i - 1 \in 0..N BY <1>1, <2>1
      <3>2. Counts(c, some, meant, i) BY <1>3, <3>1
      <3>3. d[i] = c[i] /\ d[i - 1] = c[i - 1] /\ t[i] = some[i] BY <1>1, <1>5, <2>1, <3>1
      <3>4. CASE some[i].name = "event"
        <4>1. c[i] = c[i - 1] + 1 /\ c[i] <= A /\ Shows(some[i], meant[c[i]])
          BY <3>2, <3>4 DEF Counts, A
        <4>2. c[i - 1] \in 0..A BY <1>3, <3>1
        <4>3. c[i] \in 1..(A + L) /\ c[i] <= A + L BY <1>1, <1>2, <4>1, <4>2
        <4>4. all[c[i]] = meant[c[i]] BY <1>2, <4>1, <4>3
        <4> QED BY <1>2, <3>3, <3>4, <4>1, <4>3, <4>4 DEF Counts
      <3>5. CASE some[i].name # "event"
        <4>1. c[i] = c[i - 1] BY <3>2, <3>5 DEF Counts
        <4> QED BY <3>3, <3>5, <4>1 DEF Counts
      <3> QED BY <3>4, <3>5
    <2>2. CASE ~(i <= N)
      <3> DEFINE j == i - N
      <3>1. j \in 1..L /\ i \in N..(N + L) /\ i - 1 \in N..(N + L) BY <1>1, <2>2
      <3>2. t[i] = more[j] BY <1>1, <2>2
      <3>3. more[j].name = "event" /\ Shows(more[j], ms[j]) BY <1>31, <3>1
      <3>4. d[i] = A + j /\ d[i - 1] = A + ((i - 1) - N) BY <1>6, <3>1
      <3>5. d[i] = d[i - 1] + 1 /\ d[i] <= A + L
        <4>1. (i - 1) - N = j - 1 BY <1>1
        <4>2. d[i] = A + j /\ d[i - 1] = A + (j - 1) BY <3>4, <4>1
        <4> HIDE DEF j
        <4> QED BY <1>1, <1>2, <3>1, <4>2
      <3>6. all[A + j] = ms[j]
        <4>1. A + j \in 1..(A + L) /\ ~(A + j <= A) /\ (A + j) - A = j BY <1>1, <1>2, <3>1
        <4> HIDE DEF j
        <4> QED BY <1>2, <4>1
      <3> HIDE DEF j
      <3> QED BY <1>2, <3>2, <3>3, <3>4, <3>5, <3>6 DEF Counts
    <2> QED BY <2>1, <2>2
  <1>9. d[0] = Len(shown) /\ d[N + L] = A + L
    <2>1. 0 \in 0..N /\ N + L \in N..(N + L) BY <1>1
    <2>2. d[0] = c[0] BY <1>5, <2>1
    <2>3. d[N + L] = A + ((N + L) - N) BY <1>6, <2>1
    <2> QED BY <1>1, <1>2, <1>3, <2>2, <2>3
  <1>10. StillComing(d, t, shown, all) BY <1>1, <1>2, <1>7, <1>8, <1>9 DEF StillComing
  <1> QED BY <1>10 DEF t, all

-----------------------------------------------------------------------------
(* A report of an attribute is on its way, with what it was meant to be.     *)
LEMMA OneReport ==
  ASSUME ConsumerInv, NEW e \in Endpoints, NEW name \in SubscribedValues,
         NEW v \in AttributeOf(name), NEW w \in Asks,
         w # Unset => AsAsked(name, Parsed(name, v), w),
         attribute' = [attribute EXCEPT ![e][name] = v],
         asked' = [asked EXCEPT ![e][name] = w],
         reports' = Append(reports, Report(e, name, v)),
         UNCHANGED <<kind, value, latest, actions, gestures>>,
         commands' \in Seq(Commands), \A i \in 1..Len(commands') : CommandRight(commands'[i])
  PROVE  ConsumerInv'
  <1> DEFINE r == Report(e, name, v)
  <1>0. name \in AttributeNames BY SubscribedAre
  <1>1. name \in Names /\ name # "event" /\ name # "action" /\ name # "count"
    BY <1>0 DEF AttributeNames, Names
  <1>2. v \in Nat \cup BOOLEAN \cup {Unset}
    <2>1. CASE name = "status"
      <3>1. AttributeOf(name) = BOOLEAN BY <2>1 DEF AttributeOf
      <3> QED BY <3>1
    <2>2. CASE name # "status" BY <2>2 DEF AttributeOf
    <2> QED BY <2>1, <2>2
  <1>3. r.endpoint = e /\ r.name = name /\ r.value = v BY DEF Report
  <1>4. r \in Reports BY <1>0, <1>2 DEF Reports, Report
  <1>5. ReportRight(r) BY <1>0, <1>1, <1>3 DEF ReportRight
  <1>6. reports \in Seq(Reports) /\ \A i \in 1..Len(reports) : ReportRight(reports[i])
    BY DEF ConsumerInv, ConsumerTypeOK, AllRight
  <1> HIDE DEF r
  <1>7. reports' = Append(reports, r) BY DEF r
  <1>8. AllRight(reports')
    <2>1. /\ reports' \in Seq(Reports) /\ Len(reports') = Len(reports) + 1
          /\ reports'[Len(reports) + 1] = r
          /\ \A i \in 1..Len(reports) : reports'[i] = reports[i]
      BY <1>4, <1>6, <1>7
    <2>2. Len(reports) \in Nat BY <1>6
    <2>3. \A i \in 1..(Len(reports) + 1) : i = Len(reports) + 1 \/ i \in 1..Len(reports) BY <2>2
    <2> QED BY <1>5, <1>6, <2>1, <2>3 DEF AllRight
  <1>9. /\ attribute \in [Endpoints -> [Names -> Nat \cup BOOLEAN \cup {Unset}]]
        /\ asked \in [Endpoints -> [Names -> Asks]]
    BY DEF ConsumerInv, ConsumerTypeOK
  <1>10. /\ attribute' \in [Endpoints -> [Names -> Nat \cup BOOLEAN \cup {Unset}]]
         /\ \A x \in Endpoints, nm \in Names :
              attribute'[x][nm] = IF x = e /\ nm = name THEN v ELSE attribute[x][nm]
    BY <1>1, <1>2, <1>9
  <1>11. /\ asked' \in [Endpoints -> [Names -> Asks]]
         /\ \A x \in Endpoints, nm \in Names :
              asked'[x][nm] = IF x = e /\ nm = name THEN w ELSE asked[x][nm]
    BY <1>1, <1>9
  <1>12. \A nm \in AttributeNames : nm \in Names BY DEF AttributeNames
  <1>13. ConsumerTypeOK'
    <2>1. AllRight(reports)' BY <1>8, OfKind
    <2>2. MeaningOf' \in Seq(Seq(ActionsShown)) BY MeantSame DEF ConsumerInv, ConsumerTypeOK
    <2>3. \A x \in Endpoints, nm \in AttributeNames : attribute'[x][nm] \in AttributeOf(nm)
      BY <1>10, <1>12 DEF ConsumerInv, ConsumerTypeOK
    <2>6. (\A i \in 1..Len(commands) : CommandRight(commands[i]))' OBVIOUS
    <2> QED BY <1>10, <1>11, <2>1, <2>2, <2>3, <2>6 DEF ConsumerInv, ConsumerTypeOK
  <1>14. Settled(Now)' BY OfKind DEF ConsumerInv, Now
  <1>15. ValuesComing'
    <2>1. \A x \in Endpoints : asked'[x]["action"] = Unset /\ asked'[x]["count"] = Unset
      <3>1. "action" \in Names /\ "count" \in Names BY DEF Names
      <3> QED BY <1>1, <1>11, <3>1 DEF ConsumerInv, ValuesComing
    <2>2. ASSUME NEW x \in Endpoints, NEW nm \in SubscribedValues
          PROVE  ComingOf(x, nm, reports', attribute'[x][nm], latest'[x][nm], asked'[x][nm])
      <3>1. ComingOf(x, nm, reports, attribute[x][nm], latest[x][nm], asked[x][nm])
        BY DEF ConsumerInv, ValuesComing
      <3>2. IF r.endpoint = x /\ r.name = nm
            THEN attribute'[x][nm] = r.value
                 /\ (asked'[x][nm] # Unset
                       => AsAsked(nm, Parsed(nm, attribute'[x][nm]), asked'[x][nm]))
            ELSE attribute'[x][nm] = attribute[x][nm] /\ asked'[x][nm] = asked[x][nm]
        BY <1>3, <1>10, <1>11, SubscribedAre
      <3>3. ComingOf(x, nm, reports', attribute'[x][nm], latest[x][nm], asked'[x][nm])
        BY <1>4, <1>6, <1>7, <3>1, <3>2, ComingAfter
      <3> QED BY <3>3
    <2>3. \A x, nm, some, have, shown, wish :
            ComingOf(x, nm, some, have, shown, wish)' <=> ComingOf(x, nm, some, have, shown, wish)
      OBVIOUS
    <2> QED BY <2>1, <2>2, <2>3 DEF ValuesComing
  <1>16. GesturesComing'
    <2>1. MeantActions' = MeantActions BY MeantSame
    <2>2. Right(actions, MeantActions)' BY <2>1, OfKind DEF ConsumerInv, GesturesComing
    <2>3. PICK c : StillComing(c, reports, actions, MeantActions) BY DEF ConsumerInv, GesturesComing
    <2>4. MeantActions \in Seq(ActionsShown)
      <3>1. MeaningOf \in Seq(Seq(ActionsShown)) BY DEF ConsumerInv, ConsumerTypeOK
      <3>2. <<>> \in Seq(ActionsShown) OBVIOUS
      <3> QED BY <3>1, <3>2, FlattenMore DEF MeantActions
    <2>5. PICK d : StillComing(d, reports', actions, MeantActions)
      BY <1>1, <1>3, <1>4, <1>6, <1>7, <2>3, <2>4, WayOfAttribute
    <2>6. StillComing(d, reports, actions, MeantActions)' BY <2>1, <2>5, OfKind DEF StillComing
    <2> QED BY <2>2, <2>6 DEF GesturesComing
  <1> QED BY <1>13, <1>14, <1>15, <1>16 DEF ConsumerInv

(* An attribute that is not subscribed to becomes another.                   *)
LEMMA NoReport ==
  ASSUME ConsumerInv, NEW e \in Endpoints, NEW name \in AttributeNames,
         name \notin SubscribedValues, NEW v \in AttributeOf(name), NEW w \in Asks,
         attribute' = [attribute EXCEPT ![e][name] = v],
         asked' = [asked EXCEPT ![e][name] = w],
         UNCHANGED <<kind, value, latest, actions, gestures, reports>>,
         commands' \in Seq(Commands), \A i \in 1..Len(commands') : CommandRight(commands'[i])
  PROVE  ConsumerInv'
  <1>1. name \in Names /\ name # "action" /\ name # "count"
    BY DEF AttributeNames, Names
  <1>2. v \in Nat \cup BOOLEAN \cup {Unset}
    <2>1. CASE name = "status"
      <3>1. AttributeOf(name) = BOOLEAN BY <2>1 DEF AttributeOf
      <3> QED BY <3>1
    <2>2. CASE name # "status" BY <2>2 DEF AttributeOf
    <2> QED BY <2>1, <2>2
  <1>3. /\ attribute \in [Endpoints -> [Names -> Nat \cup BOOLEAN \cup {Unset}]]
        /\ asked \in [Endpoints -> [Names -> Asks]]
    BY DEF ConsumerInv, ConsumerTypeOK
  <1>4. /\ attribute' \in [Endpoints -> [Names -> Nat \cup BOOLEAN \cup {Unset}]]
        /\ \A x \in Endpoints, nm \in Names :
             attribute'[x][nm] = IF x = e /\ nm = name THEN v ELSE attribute[x][nm]
    BY <1>1, <1>2, <1>3
  <1>5. /\ asked' \in [Endpoints -> [Names -> Asks]]
        /\ \A x \in Endpoints, nm \in Names :
             asked'[x][nm] = IF x = e /\ nm = name THEN w ELSE asked[x][nm]
    BY <1>1, <1>3
  <1>6. \A nm \in AttributeNames : nm \in Names BY DEF AttributeNames
  <1>7. ConsumerTypeOK'
    <2>1. AllRight(reports)' BY OfKind DEF ConsumerInv, ConsumerTypeOK
    <2>2. MeaningOf' \in Seq(Seq(ActionsShown)) BY MeantSame DEF ConsumerInv, ConsumerTypeOK
    <2>3. \A x \in Endpoints, nm \in AttributeNames : attribute'[x][nm] \in AttributeOf(nm)
      BY <1>4, <1>6 DEF ConsumerInv, ConsumerTypeOK
    <2>4. (\A i \in 1..Len(commands) : CommandRight(commands[i]))' OBVIOUS
    <2> QED BY <1>4, <1>5, <2>1, <2>2, <2>3, <2>4 DEF ConsumerInv, ConsumerTypeOK
  <1>8. Settled(Now)' BY OfKind DEF ConsumerInv, Now
  <1>9. ValuesComing'
    <2>1. \A x \in Endpoints : asked'[x]["action"] = Unset /\ asked'[x]["count"] = Unset
      <3>1. "action" \in Names /\ "count" \in Names BY DEF Names
      <3> QED BY <1>1, <1>5, <3>1 DEF ConsumerInv, ValuesComing
    <2>2. ASSUME NEW x \in Endpoints, NEW nm \in SubscribedValues
          PROVE  ComingOf(x, nm, reports', attribute'[x][nm], latest'[x][nm], asked'[x][nm])
      <3>1. attribute'[x][nm] = attribute[x][nm] /\ asked'[x][nm] = asked[x][nm]
        BY <1>4, <1>5, SubscribedAre
      <3>2. ComingOf(x, nm, reports, attribute[x][nm], latest[x][nm], asked[x][nm])
        BY DEF ConsumerInv, ValuesComing
      <3> QED BY <3>1, <3>2
    <2> QED BY <2>1, <2>2 DEF ValuesComing
  <1>10. GesturesComing' BY GesturesSame
  <1> QED BY <1>7, <1>8, <1>9, <1>10 DEF ConsumerInv

-----------------------------------------------------------------------------
(* What a command is meant to do is itself something to ask for.             *)
LEMMA MeantWanted ==
  ASSUME NEW e, NEW name \in AttributeNames, NEW v \in Wanted(name)
  PROVE  Meant(e, name, v) \in Wanted(name)
  <1>1. CASE name = "status" /\ v = "toggle" BY <1>1 DEF Meant, Wanted
  <1>2. CASE ~(name = "status" /\ v = "toggle")
    <2>1. Meant(e, name, v) = v BY <1>2 DEF Meant
    <2> QED BY <2>1
  <1> QED BY <1>1, <1>2

(* The device does what comes first.                                         *)
LEMMA DeviceDoesStep ==
  ASSUME ConsumerInv, DeviceDoes
  PROVE  ConsumerInv'
  <1> DEFINE c == Head(commands)
             v == Becoming(c.endpoint, c.name, c.told)
             w == Meant(c.endpoint, c.name, c.value)
  <1>1. /\ commands # <<>> /\ commands' = Tail(commands)
        /\ attribute' = [attribute EXCEPT ![c.endpoint][c.name] = v]
        /\ reports' = IF c.name \in SubscribedValues
                      THEN Append(reports, Report(c.endpoint, c.name, v)) ELSE reports
        /\ asked' = [asked EXCEPT ![c.endpoint][c.name] = w]
        /\ UNCHANGED <<kind, mqttVars, wishes, gestures>>
    BY DEF DeviceDoes, Says
  <1>2. UNCHANGED <<kind, value, latest, actions, gestures>> BY <1>1 DEF mqttVars
  <1>3. commands \in Seq(Commands) /\ \A i \in 1..Len(commands) : CommandRight(commands[i])
    BY DEF ConsumerInv, ConsumerTypeOK
  <1>4. c = commands[1] /\ 1 \in 1..Len(commands) BY <1>1, <1>3
  <1>5. CommandRight(c) BY <1>3, <1>4
  <1> HIDE DEF c
  <1>6. c.endpoint \in Endpoints /\ c.name \in AttributeNames /\ c.value \in Wanted(c.name)
        /\ c.told = Told(c.name, c.value)
    BY <1>5 DEF CommandRight
  <1>7. attribute[c.endpoint][c.name] \in AttributeOf(c.name)
    BY <1>6 DEF ConsumerInv, ConsumerTypeOK
  <1>8. /\ v \in AttributeOf(c.name)
        /\ c.name \in SubscribedValues => AsAsked(c.name, Parsed(c.name, v), w)
    BY <1>6, <1>7, DoneAsAsked
  <1>9. w \in Asks
    <2>1. w \in Wanted(c.name) BY <1>6, MeantWanted
    <2> HIDE DEF w
    <2> QED BY <1>6, <2>1, Zenon DEF Asks
  <1>10. /\ commands' \in Seq(Commands)
         /\ \A i \in 1..Len(commands') : CommandRight(commands'[i])
    <2>1. /\ Tail(commands) \in Seq(Commands) /\ Len(Tail(commands)) = Len(commands) - 1
          /\ \A i \in 1..Len(Tail(commands)) : Tail(commands)[i] = commands[i + 1]
      BY <1>1, <1>3
    <2>2. Len(commands) \in Nat BY <1>3
    <2>3. \A i \in 1..(Len(commands) - 1) : i + 1 \in 1..Len(commands) BY <2>2
    <2> QED BY <1>1, <1>3, <2>1, <2>3
  <1> HIDE DEF v, w
  <1>11. CASE c.name \in SubscribedValues
    BY <1>1, <1>2, <1>6, <1>8, <1>9, <1>10, <1>11, OneReport
  <1>12. CASE c.name \notin SubscribedValues
    BY <1>1, <1>2, <1>6, <1>8, <1>9, <1>10, <1>12, NoReport
  <1> QED BY <1>11, <1>12

(* Someone switches it by hand.                                              *)
LEMMA ByHandStep ==
  ASSUME ConsumerInv, NEW e \in Endpoints, NEW name \in AttributeNames, ByHand(e, name)
  PROVE  ConsumerInv'
  <1> DEFINE v == IF name = "status" THEN ~attribute[e][name] ELSE 1
  <1>1. /\ name \in {"status", "lock"}
        /\ attribute' = [attribute EXCEPT ![e][name] = v]
        /\ reports' = IF name \in SubscribedValues
                      THEN Append(reports, Report(e, name, v)) ELSE reports
        /\ asked' = [asked EXCEPT ![e][name] = Unset]
        /\ UNCHANGED <<kind, mqttVars, commands, gestures>>
    BY DEF ByHand, Says
  <1>2. UNCHANGED <<kind, value, latest, actions, gestures, commands>> BY <1>1 DEF mqttVars
  <1>3. v \in AttributeOf(name)
    <2>1. CASE name = "status"
      <3>1. AttributeOf(name) = BOOLEAN BY <2>1 DEF AttributeOf
      <3>2. v = ~attribute[e][name] BY <2>1
      <3>0. attribute[e][name] \in BOOLEAN BY <3>1 DEF ConsumerInv, ConsumerTypeOK
      <3>3. (~attribute[e][name]) \in BOOLEAN BY <3>0
      <3> QED BY <3>1, <3>2, <3>3
    <2>2. CASE name = "lock" BY <2>2 DEF AttributeOf
    <2> QED BY <1>1, <2>1, <2>2
  <1>4. Unset \in Asks BY Zenon DEF Asks
  <1>5. commands' \in Seq(Commands) /\ \A i \in 1..Len(commands') : CommandRight(commands'[i])
    BY <1>2 DEF ConsumerInv, ConsumerTypeOK
  <1> HIDE DEF v
  <1>6. CASE name \in SubscribedValues BY <1>1, <1>2, <1>3, <1>4, <1>5, <1>6, OneReport
  <1>7. CASE name \notin SubscribedValues BY <1>1, <1>2, <1>3, <1>4, <1>5, <1>7, NoReport
  <1> QED BY <1>6, <1>7

-----------------------------------------------------------------------------
(* The events of a gesture are on their way.                                 *)
LEMMA GestureStep ==
  ASSUME ConsumerInv, NEW e \in Endpoints, NEW g \in Gestures(kind[e]), Gesture(e, g)
  PROVE  ConsumerInv'
  <1> DEFINE h == [endpoint |-> e, gesture |-> g]
             events == Events(kind[e], g)
             ms == Meaning(h)
             more == [i \in DOMAIN events |-> Report(e, "event", events[i])]
  <1>1. /\ gestures' = Append(gestures, h) /\ reports' = reports \o more
        /\ UNCHANGED <<kind, mqttVars, attribute, commands, asked>>
    BY DEF Gesture
  <1>2. UNCHANGED <<kind, value, latest, actions, attribute, commands, asked>>
    BY <1>1 DEF mqttVars
  <1>3. kind[e].presses \in Nat BY ConsumerAssumption DEF ConsumerInv, ConsumerTypeOK
  <1>4. MeansIt(e, events, ms) BY <1>3, GestureMatches
  <1>5. h \in GesturesMade
    <2>1. g \in [type : {"latch", "long", "press"}, presses : Nat]
      <3>1. \A i \in 1..(IF kind[e].presses = 0 THEN 1 ELSE kind[e].presses) : i \in Nat
        BY <1>3
      <3> QED BY <3>1 DEF Gestures
    <2> QED BY <2>1 DEF GesturesMade
  <1> HIDE DEF events, ms, h
  <1>6. /\ events \in Seq([type : EventTypes, presses : Nat]) /\ ms \in Seq(ActionsShown)
        /\ Len(events) = Len(ms) /\ \A i \in 1..Len(ms) : EventShows(e, events[i], ms[i])
    BY <1>4 DEF MeansIt
  <1>7. \A i \in 1..Len(events) :
          /\ Report(e, "event", events[i]) \in Reports
          /\ ReportRight(Report(e, "event", events[i]))
    <2>1. ASSUME NEW i \in 1..Len(events)
          PROVE  /\ Report(e, "event", events[i]) \in Reports
                 /\ ReportRight(Report(e, "event", events[i]))
      <3>1. events[i] \in [type : EventTypes, presses : Nat] /\ EventRight(e, events[i])
        BY <1>6 DEF EventShows
      <3> DEFINE r == Report(e, "event", events[i])
      <3>2. r.endpoint = e /\ r.name = "event" /\ r.value = events[i] BY DEF Report
      <3>3. r \in Reports BY <3>1 DEF Reports, Report
      <3>4. ReportRight(r) BY <3>1, <3>2 DEF ReportRight
      <3> QED BY <3>3, <3>4
    <2> QED BY <2>1
  <1>8. /\ more \in Seq(Reports) /\ Len(more) = Len(ms)
        /\ \A i \in 1..Len(ms) : more[i] = Report(e, "event", events[i])
    <2>1. DOMAIN events = 1..Len(events) /\ Len(events) \in Nat BY <1>6
    <2> QED BY <1>6, <1>7, <2>1
  <1> HIDE DEF more
  <1>9. \A i \in 1..Len(ms) : more[i].name = "event" /\ Shows(more[i], ms[i])
    <2>1. \A v : Report(e, "event", v).name = "event" BY DEF Report
    <2>2. \A i \in 1..Len(ms) : Shows(Report(e, "event", events[i]), ms[i])
      BY <1>6 DEF EventShows
    <2> QED BY <1>8, <2>1, <2>2
  <1>10. AllRight(reports) BY DEF ConsumerInv, ConsumerTypeOK
  <1>11. AllRight(reports')
    <2>1. reports \in Seq(Reports) /\ \A i \in 1..Len(reports) : ReportRight(reports[i])
      BY <1>10 DEF AllRight
    <2>2. /\ reports' \in Seq(Reports) /\ Len(reports') = Len(reports) + Len(more)
          /\ Len(reports) \in Nat /\ Len(more) \in Nat
          /\ \A i \in 1..Len(reports') :
               reports'[i] = IF i <= Len(reports) THEN reports[i] ELSE more[i - Len(reports)]
      <3>1. reports' = reports \o more /\ reports \in Seq(Reports) /\ more \in Seq(Reports)
        BY <1>1, <1>8, <2>1
      <3> DEFINE all == reports'
      <3>2. all = reports \o more BY <3>1
      <3> HIDE DEF all
      <3>3. /\ all \in Seq(Reports) /\ Len(all) = Len(reports) + Len(more)
            /\ Len(reports) \in Nat /\ Len(more) \in Nat
            /\ \A i \in 1..Len(all) :
                 all[i] = IF i <= Len(reports) THEN reports[i] ELSE more[i - Len(reports)]
        BY ONLY <3>1, <3>2
      <3> QED BY <3>3 DEF all
    <2>3. ASSUME NEW i \in 1..Len(reports') PROVE ReportRight(reports'[i])
      <3>1. CASE i <= Len(reports)
        <4>1. i \in 1..Len(reports) BY <2>2, <3>1
        <4> QED BY <2>1, <2>2, <3>1, <4>1
      <3>2. CASE ~(i <= Len(reports))
        <4>1. i - Len(reports) \in 1..Len(ms) BY <1>8, <2>2, <3>2
        <4> QED BY <1>6, <1>7, <1>8, <2>2, <3>2, <4>1
      <3> QED BY <3>1, <3>2
    <2> QED BY <2>2, <2>3 DEF AllRight
  <1>12. /\ gestures \in Seq(GesturesMade) /\ MeaningOf \in Seq(Seq(ActionsShown))
    BY DEF ConsumerInv, ConsumerTypeOK
  <1>13. MeaningOf' = Append(MeaningOf, ms)
    <2> DEFINE N == Len(gestures)
               t == [i \in 1..(N + 1) |-> IF i = N + 1 THEN ms ELSE Meaning(gestures[i])]
    <2>1. /\ N \in Nat /\ gestures' \in Seq(GesturesMade) /\ Len(gestures') = N + 1
          /\ gestures'[N + 1] = h /\ \A i \in 1..N : gestures'[i] = gestures[i]
          /\ DOMAIN gestures = 1..N
      BY <1>1, <1>5, <1>12
    <2>2. DOMAIN gestures' = 1..(N + 1) BY <2>1
    <2>3. MeaningOf' = [i \in 1..(N + 1) |-> Meaning(gestures'[i])]
      BY <1>2, <2>2, OfKind DEF MeaningOf
    <2>4. \A i \in 1..(N + 1) : Meaning(gestures'[i]) = t[i]
      <3>1. \A i \in 1..(N + 1) : i = N + 1 \/ (i # N + 1 /\ i \in 1..N) BY <2>1
      <3> HIDE DEF N
      <3> QED BY <2>1, <3>1 DEF ms
    <2>5. MeaningOf' = t
      <3> HIDE DEF N
      <3> QED BY <2>3, <2>4
    <2>6. Len(MeaningOf) = N /\ \A i \in 1..N : MeaningOf[i] = Meaning(gestures[i])
      <3>1. MeaningOf = [i \in 1..N |-> Meaning(gestures[i])] BY <2>1 DEF MeaningOf
      <3> HIDE DEF N
      <3> QED BY <2>1, <3>1
    <2>7. /\ Append(MeaningOf, ms) \in Seq(Seq(ActionsShown)) /\ Len(Append(MeaningOf, ms)) = N + 1
          /\ Append(MeaningOf, ms)[N + 1] = ms
          /\ \A i \in 1..N : Append(MeaningOf, ms)[i] = MeaningOf[i]
      BY <1>6, <1>12, <2>6
    <2> DEFINE u == Append(MeaningOf, ms)
    <2> HIDE DEF N, u
    <2>8. \A i \in 1..(N + 1) : u[i] = t[i]
      <3>1. \A i \in 1..(N + 1) : i = N + 1 \/ (i # N + 1 /\ i \in 1..N) BY <2>1
      <3> QED BY <2>6, <2>7, <3>1 DEF u
    <2>9. \A i \in 1..(N + 1) : u[i] \in Seq(ActionsShown) BY <2>1, <2>7 DEF u
    <2>10. Len(u) = N + 1 /\ u \in Seq(Seq(ActionsShown)) BY <2>7 DEF u
    <2>11. t \in Seq(Seq(ActionsShown)) /\ Len(t) = N + 1
      <3>1. t \in [1..(N + 1) -> Seq(ActionsShown)] BY <2>8, <2>9
      <3> HIDE DEF t
      <3> QED BY <2>1, <3>1
    <2> HIDE DEF t
    <2>12. \A i \in 1..Len(u) : u[i] = t[i] BY <2>8, <2>10
    <2>13. u = t BY <2>10, <2>11, <2>12, SeqEqual
    <2> QED BY <2>5, <2>13 DEF u
  <1>14. /\ MeantActions \in Seq(ActionsShown) /\ MeantActions' = MeantActions \o ms
         /\ MeaningOf' \in Seq(Seq(ActionsShown))
    <2>1. FlattenSeq(MeaningOf) \in Seq(ActionsShown)
          /\ FlattenSeq(Append(MeaningOf, ms)) = FlattenSeq(MeaningOf) \o ms
      BY <1>6, <1>12, FlattenMore
    <2>2. Append(MeaningOf, ms) \in Seq(Seq(ActionsShown)) BY <1>6, <1>12
    <2> QED BY <1>13, <2>1, <2>2 DEF MeantActions
  <1>15. ConsumerTypeOK'
    <2>1. AllRight(reports)' BY <1>2, <1>11, OfKind
    <2>2. gestures' \in Seq(GesturesMade) BY <1>1, <1>5, <1>12
    <2>3. (\A i \in 1..Len(commands) : CommandRight(commands[i]))'
      BY <1>2 DEF ConsumerInv, ConsumerTypeOK
    <2> QED BY <1>2, <1>14, <2>1, <2>2, <2>3 DEF ConsumerInv, ConsumerTypeOK
  <1>16. Settled(Now)' BY <1>2, OfKind DEF ConsumerInv, Now
  <1>17. ValuesComing'
    <2>1. \A x \in Endpoints : asked'[x]["action"] = Unset /\ asked'[x]["count"] = Unset
      BY <1>2 DEF ConsumerInv, ValuesComing
    <2>2. ASSUME NEW x \in Endpoints, NEW nm \in SubscribedValues
          PROVE  ComingOf(x, nm, reports', attribute'[x][nm], latest'[x][nm], asked'[x][nm])
      <3>1. ComingOf(x, nm, reports, attribute[x][nm], latest[x][nm], asked[x][nm])
        BY DEF ConsumerInv, ValuesComing
      <3>2. reports \in Seq(Reports) BY <1>10 DEF AllRight
      <3>3. \A i \in 1..Len(more) : more[i].name = "event" BY <1>8, <1>9
      <3>4. ComingOf(x, nm, reports', attribute[x][nm], latest[x][nm], asked[x][nm])
        BY <1>1, <1>8, <3>1, <3>2, <3>3, ComingStill, SubscribedAre
      <3> QED BY <1>2, <3>4
    <2> QED BY <2>1, <2>2 DEF ValuesComing
  <1>18. GesturesComing'
    <2>1. PICK c : StillComing(c, reports, actions, MeantActions) BY DEF ConsumerInv, GesturesComing
    <2>2. reports \in Seq(Reports) BY <1>10 DEF AllRight
    <2> DEFINE all == MeantActions \o ms
    <2>3. \E d : StillComing(d, reports', actions, all)
      <3>1. all = MeantActions \o ms /\ reports' = reports \o more /\ Len(more) = Len(ms)
        BY <1>1, <1>8
      <3>2. MeantActions \in Seq(ActionsShown) /\ ms \in Seq(ActionsShown) /\ more \in Seq(Reports)
        BY <1>6, <1>8, <1>14
      <3> HIDE DEF all
      <3>3. ShowAll(more, ms) BY <1>9, <3>1 DEF ShowAll
      <3> DEFINE rs == reports \o more
      <3>4. \E d : StillComing(d, rs, actions, all)
        <4>1. all = MeantActions \o ms BY <3>1
        <4> QED BY <2>1, <2>2, <3>2, <3>3, <4>1, WayOfGesture
      <3> HIDE DEF rs
      <3>5. reports' = rs BY <3>1 DEF rs
      <3> QED BY <3>4, <3>5
    <2>4. PICK d : StillComing(d, reports', actions, all) BY <2>3
    <2>5. StillComing(d, reports, actions, MeantActions)' BY <1>2, <1>14, <2>4, OfKind DEF StillComing
    <2>6. Right(actions, all)
      <3>1. Right(actions, MeantActions) BY DEF ConsumerInv, GesturesComing
      <3>2. Len(actions) <= Len(MeantActions) /\ Len(actions) \in Nat /\ Len(MeantActions) \in Nat
        <4>1. actions \in Seq(ActionsShown) BY DEF ConsumerInv, Settled, States, Now
        <4>2. c[0] = Len(actions) /\ c[0] \in 0..Len(MeantActions)
          <5>1. 0 \in 0..Len(reports) BY <2>2
          <5> QED BY <2>1, <5>1 DEF StillComing
        <4> QED BY <1>14, <4>1, <4>2
      <3>3. \A i \in 1..Len(actions) : all[i] = MeantActions[i]
        <4>1. \A i \in 1..Len(actions) : i \in 1..Len(MeantActions) BY <3>2
        <4>2. \A i \in 1..Len(MeantActions) : all[i] = MeantActions[i]
          BY ONLY <1>6, <1>14
        <4> HIDE DEF all
        <4> QED BY <4>1, <4>2
      <3> HIDE DEF all
      <3> QED BY <3>1, <3>3 DEF Right
    <2>7. Right(actions, MeantActions)' BY <1>2, <1>14, <2>6, OfKind
    <2> QED BY <2>5, <2>7 DEF GesturesComing
  <1> QED BY <1>15, <1>16, <1>17, <1>18 DEF ConsumerInv

-----------------------------------------------------------------------------
(* Of some numbers up to another there is a last one.                        *)
LEMMA LastOne ==
  ASSUME NEW n \in Nat, NEW S, S \subseteq 1..n, S # {}
  PROVE  \E i \in S : \A j \in S : j <= i
  <1> DEFINE T == {n - j : j \in S}
  <1>0. \A j \in S : j \in 1..n OBVIOUS
  <1>00. \A j \in 1..n : n - j \in Nat OBVIOUS
  <1>1. T \subseteq Nat /\ T # {}
    <2>1. \A j \in S : n - j \in Nat BY <1>0, <1>00
    <2> QED BY <2>1
  <1>2. PICK m \in T : \A k \in T : m <= k
    <2> HIDE DEF T
    <2> QED BY <1>1, LeastNumber
  <1>3. PICK i \in S : m = n - i OBVIOUS
  <1>4. ASSUME NEW j \in S PROVE j <= i
    <2>1. n - j \in T OBVIOUS
    <2>2. n - i <= n - j BY <1>2, <1>3, <2>1
    <2>3. i \in Int /\ j \in Int OBVIOUS
    <2> QED BY <2>2, <2>3
  <1> QED BY <1>4

(* The first n of all reports, and the rest of them.                         *)
InTwo(all, n, some, rest) ==
  /\ {all, some, rest} \subseteq Seq(Reports) /\ n \in Nat /\ n <= Len(all)
  /\ Len(some) = n /\ \A i \in 1..n : some[i] = all[i]
  /\ Len(rest) = Len(all) - n /\ \A i \in 1..(Len(all) - n) : rest[i] = all[n + i]

(* Once the first n reports are handled, the rest still tells what an        *)
(* attribute is, or it is shown.                                             *)
LEMMA ComingRest ==
  ASSUME NEW all, NEW n, NEW some, NEW rest, InTwo(all, n, some, rest),
         NEW now, NEW h, ShownAfter(now, h, some, n),
         NEW x \in Endpoints, NEW name \in AttributeNames, NEW have, NEW wish,
         ComingOf(x, name, all, have, now.latest[x][name], wish)
  PROVE  ComingOf(x, name, rest, have, h.latest[x][name], wish)
  <1> DEFINE N == Len(all)
             L == N - n
  <1>1. N \in Nat /\ n \in Nat /\ L \in Nat /\ N = n + L /\ Len(rest) = L BY DEF InTwo
  <1>30. (\A i \in 1..n : some[i] = all[i]) /\ \A i \in 1..L : rest[i] = all[n + i]
    BY DEF InTwo
  <1>2. /\ \A i \in 1..n : i \in 1..N /\ (Of(some, i, x, name) <=> Of(all, i, x, name))
        /\ \A i \in 1..L : n + i \in 1..N /\ (Of(rest, i, x, name) <=> Of(all, n + i, x, name))
    <2> HIDE DEF N, L
    <2>1. \A i \in 1..n : i \in 1..N BY <1>1
    <2>2. \A i \in 1..L : n + i \in 1..N BY <1>1
    <2> QED BY <1>30, <2>1, <2>2 DEF Of
  <1>3. /\ \A i \in 1..N : LastOf(all, N, i, x, name) => all[i].value = have
        /\ wish # Unset =>
             /\ (\A i \in 1..N : ~Of(all, i, x, name)) => now.latest[x][name] = Parsed(name, have)
             /\ AsAsked(name, Parsed(name, have), wish)
    BY DEF ComingOf
  <1> HIDE DEF L, N
  <1>31. \A j \in 1..N : j \in 1..n \/ (j - n \in 1..L /\ j = n + (j - n) /\ n < j) BY <1>1
  <1>4. ASSUME NEW i \in 1..L, LastOf(rest, L, i, x, name) PROVE rest[i].value = have
    <2>1. Of(all, n + i, x, name) /\ n + i \in 1..N BY <1>2, <1>4 DEF LastOf
    <2>2. ASSUME NEW j \in 1..N, Of(all, j, x, name) PROVE j <= n + i
      <3>1. CASE j \in 1..n BY <1>1, <3>1
      <3>2. CASE j - n \in 1..L /\ j = n + (j - n)
        <4>1. PICK k \in 1..L : k = j - n BY <3>2
        <4>2. Of(rest, k, x, name) BY <1>2, <2>2, <3>2, <4>1
        <4>3. k <= i BY <1>4, <4>2 DEF LastOf
        <4> QED BY <1>1, <3>2, <4>1, <4>3
      <3> QED BY <1>31, <3>1, <3>2
    <2>3. LastOf(all, N, n + i, x, name) BY <2>1, <2>2 DEF LastOf
    <2> QED BY <1>3, <1>30, <2>1, <2>3
  <1>5. ASSUME wish # Unset, \A i \in 1..L : ~Of(rest, i, x, name)
        PROVE  h.latest[x][name] = Parsed(name, have)
    <2>1. \A j \in 1..N : Of(all, j, x, name) => j \in 1..n
      <3>1. ASSUME NEW j \in 1..N, Of(all, j, x, name), j \notin 1..n PROVE FALSE
        <4>1. PICK k \in 1..L : k = j - n BY <1>31, <3>1
        <4>2. j = n + k BY <1>31, <3>1, <4>1
        <4> QED BY <1>2, <1>5, <3>1, <4>2
      <3> QED BY <3>1
    <2>2. CASE \A i \in 1..n : ~Of(some, i, x, name)
      <3>1. \A i \in 1..N : ~Of(all, i, x, name) BY <1>2, <2>1, <2>2
      <3>2. now.latest[x][name] = Parsed(name, have) BY <1>3, <1>5, <3>1
      <3>3. h.latest[x][name] = now.latest[x][name] BY <2>2 DEF ShownAfter
      <3> QED BY <3>2, <3>3
    <2>3. CASE \E i \in 1..n : Of(some, i, x, name)
      <3> DEFINE S == {i \in 1..n : Of(some, i, x, name)}
      <3>1. S \subseteq 1..n /\ S # {} BY <2>3
      <3>2. PICK i \in S : \A j \in S : j <= i
        <4> HIDE DEF S
        <4> QED BY <1>1, <3>1, LastOne
      <3>3. i \in 1..n /\ LastOf(some, n, i, x, name) BY <3>2 DEF LastOf
      <3>4. h.latest[x][name] = Parsed(name, some[i].value) BY <3>3 DEF ShownAfter
      <3>5. LastOf(all, N, i, x, name)
        <4>1. \A j \in 1..N : Of(all, j, x, name) => j \in 1..n /\ Of(some, j, x, name)
          BY <1>2, <2>1
        <4>2. Of(all, i, x, name) BY <1>2, <3>3 DEF LastOf
        <4> QED BY <3>3, <4>1, <4>2 DEF LastOf
      <3>6. all[i].value = have BY <1>2, <1>3, <3>3, <3>5
      <3>7. some[i] = all[i] BY <1>30, <3>3
      <3> QED BY <3>4, <3>6, <3>7
    <2> QED BY <2>2, <2>3
  <1> QED BY <1>1, <1>3, <1>4, <1>5 DEF ComingOf

(* The first reports are handled, the attributes among them before the events. *)
LEMMA HandleReportStep ==
  ASSUME ConsumerInv, NEW n \in Nat, HandleReport(n)
  PROVE  ConsumerInv'
  <1> DEFINE N == Len(reports)
             some == SubSeq(reports, 1, n)
             rest == SubSeq(reports, n + 1, N)
             h1 == Handled(Now, some, Names)
             h2 == Handled(h1, some, {"event"})
             meant == MeantActions
  <1>1. /\ n <= N /\ reports' = rest /\ Becomes(h2)
        /\ UNCHANGED <<kind, attribute, commands, asked, gestures>>
    BY DEF HandleReport
  <1>2. N \in Nat /\ reports \in Seq(Reports) /\ \A i \in 1..N : ReportRight(reports[i])
    BY DEF ConsumerInv, ConsumerTypeOK, AllRight
  <1>3. some \in Seq(Reports) /\ Len(some) = n /\ \A i \in 1..n : some[i] = reports[i]
    <2>1. SubSeq(reports, 0 + 1, 0 + n) \in Seq(Reports) /\ Len(SubSeq(reports, 0 + 1, 0 + n)) = n
          /\ \A i \in 1..n : SubSeq(reports, 0 + 1, 0 + n)[i] = reports[0 + i]
      <3>1. 0 + n <= Len(reports) BY <1>1
      <3>2. 0 \in Nat OBVIOUS
      <3> QED BY <1>2, <3>1, <3>2, PieceIs
    <2>2. 0 + 1 = 1 /\ 0 + n = n OBVIOUS
    <2>3. \A i \in 1..n : 0 + i = i OBVIOUS
    <2> QED BY <2>1, <2>2, <2>3
  <1>4. rest \in Seq(Reports) /\ Len(rest) = N - n /\ \A i \in 1..(N - n) : rest[i] = reports[n + i]
    <2>1. N - n \in Nat /\ n + (N - n) = N BY <1>1, <1>2
    <2> DEFINE k == N - n
    <2>2. k \in Nat /\ n + k = Len(reports) BY <2>1
    <2> HIDE DEF k
    <2>3. SubSeq(reports, n + 1, n + k) \in Seq(Reports) /\ Len(SubSeq(reports, n + 1, n + k)) = k
          /\ \A i \in 1..k : SubSeq(reports, n + 1, n + k)[i] = reports[n + i]
      <3>1. n + k <= Len(reports) BY <2>2
      <3> QED BY <1>2, <2>2, <3>1, PieceIs
    <2>4. n + k = N BY <2>2
    <2> QED BY <2>3, <2>4 DEF k
  <1> HIDE DEF some, rest, N
  <1>5. AllRight(some)
    <2>1. \A i \in 1..n : i \in 1..N BY <1>1, <1>2
    <2> QED BY <1>2, <1>3, <2>1 DEF AllRight
  <1>6. AllRight(rest)
    <2>1. \A i \in 1..(N - n) : n + i \in 1..N BY <1>1, <1>2
    <2> QED BY <1>2, <1>4, <2>1 DEF AllRight
  <1>7. Settled(h1) /\ ShownAfter(Now, h1, some, n)
    <2>1. Settled(Now) BY DEF ConsumerInv
    <2> QED BY <1>3, <1>5, <2>1, AttributesHandled
  <1>8. PICK c : StillComing(c, reports, actions, meant) BY DEF ConsumerInv, GesturesComing
  <1>9. Right(actions, meant) BY DEF ConsumerInv, GesturesComing
  <1>10. h1.actions = actions BY <1>7 DEF ShownAfter, Now
  <1> HIDE DEF h1, h2
  <1>11. Settled(h2) /\ ShownUpto(h1, h2, meant, c[n])
    <2>1. c[0] = Len(h1.actions) BY <1>8, <1>10 DEF StillComing
    <2>2. ASSUME NEW i \in 1..Len(some) PROVE Counts(c, some, meant, i)
      <3>1. i \in 1..N /\ some[i] = reports[i] BY <1>1, <1>2, <1>3
      <3>2. Counts(c, reports, meant, i) BY <1>8, <3>1 DEF StillComing, N
      <3> QED BY <3>1, <3>2 DEF Counts
    <2>3. Right(h1.actions, meant) BY <1>9, <1>10
    <2> HIDE DEF meant
    <2> QED BY <1>3, <1>5, <1>7, <2>1, <2>2, <2>3, EventsHandled DEF h2
  <1>12. value' = h2.value /\ latest' = h2.latest /\ actions' = h2.actions BY <1>1 DEF Becomes
  <1>13. Settled(Now)'
    <2>1. h2 = [value |-> h2.value, latest |-> h2.latest, actions |-> h2.actions]
      BY <1>11 DEF Settled, States
    <2>2. Now' = h2 BY <1>12, <2>1 DEF Now
    <2> QED BY <1>1, <1>11, <2>2, OfKind
  <1>14. MeaningOf' = MeaningOf /\ MeantActions' = meant BY <1>1, MeantSame
  <1>15. ConsumerTypeOK'
    <2>1. AllRight(reports)' BY <1>1, <1>6, OfKind
    <2>2. (\A i \in 1..Len(commands) : CommandRight(commands[i]))'
      BY <1>1 DEF ConsumerInv, ConsumerTypeOK
    <2> QED BY <1>1, <1>14, <2>1, <2>2 DEF ConsumerInv, ConsumerTypeOK
  <1>16. ValuesComing'
    <2>1. \A x \in Endpoints : asked'[x]["action"] = Unset /\ asked'[x]["count"] = Unset
      BY <1>1 DEF ConsumerInv, ValuesComing
    <2>2. ASSUME NEW x \in Endpoints, NEW nm \in SubscribedValues
          PROVE  ComingOf(x, nm, reports', attribute'[x][nm], latest'[x][nm], asked'[x][nm])
      <3>0. nm \in AttributeNames BY SubscribedAre
      <3>1. ComingOf(x, nm, reports, attribute[x][nm], Now.latest[x][nm], asked[x][nm])
        BY DEF ConsumerInv, ValuesComing, Now
      <3>2. ComingOf(x, nm, rest, attribute[x][nm], h1.latest[x][nm], asked[x][nm])
        <4>1. InTwo(reports, n, some, rest)
          BY <1>1, <1>2, <1>3, <1>4 DEF N, InTwo
        <4> QED BY <1>7, <3>0, <3>1, <4>1, ComingRest
      <3>3. latest'[x][nm] = h1.latest[x][nm] BY <1>11, <1>12, <3>0 DEF ShownUpto
      <3> QED BY <1>1, <3>2, <3>3
    <2> QED BY <2>1, <2>2 DEF ValuesComing
  <1>17. GesturesComing'
    <2> DEFINE L == N - n
               d == [i \in 0..L |-> c[n + i]]
    <2>1. /\ c \in [0..N -> 0..Len(meant)] /\ c[N] = Len(meant)
          /\ \A i \in 1..N : Counts(c, reports, meant, i)
      BY <1>8 DEF StillComing, N
    <2>2. L \in Nat /\ n + L = N /\ Len(rest) = L BY <1>1, <1>2, <1>4
    <2>3. \A i \in 1..L : rest[i] = reports[n + i] BY <1>4
    <2> HIDE DEF L, meant
    <2>4. \A i \in 0..L : n + i \in 0..N /\ d[i] = c[n + i] BY <1>2, <2>2
    <2>5. d \in [0..L -> 0..Len(meant)] BY <2>1, <2>4
    <2> HIDE DEF d
    <2>6. d[0] = c[n] /\ d[L] = Len(meant)
      <3>1. 0 \in 0..L /\ L \in 0..L /\ n + 0 = n BY <2>2
      <3> QED BY <2>1, <2>2, <2>4, <3>1
    <2>7. ASSUME NEW i \in 1..L PROVE Counts(d, rest, meant, i)
      <3>1. n + i \in 1..N /\ i \in 0..L /\ i - 1 \in 0..L /\ n + (i - 1) = (n + i) - 1
        BY <1>2, <2>2
      <3>2. Counts(c, reports, meant, n + i) BY <2>1, <3>1
      <3>3. d[i] = c[n + i] /\ d[i - 1] = c[(n + i) - 1] /\ rest[i] = reports[n + i]
        BY <2>3, <2>4, <3>1
      <3> QED BY <3>2, <3>3 DEF Counts
    <2>8. Len(h2.actions) = c[n] /\ Right(h2.actions, meant) BY <1>11 DEF ShownUpto
    <2>9. StillComing(d, rest, h2.actions, meant)
      BY <2>2, <2>5, <2>6, <2>7, <2>8 DEF StillComing
    <2>10. Right(actions, MeantActions)'
      <3>1. Right(actions', meant) BY <1>12, <2>8
      <3> QED BY <1>1, <1>14, <3>1, OfKind
    <2>11. StillComing(d, reports, actions, MeantActions)'
      <3>1. StillComing(d, reports', actions', meant) BY <1>1, <1>12, <2>9
      <3> QED BY <1>1, <1>14, <3>1, OfKind DEF StillComing
    <2> QED BY <2>10, <2>11 DEF GesturesComing
  <1> QED BY <1>13, <1>15, <1>16, <1>17 DEF ConsumerInv

(* What the variables say stays true when they stay.                         *)
LEMMA ConsumerStays ==
  ASSUME ConsumerInv, UNCHANGED consumerVars
  PROVE  ConsumerInv'
  <1>1. UNCHANGED <<kind, value, latest, actions, attribute, commands, reports, asked, gestures>>
    BY DEF consumerVars
  <1>2. ConsumerTypeOK'
    <2>1. AllRight(reports)' BY <1>1, OfKind DEF ConsumerInv, ConsumerTypeOK
    <2>2. MeaningOf' \in Seq(Seq(ActionsShown)) BY <1>1, MeantSame DEF ConsumerInv, ConsumerTypeOK
    <2> QED BY <1>1, <2>1, <2>2 DEF ConsumerInv, ConsumerTypeOK
  <1>3. Settled(Now)' BY <1>1, OfKind DEF ConsumerInv, Now
  <1>4. ValuesComing' BY <1>1 DEF ConsumerInv, ValuesComing
  <1>5. GesturesComing' BY <1>1, GesturesSame
  <1> QED BY <1>2, <1>3, <1>4, <1>5 DEF ConsumerInv

(* Every step keeps the invariant.                                           *)
LEMMA ConsumerKept == ConsumerInv /\ [ConsumerNext]_consumerVars => ConsumerInv'
  <1> SUFFICES ASSUME ConsumerInv, [ConsumerNext]_consumerVars PROVE ConsumerInv' OBVIOUS
  <1>1. ASSUME NEW name \in Names \ {"action", "count"}, NEW v \in Wanted(name),
               NEW es \in {Endpoints} \cup {{e} : e \in Endpoints}, DeviceAction(es, name, v)
        PROVE  ConsumerInv'
    BY <1>1, DeviceActionStep DEF AttributeNames
  <1>2. ASSUME NEW name \in Names \ {"action", "count"}, NEW e \in Endpoints, ByHand(e, name)
        PROVE  ConsumerInv'
    BY <1>2, ByHandStep DEF AttributeNames
  <1>3. ASSUME NEW n \in 1..3, HandleReport(n) PROVE ConsumerInv'
    BY <1>3, HandleReportStep
  <1>4. CASE UpdateProperties BY <1>4, UpdatePropertiesStep
  <1>5. CASE DeviceDoes BY <1>5, DeviceDoesStep
  <1>6. ASSUME NEW e \in Endpoints, NEW g \in Gestures(kind[e]), Gesture(e, g) PROVE ConsumerInv'
    BY <1>6, GestureStep
  <1>7. CASE UNCHANGED consumerVars BY <1>7, ConsumerStays
  <1> QED BY <1>1, <1>2, <1>3, <1>4, <1>5, <1>6, <1>7 DEF ConsumerNext

(* For every device, with any number of endpoints and switches, any number of *)
(* commands, gestures and changes by hand, and however the reports come       *)
(* together: of the values that buildSubscribePaths asks for, what a command  *)
(* asked for is shown in the end, and each gesture is shown once, in order,   *)
(* as an action that was offered.                                            *)
THEOREM UserAlwaysRight == ConsumerSpec => []UserRight
  <1>1. ConsumerInit => ConsumerInv BY ConsumerStarts
  <1>2. ConsumerInv /\ [ConsumerNext]_consumerVars => ConsumerInv' BY ConsumerKept
  <1>3. ConsumerInv => UserRight BY InvShowsUserRight
  <1> QED BY <1>1, <1>2, <1>3, PTL DEF ConsumerSpec

=============================================================================
