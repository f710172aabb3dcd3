------------------------------- MODULE Sharing -------------------------------
(***************************************************************************)
(* Sharing a device with another controller (shareDevice, and the answers  *)
(* to it in handleInteractionModel): a passcode is drawn, a TimedRequest   *)
(* announces the command, OpenCommissioningWindow gives the device the     *)
(* verifier of the passcode, and its answer hands the codes to the user.   *)
(*                                                                         *)
(* Abstractions.  A verifier is the passcode it is of.  MRP either brings  *)
(* a message once or loses it.  A session that is replaced is a new number *)
(* (module Connection), and what comes under an old one is not for it.     *)
(***************************************************************************)
EXTENDS SetupCode

CONSTANTS
  Devices,         \* the devices that may be shared
  Passcodes,       \* what may be drawn
  Discriminators,  \* likewise
  MaxShares,       \* bound: commands of the user
  MaxSessions,     \* bound: sessions of a device
  Unshared         \* no share, no window

Share == [passcode : Passcodes, exchange : Nat, discriminator : Discriminators,
          timedInvokePending : BOOLEAN]

ASSUME SharingAssumption ==
  /\ Passcodes \subseteq 1..LastPasscode
  /\ Discriminators \subseteq 0..4095

ASSUME SharesAssumption ==
  /\ {MaxShares, MaxSessions} \subseteq Nat
  /\ Unshared \notin Share

VARIABLES
  active,     \* SessionInfo::active of a device
  session,    \* its latest session
  share,      \* m_pendingShares
  verifier,   \* m_shareVerifiers, with salts and iterations
  wire,       \* messages of the two
  shares,     \* shares so far
  announced,  \* device: the exchange of the TimedRequest it took, or 0
  window,     \* device: the commissioning window that is open
  opened,     \* history: windows that were opened
  given       \* history: codes given to the user

deviceVars == <<announced, window, opened>>
sharingVars == <<active, session, share, verifier, wire, shares, deviceVars, given>>

To(d, type, content) ==
  [device |-> d, session |-> session[d], type |-> type, content |-> content]

SharingInit ==
  /\ active = [d \in Devices |-> TRUE]
  /\ session = [d \in Devices |-> 1]
  /\ share = [d \in Devices |-> Unshared]
  /\ verifier = [d \in Devices |-> Unshared]
  /\ wire = {}
  /\ shares = 0
  /\ announced = [d \in Devices |-> 0]
  /\ window = [d \in Devices |-> Unshared]
  /\ opened = {}
  /\ given = {}

(* Mutant of MayShare: a share that is pending does not matter. *)
MayShareAgain(d) == active[d]
MayShare(d) == active[d] /\ share[d] = Unshared

(* shareDevice.  The commands of one device differ in their exchange. *)
ShareDevice(d) ==
  /\ MayShare(d)
  /\ shares < MaxShares
  /\ shares' = shares + 1
  /\ \E passcode \in Passcodes, discriminator \in Discriminators :
       /\ share' = [share EXCEPT ![d] = [passcode |-> passcode, exchange |-> shares',
                      discriminator |-> discriminator, timedInvokePending |-> TRUE]]
       /\ verifier' = [verifier EXCEPT ![d] = passcode]
  /\ wire' = wire \cup {To(d, "TimedRequest", shares')}
  /\ UNCHANGED <<active, session, deviceVars, given>>

(* handleInteractionModel, StatusResponse 0: whichever request it answers. *)
HandleStatusResponse(k) ==
  LET d == k.device
  IN
  /\ k \in wire
  /\ k.type = "StatusResponse"
  /\ IF k.content.ok /\ k.session = session[d] /\ share[d] # Unshared
        /\ share[d].timedInvokePending
     THEN /\ share' = [share EXCEPT ![d].timedInvokePending = FALSE]
          /\ verifier' = [verifier EXCEPT ![d] = Unshared]
          /\ wire' = (wire \ {k}) \cup {To(d, "InvokeRequest",
                       [exchange |-> share[d].exchange, verifier |-> verifier[d],
                        discriminator |-> share[d].discriminator])}
     ELSE wire' = wire \ {k} /\ UNCHANGED <<share, verifier>>
  /\ UNCHANGED <<active, session, shares, deviceVars, given>>

(* handleInteractionModel, InvokeResponse of AdministratorCommissioning. *)
HandleInvokeResponse(k) ==
  LET d == k.device
  IN
  /\ k \in wire
  /\ k.type = "InvokeResponse"
  /\ wire' = wire \ {k}
  /\ IF k.session = session[d] /\ share[d] # Unshared
     THEN /\ share' = [share EXCEPT ![d] = Unshared]
          /\ given' = IF ~k.content.ok THEN given
                      ELSE given \cup {[device |-> d,
                        manual |-> GenerateManualCode(share[d].passcode, share[d].discriminator),
                        qr |-> GenerateQRCode(share[d].passcode, share[d].discriminator)]}
     ELSE UNCHANGED <<share, given>>
  /\ UNCHANGED <<active, session, verifier, shares, deviceVars>>

(* The session is marked inactive, and a CASE brings another. *)
LoseSession(d) ==
  /\ active[d]
  /\ session[d] < MaxSessions
  /\ active' = [active EXCEPT ![d] = FALSE]
  /\ UNCHANGED <<session, share, verifier, wire, shares, deviceVars, given>>

NewSession(d) ==
  /\ ~active[d]
  /\ active' = [active EXCEPT ![d] = TRUE]
  /\ session' = [session EXCEPT ![d] = @ + 1]
  /\ UNCHANGED <<share, verifier, wire, shares, deviceVars, given>>

(* The device takes a TimedRequest or refuses it, and opens one window at a *)
(* time for a command that was announced on the same exchange and comes in  *)
(* time.                                                                    *)
DeviceAnnounced(k, ok) ==
  /\ k \in wire
  /\ k.type = "TimedRequest"
  /\ announced' = [announced EXCEPT ![k.device] = IF ok THEN k.content ELSE @]
  /\ wire' = (wire \ {k}) \cup
       {[k EXCEPT !.type = "StatusResponse", !.content = [exchange |-> k.content, ok |-> ok]]}
  /\ UNCHANGED <<active, session, share, verifier, shares, window, opened, given>>

DeviceInvoked(k, inTime) ==
  LET d == k.device
      opens == inTime /\ window[d] = Unshared
      asked == [device |-> d, verifier |-> k.content.verifier,
                discriminator |-> k.content.discriminator]
      answer(type, content) == [k EXCEPT !.type = type, !.content = content]
  IN
  /\ k \in wire
  /\ k.type = "InvokeRequest"
  /\ announced' = [announced EXCEPT ![d] = 0]
  /\ IF announced[d] = k.content.exchange /\ inTime
     THEN /\ wire' = (wire \ {k}) \cup {answer("InvokeResponse", [ok |-> opens])}
          /\ window' = [window EXCEPT ![d] = IF opens THEN asked ELSE @]
          /\ opened' = IF opens THEN opened \cup {asked} ELSE opened
     ELSE wire' = wire \ {k} /\ UNCHANGED <<window, opened>>
  /\ UNCHANGED <<active, session, share, verifier, shares, given>>

(* Its time is up, or a controller has come through it. *)
DeviceCloses(d) ==
  /\ window[d] # Unshared
  /\ window' = [window EXCEPT ![d] = Unshared]
  /\ UNCHANGED <<active, session, share, verifier, wire, shares, announced, opened, given>>

Lose(k) ==
  /\ k \in wire
  /\ wire' = wire \ {k}
  /\ UNCHANGED <<active, session, share, verifier, shares, deviceVars, given>>

SharingNext ==
  \/ \E d \in Devices :
       ShareDevice(d) \/ LoseSession(d) \/ NewSession(d) \/ DeviceCloses(d)
  \/ \E k \in wire :
       HandleStatusResponse(k) \/ HandleInvokeResponse(k) \/ Lose(k)
  \/ \E k \in wire, b \in BOOLEAN : DeviceAnnounced(k, b) \/ DeviceInvoked(k, b)

SharingSpec == SharingInit /\ [][SharingNext]_sharingVars

-----------------------------------------------------------------------------
(* Types, of what SharedOpens is about. *)
SharingTypes ==
  /\ active \in [Devices -> BOOLEAN]
  /\ session \in [Devices -> Nat]
  /\ share \in [Devices -> Share \cup {Unshared}]
  /\ verifier \in [Devices -> Passcodes \cup {Unshared}]
  /\ shares \in 0..MaxShares
  /\ \A w \in opened : w.verifier \in Passcodes /\ w.discriminator \in Discriminators

(* A share has one message on its way: what comes next of it, as it is       *)
(* remembered.                                                               *)
OfShare(k) ==
  LET s == share[k.device] IN
  /\ k = [device |-> k.device, session |-> k.session, type |-> k.type, content |-> k.content]
  /\ k.device \in Devices /\ s # Unshared
  /\ s.timedInvokePending => verifier[k.device] = s.passcode
  /\ k.type \in {"TimedRequest", "StatusResponse"} => s.timedInvokePending
  /\ k.type = "InvokeRequest" =>
       k.content.verifier = s.passcode /\ k.content.discriminator = s.discriminator
  /\ k.type = "InvokeResponse" /\ k.content.ok =>
       [device |-> k.device, verifier |-> s.passcode, discriminator |-> s.discriminator] \in opened

OneMessage ==
  /\ \A k \in wire : OfShare(k)
  /\ \A k, l \in wire : k.device = l.device => k = l

(* The codes that were handed out are those of a window that was opened.     *)
CodesOfWindow ==
  \A g \in given :
    \E w \in opened : g = [device |-> w.device,
                          manual |-> GenerateManualCode(w.verifier, w.discriminator),
                          qr |-> GenerateQRCode(w.verifier, w.discriminator)]

SharingInv == SharingTypes /\ OneMessage /\ CodesOfWindow

(* Both codes of a passcode and a discriminator are read as these two.       *)
CodesRead ==
  \A passcode \in Passcodes, discriminator \in Discriminators :
    \A search \in {ParseManualCode(GenerateManualCode(passcode, discriminator)),
                    ParseQRCode(GenerateQRCode(passcode, discriminator))} :
      search.passcode = passcode /\ Matches(search, discriminator)

(* Whoever enters a code that was handed out finds the device by it and      *)
(* knows the passcode of a window that was opened there, whichever of the    *)
(* two codes it is: sessions that were replaced, answers that were lost and  *)
(* a second command do not make the device and the user hear of two codes.   *)
SharedOpens ==
  \A g \in given :
    \E w \in opened :
      /\ w.device = g.device
      /\ \A search \in {ParseManualCode(g.manual), ParseQRCode(g.qr)} :
           search.passcode = w.verifier /\ Matches(search, w.discriminator)
=============================================================================
