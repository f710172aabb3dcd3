------------------------------ MODULE Discovery ------------------------------
(***************************************************************************)
(* What the controller learns of one device and what it subscribes to      *)
(* (matter.cpp, device.cpp): three reads, of PartsList, of the ServerLists *)
(* and of the attributes the exposes depend on, then the endpoints are set *)
(* up and a subscription is asked for.                                     *)
(*                                                                         *)
(* Abstractions.  An endpoint is either plain or one of wants, whose       *)
(* clusters make step 3 read attributes of it; what is read is kept as     *)
(* meta.  A device has the same endpoints all the time and answers a read  *)
(* with one report.  Attribute values and the exposes themselves are left  *)
(* out.  Getting and losing the session is the module Connection.          *)
(***************************************************************************)
EXTENDS Naturals, FiniteSets, FiniteSetsExt

CONSTANTS
  Endpoints,    \* endpoints of the device, the root among them
  Battery,      \* it has a PowerSource cluster: its session is kept
  Thread,       \* it is behind the border router
  MaxAsk,       \* bound: requests in flight
  MaxLost,      \* bound: sessions lost
  MaxCommands,  \* bound: discoverDevice commands
  MaxRestarts   \* bound: restarts of the service

ASSUME DiscoveryAssumption ==
  /\ IsFiniteSet(Endpoints) /\ Endpoints # {}
  /\ {Battery, Thread} \subseteq BOOLEAN
  /\ {MaxAsk, MaxLost, MaxCommands, MaxRestarts} \subseteq Nat

VARIABLES
  wants,        \* the endpoints with clusters that step 3 asks about
  up,           \* there is a session
  threadReady,  \* m_threadReady
  known,        \* DeviceObject::endpoints, with their clusters
  meta,         \* EndpointObject::meta is filled
  setups,       \* how often the properties of an endpoint were appended
  battery,      \* DeviceObject::batteryPowered
  primed,       \* DeviceObject::subscriptionPrimed
  asked,        \* what was asked on the session and is not answered yet
  standing,     \* environment: endpoints of the device's subscription
  discoveries,  \* history: what may have set the endpoints up (below)
  crossed,      \* history: primed speaks of more than one subscription
  carried,      \* history: a subscription was in flight over the last restart
  lost, commands, restarts  \* bounds

deviceVars == <<known, meta, setups, battery>>
askVars == <<asked, standing, primed, crossed, carried>>
boundVars == <<lost, commands, restarts>>
vars == <<wants, up, threadReady, deviceVars, askVars, discoveries, boundVars>>

-----------------------------------------------------------------------------
(* parts, servers and meta are the three reads.  A subscription is first a  *)
(* request, then the priming report, then its SubscribeResponse.            *)
ReadKinds == {"parts", "servers", "meta"}
SubscriptionKinds == {"subscribe", "priming", "response"}
Request ==
  [id : 1..MaxAsk, kind : ReadKinds \cup SubscriptionKinds, about : SUBSET Endpoints]

Reads == {r \in asked : r.kind \in ReadKinds}
Subscribing == \E r \in asked : r.kind \in SubscriptionKinds

(* There is a way to the device. *)
Routed == Thread => threadReady

(* sendEncrypted: one more request in flight. *)
Ask(kind, about) ==
  LET free == (1..MaxAsk) \ {r.id : r \in asked} IN
  /\ free # {}
  /\ asked' = asked \cup {[id |-> Min(free), kind |-> kind, about |-> about]}

(* The answer to r leads to the next request. *)
Follow(r, kind, about) ==
  asked' = (asked \ {r}) \cup {[id |-> r.id, kind |-> kind, about |-> about]}

(* Mutant of Paths: the features of an endpoint are not looked at. *)
PathsOfPlain(ks, ms) == ks \ wants

(* buildSubscribePaths, buildSubscribeEvents: the endpoints ks, of which    *)
(* ms are known in detail, as far as there is something to subscribe to.    *)
Paths(ks, ms) == (ks \ wants) \cup (ks \cap ms)

(* setupEndpoint appends the properties, actions and exposes of an endpoint  *)
(* that was set up n times.                                                  *)
SetUp(n) == n + 1

(* Mutant of Unprimed: the flag of the last subscription stays. *)
StillPrimed(p) == p

(* subscribeDevice: setSubscriptionPrimed(false), whatever it was. *)
Unprimed(p) == FALSE

(* subscribeDevice on a session that is up. *)
Subscribe(ks, ms) ==
  IF Paths(ks, ms) = {}
  THEN UNCHANGED <<asked, primed, crossed, carried>>
  ELSE /\ Ask("subscribe", Paths(ks, ms))
       /\ primed' = Unprimed(primed)
       /\ crossed' = Subscribing /\ carried' = FALSE

(* discoverDevice on a session that is up. *)
Discover == Ask("parts", {})

-----------------------------------------------------------------------------
Init ==
  /\ wants \in SUBSET Endpoints
  /\ threadReady \in BOOLEAN
  /\ up = FALSE
  /\ known = {} /\ meta = {} /\ battery = FALSE
  /\ setups = [e \in Endpoints |-> 0]
  /\ primed = TRUE /\ crossed = FALSE /\ carried = FALSE
  /\ asked = {} /\ standing = {}
  /\ discoveries = 0
  /\ lost = 0 /\ commands = 0 /\ restarts = 0

(* Mutant of Unknown: a device that was listed is not read again. *)
UnknownAtFirst == known = {} /\ lost = 0

(* caseEstablished: endpoints().isEmpty() *)
Unknown == known = {}

(* caseEstablished: discover a device that is not known, subscribe to one   *)
(* that is.  As for discoveries: the reads in flight when the endpoints were *)
(* last forgotten, reloaded or missing, one for each discovery, and one for *)
(* reloading them.                                                          *)
Establish ==
  /\ ~up /\ Routed
  /\ up' = TRUE
  /\ IF Unknown
     THEN /\ Discover /\ discoveries' = 1
          /\ UNCHANGED <<primed, crossed, carried>>
     ELSE /\ Subscribe(known, meta)
          /\ UNCHANGED discoveries
  /\ UNCHANGED <<wants, threadReady, deviceVars, standing, boundVars>>

(* A request or the session is given up: what comes late is not decrypted.  *)
SessionLost ==
  /\ up /\ lost < MaxLost
  /\ lost' = lost + 1
  /\ up' = FALSE /\ asked' = {} /\ standing' = {}
  /\ carried' = FALSE
  /\ UNCHANGED <<wants, threadReady, deviceVars, primed, crossed, discoveries, commands, restarts>>

(* endpoints().clear() *)
Forget ==
  /\ known' = {} /\ meta' = {}
  /\ setups' = [e \in Endpoints |-> 0]

(* The command discoverDevice. *)
DiscoverCommand ==
  /\ commands < MaxCommands
  /\ commands' = commands + 1
  /\ Forget
  /\ IF up THEN Discover ELSE UNCHANGED asked
  /\ discoveries' = Cardinality(Reads')
  /\ UNCHANGED <<wants, up, threadReady, battery, standing, primed, crossed, carried, lost, restarts>>

(* parse and unserialize: the endpoints ks of the file with their clusters   *)
(* and meta, each set up anew.                                               *)
Reloaded(ks) == [e \in Endpoints |-> IF e \in ks THEN SetUp(0) ELSE 0]

(* The service is stopped and started; the database is written on the way.  *)
(* The session of a battery device is restored, and with it what the device *)
(* was asked before; the device object is primed from the start, and a new  *)
(* subscription may have to wait for the border router.                     *)
Restart ==
  /\ restarts < MaxRestarts
  /\ restarts' = restarts + 1
  /\ \E ready \in BOOLEAN :
       LET keep == up /\ battery /\ known # {} IN
       /\ threadReady' = ready
       /\ up' = keep
       /\ IF keep
          THEN /\ UNCHANGED standing
               /\ IF Thread /\ ~ready
                  THEN primed' = TRUE /\ carried' = Subscribing /\ UNCHANGED <<asked, crossed>>
                  ELSE Subscribe(known, meta)
          ELSE /\ asked' = {} /\ standing' = {}
               /\ primed' = TRUE /\ crossed' = FALSE /\ carried' = FALSE
  /\ setups' = Reloaded(known)
  /\ battery' = (Battery /\ known # {})
  /\ discoveries' = (IF known = {} THEN 0 ELSE 1) + Cardinality(Reads')
  /\ UNCHANGED <<wants, known, meta, lost, commands>>

(* resumeThreadDevices: subscribe on a session that was restored. *)
ThreadUp ==
  /\ ~threadReady
  /\ threadReady' = TRUE
  /\ IF Thread /\ up /\ known # {}
     THEN Subscribe(known, meta)
     ELSE UNCHANGED <<asked, primed, crossed, carried>>
  /\ UNCHANGED <<wants, up, deviceVars, standing, discoveries, boundVars>>

-----------------------------------------------------------------------------
(* The answer to PartsList: read the ServerLists, unless something is known *)
(* by now.                                                                  *)
PartsReport(r) ==
  /\ r.kind = "parts"
  /\ IF known = {}
     THEN Follow(r, "servers", Endpoints)
     ELSE asked' = asked \ {r}
  /\ UNCHANGED <<wants, up, threadReady, deviceVars, standing, primed, crossed, carried, discoveries, boundVars>>

(* The end of a discovery with the endpoints ks, known in detail as ms: all *)
(* are set up, and subscribed to in place of request r.                     *)
Finalize(r, ks, ms) ==
  /\ setups' = [e \in Endpoints |-> IF e \in ks THEN SetUp(setups[e]) ELSE setups[e]]
  /\ battery' = Battery
  /\ IF Paths(ks, ms) = {}
     THEN asked' = asked \ {r} /\ UNCHANGED <<primed, crossed, carried>>
     ELSE /\ Follow(r, "subscribe", Paths(ks, ms))
          /\ primed' = Unprimed(primed)
          /\ crossed' = Subscribing /\ carried' = FALSE

(* What step 3 has to read. *)
NextRead(ks) == ks \cap wants

(* Mutant of ServersReport: the endpoints are set up at once, and again when *)
(* their features are known.                                                 *)
ServersReportAtOnce(r) ==
  /\ r.kind = "servers"
  /\ known' = r.about
  /\ setups' = [e \in Endpoints |-> IF e \in r.about THEN SetUp(setups[e]) ELSE setups[e]]
  /\ IF NextRead(r.about) # {}
     THEN Follow(r, "meta", NextRead(r.about))
     ELSE asked' = asked \ {r}
  /\ UNCHANGED <<wants, up, threadReady, meta, battery, primed, crossed, carried, standing, discoveries, boundVars>>

(* The answer to the ServerLists: the endpoints are registered.  addEndpoint *)
(* leaves alone what an endpoint already had.                                *)
ServersReport(r) ==
  /\ r.kind = "servers"
  /\ known' = r.about
  /\ IF NextRead(r.about) # {}
     THEN /\ Follow(r, "meta", NextRead(r.about))
          /\ UNCHANGED <<setups, battery, primed, crossed, carried>>
     ELSE Finalize(r, r.about, meta)
  /\ UNCHANGED <<wants, up, threadReady, meta, standing, discoveries, boundVars>>

(* Mutant of Registered: an endpoint that is gone is not looked for. *)
AnyEndpoint(got) == got

(* The endpoints among got that are registered. *)
Registered(got) == got \cap known

(* The answer to step 3, in which some attributes may be errors.  What is   *)
(* about no registered endpoint is dropped.                                 *)
MetaReport(r) ==
  /\ r.kind = "meta"
  /\ \E got \in SUBSET r.about :
       /\ meta' = meta \cup Registered(got)
       /\ IF Registered(got) # {}
          THEN Finalize(r, known, meta')
          ELSE asked' = asked \ {r} /\ UNCHANGED <<setups, battery, primed, crossed, carried>>
  /\ UNCHANGED <<wants, up, threadReady, known, standing, discoveries, boundVars>>

(* The device takes a SubscribeRequest: with keepSubscriptions off it ends  *)
(* what it had.  An earlier one may be cut short.                           *)
DeviceSubscribes(r) ==
  /\ r.kind = "subscribe"
  /\ standing' = r.about
  /\ \E cut \in SUBSET {s \in asked : s.kind = "priming"} :
       asked' = ((asked \ cut) \ {r}) \cup {[r EXCEPT !.kind = "priming"]}
  /\ UNCHANGED <<wants, up, threadReady, deviceVars, primed, crossed, carried, discoveries, boundVars>>

(* The priming report: its events are dropped unless primed, and it is      *)
(* confirmed, on which the device sends its SubscribeResponse.              *)
PrimingReport(r) ==
  /\ r.kind = "priming"
  /\ Follow(r, "response", r.about)
  /\ UNCHANGED <<wants, up, threadReady, deviceVars, standing, primed, crossed, carried, discoveries, boundVars>>

SubscribeResponse(r) ==
  /\ r.kind = "response"
  /\ asked' = asked \ {r}
  /\ primed' = TRUE
  /\ UNCHANGED <<wants, up, threadReady, deviceVars, standing, crossed, carried, discoveries, boundVars>>

Answer(r) ==
  \/ PartsReport(r) \/ ServersReport(r) \/ MetaReport(r)
  \/ DeviceSubscribes(r) \/ PrimingReport(r) \/ SubscribeResponse(r)

Next ==
  \/ Establish \/ SessionLost \/ DiscoverCommand \/ Restart \/ ThreadUp
  \/ \E r \in asked : Answer(r)

Spec == Init /\ [][Next]_vars

(* The session comes back (module Connection), the border router comes up,  *)
(* and a device answers what it is asked as long as the session lasts.      *)
Fairness ==
  /\ WF_vars(Establish) /\ WF_vars(ThreadUp)
  /\ \A i \in 1..MaxAsk : WF_vars(\E r \in asked : r.id = i /\ Answer(r))

FairSpec == Spec /\ Fairness

-----------------------------------------------------------------------------
(* Types; requests in flight are told apart by their ids. *)
TypeOK ==
  /\ wants \subseteq Endpoints /\ standing \subseteq Endpoints
  /\ known \subseteq Endpoints /\ meta \subseteq known \cap wants
  /\ setups \in [Endpoints -> Nat] /\ discoveries \in Nat
  /\ {up, threadReady, battery, primed, crossed, carried} \subseteq BOOLEAN
  /\ asked \subseteq Request /\ IsFiniteSet(asked)
  /\ \A r, s \in asked : r.id = s.id => r = s

(* setupEndpoint appends to the properties of an endpoint and never clears    *)
(* them.  Each discovery runs it at most once, and not while one of its reads *)
(* is out: together, the set-ups done and those that reads in flight can      *)
(* still do are no more than the discoveries since the endpoints were last    *)
(* forgotten, and the one reload of them by a restart.                        *)
SetupsCounted ==
  \A e \in Endpoints : setups[e] + Cardinality(Reads) <= discoveries

(* The events of a priming report meet a device that is not primed.  Except: *)
(* a second subscription was asked for before the first was answered, so    *)
(* that the answer to one lets in the history of the other; or the service   *)
(* was restarted while a subscription was in flight, and the new device      *)
(* object is primed.                                                         *)
NoReplay ==
  primed /\ ~crossed /\ ~carried => \A r \in asked : r.kind \notin {"subscribe", "priming"}

(* "we don't want those replayed buffered clicks to fire automations on      *)
(* every restart" (subscribeDevice).  They do when the service is restarted  *)
(* while a single subscription of a device on Thread is in flight.           *)
NoReplayOnRestart ==
  primed /\ ~crossed => \A r \in asked : r.kind \notin {"subscribe", "priming"}

(* What a discovery leaves undone when step 3 is lost with its session or    *)
(* answered with errors: the endpoints are there, so no later CASE reads     *)
(* them again.                                                               *)
Unfinished == known # {} /\ ~(known \cap wants \subseteq meta)

(* With nothing in flight and nothing left undone, the device is subscribed  *)
(* to as a whole: a subscription asked for before the features were known    *)
(* has been replaced.  Two that are in flight together may arrive in either  *)
(* order, and the older one be the one that stays.                           *)
SubscriptionCovers ==
  up /\ Routed /\ known # {} /\ asked = {} => Unfinished \/ crossed \/ standing = known

-----------------------------------------------------------------------------
(* What IInv adds.  The reads are of the device as a whole, and what is     *)
(* registered is the whole of it; without a session nothing is in flight.   *)
AskedFits ==
  /\ ~up => asked = {}
  /\ \A r \in asked : r.kind = "servers" => r.about = Endpoints
  /\ \A r \in asked : r.kind = "meta" => r.about \subseteq wants

KnownWhole ==
  /\ known \in {{}, Endpoints}
  /\ \A e \in Endpoints : setups[e] > 0 => e \in known

(* One subscription at a time, but for what crossed records. *)
OneSubscription ==
  ~crossed => \A r, s \in asked : {r.kind, s.kind} \subseteq SubscriptionKinds => r = s

(* Once nothing is left undone, what was last asked for, or what stands when *)
(* nothing is asked for, is the device as a whole.                           *)
Aimed ==
  up /\ Routed /\ known # {} /\ ~Unfinished /\ ~crossed =>
    /\ \A r \in asked : r.kind = "subscribe" => r.about = known
    /\ (\E r \in asked : r.kind = "subscribe") \/ standing = known

IInv ==
  /\ TypeOK
  /\ AskedFits /\ KnownWhole
  /\ OneSubscription
  /\ SetupsCounted /\ NoReplay
  /\ Aimed

(* In the end, when sessions are no longer lost and the user is content, the *)
(* device is set up, subscribed to, and its events are taken; unless a       *)
(* discovery was left undone.                                                *)
SetUpAndHeard ==
  /\ up /\ known = Endpoints /\ primed
  /\ standing # {}
  /\ \A e \in Endpoints : setups[e] > 0

Settles == <>[](SetUpAndHeard \/ Unfinished)
=============================================================================
