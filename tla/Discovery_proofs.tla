-------------------------- MODULE Discovery_proofs --------------------------
(***************************************************************************)
(* Proofs about Discovery, for every device and every bound: the inductive *)
(* invariant IInv, with it the types, SetupsCounted, NoReplay and          *)
(* SubscriptionCovers.                                                     *)
(***************************************************************************)
EXTENDS Discovery, FiniteSetTheorems, WellFoundedInduction, TLAPS

(* Min of a set of numbers is its least element. *)
LEMMA LeastOf ==
  ASSUME NEW S \in SUBSET Nat, S # {}
  PROVE  Min(S) \in S /\ \A y \in S : Min(S) <= y
<1>1. \E x \in S : \A y \in S : ~(<<y, x>> \in OpToRel(<, Nat))
  BY NatLessThanWellFounded, WFMin
<1>2. \A x, y \in Nat : y < x => <<y, x>> \in OpToRel(<, Nat)
  BY DEF OpToRel
<1>3. \E x \in S : \A y \in S : ~(y < x)
  BY <1>1, <1>2, Zenon
<1>4. \E x \in S : \A y \in S : x <= y
  BY <1>3
<1> QED
  BY <1>4 DEF Min

(* sendEncrypted: a request like none in flight. *)
LEMMA Asking ==
  ASSUME asked \subseteq Request, IsFiniteSet(asked),
         NEW kind \in ReadKinds \cup SubscriptionKinds,
         NEW about \in SUBSET Endpoints, Ask(kind, about)
  PROVE  \E q \in Request : /\ q.kind = kind /\ q.about = about
                            /\ asked' = asked \cup {q} /\ IsFiniteSet(asked')
                            /\ \A r \in asked : r.id # q.id
<1> DEFINE free == (1..MaxAsk) \ {r.id : r \in asked}
           q == [id |-> Min(free), kind |-> kind, about |-> about]
<1>1. Min(free) \in free
  BY DiscoveryAssumption, LeastOf DEF Ask
<1>2. q \in Request
  BY <1>1 DEF Request
<1>3. \A r \in asked : r.id # q.id
  BY <1>1
<1>4. asked' = asked \cup {q}
  BY DEF Ask
<1>5. IsFiniteSet(asked')
  BY <1>4, FS_AddElement
<1> QED
  BY <1>2, <1>3, <1>4, <1>5

(* The answer to r leads to the next request, under its id. *)
LEMMA Following ==
  ASSUME TypeOK, NEW r \in asked, NEW kind \in ReadKinds \cup SubscriptionKinds,
         NEW about \in SUBSET Endpoints, Follow(r, kind, about)
  PROVE  \E q \in Request : /\ q.kind = kind /\ q.about = about
                            /\ asked' = (asked \ {r}) \cup {q} /\ IsFiniteSet(asked')
                            /\ \A s \in asked \ {r} : s.id # q.id
<1> DEFINE q == [id |-> r.id, kind |-> kind, about |-> about]
<1>1. q \in Request
  BY DEF TypeOK, Request
<1>2. \A s \in asked \ {r} : s.id # q.id
  BY DEF TypeOK
<1>3. asked' = (asked \ {r}) \cup {q}
  BY DEF Follow
<1>4. IsFiniteSet(asked \ {r})
  BY FS_RemoveElement DEF TypeOK
<1>5. IsFiniteSet(asked')
  BY <1>3, <1>4, FS_AddElement
<1> QED
  BY <1>1, <1>2, <1>3, <1>5

(* The paths of a device about which nothing is left undone are all there   *)
(* are.                                                                     *)
LEMMA PathsAre ==
  ASSUME NEW ks \in SUBSET Endpoints, NEW ms
  PROVE  /\ Paths(ks, ms) \in SUBSET Endpoints
         /\ ks \cap wants \subseteq ms => Paths(ks, ms) = ks
BY DEF Paths

(* The kinds of requests. *)
LEMMA Kinds ==
  /\ {"parts", "servers", "meta"} = ReadKinds
  /\ {"subscribe", "priming", "response"} = SubscriptionKinds
  /\ \A k \in ReadKinds : k \notin SubscriptionKinds
BY DEF ReadKinds, SubscriptionKinds

(* Requests that are some of those in flight before. *)
LEMMA FewerAsked ==
  ASSUME TypeOK, asked' \subseteq asked
  PROVE  asked' \subseteq Request /\ IsFiniteSet(asked')
BY FS_Subset DEF TypeOK

(* The reads in flight are finitely many. *)
LEMMA ReadsFinite ==
  ASSUME TypeOK
  PROVE  IsFiniteSet(Reads) /\ Cardinality(Reads) \in Nat
<1>1. Reads \in SUBSET asked
  BY DEF Reads
<1>2. IsFiniteSet(Reads)
  BY <1>1, FS_Subset DEF TypeOK
<1> QED
  BY <1>2, FS_CardinalityType

(* No new read, and nothing set up: the count stays. *)
LEMMA CountedStill ==
  ASSUME TypeOK, SetupsCounted, \A r \in asked' : r.kind \in ReadKinds => r \in asked,
         UNCHANGED <<setups, discoveries>>
  PROVE  SetupsCounted'
<1>1. Reads' \in SUBSET Reads
  BY DEF Reads
<1>2. IsFiniteSet(Reads) /\ Cardinality(Reads) \in Nat
  BY ReadsFinite
<1>3. Cardinality(Reads') <= Cardinality(Reads) /\ Cardinality(Reads') \in Nat
  BY <1>1, <1>2, FS_Subset, FS_CardinalityType
<1> QED
  BY <1>2, <1>3 DEF SetupsCounted, TypeOK

(* A read makes place for another request, or for none, as nothing is set    *)
(* up: the count stays.                                                     *)
LEMMA CountedInPlace ==
  ASSUME TypeOK, SetupsCounted, NEW r \in asked, r.kind \in ReadKinds, NEW q,
         asked' \subseteq (asked \ {r}) \cup {q}, UNCHANGED <<setups, discoveries>>
  PROVE  SetupsCounted'
<1> DEFINE rest == Reads \ {r}
<1>1. IsFiniteSet(Reads) /\ Cardinality(Reads) \in Nat /\ r \in Reads
  BY ReadsFinite DEF Reads
<1>2. IsFiniteSet(rest) /\ Cardinality(rest) = Cardinality(Reads) - 1
  BY <1>1, FS_RemoveElement
<1> HIDE DEF rest
<1>3. /\ IsFiniteSet(rest \cup {q}) /\ Cardinality(rest \cup {q}) <= Cardinality(Reads)
  <2>1. /\ IsFiniteSet(rest \cup {q})
        /\ Cardinality(rest \cup {q}) = IF q \in rest THEN Cardinality(rest) ELSE Cardinality(rest) + 1
    BY <1>2, FS_AddElement, Zenon
  <2> QED
    BY <1>1, <1>2, <2>1
<1>4. Reads' \in SUBSET (rest \cup {q})
  BY DEF Reads, rest
<1>5. Cardinality(Reads') \in Nat /\ Cardinality(Reads') <= Cardinality(rest \cup {q})
      /\ Cardinality(rest \cup {q}) \in Nat
  BY <1>3, <1>4, FS_Subset, FS_CardinalityType
<1> QED
  BY <1>1, <1>3, <1>5 DEF SetupsCounted, TypeOK

(* The last read of a discovery makes place for a set-up of every endpoint:  *)
(* the count stays.                                                         *)
LEMMA CountedSetUp ==
  ASSUME TypeOK, SetupsCounted, NEW r \in asked, r.kind \in ReadKinds,
         \A s \in asked' : s.kind \in ReadKinds => s \in asked \ {r},
         setups' = [e \in Endpoints |-> SetUp(setups[e])], UNCHANGED discoveries
  PROVE  SetupsCounted'
<1> DEFINE rest == Reads \ {r}
<1>1. IsFiniteSet(Reads) /\ Cardinality(Reads) \in Nat /\ r \in Reads
  BY ReadsFinite DEF Reads
<1>2. IsFiniteSet(rest) /\ Cardinality(rest) = Cardinality(Reads) - 1
  BY <1>1, FS_RemoveElement
<1>3. Reads' \in SUBSET rest
  BY DEF Reads
<1> HIDE DEF rest
<1>4. Cardinality(Reads') \in Nat /\ Cardinality(Reads') <= Cardinality(rest)
      /\ Cardinality(rest) \in Nat
  BY <1>2, <1>3, FS_Subset, FS_CardinalityType
<1> QED
  BY <1>1, <1>2, <1>4 DEF SetupsCounted, SetUp, TypeOK

-----------------------------------------------------------------------------
(* subscribeDevice in place of the requests gone, or of none. *)
LEMMA Subscribes ==
  ASSUME IInv, NEW gone \in SUBSET asked, \A r \in gone : r.kind \in ReadKinds,
         NEW q \in Request, q.kind = "subscribe", \A r \in asked \ gone : r.id # q.id,
         asked' = (asked \ gone) \cup {q}, primed' = FALSE, crossed' = Subscribing,
         carried' = FALSE
  PROVE  /\ asked' \subseteq Request /\ \A r, s \in asked' : r.id = s.id => r = s
         /\ \A r \in asked' : r.kind \in ReadKinds => r \in asked \ gone
         /\ OneSubscription' /\ NoReplay'
         /\ ~crossed' => \A r \in asked' : r.kind = "subscribe" => r = q
<1>1. /\ asked \subseteq Request /\ \A r, s \in asked : r.id = s.id => r = s
      /\ asked' = (asked \ gone) \cup {q}
  BY DEF IInv, TypeOK
<1>2. ~crossed' => \A r \in asked' : r.kind \in SubscriptionKinds => r = q
  BY <1>1 DEF Subscribing
<1>3. OneSubscription'
  BY <1>2 DEF OneSubscription
<1>4. NoReplay'
  BY DEF NoReplay
<1>5. \A r \in asked' : r.kind \in ReadKinds => r \in asked \ gone
  BY <1>1 DEF ReadKinds
<1>6. ~crossed' => \A r \in asked' : r.kind = "subscribe" => r = q
  BY <1>2 DEF SubscriptionKinds
<1> QED
  BY <1>1, <1>3, <1>4, <1>5, <1>6

(* Init, and the steps that touch neither requests nor what is known. *)
LEMMA Starts == Init => IInv
<1> SUFFICES ASSUME Init PROVE IInv
  OBVIOUS
<1>1. TypeOK
  <2>1. {up, threadReady, battery, primed, crossed, carried} \subseteq BOOLEAN
    BY DEF Init
  <2>2. setups \in [Endpoints -> Nat] /\ discoveries \in Nat
    BY DEF Init
  <2>3. IsFiniteSet(asked)
    BY FS_EmptySet DEF Init
  <2> QED
    BY <2>1, <2>2, <2>3 DEF Init, TypeOK
<1>2. AskedFits /\ KnownWhole /\ OneSubscription /\ NoReplay /\ Aimed
  BY DEF Init, AskedFits, KnownWhole, OneSubscription, NoReplay, Aimed
<1>3. SetupsCounted
  <2>1. Reads = {}
    BY DEF Init, Reads
  <2>2. Cardinality(Reads) = 0
    BY <2>1, FS_EmptySet
  <2> QED
    BY <2>2 DEF Init, SetupsCounted
<1> QED
  BY <1>1, <1>2, <1>3 DEF IInv

LEMMA SessionLostStep ==
  ASSUME IInv, SessionLost
  PROVE  IInv'
<1>1. /\ up' = FALSE /\ asked' = {} /\ standing' = {}
      /\ carried' = FALSE
      /\ UNCHANGED <<wants, threadReady, known, meta, setups, battery, primed, crossed, discoveries>>
  BY DEF SessionLost, deviceVars
<1>2. TypeOK'
  BY <1>1, FS_EmptySet DEF IInv, TypeOK
<1>3. AskedFits' /\ KnownWhole' /\ OneSubscription' /\ NoReplay' /\ Aimed'
  BY <1>1 DEF IInv, AskedFits, KnownWhole, OneSubscription, NoReplay, Aimed
<1>4. SetupsCounted'
  BY <1>1, CountedStill DEF IInv
<1> QED
  BY <1>2, <1>3, <1>4 DEF IInv

(* subscribeDevice on a session of a device that is known, with what is     *)
(* known of it as it is.                                                    *)
LEMMA SubscribeFacts ==
  ASSUME IInv, Subscribe(known, meta), known # {}
  PROVE  /\ asked' \subseteq Request /\ \A r, s \in asked' : r.id = s.id => r = s
         /\ IsFiniteSet(asked') /\ {primed', crossed', carried'} \subseteq BOOLEAN
         /\ \A r \in asked' : r.kind \in ReadKinds => r \in asked
         /\ OneSubscription' /\ NoReplay'
         /\ ~Unfinished /\ ~crossed' =>
              /\ \A r \in asked' : r.kind = "subscribe" => r.about = known
              /\ \E r \in asked' : r.kind = "subscribe"
<1> DEFINE paths == Paths(known, meta)
<1>1. TypeOK /\ OneSubscription /\ NoReplay
  BY DEF IInv
<1>2. CASE paths = {}
  <2>1. UNCHANGED <<asked, primed, crossed, carried>>
    BY <1>2 DEF Subscribe
  <2>2. Unfinished
    BY <1>1, <1>2, PathsAre DEF Unfinished, TypeOK
  <2> QED
    BY <1>1, <2>1, <2>2 DEF TypeOK, OneSubscription, NoReplay
<1>3. CASE paths # {}
  <2>1. Ask("subscribe", paths) /\ primed' = FALSE /\ crossed' = Subscribing /\ carried' = FALSE
    BY <1>3 DEF Subscribe, Unprimed
  <2>2. paths \in SUBSET Endpoints /\ (~Unfinished => paths = known)
    BY <1>1, PathsAre DEF TypeOK, Unfinished
  <2> HIDE DEF paths
  <2>3. PICK q \in Request : /\ q.kind = "subscribe" /\ q.about = paths
                             /\ asked' = asked \cup {q} /\ IsFiniteSet(asked')
                             /\ \A r \in asked : r.id # q.id
    BY <1>1, <2>1, <2>2, Asking, Kinds DEF TypeOK
  <2>4. /\ asked' \subseteq Request /\ \A r, s \in asked' : r.id = s.id => r = s
        /\ \A r \in asked' : r.kind \in ReadKinds => r \in asked
        /\ OneSubscription' /\ NoReplay'
        /\ ~crossed' => \A r \in asked' : r.kind = "subscribe" => r = q
    <3>1. asked' = (asked \ {}) \cup {q} /\ \A r \in asked \ {} : r.id # q.id
      BY <2>3
    <3>2. {} \in SUBSET asked /\ \A r \in {} : r.kind \in ReadKinds
      OBVIOUS
    <3> QED
      BY <2>1, <2>3, <3>1, <3>2, Subscribes
  <2>5. {primed', crossed', carried'} \subseteq BOOLEAN
    BY <2>1 DEF Subscribing
  <2> QED
    BY <2>2, <2>3, <2>4, <2>5
<1> QED
  BY <1>2, <1>3

(* The end of a discovery by the answer to r, with all endpoints known: r    *)
(* was the last read of it.                                                 *)
LEMMA Finalizing ==
  ASSUME IInv, NEW r \in asked, r.kind \in ReadKinds,
         known' = Endpoints, meta' \subseteq Endpoints \cap wants,
         Finalize(r, known', meta'),
         UNCHANGED <<wants, up, threadReady, standing, discoveries>>
  PROVE  IInv'
<1> DEFINE paths == Paths(Endpoints, meta')
<1>1. TypeOK /\ AskedFits /\ OneSubscription /\ SetupsCounted /\ NoReplay
  BY DEF IInv
<1>2. setups' = [e \in Endpoints |-> SetUp(setups[e])] /\ battery' = Battery
  BY DEF Finalize
<1>3. setups' \in [Endpoints -> Nat]
  BY <1>1, <1>2 DEF TypeOK, SetUp
<1>4. /\ asked' \subseteq Request /\ \A s, t \in asked' : s.id = t.id => s = t
      /\ IsFiniteSet(asked') /\ {primed', crossed', carried'} \subseteq BOOLEAN
      /\ \A s \in asked' : s.kind \in ReadKinds => s \in asked \ {r}
      /\ OneSubscription' /\ NoReplay'
      /\ ~Unfinished' /\ ~crossed' =>
           /\ \A s \in asked' : s.kind = "subscribe" => s.about = Endpoints
           /\ \E s \in asked' : s.kind = "subscribe"
  <2>1. paths \in SUBSET Endpoints /\ (~Unfinished' => paths = Endpoints)
    BY PathsAre, DiscoveryAssumption DEF Unfinished
  <2>2. CASE paths = {}
    <3>1. asked' = asked \ {r} /\ UNCHANGED <<primed, crossed, carried>>
      BY <2>2 DEF Finalize
    <3>2. Unfinished'
      BY <2>1, <2>2, DiscoveryAssumption
    <3>3. IsFiniteSet(asked')
      BY <1>1, <3>1, FewerAsked
    <3> QED
      BY <1>1, <3>1, <3>2, <3>3 DEF TypeOK, OneSubscription, NoReplay
  <2>3. CASE paths # {}
    <3>1. Follow(r, "subscribe", paths) /\ primed' = FALSE /\ crossed' = Subscribing
          /\ carried' = FALSE
      BY <2>3 DEF Finalize, Unprimed
    <3> HIDE DEF paths
    <3>2. PICK q \in Request : /\ q.kind = "subscribe" /\ q.about = paths
                               /\ asked' = (asked \ {r}) \cup {q} /\ IsFiniteSet(asked')
                               /\ \A s \in asked \ {r} : s.id # q.id
      BY <1>1, <2>1, <3>1, Following, Kinds
    <3>3. /\ asked' \subseteq Request /\ \A s, t \in asked' : s.id = t.id => s = t
          /\ \A s \in asked' : s.kind \in ReadKinds => s \in asked \ {r}
          /\ OneSubscription' /\ NoReplay'
          /\ ~crossed' => \A s \in asked' : s.kind = "subscribe" => s = q
      <4>1. {r} \in SUBSET asked /\ \A s \in {r} : s.kind \in ReadKinds
        OBVIOUS
      <4> QED
        BY <3>1, <3>2, <4>1, Subscribes
    <3>4. {primed', crossed', carried'} \subseteq BOOLEAN
      BY <3>1 DEF Subscribing
    <3> QED
      BY <2>1, <3>2, <3>3, <3>4
  <2> QED
    BY <2>2, <2>3
<1> HIDE DEF paths
<1>5. TypeOK'
  <2>1. {up', threadReady', battery', primed', crossed', carried'} \subseteq BOOLEAN
    BY <1>1, <1>2, <1>4, DiscoveryAssumption DEF TypeOK
  <2> QED
    BY <1>1, <1>3, <1>4, <2>1 DEF TypeOK
<1>6. AskedFits'
  <2>1. up
    BY <1>1 DEF AskedFits
  <2> QED
    BY <1>1, <1>4, <2>1, Kinds DEF AskedFits
<1>7. KnownWhole'
  BY DEF KnownWhole
<1>8. SetupsCounted'
  BY <1>1, <1>2, <1>4, CountedSetUp
<1>9. Aimed'
  BY <1>4 DEF Aimed
<1> QED
  BY <1>4, <1>5, <1>6, <1>7, <1>8, <1>9 DEF IInv

(* caseEstablished *)
LEMMA EstablishStep ==
  ASSUME IInv, Establish
  PROVE  IInv'
<1>1. TypeOK /\ AskedFits /\ KnownWhole /\ SetupsCounted /\ Aimed
  BY DEF IInv
<1>2. /\ ~up /\ Routed /\ up' = TRUE /\ asked = {}
      /\ UNCHANGED <<wants, threadReady, known, meta, setups, battery, standing>>
  BY <1>1 DEF Establish, deviceVars, AskedFits
<1>3. CASE known = {}
  <2>1. Ask("parts", {}) /\ discoveries' = 1 /\ UNCHANGED <<primed, crossed, carried>>
    BY <1>3 DEF Establish, Unknown, Discover
  <2>2. PICK q \in Request : q.kind = "parts" /\ asked' = asked \cup {q} /\ IsFiniteSet(asked')
    BY <1>1, <2>1, Asking, Kinds DEF TypeOK
  <2>3. asked' = {q} /\ q.kind \notin SubscriptionKinds
    BY <1>2, <2>2, Kinds
  <2>4. \A e \in Endpoints : setups[e] = 0
    BY <1>1, <1>3 DEF TypeOK, KnownWhole
  <2>5. TypeOK'
    BY <1>1, <1>2, <2>1, <2>2, <2>3 DEF TypeOK
  <2>6. AskedFits' /\ KnownWhole' /\ OneSubscription' /\ NoReplay'
    BY <1>1, <1>2, <2>2, <2>3 DEF AskedFits, KnownWhole, OneSubscription, NoReplay
  <2>7. SetupsCounted'
    <3>1. Reads' = {q}
      BY <2>2, <2>3, Kinds DEF Reads
    <3>2. Cardinality(Reads') = 1
      BY <3>1, FS_Singleton
    <3> QED
      BY <1>2, <2>1, <2>4, <3>2 DEF SetupsCounted
  <2>8. Aimed'
    BY <1>2, <1>3 DEF Aimed
  <2> QED
    BY <2>5, <2>6, <2>7, <2>8 DEF IInv
<1>4. CASE known # {}
  <2>1. Subscribe(known, meta) /\ UNCHANGED discoveries
    BY <1>4 DEF Establish, Unknown
  <2>2. /\ asked' \subseteq Request /\ \A r, s \in asked' : r.id = s.id => r = s
        /\ IsFiniteSet(asked') /\ {primed', crossed', carried'} \subseteq BOOLEAN
        /\ \A r \in asked' : r.kind \in ReadKinds => r \in asked
        /\ OneSubscription' /\ NoReplay'
        /\ ~Unfinished /\ ~crossed' =>
             /\ \A r \in asked' : r.kind = "subscribe" => r.about = known
             /\ \E r \in asked' : r.kind = "subscribe"
    BY <1>4, <2>1, SubscribeFacts
  <2>3. TypeOK'
    BY <1>1, <1>2, <2>1, <2>2 DEF TypeOK
  <2>4. AskedFits' /\ KnownWhole'
    BY <1>1, <1>2, <2>1, <2>2, Kinds DEF AskedFits, KnownWhole
  <2>5. SetupsCounted'
    BY <1>1, <1>2, <2>1, <2>2, CountedStill
  <2>6. Aimed'
    BY <1>2, <2>2 DEF Aimed, Unfinished
  <2> QED
    BY <2>2, <2>3, <2>4, <2>5, <2>6 DEF IInv
<1> QED
  BY <1>3, <1>4

(* The command discoverDevice: nothing is known any more, nothing set up,   *)
(* and every read that is out counts.                                       *)
LEMMA DiscoverCommandStep ==
  ASSUME IInv, DiscoverCommand
  PROVE  IInv'
<1>1. TypeOK /\ AskedFits /\ OneSubscription /\ NoReplay
  BY DEF IInv
<1>2. /\ known' = {} /\ meta' = {} /\ setups' = [e \in Endpoints |-> 0]
      /\ discoveries' = Cardinality(Reads')
      /\ UNCHANGED <<wants, up, threadReady, battery, standing, primed, crossed, carried>>
  BY DEF DiscoverCommand, Forget
<1>3. KnownWhole' /\ Aimed'
  BY <1>2 DEF KnownWhole, Aimed
<1>4. ASSUME asked' \subseteq Request, IsFiniteSet(asked'),
             \A r, s \in asked' : r.id = s.id => r = s
      PROVE  TypeOK' /\ SetupsCounted'
  <2>1. Reads' \in SUBSET asked'
    BY DEF Reads
  <2>2. IsFiniteSet(Reads')
    BY <1>4, <2>1, FS_Subset
  <2>3. discoveries' \in Nat
    BY <1>2, <2>2, FS_CardinalityType
  <2>4. TypeOK'
    BY <1>1, <1>2, <1>4, <2>3 DEF TypeOK
  <2>5. SetupsCounted'
    BY <1>2, <2>3 DEF SetupsCounted
  <2> QED
    BY <2>4, <2>5
<1>5. CASE ~up
  <2>1. asked' = {}
    BY <1>1, <1>5 DEF DiscoverCommand, AskedFits
  <2>2. TypeOK' /\ SetupsCounted'
    BY <1>4, <2>1, FS_EmptySet
  <2>3. AskedFits' /\ OneSubscription' /\ NoReplay'
    BY <2>1 DEF AskedFits, OneSubscription, NoReplay
  <2> QED
    BY <1>3, <2>2, <2>3 DEF IInv
<1>6. CASE up
  <2>1. Ask("parts", {})
    BY <1>6 DEF DiscoverCommand, Discover
  <2>2. PICK q \in Request : /\ q.kind = "parts" /\ asked' = asked \cup {q} /\ IsFiniteSet(asked')
                             /\ \A r \in asked : r.id # q.id
    BY <1>1, <2>1, Asking, Kinds DEF TypeOK
  <2>3. q.kind \notin SubscriptionKinds
    BY <2>2, Kinds
  <2>4. asked' \subseteq Request /\ \A r, s \in asked' : r.id = s.id => r = s
    BY <1>1, <2>2 DEF TypeOK
  <2>5. TypeOK' /\ SetupsCounted'
    BY <1>4, <2>2, <2>4
  <2>6. AskedFits'
    BY <1>1, <1>2, <1>6, <2>2 DEF AskedFits
  <2>7. OneSubscription' /\ NoReplay'
    BY <1>1, <1>2, <2>2, <2>3 DEF OneSubscription, NoReplay
  <2> QED
    BY <1>3, <2>5, <2>6, <2>7 DEF IInv
<1> QED
  BY <1>5, <1>6

(* The constructor: every endpoint of the file is set up once. *)
LEMMA ReloadedOf ==
  ASSUME KnownWhole, NEW ks \in SUBSET Endpoints
  PROVE  /\ Reloaded(ks) \in [Endpoints -> Nat]
         /\ \A e \in Endpoints : Reloaded(ks)[e] <= (IF ks = {} THEN 0 ELSE 1)
                                  /\ (Reloaded(ks)[e] > 0 => e \in ks)
<1>1. SetUp(0) = 1
  BY DEF SetUp
<1> QED
  BY <1>1 DEF Reloaded

LEMMA RestartStep ==
  ASSUME IInv, Restart
  PROVE  IInv'
<1>1. TypeOK /\ AskedFits /\ KnownWhole /\ OneSubscription /\ NoReplay
  BY DEF IInv
<1> DEFINE reloads == IF known = {} THEN 0 ELSE 1
<1>2. /\ setups' = Reloaded(known) /\ discoveries' = reloads + Cardinality(Reads')
      /\ battery' \in BOOLEAN
      /\ UNCHANGED <<wants, known, meta>>
  BY DEF Restart
<1> DEFINE keep == up /\ battery /\ known # {}
<1>3. PICK ready \in BOOLEAN :
        /\ threadReady' = ready /\ up' = keep
        /\ IF keep
           THEN /\ UNCHANGED standing
                /\ IF Thread /\ ~ready
                   THEN primed' = TRUE /\ carried' = Subscribing /\ UNCHANGED <<asked, crossed>>
                   ELSE Subscribe(known, meta)
           ELSE /\ asked' = {} /\ standing' = {}
                /\ primed' = TRUE /\ crossed' = FALSE /\ carried' = FALSE
  BY DEF Restart
<1>4. keep \in BOOLEAN
  OBVIOUS
<1>5. /\ setups' \in [Endpoints -> Nat]
      /\ \A e \in Endpoints : setups'[e] <= reloads /\ (setups'[e] > 0 => e \in known)
  BY <1>1, <1>2, ReloadedOf DEF TypeOK
<1>6. KnownWhole'
  BY <1>1, <1>2, <1>5 DEF KnownWhole
<1>7. /\ asked' \subseteq Request /\ \A r, s \in asked' : r.id = s.id => r = s
      /\ IsFiniteSet(asked') /\ {primed', crossed', carried'} \subseteq BOOLEAN
      /\ \A r \in asked' : r.kind \in ReadKinds => r \in asked
      /\ standing' \subseteq Endpoints
      /\ ~up' => asked' = {}
      /\ OneSubscription' /\ NoReplay' /\ Aimed'
  <2>1. CASE ~keep
    <3>1. asked' = {} /\ standing' = {} /\ primed' = TRUE /\ crossed' = FALSE /\ up' = FALSE
          /\ carried' = FALSE
      BY <1>3, <2>1
    <3> QED
      BY <3>1, FS_EmptySet DEF OneSubscription, NoReplay, Aimed
  <2>2. CASE keep /\ Thread /\ ~ready
    <3>1. /\ UNCHANGED <<asked, standing, crossed>> /\ primed' = TRUE /\ carried' = Subscribing
          /\ up' = TRUE /\ threadReady' = FALSE
      BY <1>3, <2>2
    <3>2. carried' \in BOOLEAN
      BY <3>1 DEF Subscribing
    <3>3. OneSubscription' /\ NoReplay'
      BY <1>1, <3>1 DEF OneSubscription, NoReplay, Subscribing, SubscriptionKinds
    <3>4. Aimed'
      BY <2>2, <3>1 DEF Aimed, Routed
    <3> QED
      BY <1>1, <3>1, <3>2, <3>3, <3>4 DEF TypeOK
  <2>3. CASE keep /\ ~(Thread /\ ~ready)
    <3>1. Subscribe(known, meta) /\ UNCHANGED standing /\ up' = TRUE /\ known # {}
      BY <1>3, <2>3
    <3>2. /\ asked' \subseteq Request /\ \A r, s \in asked' : r.id = s.id => r = s
          /\ IsFiniteSet(asked') /\ {primed', crossed', carried'} \subseteq BOOLEAN
          /\ \A r \in asked' : r.kind \in ReadKinds => r \in asked
          /\ OneSubscription' /\ NoReplay'
          /\ ~Unfinished /\ ~crossed' =>
               /\ \A r \in asked' : r.kind = "subscribe" => r.about = known
               /\ \E r \in asked' : r.kind = "subscribe"
      BY <3>1, SubscribeFacts
    <3>3. Aimed'
      BY <1>2, <3>2 DEF Aimed, Unfinished
    <3> QED
      BY <1>1, <3>1, <3>2, <3>3 DEF TypeOK
  <2> QED
    BY <2>1, <2>2, <2>3
<1>8. Cardinality(Reads') \in Nat
  <2>1. Reads' \in SUBSET asked'
    BY DEF Reads
  <2> QED
    BY <1>7, <2>1, FS_Subset, FS_CardinalityType
<1>9. TypeOK'
  <2>1. {up', threadReady', battery', primed', crossed', carried'} \subseteq BOOLEAN
    BY <1>2, <1>3, <1>4, <1>7
  <2>2. discoveries' \in Nat
    BY <1>2, <1>8
  <2> QED
    BY <1>1, <1>2, <1>5, <1>7, <2>1, <2>2 DEF TypeOK
<1>10. AskedFits'
  BY <1>1, <1>2, <1>7, Kinds DEF AskedFits
<1>11. SetupsCounted'
  BY <1>2, <1>5, <1>8 DEF SetupsCounted
<1> QED
  BY <1>6, <1>7, <1>9, <1>10, <1>11 DEF IInv

(* resumeThreadDevices *)
LEMMA ThreadUpStep ==
  ASSUME IInv, ThreadUp
  PROVE  IInv'
<1>1. TypeOK /\ AskedFits /\ KnownWhole /\ OneSubscription /\ SetupsCounted /\ NoReplay /\ Aimed
  BY DEF IInv
<1>2. /\ threadReady' = TRUE
      /\ UNCHANGED <<wants, up, known, meta, setups, battery, standing, discoveries>>
  BY DEF ThreadUp, deviceVars
<1>3. CASE Thread /\ up /\ known # {}
  <2>1. Subscribe(known, meta)
    BY <1>3 DEF ThreadUp
  <2>2. /\ asked' \subseteq Request /\ \A r, s \in asked' : r.id = s.id => r = s
        /\ IsFiniteSet(asked') /\ {primed', crossed', carried'} \subseteq BOOLEAN
        /\ \A r \in asked' : r.kind \in ReadKinds => r \in asked
        /\ OneSubscription' /\ NoReplay'
        /\ ~Unfinished /\ ~crossed' =>
             /\ \A r \in asked' : r.kind = "subscribe" => r.about = known
             /\ \E r \in asked' : r.kind = "subscribe"
    BY <1>3, <2>1, SubscribeFacts
  <2>3. TypeOK'
    BY <1>1, <1>2, <2>2 DEF TypeOK
  <2>4. AskedFits' /\ KnownWhole'
    BY <1>1, <1>2, <1>3, <2>2, Kinds DEF AskedFits, KnownWhole
  <2>5. SetupsCounted'
    BY <1>1, <1>2, <2>2, CountedStill
  <2>6. Aimed'
    BY <1>2, <2>2 DEF Aimed, Unfinished
  <2> QED
    BY <2>2, <2>3, <2>4, <2>5, <2>6 DEF IInv
<1>4. CASE ~(Thread /\ up /\ known # {})
  <2>1. UNCHANGED <<asked, primed, crossed, carried>>
    BY <1>4 DEF ThreadUp
  <2>2. TypeOK'
    BY <1>1, <1>2, <2>1 DEF TypeOK
  <2>3. AskedFits' /\ KnownWhole' /\ OneSubscription' /\ NoReplay'
    BY <1>1, <1>2, <2>1 DEF AskedFits, KnownWhole, OneSubscription, NoReplay
  <2>4. SetupsCounted'
    BY <1>1, <1>2, <2>1, CountedStill
  <2>5. Aimed'
    BY <1>1, <1>2, <1>4, <2>1 DEF Aimed, Routed, Unfinished
  <2> QED
    BY <2>2, <2>3, <2>4, <2>5 DEF IInv
<1> QED
  BY <1>3, <1>4

-----------------------------------------------------------------------------
(* The answer to r is all a step is: nothing takes the place of r, or one    *)
(* more read does.                                                          *)
LEMMA ReadAnswered ==
  ASSUME IInv, NEW r \in asked, r.kind \in ReadKinds,
         known' \in {{}, Endpoints}, meta' \subseteq known' \cap wants,
         \A e \in Endpoints : setups[e] > 0 => e \in known',
         \/ asked' = asked \ {r}
         \/ \E q \in Request : /\ q.kind \in ReadKinds /\ asked' = (asked \ {r}) \cup {q}
                               /\ IsFiniteSet(asked')
                               /\ \A s \in asked \ {r} : s.id # q.id
                               /\ q.kind = "servers" => q.about = Endpoints
                               /\ q.kind = "meta" => q.about \subseteq wants,
         known' # {} /\ ~Unfinished' => known' = known /\ ~Unfinished,
         UNCHANGED <<wants, up, threadReady, setups, battery, standing, primed, crossed, carried,
                     discoveries>>
  PROVE  IInv'
<1>1. TypeOK /\ AskedFits /\ KnownWhole /\ OneSubscription /\ SetupsCounted /\ NoReplay /\ Aimed
  BY DEF IInv
<1>2. /\ asked' \subseteq Request /\ \A s, t \in asked' : s.id = t.id => s = t
      /\ IsFiniteSet(asked')
      /\ \A s \in asked' : s.kind = "servers" => s.about = Endpoints
      /\ \A s \in asked' : s.kind = "meta" => s.about \subseteq wants
      /\ \A s \in asked' : s.kind \in SubscriptionKinds => s \in asked
      /\ \A s \in asked : s.kind \in SubscriptionKinds => s \in asked'
      /\ \E q : asked' \subseteq (asked \ {r}) \cup {q}
  <2>1. CASE asked' = asked \ {r}
    <3>1. IsFiniteSet(asked')
      BY <1>1, <2>1, FewerAsked
    <3> QED
      BY <1>1, <2>1, <3>1, Kinds DEF TypeOK, AskedFits
  <2>2. CASE asked' # asked \ {r}
    <3>1. PICK q \in Request : /\ q.kind \in ReadKinds /\ asked' = (asked \ {r}) \cup {q}
                               /\ IsFiniteSet(asked')
                               /\ \A s \in asked \ {r} : s.id # q.id
                               /\ q.kind = "servers" => q.about = Endpoints
                               /\ q.kind = "meta" => q.about \subseteq wants
      BY <2>2
    <3> QED
      BY <1>1, <3>1, Kinds DEF TypeOK, AskedFits
  <2> QED
    BY <2>1, <2>2
<1>3. TypeOK'
  BY <1>1, <1>2 DEF TypeOK
<1>4. up
  BY <1>1 DEF AskedFits
<1>5. AskedFits' /\ KnownWhole'
  BY <1>1, <1>2, <1>4 DEF AskedFits, KnownWhole
<1>6. OneSubscription' /\ NoReplay'
  BY <1>1, <1>2, Kinds DEF OneSubscription, NoReplay
<1>7. SetupsCounted'
  BY <1>1, <1>2, CountedInPlace
<1>8. Aimed'
  BY <1>1, <1>2, Kinds DEF Aimed, Routed
<1> QED
  BY <1>3, <1>5, <1>6, <1>7, <1>8 DEF IInv

LEMMA PartsReportStep ==
  ASSUME IInv, NEW r \in asked, PartsReport(r)
  PROVE  IInv'
<1>1. TypeOK /\ KnownWhole
  BY DEF IInv
<1>2. /\ r.kind = "parts"
      /\ UNCHANGED <<wants, up, threadReady, known, meta, setups, battery, standing, primed,
                     crossed, carried, discoveries>>
  BY DEF PartsReport, deviceVars
<1>3. \/ asked' = asked \ {r}
      \/ \E q \in Request : /\ q.kind = "servers" /\ q.about = Endpoints
                            /\ asked' = (asked \ {r}) \cup {q} /\ IsFiniteSet(asked')
                            /\ \A s \in asked \ {r} : s.id # q.id
  BY <1>1, Following, Kinds DEF PartsReport
<1> QED
  BY <1>1, <1>2, <1>3, Kinds, ReadAnswered DEF TypeOK, KnownWhole, Unfinished

LEMMA ServersReportStep ==
  ASSUME IInv, NEW r \in asked, ServersReport(r)
  PROVE  IInv'
<1>1. TypeOK /\ KnownWhole /\ r.about = Endpoints
  BY DEF IInv, AskedFits, ServersReport
<1>2. /\ r.kind = "servers" /\ known' = Endpoints
      /\ UNCHANGED <<wants, up, threadReady, meta, standing, discoveries>>
  BY <1>1 DEF ServersReport
<1>3. CASE NextRead(Endpoints) # {}
  <2>1. Follow(r, "meta", Endpoints \cap wants)
        /\ UNCHANGED <<setups, battery, primed, crossed, carried>>
    BY <1>1, <1>3 DEF ServersReport, NextRead
  <2>2. \E q \in Request : /\ q.kind = "meta" /\ q.about = Endpoints \cap wants
                           /\ asked' = (asked \ {r}) \cup {q} /\ IsFiniteSet(asked')
                           /\ \A s \in asked \ {r} : s.id # q.id
    BY <1>1, <2>1, Following, Kinds
  <2>3. ~Unfinished' => known = Endpoints /\ ~Unfinished
    BY <1>1, <1>2, <1>3 DEF Unfinished, NextRead, TypeOK, KnownWhole
  <2> QED
    BY <1>1, <1>2, <2>1, <2>2, <2>3, Kinds, ReadAnswered DEF TypeOK
<1>4. CASE NextRead(Endpoints) = {}
  <2>1. Finalize(r, known', meta')
    BY <1>1, <1>2, <1>4 DEF ServersReport
  <2>2. meta' \subseteq Endpoints \cap wants
    BY <1>1, <1>2 DEF TypeOK
  <2> QED
    BY <1>2, <2>1, <2>2, Kinds, Finalizing
<1> QED
  BY <1>3, <1>4

LEMMA MetaReportStep ==
  ASSUME IInv, NEW r \in asked, MetaReport(r)
  PROVE  IInv'
<1>1. TypeOK /\ KnownWhole /\ r.about \subseteq wants
  BY DEF IInv, AskedFits, MetaReport
<1>2. PICK got \in SUBSET r.about :
        /\ meta' = meta \cup Registered(got)
        /\ IF Registered(got) # {}
           THEN Finalize(r, known, meta')
           ELSE asked' = asked \ {r} /\ UNCHANGED <<setups, battery, primed, crossed, carried>>
  BY DEF MetaReport
<1>3. r.kind = "meta" /\ UNCHANGED <<wants, up, threadReady, known, standing, discoveries>>
  BY DEF MetaReport
<1>4. meta' \subseteq known \cap wants
  BY <1>1, <1>2 DEF TypeOK, Registered
<1>5. CASE Registered(got) # {}
  <2>1. known = Endpoints
    BY <1>1, <1>5 DEF KnownWhole, Registered
  <2> QED
    BY <1>2, <1>3, <1>4, <1>5, <2>1, Kinds, Finalizing
<1>6. CASE Registered(got) = {}
  <2>1. meta' = meta /\ asked' = asked \ {r} /\ UNCHANGED <<setups, battery, primed, crossed, carried>>
    BY <1>2, <1>6
  <2> QED
    BY <1>1, <1>3, <1>4, <2>1, Kinds, ReadAnswered DEF KnownWhole, Unfinished
<1> QED
  BY <1>5, <1>6

(* The device takes a SubscribeRequest; what it had under way is cut short   *)
(* or not.                                                                  *)
LEMMA DeviceSubscribesStep ==
  ASSUME IInv, NEW r \in asked, DeviceSubscribes(r)
  PROVE  IInv'
<1> DEFINE q == [r EXCEPT !.kind = "priming"]
<1>1. TypeOK /\ AskedFits /\ KnownWhole /\ OneSubscription /\ SetupsCounted /\ NoReplay /\ Aimed
  BY DEF IInv
<1>2. /\ r.kind = "subscribe" /\ standing' = r.about
      /\ UNCHANGED <<wants, up, threadReady, known, meta, setups, battery, primed, crossed, carried,
                     discoveries>>
  BY DEF DeviceSubscribes, deviceVars
<1>3. PICK cut \in SUBSET {s \in asked : s.kind = "priming"} :
        asked' = ((asked \ cut) \ {r}) \cup {q}
  BY DEF DeviceSubscribes
<1>4. q \in Request /\ q.id = r.id /\ q.kind = "priming" /\ q.about = r.about
      /\ r.about \subseteq Endpoints
  BY <1>1 DEF TypeOK, Request, SubscriptionKinds
<1> HIDE DEF q
<1>5. /\ \A s \in asked' : s.kind # "priming" => s \in asked /\ s # r
      /\ \A s \in asked' : s = q \/ (s \in asked /\ s # r)
  BY <1>3, <1>4
<1>6. TypeOK'
  <2>1. IsFiniteSet((asked \ cut) \ {r})
    BY <1>1, FS_Subset DEF TypeOK
  <2>2. IsFiniteSet(asked')
    BY <1>3, <2>1, FS_AddElement
  <2> QED
    BY <1>1, <1>2, <1>3, <1>4, <2>2 DEF TypeOK
<1>7. up
  BY <1>1 DEF AskedFits
<1>8. AskedFits' /\ KnownWhole'
  BY <1>1, <1>2, <1>5, <1>7, Kinds DEF AskedFits, KnownWhole
<1>8a. SetupsCounted'
  BY <1>1, <1>2, <1>5, Kinds, CountedStill
<1>9. OneSubscription' /\ NoReplay'
  <2>1. ~crossed => \A s \in asked' : s.kind \in SubscriptionKinds => s = q
    BY <1>1, <1>2, <1>5, Kinds DEF OneSubscription
  <2>2. ~(primed /\ ~crossed /\ ~carried)
    BY <1>1, <1>2 DEF NoReplay
  <2> QED
    BY <1>2, <2>1, <2>2 DEF OneSubscription, NoReplay
<1>10. Aimed'
  <2>1. ~crossed => \A s \in asked' : s.kind # "subscribe"
    BY <1>1, <1>2, <1>4, <1>5, Kinds DEF OneSubscription
  <2> QED
    BY <1>1, <1>2, <2>1 DEF Aimed, Routed, Unfinished
<1> QED
  BY <1>1, <1>6, <1>8, <1>8a, <1>9, <1>10 DEF IInv

(* A priming report and a SubscribeResponse leave subscriptions no more      *)
(* than they were.                                                          *)
LEMMA PrimingReportStep ==
  ASSUME IInv, NEW r \in asked, PrimingReport(r)
  PROVE  IInv'
<1>1. TypeOK /\ AskedFits /\ KnownWhole /\ OneSubscription /\ SetupsCounted /\ NoReplay /\ Aimed
  BY DEF IInv
<1>2. /\ r.kind = "priming"
      /\ UNCHANGED <<wants, up, threadReady, known, meta, setups, battery, standing, primed,
                     crossed, carried, discoveries>>
  BY DEF PrimingReport, deviceVars
<1>3. r.about \in SUBSET Endpoints
  BY <1>1 DEF TypeOK, Request
<1>4. PICK q \in Request : /\ q.kind = "response"
                           /\ asked' = (asked \ {r}) \cup {q} /\ IsFiniteSet(asked')
                           /\ \A s \in asked \ {r} : s.id # q.id
  BY <1>1, <1>3, Following, Kinds DEF PrimingReport
<1>5. TypeOK'
  BY <1>1, <1>2, <1>4 DEF TypeOK
<1>6. up
  BY <1>1 DEF AskedFits
<1>7. AskedFits' /\ KnownWhole'
  BY <1>1, <1>2, <1>4, <1>6, Kinds DEF AskedFits, KnownWhole
<1>7a. SetupsCounted'
  BY <1>1, <1>2, <1>4, Kinds, CountedStill
<1>8. OneSubscription' /\ NoReplay'
  BY <1>1, <1>2, <1>4, Kinds DEF OneSubscription, NoReplay
<1>9. Aimed'
  BY <1>1, <1>2, <1>4 DEF Aimed, Routed, Unfinished
<1> QED
  BY <1>5, <1>7, <1>7a, <1>8, <1>9 DEF IInv

LEMMA SubscribeResponseStep ==
  ASSUME IInv, NEW r \in asked, SubscribeResponse(r)
  PROVE  IInv'
<1>1. TypeOK /\ AskedFits /\ KnownWhole /\ OneSubscription /\ SetupsCounted /\ Aimed
  BY DEF IInv
<1>2. /\ r.kind = "response" /\ asked' = asked \ {r} /\ primed' = TRUE
      /\ UNCHANGED <<wants, up, threadReady, known, meta, setups, battery, standing, crossed, carried,
                     discoveries>>
  BY DEF SubscribeResponse, deviceVars
<1>3. TypeOK'
  BY <1>1, <1>2, FewerAsked DEF TypeOK
<1>4. AskedFits' /\ KnownWhole'
  BY <1>1, <1>2 DEF AskedFits, KnownWhole
<1>4a. SetupsCounted'
  BY <1>1, <1>2, CountedStill
<1>5. OneSubscription' /\ NoReplay'
  BY <1>1, <1>2, Kinds DEF OneSubscription, NoReplay
<1>6. Aimed'
  BY <1>1, <1>2 DEF Aimed, Routed, Unfinished
<1> QED
  BY <1>3, <1>4, <1>4a, <1>5, <1>6 DEF IInv

-----------------------------------------------------------------------------
(* IInv holds always: a discovery has set nothing up while a read of it is   *)
(* in flight, and one subscription is on its way at a time, but for what the *)
(* history variables record.                                                *)
THEOREM Invariant == Spec => []IInv
<1>1. ASSUME IInv, [Next]_vars
      PROVE  IInv'
  <2>1. CASE Establish
    BY <1>1, <2>1, EstablishStep
  <2>2. CASE SessionLost
    BY <1>1, <2>2, SessionLostStep
  <2>3. CASE DiscoverCommand
    BY <1>1, <2>3, DiscoverCommandStep
  <2>4. CASE Restart
    BY <1>1, <2>4, RestartStep
  <2>5. CASE ThreadUp
    BY <1>1, <2>5, ThreadUpStep
  <2>6. ASSUME NEW r \in asked, Answer(r)
        PROVE  IInv'
    BY <1>1, <2>6, PartsReportStep, ServersReportStep, MetaReportStep, DeviceSubscribesStep,
       PrimingReportStep, SubscribeResponseStep DEF Answer
  <2>7. CASE UNCHANGED vars
    <3>1. UNCHANGED <<wants, up, threadReady, known, meta, setups, battery, asked, standing,
                      primed, crossed, carried,
                     discoveries>>
      BY <2>7 DEF vars, deviceVars, askVars
    <3>2. TypeOK' /\ AskedFits' /\ KnownWhole' /\ OneSubscription'
      BY <1>1, <3>1 DEF IInv, TypeOK, AskedFits, KnownWhole, OneSubscription
    <3>3. SetupsCounted' /\ NoReplay' /\ Aimed'
      BY <1>1, <3>1 DEF IInv, SetupsCounted, Reads, NoReplay, Aimed, Routed, Unfinished
    <3> QED
      BY <3>2, <3>3 DEF IInv
  <2> QED
    BY <1>1, <2>1, <2>2, <2>3, <2>4, <2>5, <2>6, <2>7 DEF Next
<1> QED
  BY <1>1, Starts, PTL DEF Spec

(* setupEndpoint runs for an endpoint at most once in a discovery, and after *)
(* the last answer the discovery waits for: the set-ups done, and the reads  *)
(* that may lead to more, are no more than the discoveries that were under   *)
(* way when the endpoints were last forgotten or reloaded, and the reload.   *)
(* So a second set-up takes two of these.                                    *)
THEOREM SetUpOncePerDiscovery == Spec => []SetupsCounted
<1>1. IInv => SetupsCounted
  BY DEF IInv
<1> QED
  BY <1>1, Invariant, PTL

(* subscribeDevice: the history a priming report brings meets a device that *)
(* is not primed, for any number of sessions, discoveries and restarts, but *)
(* in two cases: two subscriptions were in flight together, or the service   *)
(* was restarted while one was.                                             *)
THEOREM NothingReplayed == Spec => []NoReplay
<1>1. IInv => NoReplay
  BY DEF IInv
<1> QED
  BY <1>1, Invariant, PTL

(* When all is answered, what the device was last asked to report is all    *)
(* that is known of it, unless step 3 was lost or subscriptions crossed.    *)
THEOREM SubscribedAsAWhole == Spec => []SubscriptionCovers
<1>1. IInv => SubscriptionCovers
  BY DEF IInv, Aimed, SubscriptionCovers
<1> QED
  BY <1>1, Invariant, PTL

=============================================================================
