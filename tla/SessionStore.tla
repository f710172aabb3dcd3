---------------------------- MODULE SessionStore ----------------------------
(***************************************************************************)
(* How the secure session of a battery device survives a restart of the    *)
(* service: which session the device object keeps for the database         *)
(* (matter.cpp), when the database is written (device.cpp) and what the    *)
(* constructor restores from it.                                           *)
(*                                                                         *)
(* Abstractions.  The devices are numbered in the order of the list.  A    *)
(* CASE attempt is one step from its id to its end; attempts also stand    *)
(* for the PASE sessions that take an id.  The key of a session is the     *)
(* number of the attempt that made it.  Message counters do not reach 2^32.*)
(* Connecting, failing and removing devices is the module Connection: here *)
(* a session may go at any time.                                           *)
(***************************************************************************)
EXTENDS Naturals, FiniteSetsExt

CONSTANTS
  NDevices,      \* length of the device list
  Battery,       \* devices with a PowerSource cluster: all taken for battery powered
  IdSpace,       \* 2^16: session ids are quint16
  Margin,        \* 10000: added to a counter that is restored
  MaxAttempts,   \* bound: CASE attempts
  Bounds,        \* bound: the other bounds, of which a run takes one
  None

Devices == 1..NDevices
Ids == 0..IdSpace - 1
Keys == 1..MaxAttempts

(* devices that connect, and those the user may discover anew; whether the   *)
(* service may die without a last write, and writeFile may fail; attempts,  *)
(* counter of a message, restarts.                                          *)
Bound == [present : SUBSET Devices, rediscovered : SUBSET Devices,
          crashes : BOOLEAN, writesFail : BOOLEAN,
          attempts : 0..MaxAttempts, counter : Nat, restarts : Nat]

Session == [node : Devices, key : Keys, counter : Nat]
Kept == [id : Ids, key : Keys, counter : Nat]
Attempt == [id : Ids, key : Keys]

ASSUME SessionStoreAssumption ==
  /\ NDevices \in Nat /\ IdSpace \in Nat \ {0, 1} /\ Margin \in Nat
  /\ Battery \subseteq Devices /\ MaxAttempts \in Nat
  /\ Bounds \subseteq Bound
  /\ None \notin Session /\ None \notin Kept /\ None \notin Attempt

VARIABLES
  sessionCounter,  \* m_sessionCounter
  pending,         \* the id and the key of a device's CASE in flight
  table,           \* m_sessions: local id -> session
  kept,            \* DeviceObject::session*: what serialize() would write
  battery,         \* DeviceObject::batteryPowered
  endpoints,       \* devices with endpoints and their clusters
  discovery,       \* the report the discovery of a device waits for
  online,          \* availability is Online
  timer,           \* the store timer of DeviceList runs
  sync,            \* m_sync: the next run of it writes the file
  file,            \* the database file
  attempts,        \* bound: how many attempts there were
  restarts,        \* bound: how many restarts there were
  bound,           \* bound: the member of Bounds
  highest,         \* history: the last counter used under a key
  sent,            \* history: how many messages were sent under a key, ever
  copied,          \* history: the key whose counter kept has, and its sent then
  filed,           \* history: the same for the file
  resumed,         \* history: the keys and counters restored so far
  lapsed           \* history: keys for which Margin is not meant, see Lapses

storeVars == <<timer, sync, file>>
deviceVars == <<kept, battery, endpoints, discovery, online>>
savedVars == <<copied, filed, resumed, lapsed>>
vars == <<sessionCounter, pending, table, deviceVars, storeVars,
          attempts, restarts, bound, highest, sent, savedVars>>

-----------------------------------------------------------------------------
(* findByPeerNodeId *)
SessionOf(d) == {s \in Ids : table[s] # None /\ table[s].node = d}

(* hasPersistedSession *)
Persisted(k, d) == k[d] # None /\ k[d].id # 0

(* A session of table t as the device object keeps it, with counter c. *)
Copy(t, s, c) == [id |-> s, key |-> t[s].key, counter |-> c]

(* sendEncrypted on the sessions ss of table t. *)
Transmit(t, ss) ==
  /\ \A s \in ss : t[s].counter < bound.counter
  /\ table' = [s \in Ids |-> IF s \in ss THEN [t[s] EXCEPT !.counter = @ + 1] ELSE t[s]]
  /\ highest' = [k \in Keys |->
       Max({highest[k]} \cup {t[s].counter + 1 : s \in {r \in ss : t[r].key = k}})]
  /\ sent' = [k \in Keys |-> IF \E s \in ss : t[s].key = k THEN sent[k] + 1 ELSE sent[k]]

(* Mutant of Store: the write is not asked for. *)
StoreUnsynced(s) == timer' = TRUE /\ sync' = sync /\ UNCHANGED file

(* DeviceList::store *)
Store(s) == timer' = TRUE /\ sync' = (sync \/ s) /\ UNCHANGED file

(* Mutant of NextId: it is not cut to 16 bits. *)
NextIdWide(c) == c + 1

(* m_sessionCounter after an id is taken: quint16. *)
NextId(c) == (c + 1) % IdSpace

(* Mutant of Bump: the restored id is left to the next CASE. *)
NoBump(c, id) == c

(* The constructor's m_sessionCounter after restoring a session with id. *)
Bump(c, id) == IF c <= id THEN NextId(id) ELSE c

(* Mutant of Resumed: without the margin. *)
ResumedBare(c) == c

(* The counter a restored session starts from. *)
Resumed(c) == c + Margin

-----------------------------------------------------------------------------
(* The first start: no device has had a session yet. *)
Init ==
  /\ sessionCounter = 1
  /\ pending = [d \in Devices |-> None]
  /\ table = [s \in Ids |-> None]
  /\ kept = [d \in Devices |-> None]
  /\ battery = {} /\ endpoints = {} /\ online = {}
  /\ discovery = [d \in Devices |-> "idle"]
  /\ timer = FALSE /\ sync = FALSE
  /\ file = [kept |-> kept, endpoints |-> {}]
  /\ attempts = 0 /\ restarts = 0 /\ bound \in Bounds
  /\ highest = [k \in Keys |-> 0] /\ sent = highest
  /\ copied = [d \in Devices |-> [of |-> 0, sent |-> 0]] /\ filed = copied
  /\ resumed = {} /\ lapsed = {}

(* connectDevice takes the next id. *)
StartCASE(d) ==
  /\ d \in bound.present
  /\ attempts < bound.attempts
  /\ pending[d] = None
  /\ SessionOf(d) = {}
  /\ attempts' = attempts + 1
  /\ pending' = [pending EXCEPT ![d] = [id |-> sessionCounter, key |-> attempts + 1]]
  /\ sessionCounter' = NextId(sessionCounter)
  /\ UNCHANGED <<table, deviceVars, storeVars, restarts, bound, highest, sent, savedVars>>

CaseFailed(d) ==
  /\ pending[d] # None
  /\ pending' = [pending EXCEPT ![d] = None]
  /\ UNCHANGED <<sessionCounter, table, deviceVars, storeVars, attempts, restarts, bound,
                 highest, sent, savedVars>>

(* Mutant of CaseEstablished: the keys of an earlier session are kept. *)
CaseEstablishedKeepsOld(d) ==
  LET p == pending[d]
      t == [s \in Ids |-> IF s = p.id THEN [node |-> d, key |-> p.key, counter |-> 0]
                          ELSE IF s \in SessionOf(d) THEN None ELSE table[s]]
  IN
  /\ p # None
  /\ Transmit(t, {p.id})
  /\ kept' = IF d \in battery /\ ~Persisted(kept, d)
             THEN [kept EXCEPT ![d] = Copy(t, p.id, 0)] ELSE kept
  /\ copied' = IF d \in battery /\ ~Persisted(kept, d)
               THEN [copied EXCEPT ![d] = [of |-> p.key, sent |-> 0]] ELSE copied
  /\ Store(TRUE)
  /\ online' = online \cup {d}
  /\ discovery' = [discovery EXCEPT ![d] = IF d \in endpoints THEN @ ELSE "parts"]
  /\ pending' = [pending EXCEPT ![d] = None]
  /\ UNCHANGED <<sessionCounter, battery, endpoints, attempts, restarts, bound, filed, resumed, lapsed>>

(* caseEstablished: the session is added and a first request sent on it,    *)
(* PartsList when no endpoints are known and Subscribe when they are.       *)
CaseEstablished(d) ==
  LET p == pending[d]
      t == [s \in Ids |-> IF s = p.id THEN [node |-> d, key |-> p.key, counter |-> 0]
                          ELSE IF s \in SessionOf(d) THEN None ELSE table[s]]
  IN
  /\ p # None
  /\ Transmit(t, {p.id})
  /\ kept' = IF d \in battery THEN [kept EXCEPT ![d] = Copy(t, p.id, 0)] ELSE kept
  /\ copied' = IF d \in battery THEN [copied EXCEPT ![d] = [of |-> p.key, sent |-> 0]]
               ELSE copied
  /\ Store(TRUE)
  /\ online' = online \cup {d}
  /\ discovery' = [discovery EXCEPT ![d] = IF d \in endpoints THEN @ ELSE "parts"]
  /\ pending' = [pending EXCEPT ![d] = None]
  /\ UNCHANGED <<sessionCounter, battery, endpoints, attempts, restarts, bound, filed, resumed, lapsed>>

(* handleDeviceUnreachable, and pingTimeout for a silent battery device:    *)
(* what the device object keeps for the database stays.                     *)
SessionLost(d) ==
  /\ SessionOf(d) # {}
  /\ table' = [s \in Ids |-> IF s \in SessionOf(d) THEN None ELSE table[s]]
  /\ online' = online \ {d}
  /\ discovery' = [discovery EXCEPT ![d] = "idle"]
  /\ UNCHANGED <<sessionCounter, pending, kept, battery, endpoints, storeVars,
                 attempts, restarts, bound, highest, sent, savedVars>>

(* A request, an answer or an ack to the device. *)
Send(d) ==
  /\ SessionOf(d) # {}
  /\ Transmit(table, SessionOf(d))
  /\ UNCHANGED <<sessionCounter, pending, deviceVars, storeVars, attempts, restarts, bound, savedVars>>

(* Any message from a device that is not Online. *)
Heard(d) ==
  /\ d \notin online
  /\ SessionOf(d) \ {0} # {}
  /\ online' = online \cup {d}
  /\ UNCHANGED <<sessionCounter, pending, table, kept, battery, endpoints, discovery,
                 storeVars, attempts, restarts, bound, highest, sent, savedVars>>

(* pingTimeout: the counter of every Online device with a session is copied *)
(* to its device object; those silent too long go Offline.                  *)
PingTimeout(silent) ==
  LET counted == {d \in online : SessionOf(d) # {}}
      used(d) == table[CHOOSE s \in SessionOf(d) : TRUE]
  IN
  /\ online # {}
  /\ kept' = [d \in Devices |-> IF d \in counted /\ kept[d] # None
                                THEN [kept[d] EXCEPT !.counter = used(d).counter]
                                ELSE kept[d]]
  /\ copied' = [d \in Devices |-> IF d \in counted /\ kept[d] # None
                                  THEN [of |-> used(d).key, sent |-> sent[used(d).key]]
                                  ELSE copied[d]]
  /\ online' = online \ ((online \ counted) \cup (silent \cap battery))
  /\ UNCHANGED <<sessionCounter, pending, table, battery, endpoints, discovery, storeVars,
                 attempts, restarts, bound, highest, sent, filed, resumed, lapsed>>

-----------------------------------------------------------------------------
(* discoverDevice on the user's request. *)
Rediscover(d) ==
  /\ d \in bound.rediscovered
  /\ endpoints' = endpoints \ {d}
  /\ Store(TRUE)
  /\ Transmit(table, SessionOf(d))
  /\ discovery' = [discovery EXCEPT ![d] = IF SessionOf(d) = {} THEN @ ELSE "parts"]
  /\ UNCHANGED <<sessionCounter, pending, kept, battery, online, attempts, restarts, bound, savedVars>>

(* The report of PartsList: the ServerLists are read. *)
PartsList(d) ==
  /\ discovery[d] = "parts"
  /\ d \notin endpoints
  /\ SessionOf(d) \ {0} # {}
  /\ Transmit(table, SessionOf(d))
  /\ discovery' = [discovery EXCEPT ![d] = "servers"]
  /\ online' = online \cup {d}
  /\ UNCHANGED <<sessionCounter, pending, kept, battery, endpoints, storeVars,
                 attempts, restarts, bound, savedVars>>

(* The end of a discovery: setupEndpoint sees a PowerSource, and the session *)
(* in use is kept for the database unless one is already.                   *)
Finalize(d) ==
  LET s == CHOOSE s \in SessionOf(d) : TRUE IN
  /\ battery' = battery \cup ({d} \cap Battery)
  /\ kept' = IF d \in battery' /\ ~Persisted(kept, d)
             THEN [kept EXCEPT ![d] = Copy(table, s, 0)] ELSE kept
  /\ copied' = IF d \in battery' /\ ~Persisted(kept, d)
               THEN [copied EXCEPT ![d] = [of |-> table[s].key, sent |-> 0]] ELSE copied
  /\ Store(TRUE)
  /\ discovery' = [discovery EXCEPT ![d] = "idle"]

(* The report of the ServerLists: the endpoints are registered; more        *)
(* attributes are read, or discovery ends and the device is subscribed to.  *)
ServerLists(d, more) ==
  /\ discovery[d] = "servers"
  /\ SessionOf(d) \ {0} # {}
  /\ endpoints' = endpoints \cup {d}
  /\ online' = online \cup {d}
  /\ Transmit(table, SessionOf(d))
  /\ IF more
     THEN /\ discovery' = [discovery EXCEPT ![d] = "details"]
          /\ UNCHANGED <<kept, copied, battery, storeVars>>
     ELSE Finalize(d)
  /\ UNCHANGED <<sessionCounter, pending, attempts, restarts, bound, filed, resumed, lapsed>>

(* The report of those attributes. *)
Details(d) ==
  /\ discovery[d] = "details"
  /\ d \in endpoints
  /\ SessionOf(d) \ {0} # {}
  /\ online' = online \cup {d}
  /\ Transmit(table, SessionOf(d))
  /\ Finalize(d)
  /\ UNCHANGED <<sessionCounter, pending, endpoints, attempts, restarts, bound, filed, resumed, lapsed>>

-----------------------------------------------------------------------------
(* Other callers of store: MQTT connected (no sync), a command, an update. *)
RequestStore(s) ==
  /\ ~timer \/ s # sync
  /\ Store(s)
  /\ UNCHANGED <<sessionCounter, pending, table, deviceVars, attempts, restarts, bound,
                 highest, sent, savedVars>>

Current == [kept |-> kept, endpoints |-> endpoints]

(* writeDatabase; m_sync is reset before the write is known to succeed. *)
WriteDatabase(ok) ==
  /\ timer
  /\ ok \/ bound.writesFail
  /\ timer' = FALSE
  /\ sync' = FALSE
  /\ file' = IF sync /\ ok THEN Current ELSE file
  /\ filed' = IF sync /\ ok THEN copied ELSE filed
  /\ UNCHANGED <<sessionCounter, pending, table, deviceVars, attempts, restarts, bound,
                 highest, sent, copied, resumed, lapsed>>

(* m_sessionCounter in the constructor, after each device of the list. *)
Counted(restored, k) ==
  {next \in [0..NDevices -> Ids] :
     /\ next[0] = 1
     /\ \A n \in Devices : next[n] = IF n \in restored THEN Bump(next[n - 1], k[n].id)
                                     ELSE next[n - 1]}

(* m_sessions there: of two devices with one id the later stays. *)
Restored(restored, k) ==
  [s \in Ids |->
     LET last == {d \in restored : /\ k[d].id = s
                                   /\ \A c \in restored : k[c].id = s => c <= d}
         d == CHOOSE d \in last : TRUE
     IN IF last = {} THEN None
        ELSE [node |-> d, key |-> k[d].key, counter |-> Resumed(k[d].counter)]]

(* What Margin does not make up for, where d is restored from k: its counter *)
(* was restored before, so that the margin itself is used twice (two starts *)
(* with no ping between them); it is the counter of another session, that   *)
(* pingTimeout put beside the keys of an older one (a device discovered     *)
(* anew); or more than Margin messages were sent since it was copied.       *)
Lapses(k, from, d) ==
  \/ <<k[d].key, k[d].counter>> \in resumed
  \/ from[d].of # k[d].key
  \/ sent[k[d].key] - from[d].sent > Margin

(* The service ends, cleanly with a last write or not, and the constructor  *)
(* runs again: the sessions of battery devices are restored, and of those   *)
(* with a route a Subscribe is sent on theirs.                              *)
Restart(clean, routed) ==
  LET saved == IF clean THEN Current ELSE file
      k == saved.kept
      from == IF clean THEN copied ELSE filed
      restored == {d \in Battery \cap saved.endpoints : Persisted(k, d)}
      t == Restored(restored, k)
  IN
  /\ restarts < bound.restarts
  /\ restarts' = restarts + 1
  /\ clean \/ bound.crashes
  /\ routed \subseteq restored
  /\ file' = saved
  /\ kept' = k
  /\ endpoints' = saved.endpoints
  /\ battery' = Battery \cap saved.endpoints
  /\ Transmit(t, {s \in Ids : t[s] # None /\ t[s].node \in routed})
  /\ copied' = from
  /\ filed' = from
  /\ resumed' = resumed \cup {<<k[d].key, k[d].counter>> : d \in restored}
  /\ lapsed' = lapsed \cup {k[d].key : d \in {c \in restored : Lapses(k, from, c)}}
  /\ \E next \in Counted(restored, k) : sessionCounter' = next[NDevices]
  /\ pending' = [d \in Devices |-> None]
  /\ discovery' = [d \in Devices |-> "idle"]
  /\ online' = {}
  /\ timer' = FALSE
  /\ sync' = FALSE
  /\ UNCHANGED <<attempts, bound>>

Next ==
  \/ \E d \in Devices : StartCASE(d)
  \/ \E d \in Devices : CaseFailed(d)
  \/ \E d \in Devices : CaseEstablished(d)
  \/ \E d \in Devices : SessionLost(d)
  \/ \E d \in Devices : Send(d)
  \/ \E d \in Devices : Heard(d)
  \/ \E silent \in SUBSET Devices : PingTimeout(silent)
  \/ \E d \in Devices : Rediscover(d)
  \/ \E d \in Devices : PartsList(d)
  \/ \E d \in Devices, more \in BOOLEAN : ServerLists(d, more)
  \/ \E d \in Devices : Details(d)
  \/ \E s \in BOOLEAN : RequestStore(s)
  \/ \E ok \in BOOLEAN : WriteDatabase(ok)
  \/ \E clean \in BOOLEAN, routed \in SUBSET Battery : Restart(clean, routed)

Spec == Init /\ [][Next]_vars
-----------------------------------------------------------------------------
(* Types, and no more. *)
TypeOK ==
  /\ sessionCounter \in Ids
  /\ pending \in [Devices -> Attempt \cup {None}]
  /\ table \in [Ids -> Session \cup {None}]
  /\ kept \in [Devices -> Kept \cup {None}]
  /\ battery \subseteq Battery
  /\ endpoints \subseteq Devices
  /\ discovery \in [Devices -> {"idle", "parts", "servers", "details"}]
  /\ online \subseteq Devices
  /\ timer \in BOOLEAN /\ sync \in BOOLEAN
  /\ file \in [kept : [Devices -> Kept \cup {None}], endpoints : SUBSET Devices]
  /\ attempts \in 0..MaxAttempts
  /\ bound \in Bounds /\ restarts \in 0..bound.restarts
  /\ highest \in [Keys -> Nat]
  /\ lapsed \subseteq Keys

(* What the margin gives: a session never sends with a counter its key has   *)
(* used before, over all restarts and crashes, as long as no more than      *)
(* Margin messages separate each start from the counter it reads.  Excepted *)
(* are keys restored twice from one counter (see Monotonic), and those of a *)
(* device discovered anew whose counter is another session's.               *)
MarginSuffices ==
  \A s \in Ids : table[s] # None =>
    table[s].counter >= highest[table[s].key] \/ table[s].key \in lapsed

(* Ids never meet: that of an attempt, of a session and of a session kept   *)
(* for the next start are those of one device, although the counter starts  *)
(* from 1 again with each process.                                          *)
IdsApart ==
  \A c, d \in Devices : c # d =>
    /\ pending[d] # None =>
         /\ SessionOf(c) # {pending[d].id}
         /\ pending[c] # None => pending[c].id # pending[d].id
         /\ kept[c] # None => kept[c].id # pending[d].id
    /\ kept[c] # None /\ kept[d] # None => kept[c].id # kept[d].id

(* matter.cpp:1407: the keys of the active session are captured so that     *)
(* they can be written.  So a device known to have a battery, whose         *)
(* discovery is over, keeps the session it uses, unless rediscovered.       *)
CapturesActive ==
  \A d \in battery \ bound.rediscovered : discovery[d] = "idle" =>
    \A s \in SessionOf(d) \ {0} : kept[d] # None /\ kept[d].key = table[s].key

(* What IInv adds: a device has one session, and a key is of one device, in  *)
(* use, kept and in the file.                                               *)
OneSession ==
  \A r, s \in Ids :
    table[r] # None /\ table[s] # None /\ table[r].node = table[s].node => r = s

KeysApart(k) ==
  /\ \A c, d \in Devices : k[c] # None /\ k[d] # None /\ k[c].key = k[d].key => c = d
  /\ \A d \in Devices, s \in Ids :
       k[d] # None /\ table[s] # None /\ k[d].key = table[s].key => table[s].node = d

SessionsApart ==
  \A r, s \in Ids :
    table[r] # None /\ table[s] # None /\ table[r].key = table[s].key => r = s

(* The key of an attempt, in flight or to come, has not been used. *)
Fresh(key) == key > attempts \/ \E d \in Devices : pending[d] # None /\ pending[d].key = key
KeysFresh ==
  /\ \A d \in Devices : pending[d] # None => pending[d].key <= attempts
  /\ \A c, d \in Devices :
       pending[c] # None /\ pending[d] # None /\ pending[c].key = pending[d].key => c = d
  /\ \A key \in Keys : Fresh(key) =>
       /\ highest[key] = 0
       /\ \A s \in Ids : table[s] # None => table[s].key # key
       /\ \A d \in Devices : /\ kept[d] # None => kept[d].key # key
                             /\ file.kept[d] # None => file.kept[d].key # key

(* Only what is known to have a battery has a session kept; it is known      *)
(* since its discovery ended.                                               *)
KeptKnown ==
  \A d \in Devices \ bound.rediscovered :
    /\ kept[d] # None => d \in battery
    /\ d \in battery => d \in endpoints /\ discovery[d] = "idle"
    /\ file.kept[d] # None => d \in Battery \cap file.endpoints

KeyInv ==
  /\ TypeOK
  /\ OneSession
  /\ KeysApart(kept)
  /\ KeysApart(file.kept)
  /\ SessionsApart
  /\ KeysFresh
  /\ MarginSuffices
  /\ KeptKnown
  /\ CapturesActive

(* What IdsApart rests on while m_sessionCounter has not come round and no   *)
(* device is discovered anew: every id in use, kept or in the file has been  *)
(* counted, the file's too, as the constructor counts past what it restores; *)
(* and the id of a session or an attempt is nothing else's.                  *)
Has(x, id) == x # None /\ x.id = id
Taken(id) ==
  \/ table[id] # None
  \/ \E d \in Devices : Has(pending[d], id) \/ Has(kept[d], id) \/ Has(file.kept[d], id)

IdsCounted ==
  /\ \A id \in Ids : Taken(id) => id \in 1..attempts
  /\ attempts + 1 < IdSpace =>
       /\ sessionCounter \in 1 .. attempts + 1
       /\ \A id \in Ids : Taken(id) => id < sessionCounter
  /\ \A d \in Devices :
       /\ pending[d] # None => table[pending[d].id] = None
       /\ kept[d] # None /\ table[kept[d].id] # None => table[kept[d].id].node = d
  /\ \A c, d \in Devices :
       c # d /\ file.kept[c] # None /\ file.kept[d] # None => file.kept[c].id # file.kept[d].id

Unwrapped == attempts < IdSpace /\ bound.rediscovered = {}

IdInv == Unwrapped => IdsApart /\ IdsCounted

(* What MarginSuffices rests on over a restart: what was used under a key is  *)
(* at most the counter kept beside it, or in the file, and what has been    *)
(* sent since; and discovery, which keeps a session with counter 0, does so *)
(* only with one that has counted from 0.                                   *)
Within(key, u) ==
  /\ highest[key] <= u
  /\ \A s \in Ids : table[s] # None /\ table[s].key = key => table[s].counter <= u

Behind(c, from) ==
  from.of = c.key =>
    /\ from.sent <= sent[c.key]
    /\ c.key \notin lapsed /\ <<c.key, c.counter>> \notin resumed =>
         Within(c.key, c.counter + (sent[c.key] - from.sent))

Follows(k, from) == \A d \in Devices : k[d] # None => Behind(k[d], from[d])

Origin == [of : Nat, sent : Nat]

CountInv ==
  /\ sent \in [Keys -> Nat]
  /\ copied \in [Devices -> Origin] /\ filed \in [Devices -> Origin]
  /\ \A key \in Keys : Fresh(key) => sent[key] = 0
  /\ \A s \in Ids : table[s] # None =>
       table[s].counter <= sent[table[s].key] \/ Persisted(kept, table[s].node)
  /\ Follows(kept, copied)
  /\ Follows(file.kept, filed)

IInv == KeyInv /\ IdInv /\ CountInv

(* The store timer runs out sooner or later. *)
FairSpec == Spec /\ WF_vars(WriteDatabase(TRUE))

(* The session kept for a battery device whose discovery is over is the one *)
(* in use.                                                                  *)
InUse(d) ==
  /\ d \in battery \cap endpoints
  /\ discovery[d] = "idle"
  /\ kept[d] # None
  /\ \E s \in SessionOf(d) : table[s].key = kept[d].key

(* Such a session reaches the file together with the endpoints, or else it  *)
(* would not be restored: it does not stay out of the file for ever.  Not   *)
(* where writes fail, as m_sync is reset before they do (device.cpp:691).   *)
SessionSaved ==
  []<>(bound.writesFail \/
         \A d \in Battery : InUse(d) =>
           /\ d \in file.endpoints
           /\ file.kept[d] # None /\ file.kept[d].key = kept[d].key)

-----------------------------------------------------------------------------
(* What the comment of matter.cpp:95 says: the counter is strictly monotonic *)
(* across restarts.                                                         *)
Monotonic ==
  \A s \in Ids : table[s] # None => table[s].counter >= highest[table[s].key]
=============================================================================
