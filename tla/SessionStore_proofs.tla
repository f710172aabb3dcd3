------------------------ MODULE SessionStore_proofs ------------------------
(***************************************************************************)
(* Proofs about SessionStore, for every list of devices, every margin and  *)
(* every bound: the inductive invariant IInv, with it the types,           *)
(* MarginSuffices, CapturesActive and IdsApart.                            *)
(***************************************************************************)
EXTENDS SessionStore, WellFoundedInduction, TLAPS

(* What Transmit(t, ss) makes of the table t: counters of sessions whose     *)
(* keys differ go up together with those of their keys.                      *)
LEMMA Transmitting ==
  ASSUME NEW t \in [Ids -> Session \cup {None}], NEW ss \in SUBSET Ids,
         \A s \in ss : t[s] # None,
         highest \in [Keys -> Nat],
         \A r, s \in Ids : t[r] # None /\ t[s] # None /\ t[r].node = t[s].node => r = s,
         \A r, s \in Ids : t[r] # None /\ t[s] # None /\ t[r].key = t[s].key => r = s,
         \A s \in Ids : t[s] # None =>
           t[s].counter >= highest[t[s].key] \/ t[s].key \in lapsed',
         Transmit(t, ss)
  PROVE  /\ table' \in [Ids -> Session \cup {None}]
         /\ highest' \in [Keys -> Nat]
         /\ OneSession' /\ SessionsApart' /\ MarginSuffices'
         /\ \A s \in Ids : table'[s] # None =>
              t[s] # None /\ table'[s].node = t[s].node /\ table'[s].key = t[s].key
         /\ \A k \in Keys : (\A s \in Ids : t[s] # None => t[s].key # k)
                              => highest'[k] = highest[k]
<1> DEFINE used(k) == {t[s].counter + 1 : s \in {r \in ss : t[r].key = k}}
<1>1. /\ table' = [s \in Ids |-> IF s \in ss THEN [t[s] EXCEPT !.counter = @ + 1] ELSE t[s]]
      /\ highest' = [k \in Keys |-> Max({highest[k]} \cup used(k))]
  BY DEF Transmit
<1>2. \A s \in Ids : t[s] # None => t[s] \in Session
  OBVIOUS
<1>3. \A s \in ss : /\ table'[s] \in Session
                    /\ table'[s].node = t[s].node /\ table'[s].key = t[s].key
                    /\ table'[s].counter = t[s].counter + 1
  <2> SUFFICES ASSUME NEW s \in ss
               PROVE  /\ table'[s] \in Session
                      /\ table'[s].node = t[s].node /\ table'[s].key = t[s].key
                      /\ table'[s].counter = t[s].counter + 1
    OBVIOUS
  <2>1. table'[s] = [t[s] EXCEPT !.counter = @ + 1] /\ t[s] \in Session
    BY <1>1, <1>2
  <2> QED
    BY <2>1 DEF Session
<1>4. \A s \in Ids : s \notin ss => table'[s] = t[s]
  BY <1>1
<1>5. table' \in [Ids -> Session \cup {None}]
  <2>1. \A s \in Ids : table'[s] \in Session \cup {None}
    BY <1>3, <1>4
  <2> QED
    BY <1>1, <2>1
<1>6. \A s \in Ids : table'[s] # None =>
        t[s] # None /\ table'[s].node = t[s].node /\ table'[s].key = t[s].key
  BY <1>3, <1>4
<1>7. OneSession' /\ SessionsApart'
  BY <1>6 DEF OneSession, SessionsApart
<1>8. \A k \in Keys : (\A s \in ss : t[s].key # k) => highest'[k] = highest[k]
  <2> SUFFICES ASSUME NEW k \in Keys, \A s \in ss : t[s].key # k
               PROVE  highest'[k] = highest[k]
    OBVIOUS
  <2>1. {highest[k]} \cup used(k) = {highest[k]}
    OBVIOUS
  <2>2. highest[k] \in Nat
    OBVIOUS
  <2> HIDE DEF used
  <2> QED
    BY <1>1, <2>1, <2>2 DEF Max
<1>9. \A s \in ss : /\ highest'[t[s].key] \in Nat
                    /\ \/ highest'[t[s].key] = highest[t[s].key]
                       \/ highest'[t[s].key] = t[s].counter + 1
                    /\ t[s].counter >= highest[t[s].key]
                         => highest'[t[s].key] <= t[s].counter + 1
  <2> SUFFICES ASSUME NEW s \in ss
               PROVE  /\ highest'[t[s].key] \in Nat
                      /\ \/ highest'[t[s].key] = highest[t[s].key]
                         \/ highest'[t[s].key] = t[s].counter + 1
                      /\ t[s].counter >= highest[t[s].key]
                           => highest'[t[s].key] <= t[s].counter + 1
    OBVIOUS
  <2> DEFINE k == t[s].key
             h == highest[k]
             c == t[s].counter + 1
  <2>1. k \in Keys /\ h \in Nat /\ c \in Nat
    BY <1>2 DEF Session
  <2>2. {r \in ss : t[r].key = k} = {s}
    OBVIOUS
  <2>3. used(k) = {c}
    BY <2>2
  <2>4. highest'[k] = Max({h, c})
    BY <1>1, <2>1, <2>3
  <2> HIDE DEF used, h, c, k
  <2>5. \E x \in {h, c} : \A y \in {h, c} : x >= y
    BY <2>1
  <2>6. highest'[k] \in {h, c}
    BY <2>4, <2>5 DEF Max
  <2>7. c > h => highest'[k] <= c
    BY <2>1, <2>6
  <2> QED
    BY <1>2, <2>1, <2>6, <2>7 DEF h, c, k, Session
<1>10. highest' \in [Keys -> Nat]
  <2> SUFFICES ASSUME NEW k \in Keys PROVE highest'[k] \in Nat
    BY <1>1
  <2>1. CASE \E s \in ss : t[s].key = k
    BY <2>1, <1>9
  <2>2. CASE \A s \in ss : t[s].key # k
    BY <2>2, <1>8
  <2> QED
    BY <2>1, <2>2
<1>11. MarginSuffices'
  <2> SUFFICES ASSUME NEW s \in Ids, table'[s] # None, table'[s].key \notin lapsed'
               PROVE  table'[s].counter >= highest'[table'[s].key]
    BY DEF MarginSuffices
  <2>1. /\ t[s] # None /\ t[s] \in Session /\ table'[s].key = t[s].key
        /\ t[s].counter >= highest[t[s].key]
    BY <1>2, <1>6
  <2>2. CASE s \in ss
    <3>1. highest'[t[s].key] <= t[s].counter + 1 /\ table'[s].counter = t[s].counter + 1
      BY <1>3, <1>9, <2>1, <2>2
    <3> QED
      BY <1>9, <2>1, <2>2, <3>1 DEF Session
  <2>3. CASE s \notin ss
    BY <1>4, <1>8, <2>1, <2>3 DEF Session
  <2> QED
    BY <2>2, <2>3
<1>12. \A k \in Keys : (\A s \in Ids : t[s] # None => t[s].key # k)
                         => highest'[k] = highest[k]
  BY <1>8
<1> QED
  BY <1>5, <1>6, <1>7, <1>10, <1>11, <1>12

(* Steps that make no session and keep none anew: each key stays where it    *)
(* is or goes.                                                               *)
LEMMA Steady ==
  ASSUME KeyInv, TypeOK', OneSession', SessionsApart', MarginSuffices',
         UNCHANGED <<attempts, battery, bound>>,
         \A d \in Devices : pending'[d] = pending[d] \/ pending'[d] = None,
         \A s \in Ids : table'[s] # None =>
           table[s] # None /\ table'[s].node = table[s].node /\ table'[s].key = table[s].key,
         \A k \in Keys : (\A s \in Ids : table[s] # None => table[s].key # k)
                           => highest'[k] = highest[k],
         \A d \in Devices : /\ kept'[d] # None <=> kept[d] # None
                            /\ kept[d] # None => kept'[d].key = kept[d].key,
         file' = file \/ file' = Current,
         \A d \in Devices \ bound.rediscovered :
           (d \in endpoints => d \in endpoints') /\ (d \in battery => discovery'[d] = "idle")
  PROVE  KeyInv'
<1>1. \A d \in Devices : file'.kept[d] = file.kept[d] \/ file'.kept[d] = kept[d]
  BY DEF Current
<1>2. KeysApart(kept)'
  BY DEF KeyInv, KeysApart
<1>3. KeysApart(file.kept)'
  <2>1. CASE file' = file
    BY <2>1 DEF KeyInv, KeysApart
  <2>2. CASE file' = Current
    BY <2>2 DEF KeyInv, KeysApart, Current
  <2> QED
    BY <2>1, <2>2
<1>4. \A key \in Keys : Fresh(key)' => Fresh(key)
  BY DEF Fresh
<1>5. KeysFresh'
  <2>1. \A key \in Keys : Fresh(key)' =>
          /\ highest'[key] = 0
          /\ \A s \in Ids : table'[s] # None => table'[s].key # key
          /\ \A d \in Devices : /\ kept'[d] # None => kept'[d].key # key
                                /\ file'.kept[d] # None => file'.kept[d].key # key
    BY <1>1, <1>4 DEF KeyInv, KeysFresh
  <2> QED
    BY <2>1 DEF KeyInv, KeysFresh
<1>6. KeptKnown'
  <2> SUFFICES ASSUME NEW d \in Devices \ bound.rediscovered
               PROVE  /\ kept'[d] # None => d \in battery
                      /\ d \in battery => d \in endpoints' /\ discovery'[d] = "idle"
                      /\ file'.kept[d] # None => d \in Battery \cap file'.endpoints
    BY DEF KeptKnown
  <2>1. /\ kept[d] # None => d \in battery
        /\ d \in battery => d \in endpoints /\ d \in Battery
        /\ file.kept[d] # None => d \in Battery \cap file.endpoints
    BY DEF KeyInv, KeptKnown, TypeOK
  <2> QED
    BY <2>1 DEF Current
<1>7. CapturesActive'
  <2> SUFFICES ASSUME NEW d \in battery \ bound.rediscovered, NEW s \in Ids \ {0},
                      table'[s] # None, table'[s].node = d
               PROVE  kept'[d] # None /\ kept'[d].key = table'[s].key
    BY DEF CapturesActive, SessionOf
  <2>1. d \in Devices
    BY SessionStoreAssumption DEF KeyInv, TypeOK
  <2>2. discovery[d] = "idle" /\ s \in SessionOf(d) \ {0}
    BY <2>1 DEF KeyInv, KeptKnown, SessionOf
  <2>3. kept[d] # None /\ kept[d].key = table[s].key
    BY <2>2 DEF KeyInv, CapturesActive
  <2> QED
    BY <2>1, <2>3
<1> QED
  BY <1>2, <1>3, <1>5, <1>6, <1>7 DEF KeyInv

(* Transmit on sessions of the table as it is, or as it is when some go.    *)
LEMMA Talking ==
  ASSUME KeyInv, NEW ss \in SUBSET Ids, \A s \in ss : table[s] # None,
         Transmit(table, ss), UNCHANGED lapsed
  PROVE  /\ table' \in [Ids -> Session \cup {None}]
         /\ highest' \in [Keys -> Nat]
         /\ OneSession' /\ SessionsApart' /\ MarginSuffices'
         /\ \A s \in Ids : table'[s] # None =>
              table[s] # None /\ table'[s].node = table[s].node /\ table'[s].key = table[s].key
         /\ \A k \in Keys : (\A s \in Ids : table[s] # None => table[s].key # k)
                              => highest'[k] = highest[k]
<1>1. /\ table \in [Ids -> Session \cup {None}]
      /\ highest \in [Keys -> Nat]
      /\ \A r, s \in Ids :
           table[r] # None /\ table[s] # None /\ table[r].node = table[s].node => r = s
      /\ \A r, s \in Ids :
           table[r] # None /\ table[s] # None /\ table[r].key = table[s].key => r = s
      /\ \A s \in Ids : table[s] # None =>
           table[s].counter >= highest[table[s].key] \/ table[s].key \in lapsed'
  BY DEF KeyInv, TypeOK, OneSession, SessionsApart, MarginSuffices
<1> HIDE DEF Transmit
<1> QED
  BY <1>1, Transmitting

LEMMA SessionOfFacts ==
  \A d : SessionOf(d) \in SUBSET Ids /\ \A s \in SessionOf(d) : table[s] # None
BY DEF SessionOf

LEMMA StartCASEStep ==
  ASSUME KeyInv, NEW d \in Devices, StartCASE(d)
  PROVE  KeyInv'
<1> DEFINE p == [id |-> sessionCounter, key |-> attempts + 1]
<1>1. /\ attempts' = attempts + 1 /\ pending' = [pending EXCEPT ![d] = p]
      /\ sessionCounter' = NextId(sessionCounter) /\ pending[d] = None
      /\ UNCHANGED <<table, kept, battery, endpoints, discovery, online, timer, sync, file,
                     restarts, bound, highest, lapsed>>
  BY DEF StartCASE, deviceVars, storeVars, savedVars
<1>2. /\ attempts \in Nat /\ attempts' \in 0..MaxAttempts /\ attempts + 1 \in Keys
      /\ MaxAttempts \in Nat
  <2>1. bound.attempts \in 0..MaxAttempts
    BY SessionStoreAssumption DEF KeyInv, TypeOK, Bound
  <2> QED
    BY <1>1, <2>1, SessionStoreAssumption DEF KeyInv, TypeOK, StartCASE, Keys
<1>3. sessionCounter' \in Ids
  BY <1>1, SessionStoreAssumption DEF KeyInv, TypeOK, NextId, Ids
<1>4. p \in Attempt /\ p.key = attempts + 1
  BY <1>2 DEF KeyInv, TypeOK, Attempt
<1> HIDE DEF p
<1>5. pending' \in [Devices -> Attempt \cup {None}]
  BY <1>1, <1>4 DEF KeyInv, TypeOK
<1>6. TypeOK'
  BY <1>1, <1>2, <1>3, <1>5 DEF KeyInv, TypeOK
<1>7. /\ OneSession' /\ KeysApart(kept)' /\ KeysApart(file.kept)' /\ SessionsApart'
      /\ MarginSuffices' /\ KeptKnown' /\ CapturesActive'
  BY <1>1 DEF KeyInv, OneSession, KeysApart, SessionsApart, MarginSuffices, KeptKnown,
              CapturesActive, SessionOf
<1>8. \A c \in Devices : pending'[c] = IF c = d THEN p ELSE pending[c]
  BY <1>1 DEF KeyInv, TypeOK
<1>9. KeysFresh'
  <2>1. \A c \in Devices : pending[c] # None =>
          pending[c].key <= attempts /\ pending[c].key # attempts + 1
    BY <1>2 DEF KeyInv, KeysFresh, TypeOK, Attempt, Keys
  <2>2. \A c \in Devices : pending'[c] # None => pending'[c].key <= attempts'
    BY <1>1, <1>2, <1>4, <1>8 DEF KeyInv, KeysFresh, TypeOK, Attempt, Keys
  <2>3. \A b, c \in Devices :
          pending'[b] # None /\ pending'[c] # None /\ pending'[b].key = pending'[c].key => b = c
    BY <1>4, <1>8, <2>1 DEF KeyInv, KeysFresh
  <2>4. \A key \in Keys : Fresh(key)' => Fresh(key)
    <3> SUFFICES ASSUME NEW key \in Keys, Fresh(key)' PROVE Fresh(key)
      OBVIOUS
    <3>1. CASE key > attempts'
      BY <1>1, <1>2, <3>1 DEF Fresh, Keys
    <3>2. CASE \E c \in Devices : pending'[c] # None /\ pending'[c].key = key
      BY <1>2, <1>4, <1>8, <3>2 DEF Fresh
    <3> QED
      BY <3>1, <3>2 DEF Fresh
  <2>5. \A key \in Keys : Fresh(key)' =>
          /\ highest'[key] = 0
          /\ \A s \in Ids : table'[s] # None => table'[s].key # key
          /\ \A c \in Devices : /\ kept'[c] # None => kept'[c].key # key
                                /\ file'.kept[c] # None => file'.kept[c].key # key
    BY <1>1, <2>4 DEF KeyInv, KeysFresh
  <2> QED
    BY <2>2, <2>3, <2>5 DEF KeysFresh
<1> QED
  BY <1>6, <1>7, <1>9 DEF KeyInv

LEMMA CaseFailedStep ==
  ASSUME KeyInv, NEW d \in Devices, CaseFailed(d)
  PROVE  KeyInv'
<1>1. /\ pending' = [pending EXCEPT ![d] = None]
      /\ UNCHANGED <<sessionCounter, table, kept, battery, endpoints, discovery, online,
                     timer, sync, file, attempts, restarts, bound, highest, lapsed>>
  BY DEF CaseFailed, deviceVars, storeVars, savedVars
<1>2. TypeOK'
  BY <1>1 DEF KeyInv, TypeOK
<1>3. OneSession' /\ SessionsApart' /\ MarginSuffices'
  BY <1>1 DEF KeyInv, OneSession, SessionsApart, MarginSuffices
<1>4. \A c \in Devices : pending'[c] = pending[c] \/ pending'[c] = None
  BY <1>1 DEF KeyInv, TypeOK
<1>5. \A c \in Devices \ bound.rediscovered : c \in battery => discovery[c] = "idle"
  BY DEF KeyInv, KeptKnown
<1> QED
  BY <1>1, <1>2, <1>3, <1>4, <1>5, Steady

LEMMA SessionLostStep ==
  ASSUME KeyInv, NEW d \in Devices, SessionLost(d)
  PROVE  KeyInv'
<1>1. /\ table' = [s \in Ids |-> IF s \in SessionOf(d) THEN None ELSE table[s]]
      /\ online' = online \ {d} /\ discovery' = [discovery EXCEPT ![d] = "idle"]
      /\ UNCHANGED <<sessionCounter, pending, kept, battery, endpoints, timer, sync, file,
                     attempts, restarts, bound, highest, lapsed>>
  BY DEF SessionLost, storeVars, savedVars
<1>2. \A s \in Ids : table'[s] # None => table'[s] = table[s]
  BY <1>1
<1>3. table' \in [Ids -> Session \cup {None}]
  BY <1>1 DEF KeyInv, TypeOK
<1>4. TypeOK'
  BY <1>1, <1>3 DEF KeyInv, TypeOK
<1>5. OneSession' /\ SessionsApart' /\ MarginSuffices'
  BY <1>1, <1>2 DEF KeyInv, OneSession, SessionsApart, MarginSuffices
<1>6. \A c \in Devices \ bound.rediscovered : c \in battery => discovery'[c] = "idle"
  BY <1>1 DEF KeyInv, KeptKnown, TypeOK
<1> QED
  BY <1>1, <1>2, <1>4, <1>5, <1>6, Steady

(* A step that only sends on sessions there are. *)
LEMMA SendStep ==
  ASSUME KeyInv, NEW d \in Devices, Send(d)
  PROVE  KeyInv'
<1>1. /\ Transmit(table, SessionOf(d))
      /\ UNCHANGED <<sessionCounter, pending, kept, battery, endpoints, discovery, online,
                     timer, sync, file, attempts, restarts, bound, lapsed>>
  BY DEF Send, deviceVars, storeVars, savedVars
<1>2. /\ table' \in [Ids -> Session \cup {None}]
      /\ highest' \in [Keys -> Nat]
      /\ OneSession' /\ SessionsApart' /\ MarginSuffices'
      /\ \A s \in Ids : table'[s] # None =>
           table[s] # None /\ table'[s].node = table[s].node /\ table'[s].key = table[s].key
      /\ \A k \in Keys : (\A s \in Ids : table[s] # None => table[s].key # k)
                           => highest'[k] = highest[k]
  BY <1>1, Talking, SessionOfFacts
<1>3. TypeOK'
  BY <1>1, <1>2 DEF KeyInv, TypeOK
<1>4. \A c \in Devices \ bound.rediscovered : c \in battery => discovery[c] = "idle"
  BY DEF KeyInv, KeptKnown
<1> QED
  BY <1>1, <1>2, <1>3, <1>4, Steady

LEMMA HeardStep ==
  ASSUME KeyInv, NEW d \in Devices, Heard(d)
  PROVE  KeyInv'
<1>1. /\ online' = online \cup {d}
      /\ UNCHANGED <<sessionCounter, pending, table, kept, battery, endpoints, discovery,
                     timer, sync, file, attempts, restarts, bound, highest, lapsed>>
  BY DEF Heard, storeVars, savedVars
<1>2. TypeOK'
  BY <1>1 DEF KeyInv, TypeOK
<1>3. OneSession' /\ SessionsApart' /\ MarginSuffices'
  BY <1>1 DEF KeyInv, OneSession, SessionsApart, MarginSuffices
<1>4. \A c \in Devices \ bound.rediscovered : c \in battery => discovery[c] = "idle"
  BY DEF KeyInv, KeptKnown
<1> QED
  BY <1>1, <1>2, <1>3, <1>4, Steady

LEMMA PingTimeoutStep ==
  ASSUME KeyInv, NEW silent \in SUBSET Devices, PingTimeout(silent)
  PROVE  KeyInv'
<1> DEFINE counted == {d \in online : SessionOf(d) # {}}
           counterOf(d) == table[CHOOSE s \in SessionOf(d) : TRUE].counter
           counts(d) == d \in counted /\ kept[d] # None
<1>1. /\ kept' = [d \in Devices |-> IF counts(d)
                                    THEN [kept[d] EXCEPT !.counter = counterOf(d)]
                                    ELSE kept[d]]
      /\ online' \subseteq online
      /\ UNCHANGED <<sessionCounter, pending, table, battery, endpoints, discovery, timer,
                     sync, file, attempts, restarts, bound, highest, lapsed>>
  BY DEF PingTimeout, storeVars, savedVars
<1>2. \A d \in Devices : counts(d) => counterOf(d) \in Nat
  <2> SUFFICES ASSUME NEW d \in Devices, counts(d) PROVE counterOf(d) \in Nat
    OBVIOUS
  <2>1. PICK s \in SessionOf(d) : s = CHOOSE r \in SessionOf(d) : TRUE
    OBVIOUS
  <2>2. table[s] \in Session
    BY <2>1, SessionOfFacts DEF KeyInv, TypeOK
  <2> QED
    BY <2>1, <2>2 DEF Session
<1> HIDE DEF counts, counterOf
<1>3. \A d \in Devices : counts(d) =>
        kept'[d] \in Kept /\ kept'[d].key = kept[d].key /\ kept[d] # None
  <2> SUFFICES ASSUME NEW d \in Devices, counts(d)
               PROVE  kept'[d] \in Kept /\ kept'[d].key = kept[d].key /\ kept[d] # None
    OBVIOUS
  <2>1. kept'[d] = [kept[d] EXCEPT !.counter = counterOf(d)]
    BY <1>1
  <2>2. kept[d] \in Kept
    BY DEF counts, KeyInv, TypeOK
  <2> QED
    BY <1>2, <2>1, <2>2 DEF counts, Kept
<1>4. \A d \in Devices : ~counts(d) => kept'[d] = kept[d]
  BY <1>1
<1>5. kept' \in [Devices -> Kept \cup {None}]
  <2>1. \A d \in Devices : kept'[d] \in Kept \cup {None}
    BY <1>3, <1>4 DEF KeyInv, TypeOK
  <2> QED
    BY <1>1, <2>1
<1>6. TypeOK'
  BY <1>1, <1>5 DEF KeyInv, TypeOK
<1>7. OneSession' /\ SessionsApart' /\ MarginSuffices'
  BY <1>1 DEF KeyInv, OneSession, SessionsApart, MarginSuffices
<1>8. \A c \in Devices \ bound.rediscovered : c \in battery => discovery[c] = "idle"
  BY DEF KeyInv, KeptKnown
<1>9. \A d \in Devices : /\ kept'[d] # None <=> kept[d] # None
                         /\ kept[d] # None => kept'[d].key = kept[d].key
  BY <1>3, <1>4, SessionStoreAssumption
<1> QED
  BY <1>1, <1>6, <1>7, <1>8, <1>9, Steady

LEMMA RediscoverStep ==
  ASSUME KeyInv, NEW d \in Devices, Rediscover(d)
  PROVE  KeyInv'
<1>1. /\ d \in bound.rediscovered /\ endpoints' = endpoints \ {d}
      /\ timer' = TRUE /\ sync' \in BOOLEAN
      /\ Transmit(table, SessionOf(d))
      /\ discovery' = [discovery EXCEPT ![d] = IF SessionOf(d) = {} THEN @ ELSE "parts"]
      /\ UNCHANGED <<sessionCounter, pending, kept, battery, online, file, attempts,
                     restarts, bound, lapsed>>
  BY DEF Rediscover, Store, savedVars, KeyInv, TypeOK
<1>2. /\ table' \in [Ids -> Session \cup {None}]
      /\ highest' \in [Keys -> Nat]
      /\ OneSession' /\ SessionsApart' /\ MarginSuffices'
      /\ \A s \in Ids : table'[s] # None =>
           table[s] # None /\ table'[s].node = table[s].node /\ table'[s].key = table[s].key
      /\ \A k \in Keys : (\A s \in Ids : table[s] # None => table[s].key # k)
                           => highest'[k] = highest[k]
  BY <1>1, Talking, SessionOfFacts
<1>3. TypeOK'
  BY <1>1, <1>2 DEF KeyInv, TypeOK
<1>4. \A c \in Devices \ bound.rediscovered :
        (c \in endpoints => c \in endpoints') /\ (c \in battery => discovery'[c] = "idle")
  BY <1>1 DEF KeyInv, KeptKnown, TypeOK
<1> QED
  BY <1>1, <1>2, <1>3, <1>4, Steady

LEMMA PartsListStep ==
  ASSUME KeyInv, NEW d \in Devices, PartsList(d)
  PROVE  KeyInv'
<1>1. /\ discovery[d] = "parts" /\ discovery' = [discovery EXCEPT ![d] = "servers"]
      /\ Transmit(table, SessionOf(d)) /\ online' = online \cup {d}
      /\ UNCHANGED <<sessionCounter, pending, kept, battery, endpoints, timer, sync, file,
                     attempts, restarts, bound, lapsed>>
  BY DEF PartsList, storeVars, savedVars
<1>2. /\ table' \in [Ids -> Session \cup {None}]
      /\ highest' \in [Keys -> Nat]
      /\ OneSession' /\ SessionsApart' /\ MarginSuffices'
      /\ \A s \in Ids : table'[s] # None =>
           table[s] # None /\ table'[s].node = table[s].node /\ table'[s].key = table[s].key
      /\ \A k \in Keys : (\A s \in Ids : table[s] # None => table[s].key # k)
                           => highest'[k] = highest[k]
  BY <1>1, Talking, SessionOfFacts
<1>3. TypeOK'
  BY <1>1, <1>2 DEF KeyInv, TypeOK
<1>4. \A c \in Devices \ bound.rediscovered : c \in battery => discovery'[c] = "idle"
  BY <1>1 DEF KeyInv, KeptKnown, TypeOK
<1> QED
  BY <1>1, <1>2, <1>3, <1>4, Steady

LEMMA StoreSteps ==
  ASSUME KeyInv,
         \/ \E s \in BOOLEAN : RequestStore(s)
         \/ \E ok \in BOOLEAN : WriteDatabase(ok)
  PROVE  KeyInv'
<1>1. /\ timer' \in BOOLEAN /\ sync' \in BOOLEAN
      /\ file' = file \/ file' = Current
      /\ UNCHANGED <<sessionCounter, pending, table, kept, battery, endpoints, discovery,
                     online, attempts, restarts, bound, highest, lapsed>>
  BY DEF RequestStore, WriteDatabase, Store, deviceVars, savedVars, KeyInv, TypeOK
<1>2. TypeOK'
  <2>1. Current \in [kept : [Devices -> Kept \cup {None}], endpoints : SUBSET Devices]
    BY DEF Current, KeyInv, TypeOK
  <2> QED
    BY <1>1, <2>1 DEF KeyInv, TypeOK
<1>3. OneSession' /\ SessionsApart' /\ MarginSuffices'
  BY <1>1 DEF KeyInv, OneSession, SessionsApart, MarginSuffices
<1>4. \A c \in Devices \ bound.rediscovered : c \in battery => discovery[c] = "idle"
  BY DEF KeyInv, KeptKnown
<1> QED
  BY <1>1, <1>2, <1>3, <1>4, Steady

(* The end of a discovery. *)
LEMMA Finalizing ==
  ASSUME KeyInv, NEW d \in Devices, discovery[d] # "idle", SessionOf(d) # {},
         Transmit(table, SessionOf(d)), Finalize(d),
         endpoints' = endpoints \cup {d}, online' = online \cup {d},
         UNCHANGED <<sessionCounter, pending, attempts, restarts, bound, lapsed>>
  PROVE  KeyInv'
<1> DEFINE s == CHOOSE r \in SessionOf(d) : TRUE
           new == Copy(table, s, 0)
           keeps == d \in battery' /\ ~Persisted(kept, d)
<1>1. /\ battery' = battery \cup ({d} \cap Battery)
      /\ kept' = IF keeps THEN [kept EXCEPT ![d] = new] ELSE kept
      /\ discovery' = [discovery EXCEPT ![d] = "idle"]
      /\ timer' \in BOOLEAN /\ sync' \in BOOLEAN /\ file' = file
  BY DEF Finalize, Store, KeyInv, TypeOK
<1>2. s \in Ids /\ table[s] # None /\ table[s] \in Session /\ table[s].node = d
  <2>1. s \in SessionOf(d)
    OBVIOUS
  <2> QED
    BY <2>1 DEF SessionOf, KeyInv, TypeOK
<1>3. new \in Kept /\ new.key = table[s].key /\ new # None
  <2>1. new = [id |-> s, key |-> table[s].key, counter |-> 0]
    BY DEF Copy
  <2>2. s \in Ids /\ table[s].key \in Keys
    BY <1>2 DEF Session
  <2> HIDE DEF s, new
  <2>3. new \in Kept /\ new.key = table[s].key
    BY <2>1, <2>2 DEF Kept
  <2> QED
    BY <2>3, SessionStoreAssumption
<1>4. /\ table' \in [Ids -> Session \cup {None}]
      /\ highest' \in [Keys -> Nat]
      /\ OneSession' /\ SessionsApart' /\ MarginSuffices'
      /\ \A r \in Ids : table'[r] # None =>
           table[r] # None /\ table'[r].node = table[r].node /\ table'[r].key = table[r].key
      /\ \A k \in Keys : (\A r \in Ids : table[r] # None => table[r].key # k)
                           => highest'[k] = highest[k]
  BY Talking, SessionOfFacts
<1> HIDE DEF s, new, keeps
<1>5. /\ \A c \in Devices : c # d => kept'[c] = kept[c]
      /\ kept'[d] = IF keeps THEN new ELSE kept[d]
      /\ kept' \in [Devices -> Kept \cup {None}]
  BY <1>1, <1>3 DEF KeyInv, TypeOK
<1>6. TypeOK'
  <2>1. battery' \subseteq Battery /\ endpoints' \subseteq Devices
    BY <1>1 DEF KeyInv, TypeOK
  <2>2. discovery' \in [Devices -> {"idle", "parts", "servers", "details"}]
    BY <1>1 DEF KeyInv, TypeOK
  <2>3. online' \subseteq Devices
    BY DEF KeyInv, TypeOK
  <2> QED
    BY <1>1, <1>4, <1>5, <2>1, <2>2, <2>3 DEF KeyInv, TypeOK
<1>7. KeysApart(kept)'
  <2>1. \A c \in Devices : kept[c] # None /\ kept[c].key = new.key => c = d
    BY <1>2, <1>3 DEF KeyInv, KeysApart
  <2>2. \A r \in Ids : table'[r] # None /\ table'[r].key = new.key => table'[r].node = d
    BY <1>2, <1>3, <1>4 DEF KeyInv, SessionsApart
  <2>3. \A b, c \in Devices :
          kept'[b] # None /\ kept'[c] # None /\ kept'[b].key = kept'[c].key => b = c
    BY <1>5, <2>1 DEF KeyInv, KeysApart
  <2>4. \A c \in Devices, r \in Ids :
          kept'[c] # None /\ table'[r] # None /\ kept'[c].key = table'[r].key
            => table'[r].node = c
    BY <1>4, <1>5, <2>2 DEF KeyInv, KeysApart
  <2> QED
    BY <2>3, <2>4 DEF KeysApart
<1>8. KeysApart(file.kept)'
  BY <1>1, <1>4 DEF KeyInv, KeysApart
<1>9. KeysFresh'
  <2>1. \A key \in Keys : Fresh(key)' => Fresh(key)
    BY DEF Fresh
  <2>2. \A key \in Keys : Fresh(key)' =>
          /\ highest'[key] = 0
          /\ \A r \in Ids : table'[r] # None => table'[r].key # key
          /\ \A c \in Devices : /\ kept'[c] # None => kept'[c].key # key
                                /\ file'.kept[c] # None => file'.kept[c].key # key
    BY <1>1, <1>2, <1>3, <1>4, <1>5, <2>1 DEF KeyInv, KeysFresh
  <2> QED
    BY <2>2 DEF KeyInv, KeysFresh
<1>10. d \notin bound.rediscovered => d \notin battery /\ kept[d] = None
  BY DEF KeyInv, KeptKnown
<1>11. KeptKnown'
  <2> SUFFICES ASSUME NEW c \in Devices \ bound.rediscovered
               PROVE  /\ kept'[c] # None => c \in battery'
                      /\ c \in battery' => c \in endpoints' /\ discovery'[c] = "idle"
                      /\ file.kept[c] # None => c \in Battery \cap file.endpoints
    BY <1>1 DEF KeptKnown
  <2>1. CASE c = d
    BY <1>1, <1>5, <1>10, <2>1 DEF keeps, KeyInv, KeptKnown, TypeOK
  <2>2. CASE c # d
    BY <1>1, <1>5, <2>2 DEF KeyInv, KeptKnown, TypeOK
  <2> QED
    BY <2>1, <2>2
<1>12. CapturesActive'
  <2> SUFFICES ASSUME NEW c \in battery' \ bound.rediscovered, NEW r \in Ids \ {0},
                      table'[r] # None, table'[r].node = c
               PROVE  kept'[c] # None /\ kept'[c].key = table'[r].key
    BY DEF CapturesActive, SessionOf
  <2>1. c \in Devices /\ table[r] # None /\ table[r].node = c /\ table'[r].key = table[r].key
    BY <1>4, <1>6, SessionStoreAssumption DEF TypeOK
  <2>2. CASE c = d
    <3>1. r = s
      BY <1>2, <2>1, <2>2 DEF KeyInv, OneSession
    <3>2. keeps
      BY <1>10, <2>2 DEF keeps, Persisted
    <3> QED
      BY <1>3, <1>5, <2>1, <2>2, <3>1, <3>2
  <2>3. CASE c # d
    <3>1. c \in battery /\ discovery[c] = "idle" /\ r \in SessionOf(c) \ {0}
      BY <1>1, <2>1, <2>3 DEF KeyInv, KeptKnown, SessionOf
    <3>2. kept[c] # None /\ kept[c].key = table[r].key
      BY <3>1 DEF KeyInv, CapturesActive
    <3> QED
      BY <1>5, <2>1, <2>3, <3>2
  <2> QED
    BY <2>2, <2>3
<1> QED
  BY <1>4, <1>6, <1>7, <1>8, <1>9, <1>11, <1>12 DEF KeyInv

LEMMA ServerListsStep ==
  ASSUME KeyInv, NEW d \in Devices, NEW more \in BOOLEAN, ServerLists(d, more)
  PROVE  KeyInv'
<1>1. /\ discovery[d] = "servers" /\ SessionOf(d) # {}
      /\ Transmit(table, SessionOf(d))
      /\ endpoints' = endpoints \cup {d} /\ online' = online \cup {d}
      /\ UNCHANGED <<sessionCounter, pending, attempts, restarts, bound, lapsed>>
  BY DEF ServerLists
<1>2. CASE more
  <2>1. /\ discovery' = [discovery EXCEPT ![d] = "details"]
        /\ UNCHANGED <<kept, battery, timer, sync, file>>
    BY <1>2 DEF ServerLists, storeVars, savedVars
  <2>2. /\ table' \in [Ids -> Session \cup {None}]
        /\ highest' \in [Keys -> Nat]
        /\ OneSession' /\ SessionsApart' /\ MarginSuffices'
        /\ \A s \in Ids : table'[s] # None =>
             table[s] # None /\ table'[s].node = table[s].node /\ table'[s].key = table[s].key
        /\ \A k \in Keys : (\A s \in Ids : table[s] # None => table[s].key # k)
                             => highest'[k] = highest[k]
    BY <1>1, Talking, SessionOfFacts
  <2>3. TypeOK'
    BY <1>1, <2>1, <2>2 DEF KeyInv, TypeOK
  <2>4. \A c \in Devices \ bound.rediscovered :
          (c \in endpoints => c \in endpoints') /\ (c \in battery => discovery'[c] = "idle")
    BY <1>1, <2>1 DEF KeyInv, KeptKnown, TypeOK
  <2> QED
    BY <1>1, <2>1, <2>2, <2>3, <2>4, Steady
<1>3. CASE ~more
  <2>1. Finalize(d)
    BY <1>3 DEF ServerLists
  <2> QED
    BY <1>1, <2>1, Finalizing
<1> QED
  BY <1>2, <1>3

LEMMA DetailsStep ==
  ASSUME KeyInv, NEW d \in Devices, Details(d)
  PROVE  KeyInv'
<1>1. /\ discovery[d] = "details" /\ SessionOf(d) # {}
      /\ Transmit(table, SessionOf(d)) /\ Finalize(d)
      /\ endpoints' = endpoints \cup {d} /\ online' = online \cup {d}
      /\ UNCHANGED <<sessionCounter, pending, attempts, restarts, bound, lapsed>>
  BY DEF Details
<1> QED
  BY <1>1, Finalizing

(* A new session: its key is fresh, and it takes the place of the one there  *)
(* was, in use and kept.                                                     *)
LEMMA CaseEstablishedStep ==
  ASSUME KeyInv, NEW d \in Devices, CaseEstablished(d)
  PROVE  KeyInv'
<1> DEFINE p == pending[d]
           first == [node |-> d, key |-> p.key, counter |-> 0]
           t == [s \in Ids |-> IF s = p.id THEN first
                               ELSE IF s \in SessionOf(d) THEN None ELSE table[s]]
           new == Copy(t, p.id, 0)
<1>1. /\ p # None /\ Transmit(t, {p.id})
      /\ kept' = IF d \in battery THEN [kept EXCEPT ![d] = new] ELSE kept
      /\ timer' = TRUE /\ sync' \in BOOLEAN /\ file' = file
      /\ online' = online \cup {d}
      /\ discovery' = [discovery EXCEPT ![d] = IF d \in endpoints THEN @ ELSE "parts"]
      /\ pending' = [pending EXCEPT ![d] = None]
      /\ UNCHANGED <<sessionCounter, battery, endpoints, attempts, restarts, bound, lapsed>>
  BY DEF CaseEstablished, Store, KeyInv, TypeOK
<1>2. p.id \in Ids /\ p.key \in Keys /\ Fresh(p.key)
  BY <1>1 DEF KeyInv, TypeOK, Attempt, Fresh
<1>3. /\ first \in Session /\ first # None
      /\ first.node = d /\ first.key = p.key /\ first.counter = 0
  <2>1. first \in Session
    BY <1>2 DEF Session
  <2> QED
    BY <2>1, SessionStoreAssumption
<1>4. /\ new \in Kept /\ new # None /\ new.key = p.key
  <2>1. new = [id |-> p.id, key |-> p.key, counter |-> 0]
    BY <1>2 DEF Copy
  <2> HIDE DEF new
  <2>2. new \in Kept /\ new.key = p.key
    BY <1>2, <2>1 DEF Kept
  <2> QED
    BY <2>2, SessionStoreAssumption
<1> HIDE DEF first, new
<1>5. /\ t \in [Ids -> Session \cup {None}]
      /\ t[p.id] = first
      /\ \A s \in Ids : s # p.id /\ t[s] # None => t[s] = table[s] /\ table[s].node # d
  BY <1>2, <1>3 DEF KeyInv, TypeOK, SessionOf
<1>6. /\ highest[p.key] = 0
      /\ \A s \in Ids : table[s] # None => table[s].key # p.key
      /\ \A c \in Devices : /\ kept[c] # None => kept[c].key # p.key
                            /\ file.kept[c] # None => file.kept[c].key # p.key
  BY <1>2 DEF KeyInv, KeysFresh
<1> HIDE DEF t
<1>7. /\ table' \in [Ids -> Session \cup {None}]
      /\ highest' \in [Keys -> Nat]
      /\ OneSession' /\ SessionsApart' /\ MarginSuffices'
      /\ \A s \in Ids : table'[s] # None =>
           t[s] # None /\ table'[s].node = t[s].node /\ table'[s].key = t[s].key
      /\ \A k \in Keys : (\A s \in Ids : t[s] # None => t[s].key # k)
                           => highest'[k] = highest[k]
  <2>1. \A s \in {p.id} : t[s] # None
    BY <1>3, <1>5
  <2>2. \A r, s \in Ids : t[r] # None /\ t[s] # None /\ t[r].node = t[s].node => r = s
    BY <1>3, <1>5 DEF KeyInv, OneSession
  <2>3. \A r, s \in Ids : t[r] # None /\ t[s] # None /\ t[r].key = t[s].key => r = s
    BY <1>3, <1>5, <1>6 DEF KeyInv, SessionsApart
  <2>4. \A s \in Ids : t[s] # None =>
          t[s].counter >= highest[t[s].key] \/ t[s].key \in lapsed'
    <3> SUFFICES ASSUME NEW s \in Ids, t[s] # None
                 PROVE  t[s].counter >= highest[t[s].key] \/ t[s].key \in lapsed'
      OBVIOUS
    <3>1. CASE s = p.id
      BY <1>3, <1>5, <1>6, <3>1
    <3>2. CASE s # p.id
      BY <1>1, <1>5, <3>2 DEF KeyInv, MarginSuffices
    <3> QED
      BY <3>1, <3>2
  <2>5. highest \in [Keys -> Nat] /\ {p.id} \in SUBSET Ids
    BY <1>2 DEF KeyInv, TypeOK
  <2> QED
    BY <1>1, <1>5, <2>1, <2>2, <2>3, <2>4, <2>5, Transmitting
<1>8. /\ \A c \in Devices : c # d => kept'[c] = kept[c]
      /\ kept'[d] = IF d \in battery THEN new ELSE kept[d]
      /\ kept' \in [Devices -> Kept \cup {None}]
  BY <1>1, <1>4 DEF KeyInv, TypeOK
<1>9. \A s \in Ids : table'[s] # None =>
        \/ s = p.id /\ table'[s].node = d /\ table'[s].key = p.key
        \/ /\ table[s] # None /\ table[s].node # d
           /\ table'[s].node = table[s].node /\ table'[s].key = table[s].key
  BY <1>3, <1>5, <1>7
<1>10. TypeOK'
  <2>1. pending' \in [Devices -> Attempt \cup {None}]
    BY <1>1 DEF KeyInv, TypeOK
  <2>2. discovery' \in [Devices -> {"idle", "parts", "servers", "details"}]
    BY <1>1 DEF KeyInv, TypeOK
  <2> QED
    BY <1>1, <1>7, <1>8, <2>1, <2>2 DEF KeyInv, TypeOK
<1>11. KeysApart(kept)'
  <2>1. \A b, c \in Devices :
          kept'[b] # None /\ kept'[c] # None /\ kept'[b].key = kept'[c].key => b = c
    BY <1>4, <1>6, <1>8 DEF KeyInv, KeysApart
  <2>2. \A c \in Devices, s \in Ids :
          kept'[c] # None /\ table'[s] # None /\ kept'[c].key = table'[s].key
            => table'[s].node = c
    <3> SUFFICES ASSUME NEW c \in Devices, NEW s \in Ids, kept'[c] # None,
                        table'[s] # None, kept'[c].key = table'[s].key
                 PROVE  table'[s].node = c
      OBVIOUS
    <3>1. CASE kept'[c] = kept[c]
      BY <1>6, <1>9, <3>1 DEF KeyInv, KeysApart
    <3>2. CASE c = d /\ kept'[c] = new
      BY <1>4, <1>6, <1>9, <3>2
    <3> QED
      BY <1>8, <3>1, <3>2
  <2> QED
    BY <2>1, <2>2 DEF KeysApart
<1>12. KeysApart(file.kept)'
  BY <1>1, <1>6, <1>9 DEF KeyInv, KeysApart
<1>13. KeysFresh'
  <2>1. \A c \in Devices : pending'[c] = IF c = d THEN None ELSE pending[c]
    BY <1>1 DEF KeyInv, TypeOK
  <2>2. \A key \in Keys : Fresh(key)' => Fresh(key) /\ key # p.key
    <3> SUFFICES ASSUME NEW key \in Keys, Fresh(key)' PROVE Fresh(key) /\ key # p.key
      OBVIOUS
    <3>1. CASE key > attempts'
      BY <1>1, <1>2, <3>1 DEF Fresh, KeyInv, KeysFresh, TypeOK, Keys
    <3>2. CASE \E c \in Devices : pending'[c] # None /\ pending'[c].key = key
      BY <1>1, <2>1, <3>2 DEF Fresh, KeyInv, KeysFresh
    <3> QED
      BY <3>1, <3>2 DEF Fresh
  <2>3. \A key \in Keys : Fresh(key)' =>
          /\ highest'[key] = 0
          /\ \A s \in Ids : table'[s] # None => table'[s].key # key
          /\ \A c \in Devices : /\ kept'[c] # None => kept'[c].key # key
                                /\ file'.kept[c] # None => file'.kept[c].key # key
    <3> SUFFICES ASSUME NEW key \in Keys, Fresh(key)'
                 PROVE  /\ highest'[key] = 0
                        /\ \A s \in Ids : table'[s] # None => table'[s].key # key
                        /\ \A c \in Devices :
                             /\ kept'[c] # None => kept'[c].key # key
                             /\ file'.kept[c] # None => file'.kept[c].key # key
      OBVIOUS
    <3>1. /\ key # p.key /\ highest[key] = 0
          /\ \A s \in Ids : table[s] # None => table[s].key # key
          /\ \A c \in Devices : /\ kept[c] # None => kept[c].key # key
                                /\ file.kept[c] # None => file.kept[c].key # key
      BY <2>2 DEF KeyInv, KeysFresh
    <3>2. \A s \in Ids : t[s] # None => t[s].key # key
      BY <1>3, <1>5, <3>1
    <3> QED
      BY <1>1, <1>4, <1>7, <1>8, <1>9, <3>1, <3>2
  <2> QED
    BY <1>1, <2>1, <2>3 DEF KeyInv, KeysFresh
<1>14. KeptKnown'
  <2> SUFFICES ASSUME NEW c \in Devices \ bound.rediscovered
               PROVE  /\ kept'[c] # None => c \in battery
                      /\ c \in battery => c \in endpoints /\ discovery'[c] = "idle"
                      /\ file.kept[c] # None => c \in Battery \cap file.endpoints
    BY <1>1 DEF KeptKnown
  <2> QED
    BY <1>1, <1>8 DEF KeyInv, KeptKnown, TypeOK
<1>15. CapturesActive'
  <2> SUFFICES ASSUME NEW c \in battery \ bound.rediscovered, NEW s \in Ids \ {0},
                      table'[s] # None, table'[s].node = c
               PROVE  kept'[c] # None /\ kept'[c].key = table'[s].key
    BY <1>1 DEF CapturesActive, SessionOf
  <2>1. c \in Devices
    BY SessionStoreAssumption DEF KeyInv, TypeOK
  <2>2. CASE c = d
    BY <1>4, <1>8, <1>9, <2>2
  <2>3. CASE c # d
    <3>1. c \in Devices /\ discovery[c] = "idle" /\ s \in SessionOf(c) \ {0}
          /\ table'[s].key = table[s].key
      BY <1>9, <2>1, <2>3 DEF KeyInv, KeptKnown, SessionOf
    <3>2. kept[c] # None /\ kept[c].key = table[s].key
      BY <3>1 DEF KeyInv, CapturesActive
    <3> QED
      BY <1>8, <2>3, <3>1, <3>2
  <2> QED
    BY <2>2, <2>3
<1> QED
  BY <1>7, <1>10, <1>11, <1>12, <1>13, <1>14, <1>15 DEF KeyInv

(* What the constructor makes of the sessions kept. *)
LEMMA RestoredFrom ==
  ASSUME NEW k \in [Devices -> Kept \cup {None}], NEW restored \in SUBSET Devices,
         \A d \in restored : k[d] # None
  PROVE  /\ Restored(restored, k) \in [Ids -> Session \cup {None}]
         /\ \A s \in Ids : Restored(restored, k)[s] # None =>
              LET r == Restored(restored, k)[s] IN
              /\ r.node \in restored /\ k[r.node].id = s /\ r.key = k[r.node].key
              /\ r.counter = k[r.node].counter + Margin
              /\ r \in Session
<1> DEFINE t == Restored(restored, k)
<1>1. Margin \in Nat /\ None \notin Session
  BY SessionStoreAssumption
<1>2. ASSUME NEW s \in Ids, t[s] # None
      PROVE  /\ t[s].node \in restored /\ k[t[s].node].id = s
             /\ t[s].key = k[t[s].node].key
             /\ t[s].counter = k[t[s].node].counter + Margin
             /\ t[s] \in Session
  <2> DEFINE last == {c \in restored : /\ k[c].id = s
                                       /\ \A b \in restored : k[b].id = s => b <= c}
             d == CHOOSE c \in last : TRUE
  <2>1. last # {} /\ t[s] = [node |-> d, key |-> k[d].key, counter |-> Resumed(k[d].counter)]
    BY <1>2 DEF Restored
  <2>2. d \in last
    BY <2>1
  <2>3. d \in restored /\ k[d].id = s
    BY <2>2
  <2> HIDE DEF last, d, t
  <2>4. d \in Devices /\ k[d] \in Kept
    BY <2>3
  <2>5. k[d].key \in Keys /\ k[d].counter \in Nat
    BY <2>4 DEF Kept
  <2>6. Resumed(k[d].counter) = k[d].counter + Margin /\ k[d].counter + Margin \in Nat
    BY <1>1, <2>5 DEF Resumed
  <2> QED
    BY <2>1, <2>3, <2>4, <2>5, <2>6 DEF Session
<1>3. t = [s \in Ids |-> t[s]]
  BY DEF Restored
<1> HIDE DEF t
<1>4. t \in [Ids -> Session \cup {None}]
  BY <1>2, <1>3
<1> QED
  BY <1>2, <1>4 DEF t

(* A restart: the sessions are those kept, each for its own device, with     *)
(* counters past all that was used or else in lapsed.                        *)
LEMMA RestartStep ==
  ASSUME KeyInv, CountInv, NEW clean \in BOOLEAN, NEW routed \in SUBSET Battery,
         Restart(clean, routed)
  PROVE  KeyInv'
<1> DEFINE saved == IF clean THEN Current ELSE file
           k == saved.kept
           from == IF clean THEN copied ELSE filed
           restored == {d \in Battery \cap saved.endpoints : Persisted(k, d)}
           t == Restored(restored, k)
           ss == {s \in Ids : t[s] # None /\ t[s].node \in routed}
<1>1. /\ restarts < bound.restarts /\ restarts' = restarts + 1
      /\ file' = saved /\ kept' = k /\ endpoints' = saved.endpoints
      /\ battery' = Battery \cap saved.endpoints
      /\ Transmit(t, ss)
      /\ lapsed' = lapsed \cup {k[d].key : d \in {c \in restored : Lapses(k, from, c)}}
      /\ \E next \in Counted(restored, k) : sessionCounter' = next[NDevices]
      /\ pending' = [d \in Devices |-> None]
      /\ discovery' = [d \in Devices |-> "idle"]
      /\ online' = {} /\ timer' = FALSE /\ sync' = FALSE
      /\ UNCHANGED <<attempts, bound>>
  BY DEF Restart
<1>2. /\ saved \in [kept : [Devices -> Kept \cup {None}], endpoints : SUBSET Devices]
      /\ k \in [Devices -> Kept \cup {None}] /\ saved.endpoints \subseteq Devices
  BY DEF KeyInv, TypeOK, Current
<1>3. \A c, d \in Devices : k[c] # None /\ k[d] # None /\ k[c].key = k[d].key => c = d
  BY DEF KeyInv, KeysApart, Current
<1>4. \A key \in Keys, d \in Devices : Fresh(key) /\ k[d] # None => k[d].key # key
  BY DEF KeyInv, KeysFresh, Current
<1>5. \A d \in Devices \ bound.rediscovered : k[d] # None => d \in Battery \cap saved.endpoints
  BY DEF KeyInv, KeptKnown, Current, TypeOK
<1>5a. \A d \in Devices : k[d] # None => Behind(k[d], from[d])
  BY DEF CountInv, Follows, Current
<1>5b. from \in [Devices -> Origin]
  BY DEF CountInv
<1>6. Battery \subseteq Devices /\ Margin \in Nat /\ NDevices \in Nat
      /\ None \notin Session /\ None \notin Kept
  BY SessionStoreAssumption
<1>7. restored \subseteq Devices /\ \A d \in restored : k[d] # None
  BY <1>6 DEF Persisted
<1> HIDE DEF saved, k, restored, from
<1>8. \A s \in Ids : t[s] # None =>
        /\ t[s].node \in restored /\ k[t[s].node].id = s
        /\ t[s].key = k[t[s].node].key
        /\ t[s].counter = k[t[s].node].counter + Margin
        /\ t[s] \in Session
  BY <1>2, <1>7, RestoredFrom
<1>9. t \in [Ids -> Session \cup {None}]
  BY <1>2, <1>7, RestoredFrom
<1> HIDE DEF t
<1>10. /\ table' \in [Ids -> Session \cup {None}]
       /\ highest' \in [Keys -> Nat]
       /\ OneSession' /\ SessionsApart' /\ MarginSuffices'
       /\ \A s \in Ids : table'[s] # None =>
            t[s] # None /\ table'[s].node = t[s].node /\ table'[s].key = t[s].key
       /\ \A key \in Keys : (\A s \in Ids : t[s] # None => t[s].key # key)
                              => highest'[key] = highest[key]
  <2>1. ss \in SUBSET Ids /\ \A s \in ss : t[s] # None
    OBVIOUS
  <2>2. \A r, s \in Ids : t[r] # None /\ t[s] # None /\ t[r].node = t[s].node => r = s
    BY <1>8
  <2>3. \A r, s \in Ids : t[r] # None /\ t[s] # None /\ t[r].key = t[s].key => r = s
    BY <1>3, <1>7, <1>8, <2>2
  <2>4. \A s \in Ids : t[s] # None =>
          t[s].counter >= highest[t[s].key] \/ t[s].key \in lapsed'
    <3> SUFFICES ASSUME NEW s \in Ids, t[s] # None, t[s].key \notin lapsed'
                 PROVE  t[s].counter >= highest[t[s].key]
      OBVIOUS
    <3> DEFINE d == t[s].node
    <3>1. d \in restored /\ t[s].key = k[d].key /\ t[s].counter = k[d].counter + Margin
      BY <1>8
    <3>2. ~Lapses(k, from, d)
      BY <1>1, <3>1
    <3>3. t[s] \in Session
      BY <1>8
    <3>4. highest[t[s].key] \in Nat /\ t[s].counter \in Nat /\ t[s].key \in Keys
      BY <3>3 DEF Session, KeyInv, TypeOK
    <3>5. d \in Devices /\ k[d] # None /\ k[d] \in Kept
      BY <1>2, <1>7, <3>1
    <3> HIDE DEF d
    <3>6. /\ <<k[d].key, k[d].counter>> \notin resumed /\ from[d].of = k[d].key
          /\ ~(sent[k[d].key] - from[d].sent > Margin)
      BY <3>2 DEF Lapses
    <3>7. Behind(k[d], from[d]) /\ k[d].key \notin lapsed
      BY <1>1, <1>5a, <3>1, <3>5
    <3>8. highest[k[d].key] <= k[d].counter + (sent[k[d].key] - from[d].sent)
      BY <3>6, <3>7 DEF Behind, Within
    <3>9. sent[k[d].key] \in Nat /\ from[d].sent \in Nat /\ k[d].counter \in Nat
      BY <1>5b, <3>1, <3>4, <3>5 DEF CountInv, Origin, Kept
    <3> QED
      BY <1>6, <3>1, <3>4, <3>6, <3>8, <3>9
  <2>5. highest \in [Keys -> Nat]
    BY DEF KeyInv, TypeOK
  <2> HIDE DEF ss
  <2> QED
    BY <1>1, <1>9, <2>1, <2>2, <2>3, <2>4, <2>5, Transmitting
<1>11. \A s \in Ids : table'[s] # None =>
         /\ table'[s].node \in Devices /\ k[table'[s].node] # None
         /\ table'[s].key = k[table'[s].node].key
  BY <1>7, <1>8, <1>10
<1>12. TypeOK'
  <2>1. sessionCounter' \in Ids
    BY <1>1, <1>6 DEF Counted
  <2>2. lapsed' \subseteq Keys
    <3>1. \A d \in restored : k[d].key \in Keys
      BY <1>2, <1>7 DEF Kept
    <3> QED
      BY <1>1, <3>1 DEF KeyInv, TypeOK
  <2>3. restarts' \in 0..bound.restarts
    <3>1. bound.restarts \in Nat
      BY SessionStoreAssumption DEF KeyInv, TypeOK, Bound
    <3> QED
      BY <1>1, <3>1 DEF KeyInv, TypeOK
  <2> QED
    BY <1>1, <1>2, <1>6, <1>10, <2>1, <2>2, <2>3 DEF KeyInv, TypeOK
<1>13. KeysApart(kept)' /\ KeysApart(file.kept)'
  <2>1. kept' = k /\ file'.kept = k
    BY <1>1 DEF k
  <2>2. \A d \in Devices, s \in Ids :
          k[d] # None /\ table'[s] # None /\ k[d].key = table'[s].key => table'[s].node = d
    BY <1>3, <1>11
  <2> QED
    BY <1>3, <2>1, <2>2 DEF KeysApart
<1>14. KeysFresh'
  <2>1. \A key \in Keys : Fresh(key)' => Fresh(key)
    BY <1>1 DEF Fresh
  <2>2. \A key \in Keys : Fresh(key)' =>
          /\ highest'[key] = 0
          /\ \A s \in Ids : table'[s] # None => table'[s].key # key
          /\ \A d \in Devices : /\ kept'[d] # None => kept'[d].key # key
                                /\ file'.kept[d] # None => file'.kept[d].key # key
    <3> SUFFICES ASSUME NEW key \in Keys, Fresh(key)'
                 PROVE  /\ highest'[key] = 0
                        /\ \A s \in Ids : table'[s] # None => table'[s].key # key
                        /\ \A d \in Devices :
                             /\ kept'[d] # None => kept'[d].key # key
                             /\ file'.kept[d] # None => file'.kept[d].key # key
      OBVIOUS
    <3>1. Fresh(key) /\ highest[key] = 0
      BY <2>1 DEF KeyInv, KeysFresh
    <3>2. \A d \in Devices : k[d] # None => k[d].key # key
      BY <1>4, <3>1
    <3>3. \A s \in Ids : t[s] # None => t[s].key # key
      BY <1>7, <1>8, <3>2
    <3>4. highest'[key] = highest[key]
      BY <1>10, <3>3
    <3>5. kept' = k /\ file'.kept = k
      BY <1>1 DEF k
    <3> QED
      BY <1>11, <3>1, <3>2, <3>4, <3>5
  <2>3. \A d \in Devices : pending'[d] = None
    BY <1>1
  <2> QED
    BY <2>2, <2>3 DEF KeysFresh
<1>15. KeptKnown'
  <2>1. /\ kept' = k /\ file'.kept = k /\ file'.endpoints = endpoints'
        /\ battery' = Battery \cap endpoints' /\ bound' = bound
        /\ \A d \in Devices : discovery'[d] = "idle"
        /\ \A d \in Devices \ bound.rediscovered : k[d] # None => d \in battery'
    BY <1>1, <1>5 DEF k
  <2> QED
    BY <2>1 DEF KeptKnown
<1>16. CapturesActive'
  <2>1. kept' = k
    BY <1>1
  <2> QED
    BY <1>11, <2>1 DEF CapturesActive, SessionOf
<1> QED
  BY <1>10, <1>12, <1>13, <1>14, <1>15, <1>16 DEF KeyInv

-----------------------------------------------------------------------------
(* The invariant at the start, and after each step. *)
LEMMA InitKeyInv == Init => KeyInv
<1> SUFFICES ASSUME Init PROVE KeyInv
  OBVIOUS
<1> USE SessionStoreAssumption DEF Init
<1>1. TypeOK
  <2>1. /\ sessionCounter \in Ids /\ attempts \in 0..MaxAttempts
        /\ restarts \in 0..bound.restarts
    BY DEF Ids, Bound
  <2> QED
    BY <2>1 DEF TypeOK
<1>2. /\ OneSession /\ KeysApart(kept) /\ KeysApart(file.kept) /\ SessionsApart
      /\ MarginSuffices /\ KeptKnown /\ CapturesActive
  BY DEF OneSession, KeysApart, SessionsApart, MarginSuffices, KeptKnown, CapturesActive
<1>3. KeysFresh
  BY DEF KeysFresh
<1> QED
  BY <1>1, <1>2, <1>3 DEF KeyInv

LEMMA NextKeyInv ==
  ASSUME KeyInv, CountInv, [Next]_vars
  PROVE  KeyInv'
<1>1. CASE UNCHANGED vars
  BY <1>1 DEF vars, deviceVars, storeVars, savedVars, KeyInv, TypeOK, OneSession, KeysApart,
              SessionsApart, KeysFresh, Fresh, MarginSuffices, KeptKnown,
              CapturesActive, SessionOf
<1>2. CASE Next
  BY <1>2, StartCASEStep, CaseFailedStep, CaseEstablishedStep, SessionLostStep, SendStep,
     HeardStep, PingTimeoutStep, RediscoverStep, PartsListStep, ServerListsStep,
     DetailsStep, StoreSteps, RestartStep DEF Next
<1> QED
  BY <1>1, <1>2

-----------------------------------------------------------------------------
(* Every set of numbers has a least one: this is how what the constructor's  *)
(* loop counts is shown.                                                     *)
LEMMA LeastOf ==
  ASSUME NEW S \in SUBSET Nat, S # {}
  PROVE  \E x \in S : \A y \in S : x <= y
<1>1. \E x \in S : \A y \in S : ~(<<y, x>> \in OpToRel(<, Nat))
  BY NatLessThanWellFounded, WFMin, Zenon
<1>2. \A x, y \in Nat : y < x => <<y, x>> \in OpToRel(<, Nat)
  BY DEF OpToRel
<1>3. \E x \in S : \A y \in S : ~(y < x)
  BY <1>1, <1>2, Zenon
<1> QED
  BY <1>3

(* The constructor counts past every id it restores, and not past the last   *)
(* id there was, when that leaves room.                                      *)
LEMMA CountsPast ==
  ASSUME NEW restored \in SUBSET Devices, NEW k, NEW last \in Nat, last + 1 < IdSpace,
         \A d \in restored : k[d].id \in 1..last,
         NEW next \in Counted(restored, k)
  PROVE  /\ next[NDevices] \in 1 .. last + 1
         /\ \A d \in restored : k[d].id < next[NDevices]
<1> DEFINE good(n) == /\ next[n] \in 1 .. last + 1
                      /\ \A d \in restored : d <= n => k[d].id < next[n]
           bad == {n \in 0..NDevices : ~good(n)}
<1>1. /\ NDevices \in Nat /\ IdSpace \in Nat
      /\ next[0] = 1
      /\ \A n \in Devices : next[n] = IF n \in restored THEN Bump(next[n - 1], k[n].id)
                                      ELSE next[n - 1]
  BY SessionStoreAssumption DEF Counted
<1>2. bad \in SUBSET Nat
  BY <1>1
<1>3. good(0)
  <2>1. \A d \in restored : ~(d <= 0)
    BY <1>1 DEF Devices
  <2> QED
    BY <1>1, <2>1
<1>4. ASSUME NEW n \in Devices, good(n - 1)
      PROVE  good(n)
  <2>1. n \in Nat /\ next[n - 1] \in Nat /\ next[n - 1] <= last + 1
    BY <1>1, <1>4 DEF Devices
  <2>2. \A d \in restored : d \in Nat /\ (d <= n => d <= n - 1 \/ d = n)
    BY <1>1, <2>1 DEF Devices
  <2>3. CASE n \in restored
    <3>1. k[n].id \in 1..last /\ next[n] = Bump(next[n - 1], k[n].id)
      BY <1>1, <2>3
    <3>2. CASE next[n - 1] <= k[n].id
      <4>1. next[n] = (k[n].id + 1) % IdSpace
        BY <3>1, <3>2 DEF Bump, NextId
      <4>2. next[n] = k[n].id + 1
        BY <1>1, <3>1, <4>1
      <4> QED
        BY <1>4, <2>1, <2>2, <3>1, <3>2, <4>2
    <3>3. CASE ~(next[n - 1] <= k[n].id)
      <4>1. next[n] = next[n - 1]
        BY <3>1, <3>3 DEF Bump
      <4> QED
        BY <1>4, <2>1, <2>2, <3>1, <3>3, <4>1
    <3> QED
      BY <3>2, <3>3
  <2>4. CASE n \notin restored
    <3>1. next[n] = next[n - 1]
      BY <1>1, <2>4
    <3> QED
      BY <1>4, <2>2, <2>4, <3>1
  <2> QED
    BY <2>3, <2>4
<1>5. bad = {}
  <2> SUFFICES ASSUME bad # {} PROVE FALSE
    OBVIOUS
  <2>1. PICK n \in bad : \A y \in bad : n <= y
    BY <1>2, LeastOf
  <2>2. n \in 0..NDevices /\ ~good(n)
    BY <2>1
  <2>3. n # 0
    BY <1>3, <2>2
  <2>4. n \in Devices /\ n - 1 \in 0..NDevices /\ ~(n <= n - 1)
    BY <1>1, <2>2, <2>3 DEF Devices
  <2>5. good(n - 1)
    BY <2>1, <2>4
  <2> QED
    BY <1>4, <2>2, <2>4, <2>5
<1>6. NDevices \in 0..NDevices /\ \A d \in restored : d <= NDevices
  BY <1>1 DEF Devices
<1>7. good(NDevices)
  BY <1>5, <1>6
<1> QED
  BY <1>6, <1>7

(* Steps that take no id: sessions go or stay, and what is kept for the next *)
(* start has the id it had or that of a session of its device.               *)
LEMMA IdsStay ==
  ASSUME KeyInv, IdInv, UNCHANGED <<attempts, bound, sessionCounter>>,
         \A d \in Devices : pending'[d] = pending[d] \/ pending'[d] = None,
         \A s \in Ids : table'[s] # None => table[s] # None /\ table'[s].node = table[s].node,
         \A d \in Devices : kept'[d] # None =>
           /\ kept'[d].id \in Ids
           /\ \/ Has(kept[d], kept'[d].id)
              \/ table[kept'[d].id] # None /\ table[kept'[d].id].node = d,
         file' = file \/ file' = Current
  PROVE  IdInv'
<1> SUFFICES ASSUME Unwrapped' PROVE IdsApart' /\ IdsCounted'
  BY DEF IdInv
<1>1. Unwrapped /\ IdsApart /\ IdsCounted
  BY DEF Unwrapped, IdInv
<1>2. /\ \A d \in Devices : pending[d] # None => pending[d].id \in Ids
      /\ \A d \in Devices : kept[d] # None => kept[d].id \in Ids
  BY DEF KeyInv, TypeOK, Attempt, Kept
<1>3. \A d \in Devices : kept'[d] # None =>
        \/ kept[d] # None /\ kept'[d].id = kept[d].id
        \/ table[kept'[d].id] # None /\ table[kept'[d].id].node = d
  BY DEF Has
<1>4. \A d \in Devices : /\ pending[d] # None => table[pending[d].id] = None
                         /\ kept[d] # None /\ table[kept[d].id] # None => table[kept[d].id].node = d
  BY <1>1 DEF IdsCounted
<1>5. \A id \in Ids : Taken(id)' => Taken(id)
  <2> SUFFICES ASSUME NEW id \in Ids, Taken(id)' PROVE Taken(id)
    OBVIOUS
  <2>1. CASE table'[id] # None
    BY <2>1 DEF Taken
  <2>2. CASE \E d \in Devices : Has(pending'[d], id)
    BY <2>2 DEF Taken, Has
  <2>3. CASE \E d \in Devices : Has(kept'[d], id)
    BY <1>3, <2>3 DEF Taken, Has
  <2>4. CASE \E d \in Devices : Has(file'.kept[d], id)
    <3>1. \A d \in Devices : file'.kept[d] = file.kept[d] \/ file'.kept[d] = kept[d]
      BY DEF Current
    <3> QED
      BY <2>4, <3>1 DEF Taken, Has
  <2> QED
    BY <2>1, <2>2, <2>3, <2>4 DEF Taken
<1>6. \A c, d \in Devices : c # d =>
        /\ pending[d] # None /\ kept[c] # None => kept[c].id # pending[d].id
        /\ pending[d] # None /\ pending[c] # None => pending[c].id # pending[d].id
        /\ kept[c] # None /\ kept[d] # None => kept[c].id # kept[d].id
  BY <1>1 DEF IdsApart
<1>7. \A d \in Devices :
        /\ pending'[d] # None => table'[pending'[d].id] = None
        /\ kept'[d] # None /\ table'[kept'[d].id] # None => table'[kept'[d].id].node = d
  BY <1>2, <1>3, <1>4
<1>8. \A c, d \in Devices : c # d =>
        /\ pending'[d] # None /\ kept'[c] # None => kept'[c].id # pending'[d].id
        /\ kept'[c] # None /\ kept'[d] # None => kept'[c].id # kept'[d].id
  BY <1>3, <1>4, <1>6
<1>9. \A c, d \in Devices : pending'[d] # None => SessionOf(c)' # {pending'[d].id}
  BY <1>7 DEF SessionOf
<1>10. IdsApart'
  BY <1>6, <1>8, <1>9 DEF IdsApart
<1>11. \A c, d \in Devices : c # d /\ file'.kept[c] # None /\ file'.kept[d] # None
         => file'.kept[c].id # file'.kept[d].id
  <2>1. CASE file' = file
    BY <1>1, <2>1 DEF IdsCounted
  <2>2. CASE file' = Current
    <3>1. file'.kept = kept
      BY <2>2 DEF Current
    <3> QED
      BY <1>6, <3>1
  <2> QED
    BY <2>1, <2>2
<1>12. IdsCounted'
  BY <1>1, <1>5, <1>7, <1>11 DEF IdsCounted
<1> QED
  BY <1>10, <1>12

(* connectDevice: the id that is taken is past all others.                   *)
LEMMA StartCASEIds ==
  ASSUME KeyInv, IdInv, NEW d \in Devices, StartCASE(d)
  PROVE  IdInv'
<1> DEFINE p == [id |-> sessionCounter, key |-> attempts + 1]
<1>1. /\ attempts' = attempts + 1 /\ pending' = [pending EXCEPT ![d] = p]
      /\ sessionCounter' = NextId(sessionCounter)
      /\ UNCHANGED <<table, kept, file, bound>>
  BY DEF StartCASE, deviceVars, storeVars, savedVars
<1>2. p.id = sessionCounter /\ p # None
  <2>1. attempts + 1 \in Keys /\ sessionCounter \in Ids
    BY SessionStoreAssumption DEF StartCASE, KeyInv, TypeOK, Keys, Bound
  <2>2. p \in Attempt
    BY <2>1 DEF Attempt
  <2> QED
    BY <2>2, SessionStoreAssumption
<1> HIDE DEF p
<1> SUFFICES ASSUME Unwrapped' PROVE IdsApart' /\ IdsCounted'
  BY DEF IdInv
<1>3. attempts \in Nat /\ IdSpace \in Nat /\ sessionCounter \in Nat
  BY SessionStoreAssumption DEF KeyInv, TypeOK, Ids
<1>4. attempts + 1 < IdSpace /\ Unwrapped /\ IdsApart /\ IdsCounted
  BY <1>1, <1>3 DEF Unwrapped, IdInv
<1>5. /\ sessionCounter \in 1 .. attempts + 1
      /\ \A id \in Ids : Taken(id) => id # sessionCounter /\ id < sessionCounter /\ id \in 1..attempts
  BY <1>3, <1>4 DEF IdsCounted, Ids
<1>6. /\ \A c \in Devices : pending'[c] = IF c = d THEN p ELSE pending[c]
      /\ sessionCounter \in Ids
  BY <1>1 DEF KeyInv, TypeOK
<1>7. table[sessionCounter] = None
  BY <1>5, <1>6 DEF Taken
<1>8. \A c \in Devices : /\ pending[c] # None => pending[c].id # sessionCounter /\ pending[c].id \in Ids
                         /\ kept[c] # None => kept[c].id # sessionCounter
  <2> SUFFICES ASSUME NEW c \in Devices
               PROVE  /\ pending[c] # None => pending[c].id # sessionCounter /\ pending[c].id \in Ids
                      /\ kept[c] # None => kept[c].id # sessionCounter
    OBVIOUS
  <2>1. pending[c] # None => pending[c].id \in Ids /\ Taken(pending[c].id)
    BY DEF KeyInv, TypeOK, Attempt, Taken, Has
  <2>2. kept[c] # None => kept[c].id \in Ids /\ Taken(kept[c].id)
    BY DEF KeyInv, TypeOK, Kept, Taken, Has
  <2> QED
    BY <1>5, <2>1, <2>2
<1>9. \A id \in Ids : Taken(id)' => Taken(id) \/ id = sessionCounter
  <2> SUFFICES ASSUME NEW id \in Ids, Taken(id)' PROVE Taken(id) \/ id = sessionCounter
    OBVIOUS
  <2>1. CASE \E c \in Devices : Has(pending'[c], id)
    BY <1>2, <1>6, <2>1 DEF Taken, Has
  <2>2. CASE table'[id] # None
    BY <1>1, <2>2 DEF Taken
  <2>3. CASE \E c \in Devices : Has(kept'[c], id) \/ Has(file'.kept[c], id)
    BY <1>1, <2>3 DEF Taken
  <2> QED
    BY <2>1, <2>2, <2>3 DEF Taken
<1>10. IdsApart'
  <2> SUFFICES ASSUME NEW b \in Devices, NEW c \in Devices, b # c
               PROVE  /\ pending'[c] # None =>
                           /\ SessionOf(b) # {pending'[c].id}
                           /\ pending'[b] # None => pending'[b].id # pending'[c].id
                           /\ kept[b] # None => kept[b].id # pending'[c].id
                      /\ kept[b] # None /\ kept[c] # None => kept[b].id # kept[c].id
    BY <1>1 DEF IdsApart, SessionOf
  <2>1. SessionOf(b) # {sessionCounter}
    BY <1>7 DEF SessionOf
  <2> QED
    BY <1>2, <1>4, <1>6, <1>8, <2>1 DEF IdsApart
<1>11. IdsCounted'
  <2>1. \A id \in Ids : Taken(id)' => id \in 1..attempts'
    BY <1>1, <1>3, <1>5, <1>9
  <2>2. attempts' + 1 < IdSpace => sessionCounter' = sessionCounter + 1
    BY <1>1, <1>3, <1>5 DEF NextId
  <2>3. attempts' + 1 < IdSpace =>
          /\ sessionCounter' \in 1 .. attempts' + 1
          /\ \A id \in Ids : Taken(id)' => id < sessionCounter'
    BY <1>1, <1>3, <1>5, <1>9, <2>2
  <2>4. \A c \in Devices :
          /\ pending'[c] # None => table'[pending'[c].id] = None
          /\ kept'[c] # None /\ table'[kept'[c].id] # None => table'[kept'[c].id].node = c
    BY <1>1, <1>2, <1>4, <1>6, <1>7 DEF IdsCounted
  <2>5. \A b, c \in Devices : b # c /\ file'.kept[b] # None /\ file'.kept[c] # None
          => file'.kept[b].id # file'.kept[c].id
    BY <1>1, <1>4 DEF IdsCounted
  <2> QED
    BY <2>1, <2>3, <2>4, <2>5 DEF IdsCounted
<1> QED
  BY <1>10, <1>11

(* caseEstablished: the id of the attempt is that of the session, and may be *)
(* that of what is kept.                                                     *)
LEMMA CaseEstablishedIds ==
  ASSUME KeyInv, IdInv, NEW d \in Devices, CaseEstablished(d)
  PROVE  IdInv'
<1> DEFINE p == pending[d]
           t == [s \in Ids |-> IF s = p.id THEN [node |-> d, key |-> p.key, counter |-> 0]
                               ELSE IF s \in SessionOf(d) THEN None ELSE table[s]]
           new == Copy(t, p.id, 0)
<1>1. /\ p # None /\ Transmit(t, {p.id})
      /\ kept' = IF d \in battery THEN [kept EXCEPT ![d] = new] ELSE kept
      /\ pending' = [pending EXCEPT ![d] = None]
      /\ UNCHANGED <<sessionCounter, file, attempts, bound>>
  BY DEF CaseEstablished, Store
<1>2. p.id \in Ids /\ new.id = p.id
  BY <1>1 DEF KeyInv, TypeOK, Attempt, Copy
<1> HIDE DEF new
<1>3. \A s \in Ids : /\ s = p.id => t[s] = [node |-> d, key |-> p.key, counter |-> 0]
                     /\ s # p.id /\ t[s] # None => t[s] = table[s]
  OBVIOUS
<1>4. \A s \in Ids : table'[s] = IF s = p.id THEN [t[s] EXCEPT !.counter = @ + 1] ELSE t[s]
  BY <1>1 DEF Transmit
<1> HIDE DEF t
<1>5. \A s \in Ids : table'[s] # None =>
        \/ s = p.id /\ table'[s].node = d
        \/ s # p.id /\ table[s] # None /\ table'[s].node = table[s].node
  <2> SUFFICES ASSUME NEW s \in Ids, table'[s] # None
               PROVE  \/ s = p.id /\ table'[s].node = d
                      \/ s # p.id /\ table[s] # None /\ table'[s].node = table[s].node
    OBVIOUS
  <2>1. CASE s = p.id
    <3>1. table'[s] = [[node |-> d, key |-> p.key, counter |-> 0] EXCEPT !.counter = @ + 1]
      BY <1>3, <1>4, <2>1
    <3> QED
      BY <2>1, <3>1
  <2>2. CASE s # p.id
    <3>1. table'[s] = t[s]
      BY <1>4, <2>2
    <3> QED
      BY <1>3, <2>2, <3>1
  <2> QED
    BY <2>1, <2>2
<1>6. /\ \A c \in Devices : pending'[c] = IF c = d THEN None ELSE pending[c]
      /\ \A c \in Devices : kept'[c] = kept[c] \/ (c = d /\ kept'[c] = new)
  <2>1. DOMAIN pending = Devices /\ DOMAIN kept = Devices
    BY DEF KeyInv, TypeOK
  <2>2. \A c \in Devices : pending'[c] = IF c = d THEN None ELSE pending[c]
    BY <1>1, <2>1
  <2>3. CASE d \in battery
    <3>1. kept' = [kept EXCEPT ![d] = new]
      BY <1>1, <2>3
    <3> QED
      BY <2>1, <2>2, <3>1
  <2>4. CASE d \notin battery
    BY <1>1, <2>2, <2>4
  <2> QED
    BY <2>3, <2>4
<1> SUFFICES ASSUME Unwrapped' PROVE IdsApart' /\ IdsCounted'
  BY DEF IdInv
<1>7. Unwrapped /\ IdsApart /\ IdsCounted
  BY <1>1 DEF Unwrapped, IdInv
<1>8. /\ \A c \in Devices : c # d /\ pending[c] # None => pending[c].id # p.id /\ pending[c].id \in Ids
      /\ \A c \in Devices : c # d /\ kept[c] # None => kept[c].id # p.id
      /\ \A c \in Devices : kept[c] # None => kept[c].id \in Ids
  BY <1>1, <1>7 DEF IdsApart, KeyInv, TypeOK, Attempt, Kept
<1>9. \A c \in Devices :
        /\ pending[c] # None => table[pending[c].id] = None
        /\ kept[c] # None /\ table[kept[c].id] # None => table[kept[c].id].node = c
  BY <1>7 DEF IdsCounted
<1>10. \A c \in Devices :
         /\ pending'[c] # None => table'[pending'[c].id] = None
         /\ kept'[c] # None /\ table'[kept'[c].id] # None => table'[kept'[c].id].node = c
  <2> SUFFICES ASSUME NEW c \in Devices
               PROVE  /\ pending'[c] # None => table'[pending'[c].id] = None
                      /\ kept'[c] # None /\ table'[kept'[c].id] # None => table'[kept'[c].id].node = c
    OBVIOUS
  <2>1. pending'[c] # None => table'[pending'[c].id] = None
    BY <1>5, <1>6, <1>8, <1>9
  <2>2. CASE kept'[c] = kept[c]
    BY <1>5, <1>8, <1>9, <2>1, <2>2
  <2>3. CASE c = d /\ kept'[c] = new
    BY <1>2, <1>5, <1>9, <2>1, <2>3, <1>1
  <2> QED
    BY <1>6, <2>1, <2>2, <2>3
<1>11. IdsApart'
  <2>1. \A b, c \in Devices : pending'[c] # None => SessionOf(b)' # {pending'[c].id}
    <3> SUFFICES ASSUME NEW b \in Devices, NEW c \in Devices, pending'[c] # None
                 PROVE  pending'[c].id \notin SessionOf(b)'
      OBVIOUS
    <3>1. table'[pending'[c].id] = None
      BY <1>10
    <3> QED
      BY <3>1 DEF SessionOf
  <2>2. \A b, c \in Devices : b # c =>
          /\ pending[c] # None /\ pending[b] # None => pending[b].id # pending[c].id
          /\ pending[c] # None /\ kept[b] # None => kept[b].id # pending[c].id
          /\ kept[b] # None /\ kept[c] # None => kept[b].id # kept[c].id
    BY <1>7 DEF IdsApart
  <2>3. \A b, c \in Devices : b # c =>
          /\ pending'[c] # None /\ pending'[b] # None => pending'[b].id # pending'[c].id
          /\ pending'[c] # None /\ kept'[b] # None => kept'[b].id # pending'[c].id
          /\ kept'[b] # None /\ kept'[c] # None => kept'[b].id # kept'[c].id
    BY <1>2, <1>6, <1>8, <2>2
  <2> QED
    BY <2>1, <2>3 DEF IdsApart
<1>12. \A id \in Ids : Taken(id)' => Taken(id)
  <2> SUFFICES ASSUME NEW id \in Ids, Taken(id)' PROVE Taken(id)
    OBVIOUS
  <2>1. Taken(p.id)
    BY <1>1 DEF Taken, Has
  <2>2. CASE table'[id] # None
    BY <1>5, <2>1, <2>2 DEF Taken
  <2>3. CASE \E c \in Devices : Has(pending'[c], id)
    BY <1>6, <2>3 DEF Taken, Has
  <2>4. CASE \E c \in Devices : Has(kept'[c], id)
    BY <1>2, <1>6, <2>1, <2>4 DEF Taken, Has
  <2>5. CASE \E c \in Devices : Has(file'.kept[c], id)
    BY <1>1, <2>5 DEF Taken
  <2> QED
    BY <2>2, <2>3, <2>4, <2>5 DEF Taken
<1>13. IdsCounted'
  BY <1>1, <1>7, <1>10, <1>12 DEF IdsCounted
<1> QED
  BY <1>11, <1>13

(* A restart: what is restored is all that is kept, and the constructor      *)
(* counts past it.                                                           *)
LEMMA RestartIds ==
  ASSUME KeyInv, IdInv, NEW clean \in BOOLEAN, NEW routed \in SUBSET Battery, Restart(clean, routed)
  PROVE  IdInv'
<1> DEFINE saved == IF clean THEN Current ELSE file
           k == saved.kept
           restored == {d \in Battery \cap saved.endpoints : Persisted(k, d)}
           t == Restored(restored, k)
           ss == {s \in Ids : t[s] # None /\ t[s].node \in routed}
<1>1. /\ file' = saved /\ kept' = k
      /\ Transmit(t, ss)
      /\ \E next \in Counted(restored, k) : sessionCounter' = next[NDevices]
      /\ pending' = [d \in Devices |-> None]
      /\ UNCHANGED <<attempts, bound>>
  BY DEF Restart
<1>2. k \in [Devices -> Kept \cup {None}]
  BY DEF KeyInv, TypeOK, Current
<1> SUFFICES ASSUME Unwrapped' PROVE IdsApart' /\ IdsCounted'
  BY DEF IdInv
<1>3. Unwrapped /\ IdsApart /\ IdsCounted
  BY <1>1 DEF Unwrapped, IdInv
<1>4. \A d \in Devices : k[d] # None => d \in Battery \cap saved.endpoints
  BY <1>3 DEF Unwrapped, KeyInv, KeptKnown, Current, TypeOK
<1>5. \A c, d \in Devices : c # d /\ k[c] # None /\ k[d] # None => k[c].id # k[d].id
  BY <1>3 DEF IdsApart, IdsCounted, Current
<1>6. \A d \in Devices : k[d] # None => k[d].id \in Ids /\ k[d].id \in 1..attempts
  <2> SUFFICES ASSUME NEW d \in Devices, k[d] # None PROVE k[d].id \in Ids /\ k[d].id \in 1..attempts
    OBVIOUS
  <2>1. k[d].id \in Ids
    BY <1>2 DEF Kept
  <2>2. Taken(k[d].id)
    <3>1. k[d] = kept[d] \/ k[d] = file.kept[d]
      BY DEF Current
    <3> QED
      BY <3>1 DEF Taken, Has
  <2> QED
    BY <1>3, <2>1, <2>2 DEF IdsCounted
<1>7. Battery \subseteq Devices
  BY SessionStoreAssumption
<1>8. /\ restored \subseteq Devices /\ \A d \in restored : k[d] # None
      /\ \A d \in Devices : k[d] # None => d \in restored
  BY <1>4, <1>6, <1>7 DEF Persisted
<1> HIDE DEF saved, k, restored
<1>9. \A s \in Ids : t[s] # None =>
        /\ t[s].node \in restored /\ k[t[s].node].id = s
        /\ t[s] = [node |-> t[s].node, key |-> t[s].key, counter |-> t[s].counter]
  <2>1. \A s \in Ids : t[s] # None =>
          t[s].node \in restored /\ k[t[s].node].id = s /\ t[s] \in Session
    BY <1>2, <1>8, RestoredFrom
  <2> QED
    BY <2>1 DEF Session
<1> HIDE DEF t
<1>10. \A s \in Ids : table'[s] # None => t[s] # None /\ table'[s].node = t[s].node
  <2> SUFFICES ASSUME NEW s \in Ids, table'[s] # None PROVE t[s] # None /\ table'[s].node = t[s].node
    OBVIOUS
  <2>1. table'[s] = IF s \in ss THEN [t[s] EXCEPT !.counter = @ + 1] ELSE t[s]
    BY <1>1 DEF Transmit
  <2>2. CASE s \in ss
    <3>1. t[s] # None /\ table'[s] = [t[s] EXCEPT !.counter = @ + 1]
      BY <2>1, <2>2
    <3>2. t[s] = [node |-> t[s].node, key |-> t[s].key, counter |-> t[s].counter]
      BY <1>9, <3>1
    <3> QED
      BY <3>1, <3>2
  <2>3. CASE s \notin ss
    BY <2>1, <2>3
  <2> QED
    BY <2>2, <2>3
<1>11. \A d \in Devices : pending'[d] = None
  BY <1>1
<1>12. \A s \in Ids : table'[s] # None =>
         table'[s].node \in Devices /\ k[table'[s].node] # None /\ k[table'[s].node].id = s
  BY <1>8, <1>9, <1>10
<1>13. IdsApart'
  BY <1>1, <1>5, <1>11 DEF IdsApart
<1>14. kept' = k /\ file'.kept = k
  BY <1>1 DEF k
<1>15. \A id \in Ids : Taken(id)' => \E d \in restored : k[d].id = id
  BY <1>8, <1>11, <1>12, <1>14 DEF Taken, Has
<1>16. attempts \in Nat /\ attempts' = attempts
  BY <1>1, SessionStoreAssumption DEF KeyInv, TypeOK
<1>17. attempts + 1 < IdSpace =>
         /\ sessionCounter' \in 1 .. attempts + 1
         /\ \A d \in restored : k[d].id < sessionCounter'
  <2> SUFFICES ASSUME attempts + 1 < IdSpace
               PROVE  /\ sessionCounter' \in 1 .. attempts + 1
                      /\ \A d \in restored : k[d].id < sessionCounter'
    OBVIOUS
  <2>1. PICK next \in Counted(restored, k) : sessionCounter' = next[NDevices]
    BY <1>1
  <2>2. restored \in SUBSET Devices /\ \A d \in restored : k[d].id \in 1..attempts
    BY <1>6, <1>8
  <2> QED
    BY <1>16, <2>1, <2>2, CountsPast
<1>18. \A d \in Devices : kept'[d] # None /\ table'[kept'[d].id] # None => table'[kept'[d].id].node = d
  BY <1>5, <1>6, <1>12, <1>14
<1>19. IdsCounted'
  <2>1. \A id \in Ids : Taken(id)' => id \in 1..attempts'
    BY <1>6, <1>8, <1>15, <1>16
  <2>2. attempts' + 1 < IdSpace =>
          /\ sessionCounter' \in 1 .. attempts' + 1
          /\ \A id \in Ids : Taken(id)' => id < sessionCounter'
    BY <1>15, <1>16, <1>17
  <2>3. \A c, d \in Devices : c # d /\ file'.kept[c] # None /\ file'.kept[d] # None
          => file'.kept[c].id # file'.kept[d].id
    BY <1>5, <1>14
  <2> QED
    BY <1>11, <1>18, <2>1, <2>2, <2>3 DEF IdsCounted
<1> QED
  BY <1>13, <1>19

LEMMA InitIdInv == Init => IdInv
<1> SUFFICES ASSUME Init PROVE IdsApart /\ IdsCounted
  BY DEF IdInv
<1>1. /\ \A d \in Devices : pending[d] = None /\ kept[d] = None /\ file.kept[d] = None
      /\ \A s \in Ids : table[s] = None
      /\ sessionCounter = 1 /\ attempts = 0
  BY DEF Init
<1>2. \A id \in Ids : ~Taken(id)
  BY <1>1 DEF Taken, Has
<1> QED
  BY <1>1, <1>2 DEF IdsApart, IdsCounted

-----------------------------------------------------------------------------
(* Within and Behind after a step. *)
WithinNext(key, u) ==
  /\ highest'[key] <= u
  /\ \A s \in Ids : table'[s] # None /\ table'[s].key = key => table'[s].counter <= u

BehindNext(c, from) ==
  from.of = c.key =>
    /\ from.sent <= sent'[c.key]
    /\ c.key \notin lapsed' /\ <<c.key, c.counter>> \notin resumed' =>
         WithinNext(c.key, c.counter + (sent'[c.key] - from.sent))

(* Transmit on a table whose sessions have keys of their own: a key counts   *)
(* what is sent under it, and its counters go up by no more.                *)
LEMMA Sending ==
  ASSUME NEW t \in [Ids -> Session \cup {None}], NEW ss \in SUBSET Ids,
         \A s \in ss : t[s] # None,
         highest \in [Keys -> Nat], sent \in [Keys -> Nat],
         \A r, s \in Ids : t[r] # None /\ t[s] # None /\ t[r].key = t[s].key => r = s,
         Transmit(t, ss)
  PROVE  /\ sent' \in [Keys -> Nat]
         /\ \A key \in Keys : /\ sent[key] <= sent'[key]
                              /\ (\A s \in ss : t[s].key # key) => sent'[key] = sent[key]
         /\ \A s \in Ids : table'[s] # None =>
              /\ t[s] # None /\ table'[s].node = t[s].node /\ table'[s].key = t[s].key
              /\ t[s].key \in Keys /\ t[s].counter \in Nat /\ table'[s].counter \in Nat
              /\ table'[s].counter <= t[s].counter + (sent'[t[s].key] - sent[t[s].key])
         /\ \A key \in Keys, u \in Int :
              /\ highest[key] <= u
              /\ \A s \in Ids : t[s] # None /\ t[s].key = key => t[s].counter <= u
              => WithinNext(key, u + (sent'[key] - sent[key]))
<1> DEFINE used(key) == {t[s].counter + 1 : s \in {r \in ss : t[r].key = key}}
<1>1. /\ table' = [s \in Ids |-> IF s \in ss THEN [t[s] EXCEPT !.counter = @ + 1] ELSE t[s]]
      /\ highest' = [key \in Keys |-> Max({highest[key]} \cup used(key))]
      /\ sent' = [key \in Keys |-> IF \E s \in ss : t[s].key = key THEN sent[key] + 1
                                   ELSE sent[key]]
  BY DEF Transmit
<1>2. \A s \in Ids : t[s] # None => t[s] \in Session /\ t[s].key \in Keys /\ t[s].counter \in Nat
  BY DEF Session
<1>3. /\ sent' \in [Keys -> Nat]
      /\ \A key \in Keys : sent'[key] = IF \E s \in ss : t[s].key = key THEN sent[key] + 1
                                        ELSE sent[key]
  BY <1>1
<1>4. \A s \in ss : /\ table'[s].node = t[s].node /\ table'[s].key = t[s].key
                    /\ table'[s].counter = t[s].counter + 1
  <2> SUFFICES ASSUME NEW s \in ss
               PROVE  /\ table'[s].node = t[s].node /\ table'[s].key = t[s].key
                      /\ table'[s].counter = t[s].counter + 1
    OBVIOUS
  <2>1. table'[s] = [t[s] EXCEPT !.counter = @ + 1] /\ t[s] \in Session
    BY <1>1, <1>2
  <2> QED
    BY <2>1 DEF Session
<1>5. \A s \in Ids \ ss : table'[s] = t[s]
  BY <1>1
<1>6. \A s \in Ids : table'[s] # None =>
        /\ t[s] # None /\ table'[s].node = t[s].node /\ table'[s].key = t[s].key
        /\ t[s].key \in Keys /\ t[s].counter \in Nat /\ table'[s].counter \in Nat
        /\ table'[s].counter <= t[s].counter + (sent'[t[s].key] - sent[t[s].key])
  <2> SUFFICES ASSUME NEW s \in Ids, table'[s] # None
               PROVE  /\ t[s] # None /\ table'[s].node = t[s].node /\ table'[s].key = t[s].key
                      /\ t[s].key \in Keys /\ t[s].counter \in Nat /\ table'[s].counter \in Nat
                      /\ table'[s].counter <= t[s].counter + (sent'[t[s].key] - sent[t[s].key])
    OBVIOUS
  <2>1. CASE s \in ss
    <3>1. sent'[t[s].key] = sent[t[s].key] + 1 /\ sent[t[s].key] \in Nat
      BY <1>2, <1>3, <2>1
    <3> QED
      BY <1>2, <1>4, <2>1, <3>1
  <2>2. CASE s \notin ss
    <3>1. table'[s] = t[s] /\ t[s] # None
      BY <1>5, <2>2
    <3>2. sent[t[s].key] \in Nat /\ sent'[t[s].key] \in Nat /\ sent[t[s].key] <= sent'[t[s].key]
      BY <1>2, <1>3, <3>1
    <3> QED
      BY <1>2, <3>1, <3>2
  <2> QED
    BY <2>1, <2>2
<1>7. ASSUME NEW key \in Keys, NEW u \in Int, highest[key] <= u,
             \A s \in Ids : t[s] # None /\ t[s].key = key => t[s].counter <= u
      PROVE  WithinNext(key, u + (sent'[key] - sent[key]))
  <2>1. sent[key] \in Nat /\ sent'[key] \in Nat /\ highest[key] \in Nat
    BY <1>3
  <2>2. highest'[key] <= u + (sent'[key] - sent[key])
    <3>1. CASE \E s \in ss : t[s].key = key
      <4>1. PICK s \in ss : t[s].key = key
        BY <3>1
      <4>2. {r \in ss : t[r].key = key} = {s}
        BY <4>1
      <4> DEFINE h == highest[key]
                 c == t[s].counter + 1
      <4>3. used(key) = {c}
        BY <4>2
      <4>4. highest'[key] = Max({h, c}) /\ sent'[key] = sent[key] + 1
        BY <1>1, <3>1, <4>3
      <4>5. h \in Nat /\ c \in Nat /\ h <= u /\ c <= u + 1
        BY <1>2, <1>7, <2>1, <4>1
      <4> HIDE DEF h, c, used
      <4>6. \E x \in {h, c} : \A y \in {h, c} : x >= y
        BY <4>5
      <4>7. highest'[key] \in {h, c}
        BY <4>4, <4>6 DEF Max
      <4> QED
        BY <2>1, <4>4, <4>5, <4>7
    <3>2. CASE \A s \in ss : t[s].key # key
      <4>1. {highest[key]} \cup used(key) = {highest[key]}
        BY <3>2
      <4>2. highest'[key] = Max({highest[key]}) /\ sent'[key] = sent[key]
        BY <1>1, <3>2, <4>1
      <4>3. highest'[key] = highest[key]
        BY <2>1, <4>2 DEF Max
      <4> QED
        BY <1>7, <2>1, <4>2, <4>3
    <3> QED
      BY <3>1, <3>2
  <2>3. \A s \in Ids : table'[s] # None /\ table'[s].key = key
          => table'[s].counter <= u + (sent'[key] - sent[key])
    BY <1>6, <1>7, <2>1
  <2> QED
    BY <2>2, <2>3 DEF WithinNext
<1> QED
  BY <1>3, <1>6, <1>7

(* What a step may do to the counts without harm: what was within a number   *)
(* stays so but for what is sent.                                           *)
Grows ==
  /\ sent' \in [Keys -> Nat]
  /\ \A key \in Keys : sent[key] <= sent'[key] /\ (Fresh(key)' => Fresh(key) /\ sent'[key] = sent[key])
  /\ \A key \in Keys, u \in Int :
       Within(key, u) => WithinNext(key, u + (sent'[key] - sent[key]))
  /\ \A s \in Ids : table'[s] # None =>
       table'[s].counter <= sent'[table'[s].key] \/ Persisted(kept', table'[s].node)

LEMMA BehindStays ==
  ASSUME NEW c \in Kept, NEW from \in Origin, Behind(c, from), Grows,
         sent \in [Keys -> Nat], UNCHANGED <<resumed, lapsed>>
  PROVE  BehindNext(c, from)
<1> SUFFICES ASSUME from.of = c.key
             PROVE  /\ from.sent <= sent'[c.key]
                    /\ c.key \notin lapsed /\ <<c.key, c.counter>> \notin resumed =>
                         WithinNext(c.key, c.counter + (sent'[c.key] - from.sent))
  BY DEF BehindNext
<1> DEFINE u == c.counter + (sent[c.key] - from.sent)
<1>1. /\ c.key \in Keys /\ c.counter \in Nat /\ from.sent \in Nat
      /\ sent[c.key] \in Nat /\ sent'[c.key] \in Nat /\ sent[c.key] <= sent'[c.key]
  BY DEF Grows, Kept, Origin
<1>2. /\ from.sent <= sent[c.key]
      /\ c.key \notin lapsed /\ <<c.key, c.counter>> \notin resumed => Within(c.key, u)
  BY DEF Behind
<1>3. u \in Int /\ u + (sent'[c.key] - sent[c.key]) = c.counter + (sent'[c.key] - from.sent)
  BY <1>1
<1> HIDE DEF u
<1>4. Within(c.key, u) => WithinNext(c.key, u + (sent'[c.key] - sent[c.key]))
  BY <1>1, <1>3 DEF Grows
<1> QED
  BY <1>1, <1>2, <1>3, <1>4

(* Steps after which each session kept, or in the file, is one that was, or  *)
(* has its counter from now.                                                *)
LEMMA CountsStay ==
  ASSUME KeyInv, CountInv, Grows, UNCHANGED <<resumed, lapsed>>,
         copied' \in [Devices -> Origin],
         \A d \in Devices : kept'[d] # None =>
           \/ kept'[d] = kept[d] /\ copied'[d] = copied[d]
           \/ BehindNext(kept'[d], copied'[d]),
         \/ UNCHANGED <<file, filed>>
         \/ file' = Current /\ filed' = copied
  PROVE  CountInv'
<1>1. /\ sent \in [Keys -> Nat] /\ copied \in [Devices -> Origin] /\ filed \in [Devices -> Origin]
      /\ \A d \in Devices : kept[d] # None =>
           kept[d] \in Kept /\ copied[d] \in Origin /\ Behind(kept[d], copied[d])
      /\ \A d \in Devices : file.kept[d] # None =>
           file.kept[d] \in Kept /\ filed[d] \in Origin /\ Behind(file.kept[d], filed[d])
      /\ \A key \in Keys : Fresh(key) => sent[key] = 0
  BY DEF CountInv, Follows, KeyInv, TypeOK
<1>2. \A d \in Devices :
        /\ kept[d] # None => BehindNext(kept[d], copied[d])
        /\ file.kept[d] # None => BehindNext(file.kept[d], filed[d])
  BY <1>1, BehindStays
<1>3. \A d \in Devices : kept'[d] # None => BehindNext(kept'[d], copied'[d])
  BY <1>2
<1>4. \A d \in Devices : file'.kept[d] # None => BehindNext(file'.kept[d], filed'[d])
  BY <1>2 DEF Current
<1>5. Follows(kept, copied)' /\ Follows(file.kept, filed)'
  BY <1>3, <1>4 DEF Follows, Behind, Within, BehindNext, WithinNext
<1>6. /\ sent' \in [Keys -> Nat] /\ \A key \in Keys : Fresh(key)' => sent'[key] = 0
      /\ \A s \in Ids : table'[s] # None =>
           table'[s].counter <= sent'[table'[s].key] \/ Persisted(kept', table'[s].node)
  BY <1>1 DEF Grows, Persisted
<1>7. filed' \in [Devices -> Origin]
  BY <1>1
<1> QED
  BY <1>5, <1>6, <1>7 DEF CountInv

(* Steps that send nothing and leave sessions as they are, or end them.     *)
LEMMA SilentCounts ==
  ASSUME KeyInv, CountInv, UNCHANGED <<highest, sent, kept, copied, resumed, lapsed>>,
         \A key \in Keys : Fresh(key)' => Fresh(key),
         \A s \in Ids : table'[s] # None => table'[s] = table[s],
         \/ UNCHANGED <<file, filed>>
         \/ file' = Current /\ filed' = copied
  PROVE  CountInv'
<1>1. /\ sent \in [Keys -> Nat] /\ copied \in [Devices -> Origin]
      /\ \A s \in Ids : table[s] # None =>
           table[s].counter <= sent[table[s].key] \/ Persisted(kept, table[s].node)
  BY DEF CountInv
<1>2. \A key \in Keys : sent[key] \in Nat /\ sent'[key] = sent[key]
  BY <1>1
<1>3. ASSUME NEW key \in Keys, NEW u \in Int, Within(key, u)
      PROVE  WithinNext(key, u + (sent'[key] - sent[key]))
  <2>1. u + (sent'[key] - sent[key]) = u
    BY <1>2
  <2> QED
    BY <1>3, <2>1 DEF Within, WithinNext
<1>4. Grows
  BY <1>1, <1>2, <1>3 DEF Grows, Persisted
<1> QED
  BY <1>1, <1>4, CountsStay

(* Sending on sessions there are. *)
LEMMA TalkingGrows ==
  ASSUME KeyInv, CountInv, NEW ss \in SUBSET Ids, \A s \in ss : table[s] # None,
         Transmit(table, ss), UNCHANGED <<attempts, pending>>,
         \A d \in Devices : Persisted(kept, d) => Persisted(kept', d)
  PROVE  Grows
<1>1. /\ table \in [Ids -> Session \cup {None}]
      /\ highest \in [Keys -> Nat] /\ sent \in [Keys -> Nat]
      /\ \A r, s \in Ids :
           table[r] # None /\ table[s] # None /\ table[r].key = table[s].key => r = s
  BY DEF KeyInv, TypeOK, SessionsApart, CountInv
<1> HIDE DEF Transmit
<1>2. /\ sent' \in [Keys -> Nat]
      /\ \A key \in Keys : /\ sent[key] <= sent'[key]
                           /\ (\A s \in ss : table[s].key # key) => sent'[key] = sent[key]
      /\ \A s \in Ids : table'[s] # None =>
           /\ table[s] # None /\ table'[s].node = table[s].node /\ table'[s].key = table[s].key
           /\ table[s].key \in Keys /\ table[s].counter \in Nat /\ table'[s].counter \in Nat
           /\ table'[s].counter <= table[s].counter + (sent'[table[s].key] - sent[table[s].key])
      /\ \A key \in Keys, u \in Int :
           /\ highest[key] <= u
           /\ \A s \in Ids : table[s] # None /\ table[s].key = key => table[s].counter <= u
           => WithinNext(key, u + (sent'[key] - sent[key]))
  BY <1>1, Sending
<1>3. \A key \in Keys : Fresh(key)' => Fresh(key) /\ sent'[key] = sent[key]
  BY <1>2 DEF Fresh, KeyInv, KeysFresh
<1>4. ASSUME NEW s \in Ids, table'[s] # None
      PROVE  table'[s].counter <= sent'[table'[s].key] \/ Persisted(kept', table'[s].node)
  <2>1. table[s].counter <= sent[table[s].key] \/ Persisted(kept, table[s].node)
    BY <1>2, <1>4 DEF CountInv
  <2>2. CASE table[s].counter <= sent[table[s].key]
    <3>1. sent[table[s].key] \in Nat /\ sent'[table[s].key] \in Nat
      BY <1>1, <1>2, <1>4
    <3> QED
      BY <1>2, <1>4, <2>2, <3>1
  <2>3. CASE Persisted(kept, table[s].node)
    <3>1. table[s].node \in Devices /\ table'[s].node = table[s].node
      BY <1>1, <1>2, <1>4 DEF Session
    <3> QED
      BY <2>3, <3>1 DEF Persisted
  <2> QED
    BY <2>1, <2>2, <2>3
<1> QED
  BY <1>2, <1>3, <1>4 DEF Grows, Within

LEMMA TalkingCounts ==
  ASSUME KeyInv, CountInv, NEW ss \in SUBSET Ids, \A s \in ss : table[s] # None,
         Transmit(table, ss),
         UNCHANGED <<attempts, pending, kept, copied, resumed, lapsed, file, filed>>
  PROVE  CountInv'
<1>1. \A d \in Devices : Persisted(kept, d) => Persisted(kept', d)
  BY DEF Persisted
<1> HIDE DEF Transmit
<1>2. Grows
  BY <1>1, TalkingGrows
<1> QED
  BY <1>2, CountsStay DEF CountInv

(* pingTimeout: what is kept now is the counter the session has come to.     *)
LEMMA PingTimeoutCounts ==
  ASSUME KeyInv, CountInv, NEW silent \in SUBSET Devices, PingTimeout(silent)
  PROVE  CountInv'
<1> DEFINE counted == {d \in online : SessionOf(d) # {}}
           use(d) == table[CHOOSE s \in SessionOf(d) : TRUE]
           counts(d) == d \in counted /\ kept[d] # None
<1>1. /\ kept' = [d \in Devices |-> IF counts(d) THEN [kept[d] EXCEPT !.counter = use(d).counter]
                                    ELSE kept[d]]
      /\ copied' = [d \in Devices |-> IF counts(d)
                                      THEN [of |-> use(d).key, sent |-> sent[use(d).key]]
                                      ELSE copied[d]]
      /\ UNCHANGED <<pending, table, attempts, highest, sent, file, filed, resumed, lapsed>>
  BY DEF PingTimeout, storeVars
<1>2. ASSUME NEW d \in Devices, counts(d)
      PROVE  /\ use(d) \in Session
             /\ \A s \in Ids : table[s] # None /\ table[s].key = use(d).key => table[s] = use(d)
             /\ use(d).key \notin lapsed => highest[use(d).key] <= use(d).counter
  <2>1. PICK s \in SessionOf(d) : use(d) = table[s]
    BY <1>2
  <2>2. s \in Ids /\ table[s] # None /\ table[s] \in Session
    BY <2>1, SessionOfFacts DEF KeyInv, TypeOK
  <2>3. highest[table[s].key] \in Nat /\ table[s].counter \in Nat
    BY <2>2 DEF Session, KeyInv, TypeOK
  <2> HIDE DEF use
  <2> QED
    BY <2>1, <2>2, <2>3 DEF KeyInv, SessionsApart, MarginSuffices
<1> HIDE DEF counts, use
<1>3. ASSUME NEW d \in Devices, counts(d)
      PROVE  /\ kept'[d] \in Kept /\ kept[d] # None /\ kept'[d].id = kept[d].id
             /\ kept'[d].counter = use(d).counter
             /\ copied'[d] = [of |-> use(d).key, sent |-> sent[use(d).key]]
  <2>1. kept'[d] = [kept[d] EXCEPT !.counter = use(d).counter]
    BY <1>1, <1>3
  <2>2. kept[d] \in Kept /\ kept[d] # None
    BY <1>3 DEF counts, KeyInv, TypeOK
  <2>3. use(d).counter \in Nat
    BY <1>2, <1>3 DEF Session
  <2> QED
    BY <1>1, <1>3, <2>1, <2>2, <2>3 DEF Kept
<1>4. \A d \in Devices : ~counts(d) => kept'[d] = kept[d] /\ copied'[d] = copied[d]
  BY <1>1
<1>5. sent \in [Keys -> Nat] /\ copied \in [Devices -> Origin]
  BY DEF CountInv
<1>6. ASSUME NEW d \in Devices, counts(d)
      PROVE  copied'[d] \in Origin /\ BehindNext(kept'[d], copied'[d])
  <2> DEFINE key == use(d).key
             c == use(d).counter
  <2>1. key \in Keys /\ key \in Nat /\ c \in Nat /\ sent[key] \in Nat /\ sent' = sent
    BY <1>1, <1>2, <1>5, <1>6 DEF Session, Keys
  <2>2. key \notin lapsed => WithinNext(key, c)
    BY <1>1, <1>2, <1>6, <2>1 DEF WithinNext
  <2>3. copied'[d] = [of |-> key, sent |-> sent[key]] /\ kept'[d].counter = c
    BY <1>3, <1>6
  <2> HIDE DEF key, c
  <2>4. copied'[d] \in Origin /\ copied'[d].of = key /\ copied'[d].sent = sent[key]
    BY <2>1, <2>3 DEF Origin
  <2>5. c + (sent'[key] - sent[key]) = c
    BY <2>1
  <2> QED
    BY <1>1, <2>1, <2>2, <2>3, <2>4, <2>5 DEF BehindNext
<1>7. copied' \in [Devices -> Origin]
  BY <1>1, <1>4, <1>5, <1>6
<1>8. \A d \in Devices : Persisted(kept, d) => Persisted(kept', d)
  BY <1>3, <1>4, SessionStoreAssumption DEF Persisted
<1>9. Grows
  <2>1. \A key \in Keys : sent[key] \in Nat /\ sent'[key] = sent[key]
    BY <1>1, <1>5
  <2>2. ASSUME NEW key \in Keys, NEW u \in Int, Within(key, u)
        PROVE  WithinNext(key, u + (sent'[key] - sent[key]))
    <3>1. u + (sent'[key] - sent[key]) = u
      BY <2>1
    <3> QED
      BY <1>1, <2>2, <3>1 DEF Within, WithinNext
  <2>3. \A key \in Keys : Fresh(key)' => Fresh(key)
    BY <1>1 DEF Fresh
  <2>4. ASSUME NEW s \in Ids, table'[s] # None
        PROVE  table'[s].counter <= sent'[table'[s].key] \/ Persisted(kept', table'[s].node)
    <3>1. table[s] \in Session /\ table'[s] = table[s]
      BY <1>1, <2>4 DEF KeyInv, TypeOK
    <3>2. table[s].node \in Devices
      BY <3>1 DEF Session
    <3> QED
      BY <1>1, <1>8, <2>4, <3>1, <3>2 DEF CountInv
  <2> QED
    BY <1>1, <1>5, <2>1, <2>2, <2>3, <2>4 DEF Grows
<1> QED
  BY <1>1, <1>4, <1>6, <1>7, <1>9, CountsStay

(* The end of a discovery: what it keeps has counted from 0.                 *)
LEMMA FinalizingCounts ==
  ASSUME KeyInv, CountInv, NEW d \in Devices, SessionOf(d) # {},
         Transmit(table, SessionOf(d)), Finalize(d),
         UNCHANGED <<pending, attempts, filed, resumed, lapsed>>
  PROVE  CountInv'
<1> DEFINE s == CHOOSE r \in SessionOf(d) : TRUE
           new == Copy(table, s, 0)
           from == [of |-> table[s].key, sent |-> 0]
           keeps == d \in battery' /\ ~Persisted(kept, d)
<1>1. /\ kept' = IF keeps THEN [kept EXCEPT ![d] = new] ELSE kept
      /\ copied' = IF keeps THEN [copied EXCEPT ![d] = from] ELSE copied
      /\ file' = file
  BY DEF Finalize, Store
<1>2. s \in Ids /\ table[s] # None /\ table[s] \in Session /\ table[s].node = d
  <2>1. s \in SessionOf(d)
    OBVIOUS
  <2> QED
    BY <2>1 DEF SessionOf, KeyInv, TypeOK
<1>3. table[s].key \in Keys /\ table[s].key \in Nat /\ table[s].counter \in Nat
  BY <1>2 DEF Session, Keys
<1>4. new.key = table[s].key /\ new.counter = 0 /\ from \in Origin
      /\ from.of = table[s].key /\ from.sent = 0
  BY <1>3 DEF Copy, Origin
<1>5. /\ sent \in [Keys -> Nat] /\ copied \in [Devices -> Origin]
      /\ DOMAIN kept = Devices
      /\ table[s].counter <= sent[table[s].key] \/ Persisted(kept, d)
  BY <1>2 DEF CountInv, KeyInv, TypeOK
<1> HIDE DEF s, new, from, keeps
<1>6. \A c \in Devices :
        IF keeps /\ c = d THEN kept'[c] = new /\ copied'[c] = from
        ELSE kept'[c] = kept[c] /\ copied'[c] = copied[c]
  BY <1>1, <1>5
<1>7. copied' \in [Devices -> Origin]
  BY <1>1, <1>4, <1>5
<1>8. \A c \in Devices : Persisted(kept, c) => Persisted(kept', c)
  BY <1>6 DEF Persisted, keeps
<1>9. Grows
  BY <1>8, TalkingGrows, SessionOfFacts
<1>10. keeps => BehindNext(new, from)
  <2> SUFFICES ASSUME keeps PROVE BehindNext(new, from)
    OBVIOUS
  <2> DEFINE key == table[s].key
  <2>1. key \in Keys /\ sent[key] \in Nat /\ sent'[key] \in Nat /\ highest[key] \in Nat
    BY <1>3, <1>5, <1>9 DEF Grows, KeyInv, TypeOK
  <2>2. table[s].counter <= sent[key]
    BY <1>5 DEF keeps
  <2>3. \A r \in Ids : table[r] # None /\ table[r].key = key => r = s
    BY <1>2 DEF KeyInv, SessionsApart
  <2>4. key \notin lapsed => highest[key] <= table[s].counter
    BY <1>2, <1>3, <2>1 DEF KeyInv, MarginSuffices
  <2>5. key \notin lapsed => Within(key, sent[key])
    BY <1>3, <2>1, <2>2, <2>3, <2>4 DEF Within
  <2>6. sent[key] \in Int /\ sent[key] + (sent'[key] - sent[key]) = 0 + (sent'[key] - 0)
    BY <2>1
  <2>7. key \notin lapsed => WithinNext(key, 0 + (sent'[key] - 0))
    BY <1>9, <2>1, <2>5, <2>6 DEF Grows
  <2> QED
    BY <1>4, <2>1, <2>7 DEF BehindNext
<1> QED
  BY <1>1, <1>6, <1>7, <1>9, <1>10, CountsStay

(* A new session counts from 0, in use and kept.                             *)
LEMMA CaseEstablishedCounts ==
  ASSUME KeyInv, CountInv, NEW d \in Devices, CaseEstablished(d)
  PROVE  CountInv'
<1> DEFINE p == pending[d]
           first == [node |-> d, key |-> p.key, counter |-> 0]
           t == [s \in Ids |-> IF s = p.id THEN first
                               ELSE IF s \in SessionOf(d) THEN None ELSE table[s]]
           new == Copy(t, p.id, 0)
           from == [of |-> p.key, sent |-> 0]
<1>1. /\ p # None /\ Transmit(t, {p.id})
      /\ kept' = IF d \in battery THEN [kept EXCEPT ![d] = new] ELSE kept
      /\ copied' = IF d \in battery THEN [copied EXCEPT ![d] = from] ELSE copied
      /\ pending' = [pending EXCEPT ![d] = None]
      /\ UNCHANGED <<file, filed, attempts, resumed, lapsed>>
  BY DEF CaseEstablished, Store
<1>2. p.id \in Ids /\ p.key \in Keys /\ p.key \in Nat /\ Fresh(p.key)
  BY <1>1 DEF KeyInv, TypeOK, Attempt, Fresh, Keys
<1>3. /\ first \in Session /\ first # None
      /\ first.node = d /\ first.key = p.key /\ first.counter = 0
  <2>1. first \in Session
    BY <1>2 DEF Session
  <2> QED
    BY <2>1, SessionStoreAssumption
<1>4. /\ new.key = p.key /\ new.counter = 0
      /\ from \in Origin /\ from.of = p.key /\ from.sent = 0
  BY <1>2 DEF Copy, Origin
<1> HIDE DEF first, new, from
<1>5. /\ t \in [Ids -> Session \cup {None}]
      /\ t[p.id] = first
      /\ \A s \in Ids : s # p.id /\ t[s] # None => t[s] = table[s] /\ table[s].node # d
  BY <1>2, <1>3 DEF KeyInv, TypeOK, SessionOf
<1>6. /\ highest[p.key] = 0 /\ sent[p.key] = 0
      /\ \A s \in Ids : table[s] # None => table[s].key # p.key
      /\ sent \in [Keys -> Nat] /\ highest \in [Keys -> Nat] /\ copied \in [Devices -> Origin]
  BY <1>2 DEF KeyInv, KeysFresh, TypeOK, CountInv
<1> HIDE DEF t
<1>7. /\ sent' \in [Keys -> Nat]
      /\ \A key \in Keys : /\ sent[key] <= sent'[key]
                           /\ (\A s \in {p.id} : t[s].key # key) => sent'[key] = sent[key]
      /\ \A s \in Ids : table'[s] # None =>
           /\ t[s] # None /\ table'[s].node = t[s].node /\ table'[s].key = t[s].key
           /\ t[s].key \in Keys /\ t[s].counter \in Nat /\ table'[s].counter \in Nat
           /\ table'[s].counter <= t[s].counter + (sent'[t[s].key] - sent[t[s].key])
      /\ \A key \in Keys, u \in Int :
           /\ highest[key] <= u
           /\ \A s \in Ids : t[s] # None /\ t[s].key = key => t[s].counter <= u
           => WithinNext(key, u + (sent'[key] - sent[key]))
  <2>1. \A s \in {p.id} : t[s] # None
    BY <1>3, <1>5
  <2>2. \A r, s \in Ids : t[r] # None /\ t[s] # None /\ t[r].key = t[s].key => r = s
    BY <1>3, <1>5, <1>6 DEF KeyInv, SessionsApart
  <2>3. {p.id} \in SUBSET Ids
    BY <1>2
  <2> QED
    BY <1>1, <1>5, <1>6, <2>1, <2>2, <2>3, Sending
<1>8. /\ DOMAIN kept = Devices /\ DOMAIN pending = Devices
      /\ \A c \in Devices :
           IF d \in battery /\ c = d THEN kept'[c] = new /\ copied'[c] = from
           ELSE kept'[c] = kept[c] /\ copied'[c] = copied[c]
  BY <1>1, <1>6 DEF KeyInv, TypeOK
<1>9. copied' \in [Devices -> Origin]
  BY <1>1, <1>4, <1>6
<1>10. ASSUME NEW key \in Keys, NEW u \in Int, Within(key, u)
       PROVE  WithinNext(key, u + (sent'[key] - sent[key]))
  <2>1. \A s \in Ids : t[s] # None /\ t[s].key = key => t[s].counter <= u
    BY <1>3, <1>5, <1>6, <1>10 DEF Within
  <2> QED
    BY <1>7, <1>10, <2>1 DEF Within
<1>11. \A key \in Keys : Fresh(key)' => Fresh(key) /\ key # p.key
  <2> SUFFICES ASSUME NEW key \in Keys, Fresh(key)' PROVE Fresh(key) /\ key # p.key
    OBVIOUS
  <2>1. \A c \in Devices : pending'[c] = IF c = d THEN None ELSE pending[c]
    BY <1>1, <1>8
  <2>2. CASE key > attempts'
    BY <1>1, <1>2, <2>2 DEF Fresh, KeyInv, KeysFresh, TypeOK, Keys
  <2>3. CASE \E c \in Devices : pending'[c] # None /\ pending'[c].key = key
    BY <1>1, <2>1, <2>3 DEF Fresh, KeyInv, KeysFresh
  <2> QED
    BY <2>2, <2>3 DEF Fresh
<1>12. ASSUME NEW s \in Ids, table'[s] # None
       PROVE  table'[s].counter <= sent'[table'[s].key] \/ Persisted(kept', table'[s].node)
  <2>1. /\ t[s] # None /\ table'[s].node = t[s].node /\ table'[s].key = t[s].key
        /\ t[s].counter \in Nat /\ table'[s].counter \in Nat
        /\ sent[t[s].key] \in Nat /\ sent'[t[s].key] \in Nat
        /\ table'[s].counter <= t[s].counter + (sent'[t[s].key] - sent[t[s].key])
    BY <1>6, <1>7, <1>12
  <2>2. CASE s = p.id
    BY <1>3, <1>5, <2>1, <2>2
  <2>3. CASE s # p.id
    <3>1. t[s] = table[s] /\ table[s] # None /\ table[s] \in Session /\ table[s].node # d
      BY <1>5, <2>1, <2>3
    <3>2. table[s].node \in Devices
      BY <3>1 DEF Session
    <3>3. table[s].counter <= sent[table[s].key] \/ Persisted(kept, table[s].node)
      BY <3>1 DEF CountInv
    <3> QED
      BY <1>8, <2>1, <3>1, <3>2, <3>3 DEF Persisted
  <2> QED
    BY <2>2, <2>3
<1>13. Grows
  BY <1>3, <1>5, <1>7, <1>10, <1>11, <1>12 DEF Grows
<1>14. BehindNext(new, from)
  <2>1. Within(p.key, 0)
    BY <1>6 DEF Within
  <2>2. sent'[p.key] \in Nat /\ 0 \in Int
    BY <1>2, <1>7
  <2>3. WithinNext(p.key, 0 + (sent'[p.key] - 0))
    BY <1>2, <1>6, <1>10, <2>1, <2>2
  <2> QED
    BY <1>4, <2>2, <2>3 DEF BehindNext
<1> QED
  BY <1>1, <1>8, <1>9, <1>13, <1>14, CountsStay

(* A restart: of what is restored the counter has served; what is not keeps  *)
(* its count, as no session has its key.                                    *)
LEMMA RestartCounts ==
  ASSUME KeyInv, CountInv, NEW clean \in BOOLEAN, NEW routed \in SUBSET Battery,
         Restart(clean, routed)
  PROVE  CountInv'
<1> DEFINE saved == IF clean THEN Current ELSE file
           k == saved.kept
           from == IF clean THEN copied ELSE filed
           restored == {d \in Battery \cap saved.endpoints : Persisted(k, d)}
           t == Restored(restored, k)
           ss == {s \in Ids : t[s] # None /\ t[s].node \in routed}
<1>1. /\ file' = saved /\ kept' = k /\ copied' = from /\ filed' = from
      /\ Transmit(t, ss)
      /\ resumed' = resumed \cup {<<k[d].key, k[d].counter>> : d \in restored}
      /\ lapsed \subseteq lapsed'
      /\ pending' = [d \in Devices |-> None]
      /\ UNCHANGED attempts
  BY DEF Restart
<1>2. /\ k \in [Devices -> Kept \cup {None}] /\ from \in [Devices -> Origin]
      /\ sent \in [Keys -> Nat] /\ highest \in [Keys -> Nat]
      /\ \A d \in Devices : k[d] # None => Behind(k[d], from[d])
  BY DEF KeyInv, TypeOK, Current, CountInv, Follows
<1>3. \A c, d \in Devices : k[c] # None /\ k[d] # None /\ k[c].key = k[d].key => c = d
  BY DEF KeyInv, KeysApart, Current
<1>4. \A key \in Keys, d \in Devices : Fresh(key) /\ k[d] # None => k[d].key # key
  BY DEF KeyInv, KeysFresh, Current
<1>5. /\ restored \in SUBSET Devices
      /\ \A d \in restored : k[d] # None /\ Persisted(k, d)
  BY SessionStoreAssumption DEF Persisted
<1>6. kept' = k /\ file'.kept = k
  BY <1>1
<1> HIDE DEF saved, k, from, restored
<1>7. /\ t \in [Ids -> Session \cup {None}]
      /\ \A s \in Ids : t[s] # None => t[s].node \in restored /\ t[s].key = k[t[s].node].key
  BY <1>2, <1>5, RestoredFrom
<1> HIDE DEF t
<1>8. /\ sent' \in [Keys -> Nat]
      /\ \A key \in Keys : /\ sent[key] <= sent'[key]
                           /\ (\A s \in ss : t[s].key # key) => sent'[key] = sent[key]
      /\ \A s \in Ids : table'[s] # None => t[s] # None /\ table'[s].node = t[s].node
      /\ \A key \in Keys, u \in Int :
           /\ highest[key] <= u
           /\ \A s \in Ids : t[s] # None /\ t[s].key = key => t[s].counter <= u
           => WithinNext(key, u + (sent'[key] - sent[key]))
  <2>1. ss \in SUBSET Ids /\ \A s \in ss : t[s] # None
    OBVIOUS
  <2>2. \A r, s \in Ids : t[r] # None /\ t[s] # None /\ t[r].key = t[s].key => r = s
    <3>1. \A r \in Ids : t[r] # None => k[t[r].node].id = r
      BY <1>2, <1>5, RestoredFrom DEF t
    <3> QED
      BY <1>3, <1>5, <1>7, <3>1
  <2> HIDE DEF ss
  <2> QED
    BY <1>1, <1>2, <1>7, <2>1, <2>2, Sending
<1>9. ASSUME NEW key \in Keys, Fresh(key)'
      PROVE  sent'[key] = 0
  <2>1. Fresh(key)
    BY <1>1, <1>9 DEF Fresh
  <2>2. \A s \in Ids : t[s] # None => t[s].key # key
    BY <1>4, <1>5, <1>7, <2>1
  <2> QED
    BY <1>8, <2>1, <2>2 DEF CountInv
<1>10. ASSUME NEW d \in Devices, k[d] # None
       PROVE  BehindNext(k[d], from[d])
  <2> DEFINE key == k[d].key
             c == k[d].counter
             n == from[d].sent
  <2>1. /\ key \in Keys /\ c \in Nat /\ n \in Nat
        /\ sent[key] \in Nat /\ sent'[key] \in Nat /\ sent[key] <= sent'[key]
    BY <1>2, <1>8, <1>10 DEF Kept, Origin
  <2>2. SUFFICES ASSUME from[d].of = key
                 PROVE  /\ n <= sent'[key]
                        /\ key \notin lapsed' /\ <<key, c>> \notin resumed' =>
                             WithinNext(key, c + (sent'[key] - n))
    BY DEF BehindNext
  <2>3. /\ n <= sent[key]
        /\ key \notin lapsed /\ <<key, c>> \notin resumed => Within(key, c + (sent[key] - n))
    BY <1>2, <1>10, <2>2 DEF Behind
  <2>4. ASSUME key \notin lapsed', <<key, c>> \notin resumed'
        PROVE  WithinNext(key, c + (sent'[key] - n))
    <3>1. d \notin restored
      BY <1>1, <2>4
    <3>2. \A s \in Ids : t[s] # None => t[s].key # key
      BY <1>3, <1>5, <1>7, <1>10, <3>1
    <3>3. Within(key, c + (sent[key] - n))
      BY <1>1, <2>3, <2>4
    <3> DEFINE u == c + (sent[key] - n)
    <3>4. u \in Int /\ u + (sent'[key] - sent[key]) = c + (sent'[key] - n) /\ highest[key] <= u
      BY <2>1, <3>3 DEF Within
    <3> HIDE DEF u, key, c, n
    <3>5. WithinNext(key, u + (sent'[key] - sent[key]))
      BY <1>8, <2>1, <3>2, <3>4
    <3> QED
      BY <3>4, <3>5
  <2> QED
    BY <2>1, <2>3, <2>4
<1>11. Follows(kept, copied)' /\ Follows(file.kept, filed)'
  BY <1>1, <1>6, <1>10 DEF Follows, Behind, Within, BehindNext, WithinNext
<1>12. \A s \in Ids : table'[s] # None => Persisted(kept', table'[s].node)
  BY <1>5, <1>6, <1>7, <1>8
<1>13. copied' \in [Devices -> Origin] /\ filed' \in [Devices -> Origin]
  BY <1>1, <1>2
<1> QED
  BY <1>8, <1>9, <1>11, <1>12, <1>13 DEF CountInv, Persisted

(* The counts at the start. *)
LEMMA InitCountInv == Init => CountInv
<1> SUFFICES ASSUME Init PROVE CountInv
  OBVIOUS
<1>1. /\ sent = [key \in Keys |-> 0] /\ highest = [key \in Keys |-> 0]
      /\ copied = [d \in Devices |-> [of |-> 0, sent |-> 0]] /\ filed = copied
      /\ \A d \in Devices : kept[d] = None /\ file.kept[d] = None
      /\ \A s \in Ids : table[s] = None
  BY DEF Init
<1> QED
  BY <1>1 DEF CountInv, Follows, Origin

(* The counts after each step. *)
LEMMA NextCountInv ==
  ASSUME KeyInv, CountInv, [Next]_vars
  PROVE  CountInv'
<1>1. ASSUME NEW d \in Devices, StartCASE(d)
      PROVE  CountInv'
  <2>1. /\ attempts' = attempts + 1
        /\ pending' = [pending EXCEPT ![d] = [id |-> sessionCounter, key |-> attempts + 1]]
        /\ attempts + 1 \in Keys /\ attempts \in Nat
        /\ UNCHANGED <<table, kept, file, highest, sent, copied, filed, resumed, lapsed>>
    BY <1>1, SessionStoreAssumption
       DEF StartCASE, deviceVars, storeVars, savedVars, KeyInv, TypeOK, Keys, Bound
  <2>2. \A c \in Devices : pending'[c] # None => c = d \/ pending'[c] = pending[c]
    BY <2>1 DEF KeyInv, TypeOK
  <2>3. d \in DOMAIN pending
    BY DEF KeyInv, TypeOK
  <2>4. pending'[d].key = attempts + 1
    BY <2>1, <2>3
  <2>5. \A key \in Keys : Fresh(key)' => Fresh(key)
    BY <2>1, <2>2, <2>4 DEF Fresh, Keys
  <2> QED
    BY <2>1, <2>5, SilentCounts
<1>2. ASSUME NEW d \in Devices, CaseFailed(d) \/ SessionLost(d) \/ Heard(d)
      PROVE  CountInv'
  <2>1. /\ \A c \in Devices : pending'[c] = pending[c] \/ pending'[c] = None
        /\ \A s \in Ids : table'[s] # None => table'[s] = table[s]
        /\ UNCHANGED <<attempts, kept, file, highest, sent, copied, filed, resumed, lapsed>>
    BY <1>2 DEF CaseFailed, SessionLost, Heard, deviceVars, storeVars, savedVars, KeyInv, TypeOK
  <2>2. \A key \in Keys : Fresh(key)' => Fresh(key)
    BY <2>1 DEF Fresh
  <2> QED
    BY <2>1, <2>2, SilentCounts
<1>3. ASSUME NEW d \in Devices, Send(d) \/ Rediscover(d) \/ PartsList(d)
      PROVE  CountInv'
  <2>1. /\ Transmit(table, SessionOf(d))
        /\ UNCHANGED <<attempts, pending, kept, copied, resumed, lapsed, file, filed>>
    BY <1>3 DEF Send, Rediscover, PartsList, Store, deviceVars, storeVars, savedVars
  <2> QED
    BY <2>1, SessionOfFacts, TalkingCounts
<1>4. ASSUME NEW d \in Devices, NEW more \in BOOLEAN, ServerLists(d, more)
      PROVE  CountInv'
  <2>1. /\ SessionOf(d) # {} /\ Transmit(table, SessionOf(d))
        /\ UNCHANGED <<attempts, pending, filed, resumed, lapsed>>
        /\ UNCHANGED <<kept, copied, file>> \/ Finalize(d)
    BY <1>4 DEF ServerLists, storeVars
  <2> QED
    BY <2>1, SessionOfFacts, TalkingCounts, FinalizingCounts
<1>5. ASSUME NEW d \in Devices, Details(d)
      PROVE  CountInv'
  <2>1. /\ SessionOf(d) # {} /\ Transmit(table, SessionOf(d)) /\ Finalize(d)
        /\ UNCHANGED <<attempts, pending, filed, resumed, lapsed>>
    BY <1>5 DEF Details
  <2> QED
    BY <2>1, FinalizingCounts
<1>6. ASSUME \/ \E s \in BOOLEAN : RequestStore(s)
             \/ \E ok \in BOOLEAN : WriteDatabase(ok)
             \/ UNCHANGED vars
      PROVE  CountInv'
  <2>1. /\ UNCHANGED <<attempts, pending, table, kept, highest, sent, copied, resumed, lapsed>>
        /\ UNCHANGED <<file, filed>> \/ (file' = Current /\ filed' = copied)
    BY <1>6 DEF RequestStore, WriteDatabase, Store, vars, deviceVars, storeVars, savedVars
  <2>2. \A key \in Keys : Fresh(key)' => Fresh(key)
    BY <2>1 DEF Fresh
  <2> QED
    BY <2>1, <2>2, SilentCounts
<1> QED
  BY <1>1, <1>2, <1>3, <1>4, <1>5, <1>6, PingTimeoutCounts, CaseEstablishedCounts,
     RestartCounts DEF Next

-----------------------------------------------------------------------------
(* All parts at the start, and after each step. *)
LEMMA NextIdInv ==
  ASSUME KeyInv, IdInv, [Next]_vars
  PROVE  IdInv'
<1>1. ASSUME UNCHANGED <<sessionCounter, kept, attempts, bound>>,
             \A d \in Devices : pending'[d] = pending[d] \/ pending'[d] = None,
             \A s \in Ids : table'[s] # None => table[s] # None /\ table'[s].node = table[s].node,
             file' = file \/ file' = Current
      PROVE  IdInv'
  <2>1. \A d \in Devices : kept'[d] # None => kept'[d].id \in Ids /\ Has(kept[d], kept'[d].id)
    BY <1>1 DEF KeyInv, TypeOK, Kept, Has
  <2> QED
    BY <1>1, <2>1, IdsStay
<1>2. ASSUME NEW ss \in SUBSET Ids, \A s \in ss : table[s] # None,
             Transmit(table, ss), UNCHANGED lapsed
      PROVE  \A s \in Ids : table'[s] # None => table[s] # None /\ table'[s].node = table[s].node
  BY <1>2, Talking
<1>3. ASSUME NEW d \in Devices, CaseFailed(d)
      PROVE  IdInv'
  <2>1. /\ pending' = [pending EXCEPT ![d] = None]
        /\ UNCHANGED <<sessionCounter, table, kept, attempts, bound, file>>
    BY <1>3 DEF CaseFailed, deviceVars, storeVars, savedVars
  <2>2. \A c \in Devices : pending'[c] = pending[c] \/ pending'[c] = None
    BY <2>1 DEF KeyInv, TypeOK
  <2> QED
    BY <1>1, <2>1, <2>2
<1>4. ASSUME NEW d \in Devices, SessionLost(d)
      PROVE  IdInv'
  <2>1. /\ table' = [s \in Ids |-> IF s \in SessionOf(d) THEN None ELSE table[s]]
        /\ UNCHANGED <<sessionCounter, pending, kept, attempts, bound, file>>
    BY <1>4 DEF SessionLost, storeVars, savedVars
  <2>2. \A s \in Ids : table'[s] # None => table[s] # None /\ table'[s].node = table[s].node
    BY <2>1
  <2> QED
    BY <1>1, <2>1, <2>2
<1>5. ASSUME NEW d \in Devices, Send(d) \/ Rediscover(d) \/ PartsList(d)
      PROVE  IdInv'
  <2>1. /\ Transmit(table, SessionOf(d))
        /\ UNCHANGED <<sessionCounter, pending, kept, attempts, bound, file, lapsed>>
    BY <1>5 DEF Send, Rediscover, PartsList, Store, deviceVars, storeVars, savedVars
  <2>2. \A s \in Ids : table'[s] # None => table[s] # None /\ table'[s].node = table[s].node
    BY <1>2, <2>1, SessionOfFacts
  <2> QED
    BY <1>1, <2>1, <2>2
<1>6. ASSUME NEW d \in Devices, Heard(d)
      PROVE  IdInv'
  <2>1. UNCHANGED <<sessionCounter, pending, table, kept, attempts, bound, file>>
    BY <1>6 DEF Heard, storeVars, savedVars
  <2> QED
    BY <1>1, <2>1
<1>7. ASSUME NEW silent \in SUBSET Devices, PingTimeout(silent)
      PROVE  IdInv'
  <2> DEFINE counted == {d \in online : SessionOf(d) # {}}
             counterOf(d) == table[CHOOSE s \in SessionOf(d) : TRUE].counter
  <2>1. /\ kept' = [d \in Devices |-> IF d \in counted /\ kept[d] # None
                                      THEN [kept[d] EXCEPT !.counter = counterOf(d)]
                                      ELSE kept[d]]
        /\ UNCHANGED <<sessionCounter, pending, table, attempts, bound, file>>
    BY <1>7 DEF PingTimeout, storeVars, savedVars
  <2> HIDE DEF counted, counterOf
  <2>2. \A d \in Devices : kept'[d] # None => kept'[d].id \in Ids /\ Has(kept[d], kept'[d].id)
    <3> SUFFICES ASSUME NEW d \in Devices, kept'[d] # None
                 PROVE  kept'[d].id \in Ids /\ Has(kept[d], kept'[d].id)
      OBVIOUS
    <3>1. CASE d \in counted /\ kept[d] # None
      <4>1. kept[d] \in Kept /\ kept'[d] = [kept[d] EXCEPT !.counter = counterOf(d)]
        BY <2>1, <3>1 DEF KeyInv, TypeOK
      <4>2. kept'[d].id = kept[d].id
        BY <4>1 DEF Kept
      <4> QED
        BY <3>1, <4>1, <4>2 DEF Kept, Has
    <3>2. CASE ~(d \in counted /\ kept[d] # None)
      <4>1. kept'[d] = kept[d]
        BY <2>1, <3>2
      <4> QED
        BY <4>1 DEF KeyInv, TypeOK, Kept, Has
    <3> QED
      BY <3>1, <3>2
  <2> QED
    BY <2>1, <2>2, IdsStay
<1>8. ASSUME NEW d \in Devices, SessionOf(d) \ {0} # {}, Transmit(table, SessionOf(d)),
             \/ UNCHANGED kept
             \/ Finalize(d),
             UNCHANGED <<sessionCounter, pending, attempts, bound, file, lapsed>>
      PROVE  IdInv'
  <2> DEFINE s == CHOOSE s \in SessionOf(d) : TRUE
  <2>1. s \in SessionOf(d)
    BY <1>8
  <2>2. s \in Ids /\ table[s] # None /\ table[s].node = d
    BY <2>1 DEF SessionOf
  <2>3. \A c \in Devices : kept'[c] = kept[c] \/ (c = d /\ kept'[c] = Copy(table, s, 0))
    <3>1. DOMAIN kept = Devices
      BY DEF KeyInv, TypeOK
    <3>2. CASE UNCHANGED kept
      BY <3>2
    <3>3. CASE Finalize(d)
      BY <3>1, <3>3 DEF Finalize
    <3> QED
      BY <1>8, <3>2, <3>3
  <2> HIDE DEF s
  <2>4. Copy(table, s, 0).id = s
    BY DEF Copy
  <2>5. \A c \in Devices : kept'[c] # None =>
          /\ kept'[c].id \in Ids
          /\ Has(kept[c], kept'[c].id) \/ (table[kept'[c].id] # None /\ table[kept'[c].id].node = c)
    BY <2>2, <2>3, <2>4 DEF KeyInv, TypeOK, Kept, Has
  <2>6. \A r \in Ids : table'[r] # None => table[r] # None /\ table'[r].node = table[r].node
    BY <1>2, <1>8, SessionOfFacts
  <2> QED
    BY <1>8, <2>5, <2>6, IdsStay
<1>9. ASSUME NEW d \in Devices, NEW more \in BOOLEAN, ServerLists(d, more)
      PROVE  IdInv'
  <2>1. /\ SessionOf(d) \ {0} # {} /\ Transmit(table, SessionOf(d))
        /\ UNCHANGED kept \/ Finalize(d)
        /\ UNCHANGED <<sessionCounter, pending, attempts, bound, file, lapsed>>
    BY <1>9 DEF ServerLists, Finalize, Store, storeVars, savedVars
  <2> QED
    BY <1>8, <2>1
<1>10. ASSUME NEW d \in Devices, Details(d)
       PROVE  IdInv'
  <2>1. /\ SessionOf(d) \ {0} # {} /\ Transmit(table, SessionOf(d)) /\ Finalize(d)
        /\ UNCHANGED <<sessionCounter, pending, attempts, bound, file, lapsed>>
    BY <1>10 DEF Details, Finalize, Store
  <2> QED
    BY <1>8, <2>1
<1>11. ASSUME (\E s \in BOOLEAN : RequestStore(s)) \/ (\E ok \in BOOLEAN : WriteDatabase(ok))
       PROVE  IdInv'
  <2>1. /\ file' = file \/ file' = Current
        /\ UNCHANGED <<sessionCounter, pending, table, kept, attempts, bound>>
    BY <1>11 DEF RequestStore, WriteDatabase, Store, deviceVars
  <2> QED
    BY <1>1, <2>1
<1>12. CASE UNCHANGED vars
  <2>1. UNCHANGED <<sessionCounter, pending, table, kept, attempts, bound, file>>
    BY <1>12 DEF vars, deviceVars, storeVars, savedVars
  <2> QED
    BY <1>1, <2>1
<1>13. CASE Next
  BY <1>3, <1>4, <1>5, <1>6, <1>7, <1>9, <1>10, <1>11, <1>13, StartCASEIds, CaseEstablishedIds,
     RestartIds DEF Next
<1> QED
  BY <1>12, <1>13

(* IInv holds always: a session, a key and a device belong together in the   *)
(* table, in the device objects and in the file, and so do the ids as long   *)
(* as m_sessionCounter has not come round; and what was sent under a key is  *)
(* within what the counter kept beside it and its messages since allow.      *)
THEOREM Invariant == Spec => []IInv
<1>1. KeyInv /\ IdInv /\ CountInv /\ [Next]_vars => KeyInv' /\ IdInv' /\ CountInv'
  BY NextKeyInv, NextIdInv, NextCountInv
<1>2. KeyInv /\ IdInv /\ CountInv <=> IInv
  BY DEF IInv
<1> QED
  BY InitKeyInv, InitIdInv, InitCountInv, <1>1, <1>2, PTL DEF Spec

(* No counter is used twice under a key over any number of starts and        *)
(* crashes (matter.cpp:95), if at each start at most Margin messages were    *)
(* sent since the counter it reads was copied.  Lapses names the other keys  *)
(* that are excepted: those restored twice from one counter, and those of    *)
(* which pingTimeout saved the counter of another session.                   *)
THEOREM MarginAlwaysSuffices == Spec => []MarginSuffices
<1>1. IInv => MarginSuffices
  BY DEF IInv, KeyInv
<1> QED
  BY Invariant, <1>1, PTL

(* The session kept for the database is the one in use, but for a device     *)
(* that is rediscovered (matter.cpp:1407).                                   *)
THEOREM AlwaysCapturesActive == Spec => []CapturesActive
<1>1. IInv => CapturesActive
  BY DEF IInv, KeyInv
<1> QED
  BY Invariant, <1>1, PTL

(* No two devices ever share an id, whether of an attempt, of a session or   *)
(* kept for the next start, until as many ids were taken as the 16 bits of   *)
(* m_sessionCounter hold (matter.cpp:107), where no device is rediscovered.  *)
THEOREM IdsStayApart == Spec => [](Unwrapped => IdsApart)
<1>1. IInv => (Unwrapped => IdsApart)
  BY DEF IInv, IdInv
<1> QED
  BY Invariant, <1>1, PTL

=============================================================================
