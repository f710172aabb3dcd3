------------------------------ MODULE Consumer ------------------------------
(***************************************************************************)
(* What the user of MQTT sees of a device and does to it: the requests of  *)
(* action.cpp, the values that property.cpp takes from the reports of      *)
(* attributes and the actions it makes of the events of a switch, which    *)
(* events are subscribed to, and what endpointUpdated publishes.           *)
(*                                                                         *)
(* Abstractions.  A report comes in the order it was made, once, over a    *)
(* primed subscription (module Discovery); commands likewise.  Colours are *)
(* left out, and so are the sensors, which only divide what they get.      *)
(***************************************************************************)
EXTENDS Naturals, Sequences, SequencesExt

CONSTANTS
  Endpoints,    \* endpoints of the device
  Arrangements, \* what they may be: of each its values, its Switch features
                \* and the most presses it counts
  WantedLevels, \* bound: levels a user asks for
  MaxWishes,    \* bound: commands, and changes by hand
  MaxGestures,  \* bound: gestures at switches
  Unset         \* no value

(* What a property can say in words. *)
Words == {"on", "off", "toggle", "previous", "latched", "start", "stop", "hold", "release",
          "singleClick", "doubleClick", "tripleClick", "multipleClick"}

ASSUME ConsumerAssumption ==
  /\ IsFiniteSet(Endpoints)
  /\ \A a \in Arrangements : DOMAIN a = Endpoints /\ \A e \in Endpoints : a[e].presses \in Nat
  /\ Unset \notin Nat \cup BOOLEAN \cup Words
  /\ WantedLevels \subseteq 0..255
  /\ {MaxWishes, MaxGestures} \subseteq Nat

Names == {"status", "level", "colorTemperature", "lock", "position", "powerOnStatus",
          "action", "count"}

VARIABLES
  kind,       \* EndpointObject: its properties, actions and meta
  value,      \* PropertyObject::m_value
  latest,     \* MQTT: the last value published
  actions,    \* MQTT: actions published, with the count that comes along
  attribute,  \* device: its attributes
  commands,   \* on the way to the device
  reports,    \* on the way from it: attributes and events
  wishes,     \* bound
  asked,      \* history: what the last command the device did was meant to do
  gestures    \* history: gestures at the device, in order

consumerVars == <<kind, value, latest, actions, attribute, commands, reports, wishes,
                  asked, gestures>>
mqttVars == <<value, latest, actions>>

-----------------------------------------------------------------------------
(* ...::request of the actions: what the device is told.                     *)
Told(name, v) ==
  CASE name = "status" ->
         (CASE v = "on" -> "On" [] v = "toggle" -> "Toggle" [] OTHER -> "Off")
    [] name = "level" -> ((v * 254) \div 255) % 256
    [] name = "lock" -> IF v = "lock" THEN 1 ELSE 2
    [] name = "powerOnStatus" ->
         (CASE v = "off" -> 0 [] v = "on" -> 1 [] v = "toggle" -> 2 [] OTHER -> Unset)
    [] name \in {"colorTemperature", "position"} -> v % 65536

(* ...::parseAttribute of the properties. *)
Parsed(name, v) ==
  CASE name = "status" -> IF v THEN "on" ELSE "off"
    [] name = "level" -> IF v > 254 THEN 255 ELSE (v * 255) \div 254
    [] name = "lock" -> v = 1
    [] name = "position" -> v \div 100
    [] name = "powerOnStatus" ->
         (CASE v = 0 -> "off" [] v = 1 -> "on" [] v = 2 -> "toggle" [] v = Unset -> "previous")
    [] name = "colorTemperature" -> v

Encoder(k) == "MSM" \in k.features /\ "MSL" \notin k.features /\ k.presses > 5

(* buildSubscribeEvents *)
Subscribed(k) ==
  (IF "LS" \in k.features THEN {"SwitchLatched"} ELSE {}) \cup
  (IF Encoder(k) THEN {"InitialPress"} ELSE {}) \cup
  (IF "MSR" \in k.features /\ "MSM" \notin k.features THEN {"ShortRelease"} ELSE {}) \cup
  (IF "MSL" \in k.features THEN {"LongPress", "LongRelease"} ELSE {}) \cup
  (IF "MSM" \in k.features THEN {"MultiPressComplete"} ELSE {})

Click(presses) ==
  CASE presses = 1 -> "singleClick" [] presses = 2 -> "doubleClick"
    [] presses = 3 -> "tripleClick" [] OTHER -> "multipleClick"

(* SwitchAction::parseEvent, of an action that was v. *)
ActionOf(k, event, v) ==
  CASE event.type = "SwitchLatched" -> "latched"
    [] event.type = "InitialPress" -> IF Encoder(k) THEN "start" ELSE v
    [] event.type = "ShortRelease" -> IF "MSM" \in k.features THEN v ELSE "singleClick"
    [] event.type = "LongPress" -> "hold"
    [] event.type = "LongRelease" -> "release"
    [] event.type = "MultiPressComplete" ->
         IF Encoder(k) THEN "stop" ELSE IF event.presses = 0 THEN v ELSE Click(event.presses)

(* SwitchCount::parseEvent, which only encoders have. *)
CountOf(k, event, v) ==
  IF Encoder(k) /\ event.type = "MultiPressComplete" /\ event.presses > 0
  THEN event.presses ELSE v

(* buildSubscribePaths: of the values, which the device tells of.  There is  *)
(* no path for the state of a lock nor for the position of a cover.          *)
SubscribedValues == {"status", "level", "colorTemperature", "powerOnStatus"}

(* setupEndpoint: the actions an endpoint is said to have. *)
Offered(k) ==
  (IF "LS" \in k.features THEN {"latched"} ELSE {}) \cup
  (IF Encoder(k) THEN {"start", "stop"}
   ELSE IF "MSM" \in k.features
   THEN {Click(n) : n \in 1..(IF k.presses = 0 THEN 1 ELSE k.presses)}
   ELSE IF "MSR" \in k.features THEN {"singleClick"} ELSE {}) \cup
  (IF "MSL" \in k.features THEN {"hold", "release"} ELSE {})

(* setupEndpoint: the properties of an endpoint. *)
NamesOf(k) ==
  k.values \cup (IF k.features = {} THEN {} ELSE {"action"})
           \cup (IF Encoder(k) THEN {"count"} ELSE {})

(* updateMultiple: an endpoint that shares a name of its own with another.   *)
Multiple(e) ==
  \E x \in Endpoints \ {e} : NamesOf(kind[e]) \cap NamesOf(kind[x]) # {}

-----------------------------------------------------------------------------
(* Mutant of Cleared: the action stays. *)
ClearedNone(values, es) == values
(* What is left of the values once those of some endpoints are out. *)
Cleared(values, es) ==
  [e \in Endpoints |-> IF e \in es THEN [values[e] EXCEPT !["action"] = Unset] ELSE values[e]]

(* endpointUpdated: the values of this endpoint, and those of any other that *)
(* shares no name, so that no two of the actions go out together.            *)
EndpointUpdated(now, e) ==
  LET es == {x \in Endpoints : Multiple(x) => x = e}
      acting == {x \in es : now.value[x]["action"] # Unset}
  IN [value |-> Cleared(now.value, es),
      latest |-> [x \in Endpoints |-> [name \in Names |->
                    IF x \in es /\ now.value[x][name] # Unset
                    THEN now.value[x][name] ELSE now.latest[x][name]]],
      actions |-> now.actions \o
        SetToSeq({[endpoint |-> x, action |-> now.value[x]["action"],
                   count |-> now.value[x]["count"]] : x \in acting})]

(* One report of an attribute or an event, and updateEndpoint. *)
Handle(now, r) ==
  LET e == r.endpoint
      old == now.value[e]
      new == IF r.name = "event"
             THEN [old EXCEPT !["action"] = ActionOf(kind[e], r.value, @),
                              !["count"] = CountOf(kind[e], r.value, @)]
             ELSE [old EXCEPT ![r.name] = Parsed(r.name, r.value)]
  IN EndpointUpdated([now EXCEPT !.value[e] = new], e)

(* Handle with each of some reports that is of one of these names, in turn.  *)
Handled(now, some, names) ==
  LET after[i \in 0..Len(some)] ==
        IF i = 0 THEN now
        ELSE IF some[i].name \in names THEN Handle(after[i - 1], some[i]) ELSE after[i - 1]
  IN after[Len(some)]

(* EndpointUpdated with each endpoint in turn.                               *)
Refreshed(now) ==
  LET es == SetToSeq(Endpoints)
      after[i \in 0..Len(es)] == IF i = 0 THEN now ELSE EndpointUpdated(after[i - 1], es[i])
  IN after[Len(es)]

Now == [value |-> value, latest |-> latest, actions |-> actions]
Becomes(now) ==
  /\ value' = now.value
  /\ latest' = now.latest
  /\ actions' = now.actions

Report(e, name, v) == [endpoint |-> e, name |-> name, value |-> v]

-----------------------------------------------------------------------------
FirstValue(name) ==
  CASE name = "status" -> FALSE [] name = "powerOnStatus" -> Unset [] OTHER -> 0

ConsumerInit ==
  /\ kind \in Arrangements
  /\ value = [e \in Endpoints |-> [name \in Names |-> Unset]]
  /\ latest = value
  /\ actions = <<>>
  /\ attribute = [e \in Endpoints |-> [name \in Names |-> FirstValue(name)]]
  /\ commands = <<>>
  /\ reports = <<>>
  /\ wishes = 0
  /\ asked = value
  /\ gestures = <<>>

(* What a user may ask for. *)
Wanted(name) ==
  CASE name = "status" -> {"on", "off", "toggle"}
    [] name = "level" -> WantedLevels
    [] name = "lock" -> {"lock", "unlock"}
    [] name = "position" -> {0, 50, 100}
    [] name = "powerOnStatus" -> {"off", "on", "toggle", "previous"}
    [] name = "colorTemperature" -> {153, 65535}

(* deviceAction and sendCommand: to one endpoint, or to each that can.      *)
DeviceAction(es, name, v) ==
  LET able == {e \in es : name \in kind[e].values}
  IN
  /\ able # {}
  /\ wishes < MaxWishes
  /\ wishes' = wishes + 1
  /\ commands' = commands \o
       SetToSeq({[endpoint |-> e, name |-> name, told |-> Told(name, v), value |-> v] : e \in able})
  /\ UNCHANGED <<kind, mqttVars, attribute, reports, asked, gestures>>

(* A report with the first n of what the device has to say: the attributes   *)
(* in it come first.                                                         *)
HandleReport(n) ==
  LET some == SubSeq(reports, 1, n)
  IN
  /\ n <= Len(reports)
  /\ reports' = SubSeq(reports, n + 1, Len(reports))
  /\ Becomes(Handled(Handled(Now, some, Names), some, {"event"}))
  /\ UNCHANGED <<kind, attribute, commands, wishes, asked, gestures>>

(* updateProperties after publishExposes or by Home Assistant, and           *)
(* getProperties: every endpoint, whether or not anything has happened.      *)
UpdateProperties ==
  /\ Becomes(Refreshed(Now))
  /\ UNCHANGED <<kind, attribute, commands, reports, wishes, asked, gestures>>

-----------------------------------------------------------------------------
(* A device does as it is told.  What it has become it says if it is asked   *)
(* to (Says), which nothing but the subscription does.                    *)
Becoming(e, name, told) ==
  CASE name = "status" -> IF told = "Toggle" THEN ~attribute[e][name] ELSE told = "On"
    [] name = "level" -> IF told > 254 THEN 254 ELSE told
    [] name = "position" -> IF told > 10000 THEN attribute[e][name] ELSE told
    [] OTHER -> told
Meant(e, name, v) ==
  IF name = "status" /\ v = "toggle" THEN IF attribute[e][name] THEN "off" ELSE "on" ELSE v

Says(e, name, v) ==
  reports' = IF name \in SubscribedValues THEN Append(reports, Report(e, name, v)) ELSE reports

DeviceDoes ==
  LET c == Head(commands)
      v == Becoming(c.endpoint, c.name, c.told)
  IN
  /\ commands # <<>>
  /\ commands' = Tail(commands)
  /\ attribute' = [attribute EXCEPT ![c.endpoint][c.name] = v]
  /\ Says(c.endpoint, c.name, v)
  /\ asked' = [asked EXCEPT ![c.endpoint][c.name] = Meant(c.endpoint, c.name, c.value)]
  /\ UNCHANGED <<kind, mqttVars, wishes, gestures>>

(* Someone switches it by hand, or turns the lock. *)
ByHand(e, name) ==
  /\ name \in kind[e].values \cap {"status", "lock"}
  /\ wishes < MaxWishes
  /\ wishes' = wishes + 1
  /\ LET v == IF name = "status" THEN ~attribute[e][name] ELSE 1
     IN /\ attribute' = [attribute EXCEPT ![e][name] = v]
        /\ Says(e, name, v)
  /\ asked' = [asked EXCEPT ![e][name] = Unset]
  /\ UNCHANGED <<kind, mqttVars, commands, gestures>>

(* The events of a gesture, by the features that a switch has. *)
Events(k, g) ==
  LET sent(type) ==
        IF type \in Subscribed(k) THEN <<[type |-> type, presses |-> g.presses]>> ELSE <<>>
  IN CASE g.type = "latch" -> sent("SwitchLatched")
       [] g.type = "long" -> sent("InitialPress") \o sent("LongPress") \o sent("LongRelease")
       [] OTHER -> sent("InitialPress") \o sent("ShortRelease") \o sent("MultiPressComplete")

Gestures(k) ==
  (IF "LS" \in k.features THEN {[type |-> "latch", presses |-> 0]} ELSE {}) \cup
  (IF "MSL" \in k.features THEN {[type |-> "long", presses |-> 0]} ELSE {}) \cup
  (IF "MS" \in k.features
   THEN {[type |-> "press", presses |-> n] : n \in 1..(IF k.presses = 0 THEN 1 ELSE k.presses)}
   ELSE {})

Gesture(e, g) ==
  LET events == Events(kind[e], g)
  IN
  /\ Len(gestures) < MaxGestures
  /\ gestures' = Append(gestures, [endpoint |-> e, gesture |-> g])
  /\ reports' = reports \o [i \in DOMAIN events |-> Report(e, "event", events[i])]
  /\ UNCHANGED <<kind, mqttVars, attribute, commands, wishes, asked>>

ConsumerNext ==
  \/ \E name \in Names \ {"action", "count"} :
       \/ \E v \in Wanted(name), es \in {Endpoints} \cup {{e} : e \in Endpoints} :
            DeviceAction(es, name, v)
       \/ \E e \in Endpoints : ByHand(e, name)
  \/ \E n \in 1..3 : HandleReport(n)
  \/ UpdateProperties
  \/ DeviceDoes
  \/ \E e \in Endpoints : \E g \in Gestures(kind[e]) : Gesture(e, g)

ConsumerSpec == ConsumerInit /\ [][ConsumerNext]_consumerVars

-----------------------------------------------------------------------------
(* What a gesture is to the user, with the count where one belongs to it.    *)
Meaning(h) ==
  LET k == kind[h.endpoint]
      one(action, count) == [endpoint |-> h.endpoint, action |-> action, count |-> count]
  IN CASE h.gesture.type = "latch" -> <<one("latched", Unset)>>
       [] h.gesture.type = "long" -> <<one("hold", Unset), one("release", Unset)>>
       [] h.gesture.type = "press" /\ Encoder(k) ->
            <<one("start", Unset), one("stop", h.gesture.presses)>>
       [] h.gesture.type = "press" /\ ~Encoder(k) /\ "MSM" \in k.features ->
            <<one(Click(h.gesture.presses), Unset)>>
       [] OTHER -> IF "MSR" \in k.features THEN <<one("singleClick", Unset)>> ELSE <<>>

SameAction(x, y) ==
  /\ x.endpoint = y.endpoint /\ x.action = y.action
  /\ y.count # Unset => x.count = y.count

(* Each gesture comes to the user once, in order, as one of the actions its  *)
(* endpoint was said to have, whichever reports and refreshes come between.  *)
GesturesShown ==
  LET meant == FlattenSeq([i \in DOMAIN gestures |-> Meaning(gestures[i])])
  IN
  /\ Len(actions) <= Len(meant)
  /\ \A i \in DOMAIN actions : SameAction(actions[i], meant[i])
  /\ reports = <<>> => Len(actions) = Len(meant)
  /\ \A i \in DOMAIN actions : actions[i].action \in Offered(kind[actions[i].endpoint])

Quiet == commands = <<>> /\ reports = <<>>

Near(a, b) == a <= b + 1 /\ b <= a + 1
AsAsked(name, v, w) == IF name = "level" THEN Near(v, w) ELSE v = w

(* When all is quiet the user is shown what the last command asked for, of    *)
(* each value that is subscribed to; a level to the step, as its two scales   *)
(* round down.  The lock and the position are never shown.                    *)
ValuesShown ==
  Quiet => \A e \in Endpoints, name \in SubscribedValues :
             asked[e][name] # Unset => AsAsked(name, latest[e][name], asked[e][name])

(* "scale to 0..100 to match what Actions::CoverPosition accepts on the way   *)
(* down" (CoverPosition::parseAttribute): the position of a device that did   *)
(* as it was told would be read as the one that was asked for.  The request   *)
(* sends that number as hundredths of a percent.                              *)
PositionScale ==
  \A e \in Endpoints :
    asked[e]["position"] # Unset =>
      Parsed("position", attribute[e]["position"]) = asked[e]["position"]

(* What the user does reaches the device and comes back, and what is done at *)
(* the device reaches the user: gestures once, and the values that are       *)
(* subscribed to as they were asked for.                                     *)
UserRight == GesturesShown /\ ValuesShown
=============================================================================
