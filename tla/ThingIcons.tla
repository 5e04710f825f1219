----------------------------- MODULE ThingIcons -----------------------------
(***************************************************************************)
(* The icon of a thing on the pages of things.  The class of the thing's   *)
(* capability (schema-impl/capability) finds the properties its icon       *)
(* (components/capability) is about, by @type or else by name, and passes  *)
(* it their values as they are heard; a click on a switch sends the other  *)
(* state and waits.  An icon is about at most two properties: `on`, which  *)
(* stands for whatever is on or off, open or shut, locked or not, or for a *)
(* colour, and `level`, which stands for a number.                         *)
(***************************************************************************)
EXTENDS Naturals, Sequences

CONSTANTS None,          \* no value yet
          MaxChanges,    \* bound: changes of the thing
          MaxClicks,     \* bound: clicks
          MaxPresses     \* bound: events of a button

IconsAssumption == None \notin {"on", "off", "5", "7"}

VARIABLES kind,          \* the class of the thing
          found,         \* the properties its icon is about
          value,         \* their values
          line,          \* messages and answers on their way to the page
          heard,         \* ThingModel.properties
          icon,          \* what the icon keeps and shows
          sent,          \* the value a click sent, unanswered
          failed,        \* it failed, and nothing was heard of it since
          press,         \* states a pressed button still goes through
          changes, clicks, presses

vars == <<kind, found, value, line, heard, icon, sent, failed, press, changes, clicks, presses>>

Slot == {"on", "level"}
State == {"on", "off"}
Number == {"5", "7"}
Zero == "0"

-----------------------------------------------------------------------------
(* The classes: the icon, the properties found by type, and those looked   *)
(* for by name when none has the type.                                     *)

Class(i, reads, byName) == [icon |-> i, reads |-> reads, byName |-> byName]

OnOffSwitch       == Class("switch", {"on"}, {"on"})
SmartPlug         == Class("plug", Slot, Slot)
MultiLevelSwitch  == Class("levels", Slot, Slot)
Light             == Class("light", Slot, Slot)
Thermostat        == Class("thermostat", Slot, Slot)
ColorControl      == Class("color", Slot, Slot)
BinarySensor      == Class("binary", {"on"}, {"on"})
Alarm             == Class("alarm", {"on"}, {"on"})
DoorSensor        == Class("door", {"on"}, {"on"})
MotionSensor      == Class("motion", {"on"}, {"on"})
OccupancySensor   == Class("occupancy", {"on"}, {"on"})
LeakSensor        == Class("leak", {"on"}, {})
SmokeSensor       == Class("smoke", {"on"}, {})
PushButton        == Class("button", {"on"}, {})
Lock              == Class("lock", {"on"}, {})
MultiLevelSensor  == Class("label", {"level"}, {"level"})
EnergyMonitor     == Class("label", {"level"}, {"level"})
TemperatureSensor == Class("label", {"level"}, {"level"})
HumiditySensor    == Class("label", {"level"}, {})
BarometricPressureSensor == Class("label", {"level"}, {})
AirQualitySensor  == Class("label", {"level"}, {})

Classes == {OnOffSwitch, SmartPlug, MultiLevelSwitch, Light, Thermostat, ColorControl,
            BinarySensor, Alarm, DoorSensor, MotionSensor, OccupancySensor, LeakSensor,
            SmokeSensor, PushButton, Lock, MultiLevelSensor, EnergyMonitor,
            TemperatureSensor, HumiditySensor, BarometricPressureSensor, AirQualitySensor}

\* What the icons of sensors say of their two states.
BinaryWords    == [on |-> "active", off |-> "inactive"]
AlarmWords     == [on |-> "alarm", off |-> "ok"]
DoorWords      == [on |-> "open", off |-> "closed"]
MotionWords    == [on |-> "motion", off |-> "no-motion"]
OccupancyWords == [on |-> "occupied", off |-> "unoccupied"]
LeakWords      == [on |-> "leak", off |-> "dry"]
SmokeWords     == [on |-> "smoke", off |-> "ok"]
SensorWords == [binary |-> BinaryWords, alarm |-> AlarmWords, door |-> DoorWords,
                motion |-> MotionWords, occupancy |-> OccupancyWords,
                leak |-> LeakWords, smoke |-> SmokeWords]
Sensor(k) == k.icon \in DOMAIN SensorWords
Word(k, v) == IF v = None THEN "..." ELSE SensorWords[k.icon][v]

\* findProperties: what the thing has under the type, or under the name.
Find(k, typed, named) == k.reads \cap (typed \cup (named \cap k.byName))

-----------------------------------------------------------------------------
(* The icons.  on, level: what an icon keeps; label, lit: what it shows.   *)

Name(v) == IF v = None THEN "..." ELSE v

\* webthing-on-off-switch-capability: set on
SwitchOn(i, v) == [i EXCEPT !.on = (v = "on"), !.lit = (v = "on"), !.label = Name(v)]

\* webthing-smart-plug-capability: set on, set power
PlugOn(i, v) == [i EXCEPT !.on = (v = "on"), !.lit = (v = "on"),
                          !.label = IF v = "on" /\ "level" \in found THEN i.level ELSE Name(v)]
PlugPower(i, v) == [i EXCEPT !.level = v, !.label = IF i.on THEN v ELSE i.label]

\* webthing-multi-level-switch-capability: set on, which sets the level once
\* more for its label, and set level
LevelsOn(i, v) == [i EXCEPT !.on = (v = "on"), !.lit = (v = "on"),
                            !.label = IF v = "on" THEN i.level ELSE "off"]
LevelsLevel(i, v) == [i EXCEPT !.level = v, !.label = IF i.on THEN v ELSE i.label]

\* webthing-light-capability: set on, set brightness
LightOn(i, v) == [i EXCEPT !.on = (v = "on"), !.lit = (v = "on"),
                           !.label = IF v # "on" THEN "off"
                                     ELSE IF "level" \in found THEN i.level ELSE "on"]
LightBrightness(i, v) == [i EXCEPT !.level = v, !.label = IF i.on THEN v ELSE "off"]

\* The icons of sensors and locks and webthing-push-button-capability.
SensorState(i, v) == [i EXCEPT !.on = (v = "on"), !.lit = (v = "on"), !.label = Word(kind, v)]
LockState(i, v) == [i EXCEPT !.label = Name(v)]
ButtonPushed(i, v) == [i EXCEPT !.on = (v = "on"), !.lit = (v = "on"), !.label = Name(v)]

\* webthing-label-capability, webthing-thermostat-capability and
\* webthing-color-control-capability
LabelLevel(i, v) == [i EXCEPT !.level = v, !.label = v]
ThermostatState(i, v) == [i EXCEPT !.lit = (v = "on")]
ThermostatTemperature(i, v) == [i EXCEPT !.level = v, !.label = v]
ControlColor(i, v) == [i EXCEPT !.label = v]

\* updateProperty of each class
UpdateProperty(i, s, v) ==
    IF s \notin found THEN i
    ELSE CASE kind.icon = "switch" -> SwitchOn(i, v)
           [] kind.icon = "plug" -> IF s = "on" THEN PlugOn(i, v) ELSE PlugPower(i, v)
           [] kind.icon = "levels" -> IF s = "on" THEN LevelsOn(i, v) ELSE LevelsLevel(i, v)
           [] kind.icon = "light" -> IF s = "on" THEN LightOn(i, v) ELSE LightBrightness(i, v)
           [] kind.icon = "thermostat" -> IF s = "on" THEN ThermostatState(i, v)
                                          ELSE ThermostatTemperature(i, v)
           [] kind.icon = "color" -> ControlColor(i, v)
           [] Sensor(kind) -> SensorState(i, v)
           [] kind.icon = "lock" -> LockState(i, v)
           [] kind.icon = "button" -> ButtonPushed(i, v)
           [] OTHER -> LabelLevel(i, v)

\* What an icon shows before it is told anything: connectedCallback.
Fresh(k) == LET set == [on |-> FALSE, level |-> Zero, lit |-> FALSE]
                show(l) == [on |-> set.on, level |-> set.level, lit |-> set.lit, label |-> l]
            IN CASE Sensor(k) \/ k.icon \in {"switch", "plug", "lock"} -> show("...")
                 [] k.icon = "button" -> IF "on" \in found THEN show("...") ELSE show("off")
                 [] k.icon = "light" -> show("off")
                 [] k.icon = "levels" -> [on |-> TRUE, level |-> Zero, lit |-> TRUE, label |-> Zero]
                 [] k.icon = "color" -> show("white")
                 [] OTHER -> show(Zero)

\* The class, its properties and their values, what is on its way, the icon.
TypeOK == /\ kind \in Classes /\ found \subseteq kind.reads
          /\ DOMAIN value = Slot /\ DOMAIN heard = Slot
          /\ icon.on \in BOOLEAN /\ icon.lit \in BOOLEAN
          /\ sent \in State \cup {None} /\ failed \in BOOLEAN
          /\ press \in Seq(State)

Init == /\ kind \in Classes
        /\ \E typed, named \in SUBSET Slot : found = Find(kind, typed, named)
        /\ value \in {[s \in Slot |-> IF s = "on" THEN b ELSE n] : b \in State, n \in Number}
        /\ heard = [s \in Slot |-> None]
        /\ line = <<>> /\ icon = Fresh(kind) /\ sent = None /\ failed = FALSE /\ press = <<>>
        /\ changes = 0 /\ clicks = 0 /\ presses = 0

-----------------------------------------------------------------------------
\* A property of the thing changes: propertyStatus.
Change == /\ changes < MaxChanges /\ changes' = changes + 1
          /\ \E s \in found, v \in State \cup Number :
               /\ v \in (IF s = "on" THEN State ELSE Number) /\ v # value[s]
               /\ value' = [value EXCEPT ![s] = v]
               /\ line' = Append(line, [is |-> "status", of |-> <<s>>, values |-> value'])
          /\ UNCHANGED <<kind, found, heard, icon, sent, failed, press, clicks, presses>>

\* All of them are answered to a GET, in the order of the description.
Fetch == /\ changes < MaxChanges /\ changes' = changes + 1
         /\ \E order \in {<<"on", "level">>, <<"level", "on">>} :
              line' = Append(line, [is |-> "status", of |-> order, values |-> value])
         /\ UNCHANGED <<kind, found, value, heard, icon, sent, failed, press, clicks, presses>>

\* Clicks are for OnOffSwitch and its subclasses; the level switch checks
\* that there is something to switch.
Clickable == kind.icon \in {"switch", "plug", "levels", "light"} /\ "on" \in found

\* handleClick: the icon waits, and the other state is sent.
Click == /\ Clickable /\ sent = None
         /\ clicks < MaxClicks /\ clicks' = clicks + 1
         /\ sent' = IF icon.on THEN "off" ELSE "on"
         /\ icon' = UpdateProperty(icon, "on", None)
         /\ UNCHANGED <<kind, found, value, line, heard, failed, press, changes, presses>>

\* The gateway answers: the device took the state, or it failed.
Serve == /\ sent # None /\ ~\E i \in DOMAIN line : line[i].is # "status"
         /\ \/ /\ value' = [value EXCEPT !["on"] = sent]
               /\ line' = Append(line, [is |-> "done", of |-> <<"on">>, values |-> value'])
            \/ /\ line' = Append(line, [is |-> "failed", of |-> <<>>, values |-> value])
               /\ UNCHANGED value
         /\ UNCHANGED <<kind, found, heard, icon, sent, failed, press, changes, clicks, presses>>

\* onPropertyStatus, of the properties in the order of the message.
Told(i, m) == LET one == UpdateProperty(i, m.of[1], m.values[m.of[1]])
              IN CASE m.of = <<>> -> i
                   [] Len(m.of) = 1 -> one
                   [] OTHER -> UpdateProperty(one, m.of[2], m.values[m.of[2]])
Hear == /\ line # <<>> /\ line' = Tail(line)
        /\ LET m == Head(line)
               about == {m.of[i] : i \in DOMAIN m.of}
           IN /\ icon' = Told(icon, m)
              /\ heard' = [s \in Slot |-> IF s \in about THEN m.values[s] ELSE heard[s]]
              /\ sent' = IF m.is = "status" THEN sent ELSE None
              /\ failed' = CASE m.is = "failed" -> TRUE
                             [] "on" \in about -> FALSE
                             [] OTHER -> failed
        /\ UNCHANGED <<kind, found, value, press, changes, clicks, presses>>

\* A button with no such property shows the presses it hears of: it is
\* pushed, and goes through the rest of the press as its timer fires; a new
\* press takes the timer of the one before.
Rest(how) == IF how = "double" THEN <<"off", "on", "off">> ELSE <<"off">>
Press == /\ kind.icon = "button" /\ "on" \notin found
         /\ presses < MaxPresses /\ presses' = presses + 1
         /\ \E how \in {"single", "double", "long"} : press' = Rest(how)
         /\ icon' = ButtonPushed(icon, "on")
         /\ UNCHANGED <<kind, found, value, line, heard, sent, failed, changes, clicks>>
PressTimer == /\ press # <<>>
              /\ icon' = ButtonPushed(icon, Head(press))
              /\ press' = Tail(press)
              /\ UNCHANGED <<kind, found, value, line, heard, sent, failed,
                             changes, clicks, presses>>

Next == Change \/ Fetch \/ Click \/ Serve \/ Hear \/ Press \/ PressTimer

Spec == Init /\ [][Next]_vars

-----------------------------------------------------------------------------
\* What the icon of a class may show of the values it was told last.
Labels == LET on == IF "on" \in found THEN heard["on"] ELSE None
              level == IF "level" \in found /\ heard["level"] # None THEN heard["level"] ELSE Zero
          IN CASE kind.icon = "plug" -> {IF on = "on" /\ "level" \in found THEN level ELSE Name(on)}
               [] kind.icon = "levels" -> {IF on = "off" THEN "off" ELSE level}
               [] kind.icon = "light" -> {CASE on # "on" -> "off"
                                            [] on = "on" /\ "level" \in found -> level
                                            [] OTHER -> "on"}
               [] kind.icon = "color" -> {heard[s] : s \in found} \cup {"white"}
               [] kind.icon = "button" /\ "on" \notin found -> {"off"}
               [] kind.icon \in {"label", "thermostat"} -> {level}
               [] Sensor(kind) -> {Word(kind, on)}
               [] OTHER -> {Name(on)}

\* Once a click is answered and a press is over, the icon shows the values
\* heard last, in whatever order they came (the setters of the icons, each of
\* which shows several of their values); a refused click leaves it waiting.
IconFollows == sent = None /\ ~failed /\ press = <<>> => icon.label \in Labels
=============================================================================
