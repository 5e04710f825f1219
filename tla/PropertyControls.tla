-------------------------- MODULE PropertyControls --------------------------
(***************************************************************************)
(* A property of a thing on the thing's page.  Its detail (schema-impl/    *)
(* property) holds an element (components/property) the user reads and     *)
(* changes; the page's Thing and the ThingModel are between them and the   *)
(* gateway: a choice of the user becomes a PUT, after half a second for    *)
(* most details; propertyStatus messages, the answers to PUTs and the      *)
(* values asked for at each `connected` message come back and are shown.   *)
(* Values are small numbers, and 0 and 1 for a switch.  What the gateway   *)
(* sends arrives in order.                                                 *)
(***************************************************************************)
EXTENDS Naturals, Sequences, FiniteSets

CONSTANTS Least, Most, Multiple,   \* minimum, maximum, multipleOf of the property
          None,                    \* no value
          MaxChoices,              \* bound: choices of the user
          MaxChanges,              \* bound: changes of the device by itself
          MaxLosses,               \* bound: losses of the socket
          MaxVisits                \* bound: times the page is opened

ControlsAssumption ==
  /\ {Least, Most} \subseteq Nat /\ Least <= Most /\ Multiple \in Nat \ {0}
  /\ None \notin Nat

VARIABLES detail,        \* the detail of the property
          device,        \* its value
          ws,            \* the socket of things is open
          line,          \* what the gateway sent, not yet heard
          requests,      \* what the page asked, not yet served
          known,         \* ThingModel.properties
          open,          \* the thing's page is open
          shown,         \* what its element shows
          timer,         \* the debounced `set` is due
          left,          \* what an element of a page left shows, its `set` still due
          failed,        \* a PUT failed, and nothing was shown since
          strayed,       \* history: the device took another value than the PUT that was
                         \* answered last, and its value has not been sent since
          choices, changes, losses, visits

vars == <<detail, device, ws, line, requests, known, open, shown, timer, left, failed, strayed,
          choices, changes, losses, visits>>

Value == 0 .. Most + Multiple

-----------------------------------------------------------------------------
(* The details: their element, and whether `set` is debounced.             *)

NumberDetail           == [element |-> "number", debounced |-> TRUE]
LevelDetail            == [element |-> "level", debounced |-> TRUE]
BrightnessDetail       == [element |-> "slider", debounced |-> TRUE]
ColorTemperatureDetail == [element |-> "level", debounced |-> FALSE]
OnOffDetail            == [element |-> "switch", debounced |-> TRUE]
BooleanDetail          == [element |-> "checkbox", debounced |-> TRUE]
AlarmDetail            == [element |-> "checkbox", debounced |-> TRUE]
EnumDetail             == [element |-> "enum", debounced |-> TRUE]
ColorModeDetail        == [element |-> "enum", debounced |-> TRUE]
StringDetail           == [element |-> "text", debounced |-> FALSE]
ColorDetail            == [element |-> "color", debounced |-> FALSE]
NumericLabelDetail     == [element |-> "label", debounced |-> FALSE]
StringLabelDetail      == [element |-> "words", debounced |-> FALSE]

\* Numbers that are entered or measured.
TargetTemperatureDetail == NumberDetail
ThermostatModeDetail    == EnumDetail
CurrentDetail            == NumericLabelDetail
VoltageDetail            == NumericLabelDetail
FrequencyDetail          == NumericLabelDetail
InstantaneousPowerDetail == NumericLabelDetail
InstantaneousPowerFactorDetail == NumericLabelDetail
TemperatureDetail        == NumericLabelDetail

\* States that are shown in words: one word per value, or one for what is true and one for
\* what is not.
HeatingCoolingDetail == StringLabelDetail
LockedDetail         == StringLabelDetail
TwoWords == [element |-> "state", debounced |-> FALSE]
LeakDetail     == TwoWords
MotionDetail   == TwoWords
OccupiedDetail == TwoWords
OpenDetail     == TwoWords
PushedDetail   == TwoWords
SmokeDetail    == TwoWords

\* Which of them a property gets, by its @type, its name and its type.
Details == {NumberDetail, LevelDetail, BrightnessDetail, ColorTemperatureDetail,
            OnOffDetail, BooleanDetail, AlarmDetail, EnumDetail, ColorModeDetail,
            StringDetail, ColorDetail, NumericLabelDetail, StringLabelDetail,
            TargetTemperatureDetail, ThermostatModeDetail, CurrentDetail, VoltageDetail,
            FrequencyDetail, InstantaneousPowerDetail, InstantaneousPowerFactorDetail,
            TemperatureDetail, HeatingCoolingDetail, LockedDetail, LeakDetail, MotionDetail,
            OccupiedDetail, OpenDetail, PushedDetail, SmokeDetail}

Between(v) == IF v < Least THEN Least ELSE IF v > Most THEN Most ELSE v

\* Math.round(v / step) * step
Rounded(v) == ((2 * v + Multiple) \div (2 * Multiple)) * Multiple

\* A range input takes the nearest of its steps, which start at its minimum.
InRange(v) == LET steps == {s \in Least .. Most : (s - Least) % Multiple = 0}
                  off(s) == IF s > v THEN s - v ELSE v - s
              IN CHOOSE s \in steps : \A r \in steps : off(s) < off(r) \/ (off(s) = off(r) /\ s >= r)

\* What each element shows once its value is set, and once the user has
\* changed it (blur, click or change of its inputs).
NumberShows(v) == Rounded(v)
NumberTakes(v) == NumberShows(Between(Rounded(v)))
LevelShows(v) == InRange(v)
LevelTakes(v) == LevelShows(Between(Rounded(v)))
SliderShows(v) == InRange(v)
SwitchShows(v) == IF v = 0 THEN 0 ELSE 1
SwitchToggles == 1 - shown
CheckboxToggles == 1 - shown
EnumShows(v) == v
StringTakes(v) == v
ColorTakes(v) == v
LabelShows(v) == v
WordsShow(v) == v

TwoStates == {"switch", "checkbox", "state"}
Shows(v) == CASE detail.element = "number" -> NumberShows(v)
              [] detail.element = "level" -> LevelShows(v)
              [] detail.element = "slider" -> SliderShows(v)
              [] detail.element \in TwoStates -> SwitchShows(v)
              [] detail.element = "label" -> LabelShows(v)
              [] detail.element = "words" -> WordsShow(v)
              [] OTHER -> EnumShows(v)
Takes(v) == CASE detail.element = "number" -> NumberTakes(v)
              [] detail.element = "level" -> LevelTakes(v)
              [] detail.element = "slider" -> SliderShows(v)
              [] detail.element = "switch" -> SwitchToggles
              [] detail.element = "checkbox" -> CheckboxToggles
              [] detail.element = "text" -> StringTakes(v)
              [] detail.element = "color" -> ColorTakes(v)
              [] OTHER -> EnumShows(v)

\* Values the device may have, and those the user may enter: a number is
\* typed, the other elements offer what is possible.
Possible == IF detail.element \in TwoStates THEN {0, 1} ELSE Least .. Most
Enterable == IF detail.element \in {"number", "level"} THEN Value ELSE Possible

Message == [is : {"status", "done", "failed", "values", "connected"}, value : Value \cup {None}]
Request == [is : {"get", "put"}, value : Value \cup {None}]

\* The device, the line to the page, the page and its element.
TypeOK == /\ detail \in Details /\ device \in Value /\ ws \in BOOLEAN
          /\ line \in Seq(Message) /\ requests \in Seq(Request)
          /\ known \in Value \cup {None} /\ shown \in Value \cup {None}
          /\ open \in BOOLEAN /\ timer \in BOOLEAN /\ failed \in BOOLEAN
          /\ strayed \in BOOLEAN
          /\ left \in Value \cup {None}

\* The gateway tells a page whose socket opens whether the thing is connected.
Greeting == [is |-> "connected", value |-> None]

Init == /\ detail \in Details /\ device \in Possible
        /\ ws = TRUE /\ line = <<Greeting>> /\ requests = <<>>
        /\ known = None /\ open = FALSE /\ shown = None /\ timer = FALSE /\ left = None
        /\ failed = FALSE /\ strayed = FALSE
        /\ choices = 0 /\ changes = 0 /\ losses = 0 /\ visits = 0

-----------------------------------------------------------------------------
(* The gateway and the line.                                               *)

Told(v) == IF ws THEN Append(line, [is |-> "status", value |-> v]) ELSE line

Change == /\ changes < MaxChanges /\ changes' = changes + 1
          /\ \E v \in Possible \ {device} : device' = v /\ line' = Told(v)
          /\ strayed' = (strayed /\ ~ws)
          /\ UNCHANGED <<detail, ws, requests, known, open, shown, timer, left, failed,
                         choices, losses, visits>>

\* A PUT is done by the device, which may take another value than it was given, or fails; a GET
\* is answered. The answer to a PUT has no value: the page takes the one it sent.
Serve == /\ requests # <<>> /\ requests' = Tail(requests)
         /\ LET r == Head(requests)
            IN \/ /\ r.is = "get"
                  /\ line' = Append(line, [is |-> "values", value |-> device])
                  /\ strayed' = FALSE
                  /\ UNCHANGED device
               \/ /\ r.is = "put" /\ device' \in {r.value} \union Possible
                  /\ line' = Append(IF device' = device THEN line ELSE Told(device'),
                                    [is |-> "done", value |-> r.value])
                  /\ strayed' = (device' # r.value)
               \/ /\ r.is = "put"
                  /\ line' = Append(line, [is |-> "failed", value |-> None])
                  /\ UNCHANGED <<device, strayed>>
         /\ UNCHANGED <<detail, ws, known, open, shown, timer, left, failed,
                        choices, changes, losses, visits>>

\* The answers to requests, in their order: what is not lost with the socket.
Answers(s) ==
  LET kept == {i \in DOMAIN s : s[i].is \notin {"status", "connected"}}
      nth(k) == CHOOSE i \in kept : Cardinality({j \in kept : j <= i}) = k
  IN  [k \in 1 .. Cardinality(kept) |-> s[nth(k)]]
Lose == /\ ws /\ losses < MaxLosses /\ losses' = losses + 1
        /\ ws' = FALSE
        /\ line' = Answers(line)
        /\ UNCHANGED <<detail, device, requests, known, open, shown, timer, left, failed,
                       strayed, choices, changes, visits>>
Reopen == /\ ~ws /\ ws' = TRUE
          /\ line' = Append(line, Greeting)
          /\ UNCHANGED <<detail, device, requests, known, open, shown, timer, left, failed,
                         strayed, choices, changes, losses, visits>>

-----------------------------------------------------------------------------
(* The page.                                                               *)

\* BooleanDetail and AlarmDetail leave an element alone that shows the value
\* already; the others set it.
Update(v) == IF detail.element = "checkbox" /\ shown = v THEN shown ELSE Shows(v)

\* onPropertyStatus of the ThingModel and of the Thing.
OnPropertyStatus(v) == /\ known' = v
                       /\ shown' = IF open THEN Update(v) ELSE shown
                       /\ failed' = FALSE

\* A message or an answer: a `connected` thing is asked for its properties.
OnConnected == Append(requests, [is |-> "get", value |-> None])
Hear == /\ line # <<>> /\ line' = Tail(line)
        /\ LET m == Head(line)
           IN \/ /\ m.is \in {"status", "done", "values"} /\ OnPropertyStatus(m.value)
                 /\ UNCHANGED requests
              \/ /\ m.is = "failed" /\ failed' = TRUE
                 /\ UNCHANGED <<known, shown, requests>>
              \/ /\ m.is = "connected" /\ requests' = OnConnected
                 /\ UNCHANGED <<known, shown, failed>>
        /\ UNCHANGED <<detail, device, ws, open, timer, left, strayed,
                       choices, changes, losses, visits>>

\* The page is opened: its Thing subscribes and is told what is known.
\* Faulty: it is told of what comes next only.
FaultyOpen == /\ ~open /\ visits < MaxVisits /\ visits' = visits + 1
              /\ open' = TRUE /\ failed' = FALSE /\ shown' = Shows(0)
              /\ UNCHANGED <<detail, device, ws, line, requests, known, timer, left, strayed,
                             choices, changes, losses>>
Open == /\ ~open /\ visits < MaxVisits /\ visits' = visits + 1
        /\ open' = TRUE /\ failed' = FALSE
        /\ shown' = IF known = None THEN Shows(0) ELSE Shows(known)
        /\ UNCHANGED <<detail, device, ws, line, requests, known, timer, left, strayed,
                       choices, changes, losses>>

\* It is left: the debounced `set` of its element stays due.
Close == /\ open /\ left = None
         /\ open' = FALSE /\ timer' = FALSE
         /\ left' = IF timer THEN shown ELSE None
         /\ UNCHANGED <<detail, device, ws, line, requests, known, shown, failed, strayed,
                        choices, changes, losses, visits>>

\* The user changes the element.
Choose == /\ open /\ detail.element \notin {"label", "words", "state"}
          /\ choices < MaxChoices /\ choices' = choices + 1
          /\ \E v \in Enterable :
               /\ shown' = Takes(v)
               /\ IF detail.debounced
                  THEN timer' = TRUE /\ UNCHANGED requests
                  ELSE /\ requests' = Append(requests, [is |-> "put", value |-> Takes(v)])
                       /\ UNCHANGED timer
          /\ UNCHANGED <<detail, device, ws, line, known, open, left, failed, strayed,
                         changes, losses, visits>>

\* `set` after the debounce: what the element shows by now.
Set == /\ timer /\ timer' = FALSE
       /\ requests' = Append(requests, [is |-> "put", value |-> shown])
       /\ UNCHANGED <<detail, device, ws, line, known, open, shown, left, failed, strayed,
                      choices, changes, losses, visits>>
SetLeft == /\ left # None /\ left' = None
           /\ requests' = Append(requests, [is |-> "put", value |-> left])
           /\ UNCHANGED <<detail, device, ws, line, known, open, shown, timer, failed, strayed,
                          choices, changes, losses, visits>>

Next == \/ Change \/ Serve \/ Lose \/ Reopen
        \/ Hear \/ Open \/ Close \/ Choose \/ Set \/ SetLeft

Spec == Init /\ [][Next]_vars

-----------------------------------------------------------------------------
Quiet == ws /\ line = <<>> /\ requests = <<>> /\ ~timer /\ left = None

\* When everything sent is heard and done, the page knows the value of the
\* device and its element shows it, whatever was chosen, refused, changed or
\* lost before (onPropertyStatus, onConnected); but for a refused choice,
\* which stays on the screen until the next message, and for a device that
\* takes another value than it was given: setProperty shows the value given
\* over the one reported, and it stays until the device is heard of again.
ShowsDevice == Quiet /\ ~strayed => /\ known = device
                                    /\ open /\ ~failed => shown = Shows(device)

=============================================================================
