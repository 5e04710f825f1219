---------------------------- MODULE RuleReaction ----------------------------
(***************************************************************************)
(* What a rule does: its triggers, alone or under a MultiTrigger, and its  *)
(* SetEffect or PulseEffect.                                               *)
(*                                                                         *)
(* Reading a property and sending a command take no more than promises     *)
(* that are already resolved, so a step is a message or an event of the    *)
(* outside together with all it sets off; only the process that drives the *)
(* target takes its time.                                                  *)
(***************************************************************************)
EXTENDS Naturals, Sequences

CONSTANTS
  Level,      \* triggers that watch the value of a property
  NullMeets,  \* those of Level whose condition null meets, like LevelTrigger LESS
  Event,      \* triggers that watch an event
  Rules,      \* the rules there may be: see RulesAssumption
  Value,      \* values of the target's property
  Goal,       \* the value of the effect
  Negation,   \* !Goal, where the property is Boolean and has these two values only
  Null,       \* what Property.get answers for a thing that is not there
  MaxSends    \* bound: commands the target has not carried out

\* A rule has its triggers, "AND" or "OR" of a MultiTrigger or "ONLY" for a trigger
\* alone, and a SetEffect or a PulseEffect on a property that is Boolean or not. When
\* it is patient the outside changes nothing before the target has answered. A
\* MultiTrigger without triggers, as the page makes it before the first is chosen, hears
\* nothing and does nothing; it is left out.
ASSUME RulesAssumption ==
  /\ Rules \subseteq [triggers : SUBSET (Level \union Event), op : {"AND", "OR", "ONLY"},
                      effect : {"set", "pulse"}, boolean : BOOLEAN, patient : BOOLEAN]
  /\ \A r \in Rules : /\ r.triggers # {}
                      /\ r.op = "ONLY" => \E t \in r.triggers : r.triggers = {t}
ASSUME TriggerAssumption == NullMeets \subseteq Level /\ Level \intersect Event = {}
ASSUME ValueAssumption ==
  {Goal, Negation} \subseteq Value /\ Goal # Negation /\ Null \notin Value /\ MaxSends \in Nat

VARIABLES
  rule,      \* the rule; it never changes
  present,   \* the devices the rule is about are in AddonManager
  started,   \* Rule.start was called
  blind,     \* history: it was called before the devices were there
  meets,     \* per trigger of Level: the value of its property meets its condition
  states,    \* MultiTrigger.states
  on,        \* the field `on` of the effect
  oldValue,  \* PulseEffect.oldValue
  sends,     \* commands on their way to the target
  value,     \* the value of the target's property, as AddonManager knows it
  original,  \* history: the value the outside gave to it
  pulsed     \* history: a PulseEffect has come on since

effectVars == <<on, oldValue, sends, pulsed>>
vars == <<rule, present, started, blind, meets, states, effectVars, value, original>>

Levels == rule.triggers \intersect Level
Events == rule.triggers \intersect Event
Values == IF rule.boolean THEN {Goal, Negation} ELSE Value

\* What triggers, the effect and the property hold; at most MaxSends values are on their way.
TypeOK ==
  /\ rule \in Rules
  /\ present \in BOOLEAN /\ started \in BOOLEAN /\ blind \in BOOLEAN
  /\ meets \in [Levels -> BOOLEAN]
  /\ states \in [rule.triggers -> BOOLEAN]
  /\ on \in BOOLEAN
  /\ oldValue \in Value \union {Null}
  /\ sends \in Seq(Value) /\ Len(sends) <= MaxSends
  /\ value \in Values /\ original \in Values /\ pulsed \in BOOLEAN

Init ==
  /\ rule \in Rules
  /\ present \in BOOLEAN
  /\ started = FALSE /\ blind = FALSE
  /\ meets \in [Levels -> BOOLEAN]
  /\ states = [t \in rule.triggers |-> FALSE]
  /\ on = FALSE
  /\ oldValue = Null
  /\ sends = <<>>
  /\ value \in Values
  /\ original = value /\ pulsed = FALSE

-----------------------------------------------------------------------------
(* Effects.                                                                *)

\* Property.set: without a device it fails, and so does its one retry.
Send(values) == sends' = IF present THEN sends \o values ELSE sends

\* Property.get
Read == IF present THEN value ELSE Null

\* SetEffect.setState
SetEffect(state) ==
  /\ on' = state
  /\ IF state /\ ~on THEN Send(<<Goal>>) ELSE UNCHANGED sends
  /\ UNCHANGED <<oldValue, pulsed>>

\* What a PulseEffect that comes on will set when it goes off: the value it reads, or
\* the opposite of its own if that is a Boolean, whichever of the two it is.
ToSetBack == IF rule.boolean /\ Read # Null THEN Negation ELSE Read

\* PulseEffect.setState, and the reaction to the value it reads.
PulseEffect(state) ==
  /\ on' = state
  /\ oldValue' = IF state /\ ~on THEN ToSetBack ELSE oldValue
  /\ pulsed' = (pulsed \/ (state /\ ~on))
  /\ IF state THEN Send(<<Goal>>)
     ELSE IF on /\ oldValue # Null THEN Send(<<oldValue>>) ELSE UNCHANGED sends

SetState(state) == IF rule.effect = "set" THEN SetEffect(state) ELSE PulseEffect(state)

\* On and off at once, as an EventTrigger says it. A PulseEffect that was off hears
\* of the off before it has read the value, and is on when it has.
SetStateOnOff ==
  IF rule.effect = "set"
  THEN /\ on' = FALSE
       /\ IF on THEN UNCHANGED sends ELSE Send(<<Goal>>)
       /\ UNCHANGED <<oldValue, pulsed>>
  ELSE IF on
       THEN /\ on' = FALSE
            /\ IF oldValue # Null THEN Send(<<Goal, oldValue>>) ELSE Send(<<Goal>>)
            /\ UNCHANGED <<oldValue, pulsed>>
       ELSE /\ on' = TRUE /\ pulsed' = TRUE
            /\ oldValue' = ToSetBack
            /\ Send(<<Goal>>)

-----------------------------------------------------------------------------
(* Triggers.                                                               *)

\* Faulty: any trigger will do.
FaultyCombined(s) == \E t \in rule.triggers : s[t]

\* Faulty: the triggers of an OR must all be met.
FaultyCombinedAll(s) == \A t \in rule.triggers : s[t]

\* MultiTrigger.onStateChanged
Combined(s) == IF rule.op = "AND" THEN \A t \in rule.triggers : s[t]
                                 ELSE \E t \in rule.triggers : s[t]

\* Faulty: a MultiTrigger says on, and never off.
FaultyEmit(s) ==
  /\ states' = s
  /\ IF rule.op = "ONLY" \/ (Combined(s) /\ ~Combined(states))
     THEN SetState(Combined(s))
     ELSE UNCHANGED effectVars

\* The triggers of the rule are now in the states s; a MultiTrigger tells the effect
\* only when that makes a difference.
Emit(s) ==
  /\ states' = s
  /\ IF rule.op = "ONLY" \/ Combined(s) # Combined(states)
     THEN SetState(Combined(s))
     ELSE UNCHANGED effectVars

Quiet == sends = <<>>
MayChange == /\ Len(sends) + 2 <= MaxSends
             /\ rule.patient => Quiet

\* Faulty: a trigger waits for a change before it says anything.
FaultyStart ==
  /\ ~started
  /\ started' = TRUE
  /\ blind' = ~present
  /\ UNCHANGED <<rule, present, meets, states, effectVars, value, original>>

\* Rule.start: every property trigger gets the value of its property, or null.
Start ==
  /\ ~started
  /\ started' = TRUE
  /\ blind' = ~present
  /\ Emit([t \in rule.triggers |->
             t \in Level /\ IF present THEN meets[t] ELSE t \in NullMeets])
  /\ UNCHANGED <<rule, present, meets, value, original>>

\* The add-on comes up and announces its devices. A Property listens for that only
\* after it got undefined, which it never does.
Appear ==
  /\ ~present
  /\ present' = TRUE
  /\ UNCHANGED <<rule, started, blind, meets, states, effectVars, value, original>>

\* A watched property changes: Property.onPropertyChanged.
PropertyChanged(t, m) ==
  /\ present /\ started /\ MayChange
  /\ meets' = [meets EXCEPT ![t] = m]
  /\ Emit([states EXCEPT ![t] = m])
  /\ UNCHANGED <<rule, present, started, blind, value, original>>

\* A watched event happens: EventTrigger.onEvent says on, and then off.
EventHappens(t) ==
  /\ present /\ started /\ MayChange
  /\ states' = [states EXCEPT ![t] = FALSE]
  /\ IF rule.op = "ONLY" \/ (Combined([states EXCEPT ![t] = TRUE]) /\ ~Combined(states))
     THEN SetStateOnOff
     ELSE UNCHANGED effectVars
  /\ UNCHANGED <<rule, present, started, blind, meets, value, original>>

\* The process that drives the target carries out a command and says so.
Carried ==
  /\ ~Quiet
  /\ value' = Head(sends)
  /\ sends' = Tail(sends)
  /\ UNCHANGED <<rule, present, started, blind, meets, states, on, oldValue, original, pulsed>>

\* The condition of the rule, by the properties themselves.
Active == IF rule.op = "AND" THEN Events = {} /\ \A t \in Levels : meets[t]
                             ELSE \E t \in Levels : meets[t]

\* Someone else sets the target while the rule has no say in it.
SetByUser(v) ==
  /\ present /\ Quiet /\ ~Active /\ ~on
  /\ v \in Values \ {value}
  /\ value' = v
  /\ original' = v /\ pulsed' = FALSE
  /\ UNCHANGED <<rule, present, started, blind, meets, states, on, oldValue, sends>>

Next ==
  \/ Start
  \/ Appear
  \/ \E t \in Levels, m \in BOOLEAN : PropertyChanged(t, m)
  \/ \E t \in Events : EventHappens(t)
  \/ Carried
  \/ \E v \in Value : SetByUser(v)

Spec == Init /\ [][Next]_vars

FairSpec == Spec /\ WF_vars(Start) /\ WF_vars(Appear) /\ WF_vars(Carried)

-----------------------------------------------------------------------------
(* Properties.                                                             *)

\* The effect of a rule is on exactly while its triggers, as far as the rule knows, are
\* met: no trigger's off is lost on the way, however late the rule learns of things.
EffectFollows == started /\ Events = {} => on = Combined(states)

\* A rule that sets a property does so when its triggers come to be met, and not
\* again while they are, whatever the other properties of the thing do.
SetsOnce ==
  [][rule.effect = "set" /\ started /\ ~blind /\ Active /\ Active'
       => Len(sends') <= Len(sends)]_vars

\* A rule with a SetEffect whose triggers stay met has its way.
HasItsWay ==
  <>[](started /\ ~blind /\ Active /\ rule.effect = "set") => <>[](value = Goal)

\* What a pulse leaves behind: what the outside gave, or the opposite of the pulse's
\* value if that is a Boolean ("always toggle"), also where the outside gave that value.
Restored == IF rule.boolean /\ pulsed THEN Negation ELSE original

\* PulseEffect: "temporarily sets the target property to a value before restoring
\* its original value", and toggles a Boolean.
PulseRestores ==
  started /\ ~blind /\ rule.effect = "pulse" /\ Quiet
    => value = IF Active THEN Goal ELSE Restored
=============================================================================
