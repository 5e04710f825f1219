---------------------------- MODULE MCRules_proofs ----------------------------
(***************************************************************************)
(* What the parts of MCRules keep for every value of the constants: a rule *)
(* and its effect, the engine's list of rules, the logs, the page that     *)
(* edits the rules.  Each part has an inductive invariant of its own; a    *)
(* step is a step of one part and leaves the others alone, so each         *)
(* invariant holds of RulesSpec.                                           *)
(***************************************************************************)
EXTENDS MCRules, TLAPS, FiniteSetTheorems, SequenceTheorems, WellFoundedInduction

\* A set of numbers that is not empty has a least one.
LEMMA NatMin ==
  ASSUME NEW T, T \subseteq Nat, T # {}
  PROVE  \E x \in T : \A y \in T : x <= y
<1> DEFINE R == OpToRel(<, Nat)
<1>1. IsWellFoundedOn(R, Nat)
      BY NatLessThanWellFounded, Zenon
<1>2. \A x, y \in Nat : <<y, x>> \in R <=> y < x
      BY DEF OpToRel
<1> HIDE DEF R
<1>3. PICK x \in T : \A y \in T : ~(<<y, x>> \in R)
      BY <1>1, WFMin, Zenon
<1>4. \A y \in T : ~(y < x)
      BY <1>2, <1>3, Zenon
<1>5. \A y \in T : x <= y
      BY <1>4
<1> QED BY <1>5

-----------------------------------------------------------------------------
(* A rule and its effect (RuleReaction).                                   *)
\* A rule that pulses, of which PulseEffect keeps its promise.
Pulsing == rule.effect = "pulse" /\ rule.patient /\ Events = {} /\ started /\ ~blind
\* What a PulseEffect that is on is to set back, and what the target has, once it has answered.
Back == IF rule.boolean THEN Negation ELSE original
Due == IF on THEN Goal ELSE Restored

\* The variables of a rule are typed.
ReactionOK ==
  /\ rule \in Rules
  /\ present \in BOOLEAN /\ started \in BOOLEAN /\ blind \in BOOLEAN
  /\ meets \in [Levels -> BOOLEAN]
  /\ states \in [rule.triggers -> BOOLEAN]
  /\ on \in BOOLEAN
  /\ oldValue \in Value \union {Null}
  /\ sends \in Seq(Value)
  /\ value \in Value /\ original \in Value /\ pulsed \in BOOLEAN
\* A rule that was not started has done nothing.
Unstarted ==
  ~started => /\ ~on /\ sends = <<>> /\ value = original /\ ~pulsed
              /\ \A t \in rule.triggers : ~states[t]
\* The effect follows the triggers.
Follows == started /\ Events = {} => (on <=> Combined(states))
\* A rule that saw its devices at its start knows what they are.
Knows == started /\ ~blind => present /\ \A t \in Levels : states[t] <=> meets[t]
\* What is on its way to the target, and what a PulseEffect keeps for later.
Restores == Pulsing => /\ sends = <<>> => value = Due
                       /\ sends = <<>> \/ sends = <<Due>>
                       /\ on => oldValue = Back /\ pulsed
\* The inductive invariant of a rule and its effect.
ReactionInv == ReactionOK /\ Unstarted /\ Follows /\ Knows /\ Restores

\* What a rule in Rules is.
LEMMA RuleIs ==
  ASSUME ReactionOK
  PROVE  /\ rule.triggers \subseteq Level \union Event /\ rule.triggers # {}
         /\ rule.op \in {"AND", "OR", "ONLY"} /\ rule.effect \in {"set", "pulse"}
         /\ rule.patient \in BOOLEAN /\ rule.boolean \in BOOLEAN
         /\ Levels = rule.triggers \ Events /\ Levels \cap Events = {}
         /\ rule.op = "ONLY" => \E t \in rule.triggers : rule.triggers = {t}
<1>1. rule \in [triggers : SUBSET (Level \union Event), op : {"AND", "OR", "ONLY"},
                effect : {"set", "pulse"}, boolean : BOOLEAN, patient : BOOLEAN]
      BY RulesAssumption DEF ReactionOK
<1>2. rule.triggers # {} /\ (rule.op = "ONLY" => \E t \in rule.triggers : rule.triggers = {t})
      BY RulesAssumption DEF ReactionOK
<1>3. rule.triggers \subseteq Level \union Event
      BY <1>1
<1>4. Levels = rule.triggers \ Events /\ Levels \cap Events = {}
      BY <1>3, TriggerAssumption DEF Levels, Events
<1> QED BY <1>1, <1>2, <1>3, <1>4

\* A single command.
LEMMA SendOne ==
  ASSUME sends \in Seq(Value), NEW v \in Value, Send(<<v>>)
  PROVE  /\ sends' \in Seq(Value)
         /\ present => sends' = Append(sends, v)
         /\ ~present => sends' = sends
<1>1. present => sends' = sends \o <<v>>
      BY DEF Send
<1>2. ~present => sends' = sends
      BY DEF Send
<1>3. sends \o <<v>> = Append(sends, v)
      OBVIOUS
<1> QED BY <1>1, <1>2, <1>3

\* What the effect does when it is told a state.
LEMMA StateSet ==
  ASSUME ReactionOK, NEW s \in BOOLEAN, SetState(s)
  PROVE  /\ on' \in BOOLEAN /\ (on' <=> s)
         /\ oldValue' \in Value \union {Null} /\ sends' \in Seq(Value) /\ pulsed' \in BOOLEAN
         /\ rule.effect = "set" /\ (on \/ ~s) => sends' = sends
         /\ rule.effect = "pulse" /\ present =>
              /\ s => sends' = Append(sends, Goal)
              /\ ~s /\ on /\ oldValue # Null => sends' = Append(sends, oldValue)
              /\ ~s /\ ~on => sends' = sends
              /\ oldValue' = IF s /\ ~on THEN (IF rule.boolean THEN Negation ELSE value)
                             ELSE oldValue
              /\ pulsed' <=> pulsed \/ (s /\ ~on)
<1> USE ValueAssumption
<1>r. rule.effect \in {"set", "pulse"}
      BY RuleIs
<1>t. /\ on \in BOOLEAN /\ oldValue \in Value \union {Null} /\ sends \in Seq(Value)
      /\ value \in Value /\ Goal \in Value /\ Null \notin Value /\ Negation \in Value
      /\ pulsed \in BOOLEAN
      BY DEF ReactionOK
<1>1. on' = s
      BY Zenon DEF SetState, SetEffect, PulseEffect
<1>2. on' \in BOOLEAN /\ (on' <=> s)
      BY <1>1, Zenon
<1>3. CASE rule.effect = "set"
  <2>1. /\ oldValue' = oldValue /\ pulsed' = pulsed
        /\ (IF s /\ ~on THEN Send(<<Goal>>) ELSE sends' = sends)
        BY <1>3, Zenon DEF SetState, SetEffect
  <2>2. sends' \in Seq(Value)
        BY <1>t, <2>1, SendOne
  <2> QED BY <1>2, <1>3, <1>t, <2>1, <2>2
<1>4. CASE rule.effect = "pulse"
  <2>1. /\ oldValue' = IF s /\ ~on THEN ToSetBack ELSE oldValue
        /\ IF s THEN Send(<<Goal>>)
           ELSE IF on /\ oldValue # Null THEN Send(<<oldValue>>) ELSE sends' = sends
        BY <1>4 DEF SetState, PulseEffect
  <2>2. sends' \in Seq(Value) /\ (present => /\ s => sends' = Append(sends, Goal)
                                             /\ ~s /\ on /\ oldValue # Null
                                                 => sends' = Append(sends, oldValue)
                                             /\ ~s /\ ~on => sends' = sends)
    <3>1. CASE s
          BY <1>t, <2>1, <3>1, SendOne
    <3>2. CASE ~s /\ on /\ oldValue # Null
          BY <1>t, <2>1, <3>2, SendOne
    <3>3. CASE ~s /\ (~on \/ oldValue = Null)
          BY <1>t, <2>1, <3>3
    <3> QED BY <3>1, <3>2, <3>3
  <2>3. oldValue' \in Value \union {Null}
          /\ (present => oldValue' = IF s /\ ~on THEN (IF rule.boolean THEN Negation ELSE value)
                                               ELSE oldValue)
        BY <1>t, <2>1 DEF Read, ToSetBack
  <2>4. pulsed' \in BOOLEAN /\ (pulsed' <=> pulsed \/ (s /\ ~on))
    <3>1. pulsed' = (pulsed \/ (s /\ ~on))
          BY <1>4, Zenon DEF SetState, PulseEffect
    <3> QED BY <1>t, <3>1, Zenon
  <2> QED BY <1>2, <1>4, <2>2, <2>3, <2>4
<1> QED BY <1>r, <1>3, <1>4

\* The triggers as a whole.
LEMMA CombinedIs == ASSUME NEW s PROVE Combined(s) \in BOOLEAN
BY DEF Combined

\* A trigger that tells the effect, or a MultiTrigger that does not as nothing differs.
LEMMA Emitted ==
  ASSUME ReactionOK, NEW s \in [rule.triggers -> BOOLEAN], Emit(s), rule' = rule,
         Events = {} => (on <=> Combined(states))
  PROVE  /\ states' = s /\ on' \in BOOLEAN
         /\ oldValue' \in Value \union {Null} /\ sends' \in Seq(Value) /\ pulsed' \in BOOLEAN
         /\ Events = {} => (on' <=> Combined(s))
         /\ SetState(Combined(s))
            \/ (UNCHANGED effectVars /\ rule.op # "ONLY" /\ (Combined(s) <=> Combined(states)))
<1>1. states' = s
      BY DEF Emit
<1>2. CASE rule.op = "ONLY" \/ Combined(s) # Combined(states)
  <2>1. SetState(Combined(s))
        BY <1>2 DEF Emit
  <2> QED BY <1>1, <2>1, CombinedIs, StateSet
<1>3. CASE ~(rule.op = "ONLY" \/ Combined(s) # Combined(states))
  <2>1. UNCHANGED effectVars
        BY <1>3 DEF Emit
  <2>2. Combined(s) <=> Combined(states)
    <3>1. Combined(s) = Combined(states)
          BY <1>3, Zenon
    <3> QED BY <3>1, Zenon
  <2>3. UNCHANGED <<on, oldValue, sends, pulsed>>
        BY <2>1 DEF effectVars
  <2>4. rule.op # "ONLY"
        BY <1>3
  <2> QED BY <1>1, <2>1, <2>2, <2>3, <2>4 DEF ReactionOK
<1> QED BY <1>2, <1>3

\* What the triggers say after a step.
LEMMA CombinedAfter == ASSUME rule' = rule, NEW s, states' = s
                       PROVE /\ Combined(states)' <=> Combined(s)
                             /\ Levels' = Levels /\ Events' = Events
BY DEF Combined, Levels, Events

\* The invariant holds at first.
LEMMA ReactionStarts == ASSUME Init PROVE ReactionInv
<1>1. ReactionOK
  <2>1. /\ rule \in Rules
        /\ present \in BOOLEAN /\ started \in BOOLEAN /\ blind \in BOOLEAN
        /\ meets \in [Levels -> BOOLEAN] /\ states \in [rule.triggers -> BOOLEAN]
        BY DEF Init
  <2>2. /\ on \in BOOLEAN /\ oldValue \in Value \union {Null}
        /\ value \in Value /\ original \in Value /\ pulsed \in BOOLEAN
        BY ValueAssumption DEF Init, Values
  <2>3. sends \in Seq(Value)
    <3>1. sends = <<>>
          BY DEF Init
    <3> QED BY <3>1
  <2> QED BY <2>1, <2>2, <2>3 DEF ReactionOK
<1>2. Unstarted
      BY DEF Init, Unstarted
<1> QED BY <1>1, <1>2 DEF Init, ReactionInv, Follows, Knows, Restores, Pulsing

\* What the invariant says of the sends and of the effect, after a step that tells the effect.
\* A step that tells the effect what its triggers say keeps the invariant.
LEMMA EmitKeeps ==
  ASSUME ReactionInv, NEW s \in [rule.triggers -> BOOLEAN], Emit(s), started',
         UNCHANGED <<rule, present, value, original>>,
         blind' \in BOOLEAN, meets' \in [Levels -> BOOLEAN],
         (started /\ UNCHANGED blind) \/ (~started /\ blind' = ~present),
         rule.patient => sends = <<>>,
         present /\ ~blind' => \A t \in Levels : s[t] <=> meets'[t]
  PROVE  ReactionInv'
<1>t. /\ ReactionOK /\ Unstarted /\ Follows /\ Knows /\ Restores
      BY DEF ReactionInv
<1>1. Events = {} => (on <=> Combined(states))
  <2>1. CASE started
        BY <2>1, <1>t DEF Follows
  <2>2. CASE ~started
    <3>1. ~on /\ rule.triggers # {} /\ \A t \in rule.triggers : ~states[t]
          BY <2>2, <1>t, RuleIs DEF Unstarted
    <3> QED BY <3>1 DEF Combined
  <2> QED BY <2>1, <2>2
<1>2. /\ states' = s /\ on' \in BOOLEAN
      /\ oldValue' \in Value \union {Null} /\ sends' \in Seq(Value) /\ pulsed' \in BOOLEAN
      /\ Events = {} => (on' <=> Combined(s))
      /\ SetState(Combined(s))
         \/ (UNCHANGED effectVars /\ rule.op # "ONLY" /\ (Combined(s) <=> Combined(states)))
      BY <1>1, <1>t, Emitted
<1>3. /\ Combined(states)' <=> Combined(s)
      /\ Levels' = Levels /\ Events' = Events
      BY <1>2, CombinedAfter
<1>4. ReactionOK'
      BY <1>2, <1>3, <1>t DEF ReactionOK
<1>5. Unstarted' /\ Follows'
      BY <1>2, <1>3 DEF Unstarted, Follows
<1>6. Knows'
      BY <1>2, <1>3, <1>t DEF Knows
<1>7. Restores'
  <2> SUFFICES ASSUME Pulsing' PROVE /\ sends' = <<>> => value = Due'
                                     /\ sends' = <<>> \/ sends' = <<Due'>>
                                     /\ on' => oldValue' = Back' /\ pulsed'
      BY DEF Restores
  <2>1. /\ rule.effect = "pulse" /\ rule.patient /\ Events = {} /\ ~blind' /\ sends = <<>>
        BY <1>3 DEF Pulsing
  <2>2. present
        BY <2>1, <1>t DEF Knows
  <2>0. Back' = Back /\ (~rule.boolean => Restored = original /\ Back = original)
        BY DEF Back, Restored
  <2>3. /\ value = Due /\ (on => oldValue = Back /\ pulsed) /\ (~on => value = Restored)
        /\ (pulsed => Restored = Back)
        /\ (pulsed' => Restored' = Back) /\ ((pulsed' <=> pulsed) => Restored' = Restored)
    <3>1. CASE started
          BY <3>1, <2>1, <1>t DEF Restores, Pulsing, Due, Back, Restored
    <3>2. CASE ~started
          BY <3>2, <1>t DEF Unstarted, Due, Back, Restored
    <3> QED BY <3>1, <3>2
  <2>4. Back # Null /\ Append(sends, Goal) = <<Goal>>
          /\ Append(sends, Back) = <<Back>>
        BY <2>1, <1>t, ValueAssumption DEF ReactionOK, Back
  <2>5. CASE SetState(Combined(s))
    <3>1. /\ on' <=> Combined(s)
          /\ Combined(s) => sends' = Append(sends, Goal)
          /\ ~Combined(s) /\ on /\ oldValue # Null => sends' = Append(sends, oldValue)
          /\ ~Combined(s) /\ ~on => sends' = sends
          /\ oldValue' = IF Combined(s) /\ ~on THEN (IF rule.boolean THEN Negation ELSE value)
                         ELSE oldValue
          /\ pulsed' <=> pulsed \/ (Combined(s) /\ ~on)
          BY <2>1, <2>2, <2>5, <1>t, CombinedIs, StateSet
    <3>2. CASE Combined(s)
      <4>1. oldValue' = Back /\ pulsed'
        <5>1. CASE on
              BY <3>1, <5>1, <2>3
        <5>2. CASE ~on
              BY <3>1, <3>2, <5>2, <2>0, <2>3 DEF Back
        <5> QED BY <5>1, <5>2
      <4> QED BY <3>1, <3>2, <2>0, <2>4, <4>1 DEF Due
    <3>3. CASE ~Combined(s) /\ on
          BY <3>1, <3>3, <2>3, <2>4 DEF Due
    <3>4. CASE ~Combined(s) /\ ~on
          BY <3>1, <3>4, <2>1, <2>3 DEF Due
    <3> QED BY <3>2, <3>3, <3>4
  <2>6. CASE UNCHANGED effectVars
        BY <2>1, <2>3, <2>6 DEF effectVars, Due, Back, Restored
  <2> QED BY <1>2, <2>0, <2>5, <2>6
<1> QED BY <1>4, <1>5, <1>6, <1>7 DEF ReactionInv

\* The rule starts: with its devices there, or not.
LEMMA StartKeeps == ASSUME ReactionInv, Start PROVE ReactionInv'
<1> DEFINE s == [t \in rule.triggers |-> t \in Level
    /\ IF present THEN meets[t] ELSE t \in NullMeets]
<1>t. ReactionOK /\ Unstarted
      BY DEF ReactionInv
<1>1. /\ ~started /\ started' /\ blind' = ~present /\ Emit(s)
      /\ UNCHANGED <<rule, present, meets, value, original>>
      BY DEF Start
<1>2. s \in [rule.triggers -> BOOLEAN]
      BY <1>t DEF ReactionOK, Levels
<1>3. present => \A t \in Levels : s[t] <=> meets'[t]
      BY <1>1 DEF Levels
<1>4. blind' \in BOOLEAN /\ meets' \in [Levels -> BOOLEAN] /\ sends = <<>>
      BY <1>1, <1>t DEF ReactionOK, Unstarted
<1> HIDE DEF s
<1> QED BY <1>1, <1>2, <1>3, <1>4, EmitKeeps

\* A watched property changes.
LEMMA ChangeKeeps ==
  ASSUME ReactionInv, NEW t \in Levels, NEW m \in BOOLEAN, PropertyChanged(t, m)
  PROVE  ReactionInv'
<1> DEFINE s == [states EXCEPT ![t] = m]
<1>t. ReactionOK /\ Knows
      BY DEF ReactionInv
<1>1. /\ present /\ started /\ MayChange /\ meets' = [meets EXCEPT ![t] = m] /\ Emit(s)
      /\ UNCHANGED <<rule, present, started, blind, value, original>>
      BY DEF PropertyChanged
<1>2. s \in [rule.triggers -> BOOLEAN]
      BY <1>t DEF ReactionOK
<1>3. t \in rule.triggers /\ \A u \in Levels : u \in rule.triggers
      BY DEF Levels
<1>4. ~blind => \A u \in Levels : s[u] <=> meets'[u]
      BY <1>1, <1>3, <1>t DEF ReactionOK, Knows
<1>5. blind' \in BOOLEAN /\ meets' \in [Levels -> BOOLEAN] /\ (rule.patient => sends = <<>>)
      BY <1>1, <1>t DEF ReactionOK, MayChange, Quiet
<1>6. started' /\ blind' = blind /\ (present /\ ~blind' => \A u \in Levels : s[u] <=> meets'[u])
      BY <1>1, <1>4, <1>t
<1> HIDE DEF s
<1> QED BY <1>1, <1>2, <1>5, <1>6, EmitKeeps

\* On and off at once, as an event makes it.
LEMMA OnOffDone ==
  ASSUME ReactionOK, SetStateOnOff
  PROVE  /\ on' \in BOOLEAN /\ oldValue' \in Value \union {Null} /\ sends' \in Seq(Value)
         /\ pulsed' \in BOOLEAN
<1> USE ValueAssumption
<1>t. /\ on \in BOOLEAN /\ oldValue \in Value \union {Null} /\ sends \in Seq(Value)
      /\ value \in Value /\ Goal \in Value /\ Negation \in Value /\ pulsed \in BOOLEAN
      BY DEF ReactionOK
<1>1. on' \in BOOLEAN /\ oldValue' \in Value \union {Null} /\ pulsed' \in BOOLEAN
      BY <1>t DEF SetStateOnOff, Read, ToSetBack
<1>2. ASSUME NEW v \in Value, NEW w \in Value, Send(<<v>>) \/ Send(<<v, w>>) \/ sends' = sends
      PROVE sends' \in Seq(Value)
  <2>1. <<v>> \in Seq(Value) /\ <<v, w>> \in Seq(Value)
        OBVIOUS
  <2>2. sends \o <<v>> \in Seq(Value) /\ sends \o <<v, w>> \in Seq(Value)
        BY <1>t, <2>1
  <2> QED BY <1>t, <1>2, <2>2 DEF Send
<1>3. \/ Send(<<Goal>>) \/ sends' = sends
      \/ oldValue # Null /\ Send(<<Goal, oldValue>>)
      BY DEF SetStateOnOff
<1> QED BY <1>t, <1>1, <1>2, <1>3

\* A watched event happens: the promises are about rules without events.
LEMMA EventKeeps == ASSUME ReactionInv, NEW t \in Events, EventHappens(t) PROVE ReactionInv'
<1>t. ReactionOK /\ Knows
      BY DEF ReactionInv
<1>1. /\ present /\ started /\ states' = [states EXCEPT ![t] = FALSE]
      /\ SetStateOnOff \/ UNCHANGED effectVars
      /\ UNCHANGED <<rule, present, started, blind, meets, value, original>>
      BY DEF EventHappens
<1>2. /\ on' \in BOOLEAN /\ oldValue' \in Value \union {Null} /\ sends' \in Seq(Value)
      /\ pulsed' \in BOOLEAN
      BY <1>1, <1>t, OnOffDone DEF effectVars, ReactionOK
<1>3. Levels' = Levels /\ Events' = Events /\ Events # {}
      BY <1>1 DEF Levels, Events
<1>4. ReactionOK'
      BY <1>1, <1>2, <1>3, <1>t DEF ReactionOK
<1>5. \A u \in Levels : states'[u] = states[u]
      BY <1>1, <1>t, RuleIs DEF ReactionOK
<1>6. Knows'
      BY <1>1, <1>3, <1>5, <1>t DEF Knows
<1> QED BY <1>1, <1>3, <1>4, <1>6 DEF ReactionInv, Unstarted, Follows, Restores, Pulsing

\* The devices appear, the target answers, someone sets it.
LEMMA OutsideKeeps ==
  ASSUME ReactionInv, Appear \/ Carried \/ \E v \in Value : SetByUser(v)
  PROVE  ReactionInv'
<1>t. /\ ReactionOK /\ Unstarted /\ Follows /\ Knows /\ Restores
      BY DEF ReactionInv
<1>1. UNCHANGED <<rule, started, blind, meets, states, on, oldValue>>
      BY DEF Appear, Carried, SetByUser, effectVars
<1>2. /\ Combined(states)' <=> Combined(states)
      /\ Levels' = Levels /\ Events' = Events
      BY <1>1, CombinedAfter
<1>3. Follows'
      BY <1>1, <1>2, <1>t DEF Follows
<1>4. CASE Appear
  <2>1. /\ ~present /\ present' = TRUE /\ UNCHANGED <<sends, value, original, pulsed>>
        BY <1>4 DEF Appear, effectVars
  <2>2. ReactionOK' /\ Unstarted' /\ Knows'
        BY <1>1, <1>2, <2>1, <1>t DEF ReactionOK, Unstarted, Knows
  <2>3. Restores'
        BY <1>1, <1>2, <2>1, <1>t DEF Restores, Pulsing, Due, Back, Restored
  <2> QED BY <1>3, <2>2, <2>3 DEF ReactionInv
<1>5. CASE Carried
  <2>1. /\ sends # <<>> /\ value' = Head(sends) /\ sends' = Tail(sends)
        /\ UNCHANGED <<present, original, pulsed>>
        BY <1>5 DEF Carried, Quiet
  <2>2. value' \in Value /\ sends' \in Seq(Value)
        BY <2>1, <1>t DEF ReactionOK
  <2>3. ReactionOK' /\ Unstarted' /\ Knows'
        BY <1>1, <1>2, <2>1, <2>2, <1>t DEF ReactionOK, Unstarted, Knows
  <2>4. Restores'
    <3>1. Pulsing' = Pulsing /\ Due' = Due /\ Back' = Back
          BY <1>1, <1>2, <2>1 DEF Pulsing, Due, Back, Restored
    <3>2. sends = <<Due>> => Head(sends) = Due /\ Tail(sends) = <<>>
          OBVIOUS
    <3> QED BY <3>1, <3>2, <1>1, <2>1, <1>t DEF Restores
  <2> QED BY <1>3, <2>3, <2>4 DEF ReactionInv
<1>6. ASSUME NEW v \in Value, SetByUser(v) PROVE ReactionInv'
  <2>1. /\ sends = <<>> /\ ~on /\ value' = v /\ original' = v /\ pulsed' = FALSE
        /\ UNCHANGED <<present, sends>>
        BY <1>6 DEF SetByUser, Quiet, effectVars
  <2>2. ReactionOK' /\ Unstarted' /\ Knows'
        BY <1>1, <1>2, <2>1, <1>t DEF ReactionOK, Unstarted, Knows
  <2>3. Restores'
        BY <1>1, <2>1 DEF Restores, Pulsing, Due, Restored
  <2> QED BY <1>3, <2>2, <2>3 DEF ReactionInv
<1> QED BY <1>4, <1>5, <1>6

\* Every step keeps the invariant.
LEMMA ReactionStep == ASSUME ReactionInv, [Next]_vars PROVE ReactionInv'
<1>1. CASE UNCHANGED vars
  <2>1. Combined(states)' <=> Combined(states)
        BY <1>1, CombinedAfter DEF vars
  <2>2. UNCHANGED <<rule, present, started, blind, meets, states, on, oldValue, sends, value,
          original, pulsed>>
        BY <1>1 DEF vars, effectVars
  <2> QED BY <2>1, <2>2
     DEF ReactionInv, ReactionOK, Unstarted, Follows, Knows, Restores, Pulsing, Due, Back, Restored,
                     Levels, Events
<1> QED BY <1>1, StartKeeps, ChangeKeeps, EventKeeps, OutsideKeeps DEF Next

\* Two Booleans that agree are one.
LEMMA SameTruth == ASSUME NEW a \in BOOLEAN, NEW b \in BOOLEAN, a <=> b PROVE a = b
OBVIOUS

\* What the invariant says of the effect and of the target.
LEMMA ReactionShows ==
  ASSUME ReactionInv
  PROVE  EffectFollows /\ (rule.patient /\ Events = {} => PulseRestores)
<1>t. /\ ReactionOK /\ Follows /\ Knows /\ Restores
      BY DEF ReactionInv
<1>1. EffectFollows
  <2>1. started /\ Events = {} => (on <=> Combined(states))
        BY <1>t DEF Follows
  <2>2. on \in BOOLEAN /\ Combined(states) \in BOOLEAN
        BY <1>t, CombinedIs DEF ReactionOK
  <2>3. started /\ Events = {} => on = Combined(states)
        BY <2>1, <2>2, SameTruth
  <2> QED BY <2>3, Zenon DEF EffectFollows
<1>2. ASSUME rule.patient, Events = {}, started, ~blind, rule.effect = "pulse", Quiet
      PROVE  value = IF Active THEN Goal ELSE Restored
  <2>1. value = Due
        BY <1>2, <1>t DEF Quiet, Restores, Pulsing
  <2>2. Levels = rule.triggers
        BY <1>2, <1>t, RuleIs
  <2>3. Active <=> Combined(states)
        BY <1>2, <2>2, <1>t DEF Active, Combined, Knows
  <2>4. on <=> Combined(states)
        BY <1>2, <1>t DEF Follows
  <2> QED BY <2>1, <2>3, <2>4 DEF Due
<1> QED BY <1>1, <1>2 DEF PulseRestores

\* While its triggers are met a SetEffect sends nothing more.
LEMMA SetsNoMore ==
  ASSUME ReactionInv, [Next]_vars, rule.effect = "set", started, ~blind, Active, Active'
  PROVE  Len(sends') <= Len(sends)
<1>t. /\ ReactionOK /\ Follows /\ Knows
      BY DEF ReactionInv
<1>l. Len(sends) \in Nat
      BY <1>t DEF ReactionOK
<1>r. rule.op = "ONLY" => Events = {}
      BY <1>t, RuleIs DEF Active, Levels, Events
<1>c. Combined(states)
      BY <1>t, <1>r, RuleIs DEF Active, Combined, Knows
<1>1. CASE UNCHANGED sends
      BY <1>1, <1>l
<1>2. CASE Carried
      BY <1>2, <1>t, <1>l DEF Carried, Quiet, ReactionOK
<1>3. ASSUME NEW t \in Levels, NEW m \in BOOLEAN, PropertyChanged(t, m) PROVE UNCHANGED sends
  <2> DEFINE s == [states EXCEPT ![t] = m]
  <2>1. Emit(s) /\ meets' = [meets EXCEPT ![t] = m] /\ UNCHANGED rule
        BY <1>3 DEF PropertyChanged
  <2>2. s \in [rule.triggers -> BOOLEAN] /\ t \in rule.triggers
        BY <1>t DEF ReactionOK, Levels
  <2>3. Levels' = Levels /\ Events' = Events
        BY <2>1 DEF Levels, Events
  <2>4. \A u \in Levels : s[u] <=> meets'[u]
        BY <2>1, <2>2, <1>t DEF Knows, ReactionOK, Levels
  <2>5. Combined(s)
        BY <2>1, <2>2, <2>3, <2>4, <1>t, RuleIs DEF Active, Combined
  <2> HIDE DEF s
  <2>6. (SetState(Combined(s)) /\ rule.op = "ONLY") \/ UNCHANGED effectVars
        BY <1>c, <2>1, <2>5 DEF Emit, Combined
  <2>7. rule.op = "ONLY" => on
        BY <1>r, <1>c, <1>t DEF Follows
  <2> QED BY <2>6, <2>7, <1>t, CombinedIs, StateSet DEF effectVars
<1>4. ASSUME NEW t \in Events, EventHappens(t) PROVE UNCHANGED sends
      BY <1>4, <1>c, <1>r DEF EventHappens, effectVars
<1>5. Start \/ Appear \/ (\E v \in Value : SetByUser(v)) \/ UNCHANGED vars => UNCHANGED sends
      BY DEF Start, Appear, SetByUser, vars, effectVars
<1> QED BY <1>1, <1>2, <1>3, <1>4, <1>5 DEF Next

\* A step is a step of this part, or leaves it alone.
LEMMA ReactionMoves == [React \/ Manage \/ Log \/ Make]_ruleVars => [Next]_reactionVars
BY DEF React, Manage, Log, Make, ruleVars, reactionVars

\* The invariant holds in every state.
LEMMA ReactionSafe == RulesSpec => []ReactionInv
<1>1. RulesInit => ReactionInv
      BY ReactionStarts DEF RulesInit
<1>2. ReactionInv /\ [React \/ Manage \/ Log \/ Make]_ruleVars => ReactionInv'
      BY ReactionMoves, ReactionStep DEF reactionVars
<1> QED BY <1>1, <1>2, PTL DEF RulesSpec

\* The effect of a rule whose triggers watch properties is on exactly while they are met, as far
\* as the rule knows, whatever its triggers, its kind and the order in which its devices appear
\* (MultiTrigger.onStateChanged, Rule.start).
THEOREM RuleFollows == RulesSpec => []EffectFollows
<1>1. ReactionInv => EffectFollows
      BY ReactionShows
<1> QED BY <1>1, ReactionSafe, PTL

\* A PulseEffect has put back what the target was once its triggers are met no more, or has set it
\* to the opposite of its goal if that is a Boolean, and has set its goal while they are, when the
\* target answers before the next change and no trigger is an event (PulseEffect.setState).
THEOREM RuleRestores == RulesSpec => [](rule.patient /\ Events = {} => PulseRestores)
<1>1. ReactionInv => (rule.patient /\ Events = {} => PulseRestores)
      BY ReactionShows
<1> QED BY <1>1, ReactionSafe, PTL

\* A SetEffect sets its property when the triggers come to be met, and sends nothing more while
\* they are (SetEffect.setState, MultiTrigger.onStateChanged).
THEOREM RuleSetsOnce == RulesSpec => SetsOnce
<1>1. ReactionInv /\ [React \/ Manage \/ Log \/ Make]_ruleVars
        => [rule.effect = "set" /\ started /\ ~blind /\ Active /\ Active'
              => Len(sends') <= Len(sends)]_vars
      BY ReactionMoves, SetsNoMore DEF reactionVars
<1> QED BY <1>1, ReactionSafe, PTL DEF RulesSpec, SetsOnce

-----------------------------------------------------------------------------
(* The engine's list of rules (RuleEngine).                                *)
\* What the constants of the engine are.
EngineAssumed ==
  /\ Engine!BoundsAssumption /\ Engine!StoredAssumption /\ Engine!NoneAssumption
  /\ Engine!KindsAssumption

\* They are what they must be.
LEMMA EngineBounds == EngineAssumed
BY PartsAssumption DEF PartsAssumption, EngineAssumed

\* The rules are loaded once: by the start of the gateway, which no GET overtakes.
OneLoader == \E l \in Loader : Loader = {l}

\* An object runs while it is listed, under one id.
Running ==
  /\ listening = Engine!Listed /\ stopped = Engine!Object \ listening
  /\ \A i \in Engine!Id : rules[i] <= objects
  /\ \A i, j \in Engine!Id : rules[i] = rules[j] /\ rules[i] # 0 => i = j
  /\ \A i \in Engine!Id : rules[i] # 0 => content[rules[i]] \in Engine!Content
\* An object is subscribed only after its start and before its stop.
Subscribing ==
  /\ starting \union stopping \union subscribed \subseteq 1 .. objects
  /\ starting \cap subscribed = {}
  /\ \A o \in subscribed : content[o] \notin PropertyRule
\* A row of the table is listed, or is still to be loaded.
Loaded ==
  /\ \A l \in Loader : load[l] \in {"new", "reading"} <=> ~loaded
  /\ \A l \in Loader : load[l] \in {"new", "reading"} => current[l] = 0
  /\ \A l \in Loader : load[l] = "listed" => \A i \in Engine!Id : rows[l][i] = None
  /\ loaded => \A l \in Loader, i \in Engine!Id :
                 IF rules[i] = 0 THEN table[i] = rows[l][i]
                 ELSE table[i] = content[rules[i]] /\ rows[l][i] = None
  /\ ~loaded => \A i \in Engine!Id : rules[i] = 0
\* What a request may ask for: the row it changes is loaded.
RequestsAsk ==
  \A r \in Engine!Request : /\ op[r] \in {"inserting", "updating"} => given[r] \in Engine!Content
                            /\ op[r] = "inserting" => r \in Add
                            /\ op[r] \in {"updating", "deleting"} =>
                                 /\ loaded /\ target[r] \in Engine!Id
                                 /\ \A l \in Loader : rows[l][target[r]] = None
\* The inductive invariant of the engine.
EngineInv == Engine!TypeOK /\ Running /\ Subscribing /\ Loaded /\ RequestsAsk /\ Engine!NoLeak
\* No stored rule was about a thing that is gone, which ends the loading before its time.
NoneFailed == \A l \in Loader : load[l] # "failed"

\* What the objects of a typed state are.
ObjectsOK ==
  /\ rules \in [Engine!Id -> 0 .. MaxObject] /\ objects \in 0 .. MaxObject
  /\ content \in [Engine!Object -> Engine!Content \union {None}]
  /\ listening \subseteq Engine!Object /\ starting \subseteq Engine!Object
  /\ stopped \subseteq Engine!Object
  /\ subscribed \subseteq Engine!Object /\ stopping \subseteq Engine!Object
\* The requests are typed.
RequestsOK ==
  /\ op \in [Engine!Request -> {"new", "inserting", "updating", "deleting", "starting", "ok",
      "not_found", "hung"}]
  /\ target \in [Engine!Request -> 0 .. MaxId]
  /\ given \in [Engine!Request -> Engine!Content \union {None}]
  /\ made \in [Engine!Request -> 0 .. MaxObject]
\* The three parts of the invariant.
ObjectsInv == ObjectsOK /\ Running /\ Subscribing /\ Engine!NoLeak
RequestsInv == RequestsOK /\ RequestsAsk
\* The table and its loading are typed.
LoadOK ==
  /\ table \in [Engine!Id -> Engine!Content \union {None}] /\ loaded \in BOOLEAN
  /\ load \in [Loader -> {"new", "reading", "loading", "listed", "failed"}]
  /\ rows \in [Loader -> [Engine!Id -> Engine!Content \union {None}]]
  /\ current \in [Loader -> 0 .. MaxObject]
LoadInv == LoadOK /\ Loaded

\* The invariant is that of the objects, that of the requests and that of the table.
LEMMA EngineParts == EngineInv <=> ObjectsInv /\ RequestsInv /\ LoadInv
BY Zenon
   DEF EngineInv, Engine!TypeOK, ObjectsInv, ObjectsOK, RequestsInv, RequestsOK, LoadInv, LoadOK

\* The same of the next state.
LEMMA EnginePartsAfter == (ObjectsInv /\ RequestsInv /\ LoadInv)' <=> EngineInv'
BY Zenon
   DEF EngineInv, Engine!TypeOK, ObjectsInv, ObjectsOK, RequestsInv, RequestsOK, LoadInv, LoadOK

\* A rule is listed under an id, in the place of the one that was there (Rule.start, stop).
LEMMA ObjectMade ==
  ASSUME ObjectsInv, NEW i \in Engine!Id, NEW c \in Engine!Content, Engine!Make(c),
         rules' = [rules EXCEPT ![i] = Engine!New], Engine!StartAndStop(c, {rules[i]} \ {0}),
         subscribed' = subscribed
  PROVE  /\ ObjectsInv'
         /\ Engine!New \in Engine!Object /\ rules'[i] = Engine!New /\ Engine!New # 0
         /\ content'[Engine!New] = c
         /\ \A j \in Engine!Id : j # i => rules'[j] = rules[j]
         /\ \A j \in Engine!Id : rules[j] # 0 => content'[rules[j]] = content[rules[j]]
<1> USE EngineBounds DEF EngineAssumed, Engine!BoundsAssumption
<1>t. ObjectsOK /\ Running /\ Subscribing /\ Engine!NoLeak
      BY DEF ObjectsInv
<1>n. /\ Engine!New \in Engine!Object /\ Engine!New = objects + 1 /\ objects' = Engine!New
        /\ objects \in Nat
      /\ content' = [content EXCEPT ![Engine!New] = c]
      BY <1>t DEF Engine!Make, Engine!New, ObjectsOK
<1>s. /\ listening' = (listening \ ({rules[i]} \ {0})) \union {Engine!New}
      /\ starting' = starting \union {Engine!New}
      /\ stopped' = (stopped \ {Engine!New}) \union ({rules[i]} \ {0})
      /\ stopping' = stopping \union {o \in {rules[i]} \ {0} : content[o] \notin PropertyRule}
      BY DEF Engine!StartAndStop
<1>o. \A j \in Engine!Id :
        rules[j] \in Nat /\ rules[j] <= objects /\ (rules[j] # 0 => rules[j] \in Engine!Object)
      BY <1>t DEF ObjectsOK, Running, Engine!Object
<1> HIDE DEF Engine!New
<1>1. rules'[i] = Engine!New /\ \A j \in Engine!Id : j # i => rules'[j] = rules[j]
      BY <1>t DEF ObjectsOK
<1>2. content'[Engine!New] = c /\ \A o \in Engine!Object : o # Engine!New
        => content'[o] = content[o]
      BY <1>n, <1>t DEF ObjectsOK
<1>3. Engine!New # 0 /\ \A j \in Engine!Id : rules[j] # Engine!New
      BY <1>n, <1>o
<1>4. ObjectsOK'
  <2>1. Engine!New \in 0 .. MaxObject /\ rules[i] \in 0 .. MaxObject
        BY <1>n, <1>t DEF Engine!Object, ObjectsOK
  <2>2. rules' \in [Engine!Id -> 0 .. MaxObject] /\ objects' \in 0 .. MaxObject
        BY <2>1, <1>n, <1>t DEF ObjectsOK
  <2>3. content' \in [Engine!Object -> Engine!Content \union {None}]
        BY <1>n, <1>t DEF ObjectsOK
  <2>4. ({rules[i]} \ {0}) \subseteq Engine!Object
        BY <1>o
  <2> QED BY <2>2, <2>3, <2>4, <1>n, <1>s, <1>t DEF ObjectsOK
<1>5. listening' = Engine!Listed' /\ stopped' = Engine!Object \ listening'
  <2>1. Engine!Listed' = (Engine!Listed \ {rules[i]}) \union {Engine!New}
    <3>1. Engine!Listed' = {rules'[j] : j \in Engine!Id} \ {0}
          BY DEF Engine!Listed
    <3>2. \A j \in Engine!Id : j # i /\ rules[j] # 0 => rules[j] # rules[i]
          BY <1>t DEF Running
    <3> QED BY <1>1, <1>3, <3>1, <3>2 DEF Engine!Listed
  <2> QED BY <2>1, <1>s, <1>t, <1>n, <1>3, <1>o DEF Running, Engine!Listed
<1>6. Running'
  <2>1. \A j \in Engine!Id : rules'[j] <= objects'
        BY <1>1, <1>n, <1>o
  <2>2. \A k, j \in Engine!Id : rules'[k] = rules'[j] /\ rules'[k] # 0 => k = j
        BY <1>1, <1>3, <1>t DEF Running
  <2>3. \A j \in Engine!Id : rules'[j] # 0 => content'[rules'[j]] \in Engine!Content
        BY <1>1, <1>2, <1>3, <1>o, <1>t DEF Running
  <2> QED BY <1>5, <2>1, <2>2, <2>3 DEF Running
<1>7. Subscribing' /\ Engine!NoLeak'
  <2>1. starting \union stopping \union subscribed \subseteq 1 .. objects
          /\ Engine!New \notin 1 .. objects
        BY <1>n, <1>t DEF Subscribing
  <2>2. 1 .. objects' = (1 .. objects) \union {Engine!New}
        BY <1>n
  <2>3. rules[i] # 0 => rules[i] \in 1 .. objects
        BY <1>o
  <2>4. \A o \in subscribed : o \in Engine!Object /\ o # Engine!New
        BY <2>1, <1>t DEF ObjectsOK
  <2>5. Subscribing'
        BY <2>1, <2>2, <2>3, <2>4, <1>2, <1>s, <1>t DEF Subscribing
  <2>6. Engine!NoLeak'
        BY <2>4, <1>s, <1>t DEF Engine!NoLeak, Subscribing
  <2> QED BY <2>5, <2>6
<1>8. \A j \in Engine!Id : rules[j] # 0 => content'[rules[j]] = content[rules[j]]
      BY <1>2, <1>3, <1>o
<1> QED BY <1>1, <1>2, <1>3, <1>4, <1>6, <1>7, <1>8, <1>n DEF ObjectsInv

\* A rule is stopped and listed no more.
LEMMA ObjectStopped ==
  ASSUME ObjectsInv, NEW i \in Engine!Id, rules[i] # 0,
         listening' = listening \ {rules[i]}, stopped' = stopped \union {rules[i]},
         stopping' = stopping
             \union ({rules[i]} \ {o \in Engine!Object : content[o] \in PropertyRule}),
         rules' = [rules EXCEPT ![i] = 0],
         UNCHANGED <<objects, content, starting, subscribed>>
  PROVE  ObjectsInv'
<1> USE EngineBounds DEF EngineAssumed, Engine!BoundsAssumption
<1>t. ObjectsOK /\ Running /\ Subscribing /\ Engine!NoLeak
      BY DEF ObjectsInv
<1>1. rules'[i] = 0 /\ \A j \in Engine!Id : j # i => rules'[j] = rules[j]
      BY <1>t DEF ObjectsOK
<1>2. rules[i] \in 1 .. objects /\ rules[i] \in Engine!Object
      BY <1>t DEF Running, ObjectsOK, Engine!Object
<1>3. ObjectsOK'
      BY <1>2, <1>t DEF ObjectsOK
<1>4. Running'
  <2>1. Engine!Listed' = Engine!Listed \ {rules[i]}
    <3>1. Engine!Listed' = {rules'[j] : j \in Engine!Id} \ {0}
          BY DEF Engine!Listed
    <3>2. \A j \in Engine!Id : j # i /\ rules[j] # 0 => rules[j] # rules[i]
          BY <1>t DEF Running
    <3> QED BY <1>1, <3>1, <3>2 DEF Engine!Listed
  <2> QED BY <1>1, <1>2, <2>1, <1>t DEF Running, ObjectsOK
<1>5. Subscribing' /\ Engine!NoLeak'
      BY <1>1, <1>2, <1>t DEF Subscribing, Engine!NoLeak, ObjectsOK
<1> QED BY <1>3, <1>4, <1>5 DEF ObjectsInv

\* The thing of a trigger is there: its start or its stop ends.
LEMMA ObjectRuns ==
  ASSUME ObjectsInv, NEW o \in Engine!Object, Engine!Started(o) \/ Engine!Stopped(o)
  PROVE  ObjectsInv'
<1> USE EngineBounds DEF EngineAssumed, Engine!KindsAssumption
<1>t. ObjectsOK /\ Running /\ Subscribing /\ Engine!NoLeak
      BY DEF ObjectsInv
<1>1. UNCHANGED <<rules, objects, content, listening, stopped>>
      BY DEF Engine!Started, Engine!Stopped, Engine!tableVars
<1>2. Running'
      BY <1>1, <1>t DEF Running, Engine!Listed
<1>3. CASE Engine!Started(o)
  <2>1. /\ o \in starting /\ starting' = starting \ {o} /\ stopping' = stopping
        /\ subscribed' = IF content[o] \in EventRule
            /\ o \notin stopped THEN subscribed \union {o} ELSE subscribed
        BY <1>3 DEF Engine!Started, Engine!Subscribes
  <2> QED BY <1>1, <1>2, <2>1, <1>t DEF ObjectsInv, ObjectsOK, Subscribing, Engine!NoLeak
<1>4. CASE Engine!Stopped(o)
  <2>1. stopping' = stopping \ {o} /\ subscribed' = subscribed \ {o} /\ starting' = starting
        BY <1>4 DEF Engine!Stopped
  <2> QED BY <1>1, <1>2, <2>1, <1>t DEF ObjectsInv, ObjectsOK, Subscribing, Engine!NoLeak
<1> QED BY <1>3, <1>4

\* A step that leaves the objects alone.
LEMMA ObjectsStay ==
  ASSUME ObjectsInv, UNCHANGED <<rules, objects, content, Engine!ruleVars>>
  PROVE  ObjectsInv'
BY DEF Engine!ruleVars, ObjectsInv, ObjectsOK, Running, Subscribing, Engine!NoLeak, Engine!Listed

\* The identifier of a new row was free.
LEMMA FreshRow ==
  ASSUME LoadInv, Engine!FreshId \in Engine!Id
  PROVE  table[Engine!FreshId] = None
<1> USE EngineBounds DEF EngineAssumed, Engine!BoundsAssumption
<1> DEFINE Above(i) == \A j \in Engine!Id : table[j] # None => j < i
           Fits(i) == Above(i) /\ (i = 1 \/ table[i - 1] # None)
           Free == {i \in 1 .. MaxId + 1 : Above(i)}
<1>1. Engine!FreshId = CHOOSE i \in 1 .. MaxId + 1 : Fits(i)
      BY DEF Engine!FreshId
<1>2. MaxId + 1 \in Free
      BY DEF Engine!Id
<1>3. PICK i \in Free : \A k \in Free : i <= k
  <2>1. Free \subseteq Nat /\ Free # {}
        BY <1>2
  <2> QED BY <2>1, NatMin
<1>4. i = 1 \/ table[i - 1] # None
  <2> SUFFICES ASSUME i # 1, table[i - 1] = None PROVE FALSE
      OBVIOUS
  <2>1. i - 1 \in 1 .. MaxId + 1 /\ ~(i <= i - 1) /\ i \in Nat
        BY <1>3
  <2>2. \A j \in Engine!Id : table[j] # None => j < i /\ j # i - 1 /\ j \in Nat
        BY <1>3 DEF Engine!Id
  <2>3. Above(i - 1)
        BY <2>1, <2>2
  <2>4. i - 1 \in Free
        BY <2>1, <2>3
  <2> QED BY <2>1, <2>4, <1>3
<1>5. Fits(i) /\ i \in 1 .. MaxId + 1
      BY <1>3, <1>4
<1> HIDE DEF Fits
<1>6. Fits(Engine!FreshId)
      BY <1>1, <1>5
<1>7. Engine!FreshId \in Nat
      BY DEF Engine!Id
<1> USE DEF Fits
<1>8. table[Engine!FreshId] # None => Engine!FreshId < Engine!FreshId
      BY <1>6
<1> QED BY <1>7, <1>8

\* What a request asks for, while the database works.
LEMMA AskedStays ==
  ASSUME RequestsInv, ObjectsOK, LoadInv, [Engine!Next]_engineVars
  PROVE  RequestsAsk'
<1> USE EngineBounds DEF EngineAssumed, Engine!BoundsAssumption, Engine!NoneAssumption
<1>t. RequestsOK /\ RequestsAsk /\ LoadOK /\ Loaded
      BY DEF RequestsInv, LoadInv
<1>1. ASSUME NEW l \in Loader, Engine!LoadBegin(l) \/ Engine!LoadRead(l) \/ Engine!LoadEnd(l)
        \/ \E i \in Engine!Id : Engine!LoadNext(l, i)
      PROVE RequestsAsk'
  <2>1. UNCHANGED Engine!requestVars /\ (loaded => loaded')
        BY <1>1
           DEF Engine!LoadBegin, Engine!LoadRead, Engine!LoadEnd, Engine!LoadNext,
               Engine!tableVars
  <2>2. loaded => \A k \in Loader, i \in Engine!Id : rows[k][i] = None => rows'[k][i] = None
    <3>1. CASE rows' = rows
          BY <3>1
    <3>2. CASE Engine!LoadRead(l)
          BY <3>2, <1>t DEF Engine!LoadRead, Loaded
    <3>3. ASSUME NEW i \in Engine!Id, Engine!LoadNext(l, i) PROVE \A k \in Loader,
            j \in Engine!Id : rows[k][j] = None => rows'[k][j] = None
          BY <3>3, <1>t DEF Engine!LoadNext, LoadOK
    <3> QED BY <1>1, <3>1, <3>2, <3>3 DEF Engine!LoadBegin, Engine!LoadEnd
  <2> QED BY <2>1, <2>2, <1>t DEF RequestsAsk, Engine!requestVars
<1>2. ASSUME NEW r \in Engine!Request, NEW c \in Engine!Content, Engine!BeginAdd(r, c)
      PROVE  RequestsAsk'
      BY <1>2, <1>t
         DEF Engine!BeginAdd, Engine!tableVars, Engine!loadVars, RequestsAsk, RequestsOK
<1>3. ASSUME NEW r \in Engine!Request, NEW i \in Engine!Id,
      NEW c \in Engine!Content \union {None}, Engine!BeginChange(r, i, c)
      PROVE  RequestsAsk'
  <2>1. UNCHANGED <<rows, loaded, rules>>
        BY <1>3 DEF Engine!BeginChange, Engine!tableVars, Engine!loadVars
  <2>2. /\ given' = [given EXCEPT ![r] = c] /\ target' = [target EXCEPT ![r] = i]
        /\ op' = [op EXCEPT ![r] = IF ~loaded \/ rules[i] = 0 THEN "not_found"
                                   ELSE IF r \in Update THEN "updating" ELSE "deleting"]
        BY <1>3 DEF Engine!BeginChange
  <2>3. (r \in Update /\ c # None) \/ (r \in Delete /\ c = None)
        BY <1>3 DEF Engine!BeginChange
  <2>4. \A q \in Engine!Request : q # r
          => op'[q] = op[q] /\ given'[q] = given[q] /\ target'[q] = target[q]
        BY <2>2, <1>t DEF RequestsOK
  <2>5. given'[r] = c /\ target'[r] = i
        BY <2>2, <1>t DEF RequestsOK
  <2>6. op'[r] \in {"not_found", "updating", "deleting"}
        BY <2>2, <1>t DEF RequestsOK
  <2>7. CASE ~loaded \/ rules[i] = 0
    <3>1. op'[r] = "not_found"
          BY <2>2, <2>7, <1>t DEF RequestsOK
    <3> QED BY <3>1, <2>1, <2>4, <1>t DEF RequestsAsk
  <2>8. CASE loaded /\ rules[i] # 0
    <3>1. op'[r] = IF r \in Update THEN "updating" ELSE "deleting"
          BY <2>2, <2>8, <1>t DEF RequestsOK
    <3>2. \A l \in Loader : rows[l][i] = None
          BY <2>8, <1>t DEF Loaded
    <3>3. op'[r] = "updating" => c \in Engine!Content
          BY <3>1, <2>3 DEF Engine!KindsAssumption
    <3> QED BY <3>1, <3>2, <3>3, <2>1, <2>4, <2>5, <2>6, <2>8, <1>t DEF RequestsAsk
  <2> QED BY <2>7, <2>8
<1>4. ASSUME NEW r \in Engine!Request, Engine!Inserted(r) \/ Engine!Updated(r)
        \/ Engine!Deleted(r)
      PROVE  RequestsAsk'
  <2>1. PICK a \in {"hung", "starting", "not_found", "ok"} : op' = [op EXCEPT ![r] = a]
        BY <1>4 DEF Engine!Inserted, Engine!Updated, Engine!Deleted
  <2>2. /\ given' = given /\ loaded' = loaded /\ rows' = rows
        /\ \A q \in Engine!Request : q # r => target'[q] = target[q]
        BY <1>4, <1>t
           DEF Engine!Inserted, Engine!Updated, Engine!Deleted, RequestsOK, Engine!loadVars
  <2>3. op'[r] = a /\ \A q \in Engine!Request : q # r => op'[q] = op[q]
        BY <2>1, <1>t DEF RequestsOK
  <2> QED BY <2>2, <2>3, <1>t DEF RequestsAsk
<1>5. ASSUME NEW o \in Engine!Object, Engine!Started(o) PROVE RequestsAsk'
  <2>1. \A r \in Engine!Request : op'[r] = op[r] \/ op'[r] \in {"ok", "hung", "not_found"}
        BY <1>5 DEF Engine!Started
  <2>2. UNCHANGED <<given, target, loaded, rows>>
        BY <1>5 DEF Engine!Started, Engine!tableVars
  <2> QED BY <2>1, <2>2, <1>t DEF RequestsAsk
<1>6. ASSUME NEW o \in Engine!Object, Engine!Stopped(o) PROVE RequestsAsk'
      BY <1>6, <1>t
         DEF Engine!Stopped, Engine!tableVars, Engine!loadVars, Engine!requestVars, RequestsAsk
<1>7. CASE UNCHANGED engineVars
      BY <1>7, <1>t
         DEF engineVars, Engine!tableVars, Engine!loadVars, Engine!requestVars, RequestsAsk
<1> QED BY <1>1, <1>2, <1>3, <1>4, <1>5, <1>6, <1>7
        DEF Engine!Next, Engine!LoadStep, Engine!Begin, Engine!DatabaseStep, Engine!ThingStep

\* A row of the table changes together with what is listed under its id.
LEMMA RowKept ==
  ASSUME LoadInv, loaded, OneLoader, NEW i \in Engine!Id, NEW c \in Engine!Content \union {None},
         table' = [table EXCEPT ![i] = c], UNCHANGED <<loaded, load, rows, current>>,
         \A l \in Loader : rows[l][i] = None,
         \A j \in Engine!Id : j # i => rules'[j] = rules[j],
         \A j \in Engine!Id : rules[j] # 0 => content'[rules[j]] = content[rules[j]],
         IF c = None THEN rules'[i] = 0 ELSE rules'[i] # 0 /\ content'[rules'[i]] = c
  PROVE  LoadInv'
<1>t. LoadOK /\ Loaded
      BY DEF LoadInv
<1>1. LoadOK'
      BY <1>t DEF LoadOK
<1>2. \A l \in Loader : load[l] \notin {"new", "reading"}
      BY <1>t DEF Loaded
<1>3. \A l \in Loader, j \in Engine!Id : IF rules'[j] = 0 THEN table'[j] = rows'[l][j]
                                         ELSE table'[j] = content'[rules'[j]]
                                             /\ rows'[l][j] = None
      BY <1>t DEF Loaded, LoadOK
<1> QED BY <1>1, <1>2, <1>3, <1>t DEF LoadInv, Loaded

\* The row is inserted (Engine.addRule).
LEMMA InsertedKeeps ==
  ASSUME EngineInv, OneLoader, NEW r \in Engine!Request, Engine!Inserted(r)
  PROVE  EngineInv'
<1> USE EngineBounds DEF EngineAssumed, Engine!BoundsAssumption, Engine!NoneAssumption
<1>t. ObjectsInv /\ RequestsInv /\ LoadInv
      BY EngineParts
<1> DEFINE i == Engine!FreshId
<1>1. i \in Engine!Id /\ table[i] = None
      BY <1>t, FreshRow DEF Engine!Inserted
<1>2. given[r] \in Engine!Content /\ op[r] = "inserting"
      BY <1>t DEF Engine!Inserted, RequestsInv, RequestsAsk
<1>3. UNCHANGED <<loaded, subscribed, load, rows, current, given>>
      /\ table' = [table EXCEPT ![i] = given[r]] /\ target' = [target EXCEPT ![r] = i]
      BY DEF Engine!Inserted, Engine!loadVars
<1> HIDE DEF i
<1>4. CASE loaded
  <2>1. /\ Engine!Make(given[r]) /\ rules' = [rules EXCEPT ![i] = Engine!New]
        /\ Engine!StartAndStop(given[r], {})
        /\ op' = [op EXCEPT ![r] = "starting"] /\ made' = [made EXCEPT ![r] = Engine!New]
        BY <1>4 DEF Engine!Inserted, i
  <2>2. \A l \in Loader : rows[l][i] = None
        BY <1>1, <1>4, <1>t DEF LoadInv, Loaded, ObjectsInv, Running
  <2>3. rules[i] = 0
        BY <1>1, <1>4, <1>t, OneLoader DEF LoadInv, Loaded, ObjectsInv, Running, OneLoader
  <2>4. Engine!StartAndStop(given[r], {rules[i]} \ {0})
    <3>1. {rules[i]} \ {0} = {}
          BY <2>3
    <3> QED BY <2>1, <3>1, Zenon
  <2>5. /\ ObjectsInv' /\ Engine!New \in Engine!Object /\ rules'[i] = Engine!New
        /\ Engine!New # 0 /\ content'[Engine!New] = given[r]
        /\ \A j \in Engine!Id : j # i => rules'[j] = rules[j]
        /\ \A j \in Engine!Id : rules[j] # 0 => content'[rules[j]] = content[rules[j]]
        BY <1>1, <1>2, <1>3, <1>t, <2>1, <2>4, ObjectMade
  <2>6. LoadInv'
        BY <1>1, <1>2, <1>3, <1>4, <1>t, <2>2, <2>5, RowKept
  <2>7. RequestsOK'
        BY <1>1, <1>2, <1>3, <1>t, <2>1, <2>5
           DEF RequestsInv, RequestsOK, Engine!Id, Engine!Object
  <2>8. RequestsAsk'
        BY <1>t, AskedStays DEF Engine!Next, Engine!DatabaseStep, ObjectsInv
  <2> QED BY <2>5, <2>6, <2>7, <2>8, EngineParts, EnginePartsAfter DEF RequestsInv
<1>5. CASE ~loaded
  <2>1. /\ op' = [op EXCEPT ![r] = "hung"]
        /\ UNCHANGED <<rules, objects, content, listening, starting, stopped, stopping, made>>
        BY <1>5 DEF Engine!Inserted
  <2>2. ObjectsInv'
        BY <1>3, <1>t, <2>1, ObjectsStay DEF Engine!ruleVars
  <2>3. LoadInv'
        BY <1>1, <1>2, <1>3, <1>5, <1>t, <2>1 DEF LoadInv, LoadOK, Loaded
  <2>4. RequestsOK'
        BY <1>1, <1>2, <1>3, <1>t, <2>1 DEF RequestsInv, RequestsOK, Engine!Id
  <2>5. RequestsAsk'
        BY <1>t, AskedStays DEF Engine!Next, Engine!DatabaseStep, ObjectsInv
  <2> QED BY <2>2, <2>3, <2>4, <2>5, EnginePartsAfter DEF RequestsInv
<1>6. loaded \in BOOLEAN
      BY <1>t DEF LoadInv, LoadOK
<1> QED BY <1>4, <1>5, <1>6

\* The row is updated (Engine.updateRule).
LEMMA UpdatedKeeps ==
  ASSUME EngineInv, OneLoader, NEW r \in Engine!Request, Engine!Updated(r)
  PROVE  EngineInv'
<1> USE EngineBounds DEF EngineAssumed, Engine!BoundsAssumption, Engine!NoneAssumption
<1>t. ObjectsInv /\ RequestsInv /\ LoadInv
      BY EngineParts
<1> DEFINE i == target[r]
<1>2. given[r] \in Engine!Content /\ op[r] = "updating" /\ i \in Engine!Id /\ loaded
      BY <1>t DEF Engine!Updated, RequestsInv, RequestsAsk
<1>3. UNCHANGED <<loaded, subscribed, load, rows, current, target, given>>
      /\ table' = [table EXCEPT ![i] = IF @ = None THEN None ELSE given[r]]
      BY DEF Engine!Updated, Engine!loadVars
<1>4. CASE rules[i] # 0
  <2>1. /\ Engine!Make(given[r]) /\ rules' = [rules EXCEPT ![i] = Engine!New]
        /\ Engine!StartAndStop(given[r], {rules[i]})
        /\ op' = [op EXCEPT ![r] = "starting"] /\ made' = [made EXCEPT ![r] = Engine!New]
        BY <1>4 DEF Engine!Updated
  <2> HIDE DEF i
  <2>2. (\A l \in Loader : rows[l][i] = None) /\ table[i] # None
        BY <1>2, <1>4, <1>t DEF LoadInv, Loaded, ObjectsInv, Running, OneLoader
  <2>4. Engine!StartAndStop(given[r], {rules[i]} \ {0})
    <3>1. {rules[i]} \ {0} = {rules[i]}
          BY <1>4
    <3> QED BY <2>1, <3>1, Zenon
  <2>5. /\ ObjectsInv' /\ Engine!New \in Engine!Object /\ rules'[i] = Engine!New
        /\ Engine!New # 0 /\ content'[Engine!New] = given[r]
        /\ \A j \in Engine!Id : j # i => rules'[j] = rules[j]
        /\ \A j \in Engine!Id : rules[j] # 0 => content'[rules[j]] = content[rules[j]]
        BY <1>2, <1>3, <1>t, <2>1, <2>4, ObjectMade
  <2>3. table' = [table EXCEPT ![i] = given[r]]
        BY <1>2, <1>3, <1>t, <2>2 DEF LoadInv, LoadOK
  <2>6. LoadInv'
        BY <1>2, <1>3, <1>t, <2>2, <2>3, <2>5, RowKept
  <2>7. RequestsOK'
        BY <1>2, <1>3, <1>t, <2>1, <2>5 DEF RequestsInv, RequestsOK, Engine!Object
  <2>8. RequestsAsk'
        BY <1>t, AskedStays DEF Engine!Next, Engine!DatabaseStep, ObjectsInv
  <2> QED BY <2>5, <2>6, <2>7, <2>8, EnginePartsAfter DEF RequestsInv
<1>5. CASE rules[i] = 0
  <2>1. /\ op' = [op EXCEPT ![r] = "not_found"]
        /\ UNCHANGED <<rules, objects, content, listening, starting, stopped, stopping, made>>
        BY <1>5 DEF Engine!Updated
  <2> HIDE DEF i
  <2>2. ObjectsInv'
        BY <1>3, <1>t, <2>1, ObjectsStay DEF Engine!ruleVars
  <2>3. table' = table
    <3>1. PICK l \in Loader : TRUE
          BY DEF OneLoader
    <3>2. rows[l][i] = None
          BY <1>2, <1>t, <3>1 DEF RequestsInv, RequestsAsk, i
    <3>3. table[i] = None
          BY <1>2, <1>5, <1>t, <3>2 DEF LoadInv, Loaded
    <3> QED BY <1>2, <1>3, <3>3, <1>t DEF LoadInv, LoadOK
  <2>6. LoadInv'
    <3>1. UNCHANGED <<table, loaded, load, rows, current, rules, content>>
          BY <1>3, <2>1, <2>3
    <3> QED BY <3>1, <1>t DEF LoadInv, LoadOK, Loaded
  <2>4. RequestsOK'
        BY <1>2, <1>3, <1>t, <2>1 DEF RequestsInv, RequestsOK
  <2>5. RequestsAsk'
        BY <1>t, AskedStays DEF Engine!Next, Engine!DatabaseStep, ObjectsInv
  <2> QED BY <2>2, <2>6, <2>4, <2>5, EnginePartsAfter DEF RequestsInv
<1> QED BY <1>4, <1>5

\* The row is deleted (Engine.deleteRule).
LEMMA DeletedKeeps ==
  ASSUME EngineInv, OneLoader, NEW r \in Engine!Request, Engine!Deleted(r)
  PROVE  EngineInv'
<1> USE EngineBounds DEF EngineAssumed, Engine!BoundsAssumption, Engine!NoneAssumption
<1>t. ObjectsInv /\ RequestsInv /\ LoadInv
      BY EngineParts
<1> DEFINE i == target[r]
<1>2. op[r] = "deleting" /\ i \in Engine!Id /\ loaded /\ \A l \in Loader : rows[l][i] = None
      BY <1>t DEF Engine!Deleted, RequestsInv, RequestsAsk
<1>3. /\ UNCHANGED <<loaded, objects, content, starting, subscribed, load, rows, current, target,
          given, made>>
      /\ table' = [table EXCEPT ![i] = None]
      BY DEF Engine!Deleted, Engine!loadVars
<1>5. RequestsAsk'
      BY <1>t, AskedStays DEF Engine!Next, Engine!DatabaseStep, ObjectsInv
<1>6. rules[i] = 0 \/ rules[i] # 0
      OBVIOUS
<1>7. PICK a \in {"ok", "not_found"} : op' = [op EXCEPT ![r] = a]
      BY DEF Engine!Deleted
<1>8. RequestsOK'
      BY <1>3, <1>7, <1>t DEF RequestsInv, RequestsOK
<1>9. ObjectsInv' /\ rules'[i] = 0 /\ \A j \in Engine!Id : j # i => rules'[j] = rules[j]
  <2>1. CASE rules[i] # 0
    <3>1. /\ listening' = listening \ {rules[i]} /\ stopped' = stopped \union {rules[i]}
          /\ stopping' = stopping
              \union ({rules[i]} \ {o \in Engine!Object : content[o] \in PropertyRule})
          /\ rules' = [rules EXCEPT ![i] = 0]
          BY <2>1 DEF Engine!Deleted
    <3> HIDE DEF i
    <3>2. ObjectsInv'
          BY <1>2, <1>3, <1>t, <2>1, <3>1, ObjectStopped
    <3> QED BY <1>2, <1>t, <3>1, <3>2 DEF ObjectsInv, ObjectsOK
  <2>2. CASE rules[i] = 0
    <3>1. UNCHANGED <<rules, listening, stopped, stopping>>
          BY <2>2 DEF Engine!Deleted
    <3>2. ObjectsInv'
          BY <1>3, <1>t, <3>1, ObjectsStay DEF Engine!ruleVars
    <3> QED BY <2>2, <3>1, <3>2
  <2> QED BY <2>1, <2>2
<1> HIDE DEF i
<1>10. LoadInv'
      BY <1>2, <1>3, <1>9, <1>t, RowKept
<1> QED BY <1>5, <1>8, <1>9, <1>10, EnginePartsAfter DEF RequestsInv

\* A request comes.
LEMMA BeginKeeps == ASSUME EngineInv, NEW r \in Engine!Request, Engine!Begin(r) PROVE EngineInv'
<1> USE EngineBounds DEF EngineAssumed, Engine!BoundsAssumption, Engine!NoneAssumption
<1>t. ObjectsInv /\ RequestsInv /\ LoadInv
      BY EngineParts
<1>1. UNCHANGED <<Engine!tableVars, Engine!ruleVars, Engine!loadVars, made>>
      BY DEF Engine!Begin, Engine!BeginAdd, Engine!BeginChange
<1>2. ObjectsInv'
      BY <1>1, <1>t, ObjectsStay DEF Engine!tableVars
<1>3. LoadInv'
      BY <1>1, <1>t DEF Engine!tableVars, Engine!loadVars, LoadInv, LoadOK, Loaded
<1>4. RequestsOK'
  <2>1. CASE \E c \in Engine!Content : Engine!BeginAdd(r, c)
        BY <2>1, <1>1, <1>t DEF Engine!BeginAdd, RequestsInv, RequestsOK
  <2>2. ASSUME NEW i \in Engine!Id, NEW c \in Engine!Content \union {None},
        Engine!BeginChange(r, i, c) PROVE RequestsOK'
        BY <2>2, <1>1, <1>t DEF Engine!BeginChange, RequestsInv, RequestsOK, Engine!Id
  <2> QED BY <2>1, <2>2 DEF Engine!Begin
<1>5. RequestsAsk'
      BY <1>t, AskedStays DEF Engine!Next, ObjectsInv
<1> QED BY <1>2, <1>3, <1>4, <1>5, EnginePartsAfter DEF RequestsInv

\* The rules are loaded (Engine.getRules).
LEMMA LoadKeeps ==
  ASSUME EngineInv, OneLoader, NEW l \in Loader, Engine!LoadStep(l)
  PROVE  EngineInv'
<1> USE EngineAssumed
   DEF EngineAssumed, Engine!BoundsAssumption, Engine!NoneAssumption, Engine!StoredAssumption
<1>t. ObjectsInv /\ RequestsInv /\ LoadInv
      BY EngineParts
<1>o. Loader = {l}
      BY DEF OneLoader
<1>r. UNCHANGED Engine!requestVars
      BY DEF Engine!LoadStep, Engine!LoadBegin, Engine!LoadRead, Engine!LoadEnd, Engine!LoadNext
<1>a. RequestsInv'
  <2>1. RequestsAsk'
        BY <1>t, AskedStays DEF Engine!Next, ObjectsInv
  <2> QED BY <2>1, <1>r, <1>t DEF Engine!requestVars, RequestsInv, RequestsOK
<1>1. CASE Engine!LoadBegin(l) \/ Engine!LoadEnd(l)
  <2>1. UNCHANGED <<Engine!tableVars, Engine!ruleVars, rows, current>>
        BY <1>1 DEF Engine!LoadBegin, Engine!LoadEnd
  <2>2. ObjectsInv'
        BY <2>1, <1>t, ObjectsStay DEF Engine!tableVars
  <2>3. LoadOK'
        BY <2>1, <1>1, <1>t
           DEF Engine!LoadBegin, Engine!LoadEnd, Engine!tableVars, LoadInv, LoadOK
  <2>4. load'[l] \in {"new", "reading"} <=> ~loaded'
        BY <2>1, <1>1, <1>t
           DEF Engine!LoadBegin, Engine!LoadEnd, Engine!tableVars, LoadInv, LoadOK, Loaded
  <2>5. load'[l] = "listed" => \A i \in Engine!Id : rows'[l][i] = None
    <3>1. CASE Engine!LoadEnd(l)
          BY <3>1, <2>1 DEF Engine!LoadEnd
    <3>2. CASE Engine!LoadBegin(l)
      <4>1. load'[l] # "listed"
            BY <3>2, <1>t DEF Engine!LoadBegin, LoadInv, LoadOK, Loaded
      <4> QED BY <4>1
    <3> QED BY <1>1, <3>1, <3>2
  <2>6. Loaded'
        BY <2>1, <2>4, <2>5, <1>o, <1>t DEF Engine!tableVars, LoadInv, Loaded
  <2> QED BY <2>2, <2>3, <2>6, <1>a, EnginePartsAfter DEF LoadInv
<1>2. CASE Engine!LoadRead(l)
  <2>1. /\ load[l] = "reading" /\ load' = [load EXCEPT ![l] = "loading"]
        /\ rows' = [rows EXCEPT ![l] = table] /\ loaded' = TRUE
        /\ rules' = [i \in Engine!Id |-> 0]
        /\ UNCHANGED <<table, objects, content, Engine!ruleVars, current>>
        BY <1>2 DEF Engine!LoadRead
  <2>2. rules' = rules
        BY <2>1, <1>t DEF LoadInv, Loaded, ObjectsInv, ObjectsOK
  <2>3. ObjectsInv'
        BY <2>1, <2>2, <1>t, ObjectsStay
  <2>4. LoadOK'
        BY <2>1, <1>t DEF LoadInv, LoadOK
  <2>5. load'[l] = "loading" /\ rows'[l] = table
        BY <2>1, <1>t DEF LoadInv, LoadOK
  <2>6. Loaded'
        BY <2>1, <2>5, <1>o DEF Loaded
  <2> QED BY <2>3, <2>4, <2>6, <1>a, EnginePartsAfter DEF LoadInv
<1>3. ASSUME NEW i \in Engine!Id, Engine!LoadNext(l, i) PROVE EngineInv'
  <2>1. /\ load[l] = "loading" /\ rows[l][i] # None /\ Engine!Make(rows[l][i])
        /\ rows' = [rows EXCEPT ![l][i] = None] /\ rules' = [rules EXCEPT ![i] = Engine!New]
        /\ Engine!StartAndStop(rows[l][i], {}) /\ current' = [current EXCEPT ![l] = Engine!New]
        /\ UNCHANGED <<table, loaded, subscribed, load>>
        BY <1>3 DEF Engine!LoadNext
  <2> DEFINE c == rows[l][i]
  <2>2. c \in Engine!Content /\ loaded
        BY <2>1, <1>t DEF LoadInv, LoadOK, Loaded
  <2>3. rules[i] = 0 /\ table[i] = c
        BY <2>1, <2>2, <1>t DEF LoadInv, Loaded
  <2>4. Engine!Make(c) /\ Engine!StartAndStop(c, {rules[i]} \ {0})
    <3>1. {rules[i]} \ {0} = {}
          BY <2>3
    <3> QED BY <2>1, <3>1, Zenon DEF c
  <2> HIDE DEF c
  <2>5. /\ ObjectsInv' /\ Engine!New \in Engine!Object /\ rules'[i] = Engine!New
        /\ Engine!New # 0 /\ content'[Engine!New] = c
        /\ \A j \in Engine!Id : j # i => rules'[j] = rules[j]
        /\ \A j \in Engine!Id : rules[j] # 0 => content'[rules[j]] = content[rules[j]]
        BY <2>1, <2>2, <2>4, <1>t, ObjectMade
  <2>6. rows'[l][i] = None /\ \A j \in Engine!Id : j # i => rows'[l][j] = rows[l][j]
        BY <2>1, <1>t DEF LoadInv, LoadOK
  <2>7. LoadOK'
    <3>1. rows' \in [Loader -> [Engine!Id -> Engine!Content \union {None}]]
          BY <2>1, <1>t DEF LoadInv, LoadOK
    <3>2. current' \in [Loader -> 0 .. MaxObject]
          BY <2>1, <2>5, <1>t DEF LoadInv, LoadOK, Engine!Object
    <3> QED BY <3>1, <3>2, <2>1, <1>t DEF LoadInv, LoadOK
  <2>8. \A j \in Engine!Id : IF rules'[j] = 0 THEN table'[j] = rows'[l][j]
                             ELSE table'[j] = content'[rules'[j]] /\ rows'[l][j] = None
        BY <2>1, <2>2, <2>3, <2>5, <2>6, <1>t DEF LoadInv, Loaded
  <2>9. Loaded'
        BY <2>1, <2>2, <2>8, <1>o, <1>t DEF LoadInv, Loaded
  <2> QED BY <2>5, <2>7, <2>9, <1>a, EnginePartsAfter DEF LoadInv
<1> QED BY <1>1, <1>2, <1>3 DEF Engine!LoadStep

\* A start or a stop ends.
LEMMA ThingKeeps ==
  ASSUME EngineInv, NEW o \in Engine!Object, Engine!ThingStep(o)
  PROVE  EngineInv'
<1> USE EngineBounds DEF EngineAssumed, Engine!BoundsAssumption
<1>t. ObjectsInv /\ RequestsInv /\ LoadInv
      BY EngineParts
<1>1. ObjectsInv'
      BY <1>t, ObjectRuns DEF Engine!ThingStep
<1>2. RequestsAsk'
      BY <1>t, AskedStays DEF Engine!Next, ObjectsInv
<1>3. UNCHANGED <<Engine!tableVars, rows, target, given, made>>
      BY DEF Engine!ThingStep, Engine!Started, Engine!Stopped, Engine!loadVars, Engine!requestVars
<1>4. RequestsOK'
  <2>1. CASE Engine!Started(o)
    <3>1. op' = [r \in Engine!Request |->
              IF ~(op[r] = "starting" /\ made[r] = o) THEN op[r]
              ELSE IF content[o] \notin Orphan THEN "ok"
              ELSE IF r \in Add THEN "hung" ELSE "not_found"]
          BY <2>1 DEF Engine!Started
    <3> QED BY <3>1, <1>3, <1>t DEF RequestsInv, RequestsOK
  <2>2. CASE Engine!Stopped(o)
        BY <2>2, <1>3, <1>t DEF Engine!Stopped, Engine!requestVars, RequestsInv, RequestsOK
  <2> QED BY <2>1, <2>2 DEF Engine!ThingStep
<1>5. LoadInv'
  <2>1. CASE Engine!Stopped(o)
        BY <2>1, <1>3, <1>t
           DEF Engine!Stopped, Engine!tableVars, Engine!loadVars, LoadInv, LoadOK, Loaded
  <2>2. CASE Engine!Started(o)
    <3>1. /\ current' = [l \in Loader |-> IF current[l] = o THEN 0 ELSE current[l]]
          /\ load' = [l \in Loader |-> IF current[l] = o
              /\ content[o] \in Orphan THEN "failed" ELSE load[l]]
          BY <2>2 DEF Engine!Started
    <3>2. LoadOK'
          BY <3>1, <1>3, <1>t DEF Engine!tableVars, LoadInv, LoadOK
    <3>3. \A l \in Loader : load'[l] = load[l] \/ (current[l] = o /\ load'[l] = "failed")
          BY <3>1
    <3>4. \A l \in Loader : load[l] \in {"new", "reading"} => current[l] = 0
          BY <1>t DEF LoadInv, Loaded
    <3>5. UNCHANGED <<table, loaded, rules, content, rows>>
          BY <1>3 DEF Engine!tableVars
    <3>6. \A l \in Loader : /\ load'[l] \in {"new", "reading"} <=> load[l] \in {"new", "reading"}
                            /\ load'[l] = "listed" => load[l] = "listed"
          BY <3>3, <3>4 DEF Engine!Object
    <3>7. \A l \in Loader : current'[l] = current[l] \/ current'[l] = 0
          BY <3>1
    <3>8. Loaded'
      <4>1. \A l \in Loader : load'[l] \in {"new", "reading"} <=> ~loaded'
            BY <3>5, <3>6, <1>t DEF LoadInv, Loaded
      <4>2. \A l \in Loader : load'[l] \in {"new", "reading"} => current'[l] = 0
            BY <3>4, <3>6, <3>7
      <4>3. \A l \in Loader : load'[l] = "listed" => \A i \in Engine!Id : rows'[l][i] = None
            BY <3>5, <3>6, <1>t DEF LoadInv, Loaded
      <4>4. /\ loaded' => \A l \in Loader, i \in Engine!Id :
                 IF rules'[i] = 0 THEN table'[i] = rows'[l][i]
                 ELSE table'[i] = content'[rules'[i]] /\ rows'[l][i] = None
            /\ ~loaded' => \A i \in Engine!Id : rules'[i] = 0
        <5> HIDE DEF Engine!Id
        <5> QED BY <3>5, <1>t DEF LoadInv, Loaded
      <4> QED BY <4>1, <4>2, <4>3, <4>4 DEF Loaded
    <3> QED BY <3>2, <3>8 DEF LoadInv
  <2> QED BY <2>1, <2>2 DEF Engine!ThingStep
<1> QED BY <1>1, <1>2, <1>4, <1>5, EnginePartsAfter DEF RequestsInv

\* The invariant holds at first.
LEMMA EngineStarts == ASSUME Engine!Init PROVE EngineInv
<1> USE EngineAssumed
   DEF EngineAssumed, Engine!BoundsAssumption, Engine!NoneAssumption, Engine!StoredAssumption
<1>1. ObjectsInv
  <2>1. Engine!Listed = {}
        BY DEF Engine!Init, Engine!Listed
  <2>2. ObjectsOK
        BY DEF Engine!Init, ObjectsOK
  <2> QED BY <2>1, <2>2 DEF Engine!Init, ObjectsInv, Running, Subscribing, Engine!NoLeak
<1>2. RequestsInv
      BY DEF Engine!Init, RequestsInv, RequestsOK, RequestsAsk
<1>3. LoadInv
  <2>1. LoadOK
    <3>1. table \in [Engine!Id -> Engine!Content \union {None}]
          BY DEF Engine!Init
    <3>2. load = [l \in Loader |-> "new"] /\ rows = [l \in Loader |-> [i \in Engine!Id |-> None]]
          /\ current = [l \in Loader |-> 0] /\ loaded = FALSE
          BY DEF Engine!Init
    <3>3. rows \in [Loader -> [Engine!Id -> Engine!Content \union {None}]]
          BY <3>2
    <3>4. /\ load \in [Loader -> {"new", "reading", "loading", "listed", "failed"}]
          /\ current \in [Loader -> 0 .. MaxObject]
          BY <3>2
    <3> QED BY <3>1, <3>2, <3>3, <3>4 DEF LoadOK
  <2>2. Loaded
        BY DEF Engine!Init, Loaded
  <2> QED BY <2>1, <2>2 DEF LoadInv
<1> QED BY <1>1, <1>2, <1>3, EngineParts

\* Every step keeps the invariant.
LEMMA EngineStep == ASSUME EngineInv, OneLoader, [Engine!Next]_engineVars PROVE EngineInv'
<1>1. CASE UNCHANGED engineVars
      BY <1>1
         DEF engineVars, Engine!tableVars, Engine!ruleVars, Engine!loadVars, Engine!requestVars,
             EngineInv, Engine!TypeOK, Running, Subscribing,
                  Loaded, RequestsAsk, Engine!NoLeak, Engine!Listed
<1>2. CASE Engine!Next
      BY <1>2, LoadKeeps, BeginKeeps, InsertedKeeps, UpdatedKeeps, DeletedKeeps, ThingKeeps
         DEF Engine!Next, Engine!DatabaseStep
<1> QED BY <1>1, <1>2

\* What the invariant says of the rules that run and of the table.
LEMMA EngineRuns ==
  ASSUME EngineInv, OneLoader
  PROVE  Engine!NoneLeftRunning /\ (NoneFailed => Engine!RunsWhatIsStored)
BY
   DEF EngineInv, OneLoader, Engine!NoneLeftRunning, Engine!NoGhost, NoneFailed,
       Engine!RunsWhatIsStored, Engine!Idle, Running, Loaded

\* A step is a step of this part, or leaves it alone.
LEMMA EngineMoves == [React \/ Manage \/ Log \/ Make]_ruleVars => [Engine!Next]_engineVars
BY DEF React, Manage, Log, Make, ruleVars, engineVars

\* What runs is listed, so that it can be stopped, and a trigger that was stopped, even while it
\* was starting, is in the end not subscribed: for any rules, requests and order of the
\* statements (Engine.updateRule, deleteRule, EventTrigger.start and stop).
THEOREM RulesStop == RulesSpec => [](OneLoader => NoneLeftRunning)
<1> DEFINE Inv == OneLoader => EngineInv
<1>1. RulesInit => Inv
      BY EngineStarts DEF RulesInit
<1>2. Inv /\ [React \/ Manage \/ Log \/ Make]_ruleVars => Inv'
      BY EngineMoves, EngineStep DEF OneLoader
<1>3. Inv => (OneLoader => NoneLeftRunning)
      BY EngineRuns DEF NoneLeftRunning
<1> HIDE DEF Inv
<1> QED BY <1>1, <1>2, <1>3, PTL DEF RulesSpec

\* When nothing is under way the engine runs exactly what the table holds, so that a restart
\* changes nothing, whatever the order of the statements was; unless a stored rule was about a
\* thing that is gone (Engine.getRules, addRule, updateRule, deleteRule).
THEOREM RulesAreStored == RulesSpec => [](OneLoader /\ NoneFailed => RunsWhatIsStored)
<1> DEFINE Inv == OneLoader => EngineInv
<1>1. RulesInit => Inv
      BY EngineStarts DEF RulesInit
<1>2. Inv /\ [React \/ Manage \/ Log \/ Make]_ruleVars => Inv'
      BY EngineMoves, EngineStep DEF OneLoader
<1>3. Inv => (OneLoader /\ NoneFailed => RunsWhatIsStored)
      BY EngineRuns DEF RunsWhatIsStored
<1> HIDE DEF Inv
<1> QED BY <1>1, <1>2, <1>3, PTL DEF RulesSpec

-----------------------------------------------------------------------------
(* The logs (MetricLogs).                                                  *)
\* What the constants of the logs are.
LogsAssumed == Logs!BoundsAssumption /\ Logs!NoMetricAssumption

\* They are what they must be.
LEMMA LogsBounds == LogsAssumed
BY PartsAssumption DEF PartsAssumption, LogsAssumed

\* What a request is.
RequestType == [stage : {"new", "inserting", "deleting", "answered"},
    metric : Metric \union {NoMetric},
                id : 0 .. MaxMetricId, left : SUBSET {"metricIds", "values"}]
\* The tables and the maps are typed.
LogsOK ==
  /\ metricIds \in [Logs!Id -> Metric \union {NoMetric}]
  /\ values \subseteq [id : Logs!Id, date : 1 .. MaxSamples]
  /\ idToDescr \in [Logs!Id -> Metric \union {NoMetric}]
  /\ descrToId \in [Metric -> 0 .. MaxMetricId]
  /\ inserting \subseteq [id : Logs!Id, date : 1 .. MaxSamples]
  /\ request \in [Logs!Request -> RequestType]
  /\ taken \in Seq(Metric)
\* An open request is about a metric.
LogsAsk == \A r \in Logs!Request : request[r].stage \in {"inserting", "deleting"}
    => request[r].metric \in Metric
\* While a metric is being removed no other request is open.
OneRemoval ==
  \A r, q \in Logs!Request : request[r].stage = "deleting" /\ q # r
                               => request[q].stage \notin {"inserting", "deleting"}
\* The metric m is being removed, with the id i.
RemovingOf(i, m) ==
  \E r \in Logs!Request :
      request[r].stage = "deleting" /\ request[r].id = i /\ request[r].metric = m
\* What the maps know is in the table, or on its way out.
LogsNamed ==
  /\ \A i \in Logs!Id : idToDescr[i] # NoMetric
      => metricIds[i] = idToDescr[i] \/ RemovingOf(i, idToDescr[i])
  /\ \A m \in Metric : descrToId[m] # 0
      => metricIds[descrToId[m]] = m \/ RemovingOf(descrToId[m], m)
\* A value belongs to the metric of its id, or is on its way out.
LogsKept == \A v \in values \union inserting :
              v.date \in 1 .. Len(taken)
                  /\ (metricIds[v.id] = taken[v.date] \/ Logs!Removing(v.id))
\* What a removal has done so far.
LogsLeave ==
  \A r \in Logs!Request : request[r].stage = "deleting" /\ request[r].id # 0 =>
    /\ metricIds[request[r].id] \in {request[r].metric, NoMetric}
    /\ "metricIds" \notin request[r].left => metricIds[request[r].id] = NoMetric
    /\ "values" \notin request[r].left => \A v \in values : v.id # request[r].id
    /\ \A v \in inserting : v.id # request[r].id
\* The inductive invariant of the logs.
LogsInv == LogsOK /\ LogsAsk /\ OneRemoval /\ LogsNamed /\ LogsKept /\ LogsLeave

\* A set of ids that is not empty has a highest one.
LEMMA IdMax ==
  ASSUME NEW T, T \subseteq Logs!Id, T # {}
  PROVE  \E x \in T : \A y \in T : y <= x
<1> USE LogsBounds DEF LogsAssumed, Logs!BoundsAssumption
<1> DEFINE U == {u \in Nat : \A t \in T : t <= u}
<1>1. MaxMetricId \in U /\ U \subseteq Nat
      BY DEF Logs!Id
<1>2. PICK u \in U : \A y \in U : u <= y
      BY <1>1, NatMin
<1>3. u \in T
  <2> SUFFICES ASSUME u \notin T PROVE FALSE
      OBVIOUS
  <2>1. \A t \in T : t <= u /\ t # u /\ t \in Nat /\ t >= 1
        BY <1>2 DEF Logs!Id
  <2>2. u >= 1 /\ u \in Nat
        BY <2>1, <1>2
  <2>3. u - 1 \in U
        BY <2>1, <2>2
  <2> QED BY <2>2, <2>3, <1>2
<1> QED BY <1>2, <1>3

\* The identifier of a new metric was free.
LEMMA FreshMetric ==
  ASSUME LogsOK, Logs!FreshId \in Logs!Id
  PROVE  metricIds[Logs!FreshId] = NoMetric
<1> USE LogsBounds DEF LogsAssumed, Logs!BoundsAssumption
<1> DEFINE Above(i) == \A j \in Logs!Id : j >= i => metricIds[j] = NoMetric
           Fits(i) == Above(i) /\ (i > 1 => metricIds[i - 1] # NoMetric)
           Free == {i \in 1 .. MaxMetricId + 1 : Above(i)}
<1>1. Logs!FreshId = CHOOSE i \in 1 .. MaxMetricId + 1 : Fits(i)
      BY DEF Logs!FreshId
<1>2. MaxMetricId + 1 \in Free
      BY DEF Logs!Id
<1>3. PICK i \in Free : \A k \in Free : i <= k
  <2>1. Free \subseteq Nat /\ Free # {}
        BY <1>2
  <2> QED BY <2>1, NatMin
<1>4. i > 1 => metricIds[i - 1] # NoMetric
  <2> SUFFICES ASSUME i > 1, metricIds[i - 1] = NoMetric PROVE FALSE
      OBVIOUS
  <2>1. i - 1 \in 1 .. MaxMetricId + 1 /\ ~(i <= i - 1) /\ i \in Nat
        BY <1>3
  <2>2. \A j \in Logs!Id : j >= i - 1 => j = i - 1 \/ j >= i
        BY <2>1 DEF Logs!Id
  <2>3. Above(i - 1)
        BY <2>2, <1>3
  <2>4. i - 1 \in Free
        BY <2>1, <2>3
  <2> QED BY <2>1, <2>4, <1>3
<1>5. Fits(i) /\ i \in 1 .. MaxMetricId + 1
      BY <1>3, <1>4
<1> HIDE DEF Fits
<1>6. Fits(Logs!FreshId)
      BY <1>1, <1>5
<1>7. Logs!FreshId \in Nat /\ Logs!FreshId >= Logs!FreshId
      BY DEF Logs!Id
<1> USE DEF Fits
<1> QED BY <1>6, <1>7

\* loadKnownMetrics tells the truth.
LEMMA KnownKeeps ==
  ASSUME LogsInv, Logs!KnownMetrics, UNCHANGED <<metricIds, request>>
  PROVE  /\ idToDescr' \in [Logs!Id -> Metric \union {NoMetric}]
         /\ descrToId' \in [Metric -> 0 .. MaxMetricId]
         /\ LogsNamed'
<1> USE LogsBounds DEF LogsAssumed, Logs!BoundsAssumption, Logs!NoMetricAssumption
<1>t. LogsOK /\ LogsNamed
      BY DEF LogsInv
<1>1. idToDescr' = [i \in Logs!Id |-> IF metricIds[i] # NoMetric THEN metricIds[i]
        ELSE idToDescr[i]]
      BY DEF Logs!KnownMetrics
<1>2. idToDescr' \in [Logs!Id -> Metric \union {NoMetric}]
      BY <1>1, <1>t DEF LogsOK
<1> DEFINE RowsOf(m) == {i \in Logs!Id : metricIds[i] = m}
           LastOf(m) == CHOOSE i \in Logs!Id : metricIds[i] = m /\ \A j \in Logs!Id :
               metricIds[j] = m => j <= i
<1>3. descrToId' = [m \in Metric |-> IF \E i \in Logs!Id : metricIds[i] = m THEN LastOf(m)
        ELSE descrToId[m]]
      BY DEF Logs!KnownMetrics
<1>4. ASSUME NEW m \in Metric, \E i \in Logs!Id : metricIds[i] = m
      PROVE  LastOf(m) \in Logs!Id /\ metricIds[LastOf(m)] = m
  <2>1. RowsOf(m) \subseteq Logs!Id /\ RowsOf(m) # {}
        BY <1>4
  <2>2. \E x \in RowsOf(m) : \A y \in RowsOf(m) : y <= x
        BY <2>1, IdMax
  <2>3. \E i \in Logs!Id : metricIds[i] = m /\ \A j \in Logs!Id : metricIds[j] = m => j <= i
        BY <2>2
  <2> QED BY <2>3
<1> HIDE DEF LastOf
<1>5. \A m \in Metric : \/ descrToId'[m] \in Logs!Id /\ metricIds[descrToId'[m]] = m
                        \/ descrToId'[m] = descrToId[m]
      BY <1>3, <1>4
<1>6. descrToId' \in [Metric -> 0 .. MaxMetricId]
      BY <1>3, <1>4, <1>t DEF LogsOK, Logs!Id
<1>7. \A i, m : RemovingOf(i, m)' <=> RemovingOf(i, m)
      BY DEF RemovingOf
<1>8. \A i \in Logs!Id : idToDescr'[i] # NoMetric
        => metricIds[i] = idToDescr'[i] \/ RemovingOf(i, idToDescr'[i])
      BY <1>1, <1>t DEF LogsNamed
<1>9. \A m \in Metric : descrToId'[m] # 0
        => metricIds[descrToId'[m]] = m \/ RemovingOf(descrToId'[m], m)
      BY <1>5, <1>t DEF LogsNamed
<1>10. LogsNamed'
      BY <1>7, <1>8, <1>9 DEF LogsNamed
<1> QED BY <1>2, <1>6, <1>10

\* The invariant holds at first.
LEMMA LogsStart == ASSUME Logs!Init PROVE LogsInv
<1> USE LogsBounds DEF LogsAssumed, Logs!BoundsAssumption
<1>1. /\ metricIds = [i \in Logs!Id |-> NoMetric] /\ values = {} /\ idToDescr = metricIds
      /\ descrToId = [m \in Metric |-> 0] /\ inserting = {}
      /\ request = [r \in Logs!Request |-> Logs!Stage("new")] /\ taken = <<>>
      BY DEF Logs!Init
<1>2. Logs!Stage("new") \in RequestType /\ Logs!Stage("new").stage = "new"
      BY DEF Logs!Stage, RequestType
<1> HIDE DEF Logs!Stage
<1>3. \A r \in Logs!Request : request[r] \in RequestType /\ request[r].stage = "new"
      BY <1>1, <1>2
<1>4. LogsOK
      BY <1>1, <1>3 DEF LogsOK
<1> QED BY <1>1, <1>3, <1>4 DEF LogsInv, LogsAsk, OneRemoval, LogsNamed, LogsKept, LogsLeave

\* A request at another stage.
LEMMA StageMade ==
  ASSUME NEW s \in {"new", "inserting", "deleting", "answered"}
  PROVE  Logs!Stage(s) \in RequestType /\ Logs!Stage(s).stage = s /\ Logs!Stage(s).id = 0
BY LogsBounds DEF LogsAssumed, Logs!BoundsAssumption, Logs!Stage, RequestType

\* A request of another kind, in the place of a request.
LEMMA RequestPut ==
  ASSUME LogsOK, NEW r \in Logs!Request, NEW x \in RequestType,
         request' = [request EXCEPT ![r] = x]
  PROVE  /\ request' \in [Logs!Request -> RequestType] /\ request'[r] = x
         /\ \A q \in Logs!Request : q # r => request'[q] = request[q]
BY DEF LogsOK

\* A metric is to be registered (Logs.registerMetric).
LEMMA RegisterBegins ==
  ASSUME LogsInv, ~Hasty, NEW r \in Logs!Request, NEW m \in Metric, Logs!BeginRegister(r, m)
  PROVE  LogsInv'
<1>t. LogsOK /\ LogsAsk /\ OneRemoval /\ LogsNamed /\ LogsKept /\ LogsLeave
      BY DEF LogsInv
<1> DEFINE y == [Logs!Stage("inserting") EXCEPT !.metric = m]
<1>1. y \in RequestType /\ y.stage = "inserting" /\ y.metric = m
      BY LogsBounds DEF LogsAssumed, Logs!BoundsAssumption, Logs!Stage, RequestType
<1> HIDE DEF y
<1>2. PICK x \in RequestType : /\ request' = [request EXCEPT ![r] = x]
                               /\ x.stage = "answered" \/ (x.stage = "inserting" /\ x.metric = m)
      BY <1>1, StageMade DEF Logs!BeginRegister, y
<1>3. request' \in [Logs!Request -> RequestType] /\ request'[r] = x
      /\ \A q \in Logs!Request : q # r => request'[q] = request[q]
      BY <1>2, <1>t, RequestPut
<1>4. /\ \A q \in Logs!Request : request[q].stage # "deleting"
      /\ UNCHANGED <<metricIds, values, idToDescr, descrToId, inserting, taken>>
      BY DEF Logs!BeginRegister, Logs!Pending
<1>5. \A q \in Logs!Request : request'[q].stage # "deleting"
      BY <1>2, <1>3, <1>4
<1>6. \A i, n : ~RemovingOf(i, n) /\ ~Logs!Removing(i)
      BY <1>4 DEF RemovingOf, Logs!Removing
<1>7. LogsOK' /\ LogsAsk'
      BY <1>2, <1>3, <1>4, <1>t DEF LogsOK, LogsAsk
<1>8. OneRemoval' /\ LogsLeave'
      BY <1>5 DEF OneRemoval, LogsLeave
<1>9. LogsNamed' /\ LogsKept'
      BY <1>4, <1>6, <1>t DEF LogsNamed, LogsKept
<1> QED BY <1>7, <1>8, <1>9 DEF LogsInv

\* Its row is inserted, under an id that was free.
LEMMA RegisterEnds ==
  ASSUME LogsInv, NEW r \in Logs!Request, Logs!EndRegister(r)
  PROVE  LogsInv'
<1> USE LogsBounds DEF LogsAssumed, Logs!NoMetricAssumption, Logs!BoundsAssumption
<1>t. LogsOK /\ LogsAsk /\ OneRemoval /\ LogsNamed /\ LogsKept /\ LogsLeave
      BY DEF LogsInv
<1> DEFINE m == request[r].metric
           i == Logs!FreshId
<1>1. /\ request[r].stage = "inserting" /\ i \in Logs!Id
      /\ metricIds' = [metricIds EXCEPT ![i] = m] /\ idToDescr' = [idToDescr EXCEPT ![i] = m]
      /\ descrToId' = [descrToId EXCEPT ![m] = i]
      /\ request' = [request EXCEPT ![r] = Logs!Stage("answered")]
      /\ UNCHANGED <<values, inserting, taken>>
      BY DEF Logs!EndRegister
<1>2. m \in Metric /\ metricIds[i] = NoMetric /\ i # 0 /\ i \in 0 .. MaxMetricId
      BY <1>1, <1>t, FreshMetric DEF LogsAsk, Logs!Id
<1>3. request' \in [Logs!Request -> RequestType] /\ request'[r].stage = "answered"
      /\ \A q \in Logs!Request : q # r => request'[q] = request[q]
      BY <1>1, <1>t, RequestPut, StageMade
<1>4. \A q \in Logs!Request : request[q].stage # "deleting" /\ request'[q].stage # "deleting"
  <2>1. \A q \in Logs!Request : q # r => request[q].stage # "deleting"
        BY <1>1, <1>t DEF OneRemoval
  <2> QED BY <1>1, <1>3, <2>1
<1>5. \A j, n : ~RemovingOf(j, n) /\ ~Logs!Removing(j)
      BY <1>4 DEF RemovingOf, Logs!Removing
<1> HIDE DEF m, i
<1>6. LogsOK'
      BY <1>1, <1>2, <1>3, <1>t DEF LogsOK
<1>7. LogsAsk'
      BY <1>3, <1>t DEF LogsAsk
<1>8. OneRemoval' /\ LogsLeave'
      BY <1>4 DEF OneRemoval, LogsLeave
<1>9. metricIds'[i] = m /\ idToDescr'[i] = m /\ descrToId'[m] = i
      /\ (\A j \in Logs!Id : j # i
          => metricIds'[j] = metricIds[j] /\ idToDescr'[j] = idToDescr[j])
      /\ (\A n \in Metric : n # m => descrToId'[n] = descrToId[n])
      BY <1>1, <1>2, <1>t DEF LogsOK
<1>10. LogsNamed'
  <2>1. \A j \in Logs!Id : idToDescr'[j] # NoMetric => metricIds'[j] = idToDescr'[j]
        BY <1>9, <1>5, <1>t DEF LogsNamed
  <2>2. \A n \in Metric : descrToId'[n] # 0 => metricIds'[descrToId'[n]] = n
    <3> TAKE n \in Metric
    <3>1. CASE n = m
          BY <1>9, <3>1
    <3>2. CASE n # m
      <4>1. descrToId'[n] # 0
              => metricIds[descrToId[n]] = n /\ descrToId[n] \in Logs!Id
                  /\ descrToId'[n] = descrToId[n]
            BY <1>5, <1>9, <3>2, <1>t DEF LogsNamed, LogsOK, Logs!Id
      <4>2. descrToId[n] = i => metricIds[descrToId[n]] = NoMetric
            BY <1>2
      <4> QED BY <4>1, <4>2, <1>9
    <3> QED BY <3>1, <3>2
  <2> QED BY <2>1, <2>2 DEF LogsNamed
<1>11. LogsKept'
  <2>1. \A v \in values \union inserting : v.id \in Logs!Id /\ v.date \in 1 .. Len(taken)
                                           /\ metricIds[v.id] = taken[v.date]
        BY <1>5, <1>t DEF LogsKept, LogsOK
  <2>2. \A v \in values \union inserting : taken[v.date] # NoMetric
        BY <2>1, <1>t DEF LogsOK
  <2>3. \A v \in values \union inserting : v.id # i
        BY <1>2, <2>1, <2>2
  <2> QED BY <1>1, <1>9, <2>1, <2>3 DEF LogsKept
<1> QED BY <1>6, <1>7, <1>8, <1>10, <1>11 DEF LogsInv

\* A metric is to be removed (Logs.unregisterMetric).
LEMMA UnregisterBegins ==
  ASSUME LogsInv, ~Hasty, NEW r \in Logs!Request, NEW m \in Metric, Logs!BeginUnregister(r, m)
  PROVE  LogsInv'
<1> USE LogsBounds DEF LogsAssumed, Logs!NoMetricAssumption, Logs!BoundsAssumption
<1>t. LogsOK /\ LogsAsk /\ OneRemoval /\ LogsNamed /\ LogsKept /\ LogsLeave
      BY DEF LogsInv
<1> DEFINE x == [stage |-> "deleting", metric |-> m, id |-> descrToId[m],
    left |-> {"metricIds", "values"}]
<1>1. /\ request' = [request EXCEPT ![r] = x]
      /\ \A q \in Logs!Request : request[q].stage \notin {"inserting", "deleting"}
      /\ \A v \in inserting : v.id # descrToId[m]
      /\ UNCHANGED <<metricIds, values, idToDescr, descrToId, inserting, taken>>
      BY DEF Logs!BeginUnregister, Logs!Pending
<1>2. x \in RequestType /\ x.stage = "deleting" /\ x.metric = m /\ x.id = descrToId[m]
      /\ x.left = {"metricIds", "values"}
      BY <1>t DEF RequestType, LogsOK
<1> HIDE DEF x
<1>3. request' \in [Logs!Request -> RequestType] /\ request'[r] = x
      /\ \A q \in Logs!Request : q # r => request'[q] = request[q]
      BY <1>1, <1>2, <1>t, RequestPut
<1>4. \A q \in Logs!Request : q # r => request'[q].stage \notin {"inserting", "deleting"}
      BY <1>1, <1>3
<1>5. \A j, n : ~RemovingOf(j, n) /\ ~Logs!Removing(j)
      BY <1>1 DEF RemovingOf, Logs!Removing
<1>6. LogsOK'
      BY <1>1, <1>3, <1>t DEF LogsOK
<1>7. LogsAsk' /\ OneRemoval'
      BY <1>2, <1>3, <1>4, <1>t DEF LogsAsk, OneRemoval
<1>8. LogsNamed'
  <2>1. /\ \A j \in Logs!Id : idToDescr[j] # NoMetric => metricIds[j] = idToDescr[j]
        /\ \A n \in Metric : descrToId[n] # 0 => metricIds[descrToId[n]] = n
        BY <1>5, <1>t DEF LogsNamed
  <2> QED BY <2>1, <1>1 DEF LogsNamed
<1>9. LogsKept'
      BY <1>1, <1>5, <1>t DEF LogsKept
<1>10. descrToId[m] # 0 => metricIds[descrToId[m]] = m
      BY <1>5, <1>t DEF LogsNamed
<1>11. LogsLeave'
      BY <1>1, <1>2, <1>3, <1>4, <1>10 DEF LogsLeave
<1> QED BY <1>6, <1>7, <1>8, <1>9, <1>11 DEF LogsInv

\* One of the statements that remove it ends; the last one clears the maps.
LEMMA RemovalKeeps ==
  ASSUME LogsInv, NEW r \in Logs!Request, NEW where \in {"metricIds", "values"},
         Logs!Deleted(r, where)
  PROVE  LogsInv'
<1> USE LogsBounds DEF LogsAssumed, Logs!NoMetricAssumption, Logs!BoundsAssumption
<1>t. LogsOK /\ LogsAsk /\ OneRemoval /\ LogsNamed /\ LogsKept /\ LogsLeave
      BY DEF LogsInv
<1> DEFINE i == request[r].id
           m == request[r].metric
           had == i # 0
           ends == request[r].left = {where}
           x == IF ends THEN Logs!Stage("answered") ELSE [request[r] EXCEPT !.left = @ \ {where}]
<1>1. /\ request[r].stage = "deleting" /\ where \in request[r].left
      /\ metricIds' = IF had
          /\ where = "metricIds" THEN [metricIds EXCEPT ![i] = NoMetric] ELSE metricIds
      /\ values' = IF had /\ where = "values" THEN {v \in values : v.id # i} ELSE values
      /\ request' = [request EXCEPT ![r] = x]
      /\ ends => /\ descrToId' = [descrToId EXCEPT ![m] = 0]
                 /\ idToDescr' = IF had THEN [idToDescr EXCEPT ![i] = NoMetric] ELSE idToDescr
      /\ ~ends => UNCHANGED <<descrToId, idToDescr>>
      /\ UNCHANGED <<inserting, taken>>
  <2>1. /\ request[r].stage = "deleting" /\ where \in request[r].left
        /\ metricIds' = IF had
            /\ where = "metricIds" THEN [metricIds EXCEPT ![i] = NoMetric] ELSE metricIds
        /\ values' = IF had /\ where = "values" THEN {v \in values : v.id # i} ELSE values
        /\ UNCHANGED <<inserting, taken>>
        BY DEF Logs!Deleted, Logs!DeleteValues
  <2>2. request' = [request EXCEPT ![r] = x]
        BY DEF Logs!Deleted
  <2>3. /\ ends => /\ descrToId' = [descrToId EXCEPT ![m] = 0]
                   /\ idToDescr' = IF had THEN [idToDescr EXCEPT ![i] = NoMetric] ELSE idToDescr
        /\ ~ends => UNCHANGED <<descrToId, idToDescr>>
        BY DEF Logs!Deleted
  <2> QED BY <2>1, <2>2, <2>3
<1>2. m \in Metric /\ i \in 0 .. MaxMetricId /\ (had => i \in Logs!Id)
        /\ request[r] \in RequestType
      BY <1>1, <1>t DEF LogsAsk, LogsOK, RequestType, Logs!Id
<1>3. x \in RequestType /\ (ends => x.stage = "answered")
      /\ (~ends
          => x.stage = "deleting" /\ x.metric = m /\ x.id = i
              /\ x.left = request[r].left \ {where})
      BY <1>1, <1>2, StageMade DEF RequestType
<1> HIDE DEF x
<1>4. request' \in [Logs!Request -> RequestType] /\ request'[r] = x
      /\ \A q \in Logs!Request : q # r => request'[q] = request[q]
      BY <1>1, <1>3, <1>t, RequestPut
<1>5. \A q \in Logs!Request : q # r => request[q].stage \notin {"inserting", "deleting"}
                                       /\ request'[q].stage \notin {"inserting", "deleting"}
      BY <1>1, <1>4, <1>t DEF OneRemoval
<1>6. /\ \A j, n : RemovingOf(j, n) <=> j = i /\ n = m
      /\ \A j : Logs!Removing(j) <=> j = i
      BY <1>1, <1>5 DEF RemovingOf, Logs!Removing
<1>7. ~ends => /\ \A j, n : RemovingOf(j, n)' <=> j = i /\ n = m
               /\ \A j : Logs!Removing(j)' <=> j = i
      BY <1>3, <1>4, <1>5 DEF RemovingOf, Logs!Removing
<1>8. had => /\ metricIds[i] \in {m, NoMetric}
             /\ "metricIds" \notin request[r].left => metricIds[i] = NoMetric
             /\ "values" \notin request[r].left => \A v \in values : v.id # i
             /\ \A v \in inserting : v.id # i
      BY <1>1, <1>t DEF LogsLeave
<1> HIDE DEF i, m, ends
<1>9. /\ \A j \in Logs!Id : j # i => metricIds'[j] = metricIds[j]
      /\ had
          => metricIds'[i] \in {m, NoMetric} /\ (where = "metricIds" => metricIds'[i] = NoMetric)
                /\ (metricIds[i] = NoMetric => metricIds'[i] = NoMetric)
      /\ values' \subseteq values /\ (had /\ where = "values" => \A v \in values' : v.id # i)
      BY <1>1, <1>2, <1>8, <1>t DEF LogsOK
<1>10. LogsOK'
  <2>1. metricIds' \in [Logs!Id -> Metric \union {NoMetric}]
    <3>1. metricIds' = metricIds \/ metricIds' = [metricIds EXCEPT ![i] = NoMetric]
          BY <1>1
    <3> QED BY <3>1, <1>t DEF LogsOK
  <2>2. descrToId' \in [Metric -> 0 .. MaxMetricId]
          /\ idToDescr' \in [Logs!Id -> Metric \union {NoMetric}]
    <3>1. descrToId' = descrToId \/ descrToId' = [descrToId EXCEPT ![m] = 0]
          BY <1>1
    <3>2. idToDescr' = idToDescr \/ idToDescr' = [idToDescr EXCEPT ![i] = NoMetric]
          BY <1>1
    <3>3. descrToId' \in [Metric -> 0 .. MaxMetricId]
          BY <3>1, <1>t DEF LogsOK
    <3>4. idToDescr' \in [Logs!Id -> Metric \union {NoMetric}]
          BY <3>2, <1>t DEF LogsOK
    <3> QED BY <3>3, <3>4
  <2> QED BY <2>1, <2>2, <1>1, <1>4, <1>9, <1>t DEF LogsOK
<1>11. LogsAsk' /\ OneRemoval'
      BY <1>2, <1>3, <1>4, <1>5 DEF LogsAsk, OneRemoval
<1>12. LogsLeave'
  <2>1. CASE ends
        BY <2>1, <1>3, <1>4, <1>5 DEF LogsLeave
  <2>2. CASE ~ends
        BY <2>2, <1>1, <1>3, <1>4, <1>5, <1>8, <1>9 DEF LogsLeave
  <2> QED BY <2>1, <2>2
<1>13. ends /\ had => metricIds'[i] = NoMetric /\ \A v \in values' \union inserting : v.id # i
  <2>1. ends => /\ where = "metricIds" => "values" \notin request[r].left
                /\ where = "values" => "metricIds" \notin request[r].left
        BY DEF ends
  <2> QED BY <2>1, <1>8, <1>9
<1>14. LogsKept'
  <2>1. \A v \in values' \union inserting' : v \in values \union inserting /\ v.id \in Logs!Id
        BY <1>1, <1>9, <1>t DEF LogsOK
  <2>2. \A v \in values' \union inserting' : v.date \in 1 .. Len(taken')
        BY <2>1, <1>1, <1>t DEF LogsKept
  <2>3. \A v \in values' \union inserting' : v.id # i => metricIds'[v.id] = taken'[v.date]
        BY <2>1, <1>1, <1>6, <1>9, <1>t DEF LogsKept
  <2>4. \A v \in values' \union inserting' : v.id = i => ~ends
    <3>1. ~had => i \notin Logs!Id
          BY DEF Logs!Id
    <3> QED BY <3>1, <2>1, <1>1, <1>13
  <2> QED BY <2>2, <2>3, <2>4, <1>7 DEF LogsKept
<1>15. LogsNamed'
  <2>1. \A j \in Logs!Id : idToDescr[j] # NoMetric /\ j # i => metricIds'[j] = idToDescr[j]
        BY <1>6, <1>9, <1>t DEF LogsNamed
  <2>2. \A n \in Metric : descrToId[n] # 0 => descrToId[n] \in Logs!Id
        BY <1>t DEF LogsOK, Logs!Id
  <2>3. \A n \in Metric : descrToId[n] # 0 /\ n # m => metricIds[descrToId[n]] = n
        BY <1>6, <1>t DEF LogsNamed
  <2>4. \A n \in Metric : descrToId[n] # 0 /\ n # m => descrToId[n] # i
        BY <1>8, <2>3
  <2>5. \A n \in Metric : descrToId[n] # 0 /\ n # m => metricIds'[descrToId[n]] = n
        BY <2>2, <2>3, <2>4, <1>9
  <2>6. CASE ends
    <3>1. descrToId'[m] = 0 /\ \A n \in Metric : n # m => descrToId'[n] = descrToId[n]
          BY <2>6, <1>1, <1>2, <1>t DEF LogsOK
    <3>2. \A j \in Logs!Id : j # i => idToDescr'[j] = idToDescr[j]
          BY <2>6, <1>1, <1>2, <1>t DEF LogsOK
    <3>3. had => idToDescr'[i] = NoMetric
          BY <2>6, <1>1, <1>2, <1>t DEF LogsOK
    <3>4. ~had => i \notin Logs!Id
          BY DEF Logs!Id
    <3> QED BY <3>1, <3>2, <3>3, <3>4, <2>1, <2>5 DEF LogsNamed
  <2>7. CASE ~ends
    <3>1. UNCHANGED <<descrToId, idToDescr>>
          BY <2>7, <1>1
    <3>2. i \in Logs!Id /\ idToDescr[i] # NoMetric => idToDescr[i] = m
      <4>1. i \in Logs!Id => had
            BY DEF Logs!Id
      <4> QED BY <4>1, <1>6, <1>8, <1>t DEF LogsNamed
    <3>3. \A j \in Logs!Id : idToDescr'[j] # NoMetric
            => metricIds'[j] = idToDescr'[j] \/ RemovingOf(j, idToDescr[j])'
          BY <3>1, <3>2, <2>1, <2>7, <1>7
    <3>4. descrToId[m] # 0 => metricIds'[descrToId[m]] = m \/ descrToId[m] = i
          BY <2>2, <1>2, <1>6, <1>9, <1>t DEF LogsNamed
    <3>5. \A n \in Metric : descrToId'[n] # 0
            => metricIds'[descrToId'[n]] = n \/ RemovingOf(descrToId[n], n)'
          BY <3>1, <3>4, <2>5, <2>7, <1>7
    <3> QED BY <3>3, <3>5 DEF LogsNamed
  <2> QED BY <2>6, <2>7
<1> QED BY <1>10, <1>11, <1>12, <1>14, <1>15 DEF LogsInv

\* A value of a metric comes in (Logs.onPropertyChanged).
LEMMA ValueComes ==
  ASSUME LogsInv, ~Hasty, NEW m \in Metric, Logs!PropertyChanged(m)
  PROVE  LogsInv'
<1> USE LogsBounds DEF LogsAssumed, Logs!NoMetricAssumption, Logs!BoundsAssumption
<1>t. LogsOK /\ LogsAsk /\ OneRemoval /\ LogsNamed /\ LogsKept /\ LogsLeave
      BY DEF LogsInv
<1> DEFINE i == descrToId[m]
           v == [id |-> i, date |-> Len(taken) + 1]
<1>1. /\ Len(taken) < MaxSamples /\ i # 0 /\ taken' = Append(taken, m)
      /\ inserting' = inserting \union {v}
      /\ \A r \in Logs!Request : request[r].stage = "deleting" => request[r].id # i
      /\ UNCHANGED <<metricIds, values, idToDescr, descrToId, request>>
      BY DEF Logs!PropertyChanged
<1>2. i \in Logs!Id /\ ~Logs!Removing(i) /\ ~RemovingOf(i, m) /\ metricIds[i] = m
  <2>1. i \in Logs!Id
        BY <1>1, <1>t DEF LogsOK, Logs!Id
  <2> QED BY <2>1, <1>1, <1>t DEF Logs!Removing, RemovingOf, LogsNamed
<1>3. /\ taken' \in Seq(Metric) /\ Len(taken') = Len(taken) + 1 /\ taken'[Len(taken) + 1] = m
      /\ \A k \in 1 .. Len(taken) : taken'[k] = taken[k] /\ k \in 1 .. Len(taken')
      /\ Len(taken) \in Nat /\ Len(taken) + 1 \in 1 .. MaxSamples
      BY <1>1, <1>t DEF LogsOK
<1>4. v \in [id : Logs!Id, date : 1 .. MaxSamples] /\ v.id = i /\ v.date = Len(taken) + 1
      BY <1>2, <1>3
<1> HIDE DEF v, i
<1>5. LogsOK'
      BY <1>1, <1>3, <1>4, <1>t DEF LogsOK
<1>6. LogsAsk' /\ OneRemoval'
      BY <1>1, <1>t DEF LogsAsk, OneRemoval
<1>7. /\ \A j, n : RemovingOf(j, n)' <=> RemovingOf(j, n)
      /\ \A j : Logs!Removing(j)' <=> Logs!Removing(j)
      BY <1>1 DEF RemovingOf, Logs!Removing
<1>8. LogsNamed'
      BY <1>1, <1>7, <1>t DEF LogsNamed
<1>9. LogsLeave'
      BY <1>1, <1>4, <1>t DEF LogsLeave
<1>10. LogsKept'
  <2>1. \A w \in values \union inserting : w.date \in 1 .. Len(taken')
                                            /\ (metricIds'[w.id] = taken'[w.date]
                                                \/ Logs!Removing(w.id)')
        BY <1>1, <1>3, <1>7, <1>t DEF LogsKept
  <2>2. v.date \in 1 .. Len(taken') /\ metricIds'[v.id] = taken'[v.date]
        BY <1>1, <1>2, <1>3, <1>4
  <2> QED BY <2>1, <2>2, <1>1 DEF LogsKept
<1> QED BY <1>5, <1>6, <1>8, <1>9, <1>10 DEF LogsInv

\* Steps that move the values, or what is known, and no row.
LEMMA ValuesMove ==
  ASSUME LogsInv, values' \subseteq values \union inserting, inserting' \subseteq inserting,
         \A v \in values' : v \in values \/ v \in inserting,
         UNCHANGED <<metricIds, request, taken>>,
         UNCHANGED <<idToDescr, descrToId>> \/ Logs!KnownMetrics
  PROVE  LogsInv'
<1>t. LogsOK /\ LogsAsk /\ OneRemoval /\ LogsNamed /\ LogsKept /\ LogsLeave
      BY DEF LogsInv
<1>1. /\ \A j, n : RemovingOf(j, n)' <=> RemovingOf(j, n)
      /\ \A j : Logs!Removing(j)' <=> Logs!Removing(j)
      BY DEF RemovingOf, Logs!Removing
<1>2. /\ idToDescr' \in [Logs!Id -> Metric \union {NoMetric}]
      /\ descrToId' \in [Metric -> 0 .. MaxMetricId] /\ LogsNamed'
  <2>1. CASE Logs!KnownMetrics
        BY <2>1, KnownKeeps
  <2>2. CASE UNCHANGED <<idToDescr, descrToId>>
        BY <2>2, <1>1, <1>t DEF LogsNamed, LogsOK
  <2> QED BY <2>1, <2>2
<1>3. LogsOK'
      BY <1>2, <1>t DEF LogsOK
<1>4. LogsAsk' /\ OneRemoval'
      BY <1>t DEF LogsAsk, OneRemoval
<1>5. LogsKept'
      BY <1>1, <1>t DEF LogsKept
<1>6. LogsLeave'
      BY <1>t DEF LogsLeave
<1> QED BY <1>2, <1>3, <1>4, <1>5, <1>6 DEF LogsInv

\* Every step keeps the invariant.
LEMMA LogsStep == ASSUME LogsInv, ~Hasty, [Logs!Next]_logVars PROVE LogsInv'
<1>1. ASSUME NEW v \in inserting, Logs!Inserted(v) PROVE LogsInv'
      BY <1>1, ValuesMove DEF Logs!Inserted
<1>2. CASE Logs!ClearOld
      BY <1>2, ValuesMove DEF Logs!ClearOld
<1>3. ASSUME NEW k \in Logs!Reload, Logs!AnswerSchema(k) PROVE LogsInv'
      BY <1>3, ValuesMove DEF Logs!AnswerSchema
<1>4. CASE UNCHANGED Logs!serverVars
      BY <1>4, ValuesMove DEF Logs!serverVars
<1>5. Logs!StreamClosed
        \/ (\E k \in Logs!Reload : Logs!ShowLogs(k) \/ Logs!StreamAll(k) \/ Logs!AskSchema(k))
            \/ UNCHANGED logVars => UNCHANGED Logs!serverVars
      BY
         DEF Logs!StreamClosed, Logs!ShowLogs, Logs!StreamAll, Logs!AskSchema, logVars,
             Logs!serverVars
<1> QED BY <1>1, <1>2, <1>3, <1>4, <1>5, RegisterBegins, RegisterEnds, UnregisterBegins,
    RemovalKeeps, ValueComes
        DEF Logs!Next, Logs!ServerStep, Logs!ScreenStep

\* What the invariant says of the values.
LEMMA LogsBelong == ASSUME LogsInv PROVE Logs!ValuesBelong
BY DEF LogsInv, LogsKept, Logs!ValuesBelong

\* A step is a step of this part, or leaves it alone.
LEMMA LogsMove == [React \/ Manage \/ Log \/ Make]_ruleVars => [Logs!Next]_logVars
BY DEF React, Manage, Log, Make, ruleVars, logVars

\* The values stored under the id of a metric are its own, whatever metrics had the id before,
\* when nothing else comes in while one is removed (Logs.unregisterMetric, loadKnownMetrics).
THEOREM LogsSafe == RulesSpec => [](~Hasty => ValuesBelong)
<1> DEFINE Inv == ~Hasty => LogsInv
<1>1. RulesInit => Inv
      BY LogsStart DEF RulesInit
<1>2. Inv /\ [React \/ Manage \/ Log \/ Make]_ruleVars => Inv'
      BY LogsMove, LogsStep
<1>3. Inv => (~Hasty => ValuesBelong)
      BY LogsBelong DEF ValuesBelong
<1> HIDE DEF Inv
<1> QED BY <1>1, <1>2, <1>3, PTL DEF RulesSpec

-----------------------------------------------------------------------------
(* The page of rules (RuleEditor).                                         *)
\* What the constants of the page of rules are.
LEMMA EditorBounds ==
  /\ IsFiniteSet(Device) /\ IsFiniteSet(Outlet) /\ MaxRuleId \in Nat \ {0}
  /\ Device \cap (Outlet \cup {"clock", "note"}) = {}
  /\ DOMAIN EditorStored \subseteq 1 .. MaxRuleId
  /\ EditorStored \in [DOMAIN EditorStored -> Editor!Description]
BY PartsAssumption DEF PartsAssumption, Editor!EditorAssumption, Editor!IsFiniteSet, IsFiniteSet

\* What the page has, and what is sent.
BlockType == [of : Editor!Block, role : Editor!Role \cup {"removed"}, part : SUBSET Editor!Part,
    dom : BOOLEAN]
Change == [do : {"post", "put", "delete"}, n : Nat, id : Nat, d : Editor!Description]

\* The variables are typed.
EditTyped ==
  /\ DOMAIN saved \subseteq 1 .. MaxRuleId /\ saved \in [DOMAIN saved -> Editor!Description]
  /\ DOMAIN wanted \subseteq Nat /\ wanted \in [DOMAIN wanted -> Editor!Description]
  /\ things \subseteq Device \cup Outlet /\ known \subseteq Device \cup Outlet
  /\ page \in [n : Nat, id : Nat, d : Editor!Description]
  /\ blocks \in Seq(BlockType) /\ wish \in Editor!Type /\ shows \in Nat
  /\ line \in Seq(Change) /\ reading \in BOOLEAN
  /\ cards \subseteq [id : Nat, d : Editor!Description, checked : BOOLEAN]

\* A description is what the user has made, but for the parts of what is gone.
Agree(d, m, seen) ==
  /\ d.on = m.on /\ d.named = m.named /\ Editor!Wrapped(d).op = Editor!Wrapped(m).op
  /\ \A p \in d.parts \cup m.parts : Editor!There(p, seen) => (p \in d.parts <=> p \in m.parts)
  /\ Editor!Typed(d) => d.type = m.type

\* A later request than the j-th changes rule i.
Awaits(l, j, i) == \E k \in DOMAIN l : j < k /\ l[k].do = "put" /\ l[k].id = i

\* A rule is as it was made once all that is sent was served; one that is not made any more is
\* to be deleted, once.
RulesFollow ==
  /\ \A i \in DOMAIN saved \ DOMAIN wanted :
       \E k \in DOMAIN line : line[k].do = "delete" /\ line[k].id = i
  /\ \A i \in DOMAIN wanted \ {0} :
      i \in DOMAIN saved /\ (Agree(saved[i], wanted[i], things) \/ Awaits(line, 0, i))
  /\ \A k \in DOMAIN line : line[k].id \in DOMAIN wanted \ {0} =>
       /\ line[k].do = "put"
       /\ Agree(line[k].d, wanted[line[k].id], things) \/ Awaits(line, k, line[k].id)
  /\ \A k \in DOMAIN line : line[k].do = "delete" =>
       /\ line[k].id \in DOMAIN saved
       /\ \A l \in DOMAIN line : line[l].do = "delete" /\ line[l].id = line[k].id => l = k

\* The list: each card is of a rule that is there, as it was made; while the list is read only
\* rules that are gone are asked for.
ListRight ==
  at = "list" =>
    /\ loads = {} /\ 0 \notin DOMAIN wanted
    /\ \A k \in DOMAIN line : line[k].do # "post"
    /\ reading => \A k \in DOMAIN line : line[k].do = "put" /\ line[k].id \notin DOMAIN saved
    /\ ~reading => \A c \in cards : /\ c.id \in DOMAIN wanted /\ Agree(c.d, wanted[c.id], things)
                                    /\ \A e \in cards : e.id = c.id => e = c

\* The rule on the page is put together from its blocks, each with a part of its own.
PartsIn(bs) == UNION {b.part : b \in Editor!ToSet(bs)}
Single(b) == /\ b.part = {} \/ \E p \in b.part : b.part = {p}
             /\ b.role \in Editor!Role
             /\ b.of \notin Device => b.part # {}
BlocksRight(bs) ==
  /\ \A i \in DOMAIN bs : Single(bs[i])
  /\ \A i, j \in DOMAIN bs : i # j => bs[i].part \cap bs[j].part = {}
RuleRight == page.d.parts = PartsIn(blocks) /\ BlocksRight(blocks) /\ page.d.op # "none"

\* The page of a rule is opened.
IsLoad(l) ==
  /\ l \in [n : Nat \ {0}, id : Nat, d : Editor!Description, waits : SUBSET {"things", "rule"}]
  /\ "things" \notin l.waits => things \subseteq known
  /\ l.id = 0 => l.d = Editor!New /\ "rule" \notin l.waits
  /\ l.id # 0 => l.id \in DOMAIN saved \cap DOMAIN wanted
  /\ l.id # 0 /\ "rule" \notin l.waits => l.d = Editor!Wrapped(saved[l.id])
Opening ==
  /\ \E l \in loads : loads = {l} /\ IsLoad(l)
  /\ page = Editor!NoRule /\ wish = "Set" /\ line = <<>> /\ 0 \notin DOMAIN wanted
  /\ \A i \in DOMAIN blocks : blocks[i].role = "removed"

\* Its opening failed; the rule is to be stored; or it is.
Blank == loads = {} /\ page.n = 0 /\ page.id = 0 /\ line = <<>> /\ 0 \notin DOMAIN wanted
Posting ==
  /\ loads = {} /\ page.n # 0 /\ page.id = 0 /\ 0 \in DOMAIN wanted
  /\ Agree(page.d, wanted[0], things)
  /\ line = <<[do |-> "post", n |-> page.n, id |-> 0, d |-> page.d]>> /\ RuleRight
Editing ==
  /\ loads = {} /\ page.n # 0 /\ page.id # 0 /\ 0 \notin DOMAIN wanted
  /\ \A k \in DOMAIN line : line[k].do # "post" /\ line[k].id = page.id
  /\ page.id \in DOMAIN wanted => Agree(page.d, wanted[page.id], things)
  /\ RuleRight
PageRight == at = "rule" => ~reading /\ (Opening \/ Blank \/ Posting \/ Editing)

\* The inductive invariant of the editor.
EditInv == EditTyped /\ at \in {"list", "rule"} /\ RulesFollow /\ ListRight /\ PageRight

\* The rule that the page starts with when it makes one.
LEMMA NewIs == Editor!New \in Editor!Description /\ Editor!New.op = "AND"
    /\ Editor!New.parts = {} /\ Editor!New.type = "Set"
BY DEF Editor!New, Editor!Description, Editor!Type

\* What is made just as it is.
LEMMA AgreeSelf == ASSUME NEW d, NEW seen PROVE Agree(d, d, seen)
BY DEF Agree

\* Once nothing is under way, every rule has its id.
LEMMA QuietIs ==
  ASSUME EditInv, Editor!Quiet
  PROVE  line = <<>> /\ loads = {} /\ ~reading /\ DOMAIN line = {} /\ 0 \notin DOMAIN wanted
<1>1. line = <<>> /\ loads = {} /\ ~reading /\ DOMAIN line = {}
      BY DEF Editor!Quiet
<1>2. CASE at = "list"
      BY <1>1, <1>2 DEF EditInv, ListRight
<1>3. CASE at = "rule"
      <2>1. ~Posting
            <3> SUFFICES ASSUME Posting PROVE FALSE
                OBVIOUS
            <3>1. Len(line) = 1
                  BY DEF Posting
            <3> QED BY <1>1, <3>1
      <2> QED BY <1>1, <1>3, <2>1 DEF EditInv, PageRight, Opening, Blank, Editing
<1> QED BY <1>1, <1>2, <1>3 DEF EditInv

\* What the invariant says of the rules.
LEMMA SavedRight == lost \/ EditInv => Editor!SavedAsMade
<1> SUFFICES ASSUME EditInv, Editor!Quiet
             PROVE  [i \in DOMAIN saved |-> Editor!Now(saved[i])]
                      = [i \in DOMAIN wanted |-> Editor!Now(wanted[i])]
    BY DEF Editor!SavedAsMade
<1>1. line = <<>> /\ DOMAIN line = {}
      BY QuietIs
<1>2. 0 \notin DOMAIN wanted
      BY QuietIs
<1>3. DOMAIN saved = DOMAIN wanted
      BY <1>1, <1>2 DEF EditInv, RulesFollow
<1>4. ASSUME NEW i \in DOMAIN wanted PROVE Editor!Now(saved[i]) = Editor!Now(wanted[i])
      <2> DEFINE d == saved[i]
                 m == wanted[i]
                 P(x) == {p \in x.parts : Editor!There(p, things)}
      <2>1. Agree(d, m, things) /\ d \in Editor!Description /\ m \in Editor!Description
            BY <1>1, <1>2, <1>3, <1>4 DEF EditInv, RulesFollow, Awaits, EditTyped
      <2> HIDE DEF d, m
      <2>2. P(d) = P(m)
            BY <2>1 DEF Agree
      <2>3. ASSUME NEW x \in Editor!Description
            PROVE  Editor!Typed([x EXCEPT !.parts = P(x)])
                     <=> \E p \in P(x) : p.as = "effect" /\ p.of \in Device /\ p.value = 1
            BY DEF Editor!Typed, Editor!Description
      <2>4. Editor!Typed([d EXCEPT !.parts = P(d)]) <=> Editor!Typed([m EXCEPT !.parts = P(m)])
            BY <2>1, <2>2, <2>3
      <2>5. Editor!Typed([d EXCEPT !.parts = P(d)]) => d.type = m.type
            <3>1. Editor!Typed([d EXCEPT !.parts = P(d)]) => Editor!Typed(d)
                  BY <2>1, <2>3 DEF Editor!Typed
            <3> QED BY <2>1, <3>1 DEF Agree
      <2>6. ASSUME NEW x \in Editor!Description
            PROVE  /\ Editor!Now(x) = [on |-> x.on, named |-> x.named,
                                         op |-> Editor!Wrapped(x).op,
                                         type |-> IF Editor!Typed([x EXCEPT !.parts = P(x)])
                                                    THEN x.type ELSE "Set",
                                         parts |-> P(x)]
            <3> DEFINE t == IF Editor!Typed([x EXCEPT !.parts = P(x)]) THEN x.type ELSE "Set"
                       o == Editor!Wrapped(x).op
            <3>1. Editor!Wrapped(x) = [on |-> x.on, named |-> x.named, op |-> o,
                                       type |-> x.type, parts |-> x.parts]
                  BY DEF Editor!Wrapped, Editor!Description
            <3> HIDE DEF o
            <3>2. Editor!Wrapped(x).type = x.type
                  BY <3>1
            <3>3. Editor!Now(x) = [Editor!Wrapped(x) EXCEPT !.parts = P(x), !.type = t]
                  BY <3>2, Zenon DEF Editor!Now
            <3> DEFINE w == Editor!Wrapped(x)
                       n == Editor!Now(x)
            <3> HIDE DEF t, P, w, n
            <3>4. w = [on |-> x.on, named |-> x.named, op |-> o,
                       type |-> x.type, parts |-> x.parts]
                  BY <3>1 DEF w
            <3>5. n = [w EXCEPT !.parts = P(x), !.type = t]
                  BY <3>3 DEF w, n
            <3>6. n = [on |-> x.on, named |-> x.named, op |-> o,
                       type |-> t, parts |-> P(x)]
                  BY <3>4, <3>5
            <3> QED BY <3>6 DEF t, o, n
      <2>7. d.on = m.on /\ d.named = m.named /\ Editor!Wrapped(d).op = Editor!Wrapped(m).op
            BY <2>1 DEF Agree
      <2>8. Editor!Now(d) = Editor!Now(m)
            <3> HIDE DEF P
            <3> QED BY <2>1, <2>2, <2>4, <2>5, <2>6, <2>7
      <2> QED BY <2>8 DEF d, m
<1> QED BY <1>3, <1>4

\* No two members of a list are the same.
Apart(l) == \A i, j \in DOMAIN l : l[i] = l[j] => i = j

\* A list with one member less.
LEMMA LeftOut ==
  ASSUME NEW S, NEW l \in Seq(S), NEW i \in DOMAIN l
  PROVE  /\ Editor!RemoveAt(l, i) \in Seq(S) /\ Len(Editor!RemoveAt(l, i)) = Len(l) - 1
         /\ \A j \in 1 .. Len(l) - 1 :
              Editor!RemoveAt(l, i)[j] = IF j < i THEN l[j] ELSE l[j + 1]
<1>1. i \in 1 .. Len(l) /\ Len(l) \in Nat
      OBVIOUS
<1>2. SubSeq(l, 1, i - 1) \in Seq(S) /\ Len(SubSeq(l, 1, i - 1)) = i - 1
      BY <1>1
<1>3. SubSeq(l, i + 1, Len(l)) \in Seq(S) /\ Len(SubSeq(l, i + 1, Len(l))) = Len(l) - i
      BY <1>1
<1>4. \A j \in 1 .. i - 1 : SubSeq(l, 1, i - 1)[j] = l[j]
      BY <1>1
<1>5. \A j \in 1 .. Len(l) - i : SubSeq(l, i + 1, Len(l))[j] = l[i + j]
      BY <1>1
<1> DEFINE a == SubSeq(l, 1, i - 1)
           b == SubSeq(l, i + 1, Len(l))
<1>6. Editor!RemoveAt(l, i) = a \o b
      BY DEF Editor!RemoveAt
<1> HIDE DEF a, b
<1>7. a \in Seq(S) /\ b \in Seq(S) /\ Len(a) = i - 1 /\ Len(b) = Len(l) - i
      BY <1>2, <1>3 DEF a, b
<1>8. a \o b \in Seq(S) /\ Len(a \o b) = Len(l) - 1
      BY <1>1, <1>7
<1>9. ASSUME NEW j \in 1 .. Len(l) - 1
      PROVE  (a \o b)[j] = IF j < i THEN l[j] ELSE l[j + 1]
      <2>1. CASE j < i
            <3>1. (a \o b)[j] = a[j]
                  BY <1>1, <1>7, <2>1
            <3> QED BY <1>1, <1>4, <2>1, <3>1 DEF a
      <2>2. CASE ~(j < i)
            <3>1. (a \o b)[j] = b[j - (i - 1)]
                  BY <1>1, <1>7, <2>2
            <3>2. j - (i - 1) \in 1 .. Len(l) - i /\ i + (j - (i - 1)) = j + 1
                  BY <1>1, <2>2
            <3> QED BY <1>5, <2>2, <3>1, <3>2 DEF b
      <2> QED BY <2>1, <2>2
<1> QED BY <1>6, <1>8, <1>9

\* A finite set as a sequence: all its members, each once.
LEMMA AllOf ==
  ASSUME NEW S, IsFiniteSet(S)
  PROVE  /\ Editor!SetToSeq(S) \in Seq(S) /\ Len(Editor!SetToSeq(S)) = Cardinality(S)
         /\ Apart(Editor!SetToSeq(S)) /\ Editor!ToSet(Editor!SetToSeq(S)) = S
<1> DEFINE n == Cardinality(S)
           l == Editor!SetToSeq(S)
<1>1. n \in Nat /\ ExistsBijection(1 .. n, S)
      BY FS_CardinalityType
<1>2. \E f \in [1 .. n -> S] : IsInjective(f)
      <2> HIDE DEF n
      <2> QED BY <1>1 DEF ExistsBijection, Bijection, Injection
<1>3. l = CHOOSE f \in [1 .. n -> S] : IsInjective(f)
      BY Zenon DEF Editor!SetToSeq, Editor!IsInjective, IsInjective,
               Editor!Cardinality, Cardinality
<1>4. IsFiniteSet(1 .. n) /\ Cardinality(1 .. n) = n
      BY <1>1, FS_Interval
<1>5. n = Cardinality(S)
      OBVIOUS
<1> HIDE DEF n, l
<1>6. l \in [1 .. n -> S] /\ IsInjective(l)
      BY <1>2, <1>3
<1>7. l \in Injection(1 .. n, S)
      BY <1>6 DEF Injection
<1>8. l \in Surjection(1 .. n, S)
      BY <1>4, <1>5, <1>7, FS_Injection
<1>9. Editor!ToSet(l) = S
      BY <1>6, <1>8 DEF Surjection, Editor!ToSet
<1>10. l \in Seq(S) /\ Len(l) = n /\ Apart(l)
      BY <1>1, <1>6 DEF IsInjective, Apart
<1> QED BY <1>5, <1>9, <1>10 DEF l

\* What the parts of blocks are together.
LEMMA PartsAre ==
  ASSUME NEW bs, NEW p
  PROVE  p \in PartsIn(bs) <=> \E i \in DOMAIN bs : p \in bs[i].part
BY DEF PartsIn, Editor!ToSet

\* Blocks that differ in their parts have none in common.
LEMMA OnePart ==
  ASSUME NEW b, NEW c, Single(b), Single(c), b.part = {} \/ c.part # b.part
  PROVE  c.part \cap b.part = {}
<1> SUFFICES ASSUME NEW p \in c.part, p \in b.part PROVE FALSE
    OBVIOUS
<1>1. b.part = {p}
      BY DEF Single
<1>2. c.part = {p}
      BY DEF Single
<1> QED BY <1>1, <1>2

\* A block is added.
LEMMA BlockAdded ==
  ASSUME NEW bs \in Seq(BlockType), NEW b \in BlockType, BlocksRight(bs), Single(b),
         b.part = {} \/ \A j \in DOMAIN bs : bs[j].part # b.part
  PROVE  /\ Append(bs, b) \in Seq(BlockType) /\ BlocksRight(Append(bs, b))
         /\ PartsIn(Append(bs, b)) = PartsIn(bs) \cup b.part
<1> DEFINE cs == Append(bs, b)
<1>1. /\ cs \in Seq(BlockType) /\ Len(cs) = Len(bs) + 1 /\ Len(bs) \in Nat
      /\ DOMAIN bs = 1 .. Len(bs) /\ DOMAIN cs = 1 .. Len(bs) + 1
      /\ \A i \in DOMAIN bs : cs[i] = bs[i]
      /\ cs[Len(bs) + 1] = b
      OBVIOUS
<1> HIDE DEF cs
<1>2. \A i \in DOMAIN bs : bs[i].part \cap b.part = {}
      BY OnePart DEF BlocksRight
<1>3. \A i \in DOMAIN cs : (i \in DOMAIN bs /\ cs[i] = bs[i]) \/ (i = Len(bs) + 1 /\ cs[i] = b)
      BY <1>1
<1>4. BlocksRight(cs)
      <2>1. \A i \in DOMAIN cs : Single(cs[i])
            BY <1>3 DEF BlocksRight
      <2>2. \A i, j \in DOMAIN cs : i # j => cs[i].part \cap cs[j].part = {}
            BY <1>2, <1>3 DEF BlocksRight
      <2> QED BY <2>1, <2>2 DEF BlocksRight
<1>5. ASSUME NEW p PROVE p \in PartsIn(cs) <=> p \in PartsIn(bs) \cup b.part
      <2>1. p \in PartsIn(cs) <=> \E i \in DOMAIN cs : p \in cs[i].part
            BY PartsAre
      <2>2. p \in PartsIn(bs) <=> \E i \in DOMAIN bs : p \in bs[i].part
            BY PartsAre
      <2>3. Len(bs) + 1 \in DOMAIN cs /\ DOMAIN bs \subseteq DOMAIN cs
            BY <1>1
      <2> QED BY <1>1, <1>3, <2>1, <2>2, <2>3
<1>6. PartsIn(cs) = PartsIn(bs) \cup b.part
      BY <1>5
<1> QED BY <1>1, <1>4, <1>6 DEF cs

\* A block becomes another.
LEMMA BlockChanged ==
  ASSUME NEW bs \in Seq(BlockType), NEW b \in BlockType, BlocksRight(bs), Single(b),
         NEW i \in DOMAIN bs, b.part = {} \/ \A j \in DOMAIN bs \ {i} : bs[j].part # b.part
  PROVE  /\ [bs EXCEPT ![i] = b] \in Seq(BlockType) /\ BlocksRight([bs EXCEPT ![i] = b])
         /\ PartsIn([bs EXCEPT ![i] = b]) = (PartsIn(bs) \ bs[i].part) \cup b.part
<1> DEFINE cs == [bs EXCEPT ![i] = b]
<1>1. /\ cs \in Seq(BlockType) /\ DOMAIN cs = DOMAIN bs
      /\ \A j \in DOMAIN bs \ {i} : cs[j] = bs[j]
      /\ cs[i] = b
      OBVIOUS
<1> HIDE DEF cs
<1>2. \A j \in DOMAIN bs \ {i} : bs[j].part \cap b.part = {}
      BY OnePart DEF BlocksRight
<1>3. \A j \in DOMAIN cs : (j \in DOMAIN bs \ {i} /\ cs[j] = bs[j]) \/ (j = i /\ cs[j] = b)
      BY <1>1
<1>4. BlocksRight(cs)
      <2>1. \A j \in DOMAIN cs : Single(cs[j])
            BY <1>3 DEF BlocksRight
      <2>2. \A j, k \in DOMAIN cs : j # k => cs[j].part \cap cs[k].part = {}
            BY <1>2, <1>3 DEF BlocksRight
      <2> QED BY <2>1, <2>2 DEF BlocksRight
<1>5. ASSUME NEW p PROVE p \in PartsIn(cs) <=> p \in (PartsIn(bs) \ bs[i].part) \cup b.part
      <2>1. p \in PartsIn(cs) <=> \E j \in DOMAIN cs : p \in cs[j].part
            BY PartsAre
      <2>2. p \in PartsIn(bs) <=> \E j \in DOMAIN bs : p \in bs[j].part
            BY PartsAre
      <2>3. \A j \in DOMAIN bs \ {i} : bs[i].part \cap bs[j].part = {}
            BY DEF BlocksRight
      <2> QED BY <1>1, <1>3, <2>1, <2>2, <2>3
<1>6. PartsIn(cs) = (PartsIn(bs) \ bs[i].part) \cup b.part
      BY <1>5
<1> QED BY <1>1, <1>4, <1>6 DEF cs

\* A block is taken away.
LEMMA BlockTaken ==
  ASSUME NEW bs \in Seq(BlockType), BlocksRight(bs), NEW i \in DOMAIN bs
  PROVE  /\ Editor!RemoveAt(bs, i) \in Seq(BlockType) /\ BlocksRight(Editor!RemoveAt(bs, i))
         /\ PartsIn(Editor!RemoveAt(bs, i)) = PartsIn(bs) \ bs[i].part
<1> DEFINE cs == Editor!RemoveAt(bs, i)
           old(j) == IF j < i THEN j ELSE j + 1
<1>1. /\ cs \in Seq(BlockType) /\ DOMAIN cs = 1 .. Len(bs) - 1
      /\ \A j \in 1 .. Len(bs) - 1 : cs[j] = bs[old(j)]
      <2>1. /\ Editor!RemoveAt(bs, i) \in Seq(BlockType)
            /\ Len(Editor!RemoveAt(bs, i)) = Len(bs) - 1
            /\ \A j \in 1 .. Len(bs) - 1 :
                 Editor!RemoveAt(bs, i)[j] = IF j < i THEN bs[j] ELSE bs[j + 1]
            BY LeftOut
      <2> QED BY <2>1
<1>2. /\ i \in 1 .. Len(bs) /\ Len(bs) \in Nat /\ DOMAIN bs = 1 .. Len(bs)
      OBVIOUS
<1> HIDE DEF cs
<1>3. \A j \in DOMAIN cs : old(j) \in DOMAIN bs \ {i} /\ cs[j] = bs[old(j)]
      BY <1>1, <1>2
<1>4. \A j, k \in DOMAIN cs : j # k => old(j) # old(k)
      BY <1>1, <1>2
<1>5. \A k \in DOMAIN bs \ {i} : \E j \in DOMAIN cs : old(j) = k
      <2> SUFFICES ASSUME NEW k \in DOMAIN bs \ {i} PROVE \E j \in DOMAIN cs : old(j) = k
          OBVIOUS
      <2>1. CASE k < i
            BY <1>1, <1>2, <2>1
      <2>2. CASE k > i
            <3>1. k - 1 \in DOMAIN cs /\ old(k - 1) = k
                  BY <1>1, <1>2, <2>2
            <3> QED BY <3>1
      <2> QED BY <1>2, <2>1, <2>2
<1> HIDE DEF old
<1>6. BlocksRight(cs)
      <2>1. \A j \in DOMAIN cs : Single(cs[j])
            BY <1>3 DEF BlocksRight
      <2>2. \A j, k \in DOMAIN cs : j # k => cs[j].part \cap cs[k].part = {}
            BY <1>3, <1>4 DEF BlocksRight
      <2> QED BY <2>1, <2>2 DEF BlocksRight
<1>7. ASSUME NEW p PROVE p \in PartsIn(cs) <=> p \in PartsIn(bs) \ bs[i].part
      <2>1. p \in PartsIn(cs) <=> \E j \in DOMAIN cs : p \in cs[j].part
            BY PartsAre
      <2>2. p \in PartsIn(bs) <=> \E j \in DOMAIN bs : p \in bs[j].part
            BY PartsAre
      <2>3. \A j \in DOMAIN bs \ {i} : bs[i].part \cap bs[j].part = {}
            BY DEF BlocksRight
      <2>4. p \in PartsIn(cs) => p \in PartsIn(bs) \ bs[i].part
            BY <1>3, <2>1, <2>2, <2>3
      <2>5. p \in PartsIn(bs) \ bs[i].part => p \in PartsIn(cs)
            BY <1>3, <1>5, <2>1, <2>2
      <2> QED BY <2>4, <2>5
<1>8. PartsIn(cs) = PartsIn(bs) \ bs[i].part
      BY <1>7
<1> QED BY <1>1, <1>6, <1>8 DEF cs

\* A finite set of parts.
LEMMA PartsFinite == IsFiniteSet(Editor!Part)
<1>1. IsFiniteSet(Editor!Block)
      <2>1. IsFiniteSet({"clock"} \cup {"note"})
            BY FS_Singleton, FS_Union
      <2>2. Editor!Block = (Device \cup Outlet) \cup ({"clock"} \cup {"note"})
            BY DEF Editor!Block
      <2>3. IsFiniteSet(Device \cup Outlet)
            BY EditorBounds, FS_Union DEF Editor!EditorAssumption
      <2> QED BY <2>1, <2>2, <2>3, FS_Union
<1>2. IsFiniteSet(Editor!Role)
      <2>1. Editor!Role = {"trigger"} \cup {"effect"}
            BY DEF Editor!Role
      <2> QED BY <2>1, FS_Singleton, FS_Union
<1>3. IsFiniteSet(1 .. 2)
      <2>1. 1 \in Int /\ 2 \in Int
            OBVIOUS
      <2> QED BY <2>1, FS_Interval, Zenon
<1> DEFINE S == (Editor!Role \X Editor!Block) \X (1 .. 2)
           f == [x \in S |-> [as |-> x[1][1], of |-> x[1][2], value |-> x[2]]]
<1>4. IsFiniteSet(S)
      BY <1>1, <1>2, <1>3, FS_Product
<1>5. f \in [S -> Editor!Part]
      BY DEF Editor!Part
<1>6. ASSUME NEW t \in Editor!Part PROVE \E x \in S : f[x] = t
      <2>1. <<<<t.as, t.of>>, t.value>> \in S
            BY DEF Editor!Part
      <2>2. f[<<<<t.as, t.of>>, t.value>>] = t
            BY <2>1 DEF Editor!Part
      <2> QED BY <2>1, <2>2
<1> HIDE DEF S, f
<1>7. f \in Surjection(S, Editor!Part)
      BY <1>5, <1>6 DEF Surjection
<1> QED BY <1>4, <1>7, FS_Surjection

\* The blocks of a description: one for each part of what is there.
LEMMA BlocksOfIs ==
  ASSUME NEW d \in Editor!Description, NEW seen, seen \subseteq Device \cup Outlet
  PROVE  /\ Editor!BlocksOf(d, seen) \in Seq(BlockType) /\ BlocksRight(Editor!BlocksOf(d, seen))
         /\ PartsIn(Editor!BlocksOf(d, seen)) = {p \in d.parts : Editor!There(p, seen)}
<1> DEFINE S == {p \in d.parts : Editor!There(p, seen)}
           ps == Editor!SetToSeq(S)
           bs == [i \in DOMAIN ps |-> Editor!BlockOf(ps[i])]
<1>1. S \subseteq Editor!Part
      BY DEF Editor!Description
<1>2. IsFiniteSet(S)
      BY <1>1, PartsFinite, FS_Subset
<1>3. bs = Editor!BlocksOf(d, seen)
      BY DEF Editor!BlocksOf
<1> HIDE DEF S
<1>4. /\ ps \in Seq(S) /\ Apart(ps) /\ Editor!ToSet(ps) = S
      BY <1>2, AllOf
<1> HIDE DEF ps
<1>5. \A i \in DOMAIN ps : ps[i] \in S /\ ps[i] \in Editor!Part
      BY <1>1, <1>4 DEF S, Editor!Description
<1>6. \A p \in S :
        Editor!BlockOf(p) \in BlockType /\ Single(Editor!BlockOf(p))
            /\ Editor!BlockOf(p).part = {p}
      <2> SUFFICES ASSUME NEW p \in S
                   PROVE  Editor!BlockOf(p) \in BlockType /\ Single(Editor!BlockOf(p))
                              /\ Editor!BlockOf(p).part = {p}
          OBVIOUS
      <2>1. p \in Editor!Part
            BY DEF S, Editor!Description
      <2>2. p.of \in Editor!Block /\ p.as \in Editor!Role
            BY <2>1 DEF Editor!Part
      <2>3. Editor!BlockOf(p) = [of |-> p.of, role |-> p.as, part |-> {p}, dom |-> TRUE]
            BY DEF Editor!BlockOf
      <2> HIDE DEF S
      <2>4. Editor!BlockOf(p) \in BlockType /\ Editor!BlockOf(p).part = {p}
              /\ Editor!BlockOf(p).role \in Editor!Role
            BY <2>1, <2>2, <2>3 DEF BlockType
      <2> QED BY <2>4 DEF Single
<1>7. bs \in Seq(BlockType) /\ DOMAIN bs = DOMAIN ps
      BY <1>4, <1>5, <1>6
<1>8. \A i \in DOMAIN bs : bs[i] = Editor!BlockOf(ps[i])
      OBVIOUS
<1> HIDE DEF bs
<1>9. BlocksRight(bs)
      BY <1>4, <1>5, <1>6, <1>7, <1>8 DEF BlocksRight, Apart
<1>10. ASSUME NEW p PROVE p \in PartsIn(bs) <=> p \in S
      <2>1. p \in PartsIn(bs) <=> \E i \in DOMAIN bs : p \in bs[i].part
            BY PartsAre
      <2>2. p \in S <=> \E i \in DOMAIN ps : p = ps[i]
            BY <1>4 DEF Editor!ToSet
      <2> QED BY <1>5, <1>6, <1>7, <1>8, <2>1, <2>2
<1>11. PartsIn(bs) = S
      BY <1>10
<1> QED BY <1>3, <1>7, <1>9, <1>11 DEF S

\* Of blocks that were all removed none is left.
LEMMA NoneLeft ==
  ASSUME NEW bs \in Seq(BlockType), \A i \in DOMAIN bs : bs[i].role = "removed",
         NEW cs \in Seq(BlockType)
  PROVE  Editor!Left(bs) \o cs = cs
<1> DEFINE K == {i \in DOMAIN bs : bs[i].role # "removed"}
           F(S) == [k \in 1 .. Cardinality(S) |->
                      bs[CHOOSE i \in S : Cardinality({j \in S : j <= i}) = k]]
<1>1. K = {}
      OBVIOUS
<1>2. Cardinality({}) = 0
      BY FS_EmptySet
<1>3. Editor!Left(bs) = F(K)
      BY Zenon DEF Editor!Left, Editor!Cardinality, Cardinality
<1> HIDE DEF K
<1>4. Editor!Left(bs) = F({})
      BY <1>1, <1>3
<1>5. Editor!Left(bs) = [k \in 1 .. 0 |->
                           bs[CHOOSE i \in {} : Cardinality({j \in {} : j <= i}) = k]]
      BY <1>2, <1>4
<1>6. Editor!Left(bs) = <<>>
      BY <1>5
<1> QED BY <1>6

\* A request is sent.
LEMMA LineGrows ==
  ASSUME NEW l \in Seq(Change), NEW q \in Change
  PROVE  /\ Append(l, q) \in Seq(Change) /\ Len(l) \in Nat
         /\ DOMAIN l = 1 .. Len(l) /\ DOMAIN Append(l, q) = 1 .. Len(l) + 1
         /\ \A k \in DOMAIN l : Append(l, q)[k] = l[k]
         /\ Append(l, q)[Len(l) + 1] = q
OBVIOUS

\* A request is served.
LEMMA LineServed ==
  ASSUME NEW l \in Seq(Change), l # <<>>
  PROVE  /\ Tail(l) \in Seq(Change) /\ Len(l) \in Nat \ {0}
         /\ DOMAIN l = 1 .. Len(l) /\ DOMAIN Tail(l) = 1 .. Len(l) - 1
         /\ \A k \in DOMAIN Tail(l) : Tail(l)[k] = l[k + 1]
         /\ Head(l) = l[1] /\ 1 \in DOMAIN l /\ Head(l) \in Change
OBVIOUS

\* What is still to be done stays to be done when more is sent.
LEMMA AwaitsMore ==
  ASSUME NEW l \in Seq(Change), NEW q \in Change, NEW j, NEW i, Awaits(l, j, i)
  PROVE  Awaits(Append(l, q), j, i)
<1>1. PICK k \in DOMAIN l : j < k /\ l[k].do = "put" /\ l[k].id = i
      BY DEF Awaits
<1>2. k \in DOMAIN Append(l, q) /\ Append(l, q)[k] = l[k]
      BY LineGrows
<1> QED BY <1>1, <1>2 DEF Awaits

\* A rule is sent as the user has made it.
LEMMA PutSent ==
  ASSUME EditTyped, RulesFollow, NEW q \in Change, q.do = "put", q.id # 0,
         saved' = saved, things' = things, line' = Append(line, q),
             DOMAIN wanted' = DOMAIN wanted,
         \A i \in DOMAIN wanted : i # q.id => wanted'[i] = wanted[i],
         q.id \in DOMAIN wanted => Agree(q.d, wanted'[q.id], things)
  PROVE  RulesFollow'
<1> DEFINE n == Len(line)
           l == line'
<1>1. /\ l \in Seq(Change) /\ n \in Nat /\ DOMAIN line = 1 .. n /\ DOMAIN l = 1 .. n + 1
      /\ \A k \in DOMAIN line : l[k] = line[k]
      /\ l[n + 1] = q
      BY LineGrows DEF EditTyped
<1>2. \A j, i : Awaits(line, j, i) => Awaits(l, j, i)
      BY AwaitsMore DEF EditTyped
<1>3. \A j \in 0 .. n : Awaits(l, j, q.id)
      BY <1>1 DEF Awaits
<1> HIDE DEF n, l
<1>4. \A i \in DOMAIN saved \ DOMAIN wanted :
        \E k \in DOMAIN l : l[k].do = "delete" /\ l[k].id = i
      BY <1>1 DEF RulesFollow
<1>5. \A i \in DOMAIN wanted \ {0} : i \in DOMAIN saved
                                     /\ (Agree(saved[i], wanted'[i], things) \/ Awaits(l, 0, i))
      <2>1. 0 \in 0 .. n
            BY <1>1
      <2> QED BY <1>2, <1>3, <2>1 DEF RulesFollow
<1>6. \A k \in DOMAIN l : l[k].id \in DOMAIN wanted \ {0} =>
        /\ l[k].do = "put"
        /\ Agree(l[k].d, wanted'[l[k].id], things) \/ Awaits(l, k, l[k].id)
      <2> SUFFICES ASSUME NEW k \in DOMAIN l, l[k].id \in DOMAIN wanted \ {0}
                   PROVE  /\ l[k].do = "put"
                          /\ Agree(l[k].d, wanted'[l[k].id], things) \/ Awaits(l, k, l[k].id)
          OBVIOUS
      <2>1. CASE k = n + 1
            BY <1>1, <2>1
      <2>2. CASE k # n + 1
            <3>1. k \in DOMAIN line /\ l[k] = line[k] /\ k \in 0 .. n
                  BY <1>1, <2>2
            <3> QED BY <1>2, <1>3, <3>1 DEF RulesFollow
      <2> QED BY <2>1, <2>2
<1>7. \A k \in DOMAIN l : l[k].do = "delete" =>
        /\ l[k].id \in DOMAIN saved
        /\ \A j \in DOMAIN l : l[j].do = "delete" /\ l[j].id = l[k].id => j = k
      <2>1. \A k \in DOMAIN l : l[k].do = "delete" => k \in DOMAIN line /\ l[k] = line[k]
            BY <1>1
      <2> QED BY <2>1 DEF RulesFollow
<1> QED BY <1>4, <1>5, <1>6, <1>7 DEF RulesFollow, l

\* A rule is to be deleted.
LEMMA DeleteSent ==
  ASSUME EditTyped, RulesFollow, NEW q \in Change, q.do = "delete", q.id \in DOMAIN wanted \ {0},
         saved' = saved, things' = things, line' = Append(line, q),
             wanted' = Editor!Without(wanted, q.id)
  PROVE  RulesFollow'
<1> DEFINE n == Len(line)
           l == line'
<1>1. /\ l \in Seq(Change) /\ n \in Nat /\ DOMAIN line = 1 .. n /\ DOMAIN l = 1 .. n + 1
      /\ \A k \in DOMAIN line : l[k] = line[k]
      /\ l[n + 1] = q
      BY LineGrows DEF EditTyped
<1>2. \A j, i : Awaits(line, j, i) => Awaits(l, j, i)
      BY AwaitsMore DEF EditTyped
<1>3. DOMAIN wanted' = DOMAIN wanted \ {q.id} /\ \A i \in DOMAIN wanted' : wanted'[i] = wanted[i]
      BY DEF Editor!Without
<1> HIDE DEF n, l
<1>4. \A i \in DOMAIN saved \ DOMAIN wanted' :
        \E k \in DOMAIN l : l[k].do = "delete" /\ l[k].id = i
      <2> SUFFICES ASSUME NEW i \in DOMAIN saved \ DOMAIN wanted'
                   PROVE  \E k \in DOMAIN l : l[k].do = "delete" /\ l[k].id = i
          OBVIOUS
      <2>1. CASE i = q.id
            <3>1. n + 1 \in DOMAIN l
                  BY <1>1
            <3> QED BY <1>1, <2>1, <3>1
      <2>2. CASE i # q.id
            <3>1. PICK k \in DOMAIN line : line[k].do = "delete" /\ line[k].id = i
                  BY <1>3, <2>2 DEF RulesFollow
            <3>2. k \in DOMAIN l /\ l[k] = line[k]
                  BY <1>1
            <3> QED BY <3>1, <3>2
      <2> QED BY <2>1, <2>2
<1>5. \A i \in DOMAIN wanted' \ {0} : i \in DOMAIN saved
                                      /\ (Agree(saved[i], wanted'[i], things) \/ Awaits(l, 0, i))
      BY <1>2, <1>3 DEF RulesFollow
<1>6. \A k \in DOMAIN l : l[k].id \in DOMAIN wanted' \ {0} =>
        /\ l[k].do = "put"
        /\ Agree(l[k].d, wanted'[l[k].id], things) \/ Awaits(l, k, l[k].id)
      <2> SUFFICES ASSUME NEW k \in DOMAIN l, l[k].id \in DOMAIN wanted' \ {0}
                   PROVE  /\ l[k].do = "put"
                          /\ Agree(l[k].d, wanted'[l[k].id], things) \/ Awaits(l, k, l[k].id)
          OBVIOUS
      <2>1. k \in DOMAIN line /\ l[k] = line[k]
            BY <1>1, <1>3
      <2> QED BY <1>2, <1>3, <2>1 DEF RulesFollow
<1>7. \A k \in DOMAIN l : l[k].do = "delete" =>
        /\ l[k].id \in DOMAIN saved
        /\ \A j \in DOMAIN l : l[j].do = "delete" /\ l[j].id = l[k].id => j = k
      <2>1. \A k \in DOMAIN l : \/ k \in DOMAIN line /\ l[k] = line[k]
                                \/ k = n + 1 /\ l[k] = q
            BY <1>1
      <2>2. \A k \in DOMAIN line : line[k].id = q.id => line[k].do # "delete"
            BY DEF RulesFollow
      <2>3. q.id \in DOMAIN saved
            BY DEF RulesFollow
      <2> QED BY <2>1, <2>2, <2>3 DEF RulesFollow
<1> QED BY <1>4, <1>5, <1>6, <1>7 DEF RulesFollow, l

\* A request is served: what is to be done is done, or still to be done.
LEMMA AwaitsLess ==
  ASSUME NEW l \in Seq(Change), l # <<>>, NEW j \in Nat, NEW i, Awaits(l, j + 1, i)
  PROVE  Awaits(Tail(l), j, i)
<1>1. PICK k \in DOMAIN l : j + 1 < k /\ l[k].do = "put" /\ l[k].id = i
      BY DEF Awaits
<1>2. k - 1 \in DOMAIN Tail(l) /\ Tail(l)[k - 1] = l[k] /\ j < k - 1
      <2>1. /\ DOMAIN l = 1 .. Len(l) /\ DOMAIN Tail(l) = 1 .. Len(l) - 1 /\ Len(l) \in Nat
            /\ \A m \in DOMAIN Tail(l) : Tail(l)[m] = l[m + 1]
            BY LineServed
      <2>2. k - 1 \in DOMAIN Tail(l) /\ j < k - 1 /\ (k - 1) + 1 = k
            BY <1>1, <2>1
      <2> QED BY <2>1, <2>2
<1> QED BY <1>1, <1>2 DEF Awaits

\* A change of a rule, or one of a rule that is gone.
LEMMA PutServed ==
  ASSUME EditTyped, RulesFollow, line # <<>>, line' = Tail(line), Head(line).do = "put",
         saved' = IF Head(line).id \in DOMAIN saved
                  THEN [saved EXCEPT ![Head(line).id] = Head(line).d] ELSE saved,
         wanted' = wanted, things' = things
  PROVE  RulesFollow' /\ DOMAIN saved' = DOMAIN saved
             /\ saved' \in [DOMAIN saved -> Editor!Description]
<1> DEFINE q == Head(line)
           l == line'
<1>1. /\ l \in Seq(Change) /\ Len(line) \in Nat \ {0}
      /\ DOMAIN line = 1 .. Len(line) /\ DOMAIN l = 1 .. Len(line) - 1
      /\ \A k \in DOMAIN l : l[k] = line[k + 1]
      /\ q = line[1] /\ 1 \in DOMAIN line /\ q \in Change
      BY LineServed DEF EditTyped
<1>2. \A j \in Nat : \A i : Awaits(line, j + 1, i) => Awaits(l, j, i)
      BY AwaitsLess DEF EditTyped
<1>3. \A k \in DOMAIN l : k + 1 \in DOMAIN line /\ k \in Nat /\ k + 1 # 1
      BY <1>1
<1>4. \A k \in DOMAIN line \ {1} : k - 1 \in DOMAIN l /\ l[k - 1] = line[k]
      <2> SUFFICES ASSUME NEW k \in DOMAIN line \ {1}
                   PROVE  k - 1 \in DOMAIN l /\ l[k - 1] = line[k]
          OBVIOUS
      <2>1. k - 1 \in DOMAIN l /\ (k - 1) + 1 = k
            BY <1>1
      <2> QED BY <1>1, <2>1
<1>5. /\ DOMAIN saved' = DOMAIN saved
      /\ \A i \in DOMAIN saved : saved'[i] = IF i = q.id THEN q.d ELSE saved[i]
      OBVIOUS
<1>6. saved' \in [DOMAIN saved -> Editor!Description]
      BY <1>1 DEF EditTyped, Change
<1>7. q.do = "put"
      OBVIOUS
<1> HIDE DEF q, l
<1>8. \A i \in DOMAIN saved' \ DOMAIN wanted :
        \E k \in DOMAIN l : l[k].do = "delete" /\ l[k].id = i
      <2> SUFFICES ASSUME NEW i \in DOMAIN saved \ DOMAIN wanted
                   PROVE  \E k \in DOMAIN l : l[k].do = "delete" /\ l[k].id = i
          BY <1>5
      <2>1. PICK k \in DOMAIN line : line[k].do = "delete" /\ line[k].id = i
            BY DEF RulesFollow
      <2>2. k \in DOMAIN line \ {1}
            BY <1>1, <1>7, <2>1
      <2> QED BY <1>4, <2>1, <2>2
<1>9. \A i \in DOMAIN wanted \ {0} : i \in DOMAIN saved'
                                     /\ (Agree(saved'[i], wanted[i], things) \/ Awaits(l, 0, i))
      <2> SUFFICES ASSUME NEW i \in DOMAIN wanted \ {0}
                   PROVE  i \in DOMAIN saved'
                              /\ (Agree(saved'[i], wanted[i], things) \/ Awaits(l, 0, i))
          OBVIOUS
      <2>1. i \in DOMAIN saved
            BY DEF RulesFollow
      <2>2. Awaits(line, 1, i) => Awaits(l, 0, i)
            <3>1. Awaits(line, 0 + 1, i) => Awaits(l, 0, i)
                  BY <1>2
            <3> QED BY <3>1
      <2>3. CASE q.id = i
            <3>1. Agree(q.d, wanted[i], things) \/ Awaits(line, 1, i)
                  BY <1>1, <2>3 DEF RulesFollow
            <3> QED BY <1>5, <2>1, <2>2, <2>3, <3>1
      <2>4. CASE q.id # i
            <3>1. Agree(saved[i], wanted[i], things) \/ Awaits(line, 0, i)
                  BY DEF RulesFollow
            <3>2. Awaits(line, 0, i) => Awaits(line, 1, i)
                  <4> SUFFICES ASSUME NEW k \in DOMAIN line, 0 < k, line[k].do = "put",
                      line[k].id = i
                               PROVE  Awaits(line, 1, i)
                      BY DEF Awaits
                  <4>1. k # 1
                        BY <1>1, <2>4
                  <4>2. 1 < k
                        BY <1>1, <4>1
                  <4> QED BY <4>2 DEF Awaits
            <3> QED BY <1>5, <2>1, <2>2, <2>4, <3>1, <3>2
      <2> QED BY <2>3, <2>4
<1>10. \A k \in DOMAIN l : l[k].id \in DOMAIN wanted \ {0} =>
         /\ l[k].do = "put"
         /\ Agree(l[k].d, wanted[l[k].id], things) \/ Awaits(l, k, l[k].id)
      BY <1>1, <1>2, <1>3 DEF RulesFollow
<1>11. \A k \in DOMAIN l : l[k].do = "delete" =>
         /\ l[k].id \in DOMAIN saved'
         /\ \A j \in DOMAIN l : l[j].do = "delete" /\ l[j].id = l[k].id => j = k
      <2> SUFFICES ASSUME NEW k \in DOMAIN l, l[k].do = "delete"
                   PROVE  /\ l[k].id \in DOMAIN saved'
                          /\ \A j \in DOMAIN l : l[j].do = "delete" /\ l[j].id = l[k].id => j = k
          OBVIOUS
      <2>1. l[k].id \in DOMAIN saved'
            BY <1>1, <1>3, <1>5 DEF RulesFollow
      <2>2. ASSUME NEW j \in DOMAIN l, l[j].do = "delete", l[j].id = l[k].id PROVE j = k
            <3>1. j + 1 = k + 1
                  BY <1>1, <1>3, <2>2 DEF RulesFollow
            <3> QED BY <1>3, <3>1
      <2> QED BY <2>1, <2>2
<1> QED BY <1>5, <1>6, <1>8, <1>9, <1>10, <1>11 DEF RulesFollow, l

\* A rule is deleted.
LEMMA DeleteServed ==
  ASSUME EditTyped, RulesFollow, line # <<>>, line' = Tail(line), Head(line).do = "delete",
         saved' = Editor!Without(saved, Head(line).id), wanted' = wanted, things' = things
  PROVE  /\ RulesFollow' /\ DOMAIN saved' = DOMAIN saved \ {Head(line).id}
         /\ saved' \in [DOMAIN saved' -> Editor!Description]
         /\ \A k \in DOMAIN line' : line'[k].do = "delete" => line'[k].id # Head(line).id
<1> DEFINE q == Head(line)
           l == line'
<1>1. /\ l \in Seq(Change) /\ Len(line) \in Nat \ {0}
      /\ DOMAIN line = 1 .. Len(line) /\ DOMAIN l = 1 .. Len(line) - 1
      /\ \A k \in DOMAIN l : l[k] = line[k + 1]
      /\ q = line[1] /\ 1 \in DOMAIN line /\ q \in Change
      BY LineServed DEF EditTyped
<1>2. \A j \in Nat : \A i : Awaits(line, j + 1, i) => Awaits(l, j, i)
      BY AwaitsLess DEF EditTyped
<1>3. \A k \in DOMAIN l : k + 1 \in DOMAIN line /\ k \in Nat /\ k + 1 # 1
      BY <1>1
<1>4. \A k \in DOMAIN line \ {1} : k - 1 \in DOMAIN l /\ l[k - 1] = line[k]
      <2> SUFFICES ASSUME NEW k \in DOMAIN line \ {1}
                   PROVE  k - 1 \in DOMAIN l /\ l[k - 1] = line[k]
          OBVIOUS
      <2>1. k - 1 \in DOMAIN l /\ (k - 1) + 1 = k
            BY <1>1
      <2> QED BY <1>1, <2>1
<1>5. /\ DOMAIN saved' = DOMAIN saved \ {q.id}
      /\ \A i \in DOMAIN saved' : saved'[i] = saved[i]
      BY DEF Editor!Without
<1>6. saved' \in [DOMAIN saved' -> Editor!Description]
      BY DEF EditTyped, Editor!Without
<1>7. q.do = "delete"
      OBVIOUS
<1> HIDE DEF q, l
<1>8. q.id \notin DOMAIN wanted \ {0}
      BY <1>1, <1>7 DEF RulesFollow
<1>9. \A k \in DOMAIN l : l[k].do = "delete" => l[k].id # q.id
      BY <1>1, <1>3, <1>7 DEF RulesFollow
<1>10. \A i \in DOMAIN saved' \ DOMAIN wanted :
         \E k \in DOMAIN l : l[k].do = "delete" /\ l[k].id = i
      <2> SUFFICES ASSUME NEW i \in DOMAIN saved \ DOMAIN wanted, i # q.id
                   PROVE  \E k \in DOMAIN l : l[k].do = "delete" /\ l[k].id = i
          BY <1>5
      <2>1. PICK k \in DOMAIN line : line[k].do = "delete" /\ line[k].id = i
            BY DEF RulesFollow
      <2>2. k \in DOMAIN line \ {1}
            BY <1>1, <2>1
      <2> QED BY <1>4, <2>1, <2>2
<1>11. \A i \in DOMAIN wanted \ {0} : i \in DOMAIN saved'
                                      /\ (Agree(saved'[i], wanted[i], things) \/ Awaits(l, 0, i))
      <2> SUFFICES ASSUME NEW i \in DOMAIN wanted \ {0}
                   PROVE  i \in DOMAIN saved'
                              /\ (Agree(saved'[i], wanted[i], things) \/ Awaits(l, 0, i))
          OBVIOUS
      <2>1. i \in DOMAIN saved' /\ saved'[i] = saved[i]
            BY <1>5, <1>8 DEF RulesFollow
      <2>2. Awaits(line, 0, i) => Awaits(l, 0, i)
            <3> SUFFICES ASSUME NEW k \in DOMAIN line, 0 < k, line[k].do = "put", line[k].id = i
                         PROVE  Awaits(l, 0, i)
                BY DEF Awaits
            <3>1. k # 1
                  BY <1>1, <1>7
            <3>2. k - 1 \in DOMAIN l /\ l[k - 1] = line[k] /\ 0 < k - 1
                  BY <1>1, <1>4, <3>1
            <3> QED BY <3>2 DEF Awaits
      <2> QED BY <2>1, <2>2 DEF RulesFollow
<1>12. \A k \in DOMAIN l : l[k].id \in DOMAIN wanted \ {0} =>
         /\ l[k].do = "put"
         /\ Agree(l[k].d, wanted[l[k].id], things) \/ Awaits(l, k, l[k].id)
      BY <1>1, <1>2, <1>3 DEF RulesFollow
<1>13. \A k \in DOMAIN l : l[k].do = "delete" =>
         /\ l[k].id \in DOMAIN saved'
         /\ \A j \in DOMAIN l : l[j].do = "delete" /\ l[j].id = l[k].id => j = k
      <2> SUFFICES ASSUME NEW k \in DOMAIN l, l[k].do = "delete"
                   PROVE  /\ l[k].id \in DOMAIN saved'
                          /\ \A j \in DOMAIN l : l[j].do = "delete" /\ l[j].id = l[k].id => j = k
          OBVIOUS
      <2>1. l[k].id \in DOMAIN saved'
            BY <1>1, <1>3, <1>5, <1>9 DEF RulesFollow
      <2>2. ASSUME NEW j \in DOMAIN l, l[j].do = "delete", l[j].id = l[k].id PROVE j = k
            <3>1. j + 1 = k + 1
                  BY <1>1, <1>3, <2>2 DEF RulesFollow
            <3> QED BY <1>3, <3>1
      <2> QED BY <2>1, <2>2
<1> QED BY <1>5, <1>6, <1>9, <1>10, <1>11, <1>12, <1>13 DEF RulesFollow, l, q

\* What the menu shows is a type, that of the effects if they have one.
LEMMA ShownIs ==
  ASSUME NEW d \in Editor!Description, NEW w \in Editor!Type
  PROVE  Editor!Shown(d, w) \in Editor!Type /\ (Editor!Typed(d) => Editor!Shown(d, w) = d.type)
BY
   DEF Editor!Shown, Editor!Predicate, Editor!HasRole, Editor!Typed, Editor!Description,
       Editor!Type

\* A rule that is made from blocks.
LEMMA MadeOf ==
  ASSUME NEW d \in Editor!Description, NEW bs \in Seq(BlockType), NEW t \in Editor!Type
  PROVE  /\ Editor!FromBlocks(d, bs, t) \in Editor!Description
         /\ Editor!FromBlocks(d, bs, t) = [on |-> d.on, named |-> d.named, op |-> d.op,
                                           type |-> t, parts |-> PartsIn(bs)]
<1>1. PartsIn(bs) \in SUBSET Editor!Part
      <2> SUFFICES ASSUME NEW p \in PartsIn(bs) PROVE p \in Editor!Part
          OBVIOUS
      <2>1. PICK i \in DOMAIN bs : p \in bs[i].part
            BY PartsAre
      <2>2. bs[i] \in BlockType
            OBVIOUS
      <2> QED BY <2>1, <2>2 DEF BlockType
<1>2. Editor!FromBlocks(d, bs, t) = [d EXCEPT !.parts = PartsIn(bs), !.type = t]
      BY DEF Editor!FromBlocks, PartsIn
<1> QED BY <1>1, <1>2 DEF Editor!Description

\* A trigger alone becomes one under AND.
LEMMA WrappedIs ==
  ASSUME NEW d \in Editor!Description
  PROVE  /\ Editor!Wrapped(d) = [on |-> d.on, named |-> d.named, op |-> Editor!Wrapped(d).op,
                                 type |-> d.type, parts |-> d.parts]
         /\ Editor!Wrapped(d) \in Editor!Description /\ Editor!Wrapped(d).op # "none"
         /\ d.op # "none" => Editor!Wrapped(d) = d
BY DEF Editor!Wrapped, Editor!Description

\* The user has part of a rule replaced, and so has the page.
LEMMA AgreeAdds ==
  ASSUME NEW d \in Editor!Description, NEW m \in Editor!Description, NEW e \in Editor!Description,
         NEW f \in Editor!Description,
         NEW seen, Agree(d, m, seen), NEW old, NEW ps, NEW w \in Editor!Type,
         e.on = d.on, e.named = d.named, e.op = d.op, d.op # "none",
         e.parts = (d.parts \ old) \cup ps, e.type = Editor!Shown(d, w),
         f.on = m.on, f.named = m.named, f.op = m.op, f.parts = (m.parts \ old) \cup ps,
         f.type = IF Editor!Typed(d) THEN m.type ELSE Editor!Shown(d, w)
  PROVE  Agree(e, f, seen)
<1>1. Editor!Wrapped(e).op = Editor!Wrapped(d).op /\ Editor!Wrapped(f).op = Editor!Wrapped(m).op
      BY DEF Editor!Wrapped, Editor!Description
<1>2. Editor!Typed(e) => e.type = f.type
      BY ShownIs DEF Agree
<1>3. \A p \in e.parts \cup f.parts : Editor!There(p, seen) => (p \in e.parts <=> p \in f.parts)
      BY DEF Agree
<1> QED BY <1>1, <1>2, <1>3 DEF Agree

\* The user has part of a rule taken away, and so has the page.
LEMMA AgreeTakes ==
  ASSUME NEW d \in Editor!Description, NEW m \in Editor!Description, NEW e \in Editor!Description,
         NEW f \in Editor!Description,
         NEW seen, Agree(d, m, seen), NEW old, NEW w \in Editor!Type,
         e.on = d.on, e.named = d.named, e.op = d.op, d.op # "none",
         e.parts = d.parts \ old, e.type = Editor!Shown(d, w),
         f.on = m.on, f.named = m.named, f.op = m.op, f.parts = m.parts \ old, f.type = m.type
  PROVE  Agree(e, f, seen)
<1>1. Editor!Wrapped(e).op = Editor!Wrapped(d).op /\ Editor!Wrapped(f).op = Editor!Wrapped(m).op
      BY DEF Editor!Wrapped, Editor!Description
<1>2. Editor!Typed(e) => e.type = f.type
      <2>1. Editor!Typed(e) => Editor!Typed(d)
            BY DEF Editor!Typed
      <2> QED BY <2>1, ShownIs DEF Agree
<1>3. \A p \in e.parts \cup f.parts : Editor!There(p, seen) => (p \in e.parts <=> p \in f.parts)
      BY DEF Agree
<1> QED BY <1>1, <1>2, <1>3 DEF Agree

\* The user who waits for answers changes a rule that has its id.
LEMMA EditStarts ==
  ASSUME EditInv, ~Hasty, Editor!Edits
  PROVE  Editing /\ at = "rule" /\ ~reading
<1>1. at = "rule" /\ page.n # 0 /\ \A i \in DOMAIN line : line[i].do # "post"
      BY DEF Editor!Edits
<1>2. ~Posting
      <2> SUFFICES ASSUME Posting PROVE FALSE
          OBVIOUS
      <2>1. 1 \in DOMAIN line /\ line[1].do = "post"
            BY DEF Posting
      <2> QED BY <1>1, <2>1
<1> QED BY <1>1, <1>2 DEF EditInv, PageRight, Opening, Blank, Editor!NoRule

\* What the user has made of the rule on the page.
LEMMA MineIs == EditTyped
    => Editor!Mine \in Editor!Description
        /\ (page.id \in DOMAIN wanted => Editor!Mine = wanted[page.id])
BY NewIs DEF EditTyped, Editor!Mine

\* A change of the rule on the page is sent.
LEMMA Edited ==
  ASSUME EditInv, ~Hasty, Editor!Edits, NEW d \in Editor!Description,
         NEW m \in Editor!Description,
         page' = [page EXCEPT !.d = d], Editor!Send(page'), Editor!Makes(m),
         wish' \in Editor!Type,
         blocks' \in Seq(BlockType), BlocksRight(blocks'), d.parts = PartsIn(blocks'),
         d.op # "none",
         page.id \in DOMAIN wanted => Agree(d, m, things)
  PROVE  EditInv'
<1>1. Editing /\ at = "rule" /\ ~reading
      BY EditStarts
<1>2. /\ UNCHANGED <<saved, things, at, cards, reading, loads, known, shows>>
      BY DEF Editor!Edits, Editor!Page
<1>3. page' = [n |-> page.n, id |-> page.id, d |-> d] /\ page.n \in Nat /\ page.id \in Nat \ {0}
      BY <1>1 DEF EditInv, EditTyped, Editing
<1> DEFINE q == [do |-> "put", n |-> page.n, id |-> page.id, d |-> d]
<1>4. line' = Append(line, q) /\ q \in Change
      BY <1>3 DEF Editor!Send, Change
<1>5. /\ DOMAIN wanted' = DOMAIN wanted /\ wanted' \in [DOMAIN wanted -> Editor!Description]
      /\ \A i \in DOMAIN wanted : i # page.id => wanted'[i] = wanted[i]
      /\ page.id \in DOMAIN wanted => wanted'[page.id] = m
      BY DEF Editor!Makes, EditInv, EditTyped
<1>6. q.do = "put" /\ q.id = page.id /\ q.d = d
      OBVIOUS
<1> HIDE DEF q
<1>7. RulesFollow'
      BY <1>2, <1>3, <1>4, <1>5, <1>6, PutSent DEF EditInv
<1>8. /\ line' \in Seq(Change) /\ DOMAIN line' = 1 .. Len(line) + 1
      /\ DOMAIN line = 1 .. Len(line)
      /\ Len(line) \in Nat
      /\ \A k \in DOMAIN line : line'[k] = line[k]
      /\ line'[Len(line) + 1] = q
      BY <1>4, LineGrows DEF EditInv, EditTyped
<1>9. EditTyped'
      BY <1>2, <1>3, <1>5, <1>8 DEF EditInv, EditTyped
<1>10. Editing'
      <2>1. \A k \in DOMAIN line' : line'[k].do # "post" /\ line'[k].id = page.id
            BY <1>1, <1>6, <1>8 DEF Editing
      <2>2. RuleRight'
            BY <1>3 DEF RuleRight
      <2>3. page.id \in DOMAIN wanted => Agree(d, wanted'[page.id], things)
            BY <1>5
      <2>4. page'.n = page.n /\ page'.id = page.id /\ page'.d = d
            BY <1>3
      <2> QED BY <1>1, <1>2, <1>5, <2>1, <2>2, <2>3, <2>4 DEF Editing
<1> QED BY <1>1, <1>2, <1>7, <1>9, <1>10 DEF EditInv, ListRight, PageRight

\* The rule is made anew from blocks that are right.
LEMMA Anew ==
  ASSUME EditInv, ~Hasty, Editor!Edits, NEW bs \in Seq(BlockType), BlocksRight(bs),
         Editor!Changed(bs),
         UNCHANGED wish, NEW m \in Editor!Description, Editor!Makes(m),
         NEW old, NEW ps, PartsIn(bs) = (PartsIn(blocks) \ old) \cup ps,
         \/ /\ m.on = Editor!Mine.on /\ m.named = Editor!Mine.named /\ m.op = Editor!Mine.op
            /\ m.parts = (Editor!Mine.parts \ old) \cup ps
            /\ m.type = IF Editor!Typed(page.d) THEN Editor!Mine.type
                ELSE Editor!Shown(page.d, wish)
         \/ /\ m.on = Editor!Mine.on /\ m.named = Editor!Mine.named /\ m.op = Editor!Mine.op
            /\ ps = {} /\ m.parts = Editor!Mine.parts \ old /\ m.type = Editor!Mine.type
  PROVE  EditInv'
<1> DEFINE c == page.d
           t == Editor!Shown(c, wish)
           d == Editor!FromBlocks(Editor!Wrapped(c), bs, t)
<1>1. Editing /\ at = "rule"
      BY EditStarts
<1>2. c \in Editor!Description /\ wish \in Editor!Type /\ t \in Editor!Type
      BY ShownIs DEF EditInv, EditTyped
<1>3. c.op # "none" /\ c.parts = PartsIn(blocks)
      BY <1>1 DEF Editing, RuleRight
<1>4. Editor!Wrapped(c) = c
      BY <1>2, <1>3, WrappedIs
<1>5. page' = [page EXCEPT !.d = d] /\ blocks' = bs /\ Editor!Send(page')
      BY DEF Editor!Changed, Editor!Save
<1> HIDE DEF c, t
<1>6. d = [on |-> c.on, named |-> c.named, op |-> c.op,
           type |-> t, parts |-> PartsIn(bs)]
      /\ d \in Editor!Description
      BY <1>2, <1>4, MadeOf
<1> HIDE DEF d
<1>7. /\ d.on = c.on /\ d.named = c.named /\ d.op = c.op /\ d.type = t /\ d.parts = PartsIn(bs)
      /\ d.parts = (c.parts \ old) \cup ps
      BY <1>3, <1>6
<1>8. ASSUME page.id \in DOMAIN wanted PROVE Agree(d, m, things)
      <2>1. Editor!Mine \in Editor!Description /\ Agree(c, Editor!Mine, things)
            BY <1>1, <1>8, MineIs DEF Editing, EditInv, c
      <2>2. CASE /\ m.on = Editor!Mine.on /\ m.named = Editor!Mine.named /\ m.op = Editor!Mine.op
                 /\ m.parts = (Editor!Mine.parts \ old) \cup ps
                 /\ m.type = IF Editor!Typed(page.d) THEN Editor!Mine.type
                     ELSE Editor!Shown(page.d, wish)
            <3>1. d.type = Editor!Shown(c, wish)
                    /\ m.type = IF Editor!Typed(c) THEN Editor!Mine.type
                        ELSE Editor!Shown(c, wish)
                  BY <1>7, <2>2 DEF c, t
            <3>2. /\ d.on = c.on /\ d.named = c.named /\ d.op = c.op /\ c.op # "none"
                  /\ d.parts = (c.parts \ old) \cup ps /\ d \in Editor!Description
                  BY <1>3, <1>6, <1>7
            <3>3. /\ m.on = Editor!Mine.on /\ m.named = Editor!Mine.named /\ m.op = Editor!Mine.op
                  /\ m.parts = (Editor!Mine.parts \ old) \cup ps
                  BY <2>2
            <3> QED BY <1>2, <2>1, <3>1, <3>2, <3>3, AgreeAdds
      <2>3. CASE /\ m.on = Editor!Mine.on /\ m.named = Editor!Mine.named /\ m.op = Editor!Mine.op
                 /\ ps = {} /\ m.parts = Editor!Mine.parts \ old /\ m.type = Editor!Mine.type
            <3>1. d.type = Editor!Shown(c, wish) /\ d.parts = c.parts \ old
                  BY <1>7, <2>3 DEF c, t
            <3> QED BY ZenonT(60), <1>2, <1>3, <1>6, <1>7, <2>1, <2>3, <3>1, AgreeTakes
      <2> QED BY <2>2, <2>3
<1> QED BY <1>2, <1>3, <1>5, <1>6, <1>7, <1>8, Edited

\* What the user has made of a rule, with parts more.
LEMMA AddsIs ==
  ASSUME EditTyped, NEW m \in Editor!Description, NEW ps \in SUBSET Editor!Part
  PROVE  /\ Editor!Adds(m, ps) \in Editor!Description
         /\ Editor!Adds(m, ps) = [on |-> m.on, named |-> m.named, op |-> m.op,
                                  type |-> IF Editor!Typed(page.d) THEN m.type
                                      ELSE Editor!Shown(page.d, wish),
                                  parts |-> m.parts \cup ps]
<1> DEFINE t == IF Editor!Typed(page.d) THEN m.type ELSE Editor!Shown(page.d, wish)
<1>1. Editor!Shown(page.d, wish) \in Editor!Type
      BY ShownIs DEF EditTyped
<1>2. t \in Editor!Type
      BY <1>1 DEF Editor!Description
<1>3. Editor!Adds(m, ps) = [m EXCEPT !.parts = m.parts \cup ps, !.type = t]
      BY DEF Editor!Adds
<1> HIDE DEF t
<1>4. /\ Editor!Adds(m, ps) \in Editor!Description
      /\ Editor!Adds(m, ps) = [on |-> m.on, named |-> m.named, op |-> m.op,
                               type |-> t, parts |-> m.parts \cup ps]
      BY <1>2, <1>3 DEF Editor!Description
<1> QED BY <1>4 DEF t

\* What a block has when it is put on a side: none of a device, one of anything else.
LEMMA FirstIs ==
  ASSUME NEW of \in Editor!Block, NEW role \in Editor!Role
  PROVE  /\ of \in Device => Editor!First(of, role) = {}
         /\ of \notin Device => \E p \in Editor!Part : Editor!First(of, role) = {p}
<1>1. of = "clock" => of \notin Device
      BY EditorBounds DEF Editor!EditorAssumption
<1>2. of \in Device => Editor!First(of, role) = {}
      BY <1>1 DEF Editor!First
<1>3. ASSUME of \notin Device PROVE \E p \in Editor!Part : Editor!First(of, role) = {p}
      <2>1. CASE of = "clock"
            <3>1. Editor!First(of, role) = {[as |-> "trigger", of |-> of, value |-> 1]}
                  BY <1>3, <2>1 DEF Editor!First
            <3>2. [as |-> "trigger", of |-> of, value |-> 1] \in Editor!Part
                  BY DEF Editor!Part, Editor!Role
            <3> QED BY <3>1, <3>2
      <2>2. CASE of # "clock"
            <3>1. Editor!First(of, role) = {[as |-> "effect", of |-> of, value |-> 1]}
                  BY <1>3, <2>2 DEF Editor!First
            <3>2. [as |-> "effect", of |-> of, value |-> 1] \in Editor!Part
                  BY DEF Editor!Part, Editor!Role
            <3> QED BY <3>1, <3>2
      <2> QED BY <2>1, <2>2
<1> QED BY <1>2, <1>3

\* A block that is put on a side.
LEMMA DroppedIs ==
  ASSUME NEW b \in [of : Editor!Block, role : Editor!Role \cup {"removed", "none"},
         part : SUBSET Editor!Part, dom : BOOLEAN],
         NEW role \in Editor!Role, b.part = {} \/ \E p \in b.part : b.part = {p}
  PROVE  /\ Editor!Dropped(b, role) \in BlockType /\ Single(Editor!Dropped(b, role))
         /\ Editor!Dropped(b, role).part = IF b.part # {} /\ (b.of \notin Device \/ role = b.role)
                                           THEN b.part ELSE Editor!First(b.of, role)
<1> DEFINE t == IF b.part # {} /\ (b.of \notin Device \/ role = b.role)
                THEN b.part ELSE Editor!First(b.of, role)
<1>1. t \in SUBSET Editor!Part /\ (t = {} \/ \E p \in t : t = {p})
        /\ (b.of \notin Device => t # {})
      <2>1. CASE b.part # {} /\ (b.of \notin Device \/ role = b.role)
            BY <2>1
      <2>2. CASE ~(b.part # {} /\ (b.of \notin Device \/ role = b.role))
            <3>1. t = Editor!First(b.of, role) /\ b.of \in Editor!Block
                  BY <2>2
            <3> HIDE DEF t
            <3>2. b.of \in Device => t = {}
                  BY <3>1, FirstIs
            <3>3. b.of \notin Device => \E p \in Editor!Part : t = {p}
                  BY <3>1, FirstIs
            <3> QED BY <3>2, <3>3
      <2> QED BY <2>1, <2>2
<1>2. Editor!Dropped(b, role) = [b EXCEPT !.role = role, !.part = t]
      BY DEF Editor!Dropped
<1> HIDE DEF t
<1>3. Editor!Dropped(b, role) = [of |-> b.of, role |-> role, part |-> t, dom |-> b.dom]
      BY <1>2
<1>4. Editor!Dropped(b, role) \in BlockType /\ Single(Editor!Dropped(b, role))
      BY <1>1, <1>3 DEF BlockType, Single
<1>5. Editor!Dropped(b, role).part = t
      BY <1>3
<1> QED BY <1>4, <1>5 DEF t

\* A block is dragged in.
LEMMA DropKeeps ==
  ASSUME EditInv, ~Hasty, NEW of \in Editor!Block, NEW role \in Editor!Role, Editor!Drop(of, role)
  PROVE  EditInv'
<1> DEFINE c == [of |-> of, role |-> "none", part |-> {}, dom |-> TRUE]
           b == Editor!Dropped(c, role)
           m == Editor!Adds(Editor!Mine, b.part)
<1>1. b \in BlockType /\ Single(b)
      <2>1. /\ c \in [of : Editor!Block, role : Editor!Role \cup {"removed", "none"},
                part : SUBSET Editor!Part,
                      dom : BOOLEAN]
            /\ c.part = {}
            OBVIOUS
      <2> HIDE DEF c
      <2> QED BY <2>1, DroppedIs
<1>2. ~Editor!Alike(b) /\ Editor!Edits /\ Editor!Changed(Append(blocks, b)) /\ Editor!Makes(m)
        /\ UNCHANGED wish
      BY DEF Editor!Drop
<1> HIDE DEF b
<1>3. Editing
      BY <1>2, EditStarts
<1>4. b.part = {} \/ \A j \in DOMAIN blocks : blocks[j].part # b.part
      BY <1>2 DEF Editor!Alike
<1>5. blocks \in Seq(BlockType) /\ BlocksRight(blocks)
      BY <1>3 DEF EditInv, EditTyped, Editing, RuleRight
<1>6. /\ Append(blocks, b) \in Seq(BlockType) /\ BlocksRight(Append(blocks, b))
      /\ PartsIn(Append(blocks, b)) = (PartsIn(blocks) \ {}) \cup b.part
      BY <1>1, <1>4, <1>5, BlockAdded
<1>7. /\ m \in Editor!Description
      /\ m.on = Editor!Mine.on /\ m.named = Editor!Mine.named /\ m.op = Editor!Mine.op
      /\ m.parts = (Editor!Mine.parts \ {}) \cup b.part
      /\ m.type = IF Editor!Typed(page.d) THEN Editor!Mine.type ELSE Editor!Shown(page.d, wish)
      <2>1. Editor!Mine \in Editor!Description /\ b.part \in SUBSET Editor!Part
            BY <1>1, MineIs DEF EditInv, BlockType
      <2>2. /\ m \in Editor!Description
            /\ m = [on |-> Editor!Mine.on, named |-> Editor!Mine.named, op |-> Editor!Mine.op,
                    type |-> IF Editor!Typed(page.d) THEN Editor!Mine.type
                        ELSE Editor!Shown(page.d, wish),
                    parts |-> Editor!Mine.parts \cup b.part]
            BY <2>1, AddsIs DEF EditInv
      <2> HIDE DEF m
      <2> QED BY <2>2
<1> HIDE DEF m
<1> QED BY <1>2, <1>6, <1>7, Anew

\* A block is taken away, and its part.
LEMMA TakeKeeps ==
  ASSUME EditInv, ~Hasty, Editor!Edits, NEW i \in DOMAIN blocks,
         Editor!Changed(Editor!RemoveAt(blocks, i)),
         Editor!Makes([Editor!Mine EXCEPT !.parts = @ \ blocks[i].part]), UNCHANGED wish
  PROVE  EditInv'
<1> DEFINE m == [Editor!Mine EXCEPT !.parts = @ \ blocks[i].part]
<1>1. blocks \in Seq(BlockType) /\ BlocksRight(blocks)
      BY EditStarts DEF EditInv, EditTyped, Editing, RuleRight
<1>2. /\ Editor!RemoveAt(blocks, i) \in Seq(BlockType) /\ BlocksRight(Editor!RemoveAt(blocks, i))
      /\ PartsIn(Editor!RemoveAt(blocks, i)) = (PartsIn(blocks) \ blocks[i].part) \cup {}
      BY <1>1, BlockTaken
<1>3. /\ m \in Editor!Description
      /\ m.on = Editor!Mine.on /\ m.named = Editor!Mine.named /\ m.op = Editor!Mine.op
      /\ m.parts = Editor!Mine.parts \ blocks[i].part /\ m.type = Editor!Mine.type
      <2>1. Editor!Mine \in Editor!Description
            BY MineIs DEF EditInv
      <2> QED BY <2>1 DEF Editor!Description
<1> HIDE DEF m
<1> QED BY <1>2, <1>3, Anew DEF m

\* A block is dragged to the other side, or away.
LEMMA MoveKeeps ==
  ASSUME EditInv, ~Hasty, NEW i \in DOMAIN blocks, NEW role \in Editor!Role, Editor!Move(i, role)
  PROVE  EditInv'
<1> DEFINE c == blocks[i]
           b == Editor!Dropped(c, role)
<1>1. role # c.role /\ Editor!Edits /\ UNCHANGED wish
      BY DEF Editor!Move
<1>2. blocks \in Seq(BlockType) /\ BlocksRight(blocks) /\ c \in BlockType /\ Single(c)
      BY <1>1, EditStarts DEF EditInv, EditTyped, Editing, RuleRight, BlocksRight
<1>3. b.of = c.of
      <2> HIDE DEF c
      <2> QED BY <1>2 DEF BlockType, Editor!Dropped
<1>4. /\ b \in BlockType /\ Single(b)
      /\ b.part = IF c.part # {} /\ (c.of \notin Device \/ role = c.role)
                  THEN c.part ELSE Editor!First(c.of, role)
      <2>1. c \in [of : Editor!Block, role : Editor!Role \cup {"removed", "none"},
              part : SUBSET Editor!Part, dom : BOOLEAN]
            BY <1>2 DEF BlockType
      <2>2. c.part = {} \/ \E p \in c.part : c.part = {p}
            BY <1>2 DEF Single
      <2> HIDE DEF c
      <2> QED BY <2>1, <2>2, DroppedIs
<1>5. Editor!Mine \in Editor!Description
      BY MineIs DEF EditInv
<1>6. /\ Editor!Changed(IF Editor!Takes(b.of, role) THEN [blocks EXCEPT ![i] = b]
          ELSE Editor!RemoveAt(blocks, i))
      /\ Editor!Makes([Editor!Mine EXCEPT !.parts = IF Editor!Takes(b.of, role)
          /\ b.of \notin Device THEN @
                                                    ELSE @ \ blocks[i].part])
      BY DEF Editor!Move
<1> HIDE DEF b
<1>7. CASE ~Editor!Takes(b.of, role)
      BY <1>1, <1>6, <1>7, TakeKeeps
<1>8. CASE Editor!Takes(b.of, role) /\ b.of \notin Device
      <2> DEFINE m == [Editor!Mine EXCEPT !.parts = @]
      <2>1. Editor!Makes(m) /\ Editor!Changed([blocks EXCEPT ![i] = b])
            BY <1>6, <1>8
      <2>2. m = Editor!Mine
            BY <1>5 DEF Editor!Description
      <2>3. b.part = c.part /\ c.part # {}
            BY <1>2, <1>3, <1>4, <1>8 DEF Single
      <2>4. \A j \in DOMAIN blocks \ {i} : blocks[j].part # b.part
            BY <1>2, <2>3 DEF BlocksRight
      <2>5. /\ [blocks EXCEPT ![i] = b] \in Seq(BlockType)
            /\ BlocksRight([blocks EXCEPT ![i] = b])
            /\ PartsIn([blocks EXCEPT ![i] = b]) = (PartsIn(blocks) \ c.part) \cup b.part
            BY <1>2, <1>4, <2>4, BlockChanged
      <2>6. c.part \subseteq PartsIn(blocks)
            BY PartsAre
      <2>7. PartsIn([blocks EXCEPT ![i] = b]) = (PartsIn(blocks) \ {}) \cup {}
            BY <2>3, <2>5, <2>6
      <2>8. m.parts = Editor!Mine.parts \ {} /\ m.type = Editor!Mine.type
              /\ m \in Editor!Description
            BY <1>5, <2>2
      <2> HIDE DEF m
      <2> QED BY <1>1, <2>1, <2>2, <2>5, <2>7, <2>8, Anew
<1>9. CASE Editor!Takes(b.of, role) /\ b.of \in Device
      <2> DEFINE m == [Editor!Mine EXCEPT !.parts = @ \ blocks[i].part]
      <2>1. Editor!Makes(m) /\ Editor!Changed([blocks EXCEPT ![i] = b])
            BY <1>6, <1>9
      <2>2. b.part = {}
            BY <1>1, <1>2, <1>3, <1>4, <1>9, FirstIs DEF BlockType
      <2>3. /\ [blocks EXCEPT ![i] = b] \in Seq(BlockType)
            /\ BlocksRight([blocks EXCEPT ![i] = b])
            /\ PartsIn([blocks EXCEPT ![i] = b]) = (PartsIn(blocks) \ c.part) \cup {}
            BY <1>2, <1>4, <2>2, BlockChanged
      <2>4. /\ m \in Editor!Description
            /\ m.on = Editor!Mine.on /\ m.named = Editor!Mine.named /\ m.op = Editor!Mine.op
            /\ m.parts = Editor!Mine.parts \ c.part /\ m.type = Editor!Mine.type
            BY <1>5 DEF Editor!Description
      <2> HIDE DEF m
      <2> QED BY <1>1, <2>1, <2>3, <2>4, Anew
<1> QED BY <1>7, <1>8, <1>9

\* A block is given another part.
LEMMA FillKeeps ==
  ASSUME EditInv, ~Hasty, NEW i \in DOMAIN blocks, NEW b \in BlockType, Single(b),
         Editor!Fills(i, b),
         UNCHANGED wish
  PROVE  EditInv'
<1> DEFINE c == blocks[i]
           k == [Editor!Mine EXCEPT !.parts = @ \ c.part]
           m == Editor!Adds(k, b.part)
<1>1. ~Editor!Alike(b) /\ Editor!Edits /\ Editor!Changed([blocks EXCEPT ![i] = b])
        /\ Editor!Makes(m)
      BY DEF Editor!Fills
<1>2. blocks \in Seq(BlockType) /\ BlocksRight(blocks)
      BY <1>1, EditStarts DEF EditInv, EditTyped, Editing, RuleRight, BlocksRight
<1>3. b.part = {} \/ \A j \in DOMAIN blocks \ {i} : blocks[j].part # b.part
      BY <1>1 DEF Editor!Alike
<1>4. /\ [blocks EXCEPT ![i] = b] \in Seq(BlockType) /\ BlocksRight([blocks EXCEPT ![i] = b])
      /\ PartsIn([blocks EXCEPT ![i] = b]) = (PartsIn(blocks) \ c.part) \cup b.part
      BY <1>2, <1>3, BlockChanged
<1>5. Editor!Mine \in Editor!Description /\ b.part \in SUBSET Editor!Part
      BY MineIs DEF EditInv, BlockType
<1> HIDE DEF c
<1>6. /\ k \in Editor!Description /\ k.on = Editor!Mine.on /\ k.named = Editor!Mine.named
      /\ k.op = Editor!Mine.op
      /\ k.parts = Editor!Mine.parts \ c.part /\ k.type = Editor!Mine.type
      BY <1>5 DEF Editor!Description
<1> HIDE DEF k
<1>7. /\ m \in Editor!Description
      /\ m = [on |-> k.on, named |-> k.named, op |-> k.op,
              type |-> IF Editor!Typed(page.d) THEN k.type ELSE Editor!Shown(page.d, wish),
              parts |-> k.parts \cup b.part]
      BY <1>5, <1>6, AddsIs DEF EditInv
<1> HIDE DEF m
<1>8. /\ m.on = Editor!Mine.on /\ m.named = Editor!Mine.named /\ m.op = Editor!Mine.op
      /\ m.parts = (Editor!Mine.parts \ c.part) \cup b.part
      /\ m.type = IF Editor!Typed(page.d) THEN Editor!Mine.type ELSE Editor!Shown(page.d, wish)
      BY <1>6, <1>7
<1> QED BY ZenonT(60), <1>1, <1>4, <1>7, <1>8, Anew

\* A device's property, event or action is chosen.
LEMMA ChooseKeeps ==
  ASSUME EditInv, ~Hasty, NEW i \in DOMAIN blocks, NEW amount \in 1 .. 2, Editor!Choose(i, amount)
  PROVE  EditInv'
<1> DEFINE c == blocks[i]
           p == [as |-> c.role, of |-> c.of, value |-> amount]
           b == [c EXCEPT !.part = {p}]
<1>1. c.of \in Device /\ Editor!Fills(i, b)
      BY DEF Editor!Choose
<1>2. UNCHANGED wish /\ Editor!Edits
      BY DEF Editor!Choose, Editor!Fills
<1>3. c \in BlockType /\ Single(c)
      BY <1>2, EditStarts DEF EditInv, EditTyped, Editing, RuleRight, BlocksRight
<1> HIDE DEF c
<1>4. p \in Editor!Part
      <2>1. c.of \in Editor!Block
            BY <1>3 DEF BlockType
      <2> QED BY <1>3, <2>1 DEF Editor!Part, Single
<1>5. b \in BlockType /\ b.part = {p} /\ b.role = c.role
      BY <1>3, <1>4 DEF BlockType
<1> HIDE DEF p, b
<1>6. Single(b)
      BY <1>3, <1>5 DEF Single
<1> QED BY <1>1, <1>2, <1>5, <1>6, FillKeeps

\* The time of the clock, or a text, is entered.
LEMMA EnterKeeps ==
  ASSUME EditInv, ~Hasty, NEW i \in DOMAIN blocks, NEW amount \in 1 .. 2, Editor!Enter(i, amount)
  PROVE  EditInv'
<1> DEFINE c == blocks[i]
           as == IF c.of = "clock" THEN "trigger" ELSE "effect"
           p == [as |-> as, of |-> c.of, value |-> amount]
           b == [c EXCEPT !.part = {p}, !.role = as]
<1>1. Editor!Fills(i, b) /\ UNCHANGED wish /\ Editor!Edits
      BY DEF Editor!Enter, Editor!Fills
<1>2. c \in BlockType
      BY DEF EditInv, EditTyped
<1> HIDE DEF c
<1>3. p \in Editor!Part /\ as \in Editor!Role
      <2>1. c.of \in Editor!Block
            BY <1>2 DEF BlockType
      <2> QED BY <2>1 DEF Editor!Part, Editor!Role
<1> HIDE DEF as
<1>4. b \in BlockType /\ b.part = {p} /\ b.role = as
      BY <1>2, <1>3 DEF BlockType
<1> HIDE DEF p, b
<1>5. Single(b)
      BY <1>3, <1>4 DEF Single
<1> QED BY <1>1, <1>4, <1>5, FillKeeps

\* What is said of the rule on the page when it is changed.
LEMMA PageIs ==
  ASSUME EditInv, ~Hasty, Editor!Edits
  PROVE  /\ page.d \in Editor!Description /\ page.d.op # "none" /\ page.d.parts = PartsIn(blocks)
         /\ blocks \in Seq(BlockType) /\ BlocksRight(blocks) /\ wish \in Editor!Type
         /\ Editor!Mine \in Editor!Description
         /\ page.id \in DOMAIN wanted => Agree(page.d, Editor!Mine, things)
<1>1. Editing
      BY EditStarts
<1>2. EditTyped
      BY DEF EditInv
<1>3. Editor!Mine \in Editor!Description
        /\ (page.id \in DOMAIN wanted => Editor!Mine = wanted[page.id])
      BY <1>2, MineIs
<1> QED BY <1>1, <1>2, <1>3 DEF EditTyped, Editing, RuleRight

\* All triggers, or any.
LEMMA ChooseOpKeeps ==
  ASSUME EditInv, ~Hasty, NEW joint \in {"AND", "OR"}, Editor!ChooseOp(joint)
  PROVE  EditInv'
<1> DEFINE c == page.d
           t == Editor!Shown(c, wish)
           f == Editor!FromBlocks(c, blocks, t)
           d == [f EXCEPT !.op = joint]
           m == [Editor!Mine EXCEPT !.op = joint]
<1>1. /\ Editor!Edits /\ page' = [page EXCEPT !.d = d] /\ blocks' = blocks /\ Editor!Send(page')
      /\ Editor!Makes(m) /\ UNCHANGED wish
      BY DEF Editor!ChooseOp, Editor!Save
<1>2. /\ c \in Editor!Description /\ c.op # "none" /\ c.parts = PartsIn(blocks)
      /\ blocks \in Seq(BlockType) /\ BlocksRight(blocks) /\ wish \in Editor!Type
      /\ Editor!Mine \in Editor!Description
      /\ page.id \in DOMAIN wanted => Agree(c, Editor!Mine, things)
      BY <1>1, PageIs
<1> HIDE DEF c
<1>3. t \in Editor!Type /\ (Editor!Typed(c) => t = c.type)
      BY <1>2, ShownIs
<1> HIDE DEF t
<1>4. f = [on |-> c.on, named |-> c.named, op |-> c.op,
           type |-> t, parts |-> PartsIn(blocks)]
      /\ f \in Editor!Description
      BY <1>2, <1>3, MadeOf
<1> HIDE DEF f
<1>5. /\ d.on = c.on /\ d.named = c.named /\ d.op = joint /\ d.type = t /\ d.parts = c.parts
      /\ d \in Editor!Description
      BY <1>2, <1>4 DEF Editor!Description
<1>6. /\ m.on = Editor!Mine.on /\ m.named = Editor!Mine.named /\ m.op = joint
      /\ m.type = Editor!Mine.type
      /\ m.parts = Editor!Mine.parts /\ m \in Editor!Description
      BY <1>2 DEF Editor!Description
<1> HIDE DEF d, m
<1>7. ASSUME page.id \in DOMAIN wanted PROVE Agree(d, m, things)
      <2>1. Agree(c, Editor!Mine, things)
            BY <1>2, <1>7
      <2>2. Editor!Wrapped(d).op = joint /\ Editor!Wrapped(m).op = joint
            BY <1>5, <1>6 DEF Editor!Wrapped, Editor!Description
      <2>3. Editor!Typed(d) => Editor!Typed(c)
            BY <1>5 DEF Editor!Typed
      <2>4. Editor!Typed(d) => d.type = m.type
            BY <1>3, <1>5, <1>6, <2>1, <2>3 DEF Agree
      <2> QED BY <1>5, <1>6, <2>1, <2>2, <2>4 DEF Agree
<1> QED BY <1>1, <1>2, <1>5, <1>6, <1>7, Edited

\* "If" or "While".
LEMMA ChooseTypeKeeps ==
  ASSUME EditInv, ~Hasty, NEW type \in Editor!Type, Editor!ChooseType(type)
  PROVE  EditInv'
<1> DEFINE c == page.d
           d == Editor!FromBlocks(c, blocks, type)
           m == [Editor!Mine EXCEPT !.type = type]
<1>1. /\ Editor!Edits /\ page' = [page EXCEPT !.d = d] /\ blocks' = blocks /\ Editor!Send(page')
      /\ Editor!Makes(m) /\ wish' = type
      BY DEF Editor!ChooseType, Editor!Save
<1>2. /\ c \in Editor!Description /\ c.op # "none" /\ c.parts = PartsIn(blocks)
      /\ blocks \in Seq(BlockType) /\ BlocksRight(blocks)
      /\ Editor!Mine \in Editor!Description
      /\ page.id \in DOMAIN wanted => Agree(c, Editor!Mine, things)
      BY <1>1, PageIs
<1> HIDE DEF c
<1>3. d = [on |-> c.on, named |-> c.named, op |-> c.op,
           type |-> type, parts |-> PartsIn(blocks)]
      /\ d \in Editor!Description
      BY <1>2, MadeOf
<1> HIDE DEF d
<1>4. /\ d.on = c.on /\ d.named = c.named /\ d.op = c.op /\ d.type = type /\ d.parts = c.parts
      BY <1>2, <1>3
<1>5. /\ m.on = Editor!Mine.on /\ m.named = Editor!Mine.named /\ m.op = Editor!Mine.op
      /\ m.type = type
      /\ m.parts = Editor!Mine.parts /\ m \in Editor!Description
      BY <1>2 DEF Editor!Description
<1> HIDE DEF m
<1>6. ASSUME page.id \in DOMAIN wanted PROVE Agree(d, m, things)
      <2>1. Agree(c, Editor!Mine, things)
            BY <1>2, <1>6
      <2>2. Editor!Wrapped(d).op = Editor!Wrapped(c).op
              /\ Editor!Wrapped(m).op = Editor!Wrapped(Editor!Mine).op
            BY <1>2, <1>3, <1>4, <1>5 DEF Editor!Wrapped, Editor!Description
      <2> QED BY <1>4, <1>5, <2>1, <2>2 DEF Agree
<1> QED BY <1>1, <1>2, <1>3, <1>4, <1>5, <1>6, Edited

\* The rule is given a name.
LEMMA RenameKeeps ==
  ASSUME EditInv, ~Hasty, Editor!Rename
  PROVE  EditInv'
<1> DEFINE c == page.d
           d == [c EXCEPT !.named = TRUE]
           m == [Editor!Mine EXCEPT !.named = TRUE]
<1>1. /\ Editor!Edits /\ page' = [page EXCEPT !.d = d] /\ blocks' = blocks /\ Editor!Send(page')
      /\ Editor!Makes(m) /\ UNCHANGED wish
      BY DEF Editor!Rename, Editor!Save
<1>2. /\ c \in Editor!Description /\ c.op # "none" /\ c.parts = PartsIn(blocks)
      /\ blocks \in Seq(BlockType) /\ BlocksRight(blocks) /\ wish \in Editor!Type
      /\ Editor!Mine \in Editor!Description
      /\ page.id \in DOMAIN wanted => Agree(c, Editor!Mine, things)
      BY <1>1, PageIs
<1> HIDE DEF c
<1>3. /\ d.on = c.on /\ d.named = TRUE /\ d.op = c.op /\ d.type = c.type /\ d.parts = c.parts
      /\ d \in Editor!Description
      BY <1>2 DEF Editor!Description
<1>4. /\ m.on = Editor!Mine.on /\ m.named = TRUE /\ m.op = Editor!Mine.op
      /\ m.type = Editor!Mine.type
      /\ m.parts = Editor!Mine.parts /\ m \in Editor!Description
      BY <1>2 DEF Editor!Description
<1> HIDE DEF d, m
<1>5. ASSUME page.id \in DOMAIN wanted PROVE Agree(d, m, things)
      <2>1. Agree(c, Editor!Mine, things)
            BY <1>2, <1>5
      <2>2. Editor!Wrapped(d).op = Editor!Wrapped(c).op
              /\ Editor!Wrapped(m).op = Editor!Wrapped(Editor!Mine).op
            BY <1>2, <1>3, <1>4 DEF Editor!Wrapped, Editor!Description
      <2>3. Editor!Typed(d) => Editor!Typed(c)
            BY <1>3 DEF Editor!Typed
      <2> QED BY <1>3, <1>4, <2>1, <2>2, <2>3 DEF Agree
<1> QED BY <1>1, <1>2, <1>3, <1>4, <1>5, Edited

\* Every change of the rule on the page.
LEMMA EditKeeps ==
  ASSUME EditInv, ~Hasty, Editor!Edit
  PROVE  EditInv'
<1>1. CASE \E of \in Editor!Block, role \in Editor!Role : Editor!Drop(of, role)
      BY <1>1, DropKeeps
<1>2. CASE \E i \in DOMAIN blocks, role \in Editor!Role : Editor!Move(i, role)
      BY <1>2, MoveKeeps
<1>3. CASE \E i \in DOMAIN blocks : Editor!Discard(i)
      BY <1>3, TakeKeeps DEF Editor!Discard
<1>4. CASE \E i \in DOMAIN blocks, amount \in 1 .. 2 :
             Editor!Choose(i, amount) \/ Editor!Enter(i, amount)
      BY <1>4, ChooseKeeps, EnterKeeps
<1>5. CASE \E joint \in {"AND", "OR"} : Editor!ChooseOp(joint)
      BY <1>5, ChooseOpKeeps
<1>6. CASE \E type \in Editor!Type : Editor!ChooseType(type)
      BY <1>6, ChooseTypeKeeps
<1>7. CASE Editor!Rename
      BY <1>7, RenameKeeps
<1> QED BY <1>1, <1>2, <1>3, <1>4, <1>5, <1>6, <1>7 DEF Editor!Edit

\* What agrees on what is there agrees on less.
LEMMA AgreeFewer ==
  ASSUME NEW d, NEW m, NEW s, NEW t, t \subseteq s, Agree(d, m, s)
  PROVE  Agree(d, m, t)
<1>1. \A p : Editor!There(p, t) => Editor!There(p, s)
      BY DEF Editor!There
<1> QED BY <1>1 DEF Agree

\* As long as what is sent and what is stored stay, so does what is to be done.
LEMMA FollowSame ==
  ASSUME RulesFollow, UNCHANGED <<saved, wanted, things, line>>
  PROVE  RulesFollow'
BY DEF RulesFollow

\* The list is opened.
LEMMA ShowListKeeps ==
  ASSUME EditInv, ~Hasty, Editor!ShowList
  PROVE  EditInv'
<1>1. /\ Editor!Quiet /\ shows' = shows + 1 /\ at' = "list"
      /\ UNCHANGED <<saved, things, loads, known, page, blocks, wish, line, wanted, cards>>
      /\ reading' = TRUE
      BY DEF Editor!ShowList, Editor!Goes, Editor!Editor
<1>2. line = <<>> /\ loads = {} /\ DOMAIN line = {} /\ 0 \notin DOMAIN wanted
      BY <1>1, QuietIs
<1>3. EditTyped'
      BY <1>1 DEF EditInv, EditTyped
<1>4. RulesFollow'
      BY <1>1, FollowSame DEF EditInv
<1>5. ListRight'
      BY <1>1, <1>2 DEF ListRight
<1> QED BY <1>1, <1>3, <1>4, <1>5 DEF EditInv, PageRight

\* What a card has.
LEMMA CardIs ==
  ASSUME EditTyped, NEW i \in DOMAIN saved
  PROVE  /\ Editor!CardOf(i) \in [id : Nat, d : Editor!Description, checked : BOOLEAN]
         /\ Editor!CardOf(i).id = i /\ Editor!CardOf(i).d = saved[i]
<1> DEFINE v == saved[i].on /\ Editor!Valid(saved[i], things)
<1>1. i \in Nat /\ saved[i] \in Editor!Description
      BY EditorBounds DEF EditTyped, Editor!EditorAssumption
<1>2. v \in BOOLEAN
      BY Zenon
<1>3. Editor!CardOf(i) = [id |-> i, d |-> saved[i], checked |-> v]
      BY DEF Editor!CardOf
<1> HIDE DEF v
<1> QED BY <1>1, <1>2, <1>3

\* The list is read: its cards show the rules as they are made.
LEMMA ReadRulesKeeps ==
  ASSUME EditInv, Editor!ReadRules
  PROVE  EditInv'
<1>1. /\ reading /\ reading' = FALSE /\ cards' = {Editor!CardOf(i) : i \in DOMAIN saved}
      /\ UNCHANGED <<saved, things, at, loads, known, page, blocks, wish, line, wanted, shows>>
      BY DEF Editor!ReadRules, Editor!Editor
<1>2. at = "list"
      BY <1>1 DEF EditInv, PageRight
<1>3. /\ loads = {} /\ 0 \notin DOMAIN wanted
      /\ \A k \in DOMAIN line : line[k].do # "post"
      /\ \A k \in DOMAIN line : line[k].do = "put" /\ line[k].id \notin DOMAIN saved
      BY <1>1, <1>2 DEF EditInv, ListRight
<1>4. \A i \in DOMAIN saved : /\ Editor!CardOf(i) \in [id : Nat, d : Editor!Description,
                                  checked : BOOLEAN]
                              /\ Editor!CardOf(i).id = i /\ Editor!CardOf(i).d = saved[i]
      BY CardIs DEF EditInv
<1>5. EditTyped'
      <2>1. cards' \subseteq [id : Nat, d : Editor!Description, checked : BOOLEAN]
            BY <1>1, <1>4
      <2> QED BY <1>1, <2>1 DEF EditInv, EditTyped
<1>6. RulesFollow'
      BY <1>1, FollowSame DEF EditInv
<1>7. ASSUME NEW i \in DOMAIN saved
      PROVE  i \in DOMAIN wanted /\ Agree(saved[i], wanted[i], things)
      <2>1. i \in DOMAIN wanted
            BY <1>3 DEF EditInv, RulesFollow
      <2>2. ~Awaits(line, 0, i)
            BY <1>3 DEF Awaits
      <2> QED BY <1>3, <2>1, <2>2 DEF EditInv, RulesFollow
<1>8. \A c \in cards' : /\ c.id \in DOMAIN wanted /\ Agree(c.d, wanted[c.id], things)
                        /\ \A e \in cards' : e.id = c.id => e = c
      BY <1>1, <1>4, <1>7
<1>9. ListRight'
      BY <1>1, <1>3, <1>8 DEF ListRight
<1> QED BY <1>1, <1>2, <1>5, <1>6, <1>9 DEF EditInv, PageRight

\* A rule, or a new one, is opened from the list.
LEMMA ShowKeeps ==
  ASSUME EditInv, ~Hasty, NEW id, Editor!Show(id), id = 0 \/ id \in DOMAIN wanted
  PROVE  EditInv'
<1> DEFINE stale == {i \in DOMAIN blocks : ~blocks[i].dom}
           upTo == IF stale = {} THEN Len(blocks) ELSE Editor!Min(stale) - 1
           gone(i) == [blocks[i] EXCEPT !.role = "removed", !.part = {}, !.dom = FALSE]
           w == IF id = 0 THEN {"things"} ELSE {"things", "rule"}
           n == shows + 1
           l == [n |-> n, id |-> id, d |-> Editor!New, waits |-> w]
<1>1. /\ Editor!Quiet /\ shows' = n /\ at' = "rule" /\ page' = Editor!NoRule /\ wish' = "Set"
      /\ UNCHANGED <<saved, things, cards, reading, known, line, wanted>>
      BY DEF Editor!Show, Editor!Goes
<1>2. /\ blocks' = [i \in DOMAIN blocks |-> IF i <= upTo THEN gone(i) ELSE blocks[i]]
      /\ loads' = IF stale = {} THEN loads \cup {l} ELSE loads
      BY <1>1 DEF Editor!Show
<1>3. line = <<>> /\ loads = {} /\ ~reading /\ DOMAIN line = {} /\ 0 \notin DOMAIN wanted
      BY <1>1, QuietIs
<1>4. EditTyped
      BY DEF EditInv
<1> HIDE DEF stale
<1>5. /\ \A i \in DOMAIN blocks : gone(i) \in BlockType /\ gone(i).role = "removed"
      /\ \A i \in DOMAIN blocks : blocks[i] \in BlockType
      /\ blocks \in Seq(BlockType)
      <2>1. blocks \in Seq(BlockType)
            BY <1>4 DEF EditTyped
      <2>2. ASSUME NEW i \in DOMAIN blocks
            PROVE  blocks[i] \in BlockType /\ gone(i) \in BlockType /\ gone(i).role = "removed"
            <3> DEFINE b == blocks[i]
            <3>1. b \in BlockType
                  BY <2>1
            <3> HIDE DEF b
            <3>2. [b EXCEPT !.role = "removed", !.part = {}, !.dom = FALSE] \in BlockType
                  BY <3>1 DEF BlockType
            <3>3. [b EXCEPT !.role = "removed", !.part = {}, !.dom = FALSE].role = "removed"
                  BY <3>1 DEF BlockType
            <3> QED BY <3>1, <3>2, <3>3 DEF b
      <2> QED BY <2>1, <2>2
<1> HIDE DEF upTo, gone
<1>6. blocks' \in Seq(BlockType) /\ DOMAIN blocks' = DOMAIN blocks
      <2>1. \A i \in DOMAIN blocks : (IF i <= upTo THEN gone(i) ELSE blocks[i]) \in BlockType
            BY <1>5
      <2>2. DOMAIN blocks = 1 .. Len(blocks) /\ Len(blocks) \in Nat
            BY <1>5
      <2> QED BY <1>2, <2>1, <2>2
<1>7. n \in Nat \ {0}
      BY <1>4 DEF EditTyped
<1> HIDE DEF n
<1>8. page' \in [n : Nat, id : Nat, d : Editor!Description] /\ page'.n = 0 /\ page'.id = 0
      BY <1>1, NewIs DEF Editor!NoRule
<1>9. EditTyped'
      <2>1. wish' \in Editor!Type /\ shows' \in Nat
            BY <1>1, <1>7 DEF Editor!Type
      <2> QED BY <1>1, <1>4, <1>6, <1>8, <2>1 DEF EditTyped
<1>10. RulesFollow'
      BY <1>1, FollowSame DEF EditInv
<1>11. CASE stale # {}
      <2>1. loads' = {}
            BY <1>2, <1>3, <1>11
      <2> QED BY <1>1, <1>3, <1>8, <1>9, <1>10, <2>1 DEF EditInv, ListRight, PageRight, Blank
<1>12. CASE stale = {}
      <2>1. loads' = {l}
            BY <1>2, <1>3, <1>12
      <2>2. \A i \in DOMAIN blocks' : blocks'[i].role = "removed"
            <3>1. upTo = Len(blocks) /\ DOMAIN blocks = 1 .. Len(blocks) /\ Len(blocks) \in Nat
                  BY <1>5, <1>12 DEF upTo
            <3> QED BY <1>2, <1>5, <1>6, <3>1
      <2>3. /\ l.n = n /\ l.id = id /\ l.d = Editor!New /\ "things" \in l.waits
            /\ id = 0 => "rule" \notin l.waits
            /\ id # 0 => "rule" \in l.waits
            OBVIOUS
      <2>4. id \in Nat /\ (id # 0 => id \in DOMAIN saved \cap DOMAIN wanted)
            BY <1>4 DEF EditInv, RulesFollow, EditTyped
      <2>5. l \in [n : Nat \ {0}, id : Nat, d : Editor!Description,
              waits : SUBSET {"things", "rule"}]
            <3>1. w \in SUBSET {"things", "rule"}
                  OBVIOUS
            <3> HIDE DEF w
            <3> QED BY <1>7, <2>4, <3>1, NewIs
      <2> HIDE DEF l
      <2>6. PICK k : k = l
            OBVIOUS
      <2>7. IsLoad(k)'
            BY <1>1, <2>3, <2>4, <2>5, <2>6 DEF IsLoad
      <2>8. Opening'
            BY <1>1, <1>3, <2>1, <2>2, <2>7, <2>6 DEF Opening
      <2> QED BY <1>1, <1>3, <1>9, <1>10, <2>8 DEF EditInv, ListRight, PageRight
<1> QED BY <1>11, <1>12

\* A card is clicked, or the button for a new rule.
LEMMA OpenKeeps ==
  ASSUME EditInv, ~Hasty, Editor!Open \/ Editor!OpenNew
  PROVE  EditInv'
<1>1. CASE Editor!OpenNew
      BY <1>1, ShowKeeps DEF Editor!OpenNew
<1>2. CASE Editor!Open
      <2>1. PICK c \in cards : at = "list" /\ Editor!Show(c.id)
            BY <1>2 DEF Editor!Open
      <2>2. ~reading
            BY <2>1 DEF Editor!Show, Editor!Goes, Editor!Quiet
      <2>3. c.id \in DOMAIN wanted
            BY <2>1, <2>2 DEF EditInv, ListRight
      <2> QED BY <2>1, <2>3, ShowKeeps
<1> QED BY <1>1, <1>2

\* A page that is being opened.
LEMMA LoadIs ==
  ASSUME EditInv, NEW l \in loads
  PROVE  at = "rule" /\ ~reading /\ Opening /\ loads = {l} /\ IsLoad(l)
<1>1. at = "rule"
      BY DEF EditInv, ListRight
<1>2. ~reading /\ Opening
      BY <1>1 DEF EditInv, PageRight, Blank, Posting, Editing
<1>3. PICK k \in loads : loads = {k} /\ IsLoad(k)
      BY <1>2 DEF Opening
<1>4. k = l
      BY <1>3
<1> QED BY <1>1, <1>2, <1>3, <1>4

\* The page learns of the things.
LEMMA ReadThingsKeeps ==
  ASSUME EditInv, NEW l \in loads, Editor!ReadThings(l)
  PROVE  EditInv'
<1> DEFINE k == [l EXCEPT !.waits = @ \ {"things"}]
<1>1. at = "rule" /\ ~reading /\ Opening /\ loads = {l} /\ IsLoad(l)
      BY LoadIs
<1>2. /\ known' = things /\ loads' = {k}
      /\ UNCHANGED <<saved, things, at, cards, reading, page, blocks, wish, line, wanted, shows>>
      BY <1>1 DEF Editor!ReadThings, Editor!Editor
<1>3. EditTyped'
      BY <1>2 DEF EditInv, EditTyped
<1>4. RulesFollow'
      BY <1>2, FollowSame DEF EditInv
<1>5. /\ k \in [n : Nat \ {0}, id : Nat, d : Editor!Description,
          waits : SUBSET {"things", "rule"}]
      /\ k.id = l.id /\ k.d = l.d /\ k.waits = l.waits \ {"things"}
      BY <1>1 DEF IsLoad
<1> HIDE DEF k
<1>6. IsLoad(k)'
      BY <1>1, <1>2, <1>5 DEF IsLoad
<1>7. Opening'
      BY <1>1, <1>2, <1>6 DEF Opening
<1> QED BY <1>1, <1>2, <1>3, <1>4, <1>7 DEF EditInv, ListRight, PageRight

\* The page learns of the rule.
LEMMA ReadRuleKeeps ==
  ASSUME EditInv, NEW l \in loads, Editor!ReadRule(l)
  PROVE  EditInv'
<1> DEFINE d == Editor!Wrapped(saved[l.id])
           k == [l EXCEPT !.waits = @ \ {"rule"}, !.d = d]
<1>1. at = "rule" /\ ~reading /\ Opening /\ loads = {l} /\ IsLoad(l)
      BY LoadIs
<1>2. "rule" \in l.waits /\ l.id # 0 /\ l.id \in DOMAIN saved \cap DOMAIN wanted
      BY <1>1 DEF Editor!ReadRule, IsLoad
<1>3. /\ loads' = {k}
      /\ UNCHANGED <<saved, things, at, cards, reading, known, page, blocks, wish, line, wanted,
                     shows>>
      BY <1>1, <1>2 DEF Editor!ReadRule, Editor!Editor
<1>4. EditTyped'
      BY <1>3 DEF EditInv, EditTyped
<1>5. RulesFollow'
      BY <1>3, FollowSame DEF EditInv
<1>6. d \in Editor!Description
      BY <1>2, WrappedIs DEF EditInv, EditTyped
<1> HIDE DEF d
<1>7. /\ k \in [n : Nat \ {0}, id : Nat, d : Editor!Description,
          waits : SUBSET {"things", "rule"}]
      /\ k.id = l.id /\ k.d = d /\ k.waits = l.waits \ {"rule"}
      BY <1>1, <1>6 DEF IsLoad
<1> HIDE DEF k
<1>8. PICK e : e = k
      OBVIOUS
<1>9. IsLoad(e)'
      BY <1>1, <1>2, <1>3, <1>7, <1>8 DEF IsLoad, d
<1>10. Opening'
      BY <1>1, <1>3, <1>9, <1>8 DEF Opening
<1> QED BY <1>1, <1>3, <1>4, <1>5, <1>10 DEF EditInv, ListRight, PageRight

\* The page of a rule that is opened: made of blocks, and sent.
LEMMA EndIs ==
  ASSUME EditInv, NEW l \in loads, Editor!ShowEnds(l)
  PROVE  /\ loads' = {} /\ at' = "rule" /\ ~reading' /\ IsLoad(l) /\ l.waits = {} /\ Opening
         /\ UNCHANGED <<saved, things, cards, reading, known, wish, shows>>
         /\ wanted' = IF l.id = 0 THEN Editor!With(wanted, 0, Editor!New) ELSE wanted
         /\ Editor!Send(page')
         /\ blocks' \in Seq(BlockType) /\ BlocksRight(blocks')
         /\ \E d \in Editor!Description :
              /\ page' = [n |-> l.n, id |-> l.id, d |-> d]
              /\ d.on = l.d.on /\ d.named = l.d.named /\ d.op = l.d.op
              /\ d.parts = PartsIn(blocks') /\ d.parts \subseteq l.d.parts
              /\ \A p \in l.d.parts : Editor!There(p, things) => p \in d.parts
              /\ d.type = Editor!Shown(l.d, "Set")
<1> DEFINE cs == [i \in DOMAIN blocks |-> [blocks[i] EXCEPT !.dom = FALSE]]
           ds == Editor!BlocksOf(l.d, known)
           bs == Editor!Left(cs) \o ds
           t == Editor!Shown(l.d, wish)
           d == Editor!FromBlocks(l.d, bs, t)
<1>1. at = "rule" /\ ~reading /\ Opening /\ loads = {l} /\ IsLoad(l)
      BY LoadIs
<1>2. /\ l.waits = {} /\ loads' = {} /\ blocks' = bs /\ page' = [n |-> l.n, id |-> l.id, d |-> d]
      /\ Editor!Send(page') /\ UNCHANGED <<saved, things, at, cards, reading, known, wish, shows>>
      /\ wanted' = IF l.id = 0 THEN Editor!With(wanted, 0, Editor!New) ELSE wanted
      BY <1>1 DEF Editor!ShowEnds
<1>3. /\ blocks \in Seq(BlockType) /\ known \subseteq Device \cup Outlet
      /\ l.d \in Editor!Description
      /\ wish = "Set" /\ things \subseteq known
      BY <1>1, <1>2 DEF EditInv, EditTyped, IsLoad, Opening
<1>4. cs \in Seq(BlockType) /\ \A i \in DOMAIN cs : cs[i].role = "removed"
      <2>1. ASSUME NEW i \in DOMAIN blocks
            PROVE  /\ [blocks[i] EXCEPT !.dom = FALSE] \in BlockType
                   /\ [blocks[i] EXCEPT !.dom = FALSE].role = "removed"
            <3> DEFINE b == blocks[i]
            <3>1. b \in BlockType /\ b.role = "removed"
                  BY <1>1, <1>3 DEF Opening
            <3> HIDE DEF b
            <3>2. [b EXCEPT !.dom = FALSE] \in BlockType /\ [b EXCEPT !.dom = FALSE].role = b.role
                  BY <3>1 DEF BlockType
            <3> QED BY <3>1, <3>2 DEF b
      <2> DEFINE g(i) == [blocks[i] EXCEPT !.dom = FALSE]
      <2>2. DOMAIN blocks = 1 .. Len(blocks) /\ Len(blocks) \in Nat
            BY <1>3
      <2>3. \A i \in DOMAIN blocks : g(i) \in BlockType /\ g(i).role = "removed"
            BY <2>1
      <2>4. cs = [i \in DOMAIN blocks |-> g(i)]
            OBVIOUS
      <2> HIDE DEF g, cs
      <2> QED BY <2>2, <2>3, <2>4
<1> HIDE DEF cs
<1>5. /\ ds \in Seq(BlockType) /\ BlocksRight(ds)
      /\ PartsIn(ds) = {p \in l.d.parts : Editor!There(p, known)}
      BY <1>3, BlocksOfIs
<1> HIDE DEF ds
<1>6. bs = ds
      BY <1>4, <1>5, NoneLeft
<1> HIDE DEF bs
<1>7. t \in Editor!Type /\ t = Editor!Shown(l.d, "Set")
      <2>1. wish \in Editor!Type
            BY <1>3 DEF Editor!Type
      <2> QED BY <1>3, <2>1, ShownIs
<1> HIDE DEF t
<1>8. /\ d \in Editor!Description
      /\ d = [on |-> l.d.on, named |-> l.d.named, op |-> l.d.op,
              type |-> t, parts |-> PartsIn(bs)]
      BY <1>3, <1>5, <1>6, <1>7, MadeOf
<1> HIDE DEF d
<1>9. \A p : Editor!There(p, things) => Editor!There(p, known)
      BY <1>3 DEF Editor!There
<1>10. d.parts \subseteq l.d.parts /\ \A p \in l.d.parts : Editor!There(p, things)
         => p \in d.parts
      BY <1>5, <1>6, <1>8, <1>9
<1>11. /\ d.on = l.d.on /\ d.named = l.d.named /\ d.op = l.d.op
       /\ d.parts = PartsIn(blocks') /\ d.type = Editor!Shown(l.d, "Set")
      BY <1>2, <1>7, <1>8
<1>12. blocks' \in Seq(BlockType) /\ BlocksRight(blocks')
      BY <1>2, <1>5, <1>6
<1>13. /\ loads' = {} /\ at' = "rule" /\ ~reading'
       /\ UNCHANGED <<saved, things, cards, reading, known, wish, shows>>
      BY <1>1, <1>2
<1>14. PICK e : e = d
      OBVIOUS
<1> QED BY <1>1, <1>2, <1>8, <1>10, <1>11, <1>12, <1>13, <1>14

\* A page that shows what was opened agrees with what the user has made of it.
LEMMA EndAgrees ==
  ASSUME NEW d \in Editor!Description, NEW e \in Editor!Description, NEW m, NEW seen,
         Agree(e, m, seen),
         d.on = e.on, d.named = e.named, d.op = Editor!Wrapped(e).op, d.parts \subseteq e.parts,
         \A p \in e.parts : Editor!There(p, seen)
             => p \in d.parts, d.type = Editor!Shown(Editor!Wrapped(e), "Set")
  PROVE  Agree(d, m, seen)
<1> DEFINE w == Editor!Wrapped(e)
<1>1. w \in Editor!Description /\ w.op # "none" /\ w.type = e.type /\ w.parts = e.parts
      BY WrappedIs
<1>2. Editor!Wrapped(d).op = d.op
      BY <1>1, WrappedIs
<1>3. Editor!Typed(d) => Editor!Typed(e) /\ Editor!Typed(w)
      BY <1>1 DEF Editor!Typed
<1>4. Editor!Typed(w) => d.type = w.type
      BY <1>1, ShownIs DEF Editor!Type
<1>5. Editor!Typed(d) => d.type = m.type
      BY <1>1, <1>3, <1>4 DEF Agree
<1> HIDE DEF w
<1>6. \A p \in d.parts \cup m.parts : Editor!There(p, seen) => (p \in d.parts <=> p \in m.parts)
      BY DEF Agree
<1> QED BY <1>2, <1>5, <1>6 DEF Agree

\* A new rule is opened: it is to be stored.
LEMMA NewKeeps ==
  ASSUME EditInv, NEW l \in loads, Editor!ShowEnds(l), l.id = 0
  PROVE  EditInv'
<1>1. /\ loads' = {} /\ at' = "rule" /\ ~reading' /\ IsLoad(l) /\ l.waits = {} /\ Opening
      /\ UNCHANGED <<saved, things, cards, reading, known, wish, shows>>
      /\ wanted' = Editor!With(wanted, 0, Editor!New) /\ Editor!Send(page')
      /\ blocks' \in Seq(BlockType) /\ BlocksRight(blocks')
      BY EndIs
<1>2. PICK d \in Editor!Description :
         /\ page' = [n |-> l.n, id |-> l.id, d |-> d]
         /\ d.on = l.d.on /\ d.named = l.d.named /\ d.op = l.d.op
         /\ d.parts = PartsIn(blocks') /\ d.parts \subseteq l.d.parts
         /\ \A p \in l.d.parts : Editor!There(p, things) => p \in d.parts
         /\ d.type = Editor!Shown(l.d, "Set")
      BY EndIs
<1>3. l.d = Editor!New /\ l.n \in Nat \ {0} /\ line = <<>> /\ 0 \notin DOMAIN wanted
      BY <1>1 DEF IsLoad, Opening
<1>4. Editor!New.on = TRUE /\ Editor!New.named = FALSE /\ Editor!New.op = "AND"
        /\ Editor!New.parts = {} /\ Editor!New \in Editor!Description
      BY NewIs DEF Editor!New
<1>5. Agree(d, Editor!New, things)
      <2>1. d.parts = {} /\ ~Editor!Typed(d)
            BY <1>2, <1>3, <1>4 DEF Editor!Typed
      <2>2. d.on = Editor!New.on /\ d.named = Editor!New.named /\ d.op = Editor!New.op
            BY <1>2, <1>3
      <2>3. Editor!Wrapped(d).op = Editor!Wrapped(Editor!New).op
            BY <1>4, <2>2, WrappedIs
      <2> QED BY <1>4, <2>1, <2>2, <2>3 DEF Agree
<1> DEFINE q == [do |-> "post", n |-> l.n, id |-> 0, d |-> d]
<1>6. page'.n = l.n /\ page'.id = 0 /\ page'.d = d
      BY <1>2
<1>7. line' = <<q>> /\ q \in Change /\ q.do = "post" /\ q.id = 0
      BY <1>1, <1>3, <1>6 DEF Editor!Send, Change
<1> HIDE DEF q
<1>8. /\ DOMAIN wanted' = DOMAIN wanted \cup {0} /\ wanted'[0] = Editor!New
      /\ \A i \in DOMAIN wanted : wanted'[i] = wanted[i]
      /\ wanted' \in [DOMAIN wanted' -> Editor!Description]
      BY <1>1, <1>3, <1>4 DEF Editor!With, EditInv, EditTyped
<1>9. line' \in Seq(Change) /\ DOMAIN line' = {1} /\ line'[1] = q
      BY <1>7
<1>10. EditTyped'
      <2>1. page' \in [n : Nat, id : Nat, d : Editor!Description]
            BY <1>2, <1>3
      <2>2. DOMAIN wanted' \subseteq Nat
            BY <1>8 DEF EditInv, EditTyped
      <2> QED BY <1>1, <1>8, <1>9, <2>1, <2>2 DEF EditInv, EditTyped
<1>11. RulesFollow'
      <2>1. DOMAIN line = {}
            BY <1>3
      <2>2. \A i : ~Awaits(line, 0, i)
            BY <2>1 DEF Awaits
      <2> QED BY <1>1, <1>7, <1>8, <1>9, <2>1, <2>2 DEF EditInv, RulesFollow
<1>12. Posting'
      BY <1>1, <1>2, <1>3, <1>4, <1>5, <1>6, <1>7, <1>8 DEF Posting, RuleRight, q
<1> QED BY <1>1, <1>10, <1>11, <1>12 DEF EditInv, ListRight, PageRight

\* A rule is opened: it is sent again, as it is made.
LEMMA AgainKeeps ==
  ASSUME EditInv, NEW l \in loads, Editor!ShowEnds(l), l.id # 0
  PROVE  EditInv'
<1>1. /\ loads' = {} /\ at' = "rule" /\ ~reading' /\ IsLoad(l) /\ l.waits = {} /\ Opening
      /\ UNCHANGED <<saved, things, cards, reading, known, wish, shows>>
      /\ wanted' = wanted /\ Editor!Send(page')
      /\ blocks' \in Seq(BlockType) /\ BlocksRight(blocks')
      BY EndIs
<1>2. PICK d \in Editor!Description :
         /\ page' = [n |-> l.n, id |-> l.id, d |-> d]
         /\ d.on = l.d.on /\ d.named = l.d.named /\ d.op = l.d.op
         /\ d.parts = PartsIn(blocks') /\ d.parts \subseteq l.d.parts
         /\ \A p \in l.d.parts : Editor!There(p, things) => p \in d.parts
         /\ d.type = Editor!Shown(l.d, "Set")
      BY EndIs
<1>3. /\ l.id \in DOMAIN saved \cap DOMAIN wanted /\ l.d = Editor!Wrapped(saved[l.id])
      /\ l.n \in Nat \ {0} /\ l.id \in Nat \ {0} /\ line = <<>> /\ 0 \notin DOMAIN wanted
      BY <1>1 DEF IsLoad, Opening
<1> DEFINE e == saved[l.id]
<1>4. e \in Editor!Description /\ Agree(e, wanted[l.id], things)
      <2>1. ~Awaits(line, 0, l.id)
            BY <1>3 DEF Awaits
      <2> QED BY <1>3, <2>1 DEF EditInv, EditTyped, RulesFollow
<1>5. l.d = Editor!Wrapped(e)
      BY <1>3
<1> HIDE DEF e
<1>6. Agree(d, wanted[l.id], things) /\ d.op # "none"
      <2>1. /\ Editor!Wrapped(e).on = e.on /\ Editor!Wrapped(e).named = e.named
            /\ Editor!Wrapped(e).parts = e.parts
            /\ Editor!Wrapped(e).op # "none"
            BY <1>4, WrappedIs
      <2>2. /\ d.on = e.on /\ d.named = e.named /\ d.op = Editor!Wrapped(e).op
            /\ d.parts \subseteq e.parts
            /\ \A p \in e.parts : Editor!There(p, things) => p \in d.parts
            /\ d.type = Editor!Shown(Editor!Wrapped(e), "Set")
            BY <1>2, <1>5, <2>1
      <2> QED BY <1>4, <2>1, <2>2, EndAgrees
<1> DEFINE q == [do |-> "put", n |-> l.n, id |-> l.id, d |-> d]
<1>7. page'.n = l.n /\ page'.id = l.id /\ page'.d = d
      BY <1>2
<1>8. line' = Append(line, q) /\ q \in Change /\ q.do = "put" /\ q.id = l.id /\ q.d = d
      BY <1>1, <1>3, <1>7 DEF Editor!Send, Change
<1> HIDE DEF q
<1>9. line' \in Seq(Change) /\ DOMAIN line' = {1} /\ line'[1] = q
      BY <1>3, <1>8
<1>10. EditTyped'
      <2>1. page' \in [n : Nat, id : Nat, d : Editor!Description]
            BY <1>2, <1>3
      <2> QED BY <1>1, <1>9, <2>1 DEF EditInv, EditTyped
<1>11. RulesFollow'
      BY <1>1, <1>3, <1>6, <1>8, PutSent DEF EditInv
<1>12. Editing'
      BY <1>1, <1>2, <1>3, <1>6, <1>7, <1>8, <1>9 DEF Editing, RuleRight
<1> QED BY <1>1, <1>10, <1>11, <1>12 DEF EditInv, ListRight, PageRight

\* Every step of the pages.
LEMMA PageKeeps ==
  ASSUME EditInv, ~Hasty,
         Editor!ShowList \/ Editor!ReadRules \/ Editor!Open \/ Editor!OpenNew \/ Editor!Load
  PROVE  EditInv'
<1>1. CASE Editor!ShowList \/ Editor!ReadRules \/ Editor!Open \/ Editor!OpenNew
      BY <1>1, ShowListKeeps, ReadRulesKeeps, OpenKeeps
<1>2. CASE Editor!Load
      BY <1>2, ReadThingsKeeps, ReadRuleKeeps, NewKeeps, AgainKeeps DEF Editor!Load
<1> QED BY <1>1, <1>2

\* The rule on the page is deleted.
LEMMA DeleteShownKeeps ==
  ASSUME EditInv, Editor!DeleteShown
  PROVE  EditInv'
<1> DEFINE q == [do |-> "delete", n |-> 0, id |-> page.id, d |-> Editor!New]
<1>1. /\ at = "rule" /\ page.id # 0 /\ page.id \in DOMAIN wanted
      /\ line' = Append(line, q) /\ wanted' = Editor!Without(wanted, page.id)
      /\ UNCHANGED <<saved, things, at, reading, loads, known, page, blocks, wish, shows, cards>>
      BY DEF Editor!DeleteShown, Editor!Counts, Editor!SendFor, Editor!Editor
<1>2. Editing /\ ~reading
      BY <1>1 DEF EditInv, PageRight, Opening, Blank, Posting, Editor!NoRule
<1>3. EditTyped /\ page.id \in Nat
      BY DEF EditInv, EditTyped
<1>4. q \in Change /\ q.do = "delete" /\ q.id = page.id
      BY <1>3, NewIs DEF Change
<1> HIDE DEF q
<1>5. RulesFollow'
      BY <1>1, <1>3, <1>4, DeleteSent DEF EditInv
<1>6. /\ line' \in Seq(Change) /\ Len(line) \in Nat
      /\ DOMAIN line' = 1 .. Len(line) + 1 /\ DOMAIN line = 1 .. Len(line)
      /\ \A k \in DOMAIN line : line'[k] = line[k]
      /\ line'[Len(line) + 1] = q
      BY <1>1, <1>3, <1>4, LineGrows DEF EditTyped
<1>7. /\ DOMAIN wanted' = DOMAIN wanted \ {page.id}
      /\ wanted' \in [DOMAIN wanted' -> Editor!Description]
      BY <1>1, <1>3 DEF Editor!Without, EditTyped
<1>8. EditTyped'
      BY <1>1, <1>3, <1>6, <1>7 DEF EditTyped
<1>9. Editing'
      <2>1. \A k \in DOMAIN line' : line'[k].do # "post" /\ line'[k].id = page.id
            BY <1>2, <1>4, <1>6 DEF Editing
      <2>2. RuleRight'
            BY <1>1, <1>2 DEF Editing, RuleRight
      <2> QED BY <1>1, <1>2, <1>7, <2>1, <2>2 DEF Editing
<1> QED BY <1>1, <1>2, <1>5, <1>8, <1>9 DEF EditInv, ListRight, PageRight

\* A rule is deleted from its card.
LEMMA DeleteCardKeeps ==
  ASSUME EditInv, ~Hasty, NEW c \in cards, Editor!DeleteCard(c)
  PROVE  EditInv'
<1> DEFINE q == [do |-> "delete", n |-> 0, id |-> c.id, d |-> Editor!New]
<1>1. /\ at = "list" /\ ~reading /\ line' = Append(line, q)
      /\ wanted' = Editor!Without(wanted, c.id)
      /\ cards' = cards \ {c}
      /\ UNCHANGED <<saved, things, at, reading, loads, known, page, blocks, wish, shows>>
      BY DEF Editor!DeleteCard, Editor!Counts, Editor!SendFor, Editor!Editor
<1>2. /\ loads = {} /\ 0 \notin DOMAIN wanted
      /\ \A k \in DOMAIN line : line[k].do # "post"
      /\ \A e \in cards : /\ e.id \in DOMAIN wanted /\ Agree(e.d, wanted[e.id], things)
                          /\ \A f \in cards : f.id = e.id => f = e
      BY <1>1 DEF EditInv, ListRight
<1>3. EditTyped /\ c.id \in Nat
      BY DEF EditInv, EditTyped
<1>4. q \in Change /\ q.do = "delete" /\ q.id = c.id /\ c.id \in DOMAIN wanted \ {0}
      BY <1>2, <1>3, NewIs DEF Change
<1> HIDE DEF q
<1>5. RulesFollow'
      BY <1>1, <1>3, <1>4, DeleteSent DEF EditInv
<1>6. /\ line' \in Seq(Change) /\ Len(line) \in Nat
      /\ DOMAIN line' = 1 .. Len(line) + 1 /\ DOMAIN line = 1 .. Len(line)
      /\ \A k \in DOMAIN line : line'[k] = line[k]
      /\ line'[Len(line) + 1] = q
      BY <1>1, <1>3, <1>4, LineGrows DEF EditTyped
<1>7. /\ DOMAIN wanted' = DOMAIN wanted \ {c.id}
      /\ wanted' \in [DOMAIN wanted' -> Editor!Description]
      /\ \A i \in DOMAIN wanted' : wanted'[i] = wanted[i]
      BY <1>1, <1>3 DEF Editor!Without, EditTyped
<1>8. EditTyped'
      BY <1>1, <1>3, <1>6, <1>7 DEF EditTyped
<1>9. \A k \in DOMAIN line' : line'[k].do # "post"
      BY <1>2, <1>4, <1>6
<1>10. \A e \in cards' : /\ e.id \in DOMAIN wanted' /\ Agree(e.d, wanted'[e.id], things)
                         /\ \A f \in cards' : f.id = e.id => f = e
      BY <1>1, <1>2, <1>7
<1>11. ListRight'
      BY <1>1, <1>2, <1>7, <1>9, <1>10 DEF ListRight
<1> QED BY <1>1, <1>5, <1>8, <1>11 DEF EditInv, PageRight

\* What agrees is enabled alike.
LEMMA AgreeOn ==
  ASSUME NEW d \in Editor!Description, NEW m \in Editor!Description, NEW seen,
         NEW enabled \in BOOLEAN, Agree(d, m, seen)
  PROVE  /\ [d EXCEPT !.on = enabled] \in Editor!Description
         /\ [m EXCEPT !.on = enabled] \in Editor!Description
         /\ Agree([d EXCEPT !.on = enabled], [m EXCEPT !.on = enabled], seen)
<1> DEFINE e == [d EXCEPT !.on = enabled]
           f == [m EXCEPT !.on = enabled]
<1>1. /\ e \in Editor!Description /\ e.on = enabled /\ e.named = d.named /\ e.op = d.op
      /\ e.type = d.type
      /\ e.parts = d.parts
      BY DEF Editor!Description
<1>2. /\ f \in Editor!Description /\ f.on = enabled /\ f.named = m.named /\ f.op = m.op
      /\ f.type = m.type
      /\ f.parts = m.parts
      BY DEF Editor!Description
<1> HIDE DEF e, f
<1>3. Editor!Wrapped(e).op = Editor!Wrapped(d).op /\ Editor!Wrapped(f).op = Editor!Wrapped(m).op
      BY <1>1, <1>2 DEF Editor!Wrapped, Editor!Description
<1>4. Editor!Typed(e) => Editor!Typed(d)
      BY <1>1 DEF Editor!Typed
<1>5. Agree(e, f, seen)
      BY <1>1, <1>2, <1>3, <1>4 DEF Agree
<1> QED BY <1>1, <1>2, <1>5 DEF e, f

\* A rule is enabled or disabled on its card.
LEMMA ToggleKeeps ==
  ASSUME EditInv, ~Hasty, NEW c \in cards, Editor!Toggle(c)
  PROVE  EditInv'
<1> DEFINE enabled == ~c.checked
           d == [c.d EXCEPT !.on = enabled]
           m == [wanted[c.id] EXCEPT !.on = enabled]
           q == [do |-> "put", n |-> 0, id |-> c.id, d |-> d]
           k == [c EXCEPT !.d = d, !.checked = enabled]
<1>1. /\ at = "list" /\ ~reading /\ line' = Append(line, q)
      /\ c.id \in DOMAIN wanted => wanted' = [wanted EXCEPT ![c.id].on = enabled]
      /\ cards' = (cards \ {c}) \cup {k}
      /\ UNCHANGED <<saved, things, at, reading, loads, known, page, blocks, wish, shows>>
      BY DEF Editor!Toggle, Editor!Counts, Editor!SendFor, Editor!Editor
<1>2. /\ loads = {} /\ 0 \notin DOMAIN wanted
      /\ \A j \in DOMAIN line : line[j].do # "post"
      /\ \A e \in cards : /\ e.id \in DOMAIN wanted /\ Agree(e.d, wanted[e.id], things)
                          /\ \A f \in cards : f.id = e.id => f = e
      BY <1>1 DEF EditInv, ListRight
<1>3. /\ EditTyped /\ c \in [id : Nat, d : Editor!Description, checked : BOOLEAN]
      /\ c.id \in DOMAIN wanted \ {0} /\ wanted[c.id] \in Editor!Description
      BY <1>2 DEF EditInv, EditTyped
<1>4. enabled \in BOOLEAN
      OBVIOUS
<1> HIDE DEF enabled
<1>5. d \in Editor!Description /\ m \in Editor!Description /\ Agree(d, m, things)
      BY <1>2, <1>3, <1>4, AgreeOn
<1>6. /\ DOMAIN wanted' = DOMAIN wanted /\ wanted' \in [DOMAIN wanted -> Editor!Description]
      /\ \A i \in DOMAIN wanted : i # c.id => wanted'[i] = wanted[i]
      /\ wanted'[c.id] = m
      BY <1>1, <1>3, <1>5 DEF EditTyped
<1> HIDE DEF d, m
<1>7. k \in [id : Nat, d : Editor!Description, checked : BOOLEAN] /\ k.id = c.id /\ k.d = d
      BY <1>3, <1>4, <1>5
<1> HIDE DEF k
<1>8. q \in Change /\ q.do = "put" /\ q.id = c.id /\ q.d = d
      BY <1>3, <1>5 DEF Change
<1> HIDE DEF q
<1>9. RulesFollow'
      BY <1>1, <1>3, <1>5, <1>6, <1>8, PutSent DEF EditInv
<1>10. /\ line' \in Seq(Change) /\ Len(line) \in Nat
       /\ DOMAIN line' = 1 .. Len(line) + 1 /\ DOMAIN line = 1 .. Len(line)
       /\ \A j \in DOMAIN line : line'[j] = line[j]
       /\ line'[Len(line) + 1] = q
      BY <1>1, <1>3, <1>8, LineGrows DEF EditTyped
<1>11. EditTyped'
      BY <1>1, <1>3, <1>6, <1>7, <1>10 DEF EditTyped
<1>12. \A j \in DOMAIN line' : line'[j].do # "post"
      BY <1>2, <1>8, <1>10
<1>13. \A e \in cards' : /\ e.id \in DOMAIN wanted' /\ Agree(e.d, wanted'[e.id], things)
                         /\ \A f \in cards' : f.id = e.id => f = e
      BY <1>1, <1>2, <1>5, <1>6, <1>7
<1>14. ListRight'
      BY <1>1, <1>2, <1>6, <1>12, <1>13 DEF ListRight
<1> QED BY <1>1, <1>9, <1>11, <1>14 DEF EditInv, PageRight

\* The engine has an id for a rule.
LEMMA FreshIs ==
  ASSUME EditTyped, MaxRuleId \notin DOMAIN saved
  PROVE  Editor!Fresh \in 1 .. MaxRuleId /\ Editor!Fresh \notin DOMAIN saved
<1>1. MaxRuleId \in 1 .. MaxRuleId /\ \A j \in DOMAIN saved : j < MaxRuleId
      BY EditorBounds DEF Editor!EditorAssumption, EditTyped
<1>2. \E i \in 1 .. MaxRuleId : i \notin DOMAIN saved /\ \A j \in DOMAIN saved : j < i
      BY <1>1
<1> QED BY <1>2, Zenon DEF Editor!Fresh

\* The rule is stored: the page gets its id.
LEMMA PostKeeps ==
  ASSUME EditInv, Editor!Serve, Head(line).do = "post"
  PROVE  EditInv'
<1> DEFINE q == Head(line)
           u == Editor!Fresh
<1>1. /\ line # <<>> /\ line' = Tail(line) /\ MaxRuleId \notin DOMAIN saved
      /\ saved' = Editor!With(saved, u, q.d)
      /\ page' = IF page.n = q.n THEN [page EXCEPT !.id = u] ELSE page
      /\ wanted' = IF 0 \in DOMAIN wanted
          THEN Editor!Without(Editor!With(wanted, u, wanted[0]), 0) ELSE wanted
      /\ UNCHANGED <<things, at, cards, reading, loads, known, blocks, wish, shows>>
      BY DEF Editor!Serve
<1>2. EditTyped
      BY DEF EditInv
<1>3. 1 \in DOMAIN line /\ q = line[1]
      BY <1>1, <1>2, LineServed DEF EditTyped
<1>4. at = "rule"
      BY <1>3 DEF EditInv, ListRight
<1>5. Posting /\ ~reading
      BY <1>1, <1>3, <1>4 DEF EditInv, PageRight, Opening, Blank, Editing
<1>6. /\ line = <<[do |-> "post", n |-> page.n, id |-> 0, d |-> page.d]>>
      /\ page.n # 0 /\ page.id = 0 /\ 0 \in DOMAIN wanted /\ loads = {}
      /\ Agree(page.d, wanted[0], things) /\ RuleRight
      BY <1>5 DEF Posting
<1>7. line' = <<>> /\ q.n = page.n /\ q.d = page.d /\ DOMAIN line = {1} /\ DOMAIN line' = {}
      BY <1>1, <1>3, <1>6
<1>8. page \in [n : Nat, id : Nat, d : Editor!Description]
      BY <1>2 DEF EditTyped
<1>9. u \in 1 .. MaxRuleId /\ u \notin DOMAIN saved /\ u \in Nat \ {0}
      BY <1>1, <1>2, FreshIs, EditorBounds DEF Editor!EditorAssumption
<1> HIDE DEF q, u
<1>10. page' = [n |-> page.n, id |-> u, d |-> page.d]
      BY <1>1, <1>7, <1>8
<1>11. /\ DOMAIN saved' = DOMAIN saved \cup {u} /\ saved'[u] = page.d
       /\ \A i \in DOMAIN saved : saved'[i] = saved[i]
       /\ saved' \in [DOMAIN saved' -> Editor!Description]
      BY <1>1, <1>2, <1>7, <1>8, <1>9 DEF Editor!With, EditTyped
<1>12. u \notin DOMAIN wanted
      BY <1>9 DEF EditInv, RulesFollow
<1>13. /\ DOMAIN wanted' = (DOMAIN wanted \cup {u}) \ {0} /\ wanted'[u] = wanted[0]
       /\ \A i \in DOMAIN wanted \ {0} : wanted'[i] = wanted[i]
       /\ wanted' \in [DOMAIN wanted' -> Editor!Description]
      <2>1. wanted' = Editor!Without(Editor!With(wanted, u, wanted[0]), 0)
            BY <1>1, <1>6
      <2>2. /\ DOMAIN wanted' = (DOMAIN wanted \cup {u}) \ {0}
            /\ wanted' = [j \in DOMAIN wanted' |-> IF j = u THEN wanted[0] ELSE wanted[j]]
            BY <2>1 DEF Editor!With, Editor!Without
      <2> QED BY <1>2, <1>6, <1>9, <1>12, <2>2 DEF EditTyped
<1>14. EditTyped'
      <2>1. page' \in [n : Nat, id : Nat, d : Editor!Description]
            BY <1>8, <1>9, <1>10
      <2>2. DOMAIN saved' \subseteq 1 .. MaxRuleId /\ DOMAIN wanted' \subseteq Nat
            BY <1>2, <1>9, <1>11, <1>13 DEF EditTyped
      <2>3. line' \in Seq(Change)
            BY <1>7
      <2> QED BY <1>1, <1>2, <1>11, <1>13, <2>1, <2>2, <2>3 DEF EditTyped
<1>15. RulesFollow'
      <2>1. \A i : ~Awaits(line, 0, i)
            <3> SUFFICES ASSUME NEW i, NEW k \in DOMAIN line, line[k].do = "put" PROVE FALSE
                BY DEF Awaits
            <3> QED BY <1>6, <1>7
      <2>2. \A k \in DOMAIN line : line[k].do # "delete"
            BY <1>6, <1>7
      <2>3. \A i \in DOMAIN saved' : i \in DOMAIN wanted'
            BY <1>2, <1>9, <1>11, <1>13, <2>2 DEF EditInv, EditTyped, RulesFollow
      <2>4. \A i \in DOMAIN wanted' \ {0} :
              i \in DOMAIN saved' /\ Agree(saved'[i], wanted'[i], things)
            <3>1. Agree(saved'[u], wanted'[u], things) /\ u \in DOMAIN saved'
                  BY <1>6, <1>11, <1>13
            <3>2. \A i \in DOMAIN wanted \ {0} :
                    i \in DOMAIN saved /\ Agree(saved[i], wanted[i], things)
                  BY <2>1 DEF EditInv, RulesFollow
            <3> QED BY <1>11, <1>13, <3>1, <3>2
      <2> QED BY <1>1, <1>7, <2>3, <2>4 DEF RulesFollow
<1>16. Editing'
      <2>1. page'.n = page.n /\ page'.id = u /\ page'.d = page.d
            BY <1>10
      <2>2. RuleRight'
            BY <1>1, <1>6, <2>1 DEF RuleRight
      <2> QED BY <1>1, <1>6, <1>7, <1>9, <1>13, <2>1, <2>2 DEF Editing
<1> QED BY <1>1, <1>4, <1>5, <1>14, <1>15, <1>16 DEF EditInv, ListRight, PageRight

\* A change is carried out, or refused.
LEMMA PutKeeps ==
  ASSUME EditInv, Editor!Serve, Head(line).do = "put"
  PROVE  EditInv'
<1> DEFINE q == Head(line)
<1>1. /\ line # <<>> /\ line' = Tail(line)
      /\ saved' = IF q.id \in DOMAIN saved THEN [saved EXCEPT ![q.id] = q.d] ELSE saved
      /\ UNCHANGED <<things, at, cards, reading, loads, known, page, blocks, wish, wanted, shows>>
      BY DEF Editor!Serve
<1>2. EditTyped
      BY DEF EditInv
<1>3. RulesFollow' /\ DOMAIN saved' = DOMAIN saved
        /\ saved' \in [DOMAIN saved -> Editor!Description]
      BY <1>1, <1>2, PutServed DEF EditInv
<1>4. /\ line' \in Seq(Change) /\ 1 \in DOMAIN line /\ q = line[1]
      /\ \A k \in DOMAIN line' : k + 1 \in DOMAIN line /\ line'[k] = line[k + 1]
      <2>1. /\ line' \in Seq(Change) /\ Len(line) \in Nat \ {0} /\ 1 \in DOMAIN line
            /\ q = line[1]
            /\ DOMAIN line = 1 .. Len(line) /\ DOMAIN line' = 1 .. Len(line) - 1
            /\ \A k \in DOMAIN line' : line'[k] = line[k + 1]
            BY <1>1, <1>2, LineServed DEF EditTyped
      <2> QED BY <2>1
<1>5. q.do = "put"
      OBVIOUS
<1> HIDE DEF q
<1>6. EditTyped'
      BY <1>1, <1>2, <1>3, <1>4 DEF EditTyped
<1>7. ListRight'
      BY <1>1, <1>3, <1>4 DEF EditInv, ListRight
<1>8. ASSUME at = "rule" PROVE ~reading /\ Editing'
      <2>1. ~Posting
            <3> SUFFICES ASSUME Posting PROVE FALSE
                OBVIOUS
            <3>1. line[1].do = "post"
                  BY DEF Posting
            <3> QED BY <1>4, <1>5, <3>1
      <2>2. ~reading /\ Editing
            BY <1>1, <1>8, <2>1 DEF EditInv, PageRight, Opening, Blank
      <2>3. \A k \in DOMAIN line' : line'[k].do # "post" /\ line'[k].id = page.id
            BY <1>4, <2>2 DEF Editing
      <2>4. RuleRight'
            BY <1>1, <2>2 DEF Editing, RuleRight
      <2> QED BY <1>1, <2>2, <2>3, <2>4 DEF Editing
<1> QED BY <1>1, <1>3, <1>6, <1>7, <1>8 DEF EditInv, PageRight

\* A rule is gone: the list is shown, and read if it was not.
LEMMA DeleteKeeps ==
  ASSUME EditInv, Editor!Serve, Head(line).do = "delete"
  PROVE  EditInv'
<1> DEFINE q == Head(line)
<1>1. /\ line # <<>> /\ line' = Tail(line) /\ saved' = Editor!Without(saved, q.id)
      /\ at' = "list" /\ reading' = (reading \/ at = "rule")
      /\ UNCHANGED <<things, cards, loads, known, page, blocks, wish, wanted, shows>>
      BY DEF Editor!Serve
<1>2. EditTyped
      BY DEF EditInv
<1>3. /\ RulesFollow' /\ DOMAIN saved' = DOMAIN saved \ {q.id}
      /\ saved' \in [DOMAIN saved' -> Editor!Description]
      /\ \A k \in DOMAIN line' : line'[k].do = "delete" => line'[k].id # q.id
      BY <1>1, <1>2, DeleteServed DEF EditInv
<1>4. /\ line' \in Seq(Change) /\ 1 \in DOMAIN line /\ q = line[1]
      /\ \A k \in DOMAIN line' : k + 1 \in DOMAIN line /\ line'[k] = line[k + 1]
      <2>1. /\ line' \in Seq(Change) /\ Len(line) \in Nat \ {0} /\ 1 \in DOMAIN line
            /\ q = line[1]
            /\ DOMAIN line = 1 .. Len(line) /\ DOMAIN line' = 1 .. Len(line) - 1
            /\ \A k \in DOMAIN line' : line'[k] = line[k + 1]
            BY <1>1, <1>2, LineServed DEF EditTyped
      <2> QED BY <2>1
<1>5. q.do = "delete"
      OBVIOUS
<1> HIDE DEF q
<1>6. reading' \in BOOLEAN
      BY <1>1, Zenon
<1>7. EditTyped'
      <2>1. DOMAIN saved' \subseteq 1 .. MaxRuleId
            BY <1>2, <1>3 DEF EditTyped
      <2> QED BY <1>1, <1>2, <1>3, <1>4, <1>6, <2>1 DEF EditTyped
<1>8. CASE at = "list"
      <2>1. ~reading
            BY <1>4, <1>5, <1>8 DEF EditInv, ListRight
      <2>2. ~reading'
            BY <1>1, <1>8, <2>1
      <2>3. ListRight'
            BY <1>1, <1>4, <1>8, <2>1, <2>2 DEF EditInv, ListRight
      <2> QED BY <1>1, <1>3, <1>7, <2>3 DEF EditInv, PageRight
<1>9. CASE at = "rule"
      <2>1. ~Posting
            <3> SUFFICES ASSUME Posting PROVE FALSE
                OBVIOUS
            <3>1. line[1].do = "post"
                  BY DEF Posting
            <3> QED BY <1>4, <1>5, <3>1
      <2>2. Editing
            BY <1>1, <1>9, <2>1 DEF EditInv, PageRight, Opening, Blank
      <2>3. \A k \in DOMAIN line : line[k].do # "post" /\ line[k].id = page.id
            BY <2>2 DEF Editing
      <2>4. q.id = page.id /\ \A k \in DOMAIN line' :
              line'[k].do # "post" /\ line'[k].id = page.id
            BY <1>4, <2>3
      <2>5. \A k \in DOMAIN line' : line'[k].do = "put" /\ line'[k].id \notin DOMAIN saved'
            <3>1. \A k \in DOMAIN line' : line'[k].do \in {"post", "put", "delete"}
                  <4> SUFFICES ASSUME NEW k \in DOMAIN line'
                               PROVE  line'[k].do \in {"post", "put", "delete"}
                      OBVIOUS
                  <4>1. line'[k] \in Change
                        BY <1>4
                  <4> QED BY <4>1 DEF Change
            <3> QED BY <1>3, <2>4, <3>1
      <2>6. reading'
            BY <1>1, <1>9
      <2>7. ListRight'
            BY <1>1, <2>2, <2>4, <2>5, <2>6 DEF ListRight, Editing
      <2> QED BY <1>1, <1>3, <1>7, <2>7 DEF EditInv, PageRight
<1> QED BY <1>8, <1>9 DEF EditInv

\* The gateway answers.
LEMMA ServeKeeps ==
  ASSUME EditInv, Editor!Serve
  PROVE  EditInv'
<1>1. Head(line).do = "post" \/ Head(line).do = "put" \/ Head(line).do = "delete"
      BY DEF Editor!Serve
<1> QED BY <1>1, PostKeeps, PutKeeps, DeleteKeeps

\* A thing goes for good.
LEMMA LoseKeeps ==
  ASSUME EditInv, NEW t \in things, Editor!Lose(t)
  PROVE  EditInv'
<1>1. /\ things' = things \ {t}
      /\ UNCHANGED <<saved, at, cards, reading, loads, known, page, blocks, wish, line, wanted,
          shows>>
      BY DEF Editor!Lose, Editor!Page, Editor!Editor
<1>2. \A d, m : Agree(d, m, things) => Agree(d, m, things')
      <2>1. things' \subseteq things
            BY <1>1
      <2> QED BY <2>1, AgreeFewer
<1>3. EditTyped'
      BY <1>1 DEF EditInv, EditTyped
<1>4. RulesFollow'
      BY <1>1, <1>2 DEF EditInv, RulesFollow
<1>5. ListRight'
      BY <1>1, <1>2 DEF EditInv, ListRight
<1>6. RuleRight => RuleRight'
      BY <1>1 DEF RuleRight
<1>7. \A l : IsLoad(l) => IsLoad(l)'
      BY <1>1 DEF IsLoad
<1>8. Opening => Opening'
      BY <1>1, <1>7 DEF Opening
<1>9. Blank => Blank'
      BY <1>1 DEF Blank
<1>10. Posting => Posting'
      BY <1>1, <1>2, <1>6 DEF Posting
<1>11. Editing => Editing'
      BY <1>1, <1>2, <1>6 DEF Editing
<1>12. PageRight'
      BY <1>1, <1>8, <1>9, <1>10, <1>11 DEF EditInv, PageRight
<1> QED BY <1>1, <1>3, <1>4, <1>5, <1>12 DEF EditInv

\* Nothing moves.
LEMMA EditStays ==
  ASSUME EditInv, UNCHANGED editorVars
  PROVE  EditInv'
<1>1. UNCHANGED <<saved, things, at, cards, reading, loads, known, page, blocks, wish, line,
        wanted,
                  shows>>
      BY DEF editorVars
<1>2. EditTyped'
      BY <1>1 DEF EditInv, EditTyped
<1>3. RulesFollow'
      BY <1>1, FollowSame DEF EditInv
<1>4. ListRight'
      BY <1>1 DEF EditInv, ListRight
<1>5. RuleRight => RuleRight'
      BY <1>1 DEF RuleRight
<1>6. \A l : IsLoad(l) => IsLoad(l)'
      BY <1>1 DEF IsLoad
<1>7. Opening => Opening'
      BY <1>1, <1>6 DEF Opening
<1>8. Blank => Blank'
      BY <1>1 DEF Blank
<1>9. Posting => Posting'
      BY <1>1, <1>5 DEF Posting
<1>10. Editing => Editing'
      BY <1>1, <1>5 DEF Editing
<1>11. PageRight'
      BY <1>1, <1>7, <1>8, <1>9, <1>10 DEF EditInv, PageRight
<1> QED BY <1>1, <1>2, <1>3, <1>4, <1>11 DEF EditInv

\* The first state of the editor.
LEMMA EditInit == Editor!Init => EditInv
<1> SUFFICES ASSUME Editor!Init PROVE EditInv
    OBVIOUS
<1>1. /\ saved = EditorStored /\ wanted = EditorStored /\ things = Device \cup Outlet
      /\ at = "list" /\ cards = {} /\ reading = TRUE /\ loads = {} /\ known = {}
      /\ page = Editor!NoRule /\ blocks = <<>> /\ wish = "Set" /\ line = <<>> /\ shows = 0
      BY DEF Editor!Init
<1>2. /\ DOMAIN EditorStored \subseteq 1 .. MaxRuleId
      /\ EditorStored \in [DOMAIN EditorStored -> Editor!Description]
      /\ MaxRuleId \in Nat
      BY EditorBounds DEF Editor!EditorAssumption
<1>3. page \in [n : Nat, id : Nat, d : Editor!Description]
      BY <1>1, NewIs DEF Editor!NoRule
<1>4. EditTyped
      <2>1. wish \in Editor!Type
            BY <1>1 DEF Editor!Type
      <2>2. DOMAIN EditorStored \subseteq Nat
            BY <1>2
      <2> QED BY <1>1, <1>2, <1>3, <2>1, <2>2 DEF EditTyped
<1>5. RulesFollow
      <2>1. \A i \in DOMAIN EditorStored : Agree(EditorStored[i], EditorStored[i], things)
            BY AgreeSelf
      <2>2. DOMAIN line = {}
            BY <1>1
      <2> QED BY <1>1, <2>1, <2>2 DEF RulesFollow
<1>6. ListRight
      <2>1. 0 \notin DOMAIN wanted /\ DOMAIN line = {}
            BY <1>1, <1>2
      <2> QED BY <1>1, <2>1 DEF ListRight
<1> QED BY <1>1, <1>4, <1>5, <1>6 DEF EditInv, PageRight

\* Every step keeps the invariant.
LEMMA EditSteps ==
  ASSUME EditInv, ~Hasty, [Editor!Next]_editorVars, ~lost'
  PROVE  EditInv'
<1>1. CASE Editor!ShowList \/ Editor!ReadRules \/ Editor!Open \/ Editor!OpenNew \/ Editor!Load
      BY <1>1, PageKeeps
<1>2. CASE Editor!Edit
      BY <1>2, EditKeeps
<1>3. CASE Editor!DeleteShown \/ \E c \in cards : Editor!DeleteCard(c) \/ Editor!Toggle(c)
      BY <1>3, DeleteShownKeeps, DeleteCardKeeps, ToggleKeeps
<1>4. CASE Editor!Serve \/ \E t \in things : Editor!Lose(t)
      BY <1>4, ServeKeeps, LoseKeeps
<1>5. ~Editor!Fail
      BY DEF Editor!Fail
<1>6. CASE UNCHANGED editorVars
      BY <1>6, EditStays
<1> QED BY <1>1, <1>2, <1>3, <1>4, <1>5, <1>6 DEF Editor!Next

\* A request that has failed is not forgotten.
LEMMA LostStays == ASSUME lost, [Editor!Next]_editorVars PROVE lost'
<1>1. CASE Editor!ShowList \/ Editor!ReadRules \/ Editor!Open \/ Editor!OpenNew \/ Editor!Load
      BY <1>1 DEF Editor!ShowList, Editor!ReadRules, Editor!Open, Editor!OpenNew, Editor!Show,
                  Editor!Load, Editor!ReadThings, Editor!ReadRule, Editor!ShowEnds
<1>2. CASE Editor!Edit
      BY <1>2 DEF Editor!Edit, Editor!Drop, Editor!Move, Editor!Discard, Editor!Choose,
                  Editor!Enter, Editor!Fills, Editor!ChooseOp, Editor!ChooseType, Editor!Rename,
                  Editor!Edits
<1>3. CASE Editor!DeleteShown \/ \E c \in cards : Editor!DeleteCard(c) \/ Editor!Toggle(c)
      BY <1>3 DEF Editor!DeleteShown, Editor!DeleteCard, Editor!Toggle, Editor!Counts
<1>4. CASE Editor!Serve \/ Editor!Fail \/ \E t \in things : Editor!Lose(t)
      BY <1>4 DEF Editor!Serve, Editor!Fail, Editor!Lose
<1>5. CASE UNCHANGED editorVars
      BY <1>5 DEF editorVars
<1> QED BY <1>1, <1>2, <1>3, <1>4, <1>5 DEF Editor!Next

\* A step is a step of this part, or leaves it alone.
LEMMA EditorMoves == [React \/ Manage \/ Log \/ Make]_ruleVars => [Editor!Next]_editorVars
BY DEF React, Manage, Log, Make, ruleVars, editorVars

\* Each rule is what its user, who waits for the answers before going on, has made of it: once
\* all that was sent is served, and unless a request has failed, what is stored has the blocks,
\* the name and the switch the user gave it (RuleScreen.onRuleChange, RuleCard, RulesScreen).
THEOREM RulesAreSaved == RulesSpec => [](~Hasty => SavedAsMade)
<1> DEFINE Inv == ~Hasty => lost \/ EditInv
<1>1. RulesInit => Inv
      BY EditInit DEF RulesInit
<1>2. Inv /\ [React \/ Manage \/ Log \/ Make]_ruleVars => Inv'
      BY EditorMoves, EditSteps, LostStays
<1>3. Inv => (~Hasty => SavedAsMade)
      BY SavedRight DEF SavedAsMade
<1> HIDE DEF Inv
<1> QED BY <1>1, <1>2, <1>3, PTL DEF RulesSpec
===============================================================================
