--------------------------- MODULE MCRuleReaction ---------------------------
EXTENDS RuleReaction

MCRule(triggers, op, effect, patient) ==
  [triggers |-> triggers, op |-> op, effect |-> effect, boolean |-> FALSE, patient |-> patient]

\* The same about a Boolean.
Toggling(r) == [r EXCEPT !.boolean = TRUE]

\* A rule of every shape, with two levels, one of which null meets, or an event.
MCRules ==
  {MCRule(Level, op, "pulse", TRUE) : op \in {"AND", "OR"}}
  \union {MCRule(Level \union Event, op, "set", FALSE) : op \in {"AND", "OR"}}
  \union {MCRule({t}, "ONLY", "set", FALSE) : t \in Level \union Event}
  \union {MCRule({t}, "ONLY", "pulse", TRUE) : t \in Level}
  \union {Toggling(MCRule({t}, "ONLY", "pulse", TRUE)) : t \in Level}
  \union {Toggling(MCRule(Level, "AND", "pulse", TRUE))}

\* A PulseEffect on an event.
MCEventRules == {MCRule(Event, "ONLY", "pulse", TRUE)}
=============================================================================
