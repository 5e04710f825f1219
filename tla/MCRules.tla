------------------------------- MODULE MCRules -------------------------------
(***************************************************************************)
(* What follows the values of properties: a rule and its effect, the       *)
(* engine's list of rules, the page that edits them, the logs.  They share *)
(* no state and are checked in one run: the initial state picks one, and   *)
(* only that one moves.                                                    *)
(***************************************************************************)
EXTENDS MCRuleReaction, TLC

CONSTANTS
  Loader, Add, Update, Delete, PropertyRule, EventRule, Orphan, Stored, MaxId, MaxObject, None,
  Metric, Permanent, NoMetric, MaxMetricId, MaxRequests, MaxSamples, MaxReloads, Hasty,
  Device, Sensor, Outlet, MaxEdits, MaxShows, MaxBlocks, MaxRuleId

VARIABLES
  part,
  table, loaded, rules, objects, content, listening, starting, stopped, subscribed, stopping,
  load, rows, current, op, target, given, made,
  metricIds, values, idToDescr, descrToId, inserting, request, taken,
  reload, schema, loading, messageSocket,
  saved, things, at, cards, reading, loads, known, page, blocks, wish, line, wanted, edits, shows,
  lost

Engine == INSTANCE RuleEngine
Logs   == INSTANCE MetricLogs WITH MaxId <- MaxMetricId
\* A rule with one trigger and one effect, as another program has stored it.
EditorStored == <<[on |-> TRUE, named |-> FALSE, op |-> "none", type |-> "Pulse",
                   parts |-> {[as |-> "trigger", of |-> "meter", value |-> 1],
                              [as |-> "effect", of |-> "plug", value |-> 1]}]>>
Editor == INSTANCE RuleEditor
  WITH Stored <- EditorStored, MaxId <- MaxRuleId, rules <- saved, rule <- page, made <- wanted

ASSUME PartsAssumption ==
  /\ Engine!BoundsAssumption /\ Engine!StoredAssumption /\ Engine!NoneAssumption
  /\ Engine!KindsAssumption
  /\ Logs!BoundsAssumption /\ Logs!NoMetricAssumption
  /\ Editor!EditorAssumption

reactionVars == vars
engineVars == <<table, loaded, rules, objects, content, listening, starting, stopped,
                subscribed, stopping, load, rows, current, op, target, given, made>>
logVars == <<metricIds, values, idToDescr, descrToId, inserting, request, taken,
             reload, schema, loading, messageSocket>>
editorVars == <<saved, things, at, cards, reading, loads, known, page, blocks, wish, line, wanted,
                edits, shows, lost>>
ruleVars == <<part, reactionVars, engineVars, logVars, editorVars>>

Is(p) == part = p

\* The one state of the rule that does not move.
Still == /\ rule = CHOOSE r \in Rules : TRUE
         /\ present /\ value = Goal /\ \A t \in DOMAIN meets : ~meets[t]

RulesInit ==
  /\ part \in {"reaction", "engine", "logs", "editor"}
  /\ Init        /\ (Is("reaction") \/ Still)
  /\ Engine!Init /\ (Is("engine") \/ \A i \in DOMAIN table : table[i] = None)
  /\ Logs!Init
  /\ Editor!Init

React  == Is("reaction") /\ Next /\ UNCHANGED <<part, engineVars, logVars, editorVars>>
Manage == Is("engine") /\ Engine!Next /\ UNCHANGED <<part, reactionVars, logVars, editorVars>>
Log    == Is("logs") /\ Logs!Next /\ UNCHANGED <<part, reactionVars, engineVars, editorVars>>
Make   == Is("editor") /\ Editor!Next /\ UNCHANGED <<part, reactionVars, engineVars, logVars>>

RulesSpec ==
  /\ RulesInit /\ [][React \/ Manage \/ Log \/ Make]_ruleVars
  /\ WF_vars(Is("reaction") /\ Start) /\ WF_vars(Is("reaction") /\ Appear)
  /\ WF_vars(Is("reaction") /\ Carried)
  /\ WF_logVars(Is("logs") /\ Logs!ServerStep) /\ WF_logVars(Is("logs") /\ Logs!ScreenStep)

-----------------------------------------------------------------------------
(* The properties of the other modules, stated and explained there.        *)

\* The engine runs what it lists and what is stored (Engine.updateRule, deleteRule).
RunsWhatIsStored == Engine!RunsWhatIsStored
\* What runs is listed, and what was stopped listens no more (Engine.updateRule, EventTrigger.stop).
NoneLeftRunning == Engine!NoneLeftRunning
\* The values stored under a metric's id are its own (Logs.unregisterMetric).
ValuesBelong == Logs!ValuesBelong
\* Every log shown is loaded in the end (LogsScreen.streamAll).
LoadingEnds == Logs!LoadingEnds
\* Each rule is what its user has made of it (RuleScreen.onRuleChange).
SavedAsMade == Editor!SavedAsMade
=============================================================================
