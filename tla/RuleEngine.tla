----------------------------- MODULE RuleEngine -----------------------------
(***************************************************************************)
(* The rules engine's list of rules and the table it is kept in: how the   *)
(* rules are loaded when the server starts, and how requests add, update   *)
(* and delete them.                                                        *)
(*                                                                         *)
(* An await of the database, or of the thing a trigger watches, ends a     *)
(* step.  A statement takes effect in the step that resolves its promise;  *)
(* statements of several requests are run in any order, as the database is *)
(* not serialized.                                                         *)
(***************************************************************************)
EXTENDS Naturals, FiniteSets

CONSTANTS
  Loader,        \* calls of Engine.getRules: that of start-up, and GET requests
  Add, Update, Delete,  \* requests
  PropertyRule,  \* rules whose trigger watches a property
  EventRule,     \* rules whose trigger watches an event
  Orphan,        \* rules whose trigger watches an event of a thing that is gone
  Stored,        \* what the table may hold when the server starts
  MaxId,         \* bound: ids of rules
  MaxObject,     \* bound: Rule objects created
  None           \* no rule

Id == 1 .. MaxId
Object == 1 .. MaxObject
Request == Add \union Update \union Delete
Content == PropertyRule \union EventRule \union Orphan

\* What the constants must be.
BoundsAssumption == MaxId \in Nat /\ MaxObject \in Nat
StoredAssumption == Stored \subseteq Content
NoneAssumption == None \notin Content
KindsAssumption == PropertyRule \cap EventRule = {} /\ Update \cap Delete = {}

VARIABLES
  table,      \* the table rules: per id the rule, or None
  loaded,     \* Engine.rules is not null
  rules,      \* Engine.rules: per id the Rule object, or 0
  objects,    \* the number of Rule objects created
  content,    \* the rule each object was made from
  listening,  \* objects that listen to their trigger
  starting,   \* objects whose start awaits the thing
  stopped,    \* EventTrigger.stopped of each object
  subscribed, \* objects whose trigger is subscribed to the events of its thing
  stopping,   \* objects whose stop awaits the thing
  load,       \* per loader: the await it is in
  rows,       \* per loader: the rows it has yet to load
  current,    \* per loader: the object whose start it awaits
  op,         \* per request: the await it is in, or its answer
  target,     \* per request: the id it is about
  given,      \* per request: the rule in its body
  made        \* per request: the object whose start it awaits

tableVars == <<table, loaded, rules, objects, content>>
ruleVars == <<listening, starting, stopped, subscribed, stopping>>
loadVars == <<load, rows, current>>
requestVars == <<op, target, given, made>>
vars == <<tableVars, ruleVars, loadVars, requestVars>>

\* What Engine and the table of rules hold, and its range.
TypeOK ==
  /\ table \in [Id -> Content \union {None}]
  /\ loaded \in BOOLEAN
  /\ rules \in [Id -> 0 .. MaxObject]
  /\ objects \in 0 .. MaxObject
  /\ content \in [Object -> Content \union {None}]
  /\ listening \subseteq Object /\ starting \subseteq Object /\ stopped \subseteq Object
  /\ subscribed \subseteq Object /\ stopping \subseteq Object
  /\ load \in [Loader -> {"new", "reading", "loading", "listed", "failed"}]
  /\ rows \in [Loader -> [Id -> Content \union {None}]]
  /\ current \in [Loader -> 0 .. MaxObject]
  /\ op \in [Request -> {"new", "inserting", "updating", "deleting", "starting", "ok",
                         "not_found", "hung"}]
  /\ target \in [Request -> 0 .. MaxId]
  /\ given \in [Request -> Content \union {None}]
  /\ made \in [Request -> 0 .. MaxObject]

Init ==
  /\ table \in [Id -> Stored \union {None}]
  /\ loaded = FALSE
  /\ rules = [i \in Id |-> 0]
  /\ objects = 0
  /\ content = [o \in Object |-> None]
  /\ listening = {} /\ starting = {} /\ stopped = Object
  /\ subscribed = {} /\ stopping = {}
  /\ load = [l \in Loader |-> "new"]
  /\ rows = [l \in Loader |-> [i \in Id |-> None]]
  /\ current = [l \in Loader |-> 0]
  /\ op = [r \in Request |-> "new"]
  /\ target = [r \in Request |-> 0]
  /\ given = [r \in Request |-> None]
  /\ made = [r \in Request |-> 0]

-----------------------------------------------------------------------------
(* Rules.                                                                  *)

Listed == {rules[i] : i \in Id} \ {0}
New == objects + 1

\* Rule.fromDescription
Make(c) ==
  /\ New \in Object
  /\ objects' = New
  /\ content' = [content EXCEPT ![New] = c]

\* Rule.start of the new object, and Rule.stop of those in old, up to their awaits.
\* A trigger on a property has nothing to wait for.
StartAndStop(c, old) ==
  /\ listening' = (listening \ old) \union {New}
  /\ starting' = starting \union {New}
  /\ stopped' = (stopped \ {New}) \union old
  /\ stopping' = stopping \union {o \in old : content[o] \notin PropertyRule}

\* Faulty: an EventTrigger that was stopped while it started subscribes all the same.
FaultySubscribes(o) == content[o] \in EventRule

\* EventTrigger.start has its thing.
Subscribes(o) == content[o] \in EventRule /\ o \notin stopped

\* The start of object o ends: with an error when the thing is gone.
Started(o) ==
  /\ o \in starting
  /\ starting' = starting \ {o}
  /\ subscribed' = IF Subscribes(o) THEN subscribed \union {o} ELSE subscribed
  /\ current' = [l \in Loader |-> IF current[l] = o THEN 0 ELSE current[l]]
  /\ load' = [l \in Loader |-> IF current[l] = o /\ content[o] \in Orphan
                               THEN "failed" ELSE load[l]]
  /\ op' = [r \in Request |->
              IF ~(op[r] = "starting" /\ made[r] = o) THEN op[r]
              ELSE IF content[o] \notin Orphan THEN "ok"
              ELSE IF r \in Add THEN "hung" ELSE "not_found"]
  /\ UNCHANGED <<tableVars, listening, stopped, stopping, rows, target, given, made>>

\* EventTrigger.stop has its thing, or there is none.
Stopped(o) ==
  /\ o \in stopping
  /\ stopping' = stopping \ {o}
  /\ subscribed' = subscribed \ {o}
  /\ UNCHANGED <<tableVars, listening, starting, stopped, loadVars, requestVars>>

-----------------------------------------------------------------------------
(* Engine.getRules.                                                        *)

LoadBegin(l) ==
  /\ load[l] = "new"
  /\ load' = [load EXCEPT ![l] = IF loaded THEN "listed" ELSE "reading"]
  /\ UNCHANGED <<tableVars, ruleVars, rows, current, requestVars>>

\* The rows are read; the list is empty until they are loaded.
LoadRead(l) ==
  /\ load[l] = "reading"
  /\ load' = [load EXCEPT ![l] = "loading"]
  /\ rows' = [rows EXCEPT ![l] = table]
  /\ loaded' = TRUE
  /\ rules' = [i \in Id |-> 0]
  /\ UNCHANGED <<table, objects, content, ruleVars, current, requestVars>>

\* The next row, in the order of the ids.
LoadNext(l, i) ==
  /\ load[l] = "loading"
  /\ current[l] = 0
  /\ rows[l][i] # None
  /\ \A j \in Id : j < i => rows[l][j] = None
  /\ Make(rows[l][i])
  /\ rows' = [rows EXCEPT ![l][i] = None]
  /\ rules' = [rules EXCEPT ![i] = New]
  /\ StartAndStop(rows[l][i], {})
  /\ current' = [current EXCEPT ![l] = New]
  /\ UNCHANGED <<table, loaded, subscribed, load, requestVars>>

LoadEnd(l) ==
  /\ load[l] = "loading"
  /\ current[l] = 0
  /\ \A i \in Id : rows[l][i] = None
  /\ load' = [load EXCEPT ![l] = "listed"]
  /\ UNCHANGED <<tableVars, ruleVars, rows, current, requestVars>>

-----------------------------------------------------------------------------
(* Requests.                                                               *)

BeginAdd(r, c) ==
  /\ r \in Add
  /\ op[r] = "new"
  /\ op' = [op EXCEPT ![r] = "inserting"]
  /\ given' = [given EXCEPT ![r] = c]
  /\ UNCHANGED <<tableVars, ruleVars, loadVars, target, made>>

\* An id that is not in the list, or a list that is not there, is not found.
BeginChange(r, i, c) ==
  /\ (r \in Update /\ c # None) \/ (r \in Delete /\ c = None)
  /\ op[r] = "new"
  /\ op' = [op EXCEPT ![r] = IF ~loaded \/ rules[i] = 0 THEN "not_found"
                             ELSE IF r \in Update THEN "updating" ELSE "deleting"]
  /\ target' = [target EXCEPT ![r] = i]
  /\ given' = [given EXCEPT ![r] = c]
  /\ UNCHANGED <<tableVars, ruleVars, loadVars, made>>

\* The id SQLite gives to a new row: one more than the highest in use.
FreshId == CHOOSE i \in 1 .. MaxId + 1 :
             /\ \A j \in Id : table[j] # None => j < i
             /\ i = 1 \/ table[i - 1] # None

\* addRule: a request that is served before the list is there fails in an async
\* handler, and is never answered.
Inserted(r) ==
  /\ op[r] = "inserting"
  /\ FreshId \in Id
  /\ table' = [table EXCEPT ![FreshId] = given[r]]
  /\ target' = [target EXCEPT ![r] = FreshId]
  /\ IF loaded
     THEN /\ Make(given[r])
          /\ rules' = [rules EXCEPT ![FreshId] = New]
          /\ StartAndStop(given[r], {})
          /\ op' = [op EXCEPT ![r] = "starting"]
          /\ made' = [made EXCEPT ![r] = New]
     ELSE /\ op' = [op EXCEPT ![r] = "hung"]
          /\ UNCHANGED <<rules, objects, content, listening, starting, stopped, stopping, made>>
  /\ UNCHANGED <<loaded, subscribed, loadVars, given>>

\* Faulty: a rule that is no longer listed is listed again.
FaultyUpdatedAnyway(r) ==
  LET i == target[r] IN
  /\ op[r] = "updating"
  /\ table' = [table EXCEPT ![i] = IF @ = None THEN None ELSE given[r]]
  /\ Make(given[r])
  /\ rules' = [rules EXCEPT ![i] = New]
  /\ StartAndStop(given[r], {rules[i]} \ {0})
  /\ op' = [op EXCEPT ![r] = "starting"]
  /\ made' = [made EXCEPT ![r] = New]
  /\ UNCHANGED <<loaded, subscribed, loadVars, target, given>>

\* updateRule: a rule that is no longer listed is an error.
Updated(r) ==
  LET i == target[r] IN
  /\ op[r] = "updating"
  /\ table' = [table EXCEPT ![i] = IF @ = None THEN None ELSE given[r]]
  /\ IF rules[i] # 0
     THEN /\ Make(given[r])
          /\ rules' = [rules EXCEPT ![i] = New]
          /\ StartAndStop(given[r], {rules[i]})
          /\ op' = [op EXCEPT ![r] = "starting"]
          /\ made' = [made EXCEPT ![r] = New]
     ELSE /\ op' = [op EXCEPT ![r] = "not_found"]
          /\ UNCHANGED <<rules, objects, content, listening, starting, stopped, stopping, made>>
  /\ UNCHANGED <<loaded, subscribed, loadVars, target, given>>

\* deleteRule
Deleted(r) ==
  LET i == target[r] IN
  /\ op[r] = "deleting"
  /\ table' = [table EXCEPT ![i] = None]
  /\ IF rules[i] # 0
     THEN /\ listening' = listening \ {rules[i]}
          /\ stopped' = stopped \union {rules[i]}
          /\ stopping' = stopping \union ({rules[i]} \ {o \in Object : content[o] \in PropertyRule})
          /\ rules' = [rules EXCEPT ![i] = 0]
          /\ op' = [op EXCEPT ![r] = "ok"]
     ELSE /\ op' = [op EXCEPT ![r] = "not_found"]
          /\ UNCHANGED <<rules, listening, stopped, stopping>>
  /\ UNCHANGED <<loaded, objects, content, starting, subscribed, loadVars, target, given, made>>

-----------------------------------------------------------------------------
LoadStep(l) == LoadBegin(l) \/ LoadRead(l) \/ LoadEnd(l) \/ \E i \in Id : LoadNext(l, i)

Begin(r) ==
  \/ \E c \in Content : BeginAdd(r, c)
  \/ \E i \in Id, c \in Content \union {None} : BeginChange(r, i, c)

DatabaseStep(r) == Inserted(r) \/ Updated(r) \/ Deleted(r)

ThingStep(o) == Started(o) \/ Stopped(o)

Next ==
  \/ \E l \in Loader : LoadStep(l)
  \/ \E r \in Request : Begin(r) \/ DatabaseStep(r)
  \/ \E o \in Object : ThingStep(o)

Spec == Init /\ [][Next]_vars

FairSpec ==
  /\ Spec
  /\ \A l \in Loader : WF_vars(LoadStep(l))
  /\ \A r \in Request : WF_vars(DatabaseStep(r))
  /\ \A o \in Object : WF_vars(ThingStep(o))

-----------------------------------------------------------------------------
(* Properties.                                                             *)

\* A rule that is running is one the engine lists, and can stop.
NoGhost == listening \subseteq Listed

Idle ==
  /\ \A l \in Loader : load[l] \in {"listed", "failed"}
  /\ \A r \in Request : op[r] \in {"new", "ok", "not_found", "hung"}

\* When nothing is in flight the engine runs exactly what the table holds, so that a
\* restart changes nothing, whatever the order of the statements was.
RunsWhatIsStored ==
  Idle => /\ \A i \in Id : IF rules[i] = 0 THEN table[i] = None
                           ELSE content[rules[i]] = table[i]
          /\ listening = Listed

\* A trigger that was stopped, even while it was starting, is in the end not
\* subscribed to the events of its thing.
NoLeak ==
  \A o \in Object : o \in stopped /\ o \notin starting \union stopping => o \notin subscribed

\* What runs can be stopped, and what was stopped does not listen.
NoneLeftRunning == NoGhost /\ NoLeak
=============================================================================
