----------------------------- MODULE MetricLogs -----------------------------
(***************************************************************************)
(* The log of the values of properties: metrics are registered and         *)
(* removed by requests, values come in from the devices, and the screen of *)
(* a browser shows what there is.                                          *)
(*                                                                         *)
(* A metric's id is the key of a row, which SQLite gives out again after   *)
(* the row with the highest one is gone, and values carry nothing but the  *)
(* id.  There are three tables of values, one per type; a property has     *)
(* one type, so that one table is enough here.                             *)
(***************************************************************************)
EXTENDS Naturals, Sequences, FiniteSets

CONSTANTS
  Metric,      \* properties that may be logged
  Permanent,   \* metrics whose values do not grow too old: maxAge is 0
  NoMetric,    \* no metric
  MaxId,       \* bound: ids of metrics
  MaxRequests, \* bound: requests that register or remove a metric
  MaxSamples,  \* bound: values that come in
  MaxReloads,  \* bound: how often the screen is loaded
  Hasty        \* whether values and requests may come in while a metric is being removed

Id == 1 .. MaxId
Request == 1 .. MaxRequests
Reload == 1 .. MaxReloads

\* What the constants must be.
BoundsAssumption == MaxId \in Nat /\ MaxRequests \in Nat /\ MaxSamples \in Nat
NoMetricAssumption == NoMetric \notin Metric

VARIABLES
  metricIds,   \* the table metricIds: per id the metric, or NoMetric
  values,      \* the tables of values: [id, date]
  idToDescr,   \* Logs.idToDescr
  descrToId,   \* Logs.descrToId, or 0
  inserting,   \* values whose INSERT is under way
  request,     \* per request [stage, metric, id, left]: left holds its open statements
  taken,       \* history: per date the metric whose value it is
  reload,      \* per reload of the screen: where it is
  schema,      \* per reload: the ids it was answered
  loading,     \* ids of the logs shown, and whether each is still loading
  messageSocket  \* LogsScreen.messageSocket is there

serverVars == <<metricIds, values, idToDescr, descrToId, inserting, request, taken>>
screenVars == <<reload, schema, loading, messageSocket>>
vars == <<serverVars, screenVars>>

\* What the tables and the maps hold, and its range.
TypeOK ==
  /\ metricIds \in [Id -> Metric \union {NoMetric}]
  /\ values \subseteq [id : Id, date : 1 .. MaxSamples]
  /\ idToDescr \in [Id -> Metric \union {NoMetric}]
  /\ descrToId \in [Metric -> 0 .. MaxId]
  /\ inserting \subseteq [id : Id, date : 1 .. MaxSamples]
  /\ request \in [Request -> [stage : {"new", "inserting", "deleting", "answered"},
                              metric : Metric \union {NoMetric}, id : 0 .. MaxId,
                              left : SUBSET {"metricIds", "values"}]]
  /\ taken \in Seq(Metric)
  /\ reload \in [Reload -> {"unasked", "asked", "answered", "loading", "done"}]
  /\ schema \in [Reload -> SUBSET Id]
  /\ loading \in UNION {[ids -> BOOLEAN] : ids \in SUBSET Id}
  /\ messageSocket \in BOOLEAN

Stage(s) == [stage |-> s, metric |-> NoMetric, id |-> 0, left |-> {}]

\* The server is up: loadKnownMetrics has read a table without values.
Init ==
  /\ metricIds = [i \in Id |-> NoMetric]
  /\ values = {}
  /\ idToDescr = metricIds
  /\ descrToId = [m \in Metric |-> 0]
  /\ inserting = {}
  /\ request = [r \in Request |-> Stage("new")]
  /\ taken = <<>>
  /\ reload = [k \in Reload |-> "unasked"]
  /\ schema = [k \in Reload |-> {}]
  /\ loading = [i \in {} |-> FALSE]
  /\ messageSocket = FALSE

-----------------------------------------------------------------------------
(* Metrics.                                                                *)

\* Requests are alike, and are numbered as they come.
Comes(r) == request[r].stage = "new" /\ \A q \in Request : q < r => request[q].stage # "new"

Pending(stages) == \E q \in Request : request[q].stage \in stages

\* A POST is refused when the metric is known.
BeginRegister(r, m) ==
  /\ Comes(r)
  /\ Hasty \/ ~Pending({"deleting"})
  /\ request' = [request EXCEPT ![r] = IF descrToId[m] # 0 THEN Stage("answered")
                                      ELSE [Stage("inserting") EXCEPT !.metric = m]]
  /\ UNCHANGED <<metricIds, values, idToDescr, descrToId, inserting, taken, screenVars>>

\* INTEGER PRIMARY KEY: one more than the highest id in the table.
FreshId ==
  CHOOSE i \in 1 .. MaxId + 1 :
    /\ \A j \in Id : j >= i => metricIds[j] = NoMetric
    /\ i > 1 => metricIds[i - 1] # NoMetric

EndRegister(r) ==
  LET m == request[r].metric IN
  /\ request[r].stage = "inserting"
  /\ FreshId \in Id
  /\ metricIds' = [metricIds EXCEPT ![FreshId] = m]
  /\ idToDescr' = [idToDescr EXCEPT ![FreshId] = m]
  /\ descrToId' = [descrToId EXCEPT ![m] = FreshId]
  /\ request' = [request EXCEPT ![r] = Stage("answered")]
  /\ UNCHANGED <<values, inserting, taken, screenVars>>

\* A DELETE of a metric that is not known deletes no row, and is answered all the same.
BeginUnregister(r, m) ==
  /\ Comes(r)
  /\ Hasty \/ ~Pending({"inserting", "deleting"})
  /\ Hasty \/ \A v \in inserting : v.id # descrToId[m]
  /\ request' = [request EXCEPT ![r] = [stage |-> "deleting", metric |-> m, id |-> descrToId[m],
                                        left |-> {"metricIds", "values"}]]
  /\ UNCHANGED <<metricIds, values, idToDescr, descrToId, inserting, taken, screenVars>>

\* Faulty: the values of the metric stay.
FaultyDeleteValues(id) == {v \in values : v.id # id \/ v.date = Len(taken)}

\* What is left of the values.
DeleteValues(id) == {v \in values : v.id # id}

\* One of the statements of unregisterMetric; after the last the maps forget the metric.
Deleted(r, where) ==
  LET id == request[r].id
      known == id # 0 IN
  /\ request[r].stage = "deleting" /\ where \in request[r].left
  /\ metricIds' = IF known /\ where = "metricIds" THEN [metricIds EXCEPT ![id] = NoMetric]
                  ELSE metricIds
  /\ values' = IF known /\ where = "values" THEN DeleteValues(id) ELSE values
  /\ request' = [request EXCEPT ![r] = IF request[r].left = {where} THEN Stage("answered")
                                      ELSE [request[r] EXCEPT !.left = @ \ {where}]]
  /\ IF request[r].left = {where}
     THEN /\ descrToId' = [descrToId EXCEPT ![request[r].metric] = 0]
          /\ idToDescr' = IF known THEN [idToDescr EXCEPT ![id] = NoMetric] ELSE idToDescr
     ELSE UNCHANGED <<descrToId, idToDescr>>
  /\ UNCHANGED <<inserting, taken, screenVars>>

\* loadKnownMetrics adds the rows to the maps and takes nothing from them. Of two rows of one
\* metric the last one counts.
KnownMetrics ==
  /\ idToDescr' = [i \in Id |-> IF metricIds[i] # NoMetric THEN metricIds[i] ELSE idToDescr[i]]
  /\ descrToId' = [m \in Metric |->
       IF \E i \in Id : metricIds[i] = m
       THEN CHOOSE i \in Id : metricIds[i] = m /\ \A j \in Id : metricIds[j] = m => j <= i
       ELSE descrToId[m]]

-----------------------------------------------------------------------------
(* Values.                                                                 *)

\* onPropertyChanged, whose getValue resolves at once, and insertMetric.
PropertyChanged(m) ==
  /\ Len(taken) < MaxSamples
  /\ Hasty \/ \A r \in Request : request[r].stage = "deleting" => request[r].id # descrToId[m]
  /\ descrToId[m] # 0
  /\ taken' = Append(taken, m)
  /\ inserting' = inserting \union {[id |-> descrToId[m], date |-> Len(taken) + 1]}
  /\ UNCHANGED <<metricIds, values, idToDescr, descrToId, request, screenVars>>

Inserted(v) ==
  /\ v \in inserting
  /\ inserting' = inserting \ {v}
  /\ values' = values \union {v}
  /\ UNCHANGED <<metricIds, idToDescr, descrToId, request, taken, screenVars>>

\* clearOldMetrics: it loads what is known, and deletes the old values of each id in turn. How
\* many are old is up to the clock.
ClearOld ==
  /\ KnownMetrics
  /\ \E i \in Id, date \in 1 .. MaxSamples :
       /\ idToDescr'[i] \notin Permanent \union {NoMetric}
       /\ values' = {v \in values : v.id = i => v.date >= date}
  /\ UNCHANGED <<metricIds, inserting, request, taken, screenVars>>

-----------------------------------------------------------------------------
(* The screen.                                                             *)

\* LogsScreen.reload: on show, and after a log was created.
AskSchema(k) ==
  /\ reload[k] = "unasked" /\ \A j \in Reload : j < k => reload[j] # "unasked"
  /\ reload' = [reload EXCEPT ![k] = "asked"]
  /\ UNCHANGED <<serverVars, schema, loading, messageSocket>>

\* Logs.getSchema
AnswerSchema(k) ==
  /\ reload[k] = "asked"
  /\ KnownMetrics
  /\ schema' = [schema EXCEPT ![k] = {i \in Id : idToDescr'[i] # NoMetric}]
  /\ reload' = [reload EXCEPT ![k] = "answered"]
  /\ UNCHANGED <<metricIds, values, inserting, request, taken, loading, messageSocket>>

\* The answer comes: the logs shown are replaced, and each begins to load its thing.
ShowLogs(k) ==
  /\ reload[k] = "answered"
  /\ reload' = [reload EXCEPT ![k] = "loading"]
  /\ loading' = [i \in schema[k] |-> TRUE]
  /\ schema' = [schema EXCEPT ![k] = {}]
  /\ UNCHANGED <<serverVars, messageSocket>>

\* streamAll leaves a stream that is open to go on.
Streams(k) == ~messageSocket

\* The things of all logs are there, which can only fail with the server: streamAll.
StreamAll(k) ==
  /\ reload[k] = "loading"
  /\ reload' = [reload EXCEPT ![k] = "done"]
  /\ messageSocket' = (messageSocket \/ Streams(k))
  /\ UNCHANGED <<serverVars, schema, loading>>

\* Faulty: a log is done once there is a value to draw.
FaultyStreamClosed ==
  /\ messageSocket
  /\ messageSocket' = FALSE
  /\ loading' = [i \in DOMAIN loading |-> loading[i] /\ \A v \in values : v.id # i]
  /\ UNCHANGED <<serverVars, reload, schema>>

\* cleanup ends the loading of all that is shown then.
Cleanup == loading' = [i \in DOMAIN loading |-> FALSE]

\* The server has sent all values and closes the stream.
StreamClosed ==
  /\ messageSocket
  /\ messageSocket' = FALSE
  /\ Cleanup
  /\ UNCHANGED <<serverVars, reload, schema>>

-----------------------------------------------------------------------------
ServerStep ==
  \/ \E r \in Request : EndRegister(r) \/ \E where \in {"metricIds", "values"} : Deleted(r, where)
  \/ \E v \in inserting : Inserted(v)

ScreenStep == StreamClosed \/ \E k \in Reload : AnswerSchema(k) \/ ShowLogs(k) \/ StreamAll(k)

Next ==
  \/ ServerStep
  \/ ScreenStep
  \/ ClearOld
  \/ \E r \in Request, m \in Metric : BeginRegister(r, m) \/ BeginUnregister(r, m)
  \/ \E m \in Metric : PropertyChanged(m)
  \/ \E k \in Reload : AskSchema(k)

Spec == Init /\ [][Next]_vars
FairSpec == Spec /\ WF_vars(ServerStep) /\ WF_vars(ScreenStep)

-----------------------------------------------------------------------------
(* Properties.                                                             *)

Removing(i) == \E r \in Request : request[r].stage = "deleting" /\ request[r].id = i

\* The values that are stored under the id of a metric are values of that metric, whatever
\* metrics had the id before: unregisterMetric takes the values along (logs.ts 222-236).
ValuesBelong ==
  \A v \in values \union inserting :
    ~Removing(v.id) /\ metricIds[v.id] # NoMetric => metricIds[v.id] = taken[v.date]

\* Every log shown gets to the end of its loading, though reloads of the screen overlap and
\* one stream serves them all (logs-screen.js 146-149, 182-196).
LoadingEnds == []<>(\A i \in DOMAIN loading : ~loading[i])
=============================================================================
