------------------------ MODULE AddonLifecycle_proofs ------------------------
(***************************************************************************)
(* Proofs about AddonLifecycle: its types, at any pace of the clients, and *)
(* that with settled clients and an add-on that has adapters what runs is  *)
(* known to the Plugin object that started it and what is offered is       *)
(* loaded; for any number of requests, adapters, processes and crashes.    *)
(*                                                                         *)
(* The inductive invariant LifeInv says that one request at a time is in   *)
(* an await and what holds there (Stands, Unloads), that a process that    *)
(* lives is the registered plugin's and one that leaves is another's,      *)
(* which starts none again (Live), and that a restart is due only for the  *)
(* registered plugin, with no process alive and no request about to start  *)
(* it (Restarts).                                                          *)
(*                                                                         *)
(* An add-on without adapters is left out: its processes are killed before *)
(* they have answered the request to unload, the Plugin object stays       *)
(* registered, and the exit of the one process starts another beside the   *)
(* one a client has started meanwhile.                                     *)
(***************************************************************************)
EXTENDS AddonLifecycle, TLAPS

-----------------------------------------------------------------------------
(* Types.                                                                  *)

\* The types in the initial state.
LEMMA TypesStart == Init => TypeOK
BY BoundsAssumption DEF Init, TypeOK, Request, PluginNumber, ProcessNumber

\* A Plugin object that is registered.
LEMMA RegisteredTypes ==
  ASSUME TypeOK, RegisterPlugin
  PROVE  /\ plugin' \in 1 .. MaxPlugins /\ plugins' \in 0 .. MaxPlugins /\ plugin' = Registered
         /\ plugin # 0 => plugin' = plugin /\ plugins' = plugins
         /\ plugin = 0 => plugin' = plugins + 1 /\ plugins' = plugins + 1
<1>1. MaxPlugins \in Nat
      BY BoundsAssumption
<1>2. plugin \in 0 .. MaxPlugins /\ plugins \in 0 .. MaxPlugins
      BY DEF TypeOK
<1> QED BY <1>1, <1>2 DEF RegisterPlugin, Registered, PluginNumber

\* A request that begins.
LEMMA BeginTypes == ASSUME TypeOK, NEW r \in Request, Begin(r) PROVE TypeOK'
BY DEF TypeOK, Begin, requestVars, serverVars, restartVars, adapterVars, processVars

\* The steps of a request that spawn nothing and tell nobody.
LEMMA RequestTypes ==
  ASSUME TypeOK, NEW r \in Request, EnableSaved(r) \/ LoadRead(r) \/ LoadWrite(r)
  PROVE  TypeOK'
BY ZenonT(60)
   DEF TypeOK, EnableSaved, LoadRead, LoadWrite, settingVars, serverVars, restartVars, adapterVars, processVars

\* A plugin is registered for a request.
LEMMA LoadTypes == ASSUME TypeOK, NEW r \in Request, LoadPlugin(r) PROVE TypeOK'
<1>1. CASE manifest[r]
      <2>1. plugin' \in 0 .. MaxPlugins /\ plugins' \in 0 .. MaxPlugins /\ Registered \in 0 .. MaxPlugins
            <3>1. RegisterPlugin
                  BY <1>1 DEF LoadPlugin
            <3>2. MaxPlugins \in Nat
                  BY BoundsAssumption
            <3> QED BY <3>1, <3>2, RegisteredTypes
      <2>2. target' = [target EXCEPT ![r] = Registered] /\ op' = [op EXCEPT ![r] = "starting"]
            BY <1>1 DEF LoadPlugin
      <2> HIDE DEF Registered
      <2> QED BY <2>1, <2>2 DEF TypeOK, LoadPlugin, settingVars, restartVars, adapterVars, processVars
<1>2. CASE ~manifest[r]
      BY <1>2 DEF TypeOK, LoadPlugin, settingVars, serverVars, restartVars, adapterVars, processVars
<1> QED BY <1>1, <1>2

\* A process is spawned, or is not.
LEMMA SpawnTypes ==
  ASSUME TypeOK, NEW g \in 0 .. MaxPlugins, Spawn(g)
  PROVE  /\ restart' \in [PluginNumber -> BOOLEAN]
         /\ process' \in [PluginNumber -> 0 .. MaxProcesses]
         /\ pstate' \in [ProcessNumber -> {"none", "spawned", "connected", "leaving", "dead", "quit"}]
         /\ owner' \in [ProcessNumber -> 0 .. MaxPlugins]
<1>1. CASE stored
      <2>1. PICK new \in ProcessNumber : /\ process' = [process EXCEPT ![g] = new]
                                         /\ pstate' = [pstate EXCEPT ![new] = "spawned"]
                                         /\ owner' = [owner EXCEPT ![new] = g]
            BY <1>1 DEF Spawn
      <2>2. new \in 0 .. MaxProcesses
            BY BoundsAssumption DEF ProcessNumber
      <2> QED BY <1>1, <2>1, <2>2 DEF Spawn, TypeOK
<1>2. CASE ~stored
      <2>1. 0 \in 0 .. MaxProcesses
            BY BoundsAssumption
      <2> QED BY <1>2, <2>1 DEF Spawn, TypeOK
<1> QED BY <1>1, <1>2

\* A request starts the plugin.
LEMMA StartTypes == ASSUME TypeOK, NEW r \in Request, StartFor(r) PROVE TypeOK'
<1>1. target[r] \in 0 .. MaxPlugins /\ Spawn(target[r])
      BY DEF TypeOK, StartFor
<1>2. /\ restart' \in [PluginNumber -> BOOLEAN]
      /\ process' \in [PluginNumber -> 0 .. MaxProcesses]
      /\ pstate' \in [ProcessNumber -> {"none", "spawned", "connected", "leaving", "dead", "quit"}]
      /\ owner' \in [ProcessNumber -> 0 .. MaxPlugins]
      BY <1>1, SpawnTypes
<1> QED BY <1>2 DEF TypeOK, StartFor, settingVars, serverVars, adapterVars

\* A plugin is started again.
LEMMA AgainTypes == ASSUME TypeOK, NEW g \in PluginNumber, StartAgain(g) PROVE TypeOK'
<1>1. g \in 0 .. MaxPlugins /\ Spawn(g)
      BY BoundsAssumption DEF StartAgain, PluginNumber
<1>2. /\ restart' \in [PluginNumber -> BOOLEAN]
      /\ process' \in [PluginNumber -> 0 .. MaxProcesses]
      /\ pstate' \in [ProcessNumber -> {"none", "spawned", "connected", "leaving", "dead", "quit"}]
      /\ owner' \in [ProcessNumber -> 0 .. MaxPlugins]
      BY <1>1, SpawnTypes
<1> QED BY <1>2 DEF TypeOK, StartAgain, settingVars, requestVars, serverVars, adapterVars

\* A process is sent something.
LEMMA SendTypes ==
  ASSUME TypeOK, NEW g, NEW msgs, Send(g, msgs)
  PROVE  asked' \in [ProcessNumber -> SUBSET (Component \union {"plugin"})]
BY DEF TypeOK, Send

\* A plugin is unloaded.
LEMMA UnloadTypes == ASSUME TypeOK, NEW r \in Request, UnloadSaved(r) PROVE TypeOK'
<1>1. /\ stored' \in BOOLEAN /\ target' = [target EXCEPT ![r] = plugin]
      /\ UNCHANGED <<cached, manifest, serverVars, pendingRestart, restarting, process, ws,
                     moved, pstate, owner, announced, crashes>>
      BY DEF TypeOK, UnloadSaved
<1>2. CASE plugin = 0
      <2>1. op' = [op EXCEPT ![r] = "killing"] /\ UNCHANGED <<waiting, restart, unloading, adapters, managed, asked>>
            BY <1>2 DEF UnloadSaved
      <2> QED BY <1>1, <2>1 DEF TypeOK, serverVars
<1>3. CASE plugin # 0
      <2> DEFINE g == plugin
                 fresh == {c \in Component : adapters[g][c] = "loaded"}
      <2>0. UnloadComponents(r, g) /\ g \in PluginNumber
            BY <1>3, BoundsAssumption DEF UnloadSaved, TypeOK, PluginNumber
      <2>1. /\ managed' = managed \ Components(g)
            /\ adapters' = [adapters EXCEPT ![g] = [c \in Component |-> IF c \in fresh THEN "unloading" ELSE @[c]]]
            /\ waiting' = [waiting EXCEPT ![r] = Components(g)]
            /\ op' = [op EXCEPT ![r] = IF Components(g) = {} THEN "killing" ELSE "unloading"]
            BY <2>0 DEF UnloadComponents
      <2>2. asked' \in [ProcessNumber -> SUBSET (Component \union {"plugin"})]
            <3>1. Send(g, {"plugin"}) \/ Send(g, fresh)
                  BY <2>0 DEF UnloadComponents
            <3> QED BY <3>1, SendTypes
      <2>3. \/ UNCHANGED <<restart, unloading>>
            \/ restart' = [restart EXCEPT ![g] = FALSE] /\ unloading' = [unloading EXCEPT ![g] = TRUE]
            BY <2>0 DEF UnloadComponents
      <2>4. Components(g) \subseteq Component
            BY DEF Components
      <2>5. adapters' \in [PluginNumber -> [Component -> {"absent", "loaded", "unloading"}]]
            BY <2>0, <2>1 DEF TypeOK
      <2> HIDE DEF g, fresh
      <2>6. /\ op' \in [Request -> {"new", "saving", "reading", "writing", "config", "starting",
                         "unloading", "hung", "killing", "done"}]
            /\ waiting' \in [Request -> SUBSET Component]
            BY <2>1, <2>4 DEF TypeOK
      <2>7. restart' \in [PluginNumber -> BOOLEAN] /\ unloading' \in [PluginNumber -> BOOLEAN]
            BY <2>3 DEF TypeOK
      <2>8. target' \in [Request -> 0 .. MaxPlugins] /\ managed' \in SUBSET Component
            BY <1>1, <2>1 DEF TypeOK
      <2> QED BY <1>1, <2>2, <2>5, <2>6, <2>7, <2>8 DEF TypeOK, serverVars
<1> QED BY <1>2, <1>3

\* What is left of a plugin is killed.
LEMMA KillTypes == ASSUME TypeOK, NEW r \in Request, KillTimer(r) PROVE TypeOK'
BY DEF TypeOK, KillTimer, settingVars, serverVars, restartVars, adapterVars

\* A process registers.
LEMMA RegisterTypes == ASSUME TypeOK, NEW p \in ProcessNumber, Register(p) PROVE TypeOK'
<1>1. RegisterPlugin /\ MaxPlugins \in Nat
      BY BoundsAssumption DEF Register
<1>2. plugin' \in 0 .. MaxPlugins /\ plugins' \in 0 .. MaxPlugins
      BY <1>1, RegisteredTypes
<1>3. p \in 0 .. MaxProcesses
      BY BoundsAssumption DEF ProcessNumber
<1>4. ws' \in [PluginNumber -> 0 .. MaxProcesses]
      BY <1>3 DEF TypeOK, Register
<1> QED BY <1>2, <1>4 DEF TypeOK, Register, settingVars, requestVars, restartVars, adapterVars

\* The state of an adapter of a plugin.
LEMMA AdapterPut ==
  ASSUME TypeOK, NEW g \in PluginNumber, NEW c \in Component, NEW s \in {"absent", "loaded", "unloading"},
         adapters' = [adapters EXCEPT ![g][c] = s]
  PROVE  /\ adapters' \in [PluginNumber -> [Component -> {"absent", "loaded", "unloading"}]]
         /\ \A h \in PluginNumber, d \in Component :
              adapters'[h][d] = IF h = g /\ d = c THEN s ELSE adapters[h][d]
<1> DEFINE row == [adapters[g] EXCEPT ![c] = s]
<1>1. adapters \in [PluginNumber -> [Component -> {"absent", "loaded", "unloading"}]]
      BY DEF TypeOK
<1>2. adapters' = [adapters EXCEPT ![g] = row]
      OBVIOUS
<1>3. /\ row \in [Component -> {"absent", "loaded", "unloading"}]
      /\ \A d \in Component : row[d] = IF d = c THEN s ELSE adapters[g][d]
      BY <1>1
<1> HIDE DEF row
<1> QED BY <1>1, <1>2, <1>3

\* A process announces an adapter.
LEMMA AdapterAddedTypes ==
  ASSUME TypeOK, NEW p \in ProcessNumber, NEW c \in Component, AdapterAdded(p, c) PROVE TypeOK'
<1>1. announced' = [announced EXCEPT ![p] = @ \union {c}]
      /\ UNCHANGED <<settingVars, manifest, target, waiting, serverVars, restartVars, process, ws,
                     moved, pstate, owner, asked, crashes>>
      BY DEF AdapterAdded
<1>2. \/ UNCHANGED <<adapters, managed, op>>
      \/ /\ plugin # 0 /\ adapters' = [adapters EXCEPT ![plugin][c] = "loaded"]
         /\ managed' = managed \union {c}
         /\ op' = [r \in Request |->
                      IF op[r] = "unloading" /\ target[r] = plugin /\ c \in waiting[r]
                      THEN "hung" ELSE op[r]]
      BY DEF AdapterAdded
<1>3. adapters' \in [PluginNumber -> [Component -> {"absent", "loaded", "unloading"}]]
      <2>1. plugin # 0 => plugin \in PluginNumber
            BY BoundsAssumption DEF TypeOK, PluginNumber
      <2>2. CASE UNCHANGED adapters
            BY <2>2 DEF TypeOK
      <2>3. CASE plugin # 0 /\ adapters' = [adapters EXCEPT ![plugin][c] = "loaded"]
            BY <2>1, <2>3, AdapterPut
      <2> QED BY <1>2, <2>2, <2>3
<1>4. op' \in [Request -> {"new", "saving", "reading", "writing", "config", "starting",
                         "unloading", "hung", "killing", "done"}]
      BY <1>2 DEF TypeOK
<1>5. announced' \in [ProcessNumber -> SUBSET Component] /\ managed' \in SUBSET Component
      BY <1>1, <1>2 DEF TypeOK
<1> QED BY <1>1, <1>3, <1>4, <1>5 DEF TypeOK, settingVars, serverVars, restartVars

\* Requests whose promises are settled.
LEMMA SettledTypes ==
  ASSUME TypeOK, NEW g, NEW cs
  PROVE  /\ Resolved(g, cs) \in [Request -> SUBSET Component]
         /\ AfterResolved(g, cs) \in [Request -> {"new", "saving", "reading", "writing", "config", "starting",
                         "unloading", "hung", "killing", "done"}]
<1>1. Resolved(g, cs) \in [Request -> SUBSET Component]
      BY DEF TypeOK, Resolved
<1>2. AfterResolved(g, cs) \in [Request -> {"new", "saving", "reading", "writing", "config", "starting",
                         "unloading", "hung", "killing", "done"}]
      BY DEF TypeOK, AfterResolved
<1> QED BY <1>1, <1>2

\* An adapter has unloaded.
LEMMA AdapterUnloadedTypes ==
  ASSUME TypeOK, NEW p \in ProcessNumber, NEW c \in Component, AdapterUnloaded(p, c) PROVE TypeOK'
<1> DEFINE g == plugin
<1>1. UNCHANGED <<settingVars, manifest, target, serverVars, pendingRestart, restarting, process,
                  ws, managed, pstate, owner, announced, crashes>>
      BY DEF AdapterUnloaded
<1>2. CASE g = 0 \/ (g # 0 /\ adapters[g][c] = "absent")
      <2>1. /\ asked' = [asked EXCEPT ![p] = @ \ {c}]
            /\ UNCHANGED <<adapters, restart, unloading, moved, waiting, op>>
            BY <1>2 DEF AdapterUnloaded
      <2> QED BY <1>1, <2>1 DEF TypeOK, settingVars, serverVars
<1>3. CASE ~(g = 0 \/ (g # 0 /\ adapters[g][c] = "absent"))
      <2>0. g \in PluginNumber
            BY <1>3, BoundsAssumption DEF TypeOK, PluginNumber
      <2>1. adapters' = [adapters EXCEPT ![g][c] = "absent"]
            BY <1>3 DEF AdapterUnloaded
      <2>2. adapters' \in [PluginNumber -> [Component -> {"absent", "loaded", "unloading"}]]
            BY <2>0, <2>1, AdapterPut
      <2>3. \/ /\ restart' = [restart EXCEPT ![g] = FALSE]
               /\ unloading' = [unloading EXCEPT ![g] = TRUE]
               /\ \E s \in SUBSET Component : moved' = [moved EXCEPT ![g] = s]
               /\ asked' = [q \in ProcessNumber |->
                    (IF q = p THEN asked[q] \ {c} ELSE asked[q]) \union
                    (IF q = ws[g] /\ pstate[q] = "connected" THEN {"plugin"} ELSE {})]
               /\ UNCHANGED <<waiting, op>>
            \/ /\ asked' = [asked EXCEPT ![p] = @ \ {c}]
               /\ waiting' = Resolved(g, {c})
               /\ op' = AfterResolved(g, {c})
               /\ UNCHANGED <<restart, unloading, moved>>
            <3>1. {c} \in SUBSET Component /\ {} \in SUBSET Component
                  OBVIOUS
            <3> QED BY <1>3, <3>1 DEF AdapterUnloaded
      <2> HIDE DEF g
      <2>4. /\ restart' \in [PluginNumber -> BOOLEAN] /\ unloading' \in [PluginNumber -> BOOLEAN]
            /\ moved' \in [PluginNumber -> SUBSET Component]
            <3>1. restart' \in {restart, [restart EXCEPT ![g] = FALSE]}
                  /\ unloading' \in {unloading, [unloading EXCEPT ![g] = TRUE]}
                  BY <2>3
            <3>2. moved' = moved \/ \E s \in SUBSET Component : moved' = [moved EXCEPT ![g] = s]
                  BY <2>3
            <3>3. moved' \in [PluginNumber -> SUBSET Component]
                  BY <3>2 DEF TypeOK
            <3> QED BY <3>1, <3>3 DEF TypeOK
      <2>5. /\ asked' \in [ProcessNumber -> SUBSET (Component \union {"plugin"})]
            BY <2>3 DEF TypeOK
      <2>6. /\ waiting' \in [Request -> SUBSET Component]
            /\ op' \in [Request -> {"new", "saving", "reading", "writing", "config", "starting",
                         "unloading", "hung", "killing", "done"}]
            <3>1. \/ UNCHANGED <<waiting, op>>
                  \/ waiting' = Resolved(g, {c}) /\ op' = AfterResolved(g, {c})
                  BY <2>3
            <3> QED BY <3>1, SettledTypes DEF TypeOK
      <2> QED BY <1>1, <2>2, <2>4, <2>5, <2>6 DEF TypeOK, settingVars, serverVars
<1> QED BY <1>2, <1>3

\* The plugin has unloaded.
LEMMA PluginUnloadedTypes == ASSUME TypeOK, NEW p \in ProcessNumber, PluginUnloaded(p) PROVE TypeOK'
<1> DEFINE g == plugin
<1>1. /\ pstate' = [pstate EXCEPT ![p] = "leaving"] /\ plugin' = 0
      /\ UNCHANGED <<settingVars, manifest, target, plugins, unloading, restarting, process, ws,
                     adapters, managed, owner, asked, announced, crashes>>
      BY DEF PluginUnloaded
<1>2. \/ UNCHANGED <<restart, pendingRestart, moved, waiting, op>>
      \/ /\ restart' = [restart EXCEPT ![g] = FALSE]
         /\ pendingRestart' = [pendingRestart EXCEPT ![g] = IF @ = "none" THEN @ ELSE "stale"]
         /\ moved' = [moved EXCEPT ![g] = {}]
         /\ waiting' = Resolved(g, moved[g])
         /\ op' = AfterResolved(g, moved[g])
      BY DEF PluginUnloaded
<1> HIDE DEF g
<1>3. /\ restart' \in [PluginNumber -> BOOLEAN] /\ pendingRestart' \in [PluginNumber -> {"none", "armed", "stale"}]
      /\ moved' \in [PluginNumber -> SUBSET Component]
      <2>1. restart' \in {restart, [restart EXCEPT ![g] = FALSE]} /\ moved' \in {moved, [moved EXCEPT ![g] = {}]}
            BY <1>2
      <2>2. pendingRestart' \in [PluginNumber -> {"none", "armed", "stale"}]
            <3>1. pendingRestart' = pendingRestart
                  \/ pendingRestart' = [pendingRestart EXCEPT ![g] = IF @ = "none" THEN @ ELSE "stale"]
                  BY <1>2
            <3> QED BY <3>1 DEF TypeOK
      <2> QED BY <2>1, <2>2 DEF TypeOK
<1>4. /\ waiting' \in [Request -> SUBSET Component]
      /\ op' \in [Request -> {"new", "saving", "reading", "writing", "config", "starting",
                         "unloading", "hung", "killing", "done"}]
      <2>1. \/ UNCHANGED <<waiting, op>>
            \/ waiting' = Resolved(g, moved[g]) /\ op' = AfterResolved(g, moved[g])
            BY <1>2
      <2> QED BY <2>1, SettledTypes DEF TypeOK
<1>5. plugin' \in 0 .. MaxPlugins
      BY <1>1, BoundsAssumption
<1> QED BY <1>1, <1>3, <1>4, <1>5 DEF TypeOK, settingVars

\* The handler of an exit.
LEMMA ExitTypes ==
  ASSUME TypeOK, NEW g, NEW code, OnExit(g, code)
  PROVE  /\ restart' \in [PluginNumber -> BOOLEAN] /\ pendingRestart' \in [PluginNumber -> {"none", "armed", "stale"}]
         /\ restarting' \in [PluginNumber -> BOOLEAN] /\ process' \in [PluginNumber -> 0 .. MaxProcesses]
<1>1. 0 \in 0 .. MaxProcesses
      BY BoundsAssumption
<1>2. /\ restart' \in {restart, [restart EXCEPT ![g] = FALSE]}
      /\ process' \in {process, [process EXCEPT ![g] = 0]}
      /\ pendingRestart' \in {pendingRestart, [pendingRestart EXCEPT ![g] = "armed"]}
      /\ restarting' \in {restarting, [restarting EXCEPT ![g] = TRUE]}
      BY DEF OnExit
<1>3. restart' \in [PluginNumber -> BOOLEAN] /\ restarting' \in [PluginNumber -> BOOLEAN]
      BY <1>2 DEF TypeOK
<1>4. pendingRestart' \in [PluginNumber -> {"none", "armed", "stale"}]
      BY <1>2 DEF TypeOK
<1>5. process' \in [PluginNumber -> 0 .. MaxProcesses]
      BY <1>1, <1>2 DEF TypeOK
<1> QED BY <1>3, <1>4, <1>5

\* Processes end, or are not there to begin with.
LEMMA EndTypes ==
  ASSUME TypeOK, NEW p \in ProcessNumber, Exit(p) \/ Crash(p) \/ SpawnError(p)
  PROVE  TypeOK'
<1>1. \/ pstate' = [pstate EXCEPT ![p] = "dead"]
      \/ pstate' = [pstate EXCEPT ![p] = "quit"]
      BY DEF Exit, Crash, SpawnError
<1>2. crashes' = crashes \/ (crashes' = crashes + 1 /\ crashes < MaxCrashes)
      BY DEF Exit, Crash, SpawnError
<1>3. crashes' \in 0 .. MaxCrashes
      <2>1. crashes \in 0 .. MaxCrashes /\ MaxCrashes \in Nat
            BY BoundsAssumption DEF TypeOK
      <2> QED BY <1>2, <2>1
<1>4. UNCHANGED <<settingVars, requestVars, serverVars, unloading, ws, adapterVars, owner, asked, announced>>
      BY DEF Exit, Crash, SpawnError
<1>5. \/ \E code : OnExit(owner[p], code)
      \/ restart' = [restart EXCEPT ![owner[p]] = FALSE] /\ UNCHANGED <<pendingRestart, restarting, process>>
      BY DEF Exit, Crash, SpawnError
<1>6. /\ restart' \in [PluginNumber -> BOOLEAN] /\ pendingRestart' \in [PluginNumber -> {"none", "armed", "stale"}]
      /\ restarting' \in [PluginNumber -> BOOLEAN] /\ process' \in [PluginNumber -> 0 .. MaxProcesses]
      <2>1. CASE \E code : OnExit(owner[p], code)
            BY <2>1, ExitTypes
      <2>2. CASE restart' = [restart EXCEPT ![owner[p]] = FALSE] /\ UNCHANGED <<pendingRestart, restarting, process>>
            BY <2>2 DEF TypeOK
      <2> QED BY <1>5, <2>1, <2>2
<1> QED BY <1>1, <1>3, <1>4, <1>6 DEF TypeOK, settingVars, requestVars, serverVars, adapterVars

\* The restart timer.
LEMMA TimerTypes == ASSUME TypeOK, NEW g \in PluginNumber, RestartTimer(g) PROVE TypeOK'
<1>1. 0 \in 0 .. MaxProcesses
      BY BoundsAssumption
<1> QED BY ZenonT(60), <1>1
     DEF TypeOK, RestartTimer, settingVars, requestVars, serverVars, adapterVars, processVars

\* Every step keeps the types.
LEMMA TypesKept == TypeOK /\ [Next]_vars => TypeOK'
<1> SUFFICES ASSUME TypeOK, [Next]_vars PROVE TypeOK'
    OBVIOUS
<1>1. ASSUME NEW r \in Request, Begin(r) \/ RequestStep(r) PROVE TypeOK'
      BY <1>1, BeginTypes, RequestTypes, LoadTypes, StartTypes, UnloadTypes, KillTypes DEF RequestStep
<1>2. ASSUME NEW g \in PluginNumber, PluginStep(g) PROVE TypeOK'
      BY <1>2, TimerTypes, AgainTypes DEF PluginStep
<1>3. ASSUME NEW p \in ProcessNumber, MessageStep(p) \/ Crash(p) \/ SpawnError(p) PROVE TypeOK'
      BY <1>3, RegisterTypes, AdapterAddedTypes, AdapterUnloadedTypes, PluginUnloadedTypes, EndTypes
         DEF MessageStep
<1>4. CASE UNCHANGED vars
      BY <1>4 DEF TypeOK, vars, settingVars, requestVars, serverVars, restartVars, adapterVars, processVars
<1> QED BY <1>1, <1>2, <1>3, <1>4 DEF Next

\* The types of the variables (AddonManager, PluginServer, Plugin).
THEOREM LifeTypes == Spec => []TypeOK
BY TypesStart, TypesKept, PTL DEF Spec

-----------------------------------------------------------------------------
(* The inductive invariant, for settled clients of an add-on with adapters. *)

Settled == Pace = "settled" /\ Component # {}

\* A request is in an await; only one is.
Busy(r) == op[r] \notin {"new", "done"}
OneBusy == \A q, r \in Request : Busy(q) /\ Busy(r) => q = r
\* A live process belongs to the registered plugin and is asked to unload only
\* by a request; one that leaves belongs to another, which starts none again.
Live ==
  \A p \in ProcessNumber :
    /\ pstate[p] # "none" => owner[p] \in 1 .. plugins
    /\ pstate[p] = "none" => asked[p] = {}
    /\ Alive(p) => owner[p] = plugin /\ process[plugin] = p
    /\ pstate[p] = "connected" => ws[plugin] = p
    /\ Alive(p) /\ asked[p] # {} => \E r \in Request : op[r] = "unloading"
    /\ pstate[p] = "leaving" => owner[p] # plugin /\ ~restart[owner[p]]
\* Who is about to start a process again is the registered plugin, which has none
\* that lives; no request starts it too.
Restarts ==
  \A g \in PluginNumber :
    /\ ~(pendingRestart[g] = "armed" /\ restarting[g])
    /\ pendingRestart[g] = "armed" \/ restarting[g] =>
         /\ g = plugin /\ restart[g]
         /\ \A p \in ProcessNumber : ~Alive(p)
         /\ \A r \in Request : op[r] # "starting"
\* Request r has the plugin unloaded: first all adapters, then the plugin.
Unloads(r) ==
  /\ target[r] = plugin /\ plugin # 0 /\ managed = {}
  /\ \E p \in ProcessNumber : pstate[p] = "connected" /\ announced[p] = Component
  /\ \A c \in Component : adapters[plugin][c] \in {"absent", "unloading"}
  /\ waiting[r] = IF Components(plugin) = {} THEN moved[plugin] ELSE Components(plugin)
  /\ Components(plugin) = {} => ~restart[plugin]
  /\ \A p \in ProcessNumber : pstate[p] = "connected" =>
       asked[p] = IF Components(plugin) = {} THEN {"plugin"} ELSE Components(plugin)
\* What holds in each await of a request.
Stands(r) ==
  /\ op[r] # "hung" /\ (r \in Enable \union {Boot} => op[r] \notin {"unloading", "killing"})
  /\ r = Boot => op[r] \notin {"new", "saving"}
  /\ op[r] \in {"reading", "writing", "config", "killing"} => plugin = 0
  /\ op[r] = "config" => cached = manifest[r]
  /\ op[r] = "saving" /\ r \in Enable => plugin = 0
  /\ op[r] = "saving" /\ r \notin Enable => Served
  /\ op[r] = "starting" => target[r] = plugin /\ plugin # 0 /\ \A p \in ProcessNumber : ~Alive(p)
  /\ op[r] = "unloading" => Unloads(r)
Requests ==
  /\ plugin <= plugins
  /\ ~cached => plugin = 0 \/ \E r \in Disable : op[r] \in {"saving", "unloading"}
  /\ \A r \in Request : Stands(r)

LifeInv == OneBusy /\ Live /\ Restarts /\ Requests /\ ManagedIsLoaded

\* In the initial state.
LEMMA InvStart == Init => LifeInv
<1> SUFFICES ASSUME Init PROVE LifeInv
    OBVIOUS
<1>1. \A r \in Request : r # Boot => op[r] = "new"
      BY DEF Init
<1>2. op[Boot] = "reading" /\ Boot \in Request
      BY DEF Init, Request
<1>3. OneBusy
      BY <1>1, <1>2 DEF OneBusy, Busy
<1>4. Live
      BY DEF Init, Live, Alive
<1>5. Restarts
      BY DEF Init, Restarts
<1>6. Requests
      BY <1>1, <1>2 DEF Init, Requests, Stands
<1>7. ManagedIsLoaded
      BY DEF Init, ManagedIsLoaded
<1> QED BY <1>3, <1>4, <1>5, <1>6, <1>7 DEF LifeInv

\* A live process belongs to a plugin, and is the only one.
LEMMA AliveHas ==
  ASSUME TypeOK, LifeInv, NEW p \in ProcessNumber, Alive(p)
  PROVE  /\ plugin \in PluginNumber /\ plugin # 0 /\ owner[p] = plugin /\ process[plugin] = p
         /\ \A q \in ProcessNumber : Alive(q) => q = p
         /\ \A g \in PluginNumber : pendingRestart[g] # "armed" /\ ~restarting[g]
<1>1. owner[p] \in 1 .. plugins /\ owner[p] = plugin
      BY DEF LifeInv, Live, Alive
<1>2. plugin \in PluginNumber /\ plugin # 0
      BY <1>1, BoundsAssumption DEF TypeOK, PluginNumber
<1> QED BY <1>1, <1>2 DEF LifeInv, Live, Restarts

\* Without a plugin nothing lives.
LEMMA NoPlugin ==
  ASSUME TypeOK, LifeInv, plugin = 0
  PROVE  /\ \A p \in ProcessNumber : ~Alive(p) /\ pstate[p] # "connected"
         /\ \A g \in PluginNumber : pendingRestart[g] # "armed" /\ ~restarting[g]
         /\ managed = {}
<1>1. \A p \in ProcessNumber : ~Alive(p)
      BY AliveHas
<1>2. \A g \in PluginNumber : pendingRestart[g] # "armed" /\ ~restarting[g]
      BY BoundsAssumption DEF LifeInv, Restarts, PluginNumber
<1> QED BY <1>1, <1>2 DEF LifeInv, ManagedIsLoaded, Alive

\* A plugin that is about to start a process again does so while no request is under way.
LEMMA RestartsIdle ==
  ASSUME TypeOK, LifeInv, NEW g \in PluginNumber, pendingRestart[g] = "armed" \/ restarting[g]
  PROVE  /\ g = plugin /\ plugin # 0 /\ restart[g] /\ \A p \in ProcessNumber : ~Alive(p)
         /\ \A r \in Request : ~Busy(r)
<1>1. g = plugin /\ restart[g] /\ (\A p \in ProcessNumber : ~Alive(p)) /\ \A r \in Request : op[r] # "starting"
      BY DEF LifeInv, Restarts
<1>2. plugin # 0
      BY <1>1, BoundsAssumption DEF PluginNumber
<1>3. ~Served
      BY <1>1 DEF Served, Alive
<1>4. ASSUME NEW r \in Request PROVE ~Busy(r)
      <2>1. Stands(r)
            BY DEF LifeInv, Requests
      <2>2. op[r] # "unloading"
            BY <1>1, <2>1 DEF Stands, Unloads, Alive
      <2>3. op[r] \in {"new", "saving", "reading", "writing", "config", "starting", "unloading", "hung", "killing", "done"}
            BY DEF TypeOK
      <2> QED BY <1>1, <1>2, <1>3, <2>1, <2>2, <2>3 DEF Stands, Busy
<1> QED BY <1>1, <1>2, <1>4

\* A request goes on while there is no plugin.
LEMMA AbsentSafe ==
  ASSUME TypeOK, LifeInv, plugin = 0, NEW r \in Request, Busy(r),
         NEW s \in {"reading", "writing", "config", "done"}, op' = [op EXCEPT ![r] = s],
         s = "config" => cached' = manifest'[r],
         UNCHANGED <<target, waiting, serverVars, restartVars, process, ws, adapterVars, processVars>>
  PROVE  LifeInv'
<1>1. /\ \A p \in ProcessNumber : ~Alive(p) /\ pstate[p] # "connected"
      /\ \A g \in PluginNumber : pendingRestart[g] # "armed" /\ ~restarting[g]
      /\ managed = {}
      BY NoPlugin
<1>2. \A q \in Request : op'[q] = IF q = r THEN s ELSE op[q]
      BY DEF TypeOK
<1>3. UNCHANGED <<plugin, plugins, pstate, owner, asked, pendingRestart, restarting, restart, managed, process, ws>>
      BY DEF serverVars, restartVars, adapterVars, processVars
<1>4. \A p \in ProcessNumber : Alive(p)' = Alive(p)
      BY <1>3 DEF Alive
<1>5. OneBusy'
      BY <1>2 DEF LifeInv, OneBusy, Busy
<1>6. Live'
      BY <1>1, <1>3, <1>4 DEF LifeInv, Live
<1>7. Restarts'
      BY <1>1, <1>3 DEF Restarts
<1>8. ManagedIsLoaded'
      BY <1>1, <1>3 DEF ManagedIsLoaded
<1>9. ASSUME NEW q \in Request PROVE Stands(q)'
      <2>1. Stands(q)
            BY DEF LifeInv, Requests
      <2>2. ~Served
            BY DEF Served
      <2>3. CASE q = r
            <3>1. op'[q] = s /\ op[r] # "new"
                  BY <1>2, <2>3 DEF Busy
            <3>2. op'[q] = "config" => cached' = manifest'[q]
                  BY <2>3, <3>1
            <3> QED BY <1>3, <3>1, <3>2 DEF Stands
      <2>4. CASE q # r
            <3>1. op'[q] = op[q] /\ op[q] \in {"new", "done"}
                  BY <1>2, <2>4 DEF LifeInv, OneBusy, Busy
            <3> QED BY <2>1, <3>1 DEF Stands
      <2> QED BY <2>3, <2>4
<1>10. Requests'
       BY <1>3, <1>9 DEF LifeInv, Requests
<1> QED BY <1>5, <1>6, <1>7, <1>8, <1>10 DEF LifeInv

\* The requests that go on without a plugin.
LEMMA QuietSafe ==
  ASSUME TypeOK, LifeInv, NEW r \in Request,
         \/ EnableSaved(r) \/ LoadRead(r) \/ LoadWrite(r) \/ KillTimer(r)
         \/ LoadPlugin(r) /\ ~manifest[r]
  PROVE  LifeInv'
<1>1. Stands(r)
      BY DEF LifeInv, Requests
<1>2. plugin = 0 /\ Busy(r)
      BY <1>1 DEF Stands, Busy, EnableSaved, LoadRead, LoadWrite, KillTimer, LoadPlugin
<1>3. UNCHANGED <<target, waiting, serverVars, restartVars, process, ws, adapterVars, processVars>>
      <2>1. CASE KillTimer(r)
            <3>1. \A p \in ProcessNumber : ~Alive(p)
                  BY <1>2, NoPlugin
            <3>2. pstate' = pstate
                  BY <2>1, <3>1 DEF KillTimer, TypeOK
            <3> QED BY <2>1, <3>2 DEF KillTimer, processVars
      <2>2. CASE ~KillTimer(r)
            BY <2>2 DEF EnableSaved, LoadRead, LoadWrite, LoadPlugin
      <2> QED BY <2>1, <2>2
<1>4. \E s \in {"reading", "writing", "config", "done"} :
         op' = [op EXCEPT ![r] = s] /\ (s = "config" => cached' = manifest'[r])
      BY DEF EnableSaved, LoadRead, LoadWrite, KillTimer, LoadPlugin
<1> QED BY <1>2, <1>3, <1>4, AbsentSafe

\* A settled client begins a request.
LEMMA BeginSafe == ASSUME Settled, TypeOK, LifeInv, NEW r \in Request, Begin(r) PROVE LifeInv'
<1>1. /\ op[r] = "new" /\ (r \in Enable <=> ~cached)
      /\ \A q \in Request : q # r => op[q] \in {"new", "done"}
      /\ r \notin Enable => Served
      BY DEF Begin, MayBegin, Settled
<1>2. \A q \in Request : op'[q] = IF q = r THEN "saving" ELSE op[q]
      BY DEF Begin, TypeOK
<1>3. UNCHANGED <<target, waiting, plugin, plugins, restart, pendingRestart, restarting, process, ws, adapters, moved,
                  managed, pstate, owner, asked, announced>> /\ cached' = (r \notin Disable)
      BY DEF Begin, requestVars, serverVars, restartVars, adapterVars, processVars
<1>4. \A p \in ProcessNumber : Alive(p)' = Alive(p)
      BY <1>3 DEF Alive
<1>5. r # Boot /\ r \in Enable \union Disable \union Reconfigure
      BY <1>1 DEF LifeInv, Requests, Stands, Request
<1>6. OneBusy'
      BY <1>1, <1>2 DEF OneBusy, Busy
<1>7. Live'
      BY <1>1, <1>3, <1>4 DEF LifeInv, Live
<1>8. Restarts'
      BY <1>2, <1>3, <1>4 DEF LifeInv, Restarts
<1>9. ManagedIsLoaded'
      BY <1>3 DEF LifeInv, ManagedIsLoaded
<1>10. r \in Enable => plugin = 0
       <2>1. \A q \in Request : op[q] \notin {"saving", "unloading"}
             BY <1>1
       <2>2. \A q \in Disable : q \in Request
             BY DEF Request
       <2> QED BY <1>1, <2>1, <2>2 DEF LifeInv, Requests
<1>11. Served' = Served
       BY <1>3 DEF Served
<1>12. ASSUME NEW q \in Request PROVE Stands(q)'
       <2>1. Stands(q)
             BY DEF LifeInv, Requests
       <2>2. CASE q = r
             <3>1. op'[q] = "saving"
                   BY <1>2, <2>2
             <3> QED BY <1>1, <1>3, <1>5, <1>10, <1>11, <2>2, <3>1 DEF Stands
       <2>3. CASE q # r
             <3>1. op'[q] = op[q] /\ op[q] \in {"new", "done"}
                   BY <1>1, <1>2, <2>3
             <3> QED BY <2>1, <3>1 DEF Stands
       <2> QED BY <2>2, <2>3
<1>13. ~cached' => \E q \in Disable : op'[q] \in {"saving", "unloading"}
       BY <1>2, <1>3
<1>14. Requests'
       BY <1>3, <1>12, <1>13 DEF LifeInv, Requests
<1> QED BY <1>6, <1>7, <1>8, <1>9, <1>14 DEF LifeInv

\* A plugin is registered anew.
LEMMA LoadSafe == ASSUME TypeOK, LifeInv, NEW r \in Request, LoadPlugin(r), manifest[r] PROVE LifeInv'
<1>1. op[r] = "config" /\ plugin = 0
      BY DEF LoadPlugin, LifeInv, Requests, Stands
<1>2. /\ plugin' = plugins + 1 /\ plugins' = plugins + 1 /\ Registered = plugins + 1
      /\ plugin' \in 1 .. MaxPlugins /\ plugins \in Nat
      BY <1>1, RegisteredTypes DEF LoadPlugin, TypeOK
<1>3. /\ \A q \in Request : op'[q] = IF q = r THEN "starting" ELSE op[q]
      /\ target'[r] = plugin'
      BY <1>2 DEF LoadPlugin, TypeOK
<1>4. UNCHANGED <<cached, restart, pendingRestart, restarting, process, ws, adapters, moved,
                  managed, pstate, owner, asked, announced>>
      BY DEF LoadPlugin, settingVars, restartVars, adapterVars, processVars
<1>5. /\ \A p \in ProcessNumber : ~Alive(p) /\ pstate[p] # "connected"
      /\ \A g \in PluginNumber : pendingRestart[g] # "armed" /\ ~restarting[g]
      /\ managed = {}
      BY <1>1, NoPlugin
<1>6. \A p \in ProcessNumber : ~Alive(p)' /\ Alive(p)' = Alive(p)
      BY <1>4, <1>5 DEF Alive
<1>7. OneBusy'
      BY <1>1, <1>3 DEF LifeInv, OneBusy, Busy
<1>8. \A p \in ProcessNumber : pstate[p] # "none" => owner[p] \in 1 .. plugins
      BY DEF LifeInv, Live
<1>9. \A p \in ProcessNumber : pstate[p] # "none" => owner[p] \in 1 .. plugins' /\ owner[p] # plugin'
      BY <1>2, <1>8
<1>10. Live'
       BY <1>4, <1>5, <1>6, <1>9 DEF LifeInv, Live
<1>11. Restarts'
       BY <1>4, <1>5 DEF Restarts
<1>12. ManagedIsLoaded'
       BY <1>4, <1>5 DEF ManagedIsLoaded
<1>13. \A q \in Request : q # r => op[q] \in {"new", "done"}
       BY <1>1 DEF LifeInv, OneBusy, Busy
<1>14. ASSUME NEW q \in Request PROVE Stands(q)'
       <2>1. Stands(q)
             BY DEF LifeInv, Requests
       <2>2. CASE q = r
             <3>1. op'[q] = "starting" /\ plugin' # 0
                   BY <1>2, <1>3, <2>2
             <3> QED BY <1>3, <1>6, <2>2, <3>1 DEF Stands
       <2>3. CASE q # r
             <3>1. op'[q] = op[q] /\ op[q] \in {"new", "done"}
                   BY <1>3, <1>13, <2>3
             <3> QED BY <2>1, <3>1 DEF Stands
       <2> QED BY <2>2, <2>3
<1>15. cached
       BY DEF LoadPlugin, LifeInv, Requests, Stands
<1>16. Requests'
       BY <1>2, <1>4, <1>14, <1>15 DEF Requests
<1> QED BY <1>7, <1>10, <1>11, <1>12, <1>16 DEF LifeInv

\* The registered plugin, which has no live process, starts one, or finds the add-on disabled.
LEMMA SpawnSafe ==
  ASSUME TypeOK, LifeInv, plugin \in PluginNumber, Spawn(plugin), cached,
         \A p \in ProcessNumber : ~Alive(p),
         \A g \in PluginNumber : pendingRestart'[g] # "armed" /\ ~restarting'[g],
         \A q \in Request : op'[q] \in {"new", "done"} /\ (op'[q] = "new" => op[q] = "new"),
         UNCHANGED <<cached, plugin, plugins, ws, adapters, managed, asked>>
  PROVE  LifeInv'
<1>1. OneBusy'
      BY DEF OneBusy, Busy
<1>2. Restarts'
      BY DEF Restarts
<1>3. ManagedIsLoaded'
      BY DEF LifeInv, ManagedIsLoaded
<1>4. Requests'
      <2>1. \A q \in Request : Stands(q)'
            BY DEF LifeInv, Requests, Stands
      <2> QED BY <2>1 DEF LifeInv, Requests
<1>5. plugin \in 1 .. plugins
      BY BoundsAssumption DEF LifeInv, Requests, TypeOK, PluginNumber
<1>6. ASSUME NEW p \in ProcessNumber
      PROVE  /\ pstate[p] # "none" => owner[p] \in 1 .. plugins
             /\ pstate[p] = "none" => asked[p] = {}
             /\ pstate[p] \notin {"spawned", "connected"}
             /\ pstate[p] = "leaving" => owner[p] # plugin /\ ~restart[owner[p]] /\ owner[p] \in PluginNumber
      <2>1. /\ pstate[p] # "none" => owner[p] \in 1 .. plugins
            /\ pstate[p] = "none" => asked[p] = {}
            /\ pstate[p] = "leaving" => owner[p] # plugin /\ ~restart[owner[p]]
            BY DEF LifeInv, Live
      <2>2. 1 .. plugins \subseteq PluginNumber
            BY BoundsAssumption DEF TypeOK, PluginNumber
      <2> QED BY <2>1, <2>2 DEF Alive
<1>7. CASE stored
      <2>1. PICK new \in ProcessNumber :
              /\ pstate[new] = "none"
              /\ restart' = [restart EXCEPT ![plugin] = TRUE] /\ process' = [process EXCEPT ![plugin] = new]
              /\ pstate' = [pstate EXCEPT ![new] = "spawned"] /\ owner' = [owner EXCEPT ![new] = plugin]
            BY <1>7 DEF Spawn
      <2>2. /\ process'[plugin] = new /\ \A g \in PluginNumber : g # plugin => restart'[g] = restart[g]
            /\ \A p \in ProcessNumber : /\ pstate'[p] = IF p = new THEN "spawned" ELSE pstate[p]
                                        /\ owner'[p] = IF p = new THEN plugin ELSE owner[p]
            BY <2>1 DEF TypeOK
      <2>3. Live'
            <3> SUFFICES ASSUME NEW p \in ProcessNumber
                         PROVE  /\ pstate'[p] # "none" => owner'[p] \in 1 .. plugins
                                /\ pstate'[p] = "none" => asked[p] = {}
                                /\ Alive(p)' => owner'[p] = plugin /\ process'[plugin] = p /\ asked[p] = {}
                                /\ pstate'[p] # "connected"
                                /\ pstate'[p] = "leaving" => owner'[p] # plugin /\ ~restart'[owner'[p]]
                BY DEF Live
            <3>1. CASE p = new
                  BY <1>5, <1>6, <2>1, <2>2, <3>1
            <3>2. CASE p # new
                  BY <1>6, <2>2, <3>2 DEF Alive
            <3> QED BY <3>1, <3>2
      <2> QED BY <1>1, <1>2, <1>3, <1>4, <2>3 DEF LifeInv
<1>8. CASE ~stored
      <2>1. restart' = [restart EXCEPT ![plugin] = FALSE] /\ UNCHANGED <<pstate, owner>>
            BY <1>8 DEF Spawn
      <2>2. \A g \in PluginNumber : g # plugin => restart'[g] = restart[g]
            BY <2>1 DEF TypeOK
      <2>3. Live'
            BY <1>6, <2>1, <2>2 DEF Live, Alive
      <2> QED BY <1>1, <1>2, <1>3, <1>4, <2>3 DEF LifeInv
<1> QED BY <1>7, <1>8

\* A request starts the plugin it has registered.
LEMMA StartSafe == ASSUME TypeOK, LifeInv, NEW r \in Request, StartFor(r) PROVE LifeInv'
<1>1. /\ op[r] = "starting" /\ target[r] = plugin /\ plugin # 0 /\ \A p \in ProcessNumber : ~Alive(p)
      BY DEF StartFor, LifeInv, Requests, Stands
<1>2. plugin \in PluginNumber
      BY <1>1, BoundsAssumption DEF TypeOK, PluginNumber
<1>3. \A q \in Request : q # r => op[q] \in {"new", "done"}
      BY <1>1 DEF LifeInv, OneBusy, Busy
<1>4. \A q \in Request : op'[q] = IF q = r THEN "done" ELSE op[q]
      BY DEF StartFor, TypeOK
<1>5. \A g \in PluginNumber : pendingRestart[g] # "armed" /\ ~restarting[g]
      BY <1>1 DEF LifeInv, Restarts
<1>6. cached
      <2>1. \A q \in Disable : q \in Request
            BY DEF Request
      <2> QED BY <1>1, <1>3, <2>1 DEF LifeInv, Requests
<1>7. Spawn(plugin) /\ UNCHANGED <<cached, plugin, plugins, ws, adapters, managed, asked, pendingRestart, restarting>>
      BY <1>1 DEF StartFor, settingVars, serverVars, adapterVars
<1> QED BY <1>1, <1>2, <1>3, <1>4, <1>5, <1>6, <1>7, SpawnSafe

\* A plugin is started again.
LEMMA AgainSafe == ASSUME TypeOK, LifeInv, NEW g \in PluginNumber, StartAgain(g) PROVE LifeInv'
<1>1. /\ g = plugin /\ plugin # 0 /\ restart[g] /\ \A p \in ProcessNumber : ~Alive(p)
      /\ \A r \in Request : ~Busy(r)
      BY RestartsIdle DEF StartAgain
<1>2. \A h \in PluginNumber : pendingRestart[h] # "armed" /\ ~restarting'[h]
      BY <1>1 DEF StartAgain, LifeInv, Restarts, TypeOK
<1>3. Spawn(plugin) /\ UNCHANGED <<op, cached, plugin, plugins, ws, adapters, managed, asked, pendingRestart>>
      BY <1>1 DEF StartAgain, settingVars, requestVars, serverVars, adapterVars
<1>4. cached
      <2>1. \A q \in Disable : q \in Request
            BY DEF Request
      <2> QED BY <1>1, <2>1 DEF LifeInv, Requests, Busy
<1> QED BY <1>1, <1>2, <1>3, <1>4, SpawnSafe DEF Busy

\* What most steps of processes and timers leave as it is for the requests that are under way.
LEMMA StandsStays ==
  ASSUME LifeInv, UNCHANGED <<op, cached, manifest, target, waiting, plugin, adapters, moved, managed, announced, asked>>,
         plugins' = plugins,
         \A p \in ProcessNumber : (pstate'[p] = "connected" <=> pstate[p] = "connected"),
         \A p \in ProcessNumber : Alive(p)' => Alive(p),
         UNCHANGED ws, plugin # 0 => restart'[plugin] = restart[plugin]
  PROVE  Requests'
<1>1. Served' = Served
      BY DEF Served
<1>2. Components(plugin)' = Components(plugin)
      BY DEF Components
<1>3. \A r \in Request : Unloads(r) => Unloads(r)'
      BY <1>2 DEF Unloads
<1>4. \A r \in Request : Stands(r) => Stands(r)'
      BY <1>1, <1>3 DEF Stands
<1> QED BY <1>4 DEF LifeInv, Requests

\* The restart timer.
LEMMA TimerSafe == ASSUME TypeOK, LifeInv, NEW g \in PluginNumber, RestartTimer(g) PROVE LifeInv'
<1>1. /\ g = plugin /\ plugin # 0 /\ restart[g] /\ \A p \in ProcessNumber : ~Alive(p)
      /\ \A r \in Request : ~Busy(r)
      BY RestartsIdle DEF RestartTimer
<1>2. /\ pendingRestart' = [pendingRestart EXCEPT ![g] = "none"]
      /\ restarting' = [restarting EXCEPT ![g] = TRUE]
      /\ UNCHANGED <<op, cached, manifest, target, waiting, plugin, plugins, restart, process, ws, adapters, moved, managed,
                     pstate, owner, asked, announced>>
      BY <1>1 DEF RestartTimer, settingVars, requestVars, serverVars, adapterVars, processVars
<1>3. \A p \in ProcessNumber : Alive(p)' = Alive(p)
      BY <1>2 DEF Alive
<1>4. OneBusy'
      BY <1>2 DEF LifeInv, OneBusy, Busy
<1>5. Live'
      BY <1>2, <1>3 DEF LifeInv, Live
<1>6. Restarts'
      <2>1. \A h \in PluginNumber : /\ pendingRestart'[h] = IF h = g THEN "none" ELSE pendingRestart[h]
                                    /\ restarting'[h] = IF h = g THEN TRUE ELSE restarting[h]
            BY <1>2 DEF TypeOK
      <2>2. \A h \in PluginNumber : h # g => pendingRestart[h] # "armed" /\ ~restarting[h]
            BY <1>1 DEF LifeInv, Restarts
      <2>3. \A h \in PluginNumber : h # g => pendingRestart'[h] # "armed" /\ ~restarting'[h]
            BY <2>1, <2>2
      <2>4. pendingRestart'[g] = "none" /\ plugin' = g /\ restart'[g] /\ op' = op
            BY <1>1, <1>2, <2>1
      <2> QED BY <1>1, <1>3, <2>3, <2>4 DEF Restarts, Busy
<1>7. ManagedIsLoaded'
      BY <1>2 DEF LifeInv, ManagedIsLoaded
<1>8. Requests'
      BY <1>2, <1>3, StandsStays
<1> QED BY <1>4, <1>5, <1>6, <1>7, <1>8 DEF LifeInv

\* The plugin of an add-on that is served is unloaded.
LEMMA UnloadSafe == ASSUME Settled, TypeOK, LifeInv, NEW r \in Request, UnloadSaved(r) PROVE LifeInv'
<1>1. /\ op[r] = "saving" /\ r \notin Enable /\ Served /\ plugin # 0
      BY RequestsAssumption DEF UnloadSaved, LifeInv, Requests, Stands, Served
<1>2. plugin \in PluginNumber
      BY <1>1, BoundsAssumption DEF TypeOK, PluginNumber
<1>3. PICK p \in ProcessNumber : ws[plugin] = p /\ pstate[p] = "connected" /\ announced[p] = Component
      BY <1>1 DEF Served
<1>4. Alive(p) /\ \A q \in ProcessNumber : pstate[q] = "connected" => q = p
      BY <1>3, AliveHas DEF Alive
<1>5. \A q \in Request : q # r => op[q] \in {"new", "done"}
      BY <1>1 DEF LifeInv, OneBusy, Busy
<1>6. asked[p] = {}
      BY <1>1, <1>4, <1>5 DEF LifeInv, Live
<1>7. Component # {} /\ managed = Component /\ \A c \in Component : adapters[plugin][c] = "loaded"
      BY <1>1 DEF Settled, Served, LifeInv, ManagedIsLoaded
<1>8. Components(plugin) = Component /\ {c \in Component : adapters[plugin][c] = "loaded"} = Component
      BY <1>7 DEF Components
<1>9. /\ target' = [target EXCEPT ![r] = plugin] /\ UnloadComponents(r, plugin)
      /\ UNCHANGED <<cached, manifest, plugin, plugins, pendingRestart, restarting, process, ws,
                     moved, pstate, owner, announced>>
      BY <1>1 DEF UnloadSaved, serverVars
<1>10. /\ managed' = managed \ Component
       /\ adapters' = [adapters EXCEPT ![plugin] = [c \in Component |-> IF c \in Component THEN "unloading" ELSE @[c]]]
       /\ waiting' = [waiting EXCEPT ![r] = Component]
       /\ op' = [op EXCEPT ![r] = "unloading"]
       /\ Send(plugin, Component) /\ UNCHANGED <<restart, unloading>>
       BY <1>7, <1>8, <1>9 DEF UnloadComponents
<1>11. /\ managed' = {} /\ \A c \in Component : adapters'[plugin][c] = "unloading"
       /\ \A q \in Request : op'[q] = IF q = r THEN "unloading" ELSE op[q]
       /\ target'[r] = plugin /\ waiting'[r] = Component
       BY <1>2, <1>7, <1>9, <1>10 DEF TypeOK
<1>12. /\ \A q \in ProcessNumber : q # p => asked'[q] = asked[q]
       /\ asked'[p] = Component
       <2>1. \A q \in ProcessNumber : asked'[q] = IF q = ws[plugin] /\ pstate[q] = "connected"
                THEN asked[q] \union (Component \intersect (announced[q] \union {"plugin"})) ELSE asked[q]
             BY <1>10 DEF Send
       <2> QED BY <1>3, <1>6, <2>1
<1>13. Components(plugin)' = Component
       BY <1>9, <1>11 DEF Components
<1>14. \A q \in ProcessNumber : Alive(q)' = Alive(q)
       BY <1>9 DEF Alive
<1>15. OneBusy'
       BY <1>5, <1>11 DEF OneBusy, Busy
<1>16. Live'
       <2>1. \E q \in Request : op'[q] = "unloading"
             BY <1>11
       <2>2. \A q \in ProcessNumber : pstate[q] = "none" => q # p
             BY <1>3
       <2> QED BY <1>9, <1>10, <1>12, <1>14, <2>1, <2>2 DEF LifeInv, Live
<1>17. Restarts'
       <2>1. \A g \in PluginNumber : pendingRestart[g] # "armed" /\ ~restarting[g]
             BY <1>4, AliveHas
       <2> QED BY <1>9, <2>1 DEF Restarts
<1>18. ManagedIsLoaded'
       BY <1>11 DEF ManagedIsLoaded
<1>19. Unloads(r)'
       <2>1. \A q \in ProcessNumber : pstate[q] = "connected" => asked'[q] = Component
             BY <1>4, <1>12
       <2> QED BY <1>1, <1>3, <1>7, <1>9, <1>11, <1>13, <2>1 DEF Unloads
<1>20. ASSUME NEW q \in Request PROVE Stands(q)'
       <2>1. Stands(q)
             BY DEF LifeInv, Requests
       <2>2. CASE q = r
             <3>1. op'[q] = "unloading" /\ q # Boot /\ q \notin Enable
                   BY <1>1, <1>11, <2>1, <2>2 DEF Stands
             <3> QED BY <1>19, <2>2, <3>1 DEF Stands
       <2>3. CASE q # r
             <3>1. op'[q] = op[q] /\ op[q] \in {"new", "done"}
                   BY <1>5, <1>11, <2>3
             <3> QED BY <2>1, <3>1 DEF Stands
       <2> QED BY <2>2, <2>3
<1>21. ~cached' => \E q \in Disable : op'[q] \in {"saving", "unloading"}
       <2>1. \A q \in Disable : q \in Request
             BY DEF Request
       <2> QED BY <1>1, <1>5, <1>9, <1>11, <2>1 DEF LifeInv, Requests
<1>22. Requests'
       BY <1>9, <1>20, <1>21 DEF LifeInv, Requests
<1> QED BY <1>15, <1>16, <1>17, <1>18, <1>22 DEF LifeInv

-----------------------------------------------------------------------------
(* Messages and ends of processes.                                         *)

\* A process registers.
LEMMA RegisterSafe == ASSUME TypeOK, LifeInv, NEW p \in ProcessNumber, Register(p) PROVE LifeInv'
<1>1. Alive(p) /\ pstate[p] = "spawned" /\ RegisterPlugin
      BY DEF Register, Alive
<1>2. /\ plugin \in PluginNumber /\ plugin # 0 /\ \A q \in ProcessNumber : Alive(q) => q = p
      BY <1>1, AliveHas
<1>3. plugin' = plugin /\ plugins' = plugins /\ Registered = plugin
      BY <1>1, <1>2, RegisteredTypes
<1>4. /\ pstate' = [pstate EXCEPT ![p] = "connected"] /\ ws' = [ws EXCEPT ![plugin] = p]
      /\ UNCHANGED <<op, cached, manifest, target, waiting, restart, pendingRestart, restarting, process, adapters, moved,
                     managed, owner, asked, announced>>
      BY <1>3 DEF Register, settingVars, requestVars, restartVars, adapterVars
<1>5. /\ \A q \in ProcessNumber : pstate'[q] = IF q = p THEN "connected" ELSE pstate[q]
      /\ ws'[plugin] = p
      BY <1>2, <1>4 DEF TypeOK
<1>6. \A q \in ProcessNumber : Alive(q)' = Alive(q)
      BY <1>1, <1>5 DEF Alive
<1>7. \A q \in ProcessNumber : pstate[q] # "connected"
      BY <1>1, <1>2 DEF Alive
<1>8. OneBusy' /\ ManagedIsLoaded'
      BY <1>3, <1>4 DEF LifeInv, OneBusy, Busy, ManagedIsLoaded
<1>9. Live'
      BY <1>1, <1>3, <1>4, <1>5, <1>6, <1>7 DEF LifeInv, Live
<1>10. Restarts'
       BY <1>3, <1>4, <1>6 DEF LifeInv, Restarts
<1>11. ASSUME NEW r \in Request PROVE Stands(r)'
       <2>1. Stands(r)
             BY DEF LifeInv, Requests
       <2>2. ~Served
             BY <1>7 DEF Served
       <2>3. op[r] # "unloading"
             BY <1>7, <2>1 DEF Stands, Unloads
       <2> QED BY <1>3, <1>4, <1>6, <2>1, <2>2, <2>3 DEF Stands
<1>12. Requests'
       BY <1>3, <1>4, <1>11 DEF LifeInv, Requests
<1> QED BY <1>8, <1>9, <1>10, <1>12 DEF LifeInv

\* A process announces an adapter.
LEMMA AdapterAddedSafe ==
  ASSUME TypeOK, LifeInv, NEW p \in ProcessNumber, NEW c \in Component, AdapterAdded(p, c) PROVE LifeInv'
<1>1. Alive(p) /\ pstate[p] = "connected" /\ c \notin announced[p]
      BY DEF AdapterAdded, Alive
<1>2. /\ plugin \in PluginNumber /\ plugin # 0 /\ \A q \in ProcessNumber : Alive(q) => q = p
      BY <1>1, AliveHas
<1>3. \A q \in ProcessNumber : pstate[q] = "connected" => announced[q] # Component
      BY <1>1, <1>2 DEF Alive
<1>4. \A r \in Request : op[r] # "unloading" /\ ~Served
      BY <1>3 DEF LifeInv, Requests, Stands, Unloads, Served
<1>5. /\ UNCHANGED <<cached, manifest, target, waiting, plugin, plugins, restart, pendingRestart, restarting, process, ws,
                     moved, pstate, owner, asked>>
      BY DEF AdapterAdded, settingVars, serverVars, restartVars
<1>6. op' = op
      <2>1. op \in [Request -> {"new", "saving", "reading", "writing", "config", "starting",
                         "unloading", "hung", "killing", "done"}]
            BY DEF TypeOK
      <2> QED BY <1>4, <2>1 DEF AdapterAdded
<1>7. \A q \in ProcessNumber : Alive(q)' = Alive(q)
      BY <1>5 DEF Alive
<1>8. OneBusy'
      BY <1>6 DEF LifeInv, OneBusy, Busy
<1>9. Live'
      BY <1>5, <1>6, <1>7 DEF LifeInv, Live
<1>10. Restarts'
       BY <1>5, <1>6, <1>7 DEF LifeInv, Restarts
<1>11. ManagedIsLoaded'
       <2>1. CASE UNCHANGED <<adapters, managed>>
             BY <1>5, <2>1 DEF LifeInv, ManagedIsLoaded
       <2>2. CASE adapters' = [adapters EXCEPT ![plugin][c] = "loaded"] /\ managed' = managed \union {c}
             <3>1. \A d \in Component : adapters'[plugin][d] = IF d = c THEN "loaded" ELSE adapters[plugin][d]
                   BY ZenonT(60), <1>2, <2>2, AdapterPut
             <3>2. managed \subseteq Component
                   BY DEF TypeOK
             <3> QED BY <1>2, <1>5, <2>2, <3>1, <3>2 DEF LifeInv, ManagedIsLoaded
       <2> QED BY <2>1, <2>2 DEF AdapterAdded
<1>12. \A r \in Request : Stands(r)'
       BY <1>4, <1>5, <1>6, <1>7 DEF LifeInv, Requests, Stands
<1>13. Requests'
       BY <1>5, <1>6, <1>12 DEF LifeInv, Requests
<1> QED BY <1>8, <1>9, <1>10, <1>11, <1>13 DEF LifeInv

\* An adapter is unloaded: the last one asks the plugin to unload.
LEMMA AdapterUnloadedSafe ==
  ASSUME TypeOK, LifeInv, NEW p \in ProcessNumber, NEW c \in Component, AdapterUnloaded(p, c) PROVE LifeInv'
<1>1. Alive(p) /\ pstate[p] = "connected" /\ c \in asked[p] /\ c # "plugin"
      BY ComponentAssumption DEF AdapterUnloaded, Alive
<1>2. /\ plugin \in PluginNumber /\ plugin # 0 /\ \A q \in ProcessNumber : Alive(q) => q = p
      /\ \A g \in PluginNumber : pendingRestart[g] # "armed" /\ ~restarting[g]
      BY <1>1, AliveHas
<1>3. PICK r \in Request : op[r] = "unloading"
      BY <1>1 DEF LifeInv, Live
<1>4. Unloads(r) /\ r # Boot /\ r \notin Enable /\ \A q \in Request : q # r => op[q] \in {"new", "done"}
      BY <1>3 DEF LifeInv, Requests, Stands, OneBusy, Busy
<1>5. /\ Components(plugin) # {} /\ asked[p] = Components(plugin) /\ waiting[r] = Components(plugin)
      /\ target[r] = plugin /\ managed = {} /\ ws[plugin] = p
      BY <1>1, <1>4 DEF Unloads, LifeInv, Live
<1>6. c \in Components(plugin) /\ adapters[plugin][c] = "unloading"
      BY <1>1, <1>4, <1>5 DEF Unloads, Components
<1>7. /\ adapters' = [adapters EXCEPT ![plugin][c] = "absent"]
      /\ UNCHANGED <<cached, manifest, target, plugin, plugins, pendingRestart, restarting, process, ws, managed, pstate,
                     owner, announced>>
      BY <1>2, <1>6 DEF AdapterUnloaded, settingVars, serverVars
<1>8. \A d \in Component : adapters'[plugin][d] = IF d = c THEN "absent" ELSE adapters[plugin][d]
      BY ZenonT(60), <1>2, <1>7, AdapterPut
<1>9. /\ Components(plugin)' = Components(plugin) \ {c}
      /\ \A d \in Component : adapters'[plugin][d] \in {"absent", "unloading"}
      BY <1>4, <1>7, <1>8 DEF Components, Unloads
<1>10. \A q \in ProcessNumber : Alive(q)' = Alive(q)
       BY <1>7 DEF Alive
<1>11. \A q \in ProcessNumber : pstate[q] = "leaving" => owner[q] \in PluginNumber /\ owner[q] # plugin /\ ~restart[owner[q]]
       <2>1. 1 .. plugins \subseteq PluginNumber
             BY BoundsAssumption DEF TypeOK, PluginNumber
       <2> QED BY <2>1 DEF LifeInv, Live
<1>12. Restarts'
       BY <1>2, <1>7 DEF Restarts
<1>13. ManagedIsLoaded'
       BY <1>5, <1>7 DEF ManagedIsLoaded
<1>14. /\ op' = op
       /\ \A q \in ProcessNumber : pstate[q] = "leaving" => ~restart'[owner[q]]
       /\ \A q \in ProcessNumber : q # p => asked'[q] = asked[q]
       /\ asked'[p] = IF Components(plugin)' = {} THEN {"plugin"} ELSE Components(plugin)'
       /\ waiting'[r] = IF Components(plugin)' = {} THEN moved'[plugin] ELSE Components(plugin)'
       /\ Components(plugin)' = {} => ~restart'[plugin]
       <2>1. CASE Components(plugin) = {c}
             <3>1. /\ restart' = [restart EXCEPT ![plugin] = FALSE]
                   /\ moved' = [moved EXCEPT ![plugin] = {c}]
                   /\ asked' = [q \in ProcessNumber |->
                       (IF q = p THEN asked[q] \ {c} ELSE asked[q]) \union
                       (IF q = p /\ pstate[q] = "connected" THEN {"plugin"} ELSE {})]
                   /\ UNCHANGED <<waiting, op>>
                   BY <1>2, <1>5, <1>6, <2>1 DEF AdapterUnloaded
             <3>2. Components(plugin)' = {}
                   BY <1>9, <2>1
             <3>3. asked'[p] = {"plugin"} /\ \A q \in ProcessNumber : q # p => asked'[q] = asked[q]
                   BY <1>1, <1>5, <2>1, <3>1
             <3>4. moved'[plugin] = {c} /\ ~restart'[plugin] /\ \A g \in PluginNumber : g # plugin => restart'[g] = restart[g]
                   BY <1>2, <3>1 DEF TypeOK
             <3>5. \A q \in ProcessNumber : pstate[q] = "leaving" => ~restart'[owner[q]]
                   BY <1>11, <3>4
             <3> QED BY <1>5, <2>1, <3>1, <3>2, <3>3, <3>4, <3>5
       <2>2. CASE Components(plugin) # {c}
             <3>1. /\ asked' = [asked EXCEPT ![p] = @ \ {c}]
                   /\ waiting' = Resolved(plugin, {c})
                   /\ op' = AfterResolved(plugin, {c})
                   /\ UNCHANGED <<restart, moved>>
                   BY <1>2, <1>6, <2>2 DEF AdapterUnloaded
             <3>2. Components(plugin)' # {}
                   BY <1>6, <1>9, <2>2
             <3>3. asked'[p] = asked[p] \ {c} /\ \A q \in ProcessNumber : q # p => asked'[q] = asked[q]
                   BY <3>1 DEF TypeOK
             <3>4. Resolved(plugin, {c})[r] = Components(plugin)' /\ waiting'[r] = Components(plugin)'
                   BY <1>5, <1>9, <3>1 DEF Resolved
             <3>5. ASSUME NEW q \in Request PROVE AfterResolved(plugin, {c})[q] = op[q]
                   <4>1. op[q] = "unloading" => q = r
                         BY <1>4
                   <4> QED BY <3>2, <3>4, <4>1 DEF AfterResolved
             <3>6. op' = op
                   <4>1. op = [q \in Request |-> op[q]]
                         BY DEF TypeOK
                   <4>2. AfterResolved(plugin, {c}) = [q \in Request |-> AfterResolved(plugin, {c})[q]]
                         BY DEF AfterResolved
                   <4> QED BY <3>1, <3>5, <4>1, <4>2
             <3> QED BY <1>5, <1>9, <1>11, <3>1, <3>2, <3>3, <3>4, <3>6
       <2> QED BY <2>1, <2>2
<1>15. OneBusy'
       BY <1>14 DEF LifeInv, OneBusy, Busy
<1>16. Live'
       <2>1. \E q \in Request : op'[q] = "unloading"
             BY <1>3, <1>14
       <2>2. \A q \in ProcessNumber : pstate[q] = "none" => q # p
             BY <1>1
       <2> QED BY <1>7, <1>10, <1>14, <2>1, <2>2 DEF LifeInv, Live
<1>17. Unloads(r)'
       <2>1. \A q \in ProcessNumber : pstate[q] = "connected" => q = p
             BY <1>2 DEF Alive
       <2>2. \E q \in ProcessNumber : pstate'[q] = "connected" /\ announced'[q] = Component
             BY <1>4, <1>7 DEF Unloads
       <2>3. \A q \in ProcessNumber : pstate'[q] = "connected" =>
               asked'[q] = IF Components(plugin)' = {} THEN {"plugin"} ELSE Components(plugin)'
             BY <1>7, <1>14, <2>1
       <2> QED BY <1>2, <1>5, <1>7, <1>9, <1>14, <2>2, <2>3 DEF Unloads
<1>18. ASSUME NEW q \in Request PROVE Stands(q)'
       <2>1. Stands(q)
             BY DEF LifeInv, Requests
       <2>2. CASE q = r
             <3>1. op'[q] = "unloading"
                   BY <1>3, <1>14, <2>2
             <3> QED BY <1>4, <1>17, <2>2, <3>1 DEF Stands
       <2>3. CASE q # r
             <3>1. op'[q] = op[q] /\ op[q] \in {"new", "done"}
                   BY <1>4, <1>14, <2>3
             <3> QED BY <2>1, <3>1 DEF Stands
       <2> QED BY <2>2, <2>3
<1>19. Requests'
       BY <1>7, <1>14, <1>18 DEF LifeInv, Requests
<1> QED BY <1>12, <1>13, <1>15, <1>16, <1>19 DEF LifeInv

\* The plugin is unloaded, and its process leaves.
LEMMA PluginUnloadedSafe ==
  ASSUME TypeOK, LifeInv, NEW p \in ProcessNumber, PluginUnloaded(p) PROVE LifeInv'
<1>1. Alive(p) /\ pstate[p] = "connected" /\ "plugin" \in asked[p]
      BY DEF PluginUnloaded, Alive
<1>2. /\ plugin \in PluginNumber /\ plugin # 0 /\ \A q \in ProcessNumber : Alive(q) => q = p
      /\ owner[p] = plugin
      /\ \A g \in PluginNumber : pendingRestart[g] # "armed" /\ ~restarting[g]
      BY <1>1, AliveHas
<1>3. PICK r \in Request : op[r] = "unloading"
      BY <1>1 DEF LifeInv, Live
<1>4. Unloads(r) /\ r # Boot /\ r \notin Enable /\ \A q \in Request : q # r => op[q] \in {"new", "done"}
      BY <1>3 DEF LifeInv, Requests, Stands, OneBusy, Busy
<1>5. Components(plugin) = {}
      <2>1. "plugin" \notin Components(plugin)
            BY ComponentAssumption DEF Components
      <2> QED BY <1>1, <1>4, <2>1 DEF Unloads
<1>6. target[r] = plugin /\ waiting[r] = moved[plugin] /\ managed = {} /\ ~restart[plugin]
      BY <1>4, <1>5 DEF Unloads
<1>7. /\ plugin' = 0
      /\ pstate' = [pstate EXCEPT ![p] = "leaving"]
      /\ restart' = [restart EXCEPT ![plugin] = FALSE]
      /\ pendingRestart' = [pendingRestart EXCEPT ![plugin] = IF @ = "none" THEN @ ELSE "stale"]
      /\ waiting' = Resolved(plugin, moved[plugin])
      /\ op' = AfterResolved(plugin, moved[plugin])
      /\ UNCHANGED <<cached, manifest, target, plugins, restarting, managed, owner, asked, announced>>
      BY <1>2 DEF PluginUnloaded, settingVars
<1>8. Resolved(plugin, moved[plugin])[r] = {}
      BY <1>6 DEF Resolved
<1>9. op'[r] = "killing" /\ \A q \in Request : q # r => op'[q] = op[q]
      BY <1>3, <1>4, <1>7, <1>8 DEF AfterResolved
<1>10. \A q \in ProcessNumber : pstate'[q] = IF q = p THEN "leaving" ELSE pstate[q]
       BY <1>7 DEF TypeOK
<1>11. \A q \in ProcessNumber : ~Alive(q)'
       BY <1>2, <1>10 DEF Alive
<1>12. \A g \in PluginNumber : pendingRestart'[g] # "armed" /\ ~restarting'[g]
       BY <1>2, <1>7 DEF TypeOK
<1>13. OneBusy'
       BY <1>4, <1>9 DEF OneBusy, Busy
<1>14. Live'
       <2>1. 1 .. plugins \subseteq PluginNumber /\ 0 \notin 1 .. plugins
             BY BoundsAssumption DEF TypeOK, PluginNumber
       <2>2. \A g \in PluginNumber : restart'[g] = (g # plugin /\ restart[g])
             BY <1>7 DEF TypeOK
       <2>3. ASSUME NEW q \in ProcessNumber
             PROVE  /\ pstate'[q] # "none" => owner[q] \in 1 .. plugins
                    /\ pstate'[q] = "none" => asked[q] = {}
                    /\ pstate'[q] # "connected"
                    /\ pstate'[q] = "leaving" => owner[q] # 0 /\ ~restart'[owner[q]]
             <3>1. /\ pstate[q] # "none" => owner[q] \in 1 .. plugins
                   /\ pstate[q] = "none" => asked[q] = {}
                   /\ pstate[q] = "leaving" => ~restart[owner[q]]
                   BY DEF LifeInv, Live
             <3>2. pstate'[q] # "connected"
                   BY <1>11 DEF Alive
             <3>3. CASE q = p
                   BY <1>1, <1>2, <1>10, <2>2, <3>1, <3>2, <3>3
             <3>4. CASE q # p
                   BY <1>10, <2>1, <2>2, <3>1, <3>2, <3>4
             <3> QED BY <3>3, <3>4
       <2> QED BY <1>7, <1>11, <2>3 DEF Live
<1>15. Restarts'
       BY <1>12 DEF Restarts
<1>16. ManagedIsLoaded'
       BY <1>6, <1>7 DEF ManagedIsLoaded
<1>17. ASSUME NEW q \in Request PROVE Stands(q)'
       <2>1. Stands(q)
             BY DEF LifeInv, Requests
       <2>2. CASE q = r
             BY <1>4, <1>7, <1>9, <2>2 DEF Stands
       <2>3. CASE q # r
             <3>1. op'[q] = op[q] /\ op[q] \in {"new", "done"}
                   BY <1>4, <1>9, <2>3
             <3> QED BY <2>1, <3>1 DEF Stands
       <2> QED BY <2>2, <2>3
<1>18. Requests'
       BY <1>7, <1>17 DEF LifeInv, Requests, TypeOK
<1> QED BY <1>13, <1>14, <1>15, <1>16, <1>18 DEF LifeInv

\* A process that left is gone: its plugin is unregistered, and starts none again.
LEMMA ExitSafe == ASSUME TypeOK, LifeInv, NEW p \in ProcessNumber, Exit(p) PROVE LifeInv'
<1>1. 1 .. plugins \subseteq PluginNumber
      BY BoundsAssumption DEF TypeOK, PluginNumber
<1>2. pstate[p] = "leaving" /\ owner[p] \in PluginNumber /\ owner[p] # plugin /\ ~restart[owner[p]]
      BY <1>1 DEF Exit, LifeInv, Live
<1>3. /\ process' = [process EXCEPT ![owner[p]] = 0]
      /\ pstate' = [pstate EXCEPT ![p] = "dead"]
      /\ UNCHANGED <<op, cached, manifest, target, waiting, plugin, plugins, restart, pendingRestart, restarting, ws,
                     adapters, moved, managed, owner, asked, announced>>
      BY <1>2 DEF Exit, OnExit, settingVars, requestVars, serverVars, adapterVars
<1>4. \A q \in ProcessNumber : pstate'[q] = IF q = p THEN "dead" ELSE pstate[q]
      BY <1>3 DEF TypeOK
<1>5. \A q \in ProcessNumber : Alive(q)' = Alive(q)
      BY <1>2, <1>4 DEF Alive
<1>6. process'[plugin] = process[plugin]
      BY <1>2, <1>3 DEF TypeOK
<1>7. OneBusy' /\ ManagedIsLoaded'
      BY <1>3 DEF LifeInv, OneBusy, Busy, ManagedIsLoaded
<1>8. Live'
      BY <1>2, <1>3, <1>4, <1>5, <1>6 DEF LifeInv, Live
<1>9. Restarts'
      BY <1>3, <1>5 DEF LifeInv, Restarts
<1>10. Requests'
       <2>1. \A q \in ProcessNumber : pstate'[q] = "connected" <=> pstate[q] = "connected"
             BY <1>2, <1>4
       <2> QED BY <1>3, <1>5, <2>1, StandsStays
<1> QED BY <1>7, <1>8, <1>9, <1>10 DEF LifeInv

\* While a process lives and may end of itself, no request is in an await.
LEMMA AliveIdle ==
  ASSUME Settled, TypeOK, LifeInv, NEW p \in ProcessNumber, Alive(p), MayCrash
  PROVE  \A r \in Request : op[r] \in {"new", "done"}
<1>1. plugin # 0
      BY AliveHas
<1>2. Stands(Boot) /\ Boot \in Request
      BY DEF LifeInv, Requests, Request
<1>3. op[Boot] \in {"new", "saving", "reading", "writing", "config", "starting",
                    "unloading", "hung", "killing", "done"}
      BY <1>2 DEF TypeOK
<1>4. op[Boot] = "done"
      BY <1>1, <1>2, <1>3 DEF Stands
<1> QED BY <1>4 DEF Settled, MayCrash

\* The only live process ends of itself.
LEMMA EndSafe ==
  ASSUME TypeOK, LifeInv, NEW p \in ProcessNumber, Alive(p),
         \A r \in Request : op[r] \in {"new", "done"},
         NEW s \in {"dead", "quit"}, pstate' = [pstate EXCEPT ![p] = s],
         \A g \in PluginNumber : g # plugin => /\ restart'[g] = restart[g]
                                               /\ pendingRestart'[g] = pendingRestart[g]
                                               /\ restarting'[g] = restarting[g],
         ~(pendingRestart'[plugin] = "armed" /\ restarting'[plugin]),
         pendingRestart'[plugin] = "armed" \/ restarting'[plugin] => restart'[plugin],
         UNCHANGED <<op, cached, manifest, target, waiting, plugin, plugins, ws, adapters, moved, managed, owner,
                     asked, announced>>
  PROVE  LifeInv'
<1>1. /\ plugin \in PluginNumber /\ plugin # 0 /\ \A q \in ProcessNumber : Alive(q) => q = p
      /\ \A g \in PluginNumber : pendingRestart[g] # "armed" /\ ~restarting[g]
      BY AliveHas
<1>2. \A q \in ProcessNumber : pstate'[q] = IF q = p THEN s ELSE pstate[q]
      BY DEF TypeOK
<1>3. \A q \in ProcessNumber : ~Alive(q)' /\ pstate'[q] # "connected"
      BY <1>1, <1>2 DEF Alive
<1>4. OneBusy' /\ ManagedIsLoaded'
      BY DEF LifeInv, OneBusy, Busy, ManagedIsLoaded
<1>5. Live'
      <2>1. 1 .. plugins \subseteq PluginNumber
            BY BoundsAssumption DEF TypeOK, PluginNumber
      <2>2. ASSUME NEW q \in ProcessNumber
            PROVE  /\ pstate'[q] # "none" => owner[q] \in 1 .. plugins
                   /\ pstate'[q] = "none" => asked[q] = {}
                   /\ pstate'[q] = "leaving" => owner[q] # plugin /\ ~restart'[owner[q]]
            <3>1. /\ pstate[q] # "none" => owner[q] \in 1 .. plugins
                  /\ pstate[q] = "none" => asked[q] = {}
                  /\ pstate[q] = "leaving" => owner[q] # plugin /\ ~restart[owner[q]]
                  BY DEF LifeInv, Live
            <3>2. pstate[p] # "none" /\ pstate'[p] # "none" /\ pstate'[p] # "leaving"
                  BY <1>2 DEF Alive
            <3>3. pstate'[q] = "leaving" => pstate[q] = "leaving" /\ owner[q] \in PluginNumber
                  BY <1>2, <2>1, <3>1, <3>2
            <3>4. pstate'[q] = "none" <=> pstate[q] = "none"
                  BY <1>2, <3>2
            <3> QED BY <3>1, <3>3, <3>4
      <2> QED BY <1>3, <2>2 DEF Live
<1>6. Restarts'
      <2> SUFFICES ASSUME NEW g \in PluginNumber
                   PROVE  /\ ~(pendingRestart'[g] = "armed" /\ restarting'[g])
                          /\ pendingRestart'[g] = "armed" \/ restarting'[g] => g = plugin /\ restart'[g]
          BY <1>3 DEF Restarts
      <2> QED BY <1>1
<1>7. Requests'
      <2>1. \A q \in Request : Stands(q) => Stands(q)'
            BY DEF Stands
      <2> QED BY <2>1 DEF LifeInv, Requests
<1> QED BY <1>4, <1>5, <1>6, <1>7 DEF LifeInv

\* A process crashes, asks for no restart, or was not spawned.
LEMMA CrashSafe ==
  ASSUME Settled, TypeOK, LifeInv, NEW p \in ProcessNumber, Crash(p) \/ SpawnError(p) PROVE LifeInv'
<1>1. Alive(p) /\ MayCrash
      BY DEF Crash, SpawnError, Alive
<1>2. \A r \in Request : op[r] \in {"new", "done"}
      BY <1>1, AliveIdle
<1>3. /\ plugin \in PluginNumber /\ owner[p] = plugin
      /\ pendingRestart[plugin] # "armed" /\ ~restarting[plugin]
      BY <1>1, AliveHas
<1>4. UNCHANGED <<op, cached, manifest, target, waiting, plugin, plugins, ws, adapters, moved, managed, owner, asked,
                  announced>>
      BY DEF Crash, SpawnError, settingVars, requestVars, serverVars, adapterVars
<1>5. PICK s \in {"dead", "quit"} : pstate' = [pstate EXCEPT ![p] = s]
      BY DEF Crash, SpawnError
<1>6. /\ restart' = restart \/ restart' = [restart EXCEPT ![plugin] = FALSE]
      /\ \/ UNCHANGED <<pendingRestart, restarting>>
         \/ restart'[plugin] /\ UNCHANGED restarting /\ pendingRestart' = [pendingRestart EXCEPT ![plugin] = "armed"]
         \/ restart'[plugin] /\ UNCHANGED pendingRestart /\ restarting' = [restarting EXCEPT ![plugin] = TRUE]
      BY <1>3 DEF Crash, SpawnError, OnExit
<1>7. \A g \in PluginNumber : g # plugin => /\ restart'[g] = restart[g]
                                            /\ pendingRestart'[g] = pendingRestart[g]
                                            /\ restarting'[g] = restarting[g]
      BY <1>6 DEF TypeOK
<1>8. /\ ~(pendingRestart'[plugin] = "armed" /\ restarting'[plugin])
      /\ pendingRestart'[plugin] = "armed" \/ restarting'[plugin] => restart'[plugin]
      BY <1>3, <1>6
<1> QED BY <1>1, <1>2, <1>4, <1>5, <1>7, <1>8, EndSafe

-----------------------------------------------------------------------------
\* Every step of a system with settled clients keeps the invariant.
LEMMA LifeInvKept == ASSUME Settled, TypeOK, LifeInv, [Next]_vars PROVE LifeInv'
<1>1. ASSUME NEW r \in Request, Begin(r) \/ RequestStep(r) PROVE LifeInv'
      <2>1. CASE LoadPlugin(r)
            BY <2>1, QuietSafe, LoadSafe
      <2>2. CASE ~LoadPlugin(r)
            BY <1>1, <2>2, BeginSafe, QuietSafe, StartSafe, UnloadSafe DEF RequestStep
      <2> QED BY <2>1, <2>2
<1>2. ASSUME NEW g \in PluginNumber, PluginStep(g) PROVE LifeInv'
      BY <1>2, TimerSafe, AgainSafe DEF PluginStep
<1>3. ASSUME NEW p \in ProcessNumber, MessageStep(p) \/ Crash(p) \/ SpawnError(p) PROVE LifeInv'
      BY <1>3, RegisterSafe, AdapterAddedSafe, AdapterUnloadedSafe, PluginUnloadedSafe, ExitSafe, CrashSafe
      DEF MessageStep
<1>4. CASE UNCHANGED vars
      <2>1. UNCHANGED <<op, cached, manifest, target, waiting, plugin, plugins, restart, pendingRestart, restarting,
                        process, ws, adapters, moved, managed, pstate, owner, asked, announced>>
            BY <1>4 DEF vars, settingVars, requestVars, serverVars, restartVars, adapterVars, processVars
      <2>2. OneBusy' /\ Live' /\ Restarts' /\ ManagedIsLoaded'
            BY <2>1 DEF LifeInv, OneBusy, Busy, Live, Restarts, ManagedIsLoaded, Alive
      <2>3. Requests'
            <3>1. \A q \in ProcessNumber : Alive(q)' = Alive(q)
                  BY <2>1 DEF Alive
            <3> QED BY <2>1, <3>1, StandsStays
      <2> QED BY <2>2, <2>3 DEF LifeInv
<1> QED BY <1>1, <1>2, <1>3, <1>4 DEF Next

\* With settled clients, and an add-on that has adapters, what runs is known to the
\* Plugin object that started it, of which one is registered, and what is offered is
\* loaded: no crash, restart timer, reload or late exit puts a process beside another.
THEOREM SettledKnows == Spec => [](Settled => KnownAndLoaded)
<1> DEFINE Inv == Settled => TypeOK /\ LifeInv
<1>1. Init => Inv
      BY TypesStart, InvStart
<1>2. Inv /\ [Next]_vars => Inv'
      BY TypesKept, LifeInvKept DEF Settled
<1>3. Inv => (Settled => KnownAndLoaded)
      BY DEF KnownAndLoaded, ProcessKnown, LifeInv, Live
<1> HIDE DEF Inv
<1> QED BY <1>1, <1>2, <1>3, PTL DEF Spec
=============================================================================
