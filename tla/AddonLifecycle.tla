--------------------------- MODULE AddonLifecycle ---------------------------
(***************************************************************************)
(* The life of one add-on: AddonManager.enableAddon, disableAddon,         *)
(* loadAddon and unloadAddon, the Plugin objects PluginServer keeps for    *)
(* the package, and the processes they spawn.                              *)
(*                                                                         *)
(* Each action is one callback: the code between two awaits, or a handler  *)
(* of a message, of a timer or of a process event.  A message of a process *)
(* is handled in the step that sends it; the processes take their steps in *)
(* any order, so it is handled late as often as not.                       *)
(***************************************************************************)
EXTENDS Naturals

CONSTANTS
  Boot,          \* the load of the add-on when the gateway starts
  Enable,        \* requests to enable the add-on
  Disable,       \* requests to disable it
  Reconfigure,   \* requests to change its configuration, which reload it
  Component,     \* ids of the adapters the add-on's process announces
  MaxPlugins,    \* bound: Plugin objects created
  MaxProcesses,  \* bound: processes spawned
  MaxCrashes,    \* bound: processes that end without having been told to
  Pace           \* when clients make requests: see MayBegin

ASSUME BoundsAssumption == {MaxPlugins, MaxProcesses, MaxCrashes} \subseteq Nat
ASSUME PaceAssumption == Pace \in {"quick", "answered", "settled"}
ASSUME RequestsAssumption ==
  /\ Boot \notin Enable \union Disable \union Reconfigure
  /\ Enable \intersect (Disable \union Reconfigure) = {} /\ Disable \intersect Reconfigure = {}
ASSUME ComponentAssumption == "plugin" \notin Component

VARIABLES
  stored,      \* the `enabled` of the row addons.<id> of the settings
  cached,      \* the `enabled` of the entry of installedAddons
  op,          \* per request: the await it is in
  manifest,    \* per request: manifest.enabled in loadAddon
  target,      \* per request: the Plugin object it starts or unloads
  waiting,     \* per request: the components whose unload promise it awaits
  plugin,      \* the object in PluginServer.plugins, 0 when there is none
  plugins,     \* the number of Plugin objects created
  restart, unloading,  \* fields of each Plugin object
  pendingRestart,      \* "none", "armed", or "stale": not null, but not armed
  restarting,          \* Plugin.start, called for a restart, awaits the settings
  process,     \* Plugin.process.p
  ws,          \* the process at the other end of Plugin.ws
  adapters,    \* Plugin.adapters: per component "absent", "loaded", "unloading"
  moved,       \* components whose promise is in Plugin.unloadCompletedPromise
  managed,     \* AddonManager.adapters
  pstate,      \* the state of each process
  owner,       \* the Plugin object whose exit handler the process has
  asked,       \* requests the process has received and not answered
  announced,   \* adapters the process has announced
  crashes      \* the number of crashes so far

settingVars == <<stored, cached>>
requestVars == <<op, manifest, target, waiting>>
serverVars == <<plugin, plugins>>
restartVars == <<restart, unloading, pendingRestart, restarting>>
adapterVars == <<adapters, moved, managed>>
processVars == <<pstate, owner, asked, announced, crashes>>
vars == <<settingVars, requestVars, serverVars, restartVars, process, ws,
          adapterVars, processVars>>

Request == {Boot} \union Enable \union Disable \union Reconfigure
PluginNumber == 1 .. MaxPlugins
ProcessNumber == 1 .. MaxProcesses

\* What the model keeps of AddonManager, PluginServer and Plugin, and its range.
TypeOK ==
  /\ stored \in BOOLEAN /\ cached \in BOOLEAN
  /\ op \in [Request -> {"new", "saving", "reading", "writing", "config", "starting",
                         "unloading", "hung", "killing", "done"}]
  /\ manifest \in [Request -> BOOLEAN]
  /\ target \in [Request -> 0 .. MaxPlugins]
  /\ waiting \in [Request -> SUBSET Component]
  /\ plugin \in 0 .. MaxPlugins /\ plugins \in 0 .. MaxPlugins
  /\ restart \in [PluginNumber -> BOOLEAN] /\ unloading \in [PluginNumber -> BOOLEAN]
  /\ pendingRestart \in [PluginNumber -> {"none", "armed", "stale"}]
  /\ restarting \in [PluginNumber -> BOOLEAN]
  /\ process \in [PluginNumber -> 0 .. MaxProcesses]
  /\ ws \in [PluginNumber -> 0 .. MaxProcesses]
  /\ adapters \in [PluginNumber -> [Component -> {"absent", "loaded", "unloading"}]]
  /\ moved \in [PluginNumber -> SUBSET Component]
  /\ managed \in SUBSET Component
  /\ pstate \in [ProcessNumber -> {"none", "spawned", "connected", "leaving", "dead", "quit"}]
  /\ owner \in [ProcessNumber -> 0 .. MaxPlugins]
  /\ asked \in [ProcessNumber -> SUBSET (Component \union {"plugin"})]
  /\ announced \in [ProcessNumber -> SUBSET Component]
  /\ crashes \in 0 .. MaxCrashes

Init ==
  /\ stored = TRUE /\ cached = TRUE
  /\ op = [r \in Request |-> IF r = Boot THEN "reading" ELSE "new"]
  /\ manifest = [r \in Request |-> FALSE]
  /\ target = [r \in Request |-> 0]
  /\ waiting = [r \in Request |-> {}]
  /\ plugin = 0 /\ plugins = 0
  /\ restart = [g \in PluginNumber |-> TRUE]
  /\ unloading = [g \in PluginNumber |-> FALSE]
  /\ pendingRestart = [g \in PluginNumber |-> "none"]
  /\ restarting = [g \in PluginNumber |-> FALSE]
  /\ process = [g \in PluginNumber |-> 0]
  /\ ws = [g \in PluginNumber |-> 0]
  /\ adapters = [g \in PluginNumber |-> [c \in Component |-> "absent"]]
  /\ moved = [g \in PluginNumber |-> {}]
  /\ managed = {}
  /\ pstate = [p \in ProcessNumber |-> "none"]
  /\ owner = [p \in ProcessNumber |-> 0]
  /\ asked = [p \in ProcessNumber |-> {}]
  /\ announced = [p \in ProcessNumber |-> {}]
  /\ crashes = 0

-----------------------------------------------------------------------------
(* Helpers.                                                                *)

Alive(p) == pstate[p] \in {"spawned", "connected"}
Components(g) == {c \in Component : adapters[g][c] # "absent"}

\* PluginServer.registerPlugin: the object the package has, or a new one.
Registered == IF plugin # 0 THEN plugin ELSE plugins + 1
RegisterPlugin ==
  /\ Registered \in PluginNumber
  /\ plugin' = Registered
  /\ plugins' = IF plugin # 0 THEN plugins ELSE plugins + 1

\* Plugin.sendMsg of the requests in msgs: lost unless the process is connected.
\* A process passes over a request for an adapter it has not announced.
Send(g, msgs) ==
  asked' = [p \in ProcessNumber |->
              IF p = ws[g] /\ pstate[p] = "connected"
              THEN asked[p] \union (msgs \intersect (announced[p] \union {"plugin"}))
              ELSE asked[p]]

\* Settling the unload promises of the components in cs of object g.
Resolved(g, cs) ==
  [r \in Request |-> IF target[r] = g THEN waiting[r] \ cs ELSE waiting[r]]
AfterResolved(g, cs) ==
  [r \in Request |-> IF op[r] = "unloading" /\ Resolved(g, cs)[r] = {} THEN "killing" ELSE op[r]]

-----------------------------------------------------------------------------
(* Requests of AddonManager.                                               *)

\* The add-on has all its adapters in AddonManager, announced by a connected process.
Served ==
  /\ managed = Component
  /\ plugin # 0
  /\ \E p \in ProcessNumber :
       ws[plugin] = p /\ pstate[p] = "connected" /\ announced[p] = Component

\* Clients come when the add-ons are loaded, and toggle what they see. A quick one
\* does not wait for the answer to the request before; one that has its answer may
\* still ask before the add-on is up; a settled one asks when it is, and has its
\* answer before anything else goes wrong.
MayBegin(r) ==
  /\ op[r] = "new"
  /\ op[Boot] = "done"
  /\ r \in Enable <=> ~cached
  /\ Pace # "quick" => \A q \in Request \ {r} : op[q] \in {"new", "done"}
  /\ Pace = "settled" /\ r \notin Enable => Served

\* enableAddon, disableAddon and PUT /addons/:id/config up to the await of
\* Settings.setSetting.
Begin(r) ==
  /\ MayBegin(r)
  /\ cached' = (r \notin Disable)
  /\ op' = [op EXCEPT ![r] = "saving"]
  /\ UNCHANGED <<stored, manifest, target, waiting, serverVars, restartVars, process, ws,
                 adapterVars, processVars>>

\* The setting is saved; loadAddon begins.
EnableSaved(r) ==
  /\ r \in Enable
  /\ op[r] = "saving"
  /\ stored' = TRUE
  /\ op' = [op EXCEPT ![r] = "reading"]
  /\ UNCHANGED <<cached, manifest, target, waiting, serverVars, restartVars, process, ws,
                 adapterVars, processVars>>

\* loadAddon has read the saved settings into the manifest.
LoadRead(r) ==
  /\ op[r] = "reading"
  /\ manifest' = [manifest EXCEPT ![r] = stored]
  /\ op' = [op EXCEPT ![r] = "writing"]
  /\ UNCHANGED <<settingVars, target, waiting, serverVars, restartVars, process, ws,
                 adapterVars, processVars>>

\* loadAddon has written the manifest back, and remembers it.
LoadWrite(r) ==
  /\ op[r] = "writing"
  /\ stored' = manifest[r]
  /\ cached' = manifest[r]
  /\ op' = [op EXCEPT ![r] = "config"]
  /\ UNCHANGED <<manifest, target, waiting, serverVars, restartVars, process, ws,
                 adapterVars, processVars>>

\* loadAddon has its config: an add-on that is not enabled is an error, for
\* another the plugin is registered and Plugin.start awaits the settings.
LoadPlugin(r) ==
  /\ op[r] = "config"
  /\ IF manifest[r]
     THEN /\ RegisterPlugin
          /\ target' = [target EXCEPT ![r] = Registered]
          /\ op' = [op EXCEPT ![r] = "starting"]
     ELSE /\ op' = [op EXCEPT ![r] = "done"]
          /\ UNCHANGED <<target, serverVars>>
  /\ UNCHANGED <<settingVars, manifest, waiting, restartVars, process, ws, adapterVars,
                 processVars>>

\* The rest of Plugin.start: spawn, unless the add-on is not enabled.
Spawn(g) ==
  LET new == CHOOSE p \in ProcessNumber : pstate[p] = "none" IN
  IF stored
  THEN /\ \E p \in ProcessNumber : pstate[p] = "none"
       /\ restart' = [restart EXCEPT ![g] = TRUE]
       /\ process' = [process EXCEPT ![g] = new]
       /\ pstate' = [pstate EXCEPT ![new] = "spawned"]
       /\ owner' = [owner EXCEPT ![new] = g]
  ELSE /\ restart' = [restart EXCEPT ![g] = FALSE]
       /\ process' = [process EXCEPT ![g] = 0]
       /\ UNCHANGED <<pstate, owner>>

StartFor(r) ==
  /\ op[r] = "starting"
  /\ Spawn(target[r])
  /\ op' = [op EXCEPT ![r] = "done"]
  /\ UNCHANGED <<settingVars, manifest, target, waiting, serverVars, unloading,
                 pendingRestart, restarting, ws, adapterVars, asked, announced, crashes>>

\* Plugin.unloadComponents for request r: every adapter leaves AddonManager and
\* is asked to unload, once; without adapters the plugin is asked to unload.
UnloadComponents(r, g) ==
  LET fresh == {c \in Component : adapters[g][c] = "loaded"} IN
  /\ managed' = managed \ Components(g)
  /\ adapters' = [adapters EXCEPT ![g] = [c \in Component |->
                    IF c \in fresh THEN "unloading" ELSE @[c]]]
  /\ waiting' = [waiting EXCEPT ![r] = Components(g)]
  /\ op' = [op EXCEPT ![r] = IF Components(g) = {} THEN "killing" ELSE "unloading"]
  /\ IF Components(g) = {}
     THEN /\ restart' = [restart EXCEPT ![g] = FALSE]
          /\ unloading' = [unloading EXCEPT ![g] = TRUE]
          /\ Send(g, {"plugin"})
     ELSE /\ Send(g, fresh)
          /\ UNCHANGED <<restart, unloading>>

\* The setting is saved; unloadAddon begins. Without a plugin it is over. A change
\* of configuration unloads the add-on too, but leaves it enabled.
UnloadSaved(r) ==
  /\ r \in Disable \union Reconfigure
  /\ op[r] = "saving"
  /\ stored' = (stored /\ r \notin Disable)
  /\ target' = [target EXCEPT ![r] = plugin]
  /\ \/ /\ plugin = 0
        /\ op' = [op EXCEPT ![r] = "killing"]
        /\ UNCHANGED <<waiting, restart, unloading, adapters, managed, asked>>
     \/ /\ plugin # 0
        /\ UnloadComponents(r, plugin)
  /\ UNCHANGED <<cached, manifest, serverVars, pendingRestart, restarting, process, ws,
                 moved, pstate, owner, announced, crashes>>

\* The timer unloadAddon arms when the unload promises are settled: it kills the
\* process the Plugin object has by then. The request has waited for it: a change
\* of configuration goes on to loadAddon.
KillTimer(r) ==
  /\ op[r] = "killing"
  /\ op' = [op EXCEPT ![r] = IF r \in Reconfigure /\ cached THEN "reading" ELSE "done"]
  /\ pstate' = [p \in ProcessNumber |->
                  IF target[r] # 0 /\ p = process[target[r]] /\ Alive(p)
                  THEN "leaving" ELSE pstate[p]]
  /\ UNCHANGED <<settingVars, manifest, target, waiting, serverVars, restartVars, process, ws,
                 adapterVars, owner, asked, announced, crashes>>

-----------------------------------------------------------------------------
(* Messages of a process, handled by PluginServer.onMsg and Plugin.onMsg.  *)

\* PLUGIN_REGISTER_REQUEST
Register(p) ==
  /\ pstate[p] = "spawned"
  /\ pstate' = [pstate EXCEPT ![p] = "connected"]
  /\ RegisterPlugin
  /\ ws' = [ws EXCEPT ![Registered] = p]
  /\ UNCHANGED <<settingVars, requestVars, restartVars, process, adapterVars, owner, asked,
                 announced, crashes>>

\* ADAPTER_ADDED_NOTIFICATION: ignored while unloading, and else a fresh
\* AdapterProxy. The promise of a proxy it replaces is lost.
AdapterAdded(p, c) ==
  /\ pstate[p] = "connected"
  /\ c \notin announced[p]
  /\ announced' = [announced EXCEPT ![p] = @ \union {c}]
  /\ IF plugin = 0 \/ (plugin # 0 /\ unloading[plugin])
     THEN UNCHANGED <<adapters, managed, op>>
     ELSE /\ adapters' = [adapters EXCEPT ![plugin][c] = "loaded"]
          /\ managed' = managed \union {c}
          /\ op' = [r \in Request |->
                      IF op[r] = "unloading" /\ target[r] = plugin /\ c \in waiting[r]
                      THEN "hung" ELSE op[r]]
  /\ UNCHANGED <<settingVars, manifest, target, waiting, serverVars, restartVars, process, ws,
                 moved, pstate, owner, asked, crashes>>

\* Faulty: the last adapter does not take the plugin with it.
FaultyAdapterUnloaded(p, c) ==
  LET g == plugin IN
  /\ pstate[p] = "connected"
  /\ c \in asked[p]
  /\ g # 0
  /\ adapters[g][c] # "absent"
  /\ asked' = [asked EXCEPT ![p] = @ \ {c}]
  /\ adapters' = [adapters EXCEPT ![g][c] = "absent"]
  /\ IF Components(g) = {c}
     THEN /\ moved' = [moved EXCEPT ![g] = {c}]
          /\ UNCHANGED <<waiting, op>>
     ELSE /\ waiting' = Resolved(g, {c})
          /\ op' = AfterResolved(g, {c})
          /\ UNCHANGED moved
  /\ UNCHANGED <<settingVars, manifest, target, serverVars, restartVars, process, ws, managed,
                 pstate, owner, announced, crashes>>

\* ADAPTER_UNLOAD_RESPONSE: the last adapter takes the plugin with it, and its
\* promise is settled only when the plugin has answered.
AdapterUnloaded(p, c) ==
  LET g == plugin
      last == Components(g) = {c}
  IN
  /\ pstate[p] = "connected"
  /\ c \in asked[p]
  /\ IF g = 0 \/ (g # 0 /\ adapters[g][c] = "absent")
     THEN /\ asked' = [asked EXCEPT ![p] = @ \ {c}]
          /\ UNCHANGED <<adapters, restart, unloading, moved, waiting, op>>
     ELSE /\ adapters' = [adapters EXCEPT ![g][c] = "absent"]
          /\ IF last
             THEN /\ restart' = [restart EXCEPT ![g] = FALSE]
                  /\ unloading' = [unloading EXCEPT ![g] = TRUE]
                  /\ moved' = [moved EXCEPT ![g] = IF adapters[g][c] = "unloading"
                                                   THEN {c} ELSE {}]
                  /\ asked' = [q \in ProcessNumber |->
                       (IF q = p THEN asked[q] \ {c} ELSE asked[q]) \union
                       (IF q = ws[g] /\ pstate[q] = "connected" THEN {"plugin"} ELSE {})]
                  /\ UNCHANGED <<waiting, op>>
             ELSE /\ asked' = [asked EXCEPT ![p] = @ \ {c}]
                  /\ waiting' = Resolved(g, {c})
                  /\ op' = AfterResolved(g, {c})
                  /\ UNCHANGED <<restart, unloading, moved>>
  /\ UNCHANGED <<settingVars, manifest, target, serverVars, pendingRestart, restarting, process,
                 ws, managed, pstate, owner, announced, crashes>>

\* Faulty: the promise of the last adapter is not settled.
FaultyPluginUnloadedUnsettled(p) ==
  LET g == plugin IN
  /\ pstate[p] = "connected"
  /\ "plugin" \in asked[p]
  /\ g # 0
  /\ pstate' = [pstate EXCEPT ![p] = "leaving"]
  /\ plugin' = 0
  /\ restart' = [restart EXCEPT ![g] = FALSE]
  /\ UNCHANGED <<settingVars, requestVars, plugins, unloading, pendingRestart, restarting,
                 process, ws, adapterVars, owner, asked, announced, crashes>>

\* PLUGIN_UNLOAD_RESPONSE: shutdown, unregister, settle; the process then leaves.
PluginUnloaded(p) ==
  LET g == plugin IN
  /\ pstate[p] = "connected"
  /\ "plugin" \in asked[p]
  /\ pstate' = [pstate EXCEPT ![p] = "leaving"]
  /\ plugin' = 0
  /\ IF g = 0
     THEN UNCHANGED <<restart, pendingRestart, moved, waiting, op>>
     ELSE /\ restart' = [restart EXCEPT ![g] = FALSE]
          /\ pendingRestart' = [pendingRestart EXCEPT ![g] = IF @ = "none" THEN @ ELSE "stale"]
          /\ moved' = [moved EXCEPT ![g] = {}]
          /\ waiting' = Resolved(g, moved[g])
          /\ op' = AfterResolved(g, moved[g])
  /\ UNCHANGED <<settingVars, manifest, target, plugins, unloading, restarting, process, ws,
                 adapters, managed, owner, asked, announced, crashes>>

-----------------------------------------------------------------------------
(* Processes and restarts.                                                 *)

\* The exit handler that Plugin.start of object g gave its process.
OnExit(g, code) ==
  IF ~restart[g]
  THEN /\ process' = [process EXCEPT ![g] = 0]
       /\ UNCHANGED <<restart, pendingRestart, restarting>>
  ELSE \/ /\ code = "dont_restart"
          /\ restart' = [restart EXCEPT ![g] = FALSE]
          /\ process' = [process EXCEPT ![g] = 0]
          /\ UNCHANGED <<pendingRestart, restarting>>
       \/ /\ code = "other"
          /\ pendingRestart[g] # "none"
          /\ UNCHANGED <<restart, process, pendingRestart, restarting>>
       \/ /\ code = "other"                   \* restartDelay > 0
          /\ pendingRestart[g] = "none"
          /\ pendingRestart' = [pendingRestart EXCEPT ![g] = "armed"]
          /\ UNCHANGED <<restart, process, restarting>>
       \/ /\ code = "other"                   \* restartDelay = 0
          /\ pendingRestart[g] = "none"
          /\ restarting' = [restarting EXCEPT ![g] = TRUE]
          /\ UNCHANGED <<restart, process, pendingRestart>>

\* A process that was told to unload, or was killed, is gone.
Exit(p) ==
  /\ pstate[p] = "leaving"
  /\ pstate' = [pstate EXCEPT ![p] = "dead"]
  /\ OnExit(owner[p], "other")
  /\ UNCHANGED <<settingVars, requestVars, serverVars, unloading, ws, adapterVars, owner,
                 asked, announced, crashes>>

\* When a process may end of itself: at any time, but for settled clients.
MayCrash == Pace = "settled" => \A r \in Request \ {Boot} : op[r] \in {"new", "done"}

\* A process ends of itself: a crash, or the exit code that asks for no restart.
Crash(p) ==
  /\ Alive(p)
  /\ MayCrash
  /\ crashes < MaxCrashes
  /\ crashes' = crashes + 1
  /\ \/ /\ pstate' = [pstate EXCEPT ![p] = "dead"]
        /\ OnExit(owner[p], "other")
     \/ /\ pstate' = [pstate EXCEPT ![p] = "quit"]
        /\ OnExit(owner[p], "dont_restart")
  /\ UNCHANGED <<settingVars, requestVars, serverVars, unloading, ws, adapterVars, owner,
                 asked, announced>>

\* The process could not be spawned: the 'error' event.
SpawnError(p) ==
  /\ pstate[p] = "spawned"
  /\ MayCrash
  /\ crashes < MaxCrashes
  /\ crashes' = crashes + 1
  /\ pstate' = [pstate EXCEPT ![p] = "quit"]
  /\ restart' = [restart EXCEPT ![owner[p]] = FALSE]
  /\ UNCHANGED <<settingVars, requestVars, serverVars, unloading, pendingRestart, restarting,
                 process, ws, adapterVars, owner, asked, announced>>

\* Faulty: the timer is not forgotten, and no later death restarts.
FaultyRestartStale(g) ==
  /\ pendingRestart[g] = "armed"
  /\ pendingRestart' = [pendingRestart EXCEPT ![g] = "stale"]
  /\ restarting' = [restarting EXCEPT ![g] = restart[g]]
  /\ process' = [process EXCEPT ![g] = IF restart[g] THEN @ ELSE 0]
  /\ UNCHANGED <<settingVars, requestVars, serverVars, restart, unloading, ws, adapterVars,
                 processVars>>

\* Faulty: the timer is an interval.
FaultyRestartTwice(g) ==
  /\ pendingRestart[g] = "armed"
  /\ ~restarting[g]
  /\ restarting' = [restarting EXCEPT ![g] = restart[g]]
  /\ UNCHANGED <<settingVars, requestVars, serverVars, restart, unloading, pendingRestart,
                 process, ws, adapterVars, processVars>>

\* The restart timer. doRestart forgets the timer only when it restarts.
RestartTimer(g) ==
  /\ pendingRestart[g] = "armed"
  /\ IF restart[g]
     THEN /\ pendingRestart' = [pendingRestart EXCEPT ![g] = "none"]
          /\ restarting' = [restarting EXCEPT ![g] = TRUE]
          /\ UNCHANGED process
     ELSE /\ pendingRestart' = [pendingRestart EXCEPT ![g] = "stale"]
          /\ process' = [process EXCEPT ![g] = 0]
          /\ UNCHANGED restarting
  /\ UNCHANGED <<settingVars, requestVars, serverVars, restart, unloading, ws, adapterVars,
                 processVars>>

\* Plugin.start, called for a restart, has the settings.
StartAgain(g) ==
  /\ restarting[g]
  /\ restarting' = [restarting EXCEPT ![g] = FALSE]
  /\ Spawn(g)
  /\ UNCHANGED <<settingVars, requestVars, serverVars, unloading, pendingRestart, ws,
                 adapterVars, asked, announced, crashes>>

-----------------------------------------------------------------------------
RequestStep(r) ==
  \/ EnableSaved(r)
  \/ LoadRead(r)
  \/ LoadWrite(r)
  \/ LoadPlugin(r)
  \/ StartFor(r)
  \/ UnloadSaved(r)
  \/ KillTimer(r)

PluginStep(g) == RestartTimer(g) \/ StartAgain(g)

MessageStep(p) ==
  \/ Register(p)
  \/ \E c \in Component : AdapterAdded(p, c) \/ AdapterUnloaded(p, c)
  \/ PluginUnloaded(p)
  \/ Exit(p)

Next ==
  \/ \E r \in Request : Begin(r) \/ RequestStep(r)
  \/ \E g \in PluginNumber : PluginStep(g)
  \/ \E p \in ProcessNumber : MessageStep(p) \/ Crash(p) \/ SpawnError(p)

Spec == Init /\ [][Next]_vars

\* Awaits end, timers fire, a live process answers what it is asked.
FairSpec ==
  /\ Spec
  /\ \A r \in Request : WF_vars(RequestStep(r))
  /\ \A g \in PluginNumber : WF_vars(PluginStep(g))
  /\ \A p \in ProcessNumber : WF_vars(MessageStep(p))

-----------------------------------------------------------------------------
(* Properties.                                                             *)

\* A Plugin object knows every live process it has spawned: it has at most one, and
\* can kill it. Neither the restart timer nor a second start puts one beside another.
ProcessKnown ==
  \A p \in ProcessNumber : Alive(p) => process[owner[p]] = p

\* An adapter AddonManager offers belongs to the registered plugin, which is not
\* being unloaded for good.
ManagedIsLoaded ==
  managed # {} => /\ plugin # 0
                  /\ \A c \in managed : adapters[plugin][c] = "loaded"

\* What runs is known to the Plugin object that started it, and what is offered is loaded.
KnownAndLoaded == ProcessKnown /\ ManagedIsLoaded

\* An add-on that stays disabled ends with no process, however its process
\* behaved: no restart timer and no late start revives it.
DownWhenDisabled ==
  <>[](~stored) => <>[](\A p \in ProcessNumber : ~Alive(p))

\* An add-on that stays enabled ends up served, whatever crashed meanwhile, unless
\* its process asked not to be restarted or could not be spawned.
EnabledServes ==
  <>[]stored => <>[](Served \/ \E p \in ProcessNumber : pstate[p] = "quit")

\* The promise of unloadAddon is resolved, as its documentation says, and with it
\* the request that awaits it is answered.
RequestsAnswered == \A r \in Request : op[r] = "saving" ~> op[r] = "done"
=============================================================================
