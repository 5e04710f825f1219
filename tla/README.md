# A TLA+ model of the Candle Controller

The Candle Controller (a fork of the WebThings Gateway) is one Node.js process that
keeps *things*, talks to *add-ons* (child processes that drive devices) over an IPC
socket, and serves a REST and WebSocket API to browsers, together with the web interface
that runs in them. Both programs are single threaded, and yet nearly everything that is hard
about them is concurrency: a handler runs to its next `await`, and any other handler, message,
timer or process event can come before it goes on.

This directory models that: TLA+ modules translated from `src/src/` (the gateway) and
`src/static/js/` (the web interface), configurations that check them with TLC on small
instances, and proofs checked by TLAPS. Paths below are relative to `src/src/`, or begin with
`static/js/`, which stands for `src/static/js/`.

Contents: 1. inventory, 2. how the code is modelled, 3. modules, 4. runs and bounds,
5. fairness, 6. proofs, 7. what the violated runs show, 8. known departures,
9. what is not modelled, 10. plan.

## 1. Inventory: the system, and what makes it correct

| Component | State | Operations | Talks to |
|---|---|---|---|
| `AddonManager` (`addon-manager.ts`, `addon-utils.ts`) | `adapters`, `devices`, `installedAddons`, packages on disk, one pairing session (`deferredAdd`, `pairingTimeout`), one removal per thing (`deferredRemovals`, `removalTimeouts`) | add and remove adapters and devices, pair, unpair, enable, disable, load, unload, install, update, remove | `PluginServer` by calls, `Settings` by promises, `Things` by events, controllers |
| `PluginServer`, `Plugin`, proxies (`plugin/`) | registered `Plugin` objects, their process, socket, restart timer and delay, adapters, six tables of promises; per property the promises of its sets | spawn, restart, unload, kill, route messages | the processes over IPC, `AddonManager` by calls |
| `Things`, `Thing`, `Groups` (`models/`) | the Map of things, read from the database when it is empty; description, position, group, icon, connected state, listeners of each; groups and their order | create, remove, describe, move, connect | database by promises, `AddonManager` and WebSockets by events |
| `Actions`, `Action`, `Events` | the list of actions, their status | add, update, remove | `AddonManager`, things |
| rules engine (`rules-engine/`) | the list of rules, the state of triggers and effects | load, add, update and delete a rule; react to events | `Things`, `AddonManager`, table `rules` |
| `Logs`, `Settings`, `Users`, `JSONWebToken`, `OAuthClients` | rows of the database | read, write, revoke, exchange | database |
| controllers (`controllers/`) | WebSocket subscriptions, OAuth requests | the REST and WebSocket API | all of the above |
| first start, network, tunnel (`wifi-setup.ts`, `platforms/`, `tunnel-service.ts`, `certificate-manager.ts`) | processes, files, radio and names of the host | run host commands, talk to NetworkManager, renew certificates | the host |
| `GatewayModel`, `ThingModel` (`static/js/models/`) | what the page knows of things and groups, sockets, a queue of jobs | hear, refresh, subscribe | REST and WebSocket API |
| controls, icons (`static/js/schema-impl/`, `components/`) | what is shown of a property or a thing | show, choose, click | `ThingModel` |
| views (`static/js/views/`, `rules/`, `app.js`) | what is shown at an address, forms, timers, messages | open, draw, fill, send, drag | `GatewayModel`, REST API |

What is hard about each, and what makes it correct:

- **Pairing and removal.** The promise of `addNewThing` is settled by a timer, by a
  cancellation, by a later event of a device, by an action being removed. Correct: one
  session at a time, open exactly as long as its timer runs; every promise settled once;
  no adapter left pairing; a removal ends for whoever asked for it.
- **Life of an add-on.** Enable, disable, reload, crashes and restarts interleave with the
  messages of old and new processes. Correct: no process the gateway has lost track of,
  what is enabled ends up served, what is disabled ends up down, every request is answered.
- **Packages of add-ons.** Each of a row of awaits may fail, or the server stop in between.
  Correct: what runs was started from a whole package, and as it was last asked to.
- **Requests to devices.** Answers, status reports, crashes, restarts and unloads come in
  any order. Correct: a request waits exactly while its promise is held; an action a device
  performs can be seen; everything is answered in the end.
- **Things and who follows them.** The Map is loaded late and loaded again, while devices
  come and go and clients subscribe. Correct: what is shown is what is held, what is held
  is what was heard, nobody keeps listening after having gone.
- **Records of things, groups and their arrangement.** Every change writes rows without a
  transaction. Correct: row, object, icon file and what clients were told agree; the order a
  client asked for is the order there is, also after a restart.
- **Rules.** The list of rules and its table are changed by separate awaits; triggers,
  effects and targets answer one another late. Correct: what runs is what is stored; an
  effect follows its triggers; a pulse restores.
- **Users, tokens, settings, logs.** A read and a write with an await between them. Correct: what
  was revoked stays gone, what was answered as stored is stored, values belong to their metric.
- **The host.** Commands fail, the power goes. Correct: the gateway never runs beside its own
  access point; the host has one name; the certificate that is served is the one on disk.
- **The web interface.** Answers come after the page they were asked for has gone, sockets are
  lost, two answers come in the other order, users click twice. Correct: what is shown is what
  there is, once it is quiet; one visit does not disturb another; what was dragged, chosen,
  written is what the gateway has.

`PROJECT.json` lists all components with the files they are made of, and 40 hazards, each at
its line with the properties that guard against it. Section 8 has more, which no property covers.

## 2. How the code is modelled

Node runs a callback, and then the promise reactions it queued, before the next callback.
A TLA+ action therefore is *one callback together with its microtasks*: the code from a
handler's start to an `await` of something that is not yet resolved, or the handler of a
message, a timer, the end of a process or of a statement. A guard is the handler's
condition; an early return is a disjunct that changes what was changed before it.
Where a promise is settled, what awaits it goes on in the same action if it does nothing
but assign, or in an action of its own whose turn comes before any other callback (`now`
in `ThingFeed`, `Settled` in `ThingLayout`) if it runs through several.

Statements on the database end in any order: `db.ts` never calls `serialize()`, so SQLite's
thread pool may run them in any order. A statement takes effect in the step that resolves
its promise. The processes of add-ons are the environment; their answers are existentially
quantified, with the restrictions the add-on library imposes (one answer to a request).

Data are model values: an id, a name, a description is one of a small set, and a property
has two or three values. Widths of integers play no role in this code; time does only in
`RestartBackoff`, which counts seconds.

The web interface is modelled the same way: one callback with its microtasks is one action.
Requests of one page are taken to arrive in the order they were sent, unless a constant such as
`Overtakes` says otherwise; their answers come in any order. What other clients do to the gateway meanwhile is an
action `Other` or the like, marked
external.

Variables that the code does not have are marked *history* in the modules. They are never
read by an action's guard, except where a bound is named: `MaxStreak` bounds
`streak`, `MaxCrashes` the count `crashes`, and the constraint `Undisturbed` two of `ThingFeed`.

## 3. Modules

The gateway:

| Module | Models | Written against |
|---|---|---|
| `ExclusiveSession` | abstract: a promise granted to one caller at a time, refused to the others, always settled | what `addNewThing` and `removeThing` promise |
| `ThingPairing` | pairing and removal | `addon-manager.ts`, `models/actions.ts`, `controllers/things_controller.ts`, `plugin/plugin.ts` |
| `AddonLifecycle` | enable, disable, reload, load, unload, restart of one add-on | `addon-manager.ts`, `plugin/plugin.ts`, `plugin/plugin-server.ts` |
| `AddonPackages` | install, update, remove, enable, disable, configure a package; failures at every await, crashes, the update script | `addon-manager.ts`, `addon-utils.ts`, `controllers/addons_controller.ts` |
| `RestartBackoff` | the delay before a restart | `plugin/plugin.ts` 909-963 |
| `DeviceRequests` | actions, sets, PINs, notifications, API requests of one add-on | `plugin/plugin.ts`, `plugin/property-proxy.ts`, `models/actions.ts`, `controllers/actions_controller.ts` |
| `ThingFeed` | the Map of things, news of devices, WebSockets on `/things` and `/new_things` | `models/things.ts`, `models/thing.ts`, `controllers/things_controller.ts`, `controllers/new_things_controller.ts` |
| `ThingRecords` | one thing: object, row, icon file, and what clients know, over requests, announcements and restarts | `models/thing.ts`, `models/things.ts`, `controllers/things_controller.ts`, `db.ts` |
| `ThingLayout` | indices and groups of things and their rows | `models/things.ts`, `models/group.ts`, `models/groups.ts`, `db.ts` |
| `GroupOrder` | indices of groups and their rows, the Map that is read anew while it is empty | `models/groups.ts`, `models/group.ts`, `controllers/groups_controller.ts` |
| `RuleEngine` | the list of rules and its table | `rules-engine/Engine.ts`, `Database.ts`, `Rule.ts`, triggers |
| `RuleReaction` | triggers and effects of a rule | `rules-engine/triggers/`, `effects/`, `Property.ts` |
| `MetricLogs` | metrics, the values stored under their ids, and the screen that streams them | `models/logs.ts`, `controllers/logs_controller.ts`, `static/js/views/logs-screen.js`, `static/js/logs/log.js` |
| `AccountRecords` | users, tokens, OAuth codes and clients, a setting | `models/users.ts`, `jsonwebtoken.ts`, `oauthclients.ts`, `settings.ts`, `controllers/oauth_controller.ts`, `db.ts` |
| `WiFiSetup` | the first start: access point, the page that asks for a network, the gateway after it | `wifi-setup.ts`, `platforms/linux-raspbian.ts`, `app.ts` |
| `HostNetwork` | cable, radio and name of the host | `controllers/settings_controller.ts`, `platforms/linux-raspbian.ts`, `platforms/utilities/network-manager.ts` |
| `TunnelCertificates` | subdomain, certificates, renewals, pagekite, the HTTPS server | `certificate-manager.ts`, `tunnel-service.ts`, `app.ts` |

The web interface (`static/js/`):

| Module | Models | Written against |
|---|---|---|
| `GatewayClient` | the map of things and groups, the two sockets, the queue of jobs | `models/gateway-model.js`, `thing-model.js`, `reopening-web-socket.js` |
| `PropertyControls` | one property's control, of every kind | `schema-impl/property/`, `components/property/` |
| `ThingIcons` | the icon of a thing, of every capability | `schema-impl/capability/`, `components/capability/` |
| `NewThings` | the screen on which things are added | `views/add-thing.js`, `new-thing.js`, `new-web-thing.js` |
| `AddonPages` | lists and configuration of add-ons | `views/settings.js`, `installed-addon.js`, `discovered-addon.js`, `addon-config.js` |
| `UserForms` | users, their second factor, authorizations | `views/settings.js`, `user.js` |
| `SettingsForms` | domain, network, time, update, developer | `views/settings.js`, `wireless-network.js` |
| `RuleEditor` | the page of one rule and the list of rules | `views/rule-screen.js`, `rules-screen.js`, `rules/` |
| `ThingsPage` | things and groups that are dragged | `views/things.js`, `group.js`, `schema-impl/capability/thing.js` |
| `ThingsScreen` | which page of the things is shown, and the queue it shares with the model | `views/things.js`, `models/gateway-model.js` |
| `Floorplan` | icons that are pressed, and dragged in edit mode | `views/floorplan.js` |
| `AppViews` | views and extensions | `app.js`, `router.js`, `extension.js`, `views/menu.js` |
| `MessageArea` | messages, persistent ones, the pinger | `app.js`, `views/things.js`, `schema-impl/capability/thing.js` |

And around them:

| Module | What it is |
|---|---|
| `MCRuleReaction` | definitions of constants for a run |
| `MCDevices` | composes `ThingPairing`, `DeviceRequests` |
| `MCRules` | composes `RuleReaction`, `RuleEngine`, `MetricLogs`, `RuleEditor` |
| `MCServices` | composes `RestartBackoff`, `AddonPackages`, `WiFiSetup`, `HostNetwork`, `TunnelCertificates`, `AccountRecords`, `ThingLayout`, `GroupOrder` |
| `MCPages` | `NewThings`, `AddonPages`, `UserForms`, `SettingsForms` |
| `MCShell` | extends `MCPages` by `ThingsPage`, `AppViews`, `MessageArea`, `ThingsScreen`, `Floorplan` |
| `MCOverview` | extends `MCShell` by `ThingRecords`, `GatewayClient`, `PropertyControls`, `ThingIcons` |
| `..._proofs` | theorems about `AddonLifecycle`, `ThingFeed`, `MCDevices`, `MCRules`, `MCServices`, `MCPages`, `MCShell`, `MCOverview`. `PartsBehave` shows that a behaviour of `MCOverview` is one of `MCPages` and one of `MCShell`, and one of `MCDevices` is one of `ThingPairing` and one of `DeviceRequests` |

`ThingPairing` is shown to implement two instances of `ExclusiveSession`: `PairingSession`,
with `holder <- deferredAdd`, and `RemovalSession(t)`, with `holder <- deferredRemovals[t]`;
`PairPhase` and `RemovalPhase` say what a request is to the session.

Within a module the actors are composed: `ThingFeed` has the gateway, devices and clients in it,
`GatewayClient`, `PropertyControls`, `ThingsPage`, `RuleEditor` and `MetricLogs` have both the
browser and the gateway it talks to, `TunnelCertificates` the gateway, its servers and the page.
The modules meet at named seams: `AddonLifecycle` lets the restart come at any time, and
`RestartBackoff` says when; `AddonPackages` takes the load and unload of `AddonLifecycle` as
steps; `DeviceRequests` takes crash, restart and unload as steps of its own; `ThingFeed` takes
`DeviceAdded` and `DeviceRemoved` of the adapters as steps of its own; `ThingLayout` takes its things
as they are made and removed in `ThingFeed`, and `GroupOrder` leaves the things of a group
that is removed to `ThingLayout`; the views take each job of `GatewayClient`'s queue as one
step, but `ThingsScreen`, which is about that queue.

The `MC` modules that compose several parts are not products: an initial state picks one `part`,
and only that one moves, while the others rest in one of their initial states. The parts share no
state that the properties are about (or share a run's constants only), so that a product would
only multiply. What it gives is one run for one area of the system, with properties that state
one thing over its parts.

How the state corresponds to the code: each `VARIABLES` block names the field a variable
stands for, and the actions carry the name of the function in the comment above them, or are
named after it. `PROJECT.json` maps every definition to its lines. The ones to know:

- `ThingPairing`: `stage[r]` is the promise a request awaits; `proxy[a]` numbers the
  `AdapterProxy` objects of one adapter id, because `handleDeviceRemoved` compares
  objects, not ids.
- `AddonLifecycle`: `Plugin` objects and processes are numbered; `owner[p]` is the object
  whose exit handler was attached to process `p`, which may not be the object's process
  any more. `pendingRestart = "stale"` is a timer that has fired but whose field was not
  cleared. `Pace` says how clients behave, see section 4.
- `DeviceRequests`: `promises` stands for the six tables of `Plugin` together, `waiters`
  for `PropertyProxy.propertyChangedPromises`, `inbox` and `work` for what the process
  has yet to do.
- `ThingFeed`: `Thing` objects are numbered, because a load replaces them and listeners hang
  on objects. `load` and `waiting` stand for `getThingsPromise` and its awaiters.
- `RuleEngine`: `Rule` objects are numbered, because an update makes a new one.
- `ThingRecords`: `objs` are the `Thing` objects made so far, `cur` the one in the Map, `writes`
  the statements under way; a description is the record of what its parts were last set to.
- `GatewayClient`: a description is the number of the change that made it.
- `TunnelCertificates`: certificates and servers are numbered, so that a file or a server can
  be told to be of an earlier one.
- `WiFiSetup`: a row of commands is one step, with the number of those that were carried out.
- `NewThings`, `AddonPages`, `UserForms`: visits are numbered, and a request knows the visit it
  was sent from, as its closure does.

The modules have a type invariant `TypeOK` (those of the forms, of the rule editor and of a thing's
record describe the shape of their state at the variables instead). It is proved for `ThingPairing`,
`RestartBackoff`, `DeviceRequests`, `AddonLifecycle` and `ThingFeed`, is part of the invariants proved in the `MC`
modules, and
holds of the others under the configurations of their parts, but is not among the properties of
the runs, which are spent on what could go wrong.

Definitions named `Faulty...` (and `HastyCall`) are not part of any specification. They are
plausible mistakes in the definition that follows them; put in its place they must violate
the property `PROJECT.json` names. They guard against properties that hold of anything.

## 4. Runs and bounds

Numbers are of distinct states; the time is with two workers.

| Run | Checks | States |
|---|---|---|
| `pairing_sessions` | `ThingPairing`: sessions, timers, pair actions and adapters stay in step (`SessionsKept`, `WaitersAreHeld`), outcomes are final (`OutcomeStable`), every request and every pairing ends (`RequestsEnd`), pairing and removal implement `ExclusiveSession` (`SessionsImplemented`) | 588 403, 112 s |
| `pairing_removal_lost` | finding: `RemovalsSettle` fails | 1 585 |
| `addon_settled` | `AddonLifecycle` at pace "settled": what runs is known and what is offered is loaded (`KnownAndLoaded`), `EnabledServes`, `DownWhenDisabled`, `RequestsAnswered` | 44 297, 18 s |
| `addon_quick` | finding: `ProcessKnown` fails at pace "quick" | stops after 150 or so |
| `restart_gives_up` | finding: `GivesUp` fails with the delays of the source | stops after 12 300 or so |
| `device_requests` | `DeviceRequests`: `PromisesHeld`, `ActionsShown`, and everything is answered (`AnswersCome`) | 197 765, 102 s |
| `thing_feed` | `ThingFeed`: clients, Map and devices agree (`ConnectionsShown`), strangers are offered after every step, and nothing else but at the end of writing a row (`StrangersOffered`), `NoThingListenerLeft` | 3 355 480, 87 s |
| `rules` | `RuleReaction`: `EffectFollows`, `PulseRestores`, `SetsOnce`, `HasItsWay`; `RuleEngine`: `RunsWhatIsStored`, `NoneLeftRunning`; `MetricLogs`: `ValuesBelong`, `LoadingEnds`; `RuleEditor`: `SavedAsMade` | 597 216, 122 s |
| `rule_pulse_event` | finding: `PulseRestores` fails for an event | stops after 25 or so |
| `services` | `RestartBackoff`: `Spacing`; `AddonPackages`: `RunsAsChosen`; `WiFiSetup`: `GatewayWithoutAp`; `HostNetwork`: `NetworkIsTold`; `TunnelCertificates`: `ServesWhatIsOnDisk`; `AccountRecords`: `RecordsHold`; `ThingLayout` and `GroupOrder`: `Arranged`, `AllTold` | 1 291 624, 124 s |
| `overview` | `GatewayClient`: `InStep`; `PropertyControls`, `ThingIcons`: `DeviceShown`; `ThingRecords`: `RecordKept`; `NewThings`: `VisitsKeptApart`; `AddonPages`: `PagesTell`; `UserForms`, `SettingsForms`: `FormsTell`; `ThingsPage`, `ThingsScreen`, `Floorplan`: `InPlace`; `AppViews`, `MessageArea`: `ShellTells` | 1 755 923, 168 s |
| `wifi_joined` | finding: `JoinedIsConfigured` fails | stops after 200 or so |

`CHECK_DEADLOCK FALSE` is set where requests, visits or events are used up: when all are answered
nothing is left to do. `restart_gives_up`, whose model goes on for ever, is checked for deadlock.

The bounds, and why they are enough. `Reduced` says that `services` and `overview` start from some
of the initial states only, those of `Begins`, `PagesBegin` and `ShellBegins`; the theorems hold with
it and without.

- **`ThingPairing`**: three requests of any kind, one thing, one adapter, which may come back
  once (`MaxProxies = 2`). Three requests are what it takes for one to own the session, one
  to be refused, and one to open the next session while the timer, the action or the promise
  of an earlier one is around. The code treats things independently. Two proxies are
  what it takes for `handleDeviceRemoved` to see an object that is not the owner.
- **`AddonLifecycle`**: start-up, one enable, two disables, one change of configuration; two
  adapters; three `Plugin` objects, six processes, two crashes. Two adapters tell "an
  adapter is unloaded" from "the last one is"; two crashes make a restart die; no behaviour
  of the run needs a fourth object, or a sixth process.
  `Pace` is an assumption on clients: "settled" clients ask when the answer to the last
  request is there and the add-on is served (any crash may still happen after that, and
  before); "answered" clients wait for the answer only; "quick" ones for nothing.
- **`RestartBackoff`**: the run `services` scales 60/30/30 seconds down to 6/4/4, so that the window is
  longer than the cap as in the source; the theorems hold for all values. `RestartGivesUp.cfg` uses
  the delays of the source, and a window of one second: a process that dies at once.
- **`DeviceRequests`**: one request of each of the five kinds, three of which wait at a time
  (`MaxWaiting`), one crash. The kinds differ in who lists and who answers; a second
  request of a kind shares nothing with the first but the tables, which are keyed by id
  (actions are: a `Post` and a `Socket` one are both there).
- **`ThingFeed`**: two things, one of which has a device; one WebSocket of each kind; two
  calls waiting for the table. Two things are needed because the table is read again only
  while the Map is *empty*: with one thing there, the other finds it loaded. Two calls waiting show that they go on
  in the order they came. `CONSTRAINT Undisturbed` stops where
  a known mishap has happened (section 8), and `OneAudience` where WebSockets of both kinds have been
  opened: they share nothing but the Map, whose reading either may start, as any other call may.
- **`ThingLayout`**: from arrangements of up to three things in two lists, two requests. Things are alike, so
  that those there are come first in their order; of the arrangements of all three only those are
  initial in which one is in no group, and of those of two, in which none or both are (`Sorted`).
  Three things in a list are the least where one moves and others move up, down, or not at
  all. After requests that do not overlap the final state is an arrangement again (`AsExpected`), so that what two
  requests do covers sequences of any length, up to those two limits on where they begin.
- **`GroupOrder`**: from every list of up to three groups, two requests, as for things; the
  same reasoning covers sequences of requests that do not overlap.
- **`RuleEngine`**: a table of up to two rules with two kinds of trigger, one load and one
  request of each kind; four `Rule` objects: two loaded, one added, one updated.
- **`RuleReaction`**: twelve shapes of rule: two levels (one of which is met by `null`, as
  `LevelTrigger` with LESS is) and an event, under AND, OR or alone, with a `SetEffect` or a
  `PulseEffect`, on a property of three values or on a Boolean, which has the goal and its negation; up to four
  commands on their way.
- **`MetricLogs`**: two metrics, two ids, so that an id is given out again; four requests: two that
  register, one that removes, and one that registers what gets the id again; one point in flight,
  two reloads of the screen, which overlap. `Hasty = FALSE`: nothing else comes in while a metric
  is being removed (section 8).
- **`RuleEditor`**: two devices, one with read-only properties, and an outlet; a stored rule and up
  to two new ones; three edits, losses of a device or failed requests over three visits. `Hasty = FALSE` is an
  assumption on the user,
  who waits for the answer to a change (section 8).
- **`AddonPackages`**: two versions, of which one cannot be loaded; three requests in a row, any statement of
  the settings failing at any time, and one crash: install, update and one more that finds what they have left.
  `Settled = TRUE` says that
  requests wait for one another.
- **`WiFiSetup`**: three starts, so that one finds what a start that was cut short has left, which
  found what another had; two POSTs, of which the second comes while the first is carried out.
- **`HostNetwork`**: two requests that overlap; three access points, two of one name, or hidden. Of the
  two names, which are alike, the host has the first when it starts.
- **`TunnelCertificates`**: three certificates: one registered, one renewed, one renewed or
  registered while the other is on its way; two submits.
- **`AccountRecords`**: one user, two clients of which the start registers one, three requests that
  overlap in every way; four tokens are all they make.
- **`ThingRecords`**: three requests or announcements that overlap, one failing statement or file,
  one restart.
- **`GatewayClient`**: two things, two changes by others, one thing opened, one loss of a socket: a
  loss, what was missed in it, and the jobs of both openings.
- **`PropertyControls`**, **`ThingIcons`**: every kind of control and of icon is an initial state.
  One choice, one change by the device and one loss race (two visits); two clicks or presses
  over three changes. A device does not start at its highest value.
- **`NewThings`**: two devices, one of which asks for a PIN or a login; two visits, since what is
  wrong about one visit shows in the next; one refusal or failure.
- **`AddonPages`**: two add-ons, two lists on offer of which one has a newer version; five pages shown,
  three requests, one of which may fail.
- **`UserForms`**: two users, a new one, two clients; eight pages or requests. **`SettingsForms`**: four,
  from two of the four states of its two settings, which are on pages of their own.
  `Overtakes` and `Hasty` are FALSE: section 8 has what else happens.
- **`ThingsPage`**: arrangements of three things in two groups and outside, up to the names of
  the things and which group is the fuller, with some tile outside, or all of them where the page
  is not told of changes; two drops, here or elsewhere, one of which may fail.
- **`ThingsScreen`**: two things, of which the first is there if any is; three addresses, two messages: a
  page left and returned to, or one of another thing opened, with the news of either on the way.
- **`Floorplan`**: two things, placed at one point or not; one drop, one press, and two views or changes elsewhere.
- **`AppViews`**: two extensions, one of them in the menu, an unknown id and two other views; four
  addresses. **`MessageArea`**: two things, five addresses, messages or news of connections, and as
  many pings as it takes.

## 5. Fairness

Fairness is weak fairness of single steps throughout, of what the runtime or the code itself
carries out:

- timers fire (`PairingTimeout`, `RemovalTimeout`, the restart timer in `PluginStep`), because
  Node's event loop runs them;
- awaits end: statements on the database, reads of settings;
- in `MetricLogs`, the server answers and the screen goes on with what it was sent;
- in `AddonLifecycle`, `DeviceRequests` and `RuleReaction`, a process that is alive answers
  what it was asked. That is an assumption about add-ons, not about this code. Where the
  code has a timeout of its own against silent add-ons, nothing is assumed: in `ThingPairing`
  adapters owe nothing, and every pairing and removal must end by its timer.

No fairness is assumed of clients, of crashes, of devices appearing or of users. Requests are
used at most once, so that "again and again nothing waits" (`RequestsEnd`, `[]<>`) means that
every request ends. In a run of several parts fairness is
conditional on the part: `WF_vars(Is("logs") /\ ...)`.

## 6. Proofs

The theorems hold for every value of the constants, under the named assumptions of the
modules, which TLC evaluates in the runs:

- sentinels are not members (`NoRequestAssumption`, `NoneAssumption`, `NoGroupAssumption`, `NoMetricAssumption`,
  `ComponentAssumption`, `IconsAssumption`), and sets that name different things are disjoint (`DisjointAssumption`,
  `RequestsAssumption`, `KindsAssumption`, `TriggerAssumption`, `NewThingsAssumption`, `AppViewsAssumption`,
  `MessageAreaAssumption`);
- bounds and times are naturals (`TimesAssumption`, the `BoundsAssumption`s), a slider has a least and a highest
  value and a step (`ControlsAssumption`);
- things are finitely many (`FiniteAssumption`), each device has an adapter (`OwnerAssumption`), what is stored or
  loadable is
  of its kind (`StoredAssumption`, `PackagesAssumption`), a rule has a trigger, and one if it is no AND or OR
  (`RulesAssumption`);
- things and groups that are dragged are finitely many (`ThingsPageAssumption`), so are the things of the plan, on
  which the points to drag to are none of the spots given to things nobody placed (`FloorplanAssumption`);
- devices and outlets the rules are about are finitely many, a device is no outlet, and what is stored is a description
  (`EditorAssumption`).

A module that is instantiated defines its assumption, and the module that composes it assumes it
(`ServicesAssumption`, `RequestsAssumption`, `PartsAssumption`, `ShownAssumption`, `PagesAssumption`,
`AroundAssumption`).

**`MCDevices_proofs`.** A step of either part leaves the other alone (`PartsBehave`), so that each is proved by itself.

`ThingPairing`: `TypeOK`, `SessionsKept` (which is `SessionHasTimer`,
`PendingPairOwnsSession`, `NoStrayPairing` and `RemovalTimerHasRemoval`), `WaitersAreHeld`, `OutcomeStable`, and
`SessionsImplemented`: every step of `Spec` is a step of `ExclusiveSession` or a stutter, both as pairing
sees it and as the removal of any thing does. None of
the invariants is inductive alone. `IInv` adds three facts: `RequestShape` (what a request
that is new, listed or in the store looks like), `HeldWait` (whose promise is held is
waiting: the converse direction of `WaitersAreHeld`, which keeps the owner of a promise
from being somebody else's), and `PairingIsAlive` (a dead process does not pair, so a new
adapter does not start out pairing). The proof has one step per action; `OutcomeStable` and the two refinements are
action properties that follow
from `IInv` and the step. That of removal also needs `Untargeted`: a request that removes nothing
names no thing, so that what is done for it is nothing to any thing's session.

**`RestartBackoff`** (in `MCServices_proofs`). `Spacing` needs `DelayIsStreak`: while the row counts, the delay *is*
the length of the row, and the timer holds no more than the delay. The step that adds
a death adds the new delay to both sides (`RowGrows`). `NeverGivenUp` proves that with
`Cap <= Limit`, as in the source (both 30 s), the bail-out is unreachable: the
counterpart of the run `restart_gives_up` for all values.

`DeviceRequests` (in `MCDevices_proofs`): `TypeOK`, `PromisesHeld`, and `ActionsShown` (which is
`RunningIsListed` and `StatusShown`).
`IInv` adds `InboxWaits` (what the process has received awaits its answer, and it works on
nothing it has not received), `ListedFirst` (an action requested over a WebSocket is listed
until it is done), and `DeletedIsDone` (an action whose deletion was answered is done).

**`AddonLifecycle_proofs`.** Proved: `TypeOK` at every pace, and `KnownAndLoaded` at pace "settled", of an add-on
that has adapters. `LifeInv` says that one request at a time is in an await and what holds there (`Stands`),
that a live process is the registered plugin's unless it is leaving, and then of an object that starts none
again (`Live`), and that a restart is due only for the registered plugin, with no process alive (`Restarts`).
The hypothesis `Component # {}` is a finding of the proof: nothing awaits the answer of an add-on without adapters
to the
request to unload, so the timer that kills it may win (section 8).

**`ThingFeed_proofs`.** Proved: `TypeOK`, `ConnectionsShown`, `NoThingListenerLeft`, `StrangersOffered`, as long as no
mishap of section 8 happens (`Undisturbed`, the constraint of the run). `FeedInv` says of the news that are queued that
the last of them is what was heard last of the device, and if there is none the thing has taken it
up already; of the Map that it is the table as soon as anybody makes use of it; and of a WebSocket that it
listens to each thing by one listener. A call may create many objects at once, numbered in
any order: they are numbered by bijections, of which the proof uses only that they are.

**`MCRules_proofs`, `MCServices_proofs`, `MCPages_proofs`, `MCShell_proofs`, `MCOverview_proofs`.** A step of the
composition is a step of one part and leaves the others
alone, so that an invariant of the part is one of the composition. By parts:

- `RuleReaction`: `EffectFollows`, `PulseRestores`, `SetsOnce` from `ReactionInv`: the effect is what the states of
  the triggers
  combine to, a rule that saw its devices at its start knows what they are, and what a `PulseEffect` has on its way is
  what it owes. `PulseRestores` is proved of targets that answer before the next change, and no events (section 7);
  what a pulse
  on a Boolean restores is the opposite of its own value (section 8).
- `RuleEngine`: `RunsWhatIsStored`, `NoneLeftRunning` from `EngineInv`: an object runs exactly while it is listed,
  under one id,
  and what a request or a load is about to do finds the row it was decided on. Both suppose one call that
  loads the table (`OneLoader`); of two that overlap the rules of one run on unlisted (section 8).
  `RunsWhatIsStored` supposes also
  that no load failed on a rule about a thing that is gone, which leaves the rules after it unlisted.
- `MetricLogs`: `ValuesBelong` from `LogsInv`, with `~Hasty`: what is inserted is named by an id that belongs to
  its metric,
  and a metric leaves with all it has. That a new id is free rests on the set of the ids above all others
  having a least element (`NatMin`, from the well-foundedness of the naturals).
- `RuleEditor`: `SavedAsMade` of a user who waits for answers (`~Hasty`), from `EditInv`. Unless a request has
  failed, a stored rule agrees with what
  was made of it, or a later PUT on the line will bring it there, and one that is no longer made is to be deleted, once
  (`RulesFollow`). To agree (`Agree`) is to have the same parts of things that are there, so that losing a thing
  keeps it, and the type that was chosen while there is a typed effect. A card that can be used shows the rule as
  it was made
  (`ListRight`); the page of a rule is opening, blank after a failure, waits for the id of a new rule, or edits,
  and from then on the
  rule is put together from its blocks, each with a part of its own (`RuleRight`), so that the part a
  block gives up is nobody else's. The operator of what is edited is never empty, for `show` wraps a single trigger.
- `AddonPackages`: `RunsAsChosen`, with `Settled`: at each await of a request the row, the files and what runs are
  related in one of
  a few ways, which a crash maps to what start-up expects. A statement of the settings that failed, or a removal that
  removed nothing, is a request cut short at that await with everything before it done: until a load, a disabling or a
  removal goes through (`slipped`) only what is whole and what was chosen are claimed. `WiFiSetup`:
  `GatewayWithoutAp`. `TunnelCertificates`: `ServesWhatIsOnDisk`,
  from the server known to the renewal being the one that runs, and one order at a time. `AccountRecords`:
  `RecordsHold`, from the tokens
  a request found being gone or doomed by a statement under way. `ThingLayout`, `GroupOrder`: `AllTold`. `HostNetwork`:
  `NamesAgree`, which is half of `NetworkIsTold`: every way in which the file, the kernel and the hosts file may part is
  a command that set or put back a name and failed.
- `PropertyControls`, `ThingIcons`: `DeviceShown`. `ControlInv`: the last news on the line tells the value of the
  device, or the socket is
  yet to ask for it; and, unless the device took another value than it was given (`strayed`), the page shows what
  it knows, or an answer is to come. `SelectSeq` is opaque to the provers,
  so the answers are picked by indices (`Answers`). `IconInv`: an icon keeps the level heard last, and is right
  unless a click
  is unanswered or was refused; a press of a button ends with it let go.
- `ThingRecords`: `RecordKept` from `RecordsInv`: a statement that is alone writes all there is of the thing
  (`RowWritten`); objects that
  may still change have icons of their own (`IconsApart`), so that replacing the one does not remove the other's
  file; and
  clients know the thing as it is or a statement under way will tell them (`ToldOrWill`).
- `GatewayClient`: `CaughtUp` without news that overtakes an answer, and all of `InStep` if no id is used again
  either, from
  `GatewayInv`: while the socket is open, what the page will show once the answer under way is taken over (`Coming`) is
  what there is, or a news on the line or a job not yet served is still to bring it; the last news about a thing
  tells whether it is there (`NewsTrue`), so that one that is out of date is never the last; and the model of a
  thing that is shown and there has subscribed (`ModelsOf`). That nothing may overtake is needed where news of a
  removal is heard between the gateway's answer and the page's taking it over.
- `NewThings`: `VisitsKeptApart` of a user who waits for answers (`~Hasty`), from `VisitsInv`: a visit's pairing is
  in one of six
  phases, from the POST that is out to the DELETE that was answered, and each phase says which of timer, socket,
  session and
  action there is (`VisitPhase`); a card that is being saved has one request, and a device it is about is not
  stored before that is served (`SavesKept`); and what is on its way to a socket is new, or was offered (`NewsFresh`).
- `SettingsForms`, `UserForms`: `FormsTell` of a user who waits for answers, and, of what concerns the users, of a
  gateway that answers
  in the order it is asked. `SettingsInv`: one change is under way at a time; while it is about a choice no page
  waits for its
  answer and the gateway still has the other value (`BoxesTell`), so that a refusal takes back what was there; what is
  sent about the network was valid and its form stays so (`NetworkValid`). `UsersInv`: of the GETs under way the
  last is that of the
  page shown (`FormFollows`, `ClientsFollow`), so that whatever an earlier answer fills a form with is replaced;
  a change is about the user of the form and waits for no GET (`ChangeOfPage`).
- `AddonPages`: `PagesTell` of a user who waits for answers, from `PagesInv`: one GET is under way at a time, and
  nothing is asked
  meanwhile (`NothingRead`); for an add-on one call is under way, and once it is done the gateway has what its
  answer will
  write down, or it was refused and changed nothing (`DoneAhead`, unless `half`); on every add-on about which
  nothing is done and unanswered, the maps, the offers and the cards agree
  with the gateway (`PagesAgree`). That one version is the newest on offer rests
  on `Older` being a strict order of the sequences of numbers, and on a finite set of them having a greatest one.
- `AppViews`, `MessageArea`: `ShellTells`. `OneViewIsShown` is inductive alone. `MessagesInv` adds that a hidden
  area has
  no timer, that a persistent message is one of the two, and that no `Thing` is left on the list to hear of its
  connection.

- `ThingsScreen`: `ShowsWhatIsOpen` from `ScreenInv`: one page follows the model, that of the address if it is the
  list or a
  thing (`FollowsOne`); and until a thing the model does not know is opened no job is for a page and none is
  stuck (`NothingStrange`).
- `Floorplan`: `PlanHolds` from `PlanInv`: a spot the page knows is the gateway's or a news or an answer will bring it
  (`SpotsRight`), and so is where a node stands, unless it is held (`NodesRight`); things that were placed by nobody
  are given spots one after the other, by as many as come before in the list (`SpotsBeside`, `NodesBeside`); and an
  icon that was pressed keeps its index in the page until one disappears (`PressedIsThere`).
- `ThingsPage`: `InPlace` from `DragInv`: what is drawn, read and kept are arrangements, in which each thing is in one
  list and once (`IsArranged`); the page is as it was drawn until something is dropped (`AsDrawn`); and
  with no request done that the page was not told of, what it reads and draws is the gateway's arrangement
  (`ReadIsKept`). That a list drawn by its indices is the list rests on counting those up to each (`Drawn`), and
  that the
  index a drop computes is where the node went on removing and inserting by position.

Only model-checked: everything temporal (liveness under fairness and ENABLED are
beyond the provers): `RequestsEnd`, `RequestsAnswered`, `EnabledServes`, `DownWhenDisabled`, `AnswersCome`,
`HasItsWay`, `LoadingEnds`;
and two invariants, both of which are induction over data: `NetworkIsTold` but for the names, where the list of
networks is folded and filtered, and `Arranged`, where a request's history is replayed over lists of any length.

## 7. What the violated runs show

- **`pairing_removal_lost`**: `handleDeviceRemoved` clears the timer of a removal whoever the
  device belonged to (`addon-manager.ts` 511-515) and settles its promise only if the device
  is still the adapter's it was asked of (518). If the plugin restarts in between, the promise is
  never settled: whoever asked for it is never answered.
- **`addon_quick`**: an add-on is enabled while the request to disable it is still saving the setting. The enabling
  loads the add-on, which has not been unloaded: `registerPlugin` returns the `Plugin` object there is
  (`plugin/plugin-server.ts` 151-153), and `start` spawns without a look at the process that runs
  (`plugin/plugin.ts` 878). The object refers to the second process only; the first one runs on, and nobody can stop it.
  No process ends in the trace.
- **`restart_gives_up`**: the bail-out after 30 restarts (`plugin/plugin.ts` 925) is never reached.
- **`rule_pulse_event`**: a `PulseEffect` on an event never restores (`PulseEffect.ts` 67): the
  `off` comes before the `on` has read the property.
- **`wifi_joined`**: without a cable `isWiFiConfigured` asks `getWirelessMode`, whose branch for a
  radio that has joined a network tests the exit status of the wrong command
  (`platforms/linux-raspbian.ts` 232, and 269), and so always shows a radio that is off. The access
  point is started over the connection there is.

## 8. Known departures

Properties are stated of what the code does right, and what they leave out is listed here with
the way to see it. None of it is covered up by the model: the actions are the same, and
dropping the exception or the restriction makes TLC show the behaviour. What is marked with a
line or said to be left out is visible in the source only.

*Add-ons.* The run `addon_settled` is of clients that wait, so that it does not show what an enabling makes of an
unload under way,
or a disabling of a start that awaits the settings (`plugin/plugin.ts` 859). At paces "answered" and "quick"
`ProcessKnown`, `EnabledServes`, `DownWhenDisabled` and
`RequestsAnswered` fail, even without a crash and with one request of each kind (set `Pace` in
`AddonSettled.cfg`); at pace "quick" `ManagedIsLoaded` fails as well. Besides section 7 the causes are: `unloading`
of a `Plugin`
object is never reset, so an object that is used again ignores its adapters
(`plugin/plugin.ts` 329); and when a process dies between the request to unload and the answer,
nothing settles the promise `unloadAddon` awaits, and the process that is restarted is neither
unloaded nor killed (`addon-manager.ts` 929). An add-on without adapters is killed before it has answered the
request to unload, even at
pace "settled": the `Plugin` object stays registered, and the exit of the old process starts another beside one started
meanwhile.

*Requests to devices.* `RequestsEnd` excepts two cases. After a crash the promises of the dead
process stay in the tables of `Plugin` until it shuts down (`plugin/plugin.ts` 343), so the HTTP
requests that await them get no answer. When a PIN is accepted during an unload, the new
`DeviceProxy` is put in `AddonManager` after the old one was removed (264), and stays there as a
`Ghost` no process answers for. `SetsEnd` excepts the same, and the replacement of a device by
an accepted PIN: the waiters of `PropertyProxy` (111) go with the old object. `StatusShown` is
stated of actions that are listed before the process is asked (WebSocket, rules): the POST of an
action asks first (`actions_controller.ts` 58), so a status that is reported before the action is
listed is passed over. So three of the hazards are named and kept out of these properties: the promises of a dead
process,
the ghost, and the first status of an action that was posted.

*Pairing.* The removal of a pending `unpair` action from the list does not cancel the removal
(`models/actions.ts` 207 against 179). `RequestsEnd` excepts the removal of a device that has come back as another
proxy, which is what `pairing_removal_lost` shows.

*Things.* `getThings` reads the table again whenever the Map is empty (`models/things.ts` 63).
If the first thing is made, or the last one deleted, while it is being read, the Map
afterwards holds an object nobody listens to, no longer holds the new thing, or holds a thing
without a row. A thing deleted between its insertion and its `THING_ADDED` is announced all the
same. Such things are `spoiled`, and excepted. A WebSocket that closes before the things
are loaded, or opens between an insertion and its `THING_ADDED`, keeps listeners for good (`early`,
`leaked`). A thing made while its device is disconnected is shown as connected until the next
news (`missed`). The device of a deleted thing is not offered to watchers who are already there
(`forgotten`). Dropping any of these exceptions from its property makes the run fail. When the
device of a known thing is back, its row is written anew, and if that fails the `catch` of `handleNewThing`
announces the
thing to those who watch for new ones, where the comment speaks of things that do not exist (`models/things.ts`
215-225): `StrangersOffered` excepts the step in which such a write ends, and no other. The listener for
`LAYOUT_MODIFIED` of a WebSocket on `/things` is added when it opens (`things_controller.ts` 707) and not removed
when it
closes (721-730): `layoutSubs` only grows, and `NoThingListenerLeft` is about the listeners of things. That of groups
(`GROUP_REMOVED`), for which the same is true, is not modelled.

*Arrangement.* `AsExpected` and `RestartKeeps` compare indices only while requests do not overlap. When
two moves overlap, each makes room by the indices it finds, and the order stays wrong; without
`~overlapped` `RestartKeeps` fails, as two updates of one row may end in either order.
A thing that is put in a group while it is being removed keeps a group that is gone; and a PATCH puts a thing in a
group of
any id, whether there is one or not (`things_controller.ts` 433). None of what overlapping requests do to the order
is claimed
to be right: `AllTold` alone is stated of them.
The same holds of `GroupOrder` (`Ordered`). A read of the table that is under way while the first group
is made replaces the objects of the Map, so that the new group has no index until a restart; a
change of a title that overlaps a move may write the old index to the row; the index of a new
group comes from the body of the request.

*Rules.* `NoGhost` fails with `Loader = {boot, get}`: two calls of `getRules` before the table is
read both start the rules (`Engine.ts` 27), and those of one are lost and run on. With a member of
`Orphan` in `Stored`, `RunsWhatIsStored` fails: a rule whose `EventTrigger` names a thing that is
gone stops the load, and the rules after it are never started (33). The POST of such a rule is
stored, listed, and never answered (70; the request ends "hung" in the model). With `patient`
FALSE for pulses, `PulseRestores` fails: the value to restore may be read while a command is on its way. The class
comment of `PulseEffect` (15-18) says that the original value is restored; of a Boolean that
already has the pulse's value the opposite is set ("always toggle", 69-72), so that a lamp that was on when an "on"
pulse
came is off after it. `PulseRestores` asks for what the code does (`Restored`). A rule that was started before its
things (`blind`) is excepted from `SetsOnce`,
`HasItsWay` and `PulseRestores`: `Property.get` answers `null` (`Property.ts` 88, 97), which
`LevelTrigger` compares like a number, and an effect that went on at that time does not set
anything later.
Left out of the model: a `TimeTrigger` that is scheduled or stopped within its minute fires twice or not at all
(`TimeTrigger.ts`
72); a rule of the old form is migrated with the digits of UTC, as its offset is added and taken
away again (`DatabaseMigrate.ts` 27).

*A thing's record.* `RowIsWhole` is stated when no statement is under way and `~behind`: the statements of
overlapping requests may end in any order, and the row then keeps an older description until
the next statement that is alone. A request that still holds the object of a thing that was
removed writes it over the row of the thing that was added again. A failed statement is not told
to clients, and an announcement that changes nothing does not make up for it. The
file of an icon stays behind when an insertion is refused, an object is dead, or the server
stops between the two; `setIcon` unlinks the old file before it writes the new one, so that a stop or
a failure leaves a row that names a file that is gone. Each restart adds the gateway's form to each
property, action and event again until the adapter announces the thing. The statement of
`setFloorplanVisibility` is outside the `try`: if it fails, the PUT is not answered. So `RecordKept` does not tell
of a row that overlapping
statements left behind, or of a replacement cut short: both are excepted.

*Logs.* With `Hasty = TRUE` `ValuesBelong` fails: a value that comes in while its metric is removed is
stored under an id that is given out again. So does a removal that another removal of the same metric, or a
registration, overlaps (with `MaxRequests = 5`): the second removal deletes the row by an id that is another
metric's by then, and whoever gets that id next finds the values of the other. A reload of the screen while its
stream is open loses
points that were delivered; points between the SELECT and the close are dropped; `addRawPoint` throws
for a log whose thing is gone; two registrations at once insert two rows.

*Packages.* With `Settled = FALSE` requests overlap, and an update can leave what another has just
removed. An update of an add-on that is disabled drops it from `installedAddons` until a restart. When a statement
of the
settings fails, or the directory cannot be removed at all, the request ends where it is: an add-on may run that its
row says is
disabled, be enabled and not run, or be unloaded with its whole package still there and enabled (`addon-manager.ts`
581-597,
1154-1170). `RunsAsChosen` excepts that (`slipped`) until a load, a disabling or a removal has gone through. A load
that cannot
read the setting drops the error and saves what the package itself says (636-642), so that an add-on that was
disabled is enabled for good, or the other way round: the choice is then "open". The PUT of an add-on's
configuration is one statement; when it fails nothing has happened, and there is no step for it.

*First start and network.* A command that fails leaves the access point running beside the gateway; a
network that cannot be joined leaves neither access point nor gateway until the next start; two POSTs
start the gateway twice. The list of networks keeps repeated names: the loop that drops them skips an
entry after each (`StrongestListed` says what is right of it). `setLanModeAsync` answers that it is done
for a static address that does not parse; `setWirelessModeAsync` awaits neither the details of the
access point nor the connection; a failing `sed` leaves the name changed and answers that it failed (`lapsed`, as when a
command that puts the old name back fails: nobody looks at its outcome); when `hostname` fails NetworkManager is
given the *new*
name, on a line whose comment says that the original is set back (`platforms/linux-raspbian.ts` 615-620), and when
a change goes through it is told nothing: `NamesAgree` is about the file, the kernel and the hosts file, and no
agreement of
NetworkManager's name with them holds; the copy of the name on the boot partition (`/boot/firmware/hostname.txt`)
is left out;
GET of the networks is not answered when it is rejected.

*Tunnel.* `ServesWhatIsOnDisk` excepts the time between the files of a registration and the switch to
HTTPS. A stop between two writes leaves a key and a certificate that do not match. The first word of
pagekite decides `connected`; a second start spawns a second pagekite; if it says nothing `/subscribe` is
not answered.

*Users and tokens.* A login that overlaps the deletion of its user leaves a row of a token that nobody
owns. Two changes of a user's row overwrite each other. A code may be exchanged again. That SQLite
gives ids out again is not modelled. POST of a user goes by its awaits (the count, the token, the row, the hash and
the insertion); so two of one address may both find none, and the second INSERT is rejected.

*What the page knows.* With `Overtakes = TRUE` `CaughtUp` fails: a GET that is overtaken by the removal of its
thing puts it back. With `Returns = TRUE` `EventsHeard` fails: a thing that is added again keeps its model,
which does not subscribe again. Listeners of dead models stay; events that are new in a description are not
subscribed to until the socket is opened again; a job that fails while the socket stays open
leaves the page stale. The gateway refuses a subscription to a thing whose device is not there with status 400
(`things_controller.ts` 765-777), and `ThingModel` acts on 404 only (`thing-model.js` 141-147), so that a refusal
changes nothing on the page (`Open`). A thing that is stored while its add-on is still starting is refused as well,
and its
events are not heard before the socket opens again: the model's things have their devices.

*Controls and icons.* A report that comes within the half second before a choice is sent replaces
the choice. A PUT that is refused leaves the choice on the screen until the next message; a click that is
refused leaves the icon waiting (`~failed` in `IconFollows`). A device may take another value than the one it is
given and report that
(`models/things.ts` 477): the answer to the PUT carries no more than that it was done, and `setProperty` shows the
value that was
given over the one that was reported (`static/js/models/thing-model.js` 183-185, 212-217), until the device is heard
of again. `DeviceShown` excepts that (`strayed`). With `Most = 3` and `Multiple = 2` what is sent may
exceed the limits.

*Adding things.* `VisitsKeptApart` is of a user who waits (`Hasty = FALSE`), so that it does not tell of the
following. Leaving the screen before the POST is answered, or by the browser's own button, leaves
socket, timer and session; the old timer ends a later visit and closes its socket; an answer to the DELETE that
comes after that of a new POST forgets the new session (`OwnTimer` is stated of visits with no request under way). A
card that asked for a PIN and was dropped does not come back in that visit. The card of a web
thing with an error throws (`clsssList`) and leaves Save disabled; a second submit appends types twice.

*Add-on pages.* `availableAddonsLastFetched` is never set, so the list is fetched at every visit, against the
comment at `static/js/views/settings.js` 1070. A search, or a return to the list, while an installation runs shows
"Add" for what is installed; a fetch that fails leaves the old list, and the old form under another title; an
update that fails after the removal leaves a card of an add-on that is gone; further parts of a version are
not compared. A request that is refused may have been done in part: an enabling stores the setting before it loads
the add-on (`addon-manager.ts` 581-584), and the page, told of the refusal, keeps showing it disabled. `PagesTell`
is stated when
nothing is under way and nothing has failed, and excepts what was done in part (`half`); with `Hasty = FALSE` most
of the
answers that overtake one another do not meet.

*User and settings forms.* With `Overtakes = TRUE` the form is filled with another user's name; with
`Hasty = TRUE` late answers overwrite what was chosen meanwhile. Independent of both: passwords that do not match
leave Save disabled for good; Connect stays disabled after another network was opened; the domain's field is
not enabled again when another client has turned mDNS on; `onUpdateClick` removes the wrong listener, so
that a second click starts a second update, and polling never ends if the restart falls between two polls; the
loop over the list of authorizations walks a live collection, so that every second old entry stays; codes are
appended to those before; a box is not put back when a switch fails; late answers
open `/settings/users`, `/settings/addons` or `/settings/network` wherever the user is; two visits to localisation
append its
options twice.

*Rule editor.* A POST, PUT or DELETE that fails is told to nobody: the page goes on as if it had been done (`Fail`,
which changes nothing at
the gateway), and `SavedAsMade` excepts what follows (`lost`). With `Hasty = TRUE` `SavedAsMade` fails: changes
before the answer to the first POST POST the rule
again. Opening "new" makes an empty rule at once; two overlapping `show` merge their blocks; parts of things
that are gone are dropped and saved away by opening the rule (`Now`); opening while a PUT is on its way
writes the old rule back; "While" without typed effects is lost; a rule with both kinds of effects is made
one of one kind; deleting a rule that is not saved throws; a card in another tab overwrites what was
changed since.

*Dragging.* A thing dropped on itself: on its first half `insertBefore` throws after the node was
taken out, and nothing is asked; on its second half it goes to the end of the page and one further at the
gateway (a group has the guard). A second drop before the page is drawn anew computes its index from
attributes of before the first. A request that fails is only logged, and the page keeps showing the
drop. `InPlace` excepts all three. A drop between the answers for things and for groups has the new group with the
old indices.

*Floorplan.* A press that is released beside the icons, and every long press, leaves `selectedThing` set: in
edit mode the next move and click anywhere sends that thing there. Refreshes in edit mode are
ignored and not made up for (`adrift`). A thing that was never placed and whose description is
fetched alone is given the first spot, on top of another (`alone`); clicking it in edit mode stores a spot that
the next new thing is given too. A late answer overwrites a newer position in the page's
description. An icon that disappears while another is held makes the index miss (`gone`). A
coordinate of 0 counts as not placed. Saving the edit form of a hidden thing shows it, and that of one that was never
hidden or shown hides it, since `'floorplanVisibility' in description !== false` tells
whether the key is there (`static/js/schema-impl/capability/thing.js` 87).

*Pages of the things.* Opening the page of a thing the model does not know makes it wait in the queue
behind the job that waits for the page: nothing is refreshed until the page is loaded again
(`stuck`; `ShowsWhatIsOpen` excepts it by `strange`). Late answers draw a thing, a form or events over another page;
the form of an action and the events are drawn over by any refresh, as the former page stays
subscribed.

*Views and messages.* A `load()` that ends late shows its extension wherever the user is by then, and a failed list
of extensions sends the user to the things; an extension that is opened again while it is shown is told to show and then
to hide. "Disconnected" stays on pages of other things and other views and blocks all messages,
until the list is shown; "unreachable" is not shown while it blocks; a thing that connects hides
"unreachable".

## 9. What is not modelled, and why

`PROJECT.json` lists these components with their files. Outside: the programs of the add-ons (external;
their messages are modelled), platforms other than the Raspberry Pi, packaging, updates, uploads and
proxies (commands, files and other servers: pure input and output), push notifications (one loop over
rows), migration of old profiles (not called any more), cryptography. Left out of modelled
components: events of things and lists that only grow, titles, formatting and layout, charts of the logs, colours,
`TimeTrigger` (its hazards are in section 8), effects without state (notifications, actions), the upload of the
picture of the floorplan, things that are hidden from it, groups in `GatewayClient`'s jobs (the same code over
another Map), and
the parts of `linux-raspbian.ts` that read or print (NTP, time zones, updates).

The parts of `AddonManager`, `Plugin` and `Things` that are not mapped answer questions (`getDevices`,
`getProperty`) or are
covered by the same control as their siblings (`Notifier`, `Outlet` as `Adapter`, `Device`).

## 10. Plan

Done, in the order of importance: (1) `ThingPairing` with `ExclusiveSession`, its runs and proofs; (2)
`AddonLifecycle`, `RestartBackoff` and proofs; (3) `DeviceRequests` and proofs; (4) `RuleEngine`, `RuleReaction`;
(5) `ThingLayout`, `ThingFeed`; (6) the records: `AddonPackages`, `AccountRecords`, `MetricLogs`, `ThingRecords`,
`GroupOrder`;
(7) the host: `WiFiSetup`, `HostNetwork`, `TunnelCertificates`; (8) the web interface.

(9) proofs of the safety of the gateway's parts, and of the whole web interface.

Next is the arithmetic of `ThingLayout` (that moving others up or down leaves the indices of a group a
permutation). Abstract specifications worth stating: a *loaded collection* that `Things`, `Groups` and
`Engine` should implement (read once, then the Map is the truth), for the runs without the departures of section 8.

Modules that are to be proved about declare no RECURSIVE operator; none of the modules does.

## Running it

`tlc -workers 2 -config X.cfg M`, with the module and configuration of `PROJECT.json` "runs";
`tlapm M.tla` for the eight `..._proofs` modules.
