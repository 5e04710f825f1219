---------------------------- MODULE ThingPairing ----------------------------
(***************************************************************************)
(* Pairing and removal of things: the gateway actions `pair` and `unpair`  *)
(* (models/actions.ts), DELETE /things/:id (things_controller.ts), the     *)
(* sessions AddonManager keeps for them (addon-manager.ts) and the         *)
(* adapters that answer.                                                   *)
(*                                                                         *)
(* Node runs a callback and the promise reactions it queues to completion  *)
(* before the next callback, so each action below is one callback with its *)
(* microtasks.                                                             *)
(***************************************************************************)
EXTENDS Naturals

CONSTANTS
  Request,     \* pair and unpair actions and DELETE /things requests
  Thing,       \* thing ids; a device and the thing made of it share the id
  Adapter,     \* adapter ids
  Owner,       \* the adapter each device id belongs to
  MaxProxies,  \* bound: AdapterProxy objects created for one adapter id
  NoRequest,   \* null, for a promise owner
  NoThing      \* the target of a pair action

ASSUME OwnerAssumption == Owner \in [Thing -> Adapter]
ASSUME MaxProxiesAssumption == MaxProxies \in Nat
ASSUME NoRequestAssumption == NoRequest \notin Request
ASSUME NoThingAssumption == NoThing \notin Thing

VARIABLES
  kind,              \* "new", or what the request asks for
  target,            \* the thing an unpair or delete names
  status,            \* Action.status
  listed,            \* the request is in Actions.actions
  stage,             \* the promise awaited: AddonManager's, the store's, none
  deferredAdd,       \* owner of AddonManager.deferredAdd
  pairingTimeout,    \* the pairing timer is armed
  adapters,          \* AddonManager.adapters
  devices,           \* AddonManager.devices: the proxy that owns the device
  deferredRemovals,  \* owner of the promise in AddonManager.deferredRemovals
  removalAdapter,    \* deferredRemove.adapter
  removalTimeouts,   \* the removal timer of the thing is armed
  proxy,             \* Plugin.adapters: the number of the current proxy object
  proxyDevices,      \* the devices of that proxy
  alive,             \* the adapter's process is connected
  pairing,           \* that process has been told to pair and not to stop
  things             \* Things.things and the rows of the things table

requestVars == <<kind, target, listed>>
removalVars == <<deferredRemovals, removalAdapter, removalTimeouts>>
processVars == <<proxy, proxyDevices, alive>>
vars == <<requestVars, status, stage, deferredAdd, pairingTimeout, adapters,
          devices, removalVars, processVars, pairing, things>>

ProxyNumber == 0 .. MaxProxies   \* 0: no such object

ActionStatus == {"created", "pending", "completed", "error", "deleted"}

\* What AddonManager, the proxies and the requests hold, and its range.
TypeOK ==
  /\ kind \in [Request -> {"new", "pair", "unpair", "delete"}]
  /\ target \in [Request -> Thing \union {NoThing}]
  /\ status \in [Request -> ActionStatus]
  /\ listed \in [Request -> BOOLEAN]
  /\ stage \in [Request -> {"idle", "manager", "store"}]
  /\ deferredAdd \in Request \union {NoRequest}
  /\ pairingTimeout \in BOOLEAN
  /\ adapters \in SUBSET Adapter
  /\ devices \in [Thing -> ProxyNumber]
  /\ deferredRemovals \in [Thing -> Request \union {NoRequest}]
  /\ removalAdapter \in [Thing -> ProxyNumber]
  /\ removalTimeouts \in [Thing -> BOOLEAN]
  /\ proxy \in [Adapter -> ProxyNumber]
  /\ proxyDevices \in [Adapter -> SUBSET Thing]
  /\ alive \in [Adapter -> BOOLEAN]
  /\ pairing \in [Adapter -> BOOLEAN]
  /\ things \in SUBSET Thing

Init ==
  /\ kind = [r \in Request |-> "new"]
  /\ target = [r \in Request |-> NoThing]
  /\ status = [r \in Request |-> "created"]
  /\ listed = [r \in Request |-> FALSE]
  /\ stage = [r \in Request |-> "idle"]
  /\ deferredAdd = NoRequest
  /\ pairingTimeout = FALSE
  /\ adapters = {}
  /\ devices = [t \in Thing |-> 0]
  /\ deferredRemovals = [t \in Thing |-> NoRequest]
  /\ removalAdapter = [t \in Thing |-> 0]
  /\ removalTimeouts = [t \in Thing |-> FALSE]
  /\ proxy = [a \in Adapter |-> 0]
  /\ proxyDevices = [a \in Adapter |-> {}]
  /\ alive = [a \in Adapter |-> FALSE]
  /\ pairing = [a \in Adapter |-> FALSE]
  /\ things = {}

-----------------------------------------------------------------------------
(* The requests.                                                           *)

\* Faulty: no test for a session in progress.
FaultyPairAlways(r) ==
  /\ kind[r] = "new"
  /\ kind' = [kind EXCEPT ![r] = "pair"]
  /\ listed' = [listed EXCEPT ![r] = TRUE]
  /\ status' = [status EXCEPT ![r] = "pending"]
  /\ stage' = [stage EXCEPT ![r] = "manager"]
  /\ deferredAdd' = r
  /\ pairingTimeout' = TRUE
  /\ pairing' = [a \in Adapter |-> pairing[a] \/ (a \in adapters /\ alive[a])]
  /\ UNCHANGED <<target, adapters, devices, removalVars, processVars, things>>

\* Actions.add of a pair action: addNewThing rejects it when a session is
\* open, and otherwise opens one, tells every adapter and arms the timer.
AddPair(r) ==
  /\ kind[r] = "new"
  /\ kind' = [kind EXCEPT ![r] = "pair"]
  /\ listed' = [listed EXCEPT ![r] = TRUE]
  /\ \/ /\ deferredAdd # NoRequest
        /\ status' = [status EXCEPT ![r] = "error"]
        /\ UNCHANGED <<stage, deferredAdd, pairingTimeout, pairing>>
     \/ /\ deferredAdd = NoRequest
        /\ status' = [status EXCEPT ![r] = "pending"]
        /\ stage' = [stage EXCEPT ![r] = "manager"]
        /\ deferredAdd' = r
        /\ pairingTimeout' = TRUE
        /\ pairing' = [a \in Adapter |-> pairing[a] \/ (a \in adapters /\ alive[a])]
  /\ UNCHANGED <<target, adapters, devices, removalVars, processVars, things>>

\* Faulty: no timer is armed.
FaultyRemoveWithoutTimer(r, t) ==
  IF deferredRemovals[t] = NoRequest /\ devices[t] # 0
  THEN /\ stage' = [stage EXCEPT ![r] = "manager"]
       /\ deferredRemovals' = [deferredRemovals EXCEPT ![t] = r]
       /\ removalAdapter' = [removalAdapter EXCEPT ![t] = devices[t]]
       /\ UNCHANGED removalTimeouts
  ELSE /\ stage' = [stage EXCEPT ![r] = "store"]
       /\ UNCHANGED removalVars

\* AddonManager.removeThing on behalf of r. Its promise is settled at once when
\* there is no such device or a removal is in progress, and the reaction then
\* calls Things.removeThing whatever the outcome was.
RemoveThing(r, t) ==
  IF deferredRemovals[t] = NoRequest /\ devices[t] # 0
  THEN /\ stage' = [stage EXCEPT ![r] = "manager"]
       /\ deferredRemovals' = [deferredRemovals EXCEPT ![t] = r]
       /\ removalAdapter' = [removalAdapter EXCEPT ![t] = devices[t]]
       /\ removalTimeouts' = [removalTimeouts EXCEPT ![t] = TRUE]
  ELSE /\ stage' = [stage EXCEPT ![r] = "store"]
       /\ UNCHANGED removalVars

\* Actions.add of an unpair action.
AddUnpair(r, t) ==
  /\ kind[r] = "new"
  /\ kind' = [kind EXCEPT ![r] = "unpair"]
  /\ target' = [target EXCEPT ![r] = t]
  /\ listed' = [listed EXCEPT ![r] = TRUE]
  /\ status' = [status EXCEPT ![r] = "pending"]
  /\ RemoveThing(r, t)
  /\ UNCHANGED <<deferredAdd, pairingTimeout, adapters, devices, processVars,
                 pairing, things>>

\* DELETE /things/:thingId: the same removal, without an action to list.
DeleteThing(r, t) ==
  /\ kind[r] = "new"
  /\ kind' = [kind EXCEPT ![r] = "delete"]
  /\ target' = [target EXCEPT ![r] = t]
  /\ status' = [status EXCEPT ![r] = "pending"]
  /\ RemoveThing(r, t)
  /\ UNCHANGED <<listed, deferredAdd, pairingTimeout, adapters, devices,
                 processVars, pairing, things>>

\* Faulty: the adapters are not told.
FaultyCancelTellsNobody ==
  /\ pairingTimeout' = FALSE
  /\ deferredAdd' = NoRequest
  /\ UNCHANGED pairing
  /\ stage' = [r \in Request |-> IF r = deferredAdd THEN "idle" ELSE stage[r]]

\* AddonManager.cancelAddNewThing: stop the timer, tell every adapter, resolve.
CancelAddNewThing ==
  /\ pairingTimeout' = FALSE
  /\ deferredAdd' = NoRequest
  /\ pairing' = [a \in Adapter |->
                   pairing[a] /\ ~(deferredAdd # NoRequest /\ a \in adapters)]
  /\ stage' = [r \in Request |-> IF r = deferredAdd THEN "idle" ELSE stage[r]]

\* Faulty: the rejected promise stays in deferredRemovals.
FaultyCancelKeepsPromise(t) ==
  /\ removalTimeouts' = [removalTimeouts EXCEPT ![t] = FALSE]
  /\ stage' = [r \in Request |-> IF r = deferredRemovals[t] THEN "store" ELSE stage[r]]
  /\ UNCHANGED <<removalAdapter, deferredRemovals>>

\* AddonManager.cancelRemoveThing: stop the timer and reject the promise; its
\* owner goes on to Things.removeThing.
CancelRemoveThing(t) ==
  /\ removalTimeouts' = [removalTimeouts EXCEPT ![t] = FALSE]
  /\ deferredRemovals' = [deferredRemovals EXCEPT ![t] = NoRequest]
  /\ stage' = [r \in Request |-> IF r = deferredRemovals[t] THEN "store" ELSE stage[r]]
  /\ UNCHANGED removalAdapter

\* Actions.remove of an action that is not pending any more.
RemoveFinished(r) ==
  /\ listed[r]
  /\ status[r] # "pending"
  /\ listed' = [listed EXCEPT ![r] = FALSE]
  /\ status' = [status EXCEPT ![r] = "deleted"]
  /\ UNCHANGED <<kind, target, stage, deferredAdd, pairingTimeout, adapters,
                 devices, removalVars, processVars, pairing, things>>

\* Actions.remove of a pending pair action. The reaction to the resolved
\* promise sets the status of its owner to completed, after "deleted".
RemovePendingPair(r) ==
  /\ listed[r]
  /\ status[r] = "pending"
  /\ kind[r] = "pair"
  /\ listed' = [listed EXCEPT ![r] = FALSE]
  /\ CancelAddNewThing
  /\ status' = [q \in Request |-> IF q = deferredAdd THEN "completed"
                                  ELSE IF q = r THEN "deleted" ELSE status[q]]
  /\ UNCHANGED <<kind, target, adapters, devices, removalVars, processVars, things>>

\* Actions.remove of a pending unpair action.
RemovePendingUnpair(r) ==
  /\ listed[r]
  /\ status[r] = "pending"
  /\ kind[r] = "unpair"
  /\ listed' = [listed EXCEPT ![r] = FALSE]
  /\ status' = [status EXCEPT ![r] = "deleted"]
  /\ CancelRemoveThing(target[r])
  /\ UNCHANGED <<kind, target, deferredAdd, pairingTimeout, adapters, devices,
                 processVars, pairing, things>>

-----------------------------------------------------------------------------
(* Timers and the store.                                                   *)

\* The timer of addNewThing fires and ends the session.
PairingTimeout ==
  /\ pairingTimeout
  /\ CancelAddNewThing
  /\ status' = [r \in Request |-> IF r = deferredAdd THEN "completed" ELSE status[r]]
  /\ UNCHANGED <<requestVars, adapters, devices, removalVars, processVars, things>>

\* The timer of removeThing fires.
RemovalTimeout(t) ==
  /\ removalTimeouts[t]
  /\ CancelRemoveThing(t)
  /\ UNCHANGED <<requestVars, status, deferredAdd, pairingTimeout, adapters,
                 devices, processVars, pairing, things>>

\* Faulty: the reaction to the promise runs twice.
FaultyStoreRemoveTwice(r) ==
  /\ stage[r] = "store"
  /\ status' = [status EXCEPT ![r] = "completed"]
  /\ things' = things \ {target[r]}
  /\ UNCHANGED <<requestVars, stage, deferredAdd, pairingTimeout, adapters,
                 devices, removalVars, processVars, pairing>>

\* Things.removeThing ends: the row and the Thing are gone, the request is done.
StoreRemove(r) ==
  /\ stage[r] = "store"
  /\ stage' = [stage EXCEPT ![r] = "idle"]
  /\ status' = [status EXCEPT ![r] = "completed"]
  /\ things' = things \ {target[r]}
  /\ UNCHANGED <<requestVars, deferredAdd, pairingTimeout, adapters, devices,
                 removalVars, processVars, pairing>>

\* The database refuses the deletion.
StoreRemoveFails(r) ==
  /\ stage[r] = "store"
  /\ stage' = [stage EXCEPT ![r] = "idle"]
  /\ status' = [status EXCEPT ![r] = "error"]
  /\ UNCHANGED <<requestVars, deferredAdd, pairingTimeout, adapters, devices,
                 removalVars, processVars, pairing, things>>

\* A client saves a thing an adapter has found (Things.createThing).
CreateThing(t) ==
  /\ devices[t] # 0
  /\ t \notin things
  /\ things' = things \union {t}
  /\ UNCHANGED <<requestVars, status, stage, deferredAdd, pairingTimeout,
                 adapters, devices, removalVars, processVars, pairing>>

-----------------------------------------------------------------------------
(* The adapters, through their proxies.                                    *)

\* A process connects and announces its adapter. After a crash this puts a
\* fresh proxy object, with no devices, in the place of the old one.
AdapterAdded(a) ==
  /\ ~alive[a]
  /\ proxy[a] < MaxProxies
  /\ alive' = [alive EXCEPT ![a] = TRUE]
  /\ proxy' = [proxy EXCEPT ![a] = @ + 1]
  /\ proxyDevices' = [proxyDevices EXCEPT ![a] = {}]
  /\ adapters' = adapters \union {a}
  /\ UNCHANGED <<requestVars, status, stage, deferredAdd, pairingTimeout,
                 devices, removalVars, pairing, things>>

\* DEVICE_ADDED_NOTIFICATION: a DeviceProxy of the current proxy object.
DeviceAdded(t) ==
  LET a == Owner[t] IN
  /\ alive[a]
  /\ devices' = [devices EXCEPT ![t] = proxy[a]]
  /\ proxyDevices' = [proxyDevices EXCEPT ![a] = @ \union {t}]
  /\ UNCHANGED <<requestVars, status, stage, deferredAdd, pairingTimeout,
                 adapters, removalVars, proxy, alive, pairing, things>>

\* AddonManager.handleDeviceRemoved for the devices in gone, all of the proxy
\* object of adapter a: stop the timers, and resolve the removals that were
\* asked of this very object.
HandleDevicesRemoved(a, gone) ==
  LET settled == {t \in gone : deferredRemovals[t] # NoRequest /\ removalAdapter[t] = proxy[a]}
      owners == {deferredRemovals[t] : t \in settled}
  IN
  /\ devices' = [t \in Thing |-> IF t \in gone THEN 0 ELSE devices[t]]
  /\ removalTimeouts' = [t \in Thing |-> removalTimeouts[t] /\ t \notin gone]
  /\ deferredRemovals' = [t \in Thing |-> IF t \in settled THEN NoRequest
                                          ELSE deferredRemovals[t]]
  /\ stage' = [r \in Request |-> IF r \in owners THEN "store" ELSE stage[r]]
  /\ UNCHANGED removalAdapter

\* ADAPTER_REMOVE_DEVICE_RESPONSE, in answer to a request or unasked.
DeviceRemoved(t) ==
  LET a == Owner[t] IN
  /\ alive[a]
  /\ t \in proxyDevices[a]
  /\ proxyDevices' = [proxyDevices EXCEPT ![a] = @ \ {t}]
  /\ HandleDevicesRemoved(a, {t})
  /\ UNCHANGED <<requestVars, status, deferredAdd, pairingTimeout, adapters,
                 proxy, alive, pairing, things>>

\* Plugin.unloadComponents: the adapter leaves AddonManager with its devices.
\* The process goes on until it has answered, and may still announce devices.
UnloadAdapter(a) ==
  /\ a \in adapters
  /\ adapters' = adapters \ {a}
  /\ HandleDevicesRemoved(a, proxyDevices[a])
  /\ UNCHANGED <<requestVars, status, deferredAdd, pairingTimeout, processVars,
                 pairing, things>>

\* The process of the adapter ends: it crashed, or it has been unloaded. The
\* proxy objects and the outstanding promises stay as they are.
ProcessEnds(a) ==
  /\ alive[a]
  /\ alive' = [alive EXCEPT ![a] = FALSE]
  /\ pairing' = [pairing EXCEPT ![a] = FALSE]
  /\ UNCHANGED <<requestVars, status, stage, deferredAdd, pairingTimeout,
                 adapters, devices, removalVars, proxy, proxyDevices, things>>

-----------------------------------------------------------------------------
RequestStep(r) ==
  \/ AddPair(r)
  \/ \E t \in Thing : AddUnpair(r, t) \/ DeleteThing(r, t)
  \/ RemoveFinished(r)
  \/ RemovePendingPair(r)
  \/ RemovePendingUnpair(r)
  \/ StoreRemove(r)
  \/ StoreRemoveFails(r)

ThingStep(t) ==
  \/ RemovalTimeout(t)
  \/ CreateThing(t)
  \/ DeviceAdded(t)
  \/ DeviceRemoved(t)

AdapterStep(a) ==
  \/ AdapterAdded(a)
  \/ UnloadAdapter(a)
  \/ ProcessEnds(a)

Next ==
  \/ \E r \in Request : RequestStep(r)
  \/ \E t \in Thing : ThingStep(t)
  \/ \E a \in Adapter : AdapterStep(a)
  \/ PairingTimeout

Spec == Init /\ [][Next]_vars

\* Timers fire and statements of the database end; adapters owe nothing.
Fairness ==
  /\ WF_vars(PairingTimeout)
  /\ \A t \in Thing : WF_vars(RemovalTimeout(t))
  /\ \A r \in Request : WF_vars(StoreRemove(r) \/ StoreRemoveFails(r))

FairSpec == Spec /\ Fairness

-----------------------------------------------------------------------------
(* Properties.                                                             *)

\* A pairing session is open exactly while its timer runs, so it cannot be left
\* open for ever or be closed by the timer of an earlier one.
SessionHasTimer == pairingTimeout <=> deferredAdd # NoRequest

\* A pair action that is pending owns the session. Actions.remove cancels the
\* session of AddonManager, whoever owns it, for any pending pair action: this is
\* why deleting one action cannot end the pairing of another.
PendingPairOwnsSession ==
  \A r \in Request : kind[r] = "pair" /\ status[r] = "pending" => deferredAdd = r

\* An adapter AddonManager knows pairs only while a session is open: whatever
\* ends the session reaches every adapter that was told to pair.
NoStrayPairing ==
  \A a \in adapters : pairing[a] => deferredAdd # NoRequest

\* A removal timer runs only for a removal in progress: one left over would
\* cancel a later removal of the same thing early.
RemovalTimerHasRemoval ==
  \A t \in Thing : removalTimeouts[t] => deferredRemovals[t] # NoRequest

\* Sessions and removals are kept: each has its own timer, a pending pair action owns
\* the session, and adapters pair for no other reason (AddonManager.addNewThing,
\* cancelAddNewThing, removeThing, cancelRemoveThing).
SessionsKept ==
  SessionHasTimer /\ PendingPairOwnsSession /\ NoStrayPairing /\ RemovalTimerHasRemoval

\* A request waits for AddonManager exactly when AddonManager holds its promise,
\* in the place its kind and its target say.
WaitersAreHeld ==
  \A r \in Request :
    stage[r] = "manager" <=> \/ deferredAdd = r /\ kind[r] = "pair"
                             \/ \E t \in Thing : /\ deferredRemovals[t] = r
                                                 /\ target[r] = t
                                                 /\ kind[r] \in {"unpair", "delete"}

\* While an action is listed its outcome does not change: no promise that is
\* settled late, or twice, overwrites it.
OutcomeStable ==
  [][\A r \in Request :
        listed[r] /\ listed'[r] /\ status[r] \in {"completed", "error"}
          => status'[r] = status[r]]_vars

\* Every removal AddonManager has taken on is settled in the end, which the
\* documentation of removeThing promises to the caller. It fails when the device
\* comes back under another proxy object while the removal waits.
RemovalsSettle ==
  \A r \in Request : stage[r] = "manager" ~> stage[r] # "manager"

\* What a request is to the session of pairing, and to that of the removal of a thing.
PairPhase ==
  [r \in Request |-> IF kind[r] # "pair" THEN "idle"
                     ELSE IF stage[r] = "manager" THEN "open" ELSE "closed"]

RemovalPhase(t) ==
  [r \in Request |-> IF target[r] # t THEN "idle"
                     ELSE IF stage[r] = "manager" THEN "open" ELSE "closed"]

PairingSession == INSTANCE ExclusiveSession
  WITH Caller <- Request, Nobody <- NoRequest, holder <- deferredAdd, phase <- PairPhase

RemovalSession(t) == INSTANCE ExclusiveSession
  WITH Caller <- Request, Nobody <- NoRequest, holder <- deferredRemovals[t],
       phase <- RemovalPhase(t)

\* The promises addNewThing hands out behave as ExclusiveSession says: granted to one caller
\* at a time, refused to the others, settled once.  Those of removeThing do so for every thing.
SessionsImplemented ==
  /\ PairingSession!SessionSafety
  /\ \A t \in Thing : RemovalSession(t)!SessionInit
  /\ [][\A t \in Thing : RemovalSession(t)!SessionNext
                       \/ UNCHANGED <<deferredRemovals[t], RemovalPhase(t)>>]_vars

\* Pairing always ends, as ExclusiveSession says.  Again and again every request made so far
\* has ended, whatever adapters do: none is left waiting, but a removal from an adapter that
\* is added twice.
RequestsEnd ==
  /\ PairingSession!SessionEnds
  /\ []<>(\A r \in Request :
            \/ kind[r] = "new"
            \/ stage[r] = "idle" /\ status[r] # "pending"
            \/ kind[r] # "pair" /\ proxy[Owner[target[r]]] > 1)
=============================================================================
