-------------------------- MODULE MCDevices_proofs --------------------------
(***************************************************************************)
(* The type invariants and the safety invariants of ThingPairing and       *)
(* DeviceRequests hold in every reachable state, for any sets of requests, *)
(* things and adapters, and pairing and removal refine ExclusiveSession.   *)
(* Their composition is a behaviour of each.                               *)
(***************************************************************************)
EXTENDS MCDevices, TLAPS

-----------------------------------------------------------------------------
(* Pairing and removal (ThingPairing).                                     *)
\* The kinds of request that remove a thing.
Removes(r) == kind[r] \in {"unpair", "delete"}

\* What a request that has not been made, or has gone to the store, looks like.
RequestShape ==
  \A r \in Request :
    /\ kind[r] = "new" => stage[r] = "idle" /\ status[r] = "created" /\ ~listed[r]
    /\ Removes(r) => target[r] \in Thing
    /\ stage[r] = "store" => Removes(r)
    /\ listed[r] /\ stage[r] # "idle" => status[r] = "pending"

\* The promises AddonManager holds belong to requests that wait for it.
HeldWait ==
  /\ deferredAdd # NoRequest => kind[deferredAdd] = "pair" /\ stage[deferredAdd] = "manager"
  /\ \A t \in Thing :
       LET r == deferredRemovals[t] IN
       r # NoRequest => Removes(r) /\ target[r] = t /\ stage[r] = "manager"

\* A process that is not connected is not pairing.
PairingIsAlive == \A a \in Adapter : pairing[a] => alive[a]

\* The inductive invariant: the invariants that are checked need the shape of the
\* requests and the converse of WaitersAreHeld to be preserved by every step.
IInv ==
  /\ TypeOK
  /\ RequestShape
  /\ HeldWait
  /\ WaitersAreHeld
  /\ SessionHasTimer
  /\ PendingPairOwnsSession
  /\ PairingIsAlive
  /\ NoStrayPairing
  /\ RemovalTimerHasRemoval

\* Types are preserved by every step; stated apart because every other proof needs it.
LEMMA TypePreserved == TypeOK /\ [Next]_vars => TypeOK'
<1> SUFFICES ASSUME TypeOK, [Next]_vars PROVE TypeOK'
  OBVIOUS
<1> USE OwnerAssumption, MaxProxiesAssumption
    DEF TypeOK, ActionStatus, ProxyNumber, requestVars, removalVars, processVars
<1>1. ASSUME NEW r \in Request, AddPair(r) PROVE TypeOK'
  BY ZenonT(60), <1>1 DEF AddPair
<1>2. ASSUME NEW r \in Request, NEW t \in Thing, AddUnpair(r, t) PROVE TypeOK'
  <2>1. CASE deferredRemovals[t] = NoRequest /\ devices[t] # 0
    BY ZenonT(60), <1>2, <2>1 DEF AddUnpair, RemoveThing
  <2>2. CASE ~(deferredRemovals[t] = NoRequest /\ devices[t] # 0)
    BY <1>2, <2>2 DEF AddUnpair, RemoveThing
  <2>3. QED
    BY <2>1, <2>2
<1>3. ASSUME NEW r \in Request, NEW t \in Thing, DeleteThing(r, t) PROVE TypeOK'
  <2>1. CASE deferredRemovals[t] = NoRequest /\ devices[t] # 0
    BY ZenonT(60), <1>3, <2>1 DEF DeleteThing, RemoveThing
  <2>2. CASE ~(deferredRemovals[t] = NoRequest /\ devices[t] # 0)
    BY <1>3, <2>2 DEF DeleteThing, RemoveThing
  <2>3. QED
    BY <2>1, <2>2
<1>4. ASSUME NEW r \in Request, RemoveFinished(r) PROVE TypeOK'
  BY <1>4 DEF RemoveFinished
<1>5. ASSUME NEW r \in Request, RemovePendingPair(r) PROVE TypeOK'
  BY <1>5 DEF RemovePendingPair, CancelAddNewThing
<1>6. ASSUME NEW r \in Request, RemovePendingUnpair(r) PROVE TypeOK'
  BY <1>6 DEF RemovePendingUnpair, CancelRemoveThing
<1>7. ASSUME NEW r \in Request, StoreRemove(r) PROVE TypeOK'
  BY <1>7 DEF StoreRemove
<1>8. ASSUME NEW r \in Request, StoreRemoveFails(r) PROVE TypeOK'
  BY <1>8 DEF StoreRemoveFails
<1>9. ASSUME NEW t \in Thing, RemovalTimeout(t) PROVE TypeOK'
  BY <1>9 DEF RemovalTimeout, CancelRemoveThing
<1>10. ASSUME NEW t \in Thing, CreateThing(t) PROVE TypeOK'
  BY <1>10 DEF CreateThing
<1>11. ASSUME NEW t \in Thing, DeviceAdded(t) PROVE TypeOK'
  BY <1>11 DEF DeviceAdded
<1>12. ASSUME NEW t \in Thing, DeviceRemoved(t) PROVE TypeOK'
  BY <1>12 DEF DeviceRemoved, HandleDevicesRemoved
<1>13. ASSUME NEW a \in Adapter, AdapterAdded(a) PROVE TypeOK'
  BY <1>13 DEF AdapterAdded
<1>14. ASSUME NEW a \in Adapter, UnloadAdapter(a) PROVE TypeOK'
  BY <1>14 DEF UnloadAdapter, HandleDevicesRemoved
<1>15. ASSUME NEW a \in Adapter, ProcessEnds(a) PROVE TypeOK'
  BY <1>15 DEF ProcessEnds
<1>16. CASE PairingTimeout
  BY <1>16 DEF PairingTimeout, CancelAddNewThing
<1>17. CASE UNCHANGED vars
  BY <1>17 DEF vars
<1>18. QED
  BY <1>1, <1>2, <1>3, <1>4, <1>5, <1>6, <1>7, <1>8, <1>9, <1>10, <1>11,
     <1>12, <1>13, <1>14, <1>15, <1>16, <1>17
     DEF Next, RequestStep, ThingStep, AdapterStep

\* The initial state is well typed.
LEMMA InitTyped == Init => TypeOK
<1>1. ASSUME Init PROVE TypeOK
  <2>1. /\ kind \in [Request -> {"new", "pair", "unpair", "delete"}]
        /\ target \in [Request -> Thing \union {NoThing}]
        /\ status \in [Request -> ActionStatus]
        /\ listed \in [Request -> BOOLEAN]
        /\ stage \in [Request -> {"idle", "manager", "store"}]
    BY <1>1 DEF Init, ActionStatus
  <2>2. /\ devices \in [Thing -> ProxyNumber]
        /\ deferredRemovals \in [Thing -> Request \union {NoRequest}]
        /\ removalAdapter \in [Thing -> ProxyNumber]
        /\ removalTimeouts \in [Thing -> BOOLEAN]
        /\ proxy \in [Adapter -> ProxyNumber]
    BY <1>1, MaxProxiesAssumption DEF Init, ProxyNumber
  <2>3. /\ proxyDevices \in [Adapter -> SUBSET Thing]
        /\ alive \in [Adapter -> BOOLEAN]
        /\ pairing \in [Adapter -> BOOLEAN]
        /\ deferredAdd \in Request \union {NoRequest}
        /\ pairingTimeout \in BOOLEAN
        /\ adapters \in SUBSET Adapter
        /\ things \in SUBSET Thing
    BY <1>1 DEF Init
  <2>4. QED
    BY <2>1, <2>2, <2>3 DEF TypeOK
<1>2. QED
  BY <1>1

\* Type correctness of the pairing and removal model.
THEOREM TypeCorrect == Spec => []TypeOK
<1>1. QED
  BY InitTyped, TypePreserved, PTL DEF Spec

\* The strengthened invariant is kept by every request, timer and adapter message.
LEMMA InvPreserved == IInv /\ [Next]_vars => IInv'
<1> SUFFICES ASSUME IInv, [Next]_vars PROVE IInv'
  OBVIOUS
<1>0. TypeOK'
  BY TypePreserved DEF IInv
<1> USE NoRequestAssumption, NoThingAssumption
    DEF TypeOK, IInv, requestVars, removalVars, processVars
<1>1. ASSUME NEW r \in Request, AddPair(r) PROVE IInv'
  <2>1. RequestShape'
    BY <1>0, <1>1 DEF AddPair, RequestShape, Removes, HeldWait
  <2>2. HeldWait'
    BY <1>0, <1>1 DEF AddPair, HeldWait, Removes
  <2>3. WaitersAreHeld'
    BY <1>0, <1>1 DEF AddPair, WaitersAreHeld, HeldWait, RequestShape, Removes
  <2>4. SessionHasTimer'
    BY <1>0, <1>1 DEF AddPair, SessionHasTimer
  <2>5. PendingPairOwnsSession'
    BY <1>0, <1>1 DEF AddPair, PendingPairOwnsSession
  <2>6. PairingIsAlive'
    BY <1>0, <1>1 DEF AddPair, PairingIsAlive
  <2>7. NoStrayPairing'
    BY <1>0, <1>1 DEF AddPair, NoStrayPairing, PairingIsAlive
  <2>8. RemovalTimerHasRemoval'
    BY <1>0, <1>1 DEF AddPair, RemovalTimerHasRemoval
  <2> QED
    BY <1>0, <2>1, <2>2, <2>3, <2>4, <2>5, <2>6, <2>7, <2>8
<1>2. ASSUME NEW r \in Request, NEW t \in Thing, AddUnpair(r, t) PROVE IInv'
  <2>1. RequestShape'
    BY <1>0, <1>2 DEF AddUnpair, RemoveThing, RequestShape, Removes, HeldWait
  <2>2. HeldWait'
    BY <1>0, <1>2 DEF AddUnpair, RemoveThing, HeldWait, Removes
  <2>3. WaitersAreHeld'
    BY <1>0, <1>2 DEF AddUnpair, RemoveThing, WaitersAreHeld, HeldWait, RequestShape, Removes
  <2>4. SessionHasTimer'
    BY <1>0, <1>2 DEF AddUnpair, RemoveThing, SessionHasTimer
  <2>5. PendingPairOwnsSession'
    BY <1>0, <1>2 DEF AddUnpair, RemoveThing, PendingPairOwnsSession
  <2>6. PairingIsAlive'
    BY <1>0, <1>2 DEF AddUnpair, RemoveThing, PairingIsAlive
  <2>7. NoStrayPairing'
    BY <1>0, <1>2 DEF AddUnpair, RemoveThing, NoStrayPairing, PairingIsAlive
  <2>8. RemovalTimerHasRemoval'
    BY <1>0, <1>2 DEF AddUnpair, RemoveThing, RemovalTimerHasRemoval
  <2> QED
    BY <1>0, <2>1, <2>2, <2>3, <2>4, <2>5, <2>6, <2>7, <2>8
<1>3. ASSUME NEW r \in Request, NEW t \in Thing, DeleteThing(r, t) PROVE IInv'
  <2>1. RequestShape'
    BY <1>0, <1>3 DEF DeleteThing, RemoveThing, RequestShape, Removes, HeldWait
  <2>2. HeldWait'
    BY <1>0, <1>3 DEF DeleteThing, RemoveThing, HeldWait, Removes
  <2>3. WaitersAreHeld'
    BY <1>0, <1>3 DEF DeleteThing, RemoveThing, WaitersAreHeld, HeldWait, RequestShape, Removes
  <2>4. SessionHasTimer'
    BY <1>0, <1>3 DEF DeleteThing, RemoveThing, SessionHasTimer
  <2>5. PendingPairOwnsSession'
    BY <1>0, <1>3 DEF DeleteThing, RemoveThing, PendingPairOwnsSession
  <2>6. PairingIsAlive'
    BY <1>0, <1>3 DEF DeleteThing, RemoveThing, PairingIsAlive
  <2>7. NoStrayPairing'
    BY <1>0, <1>3 DEF DeleteThing, RemoveThing, NoStrayPairing, PairingIsAlive
  <2>8. RemovalTimerHasRemoval'
    BY <1>0, <1>3 DEF DeleteThing, RemoveThing, RemovalTimerHasRemoval
  <2> QED
    BY <1>0, <2>1, <2>2, <2>3, <2>4, <2>5, <2>6, <2>7, <2>8
<1>4. ASSUME NEW r \in Request, RemoveFinished(r) PROVE IInv'
  BY <1>0, <1>4 DEF RemoveFinished, RequestShape, Removes, HeldWait, WaitersAreHeld,
     SessionHasTimer, PendingPairOwnsSession, PairingIsAlive, NoStrayPairing,
     RemovalTimerHasRemoval
<1>5. ASSUME NEW r \in Request, RemovePendingPair(r) PROVE IInv'
  <2>1. RequestShape'
    BY <1>0, <1>5 DEF RemovePendingPair, CancelAddNewThing, RequestShape, Removes, HeldWait
  <2>2. HeldWait'
    BY <1>0, <1>5 DEF RemovePendingPair, CancelAddNewThing, HeldWait, Removes
  <2>3. WaitersAreHeld'
    BY <1>0, <1>5
       DEF RemovePendingPair, CancelAddNewThing, WaitersAreHeld, HeldWait, RequestShape, Removes
  <2>4. SessionHasTimer'
    BY <1>0, <1>5 DEF RemovePendingPair, CancelAddNewThing, SessionHasTimer
  <2>5. PendingPairOwnsSession'
    BY <1>0, <1>5 DEF RemovePendingPair, CancelAddNewThing, PendingPairOwnsSession
  <2>6. PairingIsAlive'
    BY <1>0, <1>5 DEF RemovePendingPair, CancelAddNewThing, PairingIsAlive
  <2>7. NoStrayPairing'
    BY <1>0, <1>5 DEF RemovePendingPair, CancelAddNewThing, NoStrayPairing, PairingIsAlive
  <2>8. RemovalTimerHasRemoval'
    BY <1>0, <1>5 DEF RemovePendingPair, CancelAddNewThing, RemovalTimerHasRemoval
  <2> QED
    BY <1>0, <2>1, <2>2, <2>3, <2>4, <2>5, <2>6, <2>7, <2>8
<1>6. ASSUME NEW r \in Request, RemovePendingUnpair(r) PROVE IInv'
  <2>1. RequestShape'
    BY <1>0, <1>6 DEF RemovePendingUnpair, CancelRemoveThing, RequestShape, Removes, HeldWait
  <2>2. HeldWait'
    BY <1>0, <1>6 DEF RemovePendingUnpair, CancelRemoveThing, HeldWait, Removes
  <2>3. WaitersAreHeld'
    BY <1>0, <1>6
       DEF RemovePendingUnpair, CancelRemoveThing, WaitersAreHeld, HeldWait, RequestShape, Removes
  <2>4. SessionHasTimer'
    BY <1>0, <1>6 DEF RemovePendingUnpair, CancelRemoveThing, SessionHasTimer
  <2>5. PendingPairOwnsSession'
    BY <1>0, <1>6 DEF RemovePendingUnpair, CancelRemoveThing, PendingPairOwnsSession
  <2>6. PairingIsAlive'
    BY <1>0, <1>6 DEF RemovePendingUnpair, CancelRemoveThing, PairingIsAlive
  <2>7. NoStrayPairing'
    BY <1>0, <1>6 DEF RemovePendingUnpair, CancelRemoveThing, NoStrayPairing, PairingIsAlive
  <2>8. RemovalTimerHasRemoval'
    BY <1>0, <1>6 DEF RemovePendingUnpair, CancelRemoveThing, RemovalTimerHasRemoval
  <2> QED
    BY <1>0, <2>1, <2>2, <2>3, <2>4, <2>5, <2>6, <2>7, <2>8
<1>7. ASSUME NEW r \in Request, StoreRemove(r) PROVE IInv'
  BY <1>0, <1>7 DEF StoreRemove, RequestShape, Removes, HeldWait, WaitersAreHeld,
     SessionHasTimer, PendingPairOwnsSession, PairingIsAlive, NoStrayPairing,
     RemovalTimerHasRemoval
<1>8. ASSUME NEW r \in Request, StoreRemoveFails(r) PROVE IInv'
  BY <1>0, <1>8 DEF StoreRemoveFails, RequestShape, Removes, HeldWait, WaitersAreHeld,
     SessionHasTimer, PendingPairOwnsSession, PairingIsAlive, NoStrayPairing,
     RemovalTimerHasRemoval
<1>9. ASSUME NEW t \in Thing, RemovalTimeout(t) PROVE IInv'
  <2>1. RequestShape'
    BY <1>0, <1>9 DEF RemovalTimeout, CancelRemoveThing, RequestShape, Removes, HeldWait
  <2>2. HeldWait'
    BY <1>0, <1>9 DEF RemovalTimeout, CancelRemoveThing, HeldWait, Removes
  <2>3. WaitersAreHeld'
    BY <1>0, <1>9
       DEF RemovalTimeout, CancelRemoveThing, WaitersAreHeld, HeldWait, RequestShape, Removes
  <2>4. SessionHasTimer'
    BY <1>0, <1>9 DEF RemovalTimeout, CancelRemoveThing, SessionHasTimer
  <2>5. PendingPairOwnsSession'
    BY <1>0, <1>9 DEF RemovalTimeout, CancelRemoveThing, PendingPairOwnsSession
  <2>6. PairingIsAlive'
    BY <1>0, <1>9 DEF RemovalTimeout, CancelRemoveThing, PairingIsAlive
  <2>7. NoStrayPairing'
    BY <1>0, <1>9 DEF RemovalTimeout, CancelRemoveThing, NoStrayPairing, PairingIsAlive
  <2>8. RemovalTimerHasRemoval'
    BY <1>0, <1>9 DEF RemovalTimeout, CancelRemoveThing, RemovalTimerHasRemoval
  <2> QED
    BY <1>0, <2>1, <2>2, <2>3, <2>4, <2>5, <2>6, <2>7, <2>8
<1>10. ASSUME NEW t \in Thing, CreateThing(t) PROVE IInv'
  BY <1>0, <1>10 DEF CreateThing, RequestShape, Removes, HeldWait, WaitersAreHeld,
     SessionHasTimer, PendingPairOwnsSession, PairingIsAlive, NoStrayPairing,
     RemovalTimerHasRemoval
<1>11. ASSUME NEW t \in Thing, DeviceAdded(t) PROVE IInv'
  BY <1>0, <1>11 DEF DeviceAdded, RequestShape, Removes, HeldWait, WaitersAreHeld,
     SessionHasTimer, PendingPairOwnsSession, PairingIsAlive, NoStrayPairing,
     RemovalTimerHasRemoval
<1>12. ASSUME NEW t \in Thing, DeviceRemoved(t) PROVE IInv'
  <2>1. RequestShape'
    BY <1>0, <1>12 DEF DeviceRemoved, HandleDevicesRemoved, RequestShape, Removes, HeldWait
  <2>2. HeldWait'
    BY <1>0, <1>12 DEF DeviceRemoved, HandleDevicesRemoved, HeldWait, Removes
  <2>3. WaitersAreHeld'
    BY <1>0, <1>12
       DEF DeviceRemoved, HandleDevicesRemoved, WaitersAreHeld, HeldWait, RequestShape, Removes
  <2>4. SessionHasTimer'
    BY <1>0, <1>12 DEF DeviceRemoved, HandleDevicesRemoved, SessionHasTimer
  <2>5. PendingPairOwnsSession'
    BY <1>0, <1>12 DEF DeviceRemoved, HandleDevicesRemoved, PendingPairOwnsSession
  <2>6. PairingIsAlive'
    BY <1>0, <1>12 DEF DeviceRemoved, HandleDevicesRemoved, PairingIsAlive
  <2>7. NoStrayPairing'
    BY <1>0, <1>12 DEF DeviceRemoved, HandleDevicesRemoved, NoStrayPairing, PairingIsAlive
  <2>8. RemovalTimerHasRemoval'
    BY <1>0, <1>12 DEF DeviceRemoved, HandleDevicesRemoved, RemovalTimerHasRemoval
  <2> QED
    BY <1>0, <2>1, <2>2, <2>3, <2>4, <2>5, <2>6, <2>7, <2>8
<1>13. ASSUME NEW a \in Adapter, AdapterAdded(a) PROVE IInv'
  BY <1>0, <1>13 DEF AdapterAdded, RequestShape, Removes, HeldWait, WaitersAreHeld,
     SessionHasTimer, PendingPairOwnsSession, PairingIsAlive, NoStrayPairing,
     RemovalTimerHasRemoval
<1>14. ASSUME NEW a \in Adapter, UnloadAdapter(a) PROVE IInv'
  <2>1. RequestShape'
    BY <1>0, <1>14 DEF UnloadAdapter, HandleDevicesRemoved, RequestShape, Removes, HeldWait
  <2>2. HeldWait'
    BY <1>0, <1>14 DEF UnloadAdapter, HandleDevicesRemoved, HeldWait, Removes
  <2>3. WaitersAreHeld'
    BY <1>0, <1>14
       DEF UnloadAdapter, HandleDevicesRemoved, WaitersAreHeld, HeldWait, RequestShape, Removes
  <2>4. SessionHasTimer'
    BY <1>0, <1>14 DEF UnloadAdapter, HandleDevicesRemoved, SessionHasTimer
  <2>5. PendingPairOwnsSession'
    BY <1>0, <1>14 DEF UnloadAdapter, HandleDevicesRemoved, PendingPairOwnsSession
  <2>6. PairingIsAlive'
    BY <1>0, <1>14 DEF UnloadAdapter, HandleDevicesRemoved, PairingIsAlive
  <2>7. NoStrayPairing'
    BY <1>0, <1>14 DEF UnloadAdapter, HandleDevicesRemoved, NoStrayPairing, PairingIsAlive
  <2>8. RemovalTimerHasRemoval'
    BY <1>0, <1>14 DEF UnloadAdapter, HandleDevicesRemoved, RemovalTimerHasRemoval
  <2> QED
    BY <1>0, <2>1, <2>2, <2>3, <2>4, <2>5, <2>6, <2>7, <2>8
<1>15. ASSUME NEW a \in Adapter, ProcessEnds(a) PROVE IInv'
  BY <1>0, <1>15 DEF ProcessEnds, RequestShape, Removes, HeldWait, WaitersAreHeld,
     SessionHasTimer, PendingPairOwnsSession, PairingIsAlive, NoStrayPairing,
     RemovalTimerHasRemoval
<1>16. CASE PairingTimeout
  <2>1. RequestShape'
    BY <1>0, <1>16 DEF PairingTimeout, CancelAddNewThing, RequestShape, Removes, HeldWait
  <2>2. HeldWait'
    BY <1>0, <1>16 DEF PairingTimeout, CancelAddNewThing, HeldWait, Removes
  <2>3. WaitersAreHeld'
    BY <1>0, <1>16
       DEF PairingTimeout, CancelAddNewThing, WaitersAreHeld, HeldWait, RequestShape, Removes
  <2>4. SessionHasTimer'
    BY <1>0, <1>16 DEF PairingTimeout, CancelAddNewThing, SessionHasTimer
  <2>5. PendingPairOwnsSession'
    BY <1>0, <1>16 DEF PairingTimeout, CancelAddNewThing, PendingPairOwnsSession
  <2>6. PairingIsAlive'
    BY <1>0, <1>16 DEF PairingTimeout, CancelAddNewThing, PairingIsAlive
  <2>7. NoStrayPairing'
    BY <1>0, <1>16 DEF PairingTimeout, CancelAddNewThing, NoStrayPairing, PairingIsAlive
  <2>8. RemovalTimerHasRemoval'
    BY <1>0, <1>16 DEF PairingTimeout, CancelAddNewThing, RemovalTimerHasRemoval
  <2> QED
    BY <1>0, <2>1, <2>2, <2>3, <2>4, <2>5, <2>6, <2>7, <2>8
<1>17. CASE UNCHANGED vars
  BY <1>17 DEF vars, RequestShape, Removes, HeldWait, WaitersAreHeld, SessionHasTimer,
     PendingPairOwnsSession, PairingIsAlive, NoStrayPairing, RemovalTimerHasRemoval
<1>18. QED
  BY <1>1, <1>2, <1>3, <1>4, <1>5, <1>6, <1>7, <1>8, <1>9, <1>10, <1>11,
     <1>12, <1>13, <1>14, <1>15, <1>16, <1>17
     DEF Next, RequestStep, ThingStep, AdapterStep

\* The strengthened invariant holds before anything was asked.
LEMMA InvInit == Init => IInv
<1> SUFFICES ASSUME Init PROVE IInv
  OBVIOUS
<1>1. TypeOK
  BY InitTyped
<1>2. QED
  BY <1>1, NoRequestAssumption, NoThingAssumption
     DEF Init, IInv, RequestShape, Removes, HeldWait, WaitersAreHeld, SessionHasTimer,
         PendingPairOwnsSession, PairingIsAlive, NoStrayPairing, RemovalTimerHasRemoval

\* The inductive invariant holds in every reachable state.
THEOREM Invariance == Spec => []IInv
<1>1. QED
  BY InvInit, InvPreserved, PTL DEF Spec

\* A pairing session and its timer live and die together.
THEOREM SessionTimer == Spec => []SessionHasTimer
<1>1. IInv => SessionHasTimer
  BY DEF IInv
<1>2. QED
  BY <1>1, Invariance, PTL

\* Deleting a pending pair action ends its own session and no other.
THEOREM PendingOwns == Spec => []PendingPairOwnsSession
<1>1. IInv => PendingPairOwnsSession
  BY DEF IInv
<1>2. QED
  BY <1>1, Invariance, PTL

\* No adapter that AddonManager knows pairs outside a session.
THEOREM StrayPairing == Spec => []NoStrayPairing
<1>1. IInv => NoStrayPairing
  BY DEF IInv
<1>2. QED
  BY <1>1, Invariance, PTL

\* No removal timer outlives its removal.
THEOREM RemovalTimer == Spec => []RemovalTimerHasRemoval
<1>1. IInv => RemovalTimerHasRemoval
  BY DEF IInv
<1>2. QED
  BY <1>1, Invariance, PTL

\* Sessions and removals have their timers, and a session its owner.
THEOREM SessionsAreKept == Spec => []SessionsKept
<1>1. QED
  BY SessionTimer, PendingOwns, StrayPairing, RemovalTimer, PTL DEF SessionsKept

\* The requests that wait for AddonManager are those whose promises it holds.
THEOREM Waiters == Spec => []WaitersAreHeld
<1>1. IInv => WaitersAreHeld
  BY DEF IInv
<1>2. QED
  BY <1>1, Invariance, PTL

\* A listed action keeps the outcome it got.
THEOREM Outcome == Spec => OutcomeStable
<1>1. ASSUME IInv, [Next]_vars
      PROVE  [\A r \in Request :
                listed[r] /\ listed'[r] /\ status[r] \in {"completed", "error"}
                  => status'[r] = status[r]]_vars
  <2> SUFFICES ASSUME NEW r \in Request, Next,
                      listed[r], listed'[r], status[r] \in {"completed", "error"}
               PROVE  status'[r] = status[r]
    BY <1>1
  <2>0. IInv
    BY <1>1
  <2>1. stage[r] = "idle" /\ kind[r] # "new" /\ status \in [Request -> ActionStatus]
    BY <2>0 DEF IInv, RequestShape, TypeOK
  <2>2. deferredAdd # r
    BY <1>1, <2>1, NoRequestAssumption DEF IInv, HeldWait
  <2>3. ASSUME NEW q \in Request, RequestStep(q) PROVE status'[r] = status[r]
    <3>1. CASE \/ AddPair(q)
               \/ \E t \in Thing : AddUnpair(q, t) \/ DeleteThing(q, t)
      BY <2>1, <3>1 DEF AddPair, AddUnpair, DeleteThing
    <3>2. CASE RemoveFinished(q) \/ RemovePendingUnpair(q)
      BY <2>1, <3>2, <2>0 DEF RemoveFinished, RemovePendingUnpair, IInv, TypeOK
    <3>3. CASE RemovePendingPair(q)
      BY <2>1, <2>2, <3>3, <2>0 DEF RemovePendingPair, IInv, TypeOK
    <3>4. CASE StoreRemove(q) \/ StoreRemoveFails(q)
      BY <2>1, <3>4 DEF StoreRemove, StoreRemoveFails
    <3>5. QED
      BY <2>3, <3>1, <3>2, <3>3, <3>4 DEF RequestStep
  <2>4. ASSUME NEW t \in Thing, ThingStep(t) PROVE status'[r] = status[r]
    BY <2>4 DEF ThingStep, RemovalTimeout, CreateThing, DeviceAdded, DeviceRemoved
  <2>5. ASSUME NEW a \in Adapter, AdapterStep(a) PROVE status'[r] = status[r]
    BY <2>5 DEF AdapterStep, AdapterAdded, UnloadAdapter, ProcessEnds
  <2>6. CASE PairingTimeout
    BY <2>2, <2>6 DEF PairingTimeout
  <2>7. QED
    BY <2>3, <2>4, <2>5, <2>6 DEF Next
<1>2. QED
  BY <1>1, Invariance, PTL DEF Spec, OutcomeStable

-----------------------------------------------------------------------------
(* Refinement: every step of the model opens, turns away or closes the     *)
(* exclusive session, or leaves it alone.                                  *)

\* The phase of a pair action changes only in AddPair and when its session ends.
LEMMA PairingInit == Init => PairingSession!SessionInit
<1>1. QED
  BY DEF Init, PairingSession!SessionInit, PairPhase

\* What cancelAddNewThing does to the session.
LEMMA CancelCloses ==
  ASSUME IInv, CancelAddNewThing, UNCHANGED kind
  PROVE  PairingSession!Close \/ UNCHANGED <<deferredAdd, PairPhase>>
<1> USE NoRequestAssumption DEF IInv, TypeOK
<1>1. CASE deferredAdd = NoRequest
  <2>1. stage' = stage
    BY <1>1 DEF CancelAddNewThing
  <2>2. QED
    BY <1>1, <2>1 DEF CancelAddNewThing, PairPhase
<1>2. CASE deferredAdd # NoRequest
  <2>1. deferredAdd \in Request /\ kind[deferredAdd] = "pair"
    BY <1>2 DEF HeldWait
  <2>2. PairPhase' = [PairPhase EXCEPT ![deferredAdd] = "closed"]
    BY <2>1 DEF CancelAddNewThing, PairPhase
  <2>3. QED
    BY <1>2, <2>2 DEF CancelAddNewThing, PairingSession!Close
<1>3. QED
  BY <1>1, <1>2

\* Every step of the model is a step of the session of addNewThing or a stutter.
LEMMA PairingStep ==
  IInv /\ [Next]_vars => [PairingSession!SessionNext]_<<deferredAdd, PairPhase>>
<1> SUFFICES ASSUME IInv, [Next]_vars
             PROVE  PairingSession!SessionNext \/ UNCHANGED <<deferredAdd, PairPhase>>
  BY DEF PairingSession!SessionNext
<1> USE NoRequestAssumption
<1> DEFINE Same == UNCHANGED <<deferredAdd, PairPhase>>
<1>1. ASSUME NEW r \in Request, AddPair(r)
      PROVE  PairingSession!Open(r) \/ PairingSession!TurnAway(r)
  <2>1. CASE deferredAdd = NoRequest
    BY ZenonT(60), <1>1, <2>1 DEF AddPair, PairingSession!Open, PairPhase, IInv, TypeOK
  <2>2. CASE deferredAdd # NoRequest
    BY <1>1, <2>2 DEF AddPair, PairingSession!TurnAway, PairPhase, IInv, TypeOK, RequestShape
  <2>3. QED
    BY <2>1, <2>2
<1>2. ASSUME NEW r \in Request, NEW t \in Thing, AddUnpair(r, t) \/ DeleteThing(r, t)
      PROVE  Same
  <2>1. deferredAdd' = deferredAdd
    BY <1>2 DEF AddUnpair, DeleteThing
  <2>2. \A q \in Request \ {r} : kind'[q] = kind[q] /\ stage'[q] = stage[q]
    BY <1>2 DEF AddUnpair, DeleteThing, RemoveThing, IInv, TypeOK
  <2>3. kind[r] # "pair" /\ kind'[r] # "pair"
    BY <1>2 DEF AddUnpair, DeleteThing, IInv, TypeOK
  <2>4. QED
    BY <2>1, <2>2, <2>3 DEF PairPhase
<1>3. ASSUME NEW r \in Request, RemoveFinished(r) PROVE Same
  BY <1>3 DEF RemoveFinished, PairPhase
<1>4. ASSUME NEW r \in Request, RemovePendingPair(r) PROVE PairingSession!Close \/ Same
  BY <1>4, CancelCloses DEF RemovePendingPair
<1>5. ASSUME UNCHANGED <<kind, deferredAdd>>,
             \A q \in Request : kind[q] = "pair" => stage'[q] = stage[q]
      PROVE  Same
  BY <1>5 DEF PairPhase
<1>6. ASSUME NEW r \in Request, RemovePendingUnpair(r) PROVE Same
  <2>1. target[r] \in Thing
    BY <1>6 DEF RemovePendingUnpair, IInv, RequestShape, Removes
  <2>2. \A q \in Request : kind[q] = "pair" => stage'[q] = stage[q]
    BY <1>6, <2>1 DEF RemovePendingUnpair, CancelRemoveThing, IInv, HeldWait, Removes
  <2>3. QED
    BY <1>5, <1>6, <2>2 DEF RemovePendingUnpair
<1>7. ASSUME NEW r \in Request, StoreRemove(r) \/ StoreRemoveFails(r) PROVE Same
  <2>1. \A q \in Request : kind[q] = "pair" => stage'[q] = stage[q]
    BY <1>7 DEF StoreRemove, StoreRemoveFails, IInv, RequestShape, Removes, TypeOK
  <2>2. QED
    BY <1>5, <1>7, <2>1 DEF StoreRemove, StoreRemoveFails, requestVars
<1>8. ASSUME NEW t \in Thing, RemovalTimeout(t) PROVE Same
  <2>1. \A q \in Request : kind[q] = "pair" => stage'[q] = stage[q]
    BY <1>8 DEF RemovalTimeout, CancelRemoveThing, IInv, HeldWait, Removes
  <2>2. QED
    BY <1>5, <1>8, <2>1 DEF RemovalTimeout, requestVars
<1>9. ASSUME NEW t \in Thing, CreateThing(t) \/ DeviceAdded(t) PROVE Same
  BY <1>9 DEF CreateThing, DeviceAdded, requestVars, PairPhase
<1>10. ASSUME NEW a \in Adapter, NEW gone \in SUBSET Thing, HandleDevicesRemoved(a, gone),
              UNCHANGED <<kind, deferredAdd>>
       PROVE  Same
  <2>1. \A q \in Request : kind[q] = "pair" => stage'[q] = stage[q]
    BY <1>10 DEF HandleDevicesRemoved, IInv, HeldWait, Removes
  <2>2. QED
    BY <1>5, <1>10, <2>1
<1>11. ASSUME NEW t \in Thing, DeviceRemoved(t) PROVE Same
  <2>1. Owner[t] \in Adapter
    BY OwnerAssumption
  <2>2. HandleDevicesRemoved(Owner[t], {t}) /\ UNCHANGED <<kind, deferredAdd>>
    BY <1>11 DEF DeviceRemoved, requestVars
  <2>3. {t} \in SUBSET Thing
    OBVIOUS
  <2>4. QED
    BY <1>10, <2>1, <2>2, <2>3
<1>12. ASSUME NEW a \in Adapter, UnloadAdapter(a) PROVE Same
  <2>1. proxyDevices[a] \in SUBSET Thing
    BY DEF IInv, TypeOK
  <2>2. HandleDevicesRemoved(a, proxyDevices[a]) /\ UNCHANGED <<kind, deferredAdd>>
    BY <1>12 DEF UnloadAdapter, requestVars
  <2>3. QED
    BY <1>10, <2>1, <2>2
<1>13. ASSUME NEW a \in Adapter, AdapterAdded(a) \/ ProcessEnds(a) PROVE Same
  BY <1>13 DEF AdapterAdded, ProcessEnds, requestVars, PairPhase
<1>14. CASE PairingTimeout
  BY <1>14, CancelCloses DEF PairingTimeout, requestVars, PairingSession!SessionNext
<1>15. CASE UNCHANGED vars
  BY <1>15 DEF vars, requestVars, PairPhase
<1>16. QED
  BY <1>1, <1>2, <1>3, <1>4, <1>6, <1>7, <1>8, <1>9, <1>11, <1>12, <1>13, <1>14, <1>15
     DEF Next, RequestStep, ThingStep, AdapterStep, PairingSession!SessionNext

\* The half of SessionsImplemented about pairing: addNewThing grants the session to
\* one caller at a time and settles each promise once.
THEOREM PairingRefines == Spec => PairingSession!SessionSafety
<1>1. QED
  BY PairingInit, PairingStep, Invariance, PTL
     DEF Spec, PairingSession!SessionSafety, PairingSession!sessionVars
\* A request that removes nothing has no target.
Untargeted == \A r \in Request : ~Removes(r) => target[r] = NoThing

\* Only AddUnpair and DeleteThing give a request its target, with its kind.
LEMMA TargetsRemove == Spec => []Untargeted
<1>1. Init => Untargeted
  BY DEF Init, Untargeted, Removes
<1>2. ASSUME TypeOK, Untargeted, [Next]_vars PROVE Untargeted'
  <2> USE DEF TypeOK, Untargeted, Removes
  <2>1. ASSUME NEW r \in Request, AddPair(r) PROVE Untargeted'
    BY <1>2, <2>1 DEF AddPair
  <2>2. ASSUME NEW r \in Request, NEW t \in Thing, AddUnpair(r, t) \/ DeleteThing(r, t)
        PROVE  Untargeted'
    BY <1>2, <2>2 DEF AddUnpair, DeleteThing
  <2>3. CASE UNCHANGED <<kind, target>>
    BY <1>2, <2>3
  <2>4. QED
    BY <1>2, <2>1, <2>2, <2>3
       DEF Next, RequestStep, ThingStep, AdapterStep, vars, requestVars, RemoveFinished,
           RemovePendingPair, RemovePendingUnpair, StoreRemove, StoreRemoveFails,
           RemovalTimeout, CreateThing, DeviceAdded, DeviceRemoved, AdapterAdded,
           UnloadAdapter, ProcessEnds, PairingTimeout
<1>3. QED
  BY <1>1, <1>2, TypeCorrect, PTL DEF Spec

\* Before the first request every session of a removal is free.
LEMMA RemovalInit == Init => \A t \in Thing : RemovalSession(t)!SessionInit
<1>1. QED
  BY NoThingAssumption DEF Init, RemovalSession!SessionInit, RemovalPhase
\* When removals of the things in `settled` end and their owners go to the store, the
\* session of each of them closes, and those of the others are left alone.
LEMMA SettlingCloses ==
  ASSUME IInv, NEW t \in Thing, NEW settled \in SUBSET Thing,
         UNCHANGED target,
         deferredRemovals' = [u \in Thing |-> IF u \in settled THEN NoRequest
                                              ELSE deferredRemovals[u]],
         stage' = [r \in Request |->
                     IF \E u \in settled : r = deferredRemovals[u] THEN "store" ELSE stage[r]]
  PROVE  RemovalSession(t)!Close \/ UNCHANGED <<deferredRemovals[t], RemovalPhase(t)>>
<1> USE NoRequestAssumption DEF IInv, TypeOK
<1> DEFINE owner == deferredRemovals[t]
<1>1. \A r \in Request : target[r] = t /\ stage'[r] # stage[r] =>
                            t \in settled /\ r = owner /\ stage'[r] = "store"
  BY DEF HeldWait
<1>2. CASE t \in settled /\ owner # NoRequest
  <2>1. owner \in Request /\ target[owner] = t /\ stage'[owner] = "store"
    BY <1>2 DEF HeldWait
  <2>2. RemovalPhase(t)' = [RemovalPhase(t) EXCEPT ![owner] = "closed"]
    BY <1>1, <2>1 DEF RemovalPhase
  <2>3. deferredRemovals'[t] = NoRequest
    BY <1>2
  <2>4. QED
    BY <1>2, <2>2, <2>3 DEF RemovalSession!Close
<1>3. CASE ~(t \in settled /\ owner # NoRequest)
  <2>1. deferredRemovals'[t] = deferredRemovals[t]
    BY <1>3
  <2>2. \A r \in Request : target[r] = t => stage'[r] = stage[r]
    BY <1>1, <1>3
  <2>3. QED
    BY <2>1, <2>2 DEF RemovalPhase
<1>4. QED
  BY <1>2, <1>3

\* Every step of the model is a step of the session of each thing's removal or a stutter.
LEMMA RemovalStep ==
  ASSUME IInv, Untargeted, [Next]_vars, NEW t \in Thing
  PROVE  RemovalSession(t)!SessionNext \/ UNCHANGED <<deferredRemovals[t], RemovalPhase(t)>>
<1> USE NoRequestAssumption, NoThingAssumption
<1> DEFINE Same == UNCHANGED <<deferredRemovals[t], RemovalPhase(t)>>
           Goes == RemovalSession(t)!Close \/ Same
<1>1. ASSUME UNCHANGED <<target, deferredRemovals>>,
             \A q \in Request : target[q] = t /\ stage'[q] # stage[q] =>
                                   stage[q] # "manager" /\ stage'[q] # "manager"
      PROVE  Same
  BY <1>1 DEF RemovalPhase
<1>2. ASSUME NEW r \in Request, AddPair(r) PROVE Same
  <2>1. target[r] = NoThing
    BY <1>2 DEF AddPair, Untargeted, Removes
  <2>2. \A q \in Request \ {r} : stage'[q] = stage[q]
    BY <1>2 DEF AddPair, IInv, TypeOK
  <2>3. UNCHANGED <<target, deferredRemovals>>
    BY <1>2 DEF AddPair, removalVars
  <2>4. QED
    BY <1>1, <2>1, <2>2, <2>3
<1>3. ASSUME NEW r \in Request, NEW u \in Thing, AddUnpair(r, u) \/ DeleteThing(r, u)
      PROVE  RemovalSession(t)!Open(r) \/ RemovalSession(t)!TurnAway(r) \/ Same
  <2>1. /\ kind[r] = "new" /\ target[r] = NoThing /\ target' = [target EXCEPT ![r] = u]
        /\ RemoveThing(r, u)
    BY <1>3 DEF AddUnpair, DeleteThing, Untargeted, Removes
  <2>2. /\ target \in [Request -> Thing \cup {NoThing}]
        /\ stage \in [Request -> {"idle", "manager", "store"}]
        /\ deferredRemovals \in [Thing -> Request \cup {NoRequest}]
    BY DEF IInv, TypeOK
  <2>3. CASE deferredRemovals[u] = NoRequest /\ devices[u] # 0
    <3>1. /\ stage' = [stage EXCEPT ![r] = "manager"]
          /\ deferredRemovals' = [deferredRemovals EXCEPT ![u] = r]
      BY <2>1, <2>3 DEF RemoveThing
    <3>2. CASE u = t
      BY <2>1, <2>2, <2>3, <3>1, <3>2 DEF RemovalSession!Open, RemovalPhase
    <3>3. CASE u # t
      BY <2>1, <2>2, <3>1, <3>3 DEF RemovalPhase
    <3>4. QED
      BY <3>2, <3>3
  <2>4. CASE ~(deferredRemovals[u] = NoRequest /\ devices[u] # 0)
    <3>1. stage' = [stage EXCEPT ![r] = "store"] /\ UNCHANGED deferredRemovals
      BY <2>1, <2>4 DEF RemoveThing, removalVars
    <3>2. CASE u = t
      BY <2>1, <2>2, <3>1, <3>2 DEF RemovalSession!TurnAway, RemovalPhase
    <3>3. CASE u # t
      BY <2>1, <2>2, <3>1, <3>3 DEF RemovalPhase
    <3>4. QED
      BY <3>2, <3>3
  <2>5. QED
    BY <2>3, <2>4
<1>4. ASSUME NEW r \in Request, RemoveFinished(r) PROVE Same
  BY <1>4 DEF RemoveFinished, removalVars, RemovalPhase
<1>5. ASSUME CancelAddNewThing, UNCHANGED <<target, deferredRemovals>> PROVE Same
  <2>1. ASSUME NEW q \in Request, target[q] = t PROVE stage'[q] = stage[q]
    <3>1. kind[q] # "pair"
      BY <2>1 DEF Untargeted, Removes
    <3>2. q # deferredAdd
      BY <3>1 DEF IInv, HeldWait
    <3>3. QED
      BY <1>5, <3>2 DEF CancelAddNewThing
  <2>2. QED
    BY <1>1, <1>5, <2>1
<1>6. CASE PairingTimeout \/ \E r \in Request : RemovePendingPair(r)
  BY <1>5, <1>6 DEF PairingTimeout, RemovePendingPair, requestVars, removalVars
<1>7. ASSUME NEW u \in Thing, CancelRemoveThing(u), UNCHANGED target PROVE Goes
  <2>1. deferredRemovals \in [Thing -> Request \cup {NoRequest}]
    BY DEF IInv, TypeOK
  <2>2. deferredRemovals' = [v \in Thing |-> IF v \in {u} THEN NoRequest
                                             ELSE deferredRemovals[v]]
    BY <1>7, <2>1 DEF CancelRemoveThing
  <2>3. stage' = [r \in Request |->
                    IF \E v \in {u} : r = deferredRemovals[v] THEN "store" ELSE stage[r]]
    BY <1>7 DEF CancelRemoveThing
  <2>4. QED
    BY <1>7, <2>2, <2>3, SettlingCloses
<1>8. ASSUME NEW r \in Request, RemovePendingUnpair(r) PROVE Goes
  <2>1. target[r] \in Thing
    BY <1>8 DEF RemovePendingUnpair, IInv, RequestShape, Removes
  <2>2. QED
    BY <1>7, <1>8, <2>1 DEF RemovePendingUnpair
<1>9. ASSUME NEW u \in Thing, RemovalTimeout(u) PROVE Goes
  BY <1>7, <1>9 DEF RemovalTimeout, requestVars
<1>10. ASSUME NEW r \in Request, StoreRemove(r) \/ StoreRemoveFails(r) PROVE Same
  <2>1. \A q \in Request : stage'[q] # stage[q] => stage[q] = "store" /\ stage'[q] = "idle"
    BY <1>10 DEF StoreRemove, StoreRemoveFails, IInv, TypeOK
  <2>2. QED
    BY <1>1, <1>10, <2>1 DEF StoreRemove, StoreRemoveFails, requestVars, removalVars
<1>11. ASSUME NEW u \in Thing, CreateThing(u) \/ DeviceAdded(u) PROVE Same
  BY <1>11 DEF CreateThing, DeviceAdded, requestVars, removalVars, RemovalPhase
<1>12. ASSUME NEW a \in Adapter, NEW gone \in SUBSET Thing, HandleDevicesRemoved(a, gone),
              UNCHANGED target
       PROVE  Goes
  <2> DEFINE settled == {u \in gone : deferredRemovals[u] # NoRequest
                                      /\ removalAdapter[u] = proxy[a]}
  <2>1. deferredRemovals' = [u \in Thing |-> IF u \in settled THEN NoRequest
                                             ELSE deferredRemovals[u]]
    BY <1>12 DEF HandleDevicesRemoved
  <2>2. stage' = [r \in Request |->
                    IF \E u \in settled : r = deferredRemovals[u] THEN "store" ELSE stage[r]]
    BY <1>12 DEF HandleDevicesRemoved
  <2>3. settled \in SUBSET Thing
    OBVIOUS
  <2> HIDE DEF settled
  <2>4. QED
    BY <1>12, <2>1, <2>2, <2>3, SettlingCloses
<1>13. ASSUME NEW u \in Thing, DeviceRemoved(u) PROVE Goes
  <2>1. Owner[u] \in Adapter /\ {u} \in SUBSET Thing
    BY OwnerAssumption
  <2>2. HandleDevicesRemoved(Owner[u], {u}) /\ UNCHANGED target
    BY <1>13 DEF DeviceRemoved, requestVars
  <2>3. QED
    BY <1>12, <2>1, <2>2
<1>14. ASSUME NEW a \in Adapter, UnloadAdapter(a) PROVE Goes
  <2>1. proxyDevices[a] \in SUBSET Thing
    BY DEF IInv, TypeOK
  <2>2. HandleDevicesRemoved(a, proxyDevices[a]) /\ UNCHANGED target
    BY <1>14 DEF UnloadAdapter, requestVars
  <2>3. QED
    BY <1>12, <2>1, <2>2
<1>15. ASSUME NEW a \in Adapter, AdapterAdded(a) \/ ProcessEnds(a) PROVE Same
  BY <1>15 DEF AdapterAdded, ProcessEnds, requestVars, removalVars, RemovalPhase
<1>16. CASE UNCHANGED vars
  BY <1>16 DEF vars, requestVars, removalVars, RemovalPhase
<1>17. QED
  BY <1>2, <1>3, <1>4, <1>6, <1>8, <1>9, <1>10, <1>11, <1>13, <1>14, <1>15, <1>16
     DEF Next, RequestStep, ThingStep, AdapterStep, RemovalSession!SessionNext

\* The promises of addNewThing and, for every thing, those of removeThing behave as
\* ExclusiveSession says: the session is granted to one caller at a time, the others are
\* turned away, and each promise is settled once.
THEOREM SessionsRefine == Spec => SessionsImplemented
<1>1. ASSUME IInv, Untargeted, [Next]_vars
      PROVE  [\A t \in Thing : RemovalSession(t)!SessionNext
                             \/ UNCHANGED <<deferredRemovals[t], RemovalPhase(t)>>]_vars
  BY <1>1, RemovalStep
<1>2. QED
  BY <1>1, PairingRefines, RemovalInit, Invariance, TargetsRemove, PTL
     DEF Spec, SessionsImplemented

-----------------------------------------------------------------------------
(* Requests to devices (DeviceRequests).                                   *)
\* The kinds of requests are apart.
LEMMA KindsApart == Requests!DisjointAssumption
BY RequestsAssumption

\* The bounds are numbers.
LEMMA RequestsBounded == Requests!BoundsAssumption
BY RequestsAssumption

\* Its variables, as that module lists them and in one tuple.
LEMMA SameVariables == [Requests!Next]_(Requests!vars) <=> [Requests!Next]_askedVars
<1>1. UNCHANGED Requests!vars <=> UNCHANGED askedVars
  BY DEF askedVars, Requests!vars, Requests!actionVars, Requests!processVars
<1>2. QED
  BY <1>1

\* What the process has received awaits its answer, and it works on no action it has
\* not received.
InboxWaits ==
  /\ \A r \in Requests!Keyed : r \in inbox => awaited[r] = "sent"
  /\ \A a \in Requests!Action : awaited[a] \in {"new", "adding"} => work[a] = "none"

\* An action requested over a websocket is in the list from the first, and leaves it
\* only when it is done.
ListedFirst == \A a \in Socket : awaited[a] # "new" => a \in actions \/ work[a] = "gone"

\* An action whose deletion the process has answered is done.
DeletedIsDone ==
  /\ \A r \in Removal : awaited[r] # "new" => action[r] \in Requests!Action
  /\ \A r \in Removal : awaited[r] = "settled" => work[action[r]] = "gone"

\* The inductive invariant.
RequestsInv ==
  /\ Requests!TypeOK
  /\ InboxWaits
  /\ ListedFirst
  /\ DeletedIsDone
  /\ Requests!PromisesHeld
  /\ Requests!RunningIsListed
  /\ Requests!StatusShown

\* Types are preserved by every step.
LEMMA RequestsTyped == Requests!TypeOK /\ [Requests!Next]_askedVars => Requests!TypeOK'
<1> SUFFICES ASSUME Requests!TypeOK, [Requests!Next]_askedVars PROVE Requests!TypeOK'
  OBVIOUS
<1> USE DEF Requests!TypeOK, Requests!actionVars, Requests!processVars, Requests!Demand,
    Requests!Keyed, Requests!Action
<1>1. ASSUME NEW r \in Requests!Keyed, Requests!Ask(r), UNCHANGED <<waiters, shown, offered,
        Requests!processVars>>,
             actions' \subseteq Requests!Action,
                 action' \in [Removal -> Requests!Action \union {NoAction}]
      PROVE  Requests!TypeOK'
  <2>1. CASE offered
    BY <1>1, <2>1 DEF Requests!Ask, Requests!Tell
  <2>2. CASE ~offered
    BY <1>1, <2>2 DEF Requests!Ask
  <2>3. QED
    BY <2>1, <2>2
<1>2. ASSUME NEW r \in Requests!Demand, Requests!Begin(r) \/ Requests!AddedSocket(r)
      PROVE  Requests!TypeOK'
  BY <1>1, <1>2 DEF Requests!Begin, Requests!AddedSocket
<1>3. ASSUME NEW r \in Requests!Demand, NEW a \in Requests!Action, Requests!BeginDelete(r, a)
      PROVE  Requests!TypeOK'
  BY <1>1, <1>3 DEF Requests!BeginDelete
<1>4. ASSUME NEW r \in Requests!Demand, Requests!BeginSocket(r) PROVE Requests!TypeOK'
  BY <1>4 DEF Requests!BeginSocket
<1>5. ASSUME NEW r \in Requests!Demand, Requests!BeginSet(r) PROVE Requests!TypeOK'
  BY <1>5 DEF Requests!BeginSet, Requests!Tell
<1>6. ASSUME NEW r \in Requests!Demand, Requests!Continue(r) PROVE Requests!TypeOK'
  BY <1>6 DEF Requests!Continue
<1>7. ASSUME NEW r \in Requests!Demand, NEW answer \in {"settled", "ok", "renewed", "failed"},
             Requests!Settle(r, answer)
      PROVE  /\ awaited' \in [Requests!Demand -> {"new", "adding", "sent", "settled", "ok",
                                                  "renewed", "failed"}]
             /\ promises' \subseteq Requests!Keyed
             /\ inbox' \subseteq Requests!Demand
  BY <1>7 DEF Requests!Settle
<1>8. ASSUME NEW r \in Requests!Demand, NEW success \in BOOLEAN, Requests!Answer(r, success)
      PROVE  Requests!TypeOK'
  <2>1. CASE Requests!AnswerAction(r, success)
    BY <1>7, <2>1 DEF Requests!AnswerAction
  <2>2. CASE Requests!AnswerDelete(r, success)
    BY <1>7, <2>2 DEF Requests!AnswerDelete
  <2>3. CASE Requests!AnswerCall(r, success)
    BY <1>7, <2>3 DEF Requests!AnswerCall
  <2>4. CASE Requests!AnswerPin(r)
    BY <1>7, <2>4 DEF Requests!AnswerPin
  <2>5. QED
    BY <1>8, <2>1, <2>2, <2>3, <2>4 DEF Requests!Answer
<1>9. ASSUME NEW a \in Requests!Action, NEW s \in {"pending", "completed"}, Requests!Report(a, s)
      PROVE  Requests!TypeOK'
  BY <1>9 DEF Requests!Report
<1>10. ASSUME NEW done \in SUBSET Set, Requests!Change(done) PROVE Requests!TypeOK'
  BY <1>10 DEF Requests!Change
<1>11. CASE Requests!Crash
  <2>1. crashes' \in 0 .. MaxCrashes
    BY <1>11, RequestsBounded DEF Requests!Crash, Requests!BoundsAssumption
  <2>2. QED
    BY <1>11, <2>1 DEF Requests!Crash, Requests!Gone
<1>12. CASE Requests!Restart
  BY <1>12 DEF Requests!Restart
<1>13. CASE Requests!Unload
  BY <1>13 DEF Requests!Unload
<1>14. CASE Requests!Unloaded
  BY <1>14 DEF Requests!Unloaded, Requests!Gone
<1>15. CASE UNCHANGED askedVars
  BY <1>15 DEF askedVars
<1>16. QED
  BY <1>2, <1>3, <1>4, <1>5, <1>6, <1>8, <1>9, <1>10, <1>11, <1>12, <1>13, <1>14, <1>15
     DEF Requests!Next, Requests!ClientStep, Requests!ServerStep

\* The initial state satisfies the invariant.
LEMMA RequestsStart == Requests!Init => RequestsInv
<1> SUFFICES ASSUME Requests!Init PROVE RequestsInv
  OBVIOUS
<1> USE DEF Requests!Init, Requests!Demand, Requests!Keyed, Requests!Action
<1>1. Requests!TypeOK
  BY RequestsBounded DEF Requests!TypeOK, Requests!BoundsAssumption
<1>2. InboxWaits /\ ListedFirst /\ DeletedIsDone
  BY DEF InboxWaits, ListedFirst, DeletedIsDone
<1>3. Requests!PromisesHeld /\ Requests!RunningIsListed /\ Requests!StatusShown
  BY DEF Requests!PromisesHeld, Requests!RunningIsListed, Requests!StatusShown
<1>4. QED
  BY <1>1, <1>2, <1>3 DEF RequestsInv

\* Type correctness of the model of requests.
THEOREM RequestsAreTyped == Requests!Spec => []Requests!TypeOK
<1>1. Requests!Init => Requests!TypeOK
  BY RequestsStart DEF RequestsInv
<1>2. QED
  BY <1>1, RequestsTyped, SameVariables, PTL DEF Requests!Spec

\* A step that changes no request but those that wait for a property, and no action.
Idle ==
  /\ \A r \in Requests!Keyed : awaited'[r] = awaited[r]
  /\ UNCHANGED <<action, promises, Requests!actionVars, work>>
  /\ inbox' \subseteq inbox

LEMMA IdlePreserves == RequestsInv /\ Requests!TypeOK' /\ Idle => RequestsInv'
<1> SUFFICES ASSUME RequestsInv, Requests!TypeOK', Idle PROVE RequestsInv'
  OBVIOUS
<1> USE DEF RequestsInv, Idle, Requests!Keyed, Requests!Action, Requests!actionVars
<1>1. InboxWaits' /\ ListedFirst' /\ DeletedIsDone'
  BY DEF InboxWaits, ListedFirst, DeletedIsDone
<1>2. Requests!PromisesHeld' /\ Requests!RunningIsListed' /\ Requests!StatusShown'
  BY DEF Requests!PromisesHeld, Requests!RunningIsListed, Requests!StatusShown
<1>3. QED
  BY <1>1, <1>2

\* Asking the process for what is new, or was just listed, keeps the invariant.
LEMMA AskPreserves ==
  ASSUME RequestsInv, Requests!TypeOK', NEW r \in Requests!Keyed, Requests!Ask(r),
         Requests!actionVars' = Requests!actionVars,
         awaited[r] \in {"new", "adding"},
         r \in Socket => r \in actions,
         r \in Removal => action'[r] \in Requests!Action,
         \A d \in Removal : d # r => action'[d] = action[d]
  PROVE  RequestsInv'
<1> USE DEF RequestsInv, Requests!TypeOK, Requests!Keyed, Requests!Action, Requests!Demand,
    Requests!actionVars, Requests!Ask, Requests!Tell
<1> USE KindsApart DEF Requests!DisjointAssumption
<1>1. InboxWaits'
  BY DEF InboxWaits
<1>2. ListedFirst'
  BY DEF ListedFirst
<1>3. DeletedIsDone'
  BY DEF DeletedIsDone, InboxWaits
<1>4. Requests!PromisesHeld'
  BY DEF Requests!PromisesHeld
<1>5. Requests!RunningIsListed'
  BY DEF Requests!RunningIsListed, InboxWaits
<1>6. Requests!StatusShown'
  BY DEF Requests!StatusShown, InboxWaits
<1>7. QED
  BY <1>1, <1>2, <1>3, <1>4, <1>5, <1>6

\* The end of the process stops what it was doing.
LEMMA GonePreserves ==
  ASSUME RequestsInv, Requests!TypeOK', Requests!Gone, UNCHANGED <<action, Requests!actionVars>>,
         \/ promises' = promises /\ awaited' = awaited
         \/ /\ promises' = {}
            /\ awaited' = [r \in Requests!Demand |-> IF r \in promises THEN "failed"
                ELSE awaited[r]]
  PROVE  RequestsInv'
<1> USE DEF RequestsInv, Requests!TypeOK, Requests!Keyed, Requests!Action, Requests!Demand,
    Requests!actionVars, Requests!Gone
<1> USE KindsApart DEF Requests!DisjointAssumption
<1>1. InboxWaits'
  BY DEF InboxWaits, Requests!PromisesHeld
<1>2. ListedFirst'
  BY DEF ListedFirst, Requests!PromisesHeld
<1>3. DeletedIsDone'
  BY DEF DeletedIsDone, Requests!PromisesHeld
<1>4. Requests!PromisesHeld'
  BY DEF Requests!PromisesHeld
<1>5. Requests!RunningIsListed' /\ Requests!StatusShown'
  BY DEF Requests!RunningIsListed, Requests!StatusShown
<1>6. QED
  BY <1>1, <1>2, <1>3, <1>4, <1>5

\* A response settles the promise of its request, and no other.
LEMMA SettlePreserves ==
  ASSUME RequestsInv, Requests!TypeOK', NEW r \in Requests!Demand,
         NEW answer \in {"settled", "ok", "renewed", "failed"},
         r \in inbox, Requests!Settle(r, answer), UNCHANGED <<action, Requests!actionVars>>,
         \A a \in Requests!Action : work'[a] # work[a] => work'[a] = "gone" /\ work[a] # "none",
         r \in Post => answer \in {"settled", "failed"},
         r \in Requests!Action /\ answer = "failed" => work'[r] \notin {"here", "pending"},
         r \in Removal /\ answer = "settled" => work'[action[r]] = "gone"
  PROVE  RequestsInv'
<1> USE DEF RequestsInv, Requests!TypeOK, Requests!Keyed, Requests!Action, Requests!Demand,
    Requests!actionVars, Requests!Settle
<1> USE KindsApart DEF Requests!DisjointAssumption
<1>1. InboxWaits'
  BY DEF InboxWaits, Requests!PromisesHeld
<1>2. ListedFirst'
  BY DEF ListedFirst, InboxWaits
<1>3. DeletedIsDone'
  BY DEF DeletedIsDone, InboxWaits, Requests!PromisesHeld
<1>4. Requests!PromisesHeld'
  BY DEF Requests!PromisesHeld
<1>5. Requests!RunningIsListed'
  BY DEF Requests!RunningIsListed, ListedFirst, InboxWaits, Requests!PromisesHeld
<1>6. Requests!StatusShown'
  BY DEF Requests!StatusShown
<1>7. QED
  BY <1>1, <1>2, <1>3, <1>4, <1>5, <1>6

\* Every step keeps the invariant.
LEMMA RequestsStep == RequestsInv /\ [Requests!Next]_askedVars => RequestsInv'
<1> SUFFICES ASSUME RequestsInv, [Requests!Next]_askedVars PROVE RequestsInv'
  OBVIOUS
<1>0. Requests!TypeOK'
  BY RequestsTyped DEF RequestsInv
<1> USE KindsApart
    DEF Requests!DisjointAssumption, RequestsInv, Requests!TypeOK, Requests!Keyed,
        Requests!Action, Requests!Demand,
       Requests!actionVars
<1>1. ASSUME NEW r \in Requests!Demand, Requests!Begin(r) \/ Requests!AddedSocket(r)
      PROVE  RequestsInv'
  <2>1. CASE Requests!Begin(r)
    BY <1>0, <2>1, AskPreserves DEF Requests!Begin, Requests!processVars
  <2>2. CASE Requests!AddedSocket(r)
    <3>1. r \in actions
      BY <2>2 DEF Requests!AddedSocket, ListedFirst, InboxWaits
    <3>2. QED
      BY <1>0, <2>2, <3>1, AskPreserves DEF Requests!AddedSocket
  <2>3. QED
    BY <1>1, <2>1, <2>2
<1>2. ASSUME NEW r \in Requests!Demand, NEW a \in Requests!Action, Requests!BeginDelete(r, a)
      PROVE  RequestsInv'
  <2>1. action'[r] = a /\ \A d \in Removal : d # r => action'[d] = action[d]
    BY <1>2 DEF Requests!BeginDelete
  <2>2. QED
    BY <1>0, <1>2, <2>1, AskPreserves DEF Requests!BeginDelete
<1>3. ASSUME NEW r \in Requests!Demand, Requests!BeginSocket(r) PROVE RequestsInv'
  <2>1. InboxWaits' /\ ListedFirst' /\ DeletedIsDone'
    BY <1>3 DEF Requests!BeginSocket, InboxWaits, ListedFirst, DeletedIsDone
  <2>2. Requests!PromisesHeld' /\ Requests!RunningIsListed' /\ Requests!StatusShown'
    BY <1>3
       DEF Requests!BeginSocket, Requests!PromisesHeld, Requests!RunningIsListed,
           Requests!StatusShown, InboxWaits
  <2>3. QED
    BY <1>0, <2>1, <2>2
<1>4. ASSUME NEW r \in Requests!Demand, Requests!BeginSet(r) PROVE RequestsInv'
  <2>1. ListedFirst' /\ DeletedIsDone' /\ InboxWaits'
    BY <1>4 DEF Requests!BeginSet, Requests!Tell, InboxWaits, ListedFirst, DeletedIsDone
  <2>2. Requests!PromisesHeld' /\ Requests!RunningIsListed' /\ Requests!StatusShown'
    BY <1>4
       DEF Requests!BeginSet, Requests!Tell, Requests!PromisesHeld, Requests!RunningIsListed,
           Requests!StatusShown
  <2>3. QED
    BY <1>0, <2>1, <2>2
<1>5. ASSUME NEW r \in Requests!Demand, Requests!Continue(r) PROVE RequestsInv'
  <2>1. r \in Post \union Removal
    BY <1>5 DEF Requests!Continue
  <2>2. InboxWaits' /\ DeletedIsDone' /\ Requests!PromisesHeld'
    BY <1>5, <2>1 DEF Requests!Continue, InboxWaits, DeletedIsDone, Requests!PromisesHeld
  <2>3. ListedFirst' /\ Requests!StatusShown'
    BY <1>5, <2>1 DEF Requests!Continue, ListedFirst, Requests!StatusShown, DeletedIsDone
  <2>4. Requests!RunningIsListed'
    BY <1>5, <2>1 DEF Requests!Continue, Requests!RunningIsListed, DeletedIsDone
  <2>5. QED
    BY <1>0, <2>2, <2>3, <2>4
<1>6. ASSUME NEW r \in Requests!Demand, NEW success \in BOOLEAN, Requests!Answer(r, success)
      PROVE  RequestsInv'
  <2>1. CASE Requests!AnswerAction(r, success)
    BY <1>0, <2>1, SettlePreserves DEF Requests!AnswerAction, InboxWaits
  <2>2. CASE Requests!AnswerDelete(r, success)
    <3>1. action[r] \in Requests!Action
      BY <2>2 DEF Requests!AnswerDelete, InboxWaits, DeletedIsDone
    <3>2. QED
      BY <1>0, <2>2, <3>1, SettlePreserves DEF Requests!AnswerDelete
  <2>3. CASE Requests!AnswerCall(r, success)
    BY <1>0, <2>3, SettlePreserves DEF Requests!AnswerCall
  <2>4. CASE Requests!AnswerPin(r)
    BY <1>0, <2>4, SettlePreserves DEF Requests!AnswerPin
  <2>5. QED
    BY <1>6, <2>1, <2>2, <2>3, <2>4 DEF Requests!Answer
<1>7. ASSUME NEW a \in Requests!Action, NEW s \in {"pending", "completed"}, Requests!Report(a, s)
      PROVE  RequestsInv'
  <2>1. InboxWaits' /\ ListedFirst' /\ DeletedIsDone'
    BY <1>7 DEF Requests!Report, InboxWaits, ListedFirst, DeletedIsDone
  <2>2. Requests!PromisesHeld' /\ Requests!RunningIsListed' /\ Requests!StatusShown'
    BY <1>7
       DEF Requests!Report, Requests!PromisesHeld, Requests!RunningIsListed, Requests!StatusShown
  <2>3. QED
    BY <1>0, <2>1, <2>2
<1>8. ASSUME NEW done \in SUBSET Set, Requests!Change(done) PROVE RequestsInv'
  BY <1>0, <1>8, IdlePreserves DEF Requests!Change, Idle
<1>9. CASE Requests!Crash
  BY <1>0, <1>9, GonePreserves DEF Requests!Crash
<1>10. CASE Requests!Restart \/ Requests!Unload
  BY <1>0, <1>10, IdlePreserves DEF Requests!Restart, Requests!Unload, Idle
<1>11. CASE Requests!Unloaded
  BY <1>0, <1>11, GonePreserves DEF Requests!Unloaded
<1>12. CASE UNCHANGED askedVars
  BY <1>0, <1>12, IdlePreserves DEF askedVars, Idle
<1>13. QED
  BY <1>1, <1>2, <1>3, <1>4, <1>5, <1>6, <1>7, <1>8, <1>9, <1>10, <1>11, <1>12
     DEF Requests!Next, Requests!ClientStep, Requests!ServerStep

\* The invariant holds in every reachable state.
LEMMA RequestsKeep == Requests!Spec => []RequestsInv
<1>1. QED
  BY RequestsStart, RequestsStep, SameVariables, PTL DEF Requests!Spec

\* A request awaits its answer exactly as long as Plugin holds its promise.
THEOREM PromisesAreHeld == Requests!Spec => []PromisesHeld
<1>1. RequestsInv => PromisesHeld
  BY DEF RequestsInv, PromisesHeld
<1>2. QED
  BY <1>1, RequestsKeep, PTL

\* No action a device is performing is left out of the list of actions.
THEOREM RunningActionsAreListed == Requests!Spec => []Requests!RunningIsListed
<1>1. RequestsInv => Requests!RunningIsListed
  BY DEF RequestsInv
<1>2. QED
  BY <1>1, RequestsKeep, PTL

\* An action that is listed before it is asked for shows the status last reported.
THEOREM StatusIsShown == Requests!Spec => []Requests!StatusShown
<1>1. RequestsInv => Requests!StatusShown
  BY DEF RequestsInv
<1>2. QED
  BY <1>1, RequestsKeep, PTL

\* An action is listed, and under the status last reported.
THEOREM ActionsAreShown == Requests!Spec => []ActionsShown
<1>1. RequestsInv => ActionsShown
  BY DEF RequestsInv, ActionsShown, Requests!ActionsShown
<1>2. QED
  BY <1>1, RequestsKeep, PTL

-----------------------------------------------------------------------------
(* The composition.                                                        *)
\* What holds of each part holds when they are put side by side: a behaviour of MCDevices is one
\* of ThingPairing and one of DeviceRequests.
THEOREM PartsBehave == DevicesSpec => Spec /\ Requests!Spec
<1>1. DevicesInit => Init /\ Requests!Init
  BY DEF DevicesInit
<1>2. [Pair \/ Ask]_deviceVars => [Next]_vars /\ [Requests!Next]_askedVars
  BY DEF Pair, Ask, deviceVars, pairingVars
<1>3. QED
  BY <1>1, <1>2, SameVariables, PTL DEF DevicesSpec, Spec, Requests!Spec
=============================================================================
