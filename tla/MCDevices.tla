------------------------------ MODULE MCDevices ------------------------------
(***************************************************************************)
(* What is asked of devices through the adapters of their add-ons: to be   *)
(* found and to be let go, to perform actions and to set properties.  The  *)
(* two parts share no state: the initial state picks one, and only that    *)
(* one moves.  Each has a run of its own, with its own fairness.           *)
(***************************************************************************)
EXTENDS ThingPairing, FiniteSets

CONSTANTS Post, Socket, Removal, Call, Set, NoAction, MaxWaiting, MaxCrashes

VARIABLES
  part,    \* the part that moves
  awaited, action, promises, waiters, actions, shown, offered, plugin, connected, inbox, work, crashes

Requests == INSTANCE DeviceRequests
  WITH Delete <- Removal, None <- NoAction, stage <- awaited, target <- action, status <- shown,
       alive <- connected

ASSUME RequestsAssumption ==
  Requests!DisjointAssumption /\ Requests!NoneAssumption /\ Requests!BoundsAssumption

\* Every device belongs to one adapter; the first one has them all.
MCOwner == [t \in Thing |-> CHOOSE a \in Adapter : TRUE]

pairingVars == vars
askedVars == <<awaited, action, promises, waiters, actions, shown, offered, plugin, connected, inbox,
               work, crashes>>
deviceVars == <<part, pairingVars, askedVars>>

Is(p) == part = p

DevicesInit ==
  /\ part \in {"pairing", "requests"}
  /\ Init
  /\ Requests!Init

Pair == Is("pairing") /\ Next /\ UNCHANGED <<part, askedVars>>
Ask  == Is("requests") /\ Requests!Next /\ UNCHANGED <<part, pairingVars>>

DevicesSpec == DevicesInit /\ [][Pair \/ Ask]_deviceVars

\* Timers fire and statements of the database end; adapters owe nothing.
PairingFair ==
  /\ WF_vars(Is("pairing") /\ PairingTimeout)
  /\ \A t \in Thing : WF_vars(Is("pairing") /\ RemovalTimeout(t))
  /\ \A r \in Request : WF_vars(Is("pairing") /\ (StoreRemove(r) \/ StoreRemoveFails(r)))

\* Awaits end; the process answers what it is asked, and says when it has set a
\* property; it is restarted, and unloads when it is told to.
RequestsFair ==
  /\ \A r \in Requests!Demand : WF_askedVars(Is("requests") /\ Requests!ServerStep(r))
  /\ \A r \in Requests!Demand :
       WF_askedVars(Is("requests") /\ \E success \in BOOLEAN : Requests!Answer(r, success))
  /\ \A r \in Set :
       WF_askedVars(Is("requests") /\ \E done \in SUBSET Set : r \in done /\ Requests!Change(done))
  /\ WF_askedVars(Is("requests") /\ Requests!Restart)
  /\ WF_askedVars(Is("requests") /\ Requests!Unloaded)

\* Each part by itself.
PairingBegins == DevicesInit /\ Is("pairing")
RequestsBegin == DevicesInit /\ Is("requests")
PairingRuns == PairingBegins /\ [][Pair \/ Ask]_deviceVars /\ PairingFair
RequestsRun == RequestsBegin /\ [][Pair \/ Ask]_deviceVars /\ RequestsFair

-----------------------------------------------------------------------------
(* The properties of DeviceRequests, stated and explained there.           *)

\* Requests that wait are those whose promises are kept (Plugin.onMsg).
PromisesHeld == Requests!PromisesHeld
\* An action is shown as what the device does (Actions, Plugin.onMsg).
ActionsShown == Requests!ActionsShown
\* Whatever is asked of a device is answered in the end.
AnswersCome == Requests!AnswersCome
=============================================================================
