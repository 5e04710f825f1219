--------------------------- MODULE DeviceRequests ---------------------------
(***************************************************************************)
(* What clients ask of the devices of one add-on: to perform and remove    *)
(* actions, to set a property, a PIN or credentials, to notify an outlet   *)
(* or to answer an API request.  Plugin keeps the promise of a request in  *)
(* a table until the process answers with its id; a property keeps those   *)
(* of its sets until it changes.                                           *)
(*                                                                         *)
(* A step is the code between two awaits, or the handler of a message,     *)
(* handled when it is sent: the process sends its messages in any order,   *)
(* and none about an adapter it has unloaded.                              *)
(* How the process is restarted and unloaded is module AddonLifecycle's.   *)
(***************************************************************************)
EXTENDS Naturals, FiniteSets

CONSTANTS
  Post,       \* actions of a thing requested with POST
  Socket,     \* actions requested over a websocket, or by a rule
  Delete,     \* requests to delete an action of a thing
  Call,       \* requests to set a PIN or credentials, to an outlet, to an API handler
  Set,        \* requests to set the property of a device
  None,       \* no action
  MaxWaiting, \* bound: requests that are waiting at a time
  MaxCrashes  \* bound: processes that end without having been told to

Action == Post \union Socket
Keyed == Action \union Delete \union Call
Demand == Keyed \union Set

DisjointAssumption ==
  /\ Post \intersect Socket = {} /\ Delete \intersect Action = {}
  /\ Call \intersect (Action \union Delete) = {} /\ Set \intersect Keyed = {}
NoneAssumption == None \notin Demand
BoundsAssumption == MaxWaiting \in Nat /\ MaxCrashes \in Nat

VARIABLES
  stage,     \* per request: the await it is in, or its answer
  target,    \* per request of Delete: the action it is about
  promises,  \* the promise tables of Plugin, by the requests they are of
  waiters,   \* PropertyProxy.propertyChangedPromises
  actions,   \* Actions.actions
  status,    \* Action.status
  offered,   \* the devices and outlets are in AddonManager
  plugin,    \* the plugin is "loaded", is "unloading", or is "unloaded"
  alive,     \* the process is connected
  inbox,     \* requests the process has received and not answered
  work,      \* per action: what the process does about it
  crashes    \* crashes so far

actionVars == <<actions, status>>
processVars == <<plugin, alive, crashes>>
vars == <<stage, target, promises, waiters, actionVars, offered, processVars, inbox, work>>

\* What is kept of requests, promises, statuses and messages, and its range.
TypeOK ==
  /\ stage \in [Demand -> {"new", "adding", "sent", "settled", "ok", "renewed", "failed"}]
  /\ target \in [Delete -> Action \union {None}]
  /\ promises \subseteq Keyed
  /\ waiters \subseteq Set
  /\ actions \subseteq Action
  /\ status \in [Action -> {"created", "pending", "completed", "deleted"}]
  /\ offered \in BOOLEAN
  /\ plugin \in {"loaded", "unloading", "unloaded"}
  /\ alive \in BOOLEAN
  /\ inbox \subseteq Demand
  /\ work \in [Action -> {"none", "here", "pending", "completed", "gone"}]
  /\ crashes \in 0 .. MaxCrashes

Init ==
  /\ stage = [r \in Demand |-> "new"]
  /\ target = [r \in Delete |-> None]
  /\ promises = {}
  /\ waiters = {}
  /\ actions = {}
  /\ status = [a \in Action |-> "created"]
  /\ offered = TRUE
  /\ plugin = "loaded"
  /\ alive = TRUE
  /\ inbox = {}
  /\ work = [a \in Action |-> "none"]
  /\ crashes = 0

-----------------------------------------------------------------------------
(* Requests.                                                               *)

\* Plugin.sendMsg: a process that is not connected does not get the message.
Tell(r) ==
  /\ inbox' = IF alive THEN inbox \union {r} ELSE inbox
  /\ work' = [a \in Action |-> IF a = r /\ alive THEN "here" ELSE work[a]]

\* AddonManager.requestAction, removeAction, setPin, setCredentials, notify, and
\* APIHandlerProxy.handleRequest: the promise of request r, filed under an id of its own.
Ask(r) ==
  IF offered
  THEN /\ stage' = [stage EXCEPT ![r] = "sent"]
       /\ promises' = promises \union {r}
       /\ Tell(r)
  ELSE /\ stage' = [stage EXCEPT ![r] = "failed"]
       /\ UNCHANGED <<promises, inbox, work>>

\* POST of an action to a thing, the PIN and credentials, outlets, API handlers.
Begin(r) ==
  /\ r \in Post \union Call
  /\ stage[r] = "new"
  /\ Ask(r)
  /\ UNCHANGED <<target, waiters, actionVars, offered, processVars>>

\* DELETE of an action that a client has seen.
BeginDelete(r, a) ==
  /\ r \in Delete
  /\ stage[r] = "new"
  /\ a \in actions
  /\ target' = [target EXCEPT ![r] = a]
  /\ Ask(r)
  /\ UNCHANGED <<waiters, actionVars, offered, processVars>>

\* The websocket and the rules list an action before they ask the process for it.
BeginSocket(r) ==
  /\ r \in Socket
  /\ stage[r] = "new"
  /\ actions' = actions \union {r}
  /\ stage' = [stage EXCEPT ![r] = "adding"]
  /\ UNCHANGED <<target, promises, waiters, status, offered, processVars, inbox, work>>

\* Actions.add has its thing.
AddedSocket(r) ==
  /\ r \in Socket
  /\ stage[r] = "adding"
  /\ Ask(r)
  /\ UNCHANGED <<target, waiters, actionVars, offered, processVars>>

\* PropertyProxy.setValue
BeginSet(r) ==
  /\ r \in Set
  /\ stage[r] = "new"
  /\ IF offered
     THEN /\ stage' = [stage EXCEPT ![r] = "sent"]
          /\ waiters' = waiters \union {r}
          /\ Tell(r)
     ELSE /\ stage' = [stage EXCEPT ![r] = "failed"]
          /\ UNCHANGED <<waiters, inbox, work>>
  /\ UNCHANGED <<target, promises, actionVars, offered, processVars>>

\* What awaits the promise of a POST or a DELETE goes on: Actions.add, Actions.remove.
Continue(r) ==
  /\ stage[r] = "settled"
  /\ \/ /\ r \in Post
        /\ actions' = actions \union {r}
        /\ stage' = [stage EXCEPT ![r] = "ok"]
        /\ UNCHANGED status
     \/ /\ r \in Delete
        /\ target[r] \in actions
        /\ actions' = actions \ {target[r]}
        /\ status' = [status EXCEPT ![target[r]] = "deleted"]
        /\ stage' = [stage EXCEPT ![r] = "ok"]
     \/ /\ r \in Delete
        /\ target[r] \notin actions
        /\ stage' = [stage EXCEPT ![r] = "failed"]
        /\ UNCHANGED actionVars
  /\ UNCHANGED <<target, promises, waiters, offered, processVars, inbox, work>>

-----------------------------------------------------------------------------
(* The process.                                                            *)

\* A response with the id of request r: Plugin.onMsg, first switch.
Settle(r, answer) ==
  /\ inbox' = inbox \ {r}
  /\ promises' = promises \ {r}
  /\ stage' = [stage EXCEPT ![r] = IF r \in promises THEN answer ELSE @]

\* The process accepts an action, or refuses one it has not begun.
AnswerAction(a, success) ==
  /\ a \in Action /\ a \in inbox
  /\ ~success => work[a] = "here"
  /\ Settle(a, IF ~success THEN "failed" ELSE IF a \in Post THEN "settled" ELSE "ok")
  /\ work' = [work EXCEPT ![a] = IF success THEN @ ELSE "gone"]
  /\ UNCHANGED <<target, waiters, actionVars, offered, processVars>>

\* The process stops an action and forgets it, or does not know it.
AnswerDelete(r, success) ==
  /\ r \in Delete /\ r \in inbox
  /\ success => work[target[r]] \in {"here", "pending", "completed"}
  /\ Settle(r, IF success THEN "settled" ELSE "failed")
  /\ work' = [work EXCEPT ![target[r]] = IF success THEN "gone" ELSE @]
  /\ UNCHANGED <<target, waiters, actionVars, offered, processVars>>

\* Faulty: the device is replaced although it has not taken the PIN.
FaultyAnswerCall(r, success) ==
  /\ r \in Call /\ r \in inbox
  /\ Settle(r, IF success THEN "ok" ELSE "failed")
  /\ waiters' = {}
  /\ UNCHANGED <<target, actionVars, offered, processVars, work>>

\* An outlet or an API handler answers, or a device that takes no PIN.
AnswerCall(r, success) ==
  /\ r \in Call /\ r \in inbox
  /\ Settle(r, IF success THEN "ok" ELSE "failed")
  /\ UNCHANGED <<target, waiters, actionVars, offered, processVars, work>>

\* A PIN is accepted, with a new description of the device: a new DeviceProxy takes
\* its place, in AddonManager too, and the old one's waiters are forgotten.
AnswerPin(r) ==
  /\ r \in Call /\ r \in inbox
  /\ r \in promises
  /\ Settle(r, "renewed")
  /\ waiters' = {}
  /\ offered' = TRUE
  /\ UNCHANGED <<target, actionVars, processVars, work>>

\* Faulty: only an action that was accepted has a status.
FaultyReport(a, s) ==
  /\ \/ work[a] = "here" /\ s = "pending"
     \/ work[a] = "pending" /\ s = "completed"
  /\ work' = [work EXCEPT ![a] = s]
  /\ status' = [status EXCEPT ![a] = IF a \in actions /\ stage[a] = "ok" THEN s ELSE @]
  /\ UNCHANGED <<stage, target, promises, waiters, actions, offered, processVars, inbox>>

\* DEVICE_ACTION_STATUS_NOTIFICATION: an action that is not listed is passed over.
Report(a, s) ==
  /\ \/ work[a] = "here" /\ s = "pending"
     \/ work[a] = "pending" /\ s = "completed"
  /\ work' = [work EXCEPT ![a] = s]
  /\ status' = [status EXCEPT ![a] = IF a \in actions THEN s ELSE @]
  /\ UNCHANGED <<stage, target, promises, waiters, actions, offered, processVars, inbox>>

\* DEVICE_PROPERTY_CHANGED_NOTIFICATION, after the sets in done or of itself: every
\* set that waits is answered with the value.
Change(done) ==
  /\ alive
  /\ done \subseteq inbox \intersect Set
  /\ inbox' = inbox \ done
  /\ waiters' = {}
  /\ stage' = [r \in Demand |-> IF r \in waiters THEN "ok" ELSE stage[r]]
  /\ UNCHANGED <<target, promises, actionVars, offered, processVars, work>>

\* The process is gone, and with it all it was doing.
Gone ==
  /\ alive' = FALSE
  /\ inbox' = {}
  /\ work' = [a \in Action |-> IF work[a] = "none" THEN "none" ELSE "gone"]

Crash ==
  /\ alive
  /\ crashes < MaxCrashes
  /\ crashes' = crashes + 1
  /\ Gone
  /\ UNCHANGED <<stage, target, promises, waiters, actionVars, offered, plugin>>

\* The process is up again, with new proxies for its adapters and devices. When it
\* died while it was to unload, it serves again all the same.
Restart ==
  /\ ~alive
  /\ plugin # "unloaded"
  /\ plugin' = "loaded"
  /\ alive' = TRUE
  /\ offered' = TRUE
  /\ waiters' = {}
  /\ UNCHANGED <<stage, target, promises, actionVars, crashes, inbox, work>>

\* The add-on is disabled: Plugin.unloadComponents.
Unload ==
  /\ plugin = "loaded"
  /\ alive
  /\ plugin' = "unloading"
  /\ offered' = FALSE
  /\ UNCHANGED <<stage, target, promises, waiters, actionVars, alive, crashes, inbox, work>>

\* Faulty: the promises are dropped.
FaultyUnloaded ==
  /\ plugin = "unloading"
  /\ alive
  /\ plugin' = "unloaded"
  /\ promises' = {}
  /\ Gone
  /\ UNCHANGED <<stage, target, waiters, actionVars, offered, crashes>>

\* PLUGIN_UNLOAD_RESPONSE: Plugin.shutdown rejects every promise of its tables.
Unloaded ==
  /\ plugin = "unloading"
  /\ alive
  /\ plugin' = "unloaded"
  /\ promises' = {}
  /\ stage' = [r \in Demand |-> IF r \in promises THEN "failed" ELSE stage[r]]
  /\ Gone
  /\ UNCHANGED <<target, waiters, actionVars, offered, crashes>>

-----------------------------------------------------------------------------
ClientStep(r) ==
  /\ Cardinality({q \in Demand : stage[q] \in {"adding", "sent", "settled"}}) < MaxWaiting
  /\ \/ Begin(r)
     \/ \E a \in Action : BeginDelete(r, a)
     \/ BeginSocket(r)
     \/ BeginSet(r)

ServerStep(r) == AddedSocket(r) \/ Continue(r)

Answer(r, success) ==
  \/ AnswerAction(r, success)
  \/ AnswerDelete(r, success)
  \/ AnswerCall(r, success)
  \/ success /\ AnswerPin(r)

Next ==
  \/ \E r \in Demand : ClientStep(r) \/ ServerStep(r)
  \/ \E r \in Demand, success \in BOOLEAN : Answer(r, success)
  \/ \E a \in Action, s \in {"pending", "completed"} : Report(a, s)
  \/ \E done \in SUBSET Set : Change(done)
  \/ Crash
  \/ Restart
  \/ Unload
  \/ Unloaded

Spec == Init /\ [][Next]_vars

\* Awaits end; the process answers what it is asked, and says when it has set a
\* property; it is restarted, and unloads when it is told to.
FairSpec ==
  /\ Spec
  /\ \A r \in Demand : WF_vars(ServerStep(r))
  /\ \A r \in Demand : WF_vars(\E success \in BOOLEAN : Answer(r, success))
  /\ \A r \in Set : WF_vars(\E done \in SUBSET Set : r \in done /\ Change(done))
  /\ WF_vars(Restart) /\ WF_vars(Unloaded)

-----------------------------------------------------------------------------
(* Properties.                                                             *)

\* A request that awaits its answer is one whose promise Plugin holds, and can settle;
\* no promise is settled twice, or for another request.
PromisesHeld == \A r \in Keyed : stage[r] = "sent" <=> r \in promises

\* What a device is doing is in the list of actions, where it can be seen and removed,
\* or is about to be: no order of the answers and the reports leaves an action behind.
RunningIsListed ==
  \A a \in Action : work[a] \in {"here", "pending"}
                      => a \in actions \/ stage[a] \in {"sent", "settled"}

\* The status shown of an action that was listed before it was asked for is the one
\* last reported.
StatusShown ==
  \A a \in Socket \intersect actions :
    work[a] \in {"pending", "completed"} => status[a] = work[a]

\* An action is shown as what the device is doing: it is listed, under the status
\* last reported (the POST and DELETE of actions, ActionMsg of Plugin).
ActionsShown == RunningIsListed /\ StatusShown

\* A device that an accepted PIN has put back after the unload had removed it.
Ghost == plugin # "loaded" /\ offered

\* Again and again every request sent to the process has been answered, by the process
\* or by the unload of the add-on, unless a process has crashed or there is a ghost.
RequestsEnd == []<>(crashes > 0 \/ Ghost \/ \A r \in Keyed : stage[r] # "sent")

\* Every set of a property is answered, unless the device is replaced or goes.
SetsEnd ==
  \A r \in Set : stage[r] = "sent" ~> \/ stage[r] = "ok"
                                      \/ crashes > 0
                                      \/ plugin # "loaded"
                                      \/ \E c \in Call : stage[c] = "renewed"

\* Whatever is asked of a device is answered in the end.
AnswersCome == RequestsEnd /\ SetsEnd
=============================================================================
