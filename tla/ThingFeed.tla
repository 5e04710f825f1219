------------------------------ MODULE ThingFeed ------------------------------
(***************************************************************************)
(* How what is known of the things gets around: the Map of Thing objects   *)
(* in Things and the table it is loaded from, the news of AddonManager's   *)
(* devices, the websockets on /things that follow every thing, and those   *)
(* on /new_things that are told of the devices no thing has been made of.  *)
(*                                                                         *)
(* Whoever wants the Map calls getThings and goes on when it is there.     *)
(* When it is, that takes no more than promises that are resolved, so a    *)
(* call is queued in `now` and goes on before anything else; otherwise it  *)
(* waits for the table to be read.  Statements end in any order.           *)
(***************************************************************************)
EXTENDS Naturals, Sequences, FiniteSets, SequencesExt

CONSTANTS
  Thing,       \* ids of things; a thing and the device it is made of share the id
  Present,     \* the things whose adapter runs; the others have no device
  Feed,        \* websockets on /things, each used once
  Watcher,     \* websockets on /new_things, each used once
  MaxWaiting   \* bound: calls that wait for the table to be read

\* What the callers of getThings are about to do.
Task ==
  [kind : {"added", "removed", "post"}, thing : Thing]
    \union [kind : {"connected"}, thing : Thing, to : BOOLEAN]
    \union [kind : {"open"}, feed : Feed]
    \union [kind : {"watch"}, watcher : Watcher]

ASSUME PresentAssumption == Present \subseteq Thing
ASSUME BoundAssumption == MaxWaiting \in Nat \ {0}
ASSUME FiniteAssumption == IsFiniteSet(Thing)

VARIABLES
  rows,       \* the ids in the table things
  things,     \* Things.things: per id its object, 0 for none
  object,     \* the Thing objects in use, by number
  load,       \* Things.getThingsPromise: "none", or what the database does
  snapshot,   \* the rows that were read
  waiting,    \* the calls that wait for it
  now,        \* the calls that go on now
  device,     \* AddonManager.devices
  making,     \* per id: the object createThing has made and not announced
  inserted,   \* the ids of those that are in the table, and in the Map
  updating,   \* ids whose row is being written by updateFromDescription
  deleting,   \* ids removeThing has asked the database to remove
  feed,       \* per websocket of Feed: "new", "opening", "open", "closed"
  subs,       \* per websocket: the objects it listens to
  leaked,     \* per websocket: those that its cleanup has lost
  layoutSubs, \* the websockets whose onLayoutModified is called
  shown,      \* per client: the state it shows of each thing
  watcher,    \* per websocket of Watcher: "new", "opening", "open", "closed"
  found,      \* per websocket of Watcher: the devices it was told of
  heard,      \* history: the connection of each device, as last heard
  missed,     \* history: things made while their device was not connected
  forgotten,  \* history: devices that lost their thing, and not heard of since
  spoiled,    \* history: things made or removed while the table was read again
  early       \* history: feeds opened during a creation, or closed while opening

storeVars == <<rows, load, snapshot, waiting>>
objectVars == <<things, object>>
requestVars == <<making, inserted, updating, deleting>>
feedVars == <<feed, subs, leaked, layoutSubs, shown>>
watcherVars == <<watcher, found>>
historyVars == <<heard, missed, forgotten, spoiled, early>>
vars == <<storeVars, now, device, objectVars, requestVars, feedVars, watcherVars, historyVars>>

\* The types of the variables; a thing is found in the Map under its own id,
\* calls wait only for a table that is being read (Things.getThings).
TypeOK ==
  /\ rows \subseteq Thing /\ snapshot \subseteq Thing /\ device \subseteq Present
  /\ \A o \in DOMAIN object : object[o] \in [id : Thing, connected : BOOLEAN]
  /\ \A t \in Thing : things[t] # 0 => object[things[t]].id = t
  /\ load \in {"none", "reading", "read"}
  /\ \A i \in DOMAIN waiting : waiting[i] \in Task
  /\ \A i \in DOMAIN now : now[i] \in Task
  /\ waiting # << >> <=> load # "none"
  /\ \A t \in Thing : making[t] # 0 => object[making[t]].id = t
  /\ inserted \subseteq {t \in Thing : making[t] # 0}
  /\ updating \subseteq Thing /\ deleting \subseteq Thing
  /\ feed \in [Feed -> {"new", "opening", "open", "closed"}]
  /\ subs \in [Feed -> SUBSET DOMAIN object]
  /\ \A f \in Feed : leaked[f] \subseteq subs[f]
  /\ layoutSubs \subseteq Feed
  /\ shown \in [Feed -> [Thing -> {"absent", "connected", "disconnected"}]]
  /\ watcher \in [Watcher -> {"new", "opening", "open", "closed"}]
  /\ found \in [Watcher -> SUBSET Thing]
  /\ heard \in [Thing -> BOOLEAN]
  /\ {missed, forgotten, spoiled} \subseteq SUBSET Thing /\ early \subseteq Feed

\* The server has just started.
Init ==
  /\ rows \in SUBSET Thing
  /\ things = [t \in Thing |-> 0]
  /\ object = << >>
  /\ load = "none" /\ snapshot = {}
  /\ waiting = << >> /\ now = << >>
  /\ device = {}
  /\ making = [t \in Thing |-> 0]
  /\ inserted = {} /\ updating = {} /\ deleting = {}
  /\ feed = [f \in Feed |-> "new"]
  /\ subs = [f \in Feed |-> {}] /\ leaked = [f \in Feed |-> {}]
  /\ layoutSubs = {}
  /\ shown = [f \in Feed |-> [t \in Thing |-> "absent"]]
  /\ watcher = [w \in Watcher |-> "new"]
  /\ found = [w \in Watcher |-> {}]
  /\ heard = [t \in Thing |-> FALSE]
  /\ missed = {} /\ forgotten = {} /\ spoiled = {} /\ early = {}

-----------------------------------------------------------------------------
(* Things.getThings.                                                       *)

Mapped == {t \in Thing : things[t] # 0}
Quiet == now = << >>

\* A call goes on with the Map when there is something in it, or waits for the
\* table, which is being read or is read again.
Call(task) ==
  /\ IF Mapped # {}
     THEN /\ now' = Append(now, task)
          /\ UNCHANGED <<load, waiting>>
     ELSE /\ Len(waiting) < MaxWaiting
          /\ waiting' = Append(waiting, task)
          /\ load' = IF load = "none" THEN "reading" ELSE load
          /\ UNCHANGED now
  /\ UNCHANGED <<rows, snapshot>>

Numbers == DOMAIN object
Unused == (1 .. Cardinality(Numbers) + Cardinality(Thing)) \ Numbers
NewObject == CHOOSE o \in Unused : \A p \in Unused : o <= p

\* The objects that are still of use.
Used ==
  {things[t] : t \in Thing} \union {making[t] : t \in Thing}
    \union UNION {subs[f] : f \in Feed}
Kept == Numbers \intersect Used'
Swept == [o \in Kept |-> object[o]]

\* The database reads the table.
Read ==
  /\ Quiet /\ load = "reading"
  /\ load' = "read"
  /\ snapshot' = rows
  /\ UNCHANGED <<rows, waiting, now, device, objectVars, requestVars, feedVars, watcherVars,
                 historyVars>>

\* Faulty: what was heard while the table was read is dropped.
FaultyLoaded ==
  /\ Quiet /\ load = "read"
  /\ load' = "none" /\ snapshot' = {}
  /\ now' = SelectSeq(waiting, LAMBDA k : k.kind \in {"open", "watch"}) /\ waiting' = << >>
  /\ UNCHANGED <<rows, device, requestVars, feedVars, watcherVars, historyVars>>
  /\ LET number == CHOOSE g \in [snapshot -> Unused] : \A t, u \in snapshot : g[t] = g[u] => t = u
     IN  /\ things' = [t \in Thing |-> IF t \in snapshot THEN number[t] ELSE 0]
         /\ object' = [o \in Kept \union {number[t] : t \in snapshot} |->
                         IF o \in Numbers THEN object[o]
                         ELSE [id |-> CHOOSE t \in snapshot : number[t] = o, connected |-> FALSE]]

\* The rows arrive: a new Map of new objects, and those who waited go on.
Loaded ==
  /\ Quiet /\ load = "read"
  /\ load' = "none" /\ snapshot' = {}
  /\ now' = waiting /\ waiting' = << >>
  /\ spoiled' = spoiled \union Mapped \union {t \in Thing : making[t] # 0} \union (snapshot \ rows)
  /\ UNCHANGED <<rows, device, requestVars, feedVars, watcherVars, heard, missed, forgotten, early>>
  /\ LET number == CHOOSE g \in [snapshot -> Unused] : \A t, u \in snapshot : g[t] = g[u] => t = u
         id(o) == CHOOSE t \in snapshot : number[t] = o
     IN  /\ things' = [t \in Thing |-> IF t \in snapshot THEN number[t] ELSE 0]
         /\ object' = [o \in Kept \union {number[t] : t \in snapshot} |->
                         IF o \in Numbers THEN object[o] ELSE [id |-> id(o), connected |-> FALSE]]

-----------------------------------------------------------------------------
(* Thing: who listens, and what is told.                                   *)

State(to) == IF to THEN "connected" ELSE "disconnected"
Listening(o) == {f \in Feed : o \in subs[f] /\ feed[f] # "closed"}

SetConnected(o, to) ==
  /\ object' = [object EXCEPT ![o].connected = to]
  /\ shown' = [f \in Feed |-> IF f \in Listening(o)
                               THEN [shown[f] EXCEPT ![object[o].id] = State(to)] ELSE shown[f]]

\* Some feeds begin to listen to some objects, and are told their state.  A feed
\* remembers one cleanup per thing: the listeners it had before stay for good.
AddThings(feeds, objects) ==
  LET ids == {object[o].id : o \in objects}
      thing(t) == object[CHOOSE o \in objects : object[o].id = t]
      told(f) == IF f \in feeds /\ feed[f] # "closed" THEN ids ELSE {}
  IN  /\ leaked' = [f \in Feed |-> leaked[f] \union
                     IF f \in feeds THEN {o \in subs[f] : object[o].id \in ids} ELSE {}]
      /\ subs' = [f \in Feed |-> subs[f] \union IF f \in feeds THEN objects ELSE {}]
      /\ shown' = [f \in Feed |-> [t \in Thing |->
                     IF t \in told(f) THEN State(thing(t).connected) ELSE shown[f][t]]]

-----------------------------------------------------------------------------
(* Those who wait for the Map, and what they do with it.                   *)

\* AddonManager.handleDeviceAdded, for a device that is new or added once more.
DeviceAdded(t) ==
  /\ Quiet
  /\ device' = device \union {t}
  /\ heard' = [heard EXCEPT ![t] = TRUE]
  /\ forgotten' = forgotten \ {t}
  /\ Call([kind |-> "added", thing |-> t])
  /\ UNCHANGED <<objectVars, requestVars, feedVars, watcherVars, missed, spoiled, early>>

\* AddonManager.handleDeviceRemoved.
DeviceRemoved(t) ==
  /\ Quiet /\ t \in device
  /\ device' = device \ {t}
  /\ heard' = [heard EXCEPT ![t] = FALSE]
  /\ forgotten' = forgotten \ {t}
  /\ Call([kind |-> "removed", thing |-> t])
  /\ UNCHANGED <<objectVars, requestVars, feedVars, watcherVars, missed, spoiled, early>>

\* DEVICE_CONNECTED_STATE_NOTIFICATION.
DeviceConnected(t, to) ==
  /\ Quiet /\ t \in device
  /\ heard' = [heard EXCEPT ![t] = to]
  /\ Call([kind |-> "connected", thing |-> t, to |-> to])
  /\ UNCHANGED <<device, objectVars, requestVars, feedVars, watcherVars, missed, forgotten, spoiled,
                 early>>

\* POST /things; of two that make the same thing the table takes one.
Post(t) ==
  /\ Quiet /\ making[t] = 0
  /\ \A i \in DOMAIN waiting : waiting[i] # [kind |-> "post", thing |-> t]
  /\ Call([kind |-> "post", thing |-> t])
  /\ UNCHANGED <<device, objectVars, requestVars, feedVars, watcherVars, historyVars>>

\* A websocket on /things is opened, and hears of the layout from now on.
Open(f) ==
  /\ Quiet /\ feed[f] = "new"
  /\ feed' = [feed EXCEPT ![f] = "opening"]
  /\ layoutSubs' = layoutSubs \union {f}
  /\ Call([kind |-> "open", feed |-> f])
  /\ UNCHANGED <<device, objectVars, requestVars, subs, leaked, shown, watcherVars, historyVars>>

\* A websocket on /new_things is opened, and registered.
Watch(w) ==
  /\ Quiet /\ watcher[w] = "new"
  /\ watcher' = [watcher EXCEPT ![w] = "opening"]
  /\ Call([kind |-> "watch", watcher |-> w])
  /\ UNCHANGED <<device, objectVars, requestVars, feedVars, found, historyVars>>

\* Faulty: a device no thing has been made of is passed over, as it is by
\* handleThingRemoved.
FaultyTakeUp(task) ==
  LET o == things[task.thing]
  IN  /\ task.kind = "added"
      /\ IF o # 0
         THEN /\ SetConnected(o, TRUE)
              /\ missed' = missed \ {task.thing}
              /\ updating' = updating \union {task.thing}
         ELSE UNCHANGED <<object, shown, missed, updating>>
      /\ UNCHANGED <<things, making, inserted, deleting, feed, subs, leaked, layoutSubs, watcherVars,
                     forgotten, spoiled, early>>

\* Those who watch for new things are told of one.
Tell(t) == found' = [w \in Watcher |-> IF watcher[w] \in {"opening", "open"}
                                         THEN found[w] \union {t} ELSE found[w]]

\* Things.handleNewThing: the thing is connected and its row written with the
\* description it takes over, or it is unknown, and those who watch are told.
TakeUp(task) ==
  LET o == things[task.thing]
  IN  /\ task.kind = "added"
      /\ IF o # 0
         THEN /\ SetConnected(o, TRUE)
              /\ missed' = missed \ {task.thing}
              /\ updating' = updating \union {task.thing}
              /\ UNCHANGED found
         ELSE /\ Tell(task.thing)
              /\ UNCHANGED <<object, shown, missed, updating>>
      /\ UNCHANGED <<things, making, inserted, deleting, feed, subs, leaked, layoutSubs, watcher,
                     forgotten, spoiled, early>>

\* Things.handleThingRemoved, Things.handleConnected.
TakeState(task) ==
  LET o == things[task.thing]
      to == task.kind = "connected" /\ task.to
  IN  /\ task.kind \in {"removed", "connected"}
      /\ IF o # 0
         THEN SetConnected(o, to) /\ missed' = missed \ {task.thing}
         ELSE UNCHANGED <<object, shown, missed>>
      /\ UNCHANGED <<things, requestVars, feed, subs, leaked, layoutSubs, watcherVars,
                     forgotten, spoiled, early>>

\* POST /things bails out if the thing is there; Things.createThing makes it.
Create(task) ==
  LET t == task.thing
  IN  /\ task.kind = "post"
      /\ IF things[t] = 0
         THEN /\ making' = [making EXCEPT ![t] = NewObject]
              /\ object' = [o \in Numbers \union {NewObject} |->
                              IF o \in Numbers THEN object[o] ELSE [id |-> t, connected |-> TRUE]]
         ELSE UNCHANGED <<making, object>>
      /\ UNCHANGED <<things, inserted, updating, deleting, feedVars, watcherVars, missed, forgotten,
                     spoiled, early>>

\* The websocket listens to every thing there is, be it closed by now.
Follow(task) ==
  LET f == task.feed
  IN  /\ task.kind = "open"
      /\ AddThings({f}, {things[t] : t \in Mapped})
      /\ feed' = [feed EXCEPT ![f] = IF @ = "opening" THEN "open" ELSE @]
      /\ early' = early \union IF feed[f] = "closed" \/ inserted # {} THEN {f} ELSE {}
      /\ UNCHANGED <<objectVars, requestVars, layoutSubs, watcherVars, missed, forgotten, spoiled>>

\* The websocket is sent what Things.getNewThings returns.
Offer(task) ==
  LET w == task.watcher
  IN  /\ task.kind = "watch"
      /\ IF watcher[w] = "opening"
         THEN /\ watcher' = [watcher EXCEPT ![w] = "open"]
              /\ found' = [found EXCEPT ![w] = @ \union (device \ Mapped)]
         ELSE UNCHANGED watcherVars
      /\ UNCHANGED <<objectVars, requestVars, feedVars, missed, forgotten, spoiled, early>>

\* The next of those who go on does so.
Go ==
  /\ now # << >>
  /\ now' = Tail(now)
  /\ LET task == Head(now)
     IN  \/ TakeUp(task) \/ TakeState(task) \/ Create(task) \/ Follow(task) \/ Offer(task)
  /\ UNCHANGED <<storeVars, device, heard>>

-----------------------------------------------------------------------------
(* Statements end; clients leave.                                          *)

\* Things.createThing when the row is in, or cannot be since there is one.
Inserted(t) ==
  /\ Quiet /\ making[t] # 0 /\ t \notin inserted
  /\ IF t \in rows
     THEN /\ making' = [making EXCEPT ![t] = 0]
          /\ UNCHANGED <<rows, things, inserted, missed>>
     ELSE /\ rows' = rows \union {t}
          /\ things' = [things EXCEPT ![t] = making[t]]
          /\ inserted' = inserted \union {t}
          /\ missed' = IF heard[t] THEN missed ELSE missed \union {t}
          /\ UNCHANGED making
  /\ UNCHANGED <<load, snapshot, waiting, now, device, updating, deleting,
                 feedVars, watcherVars, heard, forgotten, spoiled, early>>
  /\ object' = Swept

\* Faulty: the listener for THING_ADDED outlives its websocket.
FaultyAnnounced(t) ==
  /\ Quiet /\ t \in inserted
  /\ AddThings({f \in Feed : feed[f] # "new"}, {making[t]})
  /\ making' = [making EXCEPT ![t] = 0]
  /\ inserted' = inserted \ {t}
  /\ UNCHANGED <<storeVars, now, device, objectVars, updating, deleting, feed, layoutSubs,
                 watcherVars, historyVars>>

\* THING_ADDED, when the thing has its place in the layout.
Announced(t) ==
  /\ Quiet /\ t \in inserted
  /\ AddThings({f \in Feed : feed[f] \in {"opening", "open"}}, {making[t]})
  /\ making' = [making EXCEPT ![t] = 0]
  /\ inserted' = inserted \ {t}
  /\ UNCHANGED <<storeVars, now, device, things, updating, deleting, feed, layoutSubs,
                 watcherVars, historyVars>>
  /\ object' = Swept

\* The row is written, or cannot be: then handleNewThing takes the thing for one
\* nobody knows, and those who watch are told.
Updated(t) ==
  /\ Quiet /\ t \in updating
  /\ updating' = updating \ {t}
  /\ Tell(t) \/ UNCHANGED found
  /\ UNCHANGED <<storeVars, now, device, objectVars, making, inserted, deleting, feedVars, watcher,
                 historyVars>>

\* DELETE /things/:thingId; the adapter, which is asked first, has answered or not.
Delete(t) ==
  /\ Quiet /\ t \in rows \ deleting
  /\ deleting' = deleting \union {t}
  /\ UNCHANGED <<storeVars, now, device, objectVars, making, inserted, updating, feedVars,
                 watcherVars, historyVars>>

\* Things.removeThing when the row is gone, and Thing.remove.
Deleted(t) ==
  /\ Quiet /\ t \in deleting
  /\ deleting' = deleting \ {t}
  /\ rows' = rows \ {t}
  /\ things' = [things EXCEPT ![t] = 0]
  /\ LET told(f) == things[t] # 0 /\ things[t] \in subs[f]
     IN  /\ subs' = [f \in Feed |-> IF told(f)
                       THEN {o \in subs[f] : object[o].id # t \/ o \in leaked[f]} ELSE subs[f]]
         /\ shown' = [f \in Feed |-> IF told(f) THEN [shown[f] EXCEPT ![t] = "absent"] ELSE shown[f]]
  /\ missed' = missed \ {t}
  /\ forgotten' = forgotten \union (device \intersect Mapped \intersect {t})
  /\ spoiled' = IF making[t] # 0 THEN spoiled \union {t} ELSE spoiled
  /\ UNCHANGED <<load, snapshot, waiting, now, device, making, inserted, updating, feed, leaked,
                 layoutSubs, watcherVars, heard, early>>
  /\ object' = Swept

\* The websocket on /things is closed: cleanup, which passes over the listener
\* onLayoutModified.
Close(f) ==
  /\ Quiet /\ feed[f] \in {"opening", "open"}
  /\ feed' = [feed EXCEPT ![f] = "closed"]
  /\ subs' = [subs EXCEPT ![f] = leaked[f]]
  /\ shown' = [shown EXCEPT ![f] = [t \in Thing |-> "absent"]]
  /\ early' = IF feed[f] = "opening" THEN early \union {f} ELSE early
  /\ UNCHANGED <<storeVars, now, device, things, requestVars, leaked, layoutSubs, watcherVars, heard,
                 missed, forgotten, spoiled>>
  /\ object' = Swept

\* The websocket on /new_things is closed.
Leave(w) ==
  /\ Quiet /\ watcher[w] \in {"opening", "open"}
  /\ watcher' = [watcher EXCEPT ![w] = "closed"]
  /\ found' = [found EXCEPT ![w] = {}]
  /\ UNCHANGED <<storeVars, now, device, objectVars, requestVars, feedVars, historyVars>>

Next ==
  \/ Read \/ Loaded \/ Go
  \/ \E t \in Thing :
       \/ t \in Present /\ DeviceAdded(t)
       \/ DeviceRemoved(t)
       \/ \E to \in BOOLEAN : DeviceConnected(t, to)
       \/ Post(t) \/ Inserted(t) \/ Announced(t) \/ Updated(t) \/ Delete(t) \/ Deleted(t)
  \/ \E f \in Feed : Open(f) \/ Close(f)
  \/ \E w \in Watcher : Watch(w) \/ Leave(w)

Spec == Init /\ [][Next]_vars

\* Bound: what follows a mishap is not looked at.
Undisturbed == spoiled = {} /\ early = {}
\* Bound: websockets of one kind only are opened; neither can tell that the others
\* are there.
OneAudience ==
  (\A f \in Feed : feed[f] = "new") \/ (\A w \in Watcher : watcher[w] = "new")

-----------------------------------------------------------------------------
\* Nobody waits, and nobody is about to go on.
Steady == now = << >> /\ waiting = << >>

\* A client that follows the things shows each with the connection the server
\* holds for it, and no thing that is gone, whatever was made, removed, loaded or
\* heard in whatever order (Thing.addConnectedSubscription, onThingAdded,
\* onRemoved).  Not said of a thing whose creation is half done.
FeedFollows ==
  Quiet => \A f \in Feed, t \in Thing \ (spoiled \union inserted) :
    feed[f] = "open" =>
      shown[f][t] = IF things[t] = 0 THEN "absent" ELSE State(object[things[t]].connected)

\* Once nobody waits, a Thing is connected just if its device was when last heard
\* of, also of what was heard before the things were loaded (Things.getThings,
\* handleNewThing, handleThingRemoved, handleConnected).
ConnectedAsHeard ==
  Steady => \A t \in Mapped \ (spoiled \union missed) : object[things[t]].connected = heard[t]

\* What a client is shown, what a Thing says and what was heard of its device agree.
ConnectionsShown == FeedFollows /\ ConnectedAsHeard

\* Who watches for new things has been told of every device that no thing has been
\* made of, those added while the list was on its way included
\* (registerWebsocket, then getNewThings).
StrangersAreOffered ==
  Steady => \A w \in Watcher :
    watcher[w] = "open" => device \ (Mapped \union forgotten \union spoiled) \subseteq found[w]

\* A device that has become a thing is not offered as new, not even before the
\* things have been loaded (getNewThings and handleNewThing wait for the Map),
\* but at the end of writing its row, which may have failed (things.ts 219).
OnlyStrangersOffered ==
  \A w \in Watcher :
    (found'[w] \ found[w]) \intersect (rows \ spoiled) \subseteq updating \ updating'

\* After every step those who watch are offered all strangers, and the step has
\* offered strangers only, or a thing whose row was being written.
StrangersOffered == [][OnlyStrangersOffered /\ StrangersAreOffered']_vars

\* A websocket that is closed listens to no thing (cleanup), unless it was closed
\* before it was open or was opened in the middle of a creation.  It does go on
\* listening for changes of the layout (layoutSubs), which cleanup passes over.
NoThingListenerLeft ==
  \A f \in Feed \ early : feed[f] = "closed" => {o \in subs[f] : object[o].id \notin spoiled} = {}
=============================================================================
