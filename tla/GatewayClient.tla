---------------------------- MODULE GatewayClient ----------------------------
(***************************************************************************)
(* What the browser knows of the gateway: gateway-model.js keeps a map of  *)
(* things, each with a ThingModel (thing-model.js), and the groups; two    *)
(* sockets (reopening-web-socket.js) bring news of things and of groups,   *)
(* and a queue of jobs asks for what the news is about.  Sockets are lost  *)
(* and opened again, and news sent in between is lost.  A description is   *)
(* the number of the change that made it, 0 when there is no thing; the    *)
(* groups and the layout are one number.                                   *)
(***************************************************************************)
EXTENDS Naturals, Sequences

CONSTANTS Thing,         \* ids of things, all of them with events
          Overtakes,     \* news may overtake an answer sent before it
          Returns,       \* a thing that was removed may be added again
          MaxChanges,    \* bound: changes others make on the gateway
          MaxAsks,       \* bound: what the user asks for
          MaxLosses      \* bound: losses of a socket

VARIABLES has,           \* the gateway's things
          gone,          \* those that were removed
          layout,        \* its groups and layout
          news,          \* messages on the socket of things
          groupNews,     \* messages on the socket of groups
          ws, groupsWs,  \* the sockets: "opening", "open" or "down"
          heard,         \* things whose events this socket is subscribed to
          shown,         \* GatewayModel.things
          groups,        \* GatewayModel.groups
          born,          \* things that had a ThingModel: its listeners stay
          queue,         \* jobs; the head is running once `sent`
          sent, reply,   \* the head's request is out; what the gateway answered
          changes, asks, losses

vars == <<has, gone, layout, news, groupNews, ws, groupsWs, heard, shown, groups, born,
          queue, sent, reply, changes, asks, losses>>

Version == 0 .. MaxChanges + MaxAsks
Job == [do : {"all", "get", "remove", "update"}, thing : Thing]
News == [type : {"thingAdded", "thingModified", "thingRemoved"}, thing : Thing]
NoReply == [things |-> [t \in Thing |-> 0], layout |-> 0, is |-> FALSE]

\* The gateway's state, the page's, the sockets and the queue.
TypeOK == /\ has \in [Thing -> Version] /\ gone \subseteq Thing /\ layout \in Version
          /\ shown \in [Thing -> Version] /\ groups \in Version
          /\ news \in Seq(News) /\ groupNews \in Nat
          /\ ws \in {"opening", "open", "down"} /\ groupsWs \in {"opening", "open", "down"}
          /\ heard \subseteq Thing /\ born \subseteq Thing
          /\ queue \in Seq(Job) /\ sent \in BOOLEAN
          /\ reply \in [things : [Thing -> Version], layout : Version, is : BOOLEAN]
          /\ changes \in Version /\ asks \in 0 .. MaxAsks /\ losses \in 0 .. MaxLosses

AnyThing == CHOOSE t \in Thing : TRUE
All == [do |-> "all", thing |-> AnyThing]
Nothing == [t \in Thing |-> 0]

Init == /\ has = Nothing /\ gone = {} /\ layout = 0 /\ shown = Nothing /\ groups = 0
        /\ news = <<>> /\ groupNews = 0 /\ ws = "opening" /\ groupsWs = "opening"
        /\ heard = {} /\ born = {}
        /\ queue = <<>> /\ sent = FALSE /\ reply = NoReply
        /\ changes = 0 /\ asks = 0 /\ losses = 0

Gateway == <<has, gone, layout, changes>>
Sockets == <<news, groupNews, ws, groupsWs, heard, losses>>
Page == <<shown, groups, born>>
Jobs == <<queue, sent, reply>>

Told(type, t) == news' = IF ws = "open" THEN Append(news, [type |-> type, thing |-> t])
                         ELSE news

-----------------------------------------------------------------------------
(* The gateway, and other pages, change things.                            *)

Change(t, to, type) == /\ changes < MaxChanges /\ changes' = changes + 1
                       /\ has' = [has EXCEPT ![t] = to]
                       /\ gone' = IF to = 0 THEN gone \cup {t} ELSE gone
                       /\ Told(type, t)
                       /\ UNCHANGED <<layout, groupNews, ws, groupsWs, heard, losses,
                                      Page, Jobs, asks>>
Add(t) == has[t] = 0 /\ (t \notin gone \/ Returns) /\ Change(t, changes + 1, "thingAdded")
Modify(t) == has[t] # 0 /\ Change(t, changes + 1, "thingModified")
Remove(t) == has[t] # 0 /\ Change(t, 0, "thingRemoved")

Rearrange == /\ changes < MaxChanges /\ changes' = changes + 1
             /\ layout' = changes + 1
             /\ groupNews' = IF groupsWs = "open" THEN groupNews + 1 ELSE groupNews
             /\ UNCHANGED <<has, gone, news, ws, groupsWs, heard, losses, Page, Jobs, asks>>

-----------------------------------------------------------------------------
(* The sockets.                                                            *)

\* `open` of the socket of things: the map is asked for again, and every
\* ThingModel there ever was subscribes to its events; what the gateway
\* answers for a thing it no longer has is a 400, which the page ignores.
\* Faulty: the map is asked for at the first opening only.
FaultyRefreshed == IF losses = 0 THEN Append(queue, All) ELSE queue
Refreshed == Append(queue, All)
Open == /\ ws = "opening"
        /\ ws' = "open"
        /\ heard' = {t \in born : has[t] # 0}
        /\ queue' = Refreshed
        /\ UNCHANGED <<news, groupNews, groupsWs, losses, Gateway, Page, sent, reply, asks>>

OpenGroups == /\ groupsWs = "opening"
              /\ groupsWs' = "open"
              /\ queue' = Refreshed
              /\ UNCHANGED <<news, groupNews, ws, heard, losses, Gateway, Page, sent, reply, asks>>

\* close or error: reopen drops the socket, and a timer opens the next one.
Lose == /\ ws # "down" /\ losses < MaxLosses
        /\ ws' = "down" /\ losses' = losses + 1
        /\ news' = <<>> /\ heard' = {}
        /\ UNCHANGED <<groupNews, groupsWs, Gateway, Page, Jobs, asks>>
LoseGroups == /\ groupsWs # "down" /\ losses < MaxLosses
              /\ groupsWs' = "down" /\ losses' = losses + 1
              /\ groupNews' = 0
              /\ UNCHANGED <<news, ws, heard, Gateway, Page, Jobs, asks>>
Reopen == /\ ws = "down"
          /\ ws' = "opening"
          /\ UNCHANGED <<news, groupNews, groupsWs, heard, losses, Gateway, Page, Jobs, asks>>
ReopenGroups == /\ groupsWs = "down"
                /\ groupsWs' = "opening"
                /\ UNCHANGED <<news, groupNews, ws, heard, losses, Gateway, Page, Jobs, asks>>

-----------------------------------------------------------------------------
(* News: onMessage of the GatewayModel and of the ThingModels.             *)

InOrder == Overtakes \/ ~reply.is

Hear == /\ ws = "open" /\ news # <<>> /\ InOrder
        /\ LET m == Head(news)
               ask == [do |-> "get", thing |-> m.thing]
           IN /\ queue' = CASE m.type = "thingAdded" -> Append(queue, All)
                            [] m.type = "thingModified" -> Append(queue, ask)
                            [] OTHER -> queue
              /\ shown' = IF m.type = "thingRemoved"
                          THEN [shown EXCEPT ![m.thing] = 0] ELSE shown
        /\ news' = Tail(news)
        /\ UNCHANGED <<groupNews, ws, groupsWs, heard, losses, Gateway, groups, born,
                       sent, reply, asks>>

HearGroups == /\ groupsWs = "open" /\ groupNews > 0 /\ InOrder
              /\ groupNews' = groupNews - 1
              /\ queue' = Append(queue, All)
              /\ UNCHANGED <<news, ws, groupsWs, heard, losses, Gateway, Page, sent, reply, asks>>

-----------------------------------------------------------------------------
(* The queue.                                                              *)

\* removeThing and updateThing of a thing that is shown; getThing and
\* getThingModel of one that is not.
Ask(t) == /\ asks < MaxAsks /\ asks' = asks + 1
          /\ \E do \in IF shown[t] # 0 THEN {"remove", "update"} ELSE {"get"} :
               queue' = Append(queue, [do |-> do, thing |-> t])
          /\ UNCHANGED <<Gateway, Sockets, Page, sent, reply>>

\* The head is run: its request goes out, unless its thing is gone by now.
Run == /\ queue # <<>> /\ ~sent
       /\ LET j == Head(queue)
          IN IF j.do \in {"remove", "update"} /\ shown[j.thing] = 0
             THEN queue' = Tail(queue) /\ UNCHANGED sent
             ELSE sent' = TRUE /\ UNCHANGED queue
       /\ UNCHANGED <<Gateway, Sockets, Page, reply, asks>>

\* The gateway serves it.
Serve == /\ sent /\ ~reply.is
         /\ reply' = [things |-> has, layout |-> layout, is |-> TRUE]
         /\ LET j == Head(queue)
            IN IF j.do \in {"remove", "update"} /\ has[j.thing] # 0
               THEN /\ changes' = changes + 1
                    /\ has' = [has EXCEPT ![j.thing] = IF j.do = "remove" THEN 0 ELSE changes + 1]
                    /\ gone' = IF j.do = "remove" THEN gone \cup {j.thing} ELSE gone
                    /\ Told(IF j.do = "remove" THEN "thingRemoved" ELSE "thingModified", j.thing)
                    /\ UNCHANGED layout
               ELSE UNCHANGED <<Gateway, news>>
         /\ UNCHANGED <<groupNews, ws, groupsWs, heard, losses, Page, queue, sent, asks>>

\* A ThingModel is made for each thing that has none: it subscribes to its
\* events at once if the socket is open, else when it opens.  While there is
\* no socket its constructor throws, and the job ends there.
Subscribes(new) == IF ws = "open" THEN new ELSE {}
Known == {t \in Thing : shown[t] # 0}
Set(ids, also) ==
    LET new == {t \in ids : reply.things[t] # 0} \ Known
    IN IF ws = "down" /\ new # {}
       THEN /\ \E done \in SUBSET (ids \cap Known) :
                 shown' = [t \in Thing |-> IF t \in done /\ reply.things[t] # 0
                                           THEN reply.things[t] ELSE shown[t]]
            /\ UNCHANGED <<heard, born, groups>>
       ELSE /\ shown' = [t \in Thing |-> IF t \in ids THEN reply.things[t] ELSE shown[t]]
            /\ heard' = heard \cup (Subscribes(new) \cap {t \in Thing : has[t] # 0})
            /\ born' = born \cup new
            /\ groups' = IF also THEN reply.layout ELSE groups

\* The answer comes: refreshThings takes over all and drops what is not
\* there; refreshThing takes over one that is; a removal drops it; an update
\* asks for the thing once more.
Answer == /\ sent /\ reply.is
          /\ sent' = FALSE /\ reply' = NoReply
          /\ LET j == Head(queue)
             IN /\ queue' = IF j.do = "update"
                            THEN Append(Tail(queue), [do |-> "get", thing |-> j.thing])
                            ELSE Tail(queue)
                /\ CASE j.do = "all" -> Set(Thing, TRUE)
                     [] j.do = "get" /\ reply.things[j.thing] # 0 -> Set({j.thing}, FALSE)
                     [] j.do = "remove" -> /\ shown' = [shown EXCEPT ![j.thing] = 0]
                                           /\ UNCHANGED <<heard, born, groups>>
                     [] OTHER -> UNCHANGED <<shown, heard, born, groups>>
          /\ UNCHANGED <<news, groupNews, ws, groupsWs, losses, Gateway, asks>>

\* The request fails while the gateway is out of reach: only logged.
Fail == /\ sent /\ ws # "open"
        /\ sent' = FALSE /\ reply' = NoReply /\ queue' = Tail(queue)
        /\ UNCHANGED <<Gateway, Sockets, Page, asks>>

Next == \/ \E t \in Thing : Add(t) \/ Modify(t) \/ Remove(t) \/ Ask(t)
        \/ Rearrange \/ Open \/ OpenGroups \/ Lose \/ LoseGroups \/ Reopen \/ ReopenGroups
        \/ Hear \/ HearGroups \/ Run \/ Serve \/ Answer \/ Fail

Spec == Init /\ [][Next]_vars

-----------------------------------------------------------------------------
Quiet == /\ ws = "open" /\ groupsWs = "open" /\ news = <<>> /\ groupNews = 0
         /\ queue = <<>>

\* When the news is heard and the jobs are done, the page shows the things
\* and groups of the gateway, whatever was lost with the sockets before
\* (refreshThings at each opening; refreshThings and refreshThing on news).
CaughtUp == Quiet => shown = has /\ groups = layout

\* The gateway then sends the page the events of every thing it shows: each
\* is subscribed on the present socket, whether its model was made before the
\* socket opened or after (initWebSocket, ReopeningWebSocket).
EventsHeard == Quiet => Known \subseteq heard

\* Once it is quiet the page is in step with the gateway: it shows what is there, and
\* hears of it.
InStep == CaughtUp /\ EventsHeard
=============================================================================
