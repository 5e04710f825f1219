----------------------------- MODULE ThingsScreen -----------------------------
(***************************************************************************)
(* What the view of the things shows: all of them, one, the input form of  *)
(* an action, or the events of one.  The GatewayModel asks for things one  *)
(* job after the other, and a job ends when those who follow it have drawn *)
(* themselves anew; if one of them asks for a thing that is not there, its *)
(* request is a job behind the one that waits for it.                      *)
(* Models static/js/views/things.js, and the queue of                      *)
(* static/js/models/gateway-model.js as this view sees it.                 *)
(***************************************************************************)
EXTENDS Naturals, Sequences, FiniteSets

CONSTANTS
  Thing,
  MaxVisits,  \* bound: addresses opened
  MaxNews     \* bound: messages on the socket

VARIABLES
  exists,   \* the gateway's things
  known,    \* GatewayModel.things and thingModels
  queue,    \* GatewayModel.queue: what each job asks for, and for whom
  stuck,    \* whether its head waits for a job behind it
  follows,  \* handlers of REFRESH_THINGS and DELETE_THINGS: the list's and
            \* that of the last page of a thing
  drawn,    \* what the view shows
  at,       \* history: the address that was opened last
  strange,  \* history: a page of a thing was open that the model did not know
  visits, news

vars == <<exists, known, queue, stuck, follows, drawn, at, strange, visits, news>>

List == [page |-> "list"]
Page == {List} \cup [page : {"one", "form", "events"}, thing : Thing]
One(t) == [page |-> "one", thing |-> t]
NotFound == [page |-> "not found"]
All == "all"
Nobody == [page |-> "none"]

\* The things, the queue, who follows, and what is shown.
TypeOK == /\ exists \subseteq Thing /\ known \subseteq Thing
          /\ queue \in Seq([of : Thing \cup {All}, draws : Page \cup {Nobody}])
          /\ stuck \in BOOLEAN /\ strange \in BOOLEAN
          /\ follows \subseteq Page /\ drawn \in Page \cup {NotFound} /\ at \in Page
          /\ visits \in 0 .. MaxVisits /\ news \in 0 .. MaxNews

\* The page was loaded, and the model has what the gateway has.
Init == /\ exists \in SUBSET Thing /\ known = exists
        /\ at = List /\ drawn = List /\ follows = {List}
        /\ queue = <<>> /\ stuck = FALSE /\ strange = FALSE
        /\ visits = 0 /\ news = 0

\* getThing: a thing that is known is drawn at once; else a job asks for it.
Waits(p, has) == p.page # "list" /\ p.thing \notin has
Job(p) == [of |-> p.thing, draws |-> p]

-----------------------------------------------------------------------------
(* Addresses.                                                              *)

Visit(p) == /\ visits < MaxVisits /\ visits' = visits + 1
            /\ at' = p
            /\ strange' = (strange \/ Waits(p, known))
            /\ IF Waits(p, known) THEN queue' = Append(queue, Job(p)) /\ UNCHANGED drawn
               ELSE drawn' = p /\ UNCHANGED queue
            /\ UNCHANGED <<exists, known, stuck, news>>

\* showThings: the list follows the model instead of the page of a thing.
Followed(p) == {p}
ShowThings == follows' = Followed(List) /\ Visit(List)
\* showThing: the page of this thing does, instead of the list or another.
ShowThing(t) == follows' = Followed(One(t)) /\ Visit(One(t))
\* showActionInputForm, showEvents: they follow nothing, and leave the others.
ShowActionInputForm(t) == UNCHANGED follows /\ Visit([page |-> "form", thing |-> t])
ShowEvents(t) == UNCHANGED follows /\ Visit([page |-> "events", thing |-> t])

-----------------------------------------------------------------------------
(* News, and the jobs.                                                     *)

\* Those who follow are called one after the other.
Drawing(p, has) == IF Waits(p, has) THEN drawn' = drawn ELSE drawn' = p
Asking(has) == {p \in follows : Waits(p, has)}

\* thingAdded, or something changed of the groups or the layout: all is asked for.
AskAll(t) == /\ news < MaxNews /\ news' = news + 1
             /\ exists' = exists \cup {t}
             /\ queue' = Append(queue, [of |-> All, draws |-> Nobody])
             /\ UNCHANGED <<known, stuck, follows, drawn, at, strange, visits>>

\* thingModified.
Modify(t) == /\ news < MaxNews /\ news' = news + 1
             /\ t \in exists
             /\ queue' = Append(queue, [of |-> t, draws |-> Nobody])
             /\ UNCHANGED <<exists, known, stuck, follows, drawn, at, strange, visits>>

\* thingRemoved: the model forgets it, and DELETE_THINGS calls the handlers,
\* outside the queue.
Remove(t) == /\ news < MaxNews /\ news' = news + 1
             /\ t \in exists /\ exists' = exists \ {t}
             /\ known' = known \ {t}
             /\ IF t \in known
                THEN \E p \in follows :
                       /\ Drawing(p, known')
                       /\ queue' = IF p \in Asking(known') THEN Append(queue, Job(p)) ELSE queue
                       /\ strange' = (strange \/ p \in Asking(known'))
                ELSE UNCHANGED <<drawn, queue, strange>>
             /\ UNCHANGED <<stuck, follows, at, visits>>

\* The answer to the head of the queue.  refreshThings and refreshThing then
\* wait for the handlers of REFRESH_THINGS: one that asks for a thing adds a
\* job, and the head never ends.  When it ends, whoever asked for it draws.
Answer ==
  /\ queue # <<>> /\ ~stuck
  /\ LET j == Head(queue)
         found == j.of = All \/ j.of \in exists
         has == IF j.of = All THEN exists ELSE known \cup ({j.of} \cap exists)
     IN /\ known' = has
        /\ \E p \in follows :
             IF found /\ p \in Asking(has)
             THEN /\ stuck' = TRUE
                  /\ queue' = Append(queue, Job(p))
                  /\ UNCHANGED drawn
             ELSE /\ queue' = Tail(queue)
                  /\ drawn' = CASE j.draws # Nobody /\ ~found -> NotFound
                                [] j.draws # Nobody /\ found -> j.draws
                                [] j.draws = Nobody /\ found -> p
                                [] OTHER -> drawn
                  /\ UNCHANGED stuck
  /\ UNCHANGED <<exists, follows, at, strange, visits, news>>

Next == \/ ShowThings
        \/ \E t \in Thing : ShowThing(t) \/ ShowActionInputForm(t) \/ ShowEvents(t)
        \/ \E t \in Thing : AskAll(t) \/ Modify(t) \/ Remove(t)
        \/ Answer

Spec == Init /\ [][Next]_vars

-----------------------------------------------------------------------------
\* As long as no page is open of a thing the model does not know, the list is shown at its
\* address and a thing at its own, whatever news comes and in whatever order pages are opened
\* (showThings, showThing); and the queue of the model goes on: no job waits for one behind it
\* (addQueue, refreshThings, refreshThing).
ShowsWhatIsOpen ==
  ~strange => ~stuck /\ (at.page \in {"list", "one"} => drawn = at)
=============================================================================
