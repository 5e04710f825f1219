------------------------------- MODULE Floorplan -------------------------------
(***************************************************************************)
(* The floorplan: icons of things that are pressed, and in edit mode       *)
(* dragged.  A thing that was never placed is given a spot when it is      *)
(* drawn; one that was dragged is sent to the gateway.  While the plan is  *)
(* edited nothing is drawn anew.                                           *)
(* Models static/js/views/floorplan.js.  The queue of the GatewayModel,    *)
(* from which it is told, is in GatewayClient: here each of its jobs is a  *)
(* step.                                                                   *)
(***************************************************************************)
EXTENDS Integers, Sequences, FiniteSets, SequencesExt

CONSTANTS
  Thing,
  Point,       \* where a thing may be dragged to
  MaxDrops,    \* bound: things that are dropped
  MaxPresses,  \* bound: things that are pressed
  MaxEvents    \* bound: things that change elsewhere, and views of the plan

VARIABLES
  exists,    \* the gateway's things
  kept,      \* and their spots
  order,     \* GatewayModel.things, in the order of the Map
  spots,     \* floorplanX and floorplanY of the descriptions in it
  nodes,     \* FloorplanScreen.things: what is drawn, and where it is
  edit,      \* whether the plan is edited
  selected,  \* selectedThing: an element, which may no longer be in the page
  armed,     \* whether interactTimeout is set
  timers,    \* timers that are running
  calls,     \* requests to place a thing
  news,      \* what the page is told of
  events, presses,
  adrift,    \* history: things shown, or described, where they were elsewhere meanwhile
  alone,     \* history: the description of an unplaced thing was fetched by itself
  gone,      \* history: since one was pressed, an icon disappeared, or had before from the Map
  clicked    \* history: the thing that was pressed, and the one that got the click

vars == <<exists, kept, order, spots, nodes, edit, selected, armed, timers, calls, news, events,
          presses, adrift, alone, gone, clicked>>

\* The spots for things that were not placed, one after the other; and none.
Auto == 1 .. Cardinality(Thing)
Unplaced == 0
FloorplanAssumption == IsFiniteSet(Thing) /\ Point \subseteq Nat \ (Auto \cup {Unplaced})
Spot == Auto \cup Point
Node == [thing : Thing, spot : Spot]
Nothing == <<>>

\* The gateway, the page and what is between them.
TypeOK ==
  /\ exists \subseteq Thing /\ kept \in [Thing -> Spot \cup {Unplaced}]
  /\ order \in Seq(Thing) /\ spots \in [Thing -> Spot \cup {Unplaced}]
  /\ nodes \in Seq(Node) /\ edit \in BOOLEAN
  /\ selected \in Seq([node : Node, index : Nat, live : BOOLEAN]) /\ Len(selected) <= 1
  /\ armed \in BOOLEAN /\ timers \in 0 .. MaxPresses
  /\ calls \in Seq([thing : Thing, spot : Spot, stage : {"sent", "served", "done"}])
  /\ news \in Seq([does : {"all", "one", "removed"}, thing : Thing])
  /\ adrift \subseteq Thing /\ alone \in BOOLEAN /\ gone \in BOOLEAN
  /\ clicked \in Seq(Thing)

-----------------------------------------------------------------------------
(* Drawing.                                                                *)

\* What a sequence has at some of its places, in their order.
AtThose(s, K) ==
  [k \in 1 .. Cardinality(K) |-> s[CHOOSE i \in K : Cardinality({j \in K : j <= i}) = k]]

\* What is not placed is given the next spot, also in its description.
Laid(all, s) ==
  LET place(t) == CHOOSE i \in DOMAIN all : all[i] = t
  IN [t \in Thing |-> IF t \in ToSet(all) /\ s[t] = Unplaced
                      THEN Cardinality({i \in 1 .. place(t) : s[all[i]] = Unplaced})
                      ELSE s[t]]

\* The icons, and those whose place is another in the Map: it was changed while
\* the plan was edited.
Icons == {n.thing : n \in ToSet(nodes)}
Displaced == \E i \in DOMAIN nodes : i \notin DOMAIN order \/ order[i] # nodes[i].thing

\* refreshThings: the elements are made anew, unless the plan is edited.
RefreshThings(all, s) ==
  /\ gone' = (gone \/ ~(Icons \subseteq ToSet(all)))
  /\ IF edit
     THEN /\ spots' = s
          /\ adrift' = adrift \cup {t \in Thing : \E n \in ToSet(nodes) : n.thing = t /\ n.spot # s[t]}
                              \cup (ToSet(all) \ Icons)
          /\ UNCHANGED <<nodes, selected>>
     ELSE /\ spots' = Laid(all, s)
          /\ nodes' = [i \in DOMAIN all |-> [thing |-> all[i], spot |-> spots'[all[i]]]]
          /\ selected' = [i \in DOMAIN selected |-> [selected[i] EXCEPT !.live = FALSE]]
          /\ adrift' = {t \in adrift : /\ spots'[t] # kept[t]
                                       /\ ~(kept[t] = Unplaced /\ s[t] = Unplaced)}

Init == /\ exists \in SUBSET Thing
        /\ kept \in [Thing -> {Unplaced} \cup Point]
        /\ \A t \in Thing \ exists : kept[t] = Unplaced
        /\ order = SetToSeq(exists)
        /\ spots = Laid(order, kept)
        /\ nodes = [i \in DOMAIN order |-> [thing |-> order[i], spot |-> spots[order[i]]]]
        /\ edit = FALSE /\ selected = Nothing /\ armed = FALSE /\ timers = 0
        /\ calls = <<>> /\ news = <<>> /\ events = 0 /\ presses = 0
        /\ adrift = {} /\ alone = FALSE /\ gone = FALSE /\ clicked = <<>>

Gateway == <<exists, kept, news>>
Page == <<order, spots, nodes, adrift, alone, gone>>
Pointer == <<armed, timers, presses, clicked>>

-----------------------------------------------------------------------------
(* Pressing: a short press clicks the icon, a long one opens the thing.    *)

Element(i) == <<[node |-> nodes[i], index |-> i, live |-> TRUE]>>

\* The handle of a timer that still runs is lost.
OnPointerDown(i) == /\ ~edit /\ presses < MaxPresses /\ presses' = presses + 1
                    /\ selected' = Element(i)
                    /\ armed' = TRUE /\ timers' = timers + 1
                    /\ gone' = Displaced /\ clicked' = <<>>
                    /\ UNCHANGED <<Gateway, order, spots, nodes, adrift, alone, edit, calls, events>>

\* On any icon; which one is clicked is told by the index of the one that was
\* pressed.  If there is none by now the handler throws.
OnPointerUp ==
  /\ ~edit /\ nodes # <<>> /\ selected # Nothing
  /\ IF ~armed THEN selected' = Nothing /\ UNCHANGED <<armed, timers, clicked>>
     ELSE IF selected[1].index \notin DOMAIN nodes THEN UNCHANGED <<selected, armed, timers, clicked>>
     ELSE /\ clicked' = <<selected[1].node.thing, nodes[selected[1].index].thing>>
          /\ armed' = FALSE /\ timers' = timers - 1
          /\ selected' = Nothing
  /\ UNCHANGED <<Gateway, Page, edit, calls, events, presses>>

\* 750 ms later.  The page of the thing is opened, and the icon stays selected.
Expire == /\ timers > 0 /\ timers' = timers - 1
          /\ armed' = FALSE
          /\ UNCHANGED <<Gateway, Page, edit, selected, calls, events, presses, clicked>>

-----------------------------------------------------------------------------
(* Editing.                                                                *)

Edit == /\ ~edit /\ events < MaxEvents /\ events' = events + 1
        /\ edit' = TRUE
        /\ UNCHANGED <<Gateway, Page, selected, calls, Pointer>>
\* An icon that is still held stays where it was dragged to, and nobody is told.
Done == /\ edit /\ edit' = FALSE
        /\ adrift' = adrift \cup {selected[i].node.thing : i \in DOMAIN selected}
        /\ UNCHANGED <<Gateway, order, spots, nodes, alone, gone, selected, calls, events, Pointer>>

\* An icon that was selected before stays where it is.
SelectThing(i) == /\ edit /\ Len(calls) < MaxDrops
                  /\ selected' = Element(i)
                  /\ adrift' = adrift \cup {selected[k].node.thing : k \in DOMAIN selected}
                  /\ gone' = (gone \/ Displaced)
                  /\ UNCHANGED <<Gateway, order, spots, nodes, alone, edit, calls, events, Pointer>>

\* An element that is no longer in the page is moved as well.
MoveThing(p) ==
  /\ edit /\ selected # Nothing
  /\ selected' = <<[selected[1] EXCEPT !.node.spot = p]>>
  /\ nodes' = IF selected[1].live THEN [nodes EXCEPT ![selected[1].index].spot = p] ELSE nodes
  /\ UNCHANGED <<Gateway, order, spots, adrift, alone, gone, edit, calls, events, Pointer>>

DeselectThing ==
  /\ edit /\ selected # Nothing /\ Len(calls) < MaxDrops
  /\ LET n == selected[1].node
     IN /\ calls' = Append(calls, [thing |-> n.thing, spot |-> n.spot, stage |-> "sent"])
        /\ adrift' = IF selected[1].live THEN adrift ELSE adrift \cup {n.thing}
  /\ selected' = Nothing
  /\ UNCHANGED <<Gateway, order, spots, nodes, alone, gone, edit, events, Pointer>>

-----------------------------------------------------------------------------
(* The gateway, and what it tells.                                         *)

Tell(does, t) == news' = Append(news, [does |-> does, thing |-> t])

\* The requests arrive in the order they were sent.
Serve(c) == /\ calls[c].stage = "sent" /\ \A d \in 1 .. c - 1 : calls[d].stage # "sent"
            /\ calls[c].thing \in exists
            /\ calls' = [calls EXCEPT ![c].stage = "served"]
            /\ kept' = [kept EXCEPT ![calls[c].thing] = calls[c].spot]
            /\ Tell("one", calls[c].thing)
            /\ UNCHANGED <<exists, Page, edit, selected, events, Pointer>>

\* The thing is gone, or the statement fails: it is only logged.
Failed(c) == /\ calls[c].stage = "sent" /\ \A d \in 1 .. c - 1 : calls[d].stage # "sent"
             /\ calls' = [calls EXCEPT ![c].stage = "done"]
             /\ adrift' = adrift \cup {calls[c].thing}
             /\ UNCHANGED <<Gateway, order, spots, nodes, alone, gone, edit, selected, events, Pointer>>

\* The answer is put in the description that is there by now.
Answered(c) == LET t == calls[c].thing
               IN /\ calls[c].stage = "served"
                  /\ calls' = [calls EXCEPT ![c].stage = "done"]
                  /\ spots' = IF t \in ToSet(order) THEN [spots EXCEPT ![t] = calls[c].spot] ELSE spots
                  /\ adrift' = IF kept[t] # calls[c].spot THEN adrift \cup {t} ELSE adrift
                  /\ UNCHANGED <<Gateway, order, nodes, alone, gone, edit, selected, events, Pointer>>

\* Elsewhere a thing is placed, added or removed.
Other(t) == /\ events < MaxEvents /\ events' = events + 1
            /\ \/ /\ t \in exists
                  /\ \E p \in Point : kept' = [kept EXCEPT ![t] = p]
                  /\ Tell("one", t) /\ UNCHANGED exists
               \/ /\ t \in exists /\ exists' = exists \ {t}
                  /\ kept' = [kept EXCEPT ![t] = Unplaced]
                  /\ Tell("removed", t)
               \/ /\ t \notin exists /\ exists' = exists \cup {t}
                  /\ Tell("all", t) /\ UNCHANGED kept
               \/ /\ t \in exists   \* its title
                  /\ Tell("one", t) /\ UNCHANGED <<exists, kept>>
            /\ UNCHANGED <<Page, edit, selected, calls, Pointer>>

\* A job of the model's, or DELETE_THINGS of a thing it knows.
Stays(n) == {i \in DOMAIN order : /\ ~(n.does = "removed" /\ order[i] = n.thing)
                                  /\ n.does = "all" => order[i] \in exists}
Comes(n) == CASE n.does = "all" -> exists \ ToSet(order)
              [] n.does = "one" -> {n.thing} \ ToSet(order)
              [] OTHER -> {}
Found(n) == n.does = "all" \/ n.thing \in IF n.does = "one" THEN exists ELSE ToSet(order)
Hear ==
  /\ news # <<>> /\ news' = Tail(news)
  /\ LET n == Head(news)
     IN /\ Found(n)
        /\ order' = AtThose(order, Stays(n)) \o SetToSeq(Comes(n))
        /\ RefreshThings(order', [u \in Thing |-> IF n.does = "all" \/ u = n.thing THEN kept[u]
                                                 ELSE spots[u]])
        /\ alone' = IF n.does = "all" THEN FALSE
                  ELSE alone \/ (n.does = "one" /\ kept[n.thing] = Unplaced)
  /\ UNCHANGED <<exists, kept, edit, armed, timers, calls, events, presses, clicked>>

\* A thing that is gone is not found, and nothing happens; the socket of one
\* that the model forgot is closed.
HearOfNone == /\ news # <<>> /\ ~Found(Head(news))
              /\ news' = Tail(news)
              /\ UNCHANGED <<exists, kept, Page, edit, selected, calls, events, Pointer>>

\* The view is opened again, and drawn from the descriptions.
Show == /\ events < MaxEvents /\ events' = events + 1
        /\ RefreshThings(order, spots)
        /\ UNCHANGED <<Gateway, order, alone, edit, calls, Pointer>>

Next == \/ \E i \in DOMAIN nodes : OnPointerDown(i) \/ SelectThing(i)
        \/ \E p \in Point : MoveThing(p)
        \/ \E c \in DOMAIN calls : Serve(c) \/ Failed(c) \/ Answered(c)
        \/ \E t \in Thing : Other(t)
        \/ OnPointerUp \/ Expire \/ Edit \/ Done \/ DeselectThing \/ Hear \/ HearOfNone \/ Show

Spec == Init /\ [][Next]_vars

-----------------------------------------------------------------------------
\* Once nothing is under way, a thing is shown where the gateway has it, if it was placed and
\* the page did not let a change pass (refreshThings, deselectThing).
ShownWherePlaced ==
  (\A c \in DOMAIN calls : calls[c].stage = "done") /\ news = <<>> /\ selected = Nothing =>
    \A n \in ToSet(nodes) :
      n.thing \in adrift \/ n.thing \notin exists \/ kept[n.thing] \in {Unplaced, n.spot}

\* Things that nobody placed are shown beside one another once all news is heard, unless one of
\* them was fetched by itself: it is given the first spot again; or the page let a change pass
\* (refreshThings).
NoneOnAnother ==
  LET given == {n \in ToSet(nodes) : /\ n.thing \in exists \ adrift
                                     /\ n.spot \in Auto /\ kept[n.thing] = Unplaced}
  IN ~alone /\ news = <<>> => \A m, n \in given : m.spot = n.spot => m = n

\* The icon that was pressed gets the click, though all are drawn anew in between and others
\* come, unless one disappeared in between, or from the Map while the plan was edited
\* (onPointerDown, onPointerUp).
ClickedIsPressed == clicked # <<>> /\ ~gone => clicked[1] = clicked[2]

\* The plan shows things where they are, and a click gets where it was meant to.
PlanHolds == ShownWherePlaced /\ NoneOnAnother /\ ClickedIsPressed
=============================================================================
