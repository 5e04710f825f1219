------------------------------ MODULE ThingsPage ------------------------------
(***************************************************************************)
(* The overview: things and groups that are dragged to another place.      *)
(* Where one is dropped, its node is moved in the page at once, the        *)
(* gateway is asked to move it, and when it has, the page is drawn anew.   *)
(* What to ask for is computed from the indices the page was drawn with.   *)
(* Models static/js/views/things.js and group.js, and the dragging of      *)
(* static/js/schema-impl/capability/thing.js.                              *)
(***************************************************************************)
EXTENDS Integers, Sequences, FiniteSets, SequencesExt

CONSTANTS
  Thing, Group,
  NoGroup,     \* the list of the things that are in none
  MaxMoves,    \* bound: things and groups that are moved, here or elsewhere
  MaxFailures  \* bound: requests that fail

VARIABLES
  kept,      \* the gateway's arrangement
  listens,   \* whether the page's socket is open: it is told of each change
  calls,     \* requests to move something, and how far each is
  news,      \* changes the page is told of
  job,       \* whether a refreshThings waits in the queue of the GatewayModel; if
             \* several do, they are one here: what they do is the same
  read,      \* what the one that runs has read
  model,     \* ThingModel.group_id
  drawn,     \* what the page was drawn from: the attributes data-layout-index
             \* of its nodes, and the containers the things were drawn in
  dom,       \* the nodes: an arrangement, which may lack one
  dropped,   \* history: what was dropped since, if it was one thing or group
  adrift,    \* history: since then a drop threw or a request failed
  failures

vars == <<kept, listens, calls, news, job, read, model, drawn, dom, dropped, adrift, failures>>

ThingsPageAssumption == IsFiniteSet(Thing) /\ IsFiniteSet(Group) /\ NoGroup \notin Group

Place == Group \cup {NoGroup}
End == Cardinality(Thing)  \* the index of setThingGroup, Infinity
Move == 1 .. MaxMoves

\* An arrangement: the things of each list, and the groups.
Arrangement == [of : [Place -> Seq(Thing)], order : Seq(Group)]
NoCall == [does |-> "none", stage |-> "done"]
Many == <<"one", "another">>

\* The gateway, the page and what is between them.
TypeOK ==
  /\ kept \in Arrangement /\ dom \in Arrangement /\ listens \in BOOLEAN
  /\ calls \in Seq([does : {"thing"}, what : Thing, to : Place, index : Nat,
                    stage : {"sent"}]
                   \cup [does : {"group"}, what : Group, index : Nat, stage : {"sent"}]
                   \cup [does : {"none"}, stage : {"served", "done"}])
  /\ news \in Nat /\ job \in BOOLEAN /\ model \in [Thing -> Place]
  /\ adrift \in BOOLEAN /\ failures \in 0 .. MaxFailures

-----------------------------------------------------------------------------
(* Arrangements.                                                           *)

Spot(l, x) == CHOOSE i \in DOMAIN l : l[i] = x
Without(l, x) == IF x \in ToSet(l) THEN RemoveAt(l, Spot(l, x)) ELSE l
Holder(a, t) == CHOOSE p \in Place : t \in ToSet(a.of[p])
Taken(a, t) == [a EXCEPT !.of = [p \in Place |-> Without(a.of[p], t)]]
Lesser(i, j) == IF i < j THEN i ELSE j

\* As far as its list goes, x is put at index i of it (setThingLayoutIndex).
At(l, x, i) == InsertAt(l, Lesser(i, Len(l)) + 1, x)

\* The gateway's arrangement once it has done what was asked, as ThingLayout
\* has it: setThingGroup, setThingGroupAndLayoutIndex, setGroupLayoutIndex.
After(a, c) ==
  IF c.does = "thing"
  THEN LET b == Taken(a, c.what) IN [b EXCEPT !.of[c.to] = At(@, c.what, c.index)]
  ELSE [a EXCEPT !.order = At(Without(@, c.what), c.what, c.index)]

\* What the gateway answers: the index of each in its list.
Rows(a) == [thing |-> [t \in Thing |-> [place |-> Holder(a, t),
                                        index |-> Spot(a.of[Holder(a, t)], t) - 1]],
            group |-> [g \in Group |-> Spot(a.order, g) - 1]]

\* A node goes before the first one that has a greater index; no two in a list
\* have the same.
DrawnList(S, index) ==
  LET UpTo(x) == {y \in S : index[y] <= index[x]}
  IN [k \in 1 .. Cardinality(S) |-> CHOOSE x \in S : Cardinality(UpTo(x)) = k]
Drawn(r) == [of |-> [p \in Place |-> DrawnList({t \in Thing : r.thing[t].place = p},
                                               [t \in Thing |-> r.thing[t].index])],
             order |-> DrawnList(Group, r.group)]

\* Up to the names of the things and groups, every arrangement: which group
\* comes first says nothing of what is in it, so let the first be the fullest.
\* Where each list of things ends among all of them is in `ends`.
List(p) == IF p = NoGroup THEN 1 ELSE Spot(SetToSeq(Group), p) + 1
Init ==
  /\ \E ends \in [0 .. Cardinality(Place) -> 0 .. End] :
       /\ ends[0] = 0 /\ ends[Cardinality(Place)] = End
       /\ \A j, k \in DOMAIN ends : j <= k => ends[j] <= ends[k]
       /\ \A k \in 3 .. Cardinality(Place) :
            ends[k] - ends[k - 1] <= ends[k - 1] - ends[k - 2]
       /\ kept = [of |-> [p \in Place |-> SubSeq(SetToSeq(Thing), ends[List(p) - 1] + 1,
                                                 ends[List(p)])],
                  order |-> SetToSeq(Group)]
  /\ listens \in BOOLEAN
  /\ calls = <<>> /\ news = 0 /\ job = FALSE /\ read = <<>>
  /\ model = [t \in Thing |-> Holder(kept, t)]
  /\ drawn = Rows(kept) /\ dom = Drawn(drawn)
  /\ dropped = <<>> /\ adrift = FALSE /\ failures = 0

-----------------------------------------------------------------------------
(* Dropping.                                                               *)

Between == <<kept, listens, news, job, read, model, failures>>

More == Len(calls) < MaxMoves
In(t, a) == \E p \in Place : t \in ToSet(a.of[p])

\* What is dropped is moved in the page, and the gateway is asked to move it.
Ask(c, clean) == /\ calls' = Append(calls, c)
                 /\ dropped' = IF dropped = <<>> THEN <<[call |-> c, clean |-> clean]>> ELSE Many
                 /\ UNCHANGED <<drawn, adrift, Between>>

\* The node has left the page, and the handler throws before it asks.
Lost == /\ calls' = Append(calls, NoCall)
        /\ adrift' = TRUE
        /\ UNCHANGED <<drawn, dropped, Between>>

\* The index to ask for, when x is dropped on y: y moves up by one when x,
\* drawn before it in the same list, is taken out.
\* Faulty: it is forgotten that taking it out moves the others.
FaultyIndexBy(x, y, index, together, late) == index[y] + (IF late THEN 1 ELSE 0)
IndexBy(x, y, index, together, late) ==
  index[y] - (IF together /\ index[x] < index[y] THEN 1 ELSE 0) + (IF late THEN 1 ELSE 0)

\* A thing is dropped on a thing: before it, or on its second half and after
\* it.  Nodes are put in the container the other was drawn in, and that
\* throws if what they are to go before is no longer in there.
DropOnThing(t, u, late) ==
  /\ More /\ In(t, dom) /\ In(u, dom)
  /\ LET there == Holder(dom, u)
         into == drawn.thing[u].place
         rest == Taken(dom, t)
         i == Spot(rest.of[there], u)
         index == IndexBy(t, u, [x \in Thing |-> drawn.thing[x].index],
                          Holder(dom, t) = there, late)
         call == [does |-> "thing", what |-> t, to |-> model[u], index |-> index,
                  stage |-> "sent"]
         last == late /\ (t = u \/ i = Len(rest.of[there]))
         at == IF last THEN Len(rest.of[into]) + 1 ELSE IF late THEN i + 1 ELSE i
     IN IF last \/ (t # u /\ into = there)
        THEN /\ dom' = [rest EXCEPT !.of[into] = InsertAt(@, at, t)]
             /\ Ask(call, t # u /\ model[u] = into)
        ELSE dom' = rest /\ Lost

\* A thing is dropped on a group, or beside the groups, if there are any, on the rest.
DropInList(t, p) ==
  /\ More /\ In(t, dom)
  /\ p = NoGroup => dom.order # <<>>
  /\ dom' = [Taken(dom, t) EXCEPT !.of[p] = Append(@, t)]
  /\ Ask([does |-> "thing", what |-> t, to |-> p, index |-> End, stage |-> "sent"], TRUE)

\* A group is dropped on another.
DropGroup(g, h, late) ==
  /\ More /\ g # h
  /\ LET rest == Without(dom.order, g)
         i == Spot(rest, h)
     IN dom' = [dom EXCEPT !.order = InsertAt(rest, IF late THEN i + 1 ELSE i, g)]
  /\ Ask([does |-> "group", what |-> g, index |-> IndexBy(g, h, drawn.group, TRUE, late),
          stage |-> "sent"], TRUE)

-----------------------------------------------------------------------------
(* The requests, and drawing the page anew.                                *)

Told == news' = IF listens THEN news + 1 ELSE news
Ends(c, stage) == calls[c].stage = stage /\ calls' = [calls EXCEPT ![c] = NoCall]

\* The gateway moves it, and sends layoutModified.
Serve(c) == /\ calls[c].stage = "sent"
            /\ calls' = [calls EXCEPT ![c] = [does |-> "none", stage |-> "served"]]
            /\ kept' = After(kept, calls[c])
            /\ Told
            /\ UNCHANGED <<listens, job, read, model, drawn, dom, dropped, adrift, failures>>

\* Another page moves a thing to the front of a list, or a group.
Other ==
  /\ More /\ listens
  /\ calls' = Append(calls, NoCall)
  /\ \/ \E t \in Thing, p \in Place :
          kept' = After(kept, [does |-> "thing", what |-> t, to |-> p, index |-> 0])
     \/ \E g \in Group : kept' = After(kept, [does |-> "group", what |-> g, index |-> 0])
  /\ Told
  /\ UNCHANGED <<listens, job, read, model, drawn, dom, dropped, adrift, failures>>

\* The answer: the page is to be drawn anew.
Answered(c) == /\ Ends(c, "served")
               /\ job' = TRUE
               /\ UNCHANGED <<kept, listens, news, read, model, drawn, dom, dropped, adrift,
                              failures>>

\* A request that fails is only logged.
Failed(c) == /\ failures < MaxFailures /\ failures' = failures + 1
             /\ Ends(c, "sent")
             /\ adrift' = TRUE
             /\ UNCHANGED <<kept, listens, news, job, read, model, drawn, dom, dropped>>

Hear == /\ news > 0
        /\ news' = news - 1 /\ job' = TRUE
        /\ UNCHANGED <<kept, listens, calls, read, model, drawn, dom, dropped, adrift, failures>>

\* A job asks for the things, and once it has given them to their models, for
\* the groups; then the page is drawn from both.
Read == /\ \/ /\ read = <<>> /\ job
              /\ job' = FALSE
              /\ read' = <<Rows(kept).thing>>
              /\ UNCHANGED model
           \/ /\ Len(read) = 1
              /\ model' = [t \in Thing |-> read[1][t].place]
              /\ read' = Append(read, Rows(kept).group)
              /\ UNCHANGED job
        /\ UNCHANGED <<kept, listens, calls, news, drawn, dom, dropped, adrift, failures>>

RefreshThings == /\ Len(read) = 2
                 /\ drawn' = [thing |-> read[1], group |-> read[2]]
                 /\ dom' = Drawn(drawn')
                 /\ read' = <<>> /\ dropped' = <<>> /\ adrift' = FALSE
                 /\ UNCHANGED <<kept, listens, calls, news, job, model, failures>>

Next == \/ \E t, u \in Thing, late \in BOOLEAN : DropOnThing(t, u, late)
        \/ \E t \in Thing, p \in Place : DropInList(t, p)
        \/ \E g, h \in Group, late \in BOOLEAN : DropGroup(g, h, late)
        \/ \E c \in DOMAIN calls : Serve(c) \/ Answered(c) \/ Failed(c)
        \/ Other \/ Hear \/ Read \/ RefreshThings

Spec == Init /\ [][Next]_vars

-----------------------------------------------------------------------------
\* The page shows a thing or group that was dropped where the gateway is asked to put it:
\* what it was drawn from, with that request done, is what its nodes are (handleDrop of Thing,
\* Group and ThingsScreen).  It holds of the first drop since the page was drawn, on another
\* node, and one whose model has not heard of a new group meanwhile.
DroppedWhereShown ==
  Len(dropped) = 1 /\ dropped[1].clean /\ ~adrift => After(Drawn(drawn), dropped[1].call) = dom

\* When nothing is under way, the page shows the gateway's arrangement, unless a request
\* failed or a drop threw since it was drawn (refreshThings after each request, and on news).
ShownAsKept ==
  (\A c \in DOMAIN calls : calls[c].stage = "done") /\ news = 0 /\ ~job /\ read = <<>>
    => adrift \/ dom = kept

\* Whatever is dragged where, the page and the gateway agree on where it went.
InPlace == DroppedWhereShown /\ ShownAsKept
=============================================================================
