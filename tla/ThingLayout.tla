---------------------------- MODULE ThingLayout ----------------------------
(***************************************************************************)
(* The arrangement of things in the overview: Things keeps a layout index  *)
(* and a group with each thing, and moves the others up and down when one  *)
(* is added, moved, grouped or removed.                                    *)
(*                                                                         *)
(* A step is the code between two awaits.  Each new index and group is     *)
(* written to the table things; the updates under way end in any order.    *)
(* `expected` is the arrangement as a client thinks of it: one list of     *)
(* things per group.                                                       *)
(***************************************************************************)
EXTENDS Integers, Sequences, FiniteSets, SequencesExt

CONSTANTS
  Thing,
  Group,
  NoGroup,    \* the group of things that are in none
  Undefined,  \* the layout index of a thing that has not been given one
  MaxRequests \* bound: the requests that are made

Request == 1 .. MaxRequests

GroupId == Group \union {NoGroup}
Index == 0 .. Cardinality(Thing)  \* the greatest stands for Infinity
LayoutIndex == -1 .. Cardinality(Thing) - 1 \union {Undefined}

\* What the clients may ask for.
Ask ==
  [kind : {"add", "remove"}, thing : Thing]
    \union [kind : {"move"}, thing : Thing, index : Index]
    \union [kind : {"group"}, thing : Thing, group : GroupId]
    \union [kind : {"group and move"}, thing : Thing, group : GroupId, index : Index]
    \union [kind : {"remove group"}, group : Group]

NoAsk == [kind |-> "none"]

\* What the constants must be.
NoGroupAssumption == NoGroup \notin Group
FiniteAssumption == IsFiniteSet(Thing)

VARIABLES
  things,    \* Things.things, in the order of the Map
  index,     \* Thing.layoutIndex
  group,     \* Thing.group_id
  groups,    \* Groups.groups and the table groups
  rows,      \* the table things: per thing its index and group, or none
  writes,    \* updates of the table that are under way
  ask,       \* per request: what it asks for
  stage,     \* per request: the await it is in
  thing,     \* per request: the thing it is moving, or none
  place,     \* per request: the index computed for it
  passed,    \* per request: the things its loop has passed
  told,      \* LAYOUT_MODIFIED has been sent since the last change
  expected,  \* history: per group the list of its things, until requests overlap
  overlapped \* history: a request was made while another was under way

memoryVars == <<things, index, group, groups>>
requestVars == <<ask, stage, thing, place, passed>>
historyVars == <<expected, overlapped>>
vars == <<memoryVars, rows, writes, requestVars, told, historyVars>>

Row == [index : LayoutIndex, group : GroupId]
NoRow == [index |-> Undefined]
Members(g) == {t \in ToSet(things) : group[t] = g}

\* The Map, its indices and groups, and the table hold what their types say.
TypeOK ==
  /\ ToSet(things) \subseteq Thing /\ IsInjective(things)
  /\ index \in [Thing -> LayoutIndex]
  /\ group \in [Thing -> GroupId]
  /\ groups \subseteq Group
  /\ rows \in [Thing -> Row \union {NoRow}]
  /\ \A w \in writes : w.by \in Request /\ w.thing \in Thing /\ w.row \in Row
  /\ ask \in [Request -> Ask \union {NoAsk}]
  /\ stage \in [Request -> {"new", "inserting", "deleting", "moving", "placing", "leaving",
                            "left", "joining", "joined", "ungrouping", "done"}]
  /\ thing \in [Request -> Thing \union {Undefined}]
  /\ place \in [Request -> LayoutIndex]
  /\ passed \in [Request -> SUBSET Thing]
  /\ told \in BOOLEAN
  /\ overlapped \in BOOLEAN

\* Any arrangement of some of the things.
Arrangement == {l \in [GroupId -> UNION {[1 .. n -> Thing] : n \in Index}] :
                  \A g, h \in GroupId :
                    IsInjective(l[g]) /\ (g # h => ToSet(l[g]) \intersect ToSet(l[h]) = {})}

Init ==
  /\ expected \in Arrangement
  /\ groups = Group
  /\ things = FoldSet(LAMBDA g, s : s \o expected[g], << >>, GroupId)
  /\ group = [t \in Thing |->
                IF t \in ToSet(things) THEN CHOOSE g \in GroupId : t \in ToSet(expected[g])
                ELSE NoGroup]
  /\ index = [t \in Thing |->
                IF t \in ToSet(things)
                THEN (CHOOSE i \in DOMAIN expected[group[t]] : expected[group[t]][i] = t) - 1
                ELSE Undefined]
  /\ rows = [t \in Thing |-> IF t \in ToSet(things)
                             THEN [index |-> index[t], group |-> group[t]] ELSE NoRow]
  /\ writes = {}
  /\ ask = [r \in Request |-> NoAsk]
  /\ stage = [r \in Request |-> "new"]
  /\ thing = [r \in Request |-> Undefined]
  /\ place = [r \in Request |-> Undefined]
  /\ passed = [r \in Request |-> {}]
  /\ told = TRUE
  /\ overlapped = FALSE

-----------------------------------------------------------------------------
(* What a client expects.                                                  *)

Idle == writes = {} /\ \A r \in Request : stage[r] \in {"new", "done"}

Without(l, t) == [g \in GroupId |-> SelectSeq(l[g], LAMBDA u : u # t)]
Inserted(l, t, g, i) == [l EXCEPT ![g] = InsertAt(@, IF i > Len(@) THEN Len(@) + 1 ELSE i + 1, t)]
GroupOf(l, t) == CHOOSE g \in GroupId : t \in ToSet(l[g])

Expect(l, a) ==
  CASE a.kind = "add"    -> Inserted(l, a.thing, NoGroup, Cardinality(Thing))
    [] a.kind = "remove" -> Without(l, a.thing)
    [] a.kind = "move"   -> Inserted(Without(l, a.thing), a.thing, GroupOf(l, a.thing), a.index)
    [] a.kind = "group"  -> Inserted(Without(l, a.thing), a.thing, a.group, Cardinality(Thing))
    [] a.kind = "group and move" -> Inserted(Without(l, a.thing), a.thing, a.group, a.index)
    [] a.kind = "remove group" ->
         [l EXCEPT ![a.group] = << >>,
                   ![NoGroup] = @ \o SelectSeq(things, LAMBDA t : t \in ToSet(l[a.group]))]

-----------------------------------------------------------------------------
(* Moving a thing.                                                         *)

Ended(r) == \A w \in writes : w.by # r

\* Thing.setLayoutIndex and setGroup of the things in ts, up to their awaits: what they
\* now are is on its way to the table.
Update(r, ts) ==
  writes' = writes \union
    {[by |-> r, thing |-> t, row |-> [index |-> index'[t], group |-> group'[t]]] : t \in ts}

\* The first half of Things.setThingLayoutIndex: room is made for thing t at index i.
Shift(r, t, i) ==
  LET last == Min({Cardinality(Members(group[t])) - 1, i})
      Known == {u \in Members(group[t]) : Undefined \notin {index[t], index[u]}}
      down == {u \in Known : index[t] < index[u] /\ index[u] <= last}
      up == {u \in Known : last <= index[u] /\ index[u] < index[t]}
  IN /\ index' = [u \in Thing |-> IF u \in down THEN index[u] - 1
                                  ELSE IF u \in up THEN index[u] + 1 ELSE index[u]]
     /\ thing' = [thing EXCEPT ![r] = t]
     /\ place' = [place EXCEPT ![r] = last]
     /\ UNCHANGED group
     /\ Update(r, down \union up)
     /\ told' = FALSE

\* The request is done, and its variables with it.
Done(r) ==
  /\ stage' = [stage EXCEPT ![r] = "done"]
  /\ ask' = [ask EXCEPT ![r] = NoAsk]
  /\ thing' = [thing EXCEPT ![r] = Undefined]
  /\ place' = [place EXCEPT ![r] = Undefined]
  /\ passed' = [passed EXCEPT ![r] = {}]

\* The second half: the thing takes its place.
Place(r) ==
  /\ stage[r] \in {"moving", "leaving"}
  /\ Ended(r)
  /\ index' = [index EXCEPT ![thing[r]] = place[r]]
  /\ UNCHANGED group
  /\ Update(r, {thing[r]})
  /\ stage' = [stage EXCEPT ![r] = IF @ = "moving" THEN "placing" ELSE "left"]
  /\ told' = FALSE
  /\ UNCHANGED <<things, groups, rows, ask, thing, place, passed, historyVars>>

\* Faulty: a move into a group is not told.
FaultyMoved(r) ==
  /\ stage[r] = "placing"
  /\ Ended(r)
  /\ Done(r)
  /\ told' = (told \/ ask[r].kind # "group and move")
  /\ UNCHANGED <<memoryVars, rows, writes, historyVars>>

\* The move is done.
Moved(r) ==
  /\ stage[r] = "placing"
  /\ Ended(r)
  /\ Done(r)
  /\ told' = TRUE
  /\ UNCHANGED <<memoryVars, rows, writes, historyVars>>

\* Things.setThingGroup: the thing, now the last of its group, is put into another
\* group; a group that is removed leaves it in none.
Join(r) ==
  /\ stage[r] = "left"
  /\ Ended(r)
  /\ group' = [group EXCEPT ![thing[r]] =
                 IF ask[r].kind = "remove group" THEN NoGroup ELSE ask[r].group]
  /\ UNCHANGED index
  /\ Update(r, {thing[r]})
  /\ stage' = [stage EXCEPT ![r] = "joining"]
  /\ told' = FALSE
  /\ UNCHANGED <<things, groups, rows, ask, thing, place, passed, historyVars>>

\* It is the last of its new group.
Rank(r) ==
  /\ stage[r] = "joining"
  /\ Ended(r)
  /\ index' = [index EXCEPT ![thing[r]] = Cardinality(Members(group[thing[r]])) - 1]
  /\ UNCHANGED group
  /\ Update(r, {thing[r]})
  /\ stage' = [stage EXCEPT ![r] = "joined"]
  /\ told' = FALSE
  /\ UNCHANGED <<things, groups, rows, ask, thing, place, passed, historyVars>>

\* The loop of Group.remove: the next thing of the group leaves it.
NextOfGroup(r, g) ==
  LET rest == SelectSeq(things, LAMBDA t : group[t] = g /\ t \notin passed[r]) IN
  IF rest = << >>
  THEN /\ Done(r)
       /\ told' = (told \/ stage[r] = "joined")
       /\ UNCHANGED <<index, group, writes>>
  ELSE /\ Shift(r, Head(rest), Cardinality(Thing))
       /\ stage' = [stage EXCEPT ![r] = "leaving"]
       /\ UNCHANGED ask
       /\ passed' = [passed EXCEPT ![r] =
            @ \union {things[i] : i \in {j \in DOMAIN things :
                                           \A k \in 1 .. j - 1 : things[k] # Head(rest)}}]

\* The thing is in its new group, and goes on to its index if it has one.
Joined(r) ==
  /\ stage[r] = "joined"
  /\ Ended(r)
  /\ \/ /\ ask[r].kind = "group"
        /\ Done(r)
        /\ told' = TRUE
        /\ UNCHANGED <<index, group, writes>>
     \/ /\ ask[r].kind = "group and move"
        /\ Shift(r, thing[r], ask[r].index)
        /\ stage' = [stage EXCEPT ![r] = "moving"]
        /\ UNCHANGED <<ask, passed>>
     \/ /\ ask[r].kind = "remove group"
        /\ NextOfGroup(r, ask[r].group)
  /\ UNCHANGED <<things, groups, rows, historyVars>>

-----------------------------------------------------------------------------
(* Requests.                                                               *)

Begin(r, a) ==
  /\ stage[r] = "new" /\ \A q \in Request : q < r => stage[q] # "new"
  /\ ask' = [ask EXCEPT ![r] = a]
  /\ overlapped' = (overlapped \/ ~Idle)
  /\ expected' = IF overlapped' THEN [g \in GroupId |-> << >>] ELSE Expect(expected, a)
  /\ UNCHANGED <<things, groups, rows, passed>>

\* POST /things, of a thing that was never there.
Post(r, a) ==
  /\ a.kind = "add"
  /\ rows[a.thing] = NoRow /\ index[a.thing] = Undefined
  /\ \A q \in Request : ask[q].kind = "add" => ask[q].thing # a.thing
  /\ Begin(r, a)
  /\ stage' = [stage EXCEPT ![r] = "inserting"]
  /\ UNCHANGED <<index, group, writes, thing, place, told>>

\* DELETE of a thing or a group.
Delete(r, a) ==
  /\ \/ a.kind = "remove" /\ a.thing \in ToSet(things)
     \/ a.kind = "remove group" /\ a.group \in groups
  /\ Begin(r, a)
  /\ stage' = [stage EXCEPT ![r] = "deleting"]
  /\ UNCHANGED <<index, group, writes, thing, place, told>>

\* PATCH of a thing, to a group that is there or has gone: the name is not looked up.
Patch(r, a) ==
  /\ a.kind \in {"move", "group", "group and move"}
  /\ a.thing \in ToSet(things)
  /\ Begin(r, a)
  /\ \/ /\ a.kind = "move"
        /\ Shift(r, a.thing, a.index)
        /\ stage' = [stage EXCEPT ![r] = "moving"]
     \/ /\ a.kind \in {"group", "group and move"}
        /\ Shift(r, a.thing, Cardinality(Thing))
        /\ stage' = [stage EXCEPT ![r] = "leaving"]

\* Things.createThing: the new thing is the last of those in no group.
Created(r) ==
  LET t == ask[r].thing IN
  /\ stage[r] = "inserting"
  /\ rows' = [rows EXCEPT ![t] = [index |-> Undefined, group |-> NoGroup]]
  /\ things' = Append(things, t)
  /\ thing' = [thing EXCEPT ![r] = t]
  /\ place' = [place EXCEPT ![r] = Cardinality(Members(NoGroup))]
  /\ stage' = [stage EXCEPT ![r] = "moving"]
  /\ told' = FALSE
  /\ UNCHANGED <<index, group, groups, writes, ask, passed, historyVars>>

\* Faulty: the things of every group move up.
FaultyDeleted(r) ==
  LET t == ask[r].thing
      after == {u \in ToSet(things) \ {t} :
                  Undefined \notin {index[t], index[u]} /\ index[u] > index[t]}
  IN /\ stage[r] = "deleting" /\ ask[r].kind = "remove"
     /\ rows' = [rows EXCEPT ![t] = NoRow]
     /\ Done(r)
     /\ IF t \in ToSet(things)
        THEN /\ things' = SelectSeq(things, LAMBDA u : u # t)
             /\ index' = [u \in Thing |-> IF u \in after THEN index[u] - 1 ELSE index[u]]
             /\ UNCHANGED group
             /\ Update(r, after)
             /\ told' = TRUE
        ELSE UNCHANGED <<things, index, group, writes, told>>
     /\ UNCHANGED <<groups, historyVars>>

\* Things.removeThing: those after it move up, and nothing waits for their updates.
Deleted(r) ==
  LET t == ask[r].thing
      after == {u \in Members(group[t]) \ {t} :
                  Undefined \notin {index[t], index[u]} /\ index[u] > index[t]}
  IN /\ stage[r] = "deleting" /\ ask[r].kind = "remove"
     /\ rows' = [rows EXCEPT ![t] = NoRow]
     /\ Done(r)
     /\ IF t \in ToSet(things)
        THEN /\ things' = SelectSeq(things, LAMBDA u : u # t)
             /\ index' = [u \in Thing |-> IF u \in after THEN index[u] - 1 ELSE index[u]]
             /\ UNCHANGED group
             /\ Update(r, after)
             /\ told' = TRUE
        ELSE UNCHANGED <<things, index, group, writes, told>>
     /\ UNCHANGED <<groups, historyVars>>

\* Groups.removeGroup: its things leave it one by one, and nothing waits for them.
DeletedGroup(r) ==
  /\ stage[r] = "deleting" /\ ask[r].kind = "remove group"
  /\ groups' = groups \ {ask[r].group}
  /\ IF ask[r].group \in groups
     THEN NextOfGroup(r, ask[r].group)
     ELSE /\ Done(r)
          /\ UNCHANGED <<index, group, writes, told>>
  /\ UNCHANGED <<things, rows, historyVars>>

\* An update is made: of a row that is there.
Written(w) ==
  /\ writes' = writes \ {w}
  /\ rows' = [rows EXCEPT ![w.thing] = IF @ = NoRow THEN NoRow ELSE w.row]
  /\ UNCHANGED <<memoryVars, requestVars, told, historyVars>>

-----------------------------------------------------------------------------
ThingStep(r) == Place(r) \/ Moved(r) \/ Join(r) \/ Rank(r) \/ Joined(r)
DatabaseStep(r) == Created(r) \/ Deleted(r) \/ DeletedGroup(r)

\* What awaits nothing but promises that are resolved goes on before anything else.
AtAwaits == \A r \in Request : stage[r] \in {"new", "inserting", "deleting", "done"} \/ ~Ended(r)

Next ==
  \/ \E r \in Request : ThingStep(r)
  \/ AtAwaits /\ \E r \in Request, a \in Ask : Post(r, a) \/ Delete(r, a) \/ Patch(r, a)
  \/ AtAwaits /\ \E r \in Request : DatabaseStep(r)
  \/ AtAwaits /\ \E w \in writes : Written(w)

Spec == Init /\ [][Next]_vars

-----------------------------------------------------------------------------
(* Properties.                                                             *)

\* Clients who wait for one another see what they asked for: a thing is moved to its
\* place and nothing else changes its order, whatever was added, grouped or removed before.
AsExpected ==
  Idle /\ ~overlapped =>
    /\ \A g \in GroupId : Members(g) = ToSet(expected[g])
    /\ \A g \in GroupId : \A i \in DOMAIN expected[g] : index[expected[g][i]] = i - 1

\* A restart then shows the same things, and the arrangement of before if clients waited
\* for one another.
RestartKeeps ==
  Idle =>
    /\ ToSet(things) = {t \in Thing : rows[t] # NoRow}
    /\ ~overlapped => \A t \in ToSet(things) : rows[t] = [index |-> index[t], group |-> group[t]]

\* Things are where they were asked to be, and stay there when the server starts again.
Arranged == AsExpected /\ RestartKeeps

\* Whatever the requests are, the last change of an index or a group is followed by a LAYOUT_MODIFIED.
AllTold == Idle => told
=============================================================================
