------------------------------ MODULE GroupOrder ------------------------------
(***************************************************************************)
(* The order of the groups in the overview: a list of its own, kept like   *)
(* that of the things.  A group is put last when it is made; one that is   *)
(* moved makes room by what it finds, and each update is awaited; of one   *)
(* that is removed those after it move up, and nothing waits.  While there *)
(* is no group, each request reads the table anew, and replaces the Map.   *)
(* Titles are left out: a change of one writes the whole row.              *)
(* Models src/models/groups.ts, group.ts and controllers/                  *)
(* groups_controller.ts; what happens to the things is in ThingLayout.     *)
(***************************************************************************)
EXTENDS Integers, Sequences, FiniteSets, SequencesExt

CONSTANTS
  Group,
  MaxRequests \* bound: the requests that are made

Request == 1 .. MaxRequests
NoIndex == -2   \* the index of a group that has not been given one
NoRow == -3

VARIABLES
  known,     \* the groups in the Map
  index,     \* Group.layoutIndex
  rows,      \* the table groups: the index of each, or none
  writes,    \* updates of the table that are under way
  reading,   \* getGroupsPromise: a read of the table is
  stage,     \* per request: the await it is in
  group,     \* per request: the group it is about, or none
  place,     \* per request: the index computed for it
  detached,  \* requests whose Group object is no longer the one in the Map
  told,      \* LAYOUT_MODIFIED or GROUP_ADDED has been sent since the last change
  expected,  \* history: the list of the groups, until requests overlap
  overlapped \* history: a request was made while another was under way

vars == <<known, index, rows, writes, reading, stage, group, place, detached, told, expected,
          overlapped>>

Index == -1 .. Cardinality(Group)
None == "none"

\* The Map, the table and the requests.
TypeOK ==
  /\ known \subseteq Group /\ index \in [Group -> Index \cup {NoIndex}]
  /\ rows \in [Group -> Index \cup {NoIndex, NoRow}]
  /\ writes \subseteq [by : Request, group : Group, index : Index \cup {NoIndex}]
  /\ reading \in BOOLEAN /\ told \in BOOLEAN /\ overlapped \in BOOLEAN
  /\ stage \in [Request -> {"new", "reading", "listing", "inserting", "moving", "placing",
                            "renaming", "deleting", "done"}]
  /\ group \in [Request -> Group \cup {None}] /\ place \in [Request -> Index]
  /\ detached \subseteq Request
  /\ expected \in Seq(Group)

\* The first groups are there, in this order.
Init == /\ \E n \in 0 .. Cardinality(Group) : expected = SubSeq(SetToSeq(Group), 1, n)
        /\ known = ToSet(expected)
        /\ index = [g \in Group |-> IF g \in known
                                    THEN (CHOOSE i \in DOMAIN expected : expected[i] = g) - 1
                                    ELSE NoIndex]
        /\ rows = [g \in Group |-> IF g \in known THEN index[g] ELSE NoRow]
        /\ writes = {} /\ reading = FALSE
        /\ stage = [r \in Request |-> "new"]
        /\ group = [r \in Request |-> None]
        /\ place = [r \in Request |-> 0]
        /\ detached = {}
        /\ told = TRUE /\ overlapped = FALSE

-----------------------------------------------------------------------------
Idle == writes = {} /\ ~reading /\ \A r \in Request : stage[r] \in {"new", "done"}
Ended(r) == \A w \in writes : w.by # r
Defined(g) == index[g] # NoIndex

\* Group.setLayoutIndex, up to its await.
Updates(r, gs) == {[by |-> r, group |-> g, index |-> index'[g]] : g \in gs}

\* Groups.setGroupLayoutIndex, up to its first await, when the Map holds `all`.
Shift(r, g, i, all) ==
  LET last == IF i < Cardinality(all) THEN i ELSE Cardinality(all) - 1
      Other == {h \in all : Defined(g) /\ Defined(h)}
      down == {h \in Other : index[g] < index[h] /\ index[h] <= last}
      up == {h \in Other : last <= index[h] /\ index[h] < index[g]}
  IN /\ index' = [h \in Group |-> IF h \in down THEN index[h] - 1
                                  ELSE IF h \in up THEN index[h] + 1 ELSE index[h]]
     /\ writes' = writes \cup Updates(r, down \cup up)
     /\ place' = [place EXCEPT ![r] = last]
     /\ stage' = [stage EXCEPT ![r] = "moving"]
     /\ told' = FALSE

\* The list a client expects.
Without(g) == SelectSeq(expected, LAMBDA h : h # g)
At(g, i) == InsertAt(Without(g), IF i < Len(Without(g)) THEN i + 1 ELSE Len(Without(g)) + 1, g)

Begin(r, g, list) ==
  /\ stage[r] = "new" /\ \A q \in Request : q < r => stage[q] # "new"
  /\ group' = [group EXCEPT ![r] = g]
  /\ overlapped' = (overlapped \/ ~Idle)
  /\ expected' = IF overlapped' THEN <<>> ELSE list
  /\ UNCHANGED <<known, rows, detached>>

Unmoved == UNCHANGED <<index, writes, place, told>>

\* POST: getGroup first, which reads the table while the Map is empty.
Post(r, g) ==
  /\ rows[g] = NoRow /\ \A q \in Request : group[q] # g
  /\ Begin(r, g, Append(expected, g))
  /\ stage' = [stage EXCEPT ![r] = IF known = {} THEN "reading" ELSE "inserting"]
  /\ reading' = (reading \/ known = {})
  /\ Unmoved

\* GET, which reads the table while the Map is empty.
List(r) == /\ known = {}
           /\ Begin(r, None, expected)
           /\ stage' = [stage EXCEPT ![r] = "listing"]
           /\ reading' = TRUE
           /\ Unmoved

\* PATCH of the index.
Patch(r, g, i) == /\ g \in known
                  /\ Begin(r, g, At(g, i))
                  /\ Shift(r, g, i, known)
                  /\ UNCHANGED reading

\* PUT of the title.
Put(r, g) == /\ g \in known
             /\ Begin(r, g, expected)
             /\ stage' = [stage EXCEPT ![r] = "renaming"]
             /\ writes' = writes \cup {[by |-> r, group |-> g, index |-> index[g]]}
             /\ UNCHANGED <<index, place, told, reading>>

Delete(r, g) == /\ g \in known
                /\ Begin(r, g, Without(g))
                /\ stage' = [stage EXCEPT ![r] = "deleting"]
                /\ UNCHANGED reading /\ Unmoved

-----------------------------------------------------------------------------
\* Groups.getGroups: the Map is made anew from the table, of new objects.
GetGroups ==
  /\ reading /\ reading' = FALSE
  /\ known' = {g \in Group : rows[g] # NoRow}
  /\ index' = [g \in Group |-> IF g \in known' THEN rows[g] ELSE NoIndex]
  /\ detached' = detached \cup {r \in Request : stage[r] = "moving"}
  /\ stage' = [r \in Request |-> CASE stage[r] = "reading" -> "inserting"
                                   [] stage[r] = "listing" -> "done"
                                   [] OTHER -> stage[r]]
  /\ UNCHANGED <<rows, writes, group, place, told, expected, overlapped>>

\* Groups.createGroup: the new group is to be the last.
Created(r) ==
  /\ stage[r] = "inserting"
  /\ rows' = [rows EXCEPT ![group[r]] = NoIndex]
  /\ known' = known \cup {group[r]}
  /\ Shift(r, group[r], Cardinality(Group), known')
  /\ UNCHANGED <<reading, group, detached, expected, overlapped>>

\* The others have their places, and the group takes its own.
Place(r) ==
  /\ stage[r] = "moving" /\ Ended(r)
  /\ stage' = [stage EXCEPT ![r] = "placing"]
  /\ index' = IF r \in detached THEN index ELSE [index EXCEPT ![group[r]] = place[r]]
  /\ writes' = writes \cup {[by |-> r, group |-> group[r], index |-> place[r]]}
  /\ told' = FALSE
  /\ UNCHANGED <<known, rows, reading, group, place, detached, expected, overlapped>>

\* Groups.removeGroup, once the row is deleted.
Deleted(r) ==
  LET g == group[r]
      after == {h \in known \ {g} : Defined(g) /\ Defined(h) /\ index[h] > index[g]}
  IN /\ stage[r] = "deleting"
     /\ stage' = [stage EXCEPT ![r] = "done"]
     /\ rows' = [rows EXCEPT ![g] = NoRow]
     /\ IF g \in known
        THEN /\ known' = known \ {g}
             /\ index' = [h \in Group |-> IF h \in after THEN index[h] - 1 ELSE index[h]]
             /\ writes' = writes \cup Updates(r, after)
             /\ told' = TRUE
        ELSE UNCHANGED <<known, index, writes, told>>
     /\ UNCHANGED <<reading, group, place, detached, expected, overlapped>>

\* The request is answered; a move and a new group are told.
Ends(r) ==
  /\ stage[r] \in {"placing", "renaming"} /\ Ended(r)
  /\ stage' = [stage EXCEPT ![r] = "done"]
  /\ told' = (told \/ stage[r] = "placing")
  /\ UNCHANGED <<known, index, rows, writes, reading, group, place, detached, expected,
                 overlapped>>

\* Database.updateGroup.
Stored(w) == /\ writes' = writes \ {w}
             /\ rows' = [rows EXCEPT ![w.group] = IF @ = NoRow THEN NoRow ELSE w.index]
             /\ UNCHANGED <<known, index, reading, stage, group, place, detached, told, expected,
                            overlapped>>

Next ==
  \/ \E r \in Request, g \in Group :
       Post(r, g) \/ Put(r, g) \/ Delete(r, g) \/ \E i \in 0 .. Cardinality(Group) : Patch(r, g, i)
  \/ \E r \in Request : List(r) \/ Created(r) \/ Place(r) \/ Deleted(r) \/ Ends(r)
  \/ \E w \in writes : Stored(w)
  \/ GetGroups

Spec == Init /\ [][Next]_vars

-----------------------------------------------------------------------------
\* The Map and the table hold the same groups, whatever overlaps, so that a restart brings none
\* back and loses none; and if clients waited for one another, the groups have the order they
\* asked for, without a gap, in the Map and in the table (Groups).
Ordered ==
  Idle => /\ known = {g \in Group : rows[g] # NoRow}
          /\ ~overlapped => /\ known = ToSet(expected)
                            /\ \A i \in DOMAIN expected :
                                 index[expected[i]] = i - 1 /\ rows[expected[i]] = i - 1

\* Whatever overlaps, the last change of an order is followed by a LAYOUT_MODIFIED.
OrderTold == Idle => told
=============================================================================
