----------------------------- MODULE ThingRecords -----------------------------
(***************************************************************************)
(* One thing as the gateway keeps it: the object of class Thing, the row   *)
(* that holds its whole description, its icon file, and what clients were  *)
(* last told of it.  It is added, described by its adapter, changed by     *)
(* clients and removed, over restarts.                                     *)
(* Models models/thing.ts, and models/things.ts and                        *)
(* controllers/things_controller.ts where they use it.                     *)
(***************************************************************************)
EXTENDS Integers, Sequences

CONSTANTS
  MaxAsks,    \* bound: requests of clients and announcements of the adapter
  MaxFaults,  \* bound: statements and files that fail
  MaxRestarts \* bound: restarts

VARIABLES
  objs,      \* the objects made so far; a request keeps the one it found
  cur,       \* the one in Things.things, or 0
  row,       \* the row of the table things, or Nothing
  files,     \* the icons in the directory uploads
  made,      \* how many have been made
  writes,    \* statements under way: they end in any order
  puts,      \* requests that change the thing: [id, n, left]
  seen,      \* what clients find when they are last told that it was modified
  behind,    \* history: the last statement was begun beside another, for an
             \* object that is gone, or failed
  cut,       \* history: the gateway stopped in the middle of a change
  asks, faults, restarts

vars == <<objs, cur, row, files, made, writes, puts, seen, behind, cut, asks, faults, restarts>>

\* Of a description: the title, the capabilities and the one selected, the
\* place on the floorplan, the icon (0: none), and how many forms the gateway
\* added to each property.
Nothing == [title |-> 0, types |-> {}, sel |-> 0, spot |-> 0, icon |-> 0, forms |-> 0]
Types == {{1}, {1, 2}}

Init == /\ objs = <<>> /\ cur = 0 /\ row = Nothing /\ files = {} /\ made = 0
        /\ writes = {} /\ puts = {} /\ seen = Nothing /\ behind = FALSE /\ cut = FALSE
        /\ asks = 0 /\ faults = 0 /\ restarts = 0

History == <<cut, restarts>>
Counts == asks < MaxAsks /\ asks' = asks + 1
Fault  == faults < MaxFaults /\ faults' = faults + 1

\* A statement on the row: a description of object n is inserted, written over
\* it, or the row deleted, for request `by`; `tells` says what is announced
\* when it ends.
Statement(kind, n, d, tells, by) ==
  [kind |-> kind, n |-> n, row |-> d, tells |-> tells, old |-> Nothing, by |-> by]

\* Faulty: the description is taken before it is changed.
FaultySaved(n, d, tells, by) == Statement("update", n, objs[n], tells, by)
Saved(n, d, tells, by) == Statement("update", n, d, tells, by)

Begin(w, others) == /\ writes' = others \cup {w}
                    /\ behind' = (others # {} \/ (w.kind = "update" /\ w.n # cur'))

-----------------------------------------------------------------------------
(* Requests.                                                               *)

\* A Thing made from the description of a client; the file of an icon is
\* written by the constructor.
New(types, icon) == [title |-> 1, types |-> types, sel |-> 0, spot |-> 1, icon |-> icon, forms |-> 1]
Post(types) ==
  /\ Counts /\ cur = 0
  /\ \E icon \in {0, made + 1} :
       /\ made' = IF icon = 0 THEN made ELSE icon
       /\ files' = files \cup ({icon} \ {0})
       /\ objs' = Append(objs, New(types, icon))
       /\ cur' = cur
       /\ Begin(Statement("insert", Len(objs'), objs'[Len(objs')], "nothing", asks'), writes)
  /\ UNCHANGED <<row, puts, seen, faults, History>>

Delete ==
  /\ Counts /\ cur' = cur
  /\ Begin(Statement("delete", 0, Nothing, "nothing", asks'), writes)
  /\ UNCHANGED <<objs, row, files, made, puts, seen, faults, History>>

\* PUT of a thing: what is given of the four is set in this order, and each is
\* waited for.
Given(what, to) == IF to = 0 THEN <<>> ELSE <<[what |-> what, to |-> to]>>
Put(sel, icon, spot, title) ==
  /\ Counts /\ cur # 0
  /\ puts' = puts \cup {[id |-> asks', n |-> cur,
                         left |-> Given("sel", sel) \o Given("icon", icon)
                                    \o Given("spot", spot) \o Given("title", title)]}
  /\ UNCHANGED <<objs, cur, row, files, made, writes, seen, behind, faults, History>>

\* PATCH of the coordinates.
Patch(spot) ==
  /\ Counts /\ cur # 0
  /\ puts' = puts \cup {[id |-> asks', n |-> cur, left |-> <<[what |-> "spot", to |-> spot]>>]}
  /\ UNCHANGED <<objs, cur, row, files, made, writes, seen, behind, faults, History>>

Ready(p) == p \in puts /\ \A w \in writes : w.by # p.id
Rest(p)  == (puts \ {p}) \cup (IF Len(p.left) = 1 THEN {} ELSE {[p EXCEPT !.left = Tail(@)]})

\* setSelectedCapability, setFloorplanVisibility and setCoordinates, setTitle.
Selected(d, to) == [d EXCEPT !.sel = to]
Placed(d, to)   == [d EXCEPT !.spot = to]
Titled(d, to)   == [d EXCEPT !.title = to]
Set(p) ==
  LET s == Head(p.left) IN
  /\ Ready(p) /\ s.what # "icon"
  /\ objs' = [objs EXCEPT ![p.n] = CASE s.what = "sel"   -> Selected(@, s.to)
                                     [] s.what = "spot"  -> Placed(@, s.to)
                                     [] s.what = "title" -> Titled(@, s.to)]
  /\ cur' = cur /\ Begin(Saved(p.n, objs'[p.n], "always", p.id), writes)
  /\ puts' = Rest(p)
  /\ UNCHANGED <<row, files, made, seen, asks, faults, History>>

\* setIcon: the old file is gone before the new one is written.
SetIcon(p) ==
  /\ Ready(p) /\ Head(p.left).what = "icon"
  /\ made' = made + 1 /\ files' = (files \ {objs[p.n].icon}) \cup {made'}
  /\ objs' = [objs EXCEPT ![p.n].icon = made']
  /\ cur' = cur /\ Begin(Saved(p.n, objs'[p.n], "always", p.id), writes)
  /\ puts' = Rest(p)
  /\ UNCHANGED <<row, seen, asks, faults, History>>
\* The file cannot be written, or the data is no image: nothing is saved.
IconFails(p) ==
  /\ Ready(p) /\ Head(p.left).what = "icon" /\ Fault
  /\ \/ /\ files' = files \ {objs[p.n].icon} /\ objs' = [objs EXCEPT ![p.n].icon = 0]
        /\ behind' = TRUE
     \/ UNCHANGED <<files, objs, behind>>
  /\ puts' = puts \ {p}
  /\ UNCHANGED <<cur, row, made, writes, seen, asks, History>>

\* The adapter announces the device again: updateFromDescription replaces what
\* it describes and forgets a selected capability that is no longer there.
Described(d, types) == [d EXCEPT !.types = types, !.forms = 1,
                                 !.sel = IF @ \in types THEN @ ELSE 0]
Describe(types) ==
  /\ Counts /\ cur # 0
  /\ objs' = [objs EXCEPT ![cur] = Described(@, types)]
  /\ cur' = cur
  /\ Begin([Saved(cur, objs'[cur], "ifOther", 0) EXCEPT !.old = objs[cur]], writes)
  /\ UNCHANGED <<row, files, made, puts, seen, faults, History>>

-----------------------------------------------------------------------------
(* Statements end.                                                         *)

\* Clients that are told read the thing that is there then.
Told(yes) == seen' = IF yes /\ cur' # 0 THEN objs'[cur'] ELSE seen

Updated(w) ==
  /\ w \in writes /\ w.kind = "update"
  /\ row' = IF row = Nothing THEN Nothing ELSE w.row
  /\ writes' = writes \ {w}
  /\ UNCHANGED <<objs, cur, files, made, puts, behind, asks, faults, History>>
  /\ Told(w.tells = "always" \/ (w.tells = "ifOther" /\ objs[w.n] # w.old))

\* The thing is in the Map; its layout index is written before it is announced.
\* The row of a thing added twice is refused.
Inserted(w) ==
  /\ w \in writes /\ w.kind = "insert"
  /\ IF row = Nothing
     THEN /\ row' = w.row /\ cur' = w.n
          /\ Begin(Saved(w.n, objs[w.n], "always", w.by), writes \ {w})
     ELSE /\ writes' = writes \ {w} /\ UNCHANGED <<row, cur, behind>>
  /\ UNCHANGED <<objs, files, made, puts, seen, asks, faults, History>>

\* Thing.remove follows the row.
Deleted(w) ==
  /\ w \in writes /\ w.kind = "delete"
  /\ row' = Nothing /\ cur' = 0 /\ seen' = Nothing /\ writes' = writes \ {w}
  /\ files' = IF cur = 0 THEN files ELSE files \ {objs[cur].icon}
  /\ objs' = IF cur = 0 THEN objs ELSE [objs EXCEPT ![cur].icon = 0]
  /\ UNCHANGED <<made, puts, behind, asks, faults, History>>

\* The rest of a request is dropped with its statement.
Fails(w) ==
  /\ w \in writes /\ Fault
  /\ writes' = writes \ {w} /\ behind' = TRUE
  /\ puts' = {p \in puts : p.id # w.by}
  /\ UNCHANGED <<objs, cur, row, files, made, seen, asks, History>>

\* Things.getThings makes the thing anew from its row, which has the forms
\* already; clients read it again.
Restart ==
  /\ restarts < MaxRestarts /\ restarts' = restarts + 1
  /\ cut' = (cut \/ writes # {} \/ behind)
  /\ writes' = {} /\ puts' = {} /\ behind' = FALSE
  /\ IF row = Nothing THEN cur' = 0 /\ objs' = objs /\ seen' = Nothing
     ELSE /\ cur' = Len(objs) + 1
          /\ objs' = Append(objs, [row EXCEPT !.forms = @ + 1])
          /\ seen' = objs'[cur']
  /\ UNCHANGED <<row, files, made, asks, faults>>

Next == \/ Delete \/ Restart
        \/ \E types \in Types : Post(types) \/ Describe(types)
        \/ \E sel, spot \in {0, 2}, icon \in {0, 1} : Put(sel, icon, spot, 2)
        \/ Patch(1)
        \/ \E p \in puts : Set(p) \/ SetIcon(p) \/ IconFails(p)
        \/ \E w \in writes : Updated(w) \/ Inserted(w) \/ Deleted(w) \/ Fails(w)

Spec == Init /\ [][Next]_vars

-----------------------------------------------------------------------------
(* A statement that was alone leaves the row with all there is of the      *)
(* thing, whatever was raced or failed before; and so there is none when   *)
(* the thing is gone.                                                      *)
Plain(d) == [d EXCEPT !.forms = 0]
RowIsWhole ==
  writes = {} /\ ~behind => Plain(row) = IF cur = 0 THEN Nothing ELSE Plain(objs[cur])

(* The icon of the thing is there, unless the gateway stopped while it was *)
(* changed: then the row names the file before, which is gone.             *)
IconIsThere == cur # 0 /\ ~cut => objs[cur].icon \in files \cup {0}

(* With every statement ended and none failed, clients were told of the    *)
(* thing as it is, although an announcement that changed nothing is not    *)
(* told and is compared only after its statement.                          *)
ClientsKnow == writes = {} /\ faults = 0 /\ cur # 0 => seen = objs[cur]

RecordKept == RowIsWhole /\ IconIsThere /\ ClientsKnow
=============================================================================
