--------------------------- MODULE ThingFeed_proofs ---------------------------
(***************************************************************************)
(* Proofs about ThingFeed: its types, that no closed websocket listens to  *)
(* a thing, that what clients are shown, what the things say and what was  *)
(* heard of their devices agree, and that all strangers, and none but      *)
(* strangers and things whose row was being written, are offered to those  *)
(* who watch for new things; for any set of things, feeds and watchers, as *)
(* long as no mishap happens.                                              *)
(*                                                                         *)
(* The inductive invariant FeedInv says of the news that are queued that   *)
(* the last of them is what was heard last of the device, and if there is  *)
(* none the thing has taken it up already; of the Map that it is the table *)
(* as soon as anybody makes use of it; and of a websocket that it listens  *)
(* to each thing by one listener, and is opened by one call.               *)
(***************************************************************************)
EXTENDS ThingFeed, TLAPS, FiniteSetTheorems, WellFoundedInduction

-----------------------------------------------------------------------------
(* The calls that are queued.                                              *)

\* A call is news of the connection of a device, and what it says.
Says(k, t) == k.kind \in {"added", "removed", "connected"} /\ k.thing = t
Word(k) == IF k.kind = "connected" THEN k.to ELSE k.kind = "added"
\* No call of a queue is news of a device; the last that is says this.
Silent(s, t) == \A i \in DOMAIN s : ~Says(s[i], t)
LastWord(s, t, to) ==
  \E i \in DOMAIN s : /\ Says(s[i], t) /\ Word(s[i]) = to
                      /\ \A j \in DOMAIN s : j > i => ~Says(s[j], t)
\* The call that opens a feed, a queue that holds it once at most, and a call that is queued.
OpenOf(f) == [kind |-> "open", feed |-> f]
Once(s, f) == \A i, j \in DOMAIN s : s[i] = OpenOf(f) /\ s[j] = OpenOf(f) => i = j
In(k, s) == \E i \in DOMAIN s : s[i] = k

-----------------------------------------------------------------------------
(* The numbers of the objects.                                             *)

\* A set of naturals has a least element.
LEMMA NatMin ==
  ASSUME NEW T, T \subseteq Nat, T # {}
  PROVE  \E x \in T : \A y \in T : x <= y
<1> DEFINE R == OpToRel(<, Nat)
<1>1. IsWellFoundedOn(R, Nat)
      BY NatLessThanWellFounded, Zenon
<1>2. \A x, y \in Nat : <<y, x>> \in R <=> y < x
      BY DEF OpToRel
<1> HIDE DEF R
<1>3. PICK x \in T : \A y \in T : ~(<<y, x>> \in R)
      BY <1>1, WFMin, Zenon
<1>4. \A y \in T : ~(y < x)
      BY <1>2, <1>3, Zenon
<1>5. \A y \in T : x <= y
      BY <1>4
<1> QED BY <1>5

\* There are as many unused numbers as things.
LEMMA UnusedSize ==
  ASSUME IsFiniteSet(Numbers), Numbers \subseteq Nat \ {0}
  PROVE  /\ IsFiniteSet(Unused) /\ Cardinality(Unused) \in Nat
         /\ Cardinality(Thing) \in Nat /\ Cardinality(Unused) >= Cardinality(Thing)
         /\ Unused \subseteq Nat \ {0} /\ Unused \cap Numbers = {}
<1> DEFINE n == Cardinality(Numbers)
           k == Cardinality(Thing)
           U == 1 .. n + k
<1>1. n \in Nat /\ k \in Nat
      BY FS_CardinalityType, FiniteAssumption
<1>2. IsFiniteSet(U) /\ Cardinality(U) = n + k
      <2>1. 1 \in Int /\ n + k \in Int
            BY <1>1
      <2> DEFINE m == n + k
      <2> HIDE DEF m
      <2>2. IsFiniteSet(1 .. m) /\ Cardinality(1 .. m) = IF 1 > m THEN 0 ELSE m - 1 + 1
            BY <2>1, FS_Interval DEF m
      <2>3. m \in Nat
            BY <1>1 DEF m
      <2>4. IsFiniteSet(1 .. m) /\ Cardinality(1 .. m) = m
            BY <2>2, <2>3
      <2> QED BY <2>4 DEF m
<1> HIDE DEF U
<1>4. Cardinality(U \cap Numbers) \in Nat /\ Cardinality(U \cap Numbers) <= n
      <2>1. U \cap Numbers \in SUBSET Numbers
            OBVIOUS
      <2>2. IsFiniteSet(U \cap Numbers) /\ Cardinality(U \cap Numbers) <= Cardinality(Numbers)
            BY <2>1, FS_Subset
      <2> QED BY <2>2, FS_CardinalityType
<1>3. IsFiniteSet(U \ Numbers) /\ Cardinality(U \ Numbers) = n + k - Cardinality(U \cap Numbers)
      <2>1. /\ IsFiniteSet(U \ Numbers)
            /\ Cardinality(U \ Numbers) = Cardinality(U) - Cardinality(U \cap Numbers)
            BY <1>2, FS_Difference, Zenon
      <2>2. Cardinality(U) = n + k
            BY <1>2
      <2>3. Cardinality(U \ Numbers) = n + k - Cardinality(U \cap Numbers)
            BY <2>1, <2>2, <1>1, <1>4
      <2> QED BY <2>1, <2>3
<1>5. Unused = U \ Numbers
      BY DEF Unused, U
<1>6. Cardinality(Unused) \in Nat /\ Cardinality(Unused) >= k
      BY <1>1, <1>3, <1>4, <1>5
<1>7. U \subseteq Nat \ {0}
      BY <1>1 DEF U
<1>8. IsFiniteSet(Unused)
      BY <1>3, <1>5
<1> QED BY <1>1, <1>5, <1>6, <1>7, <1>8

\* A new object has a number of its own.
LEMMA NewNumber ==
  ASSUME IsFiniteSet(Numbers), Numbers \subseteq Nat \ {0}, NEW t \in Thing
  PROVE  NewObject \in Nat \ {0} /\ NewObject \notin Numbers
<1>1. Unused # {}
      <2>1. SUFFICES ASSUME Unused = {} PROVE FALSE
            OBVIOUS
      <2>2. Cardinality(Thing) = 0
            <3>1. Cardinality({}) = 0
                  BY FS_EmptySet
            <3> QED BY <2>1, <3>1, UnusedSize
      <2>3. {t} \in SUBSET Thing
            OBVIOUS
      <2>4. Cardinality({t}) <= Cardinality(Thing) /\ Cardinality({t}) = 1
            BY <2>3, FS_Subset, FS_Singleton, FiniteAssumption
      <2> QED BY <2>2, <2>4
<1>2. \E o \in Unused : \A p \in Unused : o <= p
      BY <1>1, UnusedSize, NatMin
<1>3. NewObject \in Unused
      BY <1>2 DEF NewObject
<1> QED BY <1>3, UnusedSize

\* A set that is no larger than another can be numbered by it.
LEMMA Numbering ==
  ASSUME NEW S, NEW T, IsFiniteSet(S), IsFiniteSet(T), Cardinality(S) <= Cardinality(T)
  PROVE  \E g \in [S -> T] : \A a, b \in S : g[a] = g[b] => a = b
<1> DEFINE m == Cardinality(S)
           n == Cardinality(T)
<1>1. m \in Nat /\ n \in Nat
      BY FS_CardinalityType
<1>2. PICK e : e \in Bijection(1 .. n, T)
      BY FS_CardinalityType DEF ExistsBijection
<1>3. PICK d : d \in Bijection(1 .. m, S)
      BY FS_CardinalityType DEF ExistsBijection
<1>4. /\ e \in [1 .. n -> T] /\ \A a, b \in 1 .. n : e[a] = e[b] => a = b
      BY <1>2 DEF Bijection, Injection, Surjection, IsInjective
<1>5. /\ d \in [1 .. m -> S] /\ \A a \in S : \E i \in 1 .. m : d[i] = a
      BY <1>3 DEF Bijection, Injection, Surjection, IsInjective
<1> DEFINE at(a) == CHOOSE i \in 1 .. m : d[i] = a
           g == [a \in S |-> e[at(a)]]
<1>6. \A a \in S : at(a) \in 1 .. m /\ d[at(a)] = a
      BY <1>5
<1> HIDE DEF at
<1>7. \A a \in S : at(a) \in 1 .. n
      BY <1>1, <1>6
<1>8. g \in [S -> T]
      BY <1>4, <1>7
<1>9. \A a, b \in S : g[a] = g[b] => a = b
      <2> SUFFICES ASSUME NEW a \in S, NEW b \in S, g[a] = g[b] PROVE a = b
          OBVIOUS
      <2>1. at(a) = at(b)
            BY <1>4, <1>7
      <2> QED BY <2>1, <1>6
<1> QED BY <1>8, <1>9

-----------------------------------------------------------------------------
(* The types.                                                              *)

\* A feed's state of a thing.
States == {"absent", "connected", "disconnected"}
Stages == {"new", "opening", "open", "closed"}

\* The types, of the variables that hold no objects and of those that do.
PlainTypes ==
  /\ rows \subseteq Thing /\ snapshot \subseteq Thing /\ device \subseteq Present
  /\ load \in {"none", "reading", "read"}
  /\ waiting \in Seq(Task) /\ now \in Seq(Task)
  /\ waiting # << >> <=> load # "none"
  /\ deleting \subseteq Thing
  /\ feed \in [Feed -> Stages]
  /\ shown \in [Feed -> [Thing -> States]]
  /\ watcher \in [Watcher -> Stages]
  /\ found \in [Watcher -> SUBSET Thing]
  /\ heard \in [Thing -> BOOLEAN]
  /\ missed \subseteq Thing /\ forgotten \subseteq Thing /\ spoiled \subseteq Thing
  /\ early \subseteq Feed
ObjectTypes ==
  /\ DOMAIN object \subseteq Nat \ {0} /\ IsFiniteSet(DOMAIN object)
  /\ object \in [DOMAIN object -> [id : Thing, connected : BOOLEAN]]
  /\ things \in [Thing -> Nat] /\ making \in [Thing -> Nat]
  /\ \A t \in Thing : things[t] # 0 => things[t] \in DOMAIN object /\ object[things[t]].id = t
  /\ \A t \in Thing : making[t] # 0 => making[t] \in DOMAIN object /\ object[making[t]].id = t
  /\ inserted \subseteq {t \in Thing : making[t] # 0}
  /\ subs \in [Feed -> SUBSET DOMAIN object]
  /\ leaked \in [Feed -> SUBSET DOMAIN object]
  /\ \A f \in Feed : leaked[f] \subseteq subs[f]
\* The type invariant the proofs rest on.
TypeInv == PlainTypes /\ ObjectTypes

\* Who calls getThings.
LEMMA TaskIs ==
  ASSUME NEW k \in Task
  PROVE  /\ k.kind \in {"added", "removed", "post", "connected", "open", "watch"}
         /\ k.kind \in {"added", "removed", "post", "connected"} => k.thing \in Thing
         /\ k.kind = "connected" => k.to \in BOOLEAN
         /\ k.kind = "open" => k.feed \in Feed /\ k = OpenOf(k.feed)
         /\ k.kind = "watch" => k.watcher \in Watcher
<1>1. CASE k \in [kind : {"added", "removed", "post"}, thing : Thing]
      BY <1>1
<1>2. CASE k \in [kind : {"connected"}, thing : Thing, to : BOOLEAN]
      BY <1>2
<1>3. CASE k \in [kind : {"open"}, feed : Feed]
      BY <1>3 DEF OpenOf
<1>4. CASE k \in [kind : {"watch"}, watcher : Watcher]
      BY <1>4
<1> QED BY <1>1, <1>2, <1>3, <1>4 DEF Task

\* The calls that are made.
LEMMA TaskMade ==
  /\ \A t \in Thing : /\ [kind |-> "added", thing |-> t] \in Task
                      /\ [kind |-> "removed", thing |-> t] \in Task
                      /\ [kind |-> "post", thing |-> t] \in Task
  /\ \A t \in Thing : \A to \in BOOLEAN : [kind |-> "connected", thing |-> t, to |-> to] \in Task
  /\ \A f \in Feed : [kind |-> "open", feed |-> f] \in Task
  /\ \A w \in Watcher : [kind |-> "watch", watcher |-> w] \in Task
<1>1. \A t \in Thing : /\ [kind |-> "added", thing |-> t] \in Task
                       /\ [kind |-> "removed", thing |-> t] \in Task
                       /\ [kind |-> "post", thing |-> t] \in Task
      BY DEF Task
<1>2. \A t \in Thing : \A to \in BOOLEAN : [kind |-> "connected", thing |-> t, to |-> to] \in Task
      BY DEF Task
<1>3. \A f \in Feed : [kind |-> "open", feed |-> f] \in Task
      BY DEF Task
<1>4. \A w \in Watcher : [kind |-> "watch", watcher |-> w] \in Task
      BY DEF Task
<1> QED BY <1>1, <1>2, <1>3, <1>4

\* A call is queued in one of the two queues.
LEMMA CallQueues ==
  ASSUME PlainTypes, NEW k \in Task, Call(k)
  PROVE  /\ waiting' \in Seq(Task) /\ now' \in Seq(Task)
         /\ load' \in {"none", "reading", "read"} /\ (waiting' # << >> <=> load' # "none")
         /\ rows' = rows /\ snapshot' = snapshot
         /\ Mapped # {} => now' = Append(now, k) /\ waiting' = waiting /\ load' = load
         /\ Mapped = {} => now' = now /\ waiting' = Append(waiting, k)
                           /\ load' = IF load = "none" THEN "reading" ELSE load
<1>1. CASE Mapped # {}
      <2>1. now' = Append(now, k) /\ waiting' = waiting /\ load' = load
            BY <1>1 DEF Call
      <2>2. now' \in Seq(Task)
            BY <2>1 DEF PlainTypes
      <2> QED BY <1>1, <2>1, <2>2 DEF Call, PlainTypes
<1>2. CASE Mapped = {}
      <2>1. now' = now /\ waiting' = Append(waiting, k)
            /\ load' = IF load = "none" THEN "reading" ELSE load
            BY <1>2 DEF Call
      <2>2. waiting' \in Seq(Task) /\ waiting' # << >>
            BY <2>1 DEF PlainTypes
      <2> QED BY <1>2, <2>1, <2>2 DEF Call, PlainTypes
<1> QED BY <1>1, <1>2

-----------------------------------------------------------------------------
(* What happens to the objects.                                            *)

\* The objects that are still of use, and a state of them that others may have left.
LEMMA UsedIs ==
  ASSUME ObjectTypes
  PROVE  /\ \A t \in Thing : things[t] \in Used /\ making[t] \in Used
         /\ \A f \in Feed : subs[f] \subseteq Used
BY DEF Used, ObjectTypes

\* What is swept has not changed.
LEMMA SweptKeeps ==
  ASSUME ObjectTypes, object' = Swept
  PROVE  /\ DOMAIN object' \subseteq DOMAIN object
         /\ DOMAIN object' \subseteq Nat \ {0} /\ IsFiniteSet(DOMAIN object')
         /\ object' \in [DOMAIN object' -> [id : Thing, connected : BOOLEAN]]
         /\ \A o \in DOMAIN object' : object'[o] = object[o]
         /\ \A t \in Thing : things'[t] \in DOMAIN object => things'[t] \in DOMAIN object'
         /\ \A t \in Thing : making'[t] \in DOMAIN object => making'[t] \in DOMAIN object'
         /\ \A f \in Feed : subs'[f] \cap DOMAIN object \subseteq DOMAIN object'
<1> DEFINE D == Numbers \cap Used'
<1>1. object' = [o \in D |-> object[o]]
      BY DEF Swept, Kept
<1>2. DOMAIN object' = D
      BY <1>1
<1>3. D \subseteq DOMAIN object
      BY DEF Numbers
<1>4. IsFiniteSet(D)
      <2>1. D \in SUBSET DOMAIN object
            BY <1>3
      <2> HIDE DEF D
      <2> QED BY <2>1, FS_Subset DEF ObjectTypes
<1>5. \A t \in Thing : things'[t] \in Used' /\ making'[t] \in Used'
      BY DEF Used
<1>6. \A f \in Feed : subs'[f] \subseteq Used'
      BY DEF Used
<1> HIDE DEF D
<1>7. \A o \in DOMAIN object : o \in Used' => o \in D
      BY DEF D, Numbers
<1>8. object' \in [DOMAIN object' -> [id : Thing, connected : BOOLEAN]]
      BY <1>1, <1>2, <1>3 DEF ObjectTypes
<1>9. \A o \in DOMAIN object' : object'[o] = object[o]
      BY <1>1, <1>2
<1>10. DOMAIN object' \subseteq DOMAIN object /\ DOMAIN object' \subseteq Nat \ {0}
      BY <1>2, <1>3 DEF ObjectTypes
<1> QED BY <1>2, <1>4, <1>5, <1>6, <1>7, <1>8, <1>9, <1>10

\* A thing that is told its connection keeps its id.
LEMMA ConnectedKeeps ==
  ASSUME ObjectTypes, NEW o \in DOMAIN object, NEW to \in BOOLEAN, SetConnected(o, to)
  PROVE  /\ DOMAIN object' = DOMAIN object
         /\ object' \in [DOMAIN object -> [id : Thing, connected : BOOLEAN]]
         /\ \A p \in DOMAIN object : object'[p].id = object[p].id
         /\ \A p \in DOMAIN object : object'[p].connected = IF p = o THEN to ELSE object[p].connected
<1>1. object' = [object EXCEPT ![o] = [object[o] EXCEPT !.connected = to]]
      BY DEF SetConnected
<1>2. [object[o] EXCEPT !.connected = to] = [id |-> object[o].id, connected |-> to]
      BY DEF ObjectTypes
<1> QED BY <1>1, <1>2 DEF ObjectTypes

\* Feeds that begin to listen.
LEMMA AddedTypes ==
  ASSUME TypeInv, NEW feeds, NEW objects \in SUBSET DOMAIN object, AddThings(feeds, objects)
  PROVE  /\ subs' \in [Feed -> SUBSET DOMAIN object] /\ leaked' \in [Feed -> SUBSET DOMAIN object]
         /\ \A f \in Feed : leaked'[f] \subseteq subs'[f]
         /\ shown' \in [Feed -> [Thing -> States]]
<1>1. subs' = [f \in Feed |-> subs[f] \union IF f \in feeds THEN objects ELSE {}]
      BY DEF AddThings
<1>2. \A f \in Feed : leaked'[f] = leaked[f] \union
                IF f \in feeds THEN {o \in subs[f] : object[o].id \in {object[p].id : p \in objects}} ELSE {}
      BY DEF AddThings
<1>3. leaked' = [f \in Feed |-> leaked'[f]]
      BY DEF AddThings
<1>4. subs' \in [Feed -> SUBSET DOMAIN object] /\ \A f \in Feed : subs[f] \subseteq subs'[f]
      BY <1>1 DEF TypeInv, ObjectTypes
<1>5. \A f \in Feed : leaked'[f] \subseteq subs[f]
      BY <1>2 DEF TypeInv, ObjectTypes
<1>6. leaked' \in [Feed -> SUBSET DOMAIN object] /\ \A f \in Feed : leaked'[f] \subseteq subs'[f]
      BY <1>3, <1>4, <1>5 DEF TypeInv, ObjectTypes
<1>7. shown' \in [Feed -> [Thing -> States]]
      <2>1. \A to : State(to) \in States
            BY DEF State, States
      <2> DEFINE thing(t) == object[CHOOSE o \in objects : object[o].id = t]
                 told(f) == IF f \in feeds /\ feed[f] # "closed" THEN {object[p].id : p \in objects} ELSE {}
      <2>2. shown' = [f \in Feed |-> [t \in Thing |->
                     IF t \in told(f) THEN State(thing(t).connected) ELSE shown[f][t]]]
            BY DEF AddThings
      <2> HIDE DEF thing, told
      <2>3. shown \in [Feed -> [Thing -> States]]
            BY DEF TypeInv, PlainTypes
      <2> QED BY <2>1, <2>2, <2>3
<1> QED BY <1>4, <1>6, <1>7

\* Objects that are left alone.
LEMMA ObjectsStay ==
  ASSUME ObjectTypes, UNCHANGED <<things, object, making, inserted, subs, leaked>>
  PROVE  ObjectTypes'
BY DEF ObjectTypes

\* Types in the initial state.
LEMMA TypesStart == Init => TypeInv
<1> SUFFICES ASSUME Init PROVE TypeInv
    OBVIOUS
<1>1. PlainTypes
      <2>1. waiting \in Seq(Task) /\ now \in Seq(Task)
            BY DEF Init
      <2> QED BY <2>1 DEF Init, PlainTypes, Stages, States
<1>2. ObjectTypes
      <2>1. DOMAIN object = {} /\ object \in [{} -> [id : Thing, connected : BOOLEAN]]
            BY DEF Init
      <2>2. IsFiniteSet({})
            BY FS_EmptySet
      <2> QED BY <2>1, <2>2 DEF Init, ObjectTypes
<1> QED BY <1>1, <1>2 DEF TypeInv

\* The table is read.
LEMMA ReadTypes == TypeInv /\ Read => TypeInv'
<1> SUFFICES ASSUME TypeInv, Read PROVE TypeInv'
    OBVIOUS
<1>1. ObjectTypes'
      BY ObjectsStay DEF TypeInv, Read, objectVars, requestVars, feedVars
<1>2. PlainTypes'
      BY DEF TypeInv, PlainTypes, Read, requestVars, feedVars, watcherVars, historyVars
<1> QED BY <1>1, <1>2 DEF TypeInv

\* The numbers the new objects get when the table is loaded.
Numbered == CHOOSE g \in [snapshot -> Unused] : \A t, u \in snapshot : g[t] = g[u] => t = u

\* They are unused, and differ.
LEMMA NumbersGiven ==
  ASSUME TypeInv
  PROVE  /\ Numbered \in [snapshot -> Unused]
         /\ \A t, u \in snapshot : Numbered[t] = Numbered[u] => t = u
<1>1. snapshot \in SUBSET Thing
      BY DEF TypeInv, PlainTypes
<1>2. IsFiniteSet(snapshot) /\ Cardinality(snapshot) <= Cardinality(Thing)
      BY <1>1, FS_Subset, FiniteAssumption
<1>3. Cardinality(snapshot) \in Nat
      BY <1>2, FS_CardinalityType
<1>4. /\ IsFiniteSet(Unused) /\ Cardinality(Unused) \in Nat
      /\ Cardinality(Thing) \in Nat /\ Cardinality(Unused) >= Cardinality(Thing)
      BY UnusedSize DEF TypeInv, ObjectTypes, Numbers
<1>5. Cardinality(snapshot) <= Cardinality(Unused)
      BY <1>2, <1>3, <1>4
<1>6. \E g \in [snapshot -> Unused] : \A t, u \in snapshot : g[t] = g[u] => t = u
      BY <1>2, <1>4, <1>5, Numbering
<1> QED BY <1>6, Zenon DEF Numbered

\* A Thing object.
LEMMA ObjectMade ==
  ASSUME NEW t \in Thing, NEW b \in BOOLEAN
  PROVE  [id |-> t, connected |-> b] \in [id : Thing, connected : BOOLEAN]
OBVIOUS

\* What a load makes of the objects.
LEMMA LoadedObjects ==
  ASSUME TypeInv, Loaded
  PROVE  /\ \A t \in Thing : t \notin snapshot => things'[t] = 0
         /\ \A t \in snapshot : /\ things'[t] \in DOMAIN object' /\ things'[t] \in Nat \ {0}
                                /\ things'[t] \notin DOMAIN object
                                /\ object'[things'[t]].id = t /\ ~object'[things'[t]].connected
         /\ things' \in [Thing -> Nat]
         /\ DOMAIN object' \subseteq Nat \ {0} /\ IsFiniteSet(DOMAIN object')
         /\ object' \in [DOMAIN object' -> [id : Thing, connected : BOOLEAN]]
         /\ \A o \in DOMAIN object : o \in Used' => o \in DOMAIN object' /\ object'[o] = object[o]
<1> DEFINE new == {Numbered[t] : t \in snapshot}
           id(o) == CHOOSE t \in snapshot : Numbered[t] = o
<1>1. /\ things' = [t \in Thing |-> IF t \in snapshot THEN Numbered[t] ELSE 0]
      /\ object' = [o \in Kept \union new |->
                      IF o \in Numbers THEN object[o] ELSE [id |-> id(o), connected |-> FALSE]]
      BY DEF Loaded, Numbered
<1>2. /\ Numbered \in [snapshot -> Unused] /\ \A t, u \in snapshot : Numbered[t] = Numbered[u] => t = u
      BY NumbersGiven
<1>3. Unused \subseteq Nat \ {0} /\ Unused \cap Numbers = {} /\ IsFiniteSet(Unused)
      BY UnusedSize DEF TypeInv, ObjectTypes, Numbers
<1>4. snapshot \subseteq Thing /\ \A t \in snapshot : id(Numbered[t]) = t
      BY <1>2 DEF TypeInv, PlainTypes
<1>5. \A o \in new : id(o) \in snapshot
      OBVIOUS
<1> HIDE DEF id
<1>6. new \subseteq Unused /\ \A t \in snapshot : Numbered[t] \in new
      BY <1>2
<1>7. Kept = Numbers \cap Used' /\ Numbers = DOMAIN object
      BY DEF Kept, Numbers
<1> HIDE DEF new
<1>8. DOMAIN object' = Kept \union new
      BY <1>1
<1>9. \A o \in new : object'[o] = [id |-> id(o), connected |-> FALSE]
      BY <1>1, <1>3, <1>6
<1>10. \A o \in Kept : object'[o] = object[o]
       BY <1>1, <1>7
<1>11. object' \in [DOMAIN object' -> [id : Thing, connected : BOOLEAN]]
       <2>1. \A o \in Kept : object'[o] \in [id : Thing, connected : BOOLEAN]
             BY <1>7, <1>10 DEF TypeInv, ObjectTypes
       <2>2. \A o \in new : object'[o] \in [id : Thing, connected : BOOLEAN]
             <3> SUFFICES ASSUME NEW o \in new PROVE object'[o] \in [id : Thing, connected : BOOLEAN]
                 OBVIOUS
             <3>1. id(o) \in Thing
                   BY <1>4, <1>5
             <3>2. object'[o] = [id |-> id(o), connected |-> FALSE]
                   BY <1>9
             <3> QED BY <3>1, <3>2, ObjectMade
       <2> QED BY <1>1, <1>8, <2>1, <2>2
<1>12. IsFiniteSet(DOMAIN object')
       <2>1. IsFiniteSet(Kept) /\ IsFiniteSet(new)
             <3>1. Kept \in SUBSET Numbers /\ IsFiniteSet(Numbers)
                   BY <1>7 DEF TypeInv, ObjectTypes
             <3>2. IsFiniteSet(Kept)
                   BY <3>1, FS_Subset
             <3>3. new \in SUBSET Unused
                   BY <1>6
             <3>4. IsFiniteSet(new)
                   BY <1>3, <3>3, FS_Subset
             <3> QED BY <3>2, <3>4
       <2>2. IsFiniteSet(Kept \union new)
             BY <2>1, FS_Union
       <2> QED BY <1>8, <2>2
<1>13. things' \in [Thing -> Nat]
       BY <1>1, <1>2, <1>3
<1>14. DOMAIN object' \subseteq Nat \ {0}
       BY <1>3, <1>6, <1>7, <1>8 DEF TypeInv, ObjectTypes
<1>15. \A t \in snapshot : things'[t] = Numbered[t] /\ Numbered[t] \in Unused /\ Numbered[t] \in new
       BY <1>1, <1>2, <1>4, <1>6
<1>16. \A t \in snapshot : /\ things'[t] \in DOMAIN object' /\ things'[t] \in Nat \ {0}
                           /\ things'[t] \notin DOMAIN object
                           /\ object'[things'[t]].id = t /\ ~object'[things'[t]].connected
       <2> SUFFICES ASSUME NEW t \in snapshot
                    PROVE  /\ things'[t] \in DOMAIN object' /\ things'[t] \in Nat \ {0}
                           /\ things'[t] \notin DOMAIN object
                           /\ object'[things'[t]].id = t /\ ~object'[things'[t]].connected
           OBVIOUS
       <2>1. object'[things'[t]] = [id |-> t, connected |-> FALSE]
             BY <1>4, <1>9, <1>15
       <2>2. object'[things'[t]].id = t /\ object'[things'[t]].connected = FALSE
             BY <2>1
       <2> QED BY <1>3, <1>7, <1>8, <1>15, <2>2
<1> QED BY <1>1, <1>7, <1>8, <1>10, <1>11, <1>12, <1>13, <1>14, <1>16

\* The rows arrive.
LEMMA LoadedTypes == TypeInv /\ Loaded => TypeInv'
<1> SUFFICES ASSUME TypeInv, Loaded PROVE TypeInv'
    OBVIOUS
<1>1. PlainTypes'
      <2>1. now' \in Seq(Task) /\ waiting' = << >> /\ waiting' \in Seq(Task)
            BY DEF Loaded, TypeInv, PlainTypes
      <2>2. spoiled' \subseteq Thing
            BY DEF Loaded, Mapped, TypeInv, PlainTypes
      <2>3. /\ load' = "none" /\ snapshot' = {}
            /\ UNCHANGED <<rows, device, deleting, feed, shown, watcher, found, heard, missed, forgotten, early>>
            BY DEF Loaded, requestVars, feedVars, watcherVars
      <2> QED BY <2>1, <2>2, <2>3 DEF TypeInv, PlainTypes
<1>2. ObjectTypes'
      <2>1. UNCHANGED <<making, inserted, subs, leaked>>
            BY DEF Loaded, requestVars, feedVars
      <2>2. \A t \in Thing : making'[t] \in Used' /\ things'[t] \in Used'
            BY DEF Used
      <2>3. \A f \in Feed : subs'[f] \subseteq Used'
            BY DEF Used
      <2>4. \A o \in DOMAIN object : o \in Used' => o \in DOMAIN object' /\ object'[o] = object[o]
            BY LoadedObjects
      <2>5. \A t \in Thing : making'[t] # 0 => making'[t] \in DOMAIN object' /\ object'[making'[t]].id = t
            BY <2>1, <2>2, <2>4 DEF TypeInv, ObjectTypes
      <2>6. \A f \in Feed : subs'[f] \subseteq DOMAIN object'
            BY <2>1, <2>3, <2>4 DEF TypeInv, ObjectTypes
      <2>7. \A t \in Thing : things'[t] # 0 => things'[t] \in DOMAIN object' /\ object'[things'[t]].id = t
            BY LoadedObjects
      <2>8. /\ subs' \in [Feed -> SUBSET DOMAIN object'] /\ leaked' \in [Feed -> SUBSET DOMAIN object']
            /\ \A f \in Feed : leaked'[f] \subseteq subs'[f]
            /\ making' \in [Thing -> Nat] /\ inserted' \subseteq {t \in Thing : making'[t] # 0}
            BY <2>1, <2>6 DEF TypeInv, ObjectTypes
      <2>9. /\ things' \in [Thing -> Nat]
            /\ DOMAIN object' \subseteq Nat \ {0} /\ IsFiniteSet(DOMAIN object')
            /\ object' \in [DOMAIN object' -> [id : Thing, connected : BOOLEAN]]
            BY LoadedObjects
      <2> QED BY <2>5, <2>7, <2>8, <2>9 DEF ObjectTypes
<1> QED BY <1>1, <1>2 DEF TypeInv

\* News of devices, and calls of requests.
LEMMA NewsTypes ==
  ASSUME TypeInv, NEW t \in Thing, NEW to \in BOOLEAN,
         \/ t \in Present /\ DeviceAdded(t)
         \/ DeviceRemoved(t) \/ DeviceConnected(t, to) \/ Post(t)
  PROVE  TypeInv'
<1> USE TaskMade
<1>1. ASSUME UNCHANGED <<objectVars, making, inserted, subs, leaked>> PROVE ObjectTypes'
      BY <1>1, ObjectsStay DEF TypeInv, objectVars
<1>2. ASSUME t \in Present, DeviceAdded(t) PROVE TypeInv'
      <2>1. Call([kind |-> "added", thing |-> t])
            BY <1>2 DEF DeviceAdded
      <2>2. ObjectTypes'
            BY <1>1, <1>2 DEF DeviceAdded, requestVars, feedVars
      <2>3. PlainTypes'
            BY <1>2, <2>1, CallQueues DEF DeviceAdded, TypeInv, PlainTypes, requestVars, feedVars, watcherVars
      <2> QED BY <2>2, <2>3 DEF TypeInv
<1>3. ASSUME DeviceRemoved(t) PROVE TypeInv'
      <2>1. Call([kind |-> "removed", thing |-> t])
            BY <1>3 DEF DeviceRemoved
      <2>2. ObjectTypes'
            BY <1>1, <1>3 DEF DeviceRemoved, requestVars, feedVars
      <2>3. PlainTypes'
            BY <1>3, <2>1, CallQueues DEF DeviceRemoved, TypeInv, PlainTypes, requestVars, feedVars, watcherVars
      <2> QED BY <2>2, <2>3 DEF TypeInv
<1>4. ASSUME DeviceConnected(t, to) PROVE TypeInv'
      <2>1. Call([kind |-> "connected", thing |-> t, to |-> to])
            BY <1>4 DEF DeviceConnected
      <2>2. ObjectTypes'
            BY <1>1, <1>4 DEF DeviceConnected, requestVars, feedVars
      <2>3. PlainTypes'
            BY <1>4, <2>1, CallQueues DEF DeviceConnected, TypeInv, PlainTypes, requestVars, feedVars, watcherVars
      <2> QED BY <2>2, <2>3 DEF TypeInv
<1>5. ASSUME Post(t) PROVE TypeInv'
      <2>1. Call([kind |-> "post", thing |-> t])
            BY <1>5 DEF Post
      <2>2. ObjectTypes'
            BY <1>1, <1>5 DEF Post, requestVars, feedVars
      <2>3. PlainTypes'
            BY <1>5, <2>1, CallQueues DEF Post, TypeInv, PlainTypes, requestVars, feedVars, watcherVars,
               historyVars
      <2> QED BY <2>2, <2>3 DEF TypeInv
<1> QED BY <1>2, <1>3, <1>4, <1>5

\* A feed is opened.
LEMMA OpenTypes == ASSUME TypeInv, NEW f \in Feed, Open(f) PROVE TypeInv'
<1> USE TaskMade
<1>1. Call([kind |-> "open", feed |-> f])
      BY DEF Open
<1>2. ObjectTypes'
      BY ObjectsStay DEF TypeInv, objectVars, Open, requestVars
<1>3. PlainTypes'
      BY <1>1, CallQueues DEF Open, TypeInv, PlainTypes, requestVars, watcherVars, historyVars, Stages
<1> QED BY <1>2, <1>3 DEF TypeInv

\* A watcher comes.
LEMMA WatchTypes == ASSUME TypeInv, NEW w \in Watcher, Watch(w) PROVE TypeInv'
<1> USE TaskMade
<1>1. Call([kind |-> "watch", watcher |-> w])
      BY DEF Watch
<1>2. ObjectTypes'
      BY ObjectsStay DEF TypeInv, objectVars, Watch, requestVars, feedVars
<1>3. PlainTypes'
      BY <1>1, CallQueues DEF Watch, TypeInv, PlainTypes, requestVars, feedVars, historyVars, Stages
<1> QED BY <1>2, <1>3 DEF TypeInv

\* A thing hears of its connection.
LEMMA ConnectedTypes ==
  ASSUME TypeInv, NEW o \in DOMAIN object, NEW to \in BOOLEAN, SetConnected(o, to),
         UNCHANGED <<things, making, inserted, subs, leaked>>
  PROVE  ObjectTypes' /\ shown' \in [Feed -> [Thing -> States]]
<1>1. /\ DOMAIN object' = DOMAIN object
      /\ object' \in [DOMAIN object -> [id : Thing, connected : BOOLEAN]]
      /\ \A p \in DOMAIN object : object'[p].id = object[p].id
      BY ConnectedKeeps DEF TypeInv
<1>2. ObjectTypes'
      BY <1>1 DEF TypeInv, ObjectTypes
<1>3. shown' \in [Feed -> [Thing -> States]]
      <2>1. State(to) \in States
            BY DEF State, States
      <2>2. shown \in [Feed -> [Thing -> States]]
            BY DEF TypeInv, PlainTypes
      <2>3. \A f \in Feed : [shown[f] EXCEPT ![object[o].id] = State(to)] \in [Thing -> States]
            BY <2>1, <2>2
      <2> QED BY <2>2, <2>3 DEF SetConnected
<1> QED BY <1>2, <1>3

\* A new object.
LEMMA CreateObjects ==
  ASSUME TypeInv, NEW k \in Task, Create(k), things[k.thing] = 0
  PROVE  /\ k.thing \in Thing /\ making' = [making EXCEPT ![k.thing] = NewObject]
         /\ NewObject \in Nat \ {0} /\ NewObject \notin DOMAIN object
         /\ DOMAIN object' = DOMAIN object \union {NewObject}
         /\ \A o \in DOMAIN object : object'[o] = object[o]
         /\ object'[NewObject] = [id |-> k.thing, connected |-> TRUE]
         /\ object' \in [DOMAIN object' -> [id : Thing, connected : BOOLEAN]]
<1>1. k.thing \in Thing
      BY TaskIs DEF Create
<1>2. NewObject \in Nat \ {0} /\ NewObject \notin Numbers
      BY <1>1, NewNumber DEF TypeInv, ObjectTypes, Numbers
<1>3. /\ making' = [making EXCEPT ![k.thing] = NewObject]
      /\ object' = [o \in Numbers \union {NewObject} |->
                      IF o \in Numbers THEN object[o] ELSE [id |-> k.thing, connected |-> TRUE]]
      BY DEF Create
<1>4. DOMAIN object' = DOMAIN object \union {NewObject} /\ Numbers = DOMAIN object
      BY <1>3 DEF Numbers
<1>5. \A o \in DOMAIN object : object'[o] = object[o]
      BY <1>3, <1>4
<1>6. object'[NewObject] = [id |-> k.thing, connected |-> TRUE]
      BY <1>2, <1>3, <1>4
<1>7. [id |-> k.thing, connected |-> TRUE] \in [id : Thing, connected : BOOLEAN]
      BY <1>1, ObjectMade
<1>8. object' \in [DOMAIN object' -> [id : Thing, connected : BOOLEAN]]
      <2>1. \A o \in DOMAIN object' : object'[o] \in [id : Thing, connected : BOOLEAN]
            <3>1. \A o \in DOMAIN object : object'[o] \in [id : Thing, connected : BOOLEAN]
                  BY <1>5 DEF TypeInv, ObjectTypes
            <3>2. object'[NewObject] \in [id : Thing, connected : BOOLEAN]
                  BY <1>6, <1>7
            <3> QED BY <1>4, <3>1, <3>2
      <2>2. object' = [o \in DOMAIN object' |-> object'[o]]
            BY <1>3
      <2> QED BY <2>1, <2>2
<1> QED BY <1>1, <1>2, <1>3, <1>4, <1>5, <1>6, <1>8

\* The next of those who go on.
LEMMA GoTypes == TypeInv /\ Go => TypeInv'
<1> SUFFICES ASSUME TypeInv, Go PROVE TypeInv'
    OBVIOUS
<1> DEFINE k == Head(now)
<1>1. k \in Task /\ now' \in Seq(Task) /\ UNCHANGED <<rows, load, snapshot, waiting, device, heard>>
      BY DEF Go, TypeInv, PlainTypes, storeVars
<1>2. TakeUp(k) \/ TakeState(k) \/ Create(k) \/ Follow(k) \/ Offer(k)
      BY DEF Go
<1> HIDE DEF k
<1>3. CASE TakeUp(k) \/ TakeState(k)
      <2>1. k.thing \in Thing
            BY <1>1, <1>3, TaskIs DEF TakeUp, TakeState
      <2>2. UNCHANGED <<things, making, inserted, deleting, feed, subs, leaked, watcher, forgotten, spoiled,
                        early>>
            BY <1>3 DEF TakeUp, TakeState, requestVars, watcherVars
      <2>3. missed' \subseteq Thing
            BY <1>3 DEF TakeUp, TakeState, TypeInv, PlainTypes
      <2>4. found' \in [Watcher -> SUBSET Thing]
            <3>1. found \in [Watcher -> SUBSET Thing]
                  BY DEF TypeInv, PlainTypes
            <3>2. \/ found' = found
                  \/ found' = [w \in Watcher |-> IF watcher[w] \in {"opening", "open"}
                                                THEN found[w] \union {k.thing} ELSE found[w]]
                  BY <1>3 DEF TakeUp, TakeState, Tell, watcherVars
            <3> QED BY <2>1, <3>1, <3>2
      <2>5. \/ UNCHANGED <<object, shown>>
            \/ things[k.thing] # 0 /\ \E to \in BOOLEAN : SetConnected(things[k.thing], to)
            BY <1>1, <1>3, TaskIs DEF TakeUp, TakeState
      <2>6. ObjectTypes' /\ shown' \in [Feed -> [Thing -> States]]
            <3>1. CASE UNCHANGED <<object, shown>>
                  BY <2>2, <3>1, ObjectsStay DEF TypeInv, PlainTypes
            <3>2. CASE things[k.thing] # 0 /\ \E to \in BOOLEAN : SetConnected(things[k.thing], to)
                  <4>1. things[k.thing] \in DOMAIN object
                        BY <2>1, <3>2 DEF TypeInv, ObjectTypes
                  <4> QED BY <2>2, <3>2, <4>1, ConnectedTypes
            <3> QED BY <2>5, <3>1, <3>2
      <2> QED BY <1>1, <2>2, <2>3, <2>4, <2>6 DEF TypeInv, PlainTypes
<1>4. CASE Create(k)
      <2>1. PlainTypes'
            BY <1>1, <1>4 DEF Create, TypeInv, PlainTypes, feedVars, watcherVars
      <2>2. CASE things[k.thing] # 0
            BY <1>4, <2>1, <2>2, ObjectsStay DEF Create, TypeInv, feedVars
      <2>3. CASE things[k.thing] = 0
            <3>1. UNCHANGED <<things, inserted, subs, leaked>>
                  BY <1>4 DEF Create, feedVars
            <3>2. /\ k.thing \in Thing /\ making' = [making EXCEPT ![k.thing] = NewObject]
                  /\ NewObject \in Nat \ {0} /\ NewObject \notin DOMAIN object
                  /\ DOMAIN object' = DOMAIN object \union {NewObject}
                  /\ \A o \in DOMAIN object : object'[o] = object[o]
                  /\ object'[NewObject] = [id |-> k.thing, connected |-> TRUE]
                  /\ object' \in [DOMAIN object' -> [id : Thing, connected : BOOLEAN]]
                  BY <1>1, <1>4, <2>3, CreateObjects
            <3>3. IsFiniteSet(DOMAIN object')
                  BY <3>2, FS_AddElement DEF TypeInv, ObjectTypes
            <3>4. making' \in [Thing -> Nat] /\ inserted' \subseteq {t \in Thing : making'[t] # 0}
                  BY <3>1, <3>2 DEF TypeInv, ObjectTypes
            <3>5. \A t \in Thing : making'[t] # 0 => making'[t] \in DOMAIN object' /\ object'[making'[t]].id = t
                  BY <3>2 DEF TypeInv, ObjectTypes
            <3>6. \A t \in Thing : things'[t] # 0 => things'[t] \in DOMAIN object' /\ object'[things'[t]].id = t
                  BY <3>1, <3>2 DEF TypeInv, ObjectTypes
            <3>7. /\ subs' \in [Feed -> SUBSET DOMAIN object'] /\ leaked' \in [Feed -> SUBSET DOMAIN object']
                  /\ \A f \in Feed : leaked'[f] \subseteq subs'[f] /\ things' \in [Thing -> Nat]
                  BY <3>1, <3>2 DEF TypeInv, ObjectTypes
            <3>8. DOMAIN object' \subseteq Nat \ {0} /\ things' \in [Thing -> Nat]
                  BY <3>1, <3>2 DEF TypeInv, ObjectTypes
            <3>9. ObjectTypes'
                  BY <3>2, <3>3, <3>4, <3>5, <3>6, <3>7, <3>8 DEF ObjectTypes
            <3> QED BY <2>1, <3>9 DEF TypeInv
      <2> QED BY <2>2, <2>3
<1>5. CASE Follow(k)
      <2>1. k.feed \in Feed /\ UNCHANGED <<things, object, making, inserted, deleting, watcher, found,
                                           missed, forgotten, spoiled>>
            BY <1>1, <1>5, TaskIs DEF Follow, objectVars, requestVars, watcherVars
      <2>2. {things[t] : t \in Mapped} \in SUBSET DOMAIN object
            BY DEF TypeInv, ObjectTypes, Mapped
      <2>3. AddThings({k.feed}, {things[t] : t \in Mapped})
            BY <1>5 DEF Follow
      <2>4. /\ subs' \in [Feed -> SUBSET DOMAIN object] /\ leaked' \in [Feed -> SUBSET DOMAIN object]
            /\ \A f \in Feed : leaked'[f] \subseteq subs'[f]
            /\ shown' \in [Feed -> [Thing -> States]]
            BY <2>2, <2>3, AddedTypes
      <2>5. feed' \in [Feed -> Stages] /\ early' \subseteq Feed
            BY <1>5, <2>1 DEF Follow, TypeInv, PlainTypes, Stages
      <2>6. ObjectTypes'
            BY <2>1, <2>4 DEF TypeInv, ObjectTypes
      <2>7. PlainTypes'
            BY <1>1, <2>1, <2>4, <2>5 DEF TypeInv, PlainTypes
      <2> QED BY <2>6, <2>7 DEF TypeInv
<1>6. CASE Offer(k)
      <2>1. k.watcher \in Watcher
            BY <1>1, <1>6, TaskIs DEF Offer
      <2>2. device \subseteq Thing
            BY PresentAssumption DEF TypeInv, PlainTypes
      <2>3. watcher' \in [Watcher -> Stages] /\ found' \in [Watcher -> SUBSET Thing]
            <3>1. watcher \in [Watcher -> Stages] /\ found \in [Watcher -> SUBSET Thing]
                  BY DEF TypeInv, PlainTypes
            <3>2. \/ UNCHANGED <<watcher, found>>
                  \/ /\ watcher' = [watcher EXCEPT ![k.watcher] = "open"]
                     /\ found' = [found EXCEPT ![k.watcher] = found[k.watcher] \union (device \ Mapped)]
                  BY <1>6, <2>1, <3>1 DEF Offer, watcherVars
            <3>3. "open" \in Stages /\ found[k.watcher] \union (device \ Mapped) \in SUBSET Thing
                  BY <2>1, <2>2, <3>1 DEF Stages
            <3> QED BY <3>1, <3>2, <3>3
      <2>4. ObjectTypes'
            BY <1>6, ObjectsStay DEF Offer, TypeInv, objectVars, requestVars, feedVars
      <2>5. PlainTypes'
            BY <1>1, <1>6, <2>3 DEF Offer, TypeInv, PlainTypes, requestVars, feedVars
      <2> QED BY <2>4, <2>5 DEF TypeInv
<1> QED BY <1>2, <1>3, <1>4, <1>5, <1>6

\* What is left of the objects when some are not of use any more.
LEMMA SweptTypes ==
  ASSUME ObjectTypes, object' = Swept,
         things' \in [Thing -> Nat], making' \in [Thing -> Nat],
         \A t \in Thing : things'[t] # 0 => things'[t] \in DOMAIN object /\ object[things'[t]].id = t,
         \A t \in Thing : making'[t] # 0 => making'[t] \in DOMAIN object /\ object[making'[t]].id = t,
         inserted' \subseteq {t \in Thing : making'[t] # 0},
         subs' \in [Feed -> SUBSET DOMAIN object], leaked' \in [Feed -> SUBSET DOMAIN object],
         \A f \in Feed : leaked'[f] \subseteq subs'[f]
  PROVE  ObjectTypes'
<1>1. /\ DOMAIN object' \subseteq Nat \ {0} /\ IsFiniteSet(DOMAIN object')
      /\ object' \in [DOMAIN object' -> [id : Thing, connected : BOOLEAN]]
      BY SweptKeeps
<1>2. \A o \in DOMAIN object' : object'[o] = object[o]
      BY SweptKeeps
<1>3. /\ \A t \in Thing : things'[t] \in DOMAIN object => things'[t] \in DOMAIN object'
      /\ \A t \in Thing : making'[t] \in DOMAIN object => making'[t] \in DOMAIN object'
      /\ \A f \in Feed : subs'[f] \cap DOMAIN object \subseteq DOMAIN object'
      BY SweptKeeps
<1>4. \A t \in Thing : things'[t] # 0 => things'[t] \in DOMAIN object' /\ object'[things'[t]].id = t
      BY <1>2, <1>3
<1>5. \A t \in Thing : making'[t] # 0 => making'[t] \in DOMAIN object' /\ object'[making'[t]].id = t
      BY <1>2, <1>3
<1>6. \A f \in Feed : subs'[f] \subseteq DOMAIN object' /\ leaked'[f] \subseteq DOMAIN object'
      BY <1>3
<1>7. subs' \in [Feed -> SUBSET DOMAIN object'] /\ leaked' \in [Feed -> SUBSET DOMAIN object']
      BY <1>6
<1> QED BY <1>1, <1>4, <1>5, <1>7 DEF ObjectTypes

\* A thing is in the table.
LEMMA InsertedTypes == ASSUME TypeInv, NEW t \in Thing, Inserted(t) PROVE TypeInv'
<1>1. /\ object' = Swept
      /\ UNCHANGED <<load, snapshot, waiting, now, device, deleting, feed, subs, leaked, shown, watcher, found,
                     heard, forgotten, spoiled, early>>
      BY DEF Inserted, feedVars, watcherVars
<1>2. \/ making' = [making EXCEPT ![t] = 0] /\ UNCHANGED <<rows, things, inserted, missed>>
      \/ /\ rows' = rows \union {t} /\ things' = [things EXCEPT ![t] = making[t]]
         /\ inserted' = inserted \union {t} /\ missed' \in {missed, missed \union {t}}
         /\ UNCHANGED making
      BY DEF Inserted
<1>3. making[t] # 0 /\ t \notin inserted
      BY DEF Inserted
<1>4. PlainTypes'
      BY <1>1, <1>2 DEF TypeInv, PlainTypes
<1>5. ObjectTypes'
      <2>1. things' \in [Thing -> Nat] /\ making' \in [Thing -> Nat]
            BY <1>2 DEF TypeInv, ObjectTypes
      <2>2. \A u \in Thing : things'[u] # 0 => things'[u] \in DOMAIN object /\ object[things'[u]].id = u
            BY <1>2 DEF TypeInv, ObjectTypes
      <2>3. \A u \in Thing : making'[u] # 0 => making'[u] \in DOMAIN object /\ object[making'[u]].id = u
            BY <1>2 DEF TypeInv, ObjectTypes
      <2>4. inserted' \subseteq {u \in Thing : making'[u] # 0}
            BY <1>2, <1>3 DEF TypeInv, ObjectTypes
      <2>5. /\ subs' \in [Feed -> SUBSET DOMAIN object] /\ leaked' \in [Feed -> SUBSET DOMAIN object]
            /\ \A f \in Feed : leaked'[f] \subseteq subs'[f]
            BY <1>1 DEF TypeInv, ObjectTypes
      <2> QED BY <1>1, <2>1, <2>2, <2>3, <2>4, <2>5, SweptTypes DEF TypeInv
<1> QED BY <1>4, <1>5 DEF TypeInv

\* A thing is announced.
LEMMA AnnouncedTypes == ASSUME TypeInv, NEW t \in Thing, Announced(t) PROVE TypeInv'
<1>1. /\ object' = Swept /\ things' = things
      /\ making' = [making EXCEPT ![t] = 0] /\ inserted' = inserted \ {t}
      /\ UNCHANGED <<rows, load, snapshot, waiting, now, device, deleting, feed, watcher, found,
                     heard, missed, forgotten, spoiled, early>>
      BY DEF Announced, storeVars, watcherVars, historyVars
<1>2. {making[t]} \in SUBSET DOMAIN object
      BY DEF Announced, TypeInv, ObjectTypes
<1>3. AddThings({f \in Feed : feed[f] \in {"opening", "open"}}, {making[t]})
      BY DEF Announced
<1>4. /\ subs' \in [Feed -> SUBSET DOMAIN object] /\ leaked' \in [Feed -> SUBSET DOMAIN object]
      /\ \A f \in Feed : leaked'[f] \subseteq subs'[f]
      /\ shown' \in [Feed -> [Thing -> States]]
      BY <1>2, <1>3, AddedTypes
<1>5. PlainTypes'
      BY <1>1, <1>4 DEF TypeInv, PlainTypes
<1>6. ObjectTypes'
      <2>1. things' \in [Thing -> Nat] /\ making' \in [Thing -> Nat]
            BY <1>1 DEF TypeInv, ObjectTypes
      <2>2. \A u \in Thing : things'[u] # 0 => things'[u] \in DOMAIN object /\ object[things'[u]].id = u
            BY <1>1 DEF TypeInv, ObjectTypes
      <2>3. \A u \in Thing : making'[u] # 0 => making'[u] \in DOMAIN object /\ object[making'[u]].id = u
            BY <1>1 DEF TypeInv, ObjectTypes
      <2>4. inserted' \subseteq {u \in Thing : making'[u] # 0}
            BY <1>1 DEF TypeInv, ObjectTypes
      <2> QED BY <1>1, <1>4, <2>1, <2>2, <2>3, <2>4, SweptTypes DEF TypeInv
<1> QED BY <1>5, <1>6 DEF TypeInv

\* A thing is to be deleted.
LEMMA DeleteTypes == ASSUME TypeInv, NEW t \in Thing, Delete(t) PROVE TypeInv'
<1>1. ObjectTypes'
      BY ObjectsStay DEF Delete, TypeInv, objectVars, feedVars
<1>2. PlainTypes'
      BY DEF Delete, TypeInv, PlainTypes, storeVars, feedVars, watcherVars, historyVars
<1> QED BY <1>1, <1>2 DEF TypeInv

\* A watcher leaves.
LEMMA LeaveTypes == ASSUME TypeInv, NEW w \in Watcher, Leave(w) PROVE TypeInv'
<1>1. ObjectTypes'
      BY ObjectsStay DEF Leave, TypeInv, objectVars, requestVars, feedVars
<1>2. watcher' \in [Watcher -> Stages] /\ found' \in [Watcher -> SUBSET Thing]
      BY DEF Leave, TypeInv, PlainTypes, Stages
<1>3. PlainTypes'
      BY <1>2 DEF Leave, TypeInv, PlainTypes, storeVars, requestVars, feedVars, historyVars
<1> QED BY <1>1, <1>3 DEF TypeInv

\* What the deletion of a thing changes.
LEMMA DeletedParts ==
  ASSUME TypeInv, NEW t \in Thing, Deleted(t)
  PROVE  /\ deleting' = deleting \ {t} /\ rows' = rows \ {t} /\ things' = [things EXCEPT ![t] = 0]
         /\ \A f \in Feed : subs'[f] = IF things[t] # 0 /\ things[t] \in subs[f]
                                       THEN {o \in subs[f] : object[o].id # t \/ o \in leaked[f]} ELSE subs[f]
         /\ subs' \in [Feed -> SUBSET DOMAIN object]
         /\ \A f \in Feed : shown'[f] = IF things[t] # 0 /\ things[t] \in subs[f]
                                       THEN [shown[f] EXCEPT ![t] = "absent"] ELSE shown[f]
         /\ shown' \in [Feed -> [Thing -> States]]
         /\ missed' = missed \ {t}
         /\ forgotten' = forgotten \union (device \intersect Mapped \intersect {t})
         /\ spoiled' = IF making[t] # 0 THEN spoiled \union {t} ELSE spoiled
         /\ object' = Swept
         /\ UNCHANGED <<load, snapshot, waiting, now, device, making, inserted, feed, leaked, watcher, found, heard,
                        early>>
<1>1. /\ subs' = [f \in Feed |-> IF things[t] # 0 /\ things[t] \in subs[f]
                                 THEN {o \in subs[f] : object[o].id # t \/ o \in leaked[f]} ELSE subs[f]]
      /\ shown' = [f \in Feed |-> IF things[t] # 0 /\ things[t] \in subs[f]
                                  THEN [shown[f] EXCEPT ![t] = "absent"] ELSE shown[f]]
      BY DEF Deleted
<1>2. subs' \in [Feed -> SUBSET DOMAIN object]
      BY <1>1 DEF TypeInv, ObjectTypes
<1>3. shown' \in [Feed -> [Thing -> States]]
      <2>1. shown \in [Feed -> [Thing -> States]]
            BY DEF TypeInv, PlainTypes
      <2>2. \A f \in Feed : [shown[f] EXCEPT ![t] = "absent"] \in [Thing -> States]
            BY <2>1 DEF States
      <2> QED BY <1>1, <2>1, <2>2
<1> QED BY <1>1, <1>2, <1>3 DEF Deleted, watcherVars

\* A thing is deleted.
LEMMA DeletedTypes == ASSUME TypeInv, NEW t \in Thing, Deleted(t) PROVE TypeInv'
<1>1. /\ rows' = rows \ {t} /\ things' = [things EXCEPT ![t] = 0] /\ object' = Swept
      /\ subs' \in [Feed -> SUBSET DOMAIN object] /\ shown' \in [Feed -> [Thing -> States]]
      /\ UNCHANGED <<load, snapshot, waiting, now, device, making, inserted, feed, leaked, watcher, found, heard,
                     early>>
      BY DeletedParts
<1>2. deleting' \subseteq Thing /\ missed' \subseteq Thing /\ forgotten' \subseteq Thing /\ spoiled' \subseteq Thing
      BY SMTT(40), DeletedParts DEF TypeInv, PlainTypes
<1>3. PlainTypes'
      BY <1>1, <1>2 DEF TypeInv, PlainTypes
<1>4. ObjectTypes'
      <2>1. things' \in [Thing -> Nat] /\ making' \in [Thing -> Nat]
            BY <1>1 DEF TypeInv, ObjectTypes
      <2>2. \A u \in Thing : things'[u] # 0 => things'[u] \in DOMAIN object /\ object[things'[u]].id = u
            BY <1>1 DEF TypeInv, ObjectTypes
      <2>3. \A u \in Thing : making'[u] # 0 => making'[u] \in DOMAIN object /\ object[making'[u]].id = u
            BY <1>1 DEF TypeInv, ObjectTypes
      <2>4. inserted' \subseteq {u \in Thing : making'[u] # 0}
            BY <1>1 DEF TypeInv, ObjectTypes
      <2>5. \A f \in Feed : leaked'[f] \subseteq subs'[f]
            <3> SUFFICES ASSUME NEW f \in Feed PROVE leaked'[f] \subseteq subs'[f]
                OBVIOUS
            <3>1. subs'[f] = IF things[t] # 0 /\ things[t] \in subs[f]
                             THEN {o \in subs[f] : object[o].id # t \/ o \in leaked[f]} ELSE subs[f]
                  BY DeletedParts
            <3>2. leaked'[f] = leaked[f] /\ leaked[f] \subseteq subs[f]
                  BY <1>1 DEF TypeInv, ObjectTypes
            <3> QED BY <3>1, <3>2
      <2>6. leaked' \in [Feed -> SUBSET DOMAIN object]
            BY <1>1 DEF TypeInv, ObjectTypes
      <2> QED BY <1>1, <2>1, <2>2, <2>3, <2>4, <2>5, <2>6, SweptTypes DEF TypeInv
<1> QED BY <1>3, <1>4 DEF TypeInv

\* A feed is closed.
LEMMA CloseTypes == ASSUME TypeInv, NEW f \in Feed, Close(f) PROVE TypeInv'
<1>1. /\ feed' = [feed EXCEPT ![f] = "closed"] /\ subs' = [subs EXCEPT ![f] = leaked[f]] /\ object' = Swept
      /\ shown' = [shown EXCEPT ![f] = [t \in Thing |-> "absent"]]
      /\ early' \in {early, early \union {f}}
      /\ UNCHANGED <<rows, load, snapshot, waiting, now, device, things, making, inserted, deleting, leaked,
                     watcher, found, heard, missed, forgotten, spoiled>>
      BY DEF Close, storeVars, requestVars, watcherVars
<1>2. feed' \in [Feed -> Stages]
      BY <1>1 DEF TypeInv, PlainTypes, Stages
<1>3. shown' \in [Feed -> [Thing -> States]]
      <2>1. [t \in Thing |-> "absent"] \in [Thing -> States]
            BY DEF States
      <2> QED BY <1>1, <2>1 DEF TypeInv, PlainTypes
<1>4. PlainTypes'
      BY <1>1, <1>2, <1>3 DEF TypeInv, PlainTypes
<1>5. ObjectTypes'
      <2>1. things' \in [Thing -> Nat] /\ making' \in [Thing -> Nat]
            BY <1>1 DEF TypeInv, ObjectTypes
      <2>2. \A u \in Thing : things'[u] # 0 => things'[u] \in DOMAIN object /\ object[things'[u]].id = u
            BY <1>1 DEF TypeInv, ObjectTypes
      <2>3. \A u \in Thing : making'[u] # 0 => making'[u] \in DOMAIN object /\ object[making'[u]].id = u
            BY <1>1 DEF TypeInv, ObjectTypes
      <2>4. inserted' \subseteq {u \in Thing : making'[u] # 0}
            BY <1>1 DEF TypeInv, ObjectTypes
      <2>5. /\ subs' \in [Feed -> SUBSET DOMAIN object] /\ leaked' \in [Feed -> SUBSET DOMAIN object]
            /\ \A g \in Feed : leaked'[g] \subseteq subs'[g]
            BY <1>1 DEF TypeInv, ObjectTypes
      <2> QED BY <1>1, <2>1, <2>2, <2>3, <2>4, <2>5, SweptTypes DEF TypeInv
<1> QED BY <1>4, <1>5 DEF TypeInv

\* A row is written, or is not.
LEMMA UpdatedTypes == ASSUME TypeInv, NEW t \in Thing, Updated(t) PROVE TypeInv'
<1>1. ObjectTypes'
      BY ObjectsStay DEF Updated, TypeInv, objectVars, feedVars
<1>2. watcher' = watcher /\ found' \in [Watcher -> SUBSET Thing]
      BY DEF Updated, Tell, TypeInv, PlainTypes
<1>3. PlainTypes'
      BY <1>2 DEF Updated, TypeInv, PlainTypes, storeVars, feedVars, historyVars
<1> QED BY <1>1, <1>3 DEF TypeInv

\* Types are kept by each step.
LEMMA TypesKept == TypeInv /\ [Next]_vars => TypeInv'
<1> SUFFICES ASSUME TypeInv, [Next]_vars PROVE TypeInv'
    OBVIOUS
<1>1. CASE Read
      BY <1>1, ReadTypes
<1>2. CASE Loaded
      BY <1>2, LoadedTypes
<1>3. CASE Go
      BY <1>3, GoTypes
<1>4. ASSUME NEW t \in Thing,
             \/ t \in Present /\ DeviceAdded(t)
             \/ DeviceRemoved(t)
             \/ (\E to \in BOOLEAN : DeviceConnected(t, to)) \/ Post(t)
      PROVE  TypeInv'
      <2>1. FALSE \in BOOLEAN
            OBVIOUS
      <2> QED BY <1>4, <2>1, NewsTypes
<1>5. ASSUME NEW t \in Thing, Inserted(t) \/ Announced(t) \/ Updated(t) \/ Delete(t) \/ Deleted(t)
      PROVE  TypeInv'
      BY <1>5, InsertedTypes, AnnouncedTypes, UpdatedTypes, DeletedTypes, DeleteTypes
<1>6. ASSUME NEW f \in Feed, Open(f) \/ Close(f) PROVE TypeInv'
      BY <1>6, OpenTypes, CloseTypes
<1>7. ASSUME NEW w \in Watcher, Watch(w) \/ Leave(w) PROVE TypeInv'
      BY <1>7, WatchTypes, LeaveTypes
<1>8. CASE UNCHANGED vars
      <2>1. ObjectTypes'
            BY <1>8, ObjectsStay DEF TypeInv, vars, objectVars, requestVars, feedVars
      <2>2. PlainTypes'
            BY <1>8 DEF TypeInv, PlainTypes, vars, storeVars, requestVars, feedVars, watcherVars, historyVars
      <2> QED BY <2>1, <2>2 DEF TypeInv
<1> QED BY <1>1, <1>2, <1>3, <1>4, <1>5, <1>6, <1>7, <1>8 DEF Next

\* The rows that are written are those of things, and layoutSubs are websockets.
OtherTypes == updating \subseteq Thing /\ layoutSubs \subseteq Feed

\* Only news of a thing make its row be written, and only a websocket listens.
LEMMA OtherTypesKept == TypeInv /\ OtherTypes /\ [Next]_vars => OtherTypes'
<1> SUFFICES ASSUME TypeInv, OtherTypes, [Next]_vars PROVE OtherTypes'
    OBVIOUS
<1>1. CASE Go
      <2> DEFINE k == Head(now)
      <2>1. k \in Task
            BY <1>1 DEF Go, TypeInv, PlainTypes
      <2>2. TakeUp(k) \/ TakeState(k) \/ Create(k) \/ Follow(k) \/ Offer(k)
            BY <1>1 DEF Go
      <2> HIDE DEF k
      <2>3. CASE TakeUp(k)
            <3>1. k.thing \in Thing
                  BY <2>1, <2>3, TaskIs DEF TakeUp
            <3> QED BY <2>3, <3>1 DEF TakeUp, OtherTypes
      <2>4. CASE TakeState(k) \/ Create(k) \/ Follow(k) \/ Offer(k)
            BY <2>4 DEF TakeState, Create, Follow, Offer, OtherTypes, requestVars, feedVars
      <2> QED BY <2>2, <2>3, <2>4
<1>2. CASE Read \/ Loaded
      BY <1>2 DEF Read, Loaded, OtherTypes, requestVars, feedVars
<1>3. ASSUME NEW t \in Thing,
             \/ DeviceAdded(t) \/ DeviceRemoved(t) \/ (\E to \in BOOLEAN : DeviceConnected(t, to))
             \/ Post(t) \/ Inserted(t) \/ Announced(t) \/ Updated(t) \/ Delete(t) \/ Deleted(t)
      PROVE  OtherTypes'
      BY <1>3 DEF DeviceAdded, DeviceRemoved, DeviceConnected, Post, Inserted, Announced, Updated,
                  Delete, Deleted, OtherTypes, requestVars, feedVars
<1>4. ASSUME NEW f \in Feed, Open(f) \/ Close(f) PROVE OtherTypes'
      BY <1>4 DEF Open, Close, OtherTypes, requestVars
<1>5. ASSUME NEW w \in Watcher, Watch(w) \/ Leave(w) PROVE OtherTypes'
      BY <1>5 DEF Watch, Leave, OtherTypes, requestVars, feedVars
<1>6. CASE UNCHANGED vars
      BY <1>6 DEF vars, OtherTypes, requestVars, feedVars
<1> QED BY <1>1, <1>2, <1>3, <1>4, <1>5, <1>6 DEF Next

\* The types of the variables (Things, Thing, AddonManager).
THEOREM FeedTypes == Spec => []TypeOK
<1>1. TypeInv /\ OtherTypes => TypeOK
      <2> SUFFICES ASSUME TypeInv, OtherTypes PROVE TypeOK
          OBVIOUS
      <2>1. \A o \in DOMAIN object : object[o] \in [id : Thing, connected : BOOLEAN]
            BY DEF TypeInv, ObjectTypes
      <2>2. (\A i \in DOMAIN waiting : waiting[i] \in Task) /\ (\A i \in DOMAIN now : now[i] \in Task)
            BY DEF TypeInv, PlainTypes
      <2>3. {missed, forgotten, spoiled} \subseteq SUBSET Thing /\ early \subseteq Feed
            BY DEF TypeInv, PlainTypes
      <2> QED BY <2>1, <2>2, <2>3 DEF TypeOK, TypeInv, PlainTypes, ObjectTypes, OtherTypes, Stages, States
<1>2. Init => OtherTypes
      BY DEF Init, OtherTypes
<1>3. Spec => [](TypeInv /\ OtherTypes)
      BY <1>2, TypesStart, TypesKept, OtherTypesKept, PTL DEF Spec
<1> QED BY <1>1, <1>3, PTL

-----------------------------------------------------------------------------
(* Queues of calls.                                                        *)

\* A call that is queued is the last.
LEMMA QueueGrows ==
  ASSUME NEW s \in Seq(Task), NEW k \in Task, NEW q, q = Append(s, k)
  PROVE  /\ \A t \in Thing : Says(k, t) => LastWord(q, t, Word(k))
         /\ \A t \in Thing : ~Says(k, t) /\ Silent(s, t) => Silent(q, t)
         /\ \A t \in Thing, to \in BOOLEAN : ~Says(k, t) /\ LastWord(s, t, to) => LastWord(q, t, to)
         /\ \A m : In(m, q) <=> m = k \/ In(m, s)
         /\ \A f \in Feed : Once(s, f) /\ (k # OpenOf(f) \/ ~In(OpenOf(f), s)) => Once(q, f)
<1> DEFINE n == Len(s)
<1>1. /\ n \in Nat /\ DOMAIN s = 1 .. n /\ DOMAIN q = 1 .. n + 1
      /\ q[n + 1] = k /\ \A i \in 1 .. n : q[i] = s[i]
      OBVIOUS
<1> HIDE DEF n
<1>2. ASSUME NEW t \in Thing, Says(k, t) PROVE LastWord(q, t, Word(k))
      <2>1. n + 1 \in DOMAIN q /\ \A j \in DOMAIN q : ~(j > n + 1)
            BY <1>1
      <2>2. Says(q[n + 1], t) /\ Word(q[n + 1]) = Word(k)
            BY <1>1, <1>2
      <2> QED BY <2>1, <2>2 DEF LastWord
<1>3. ASSUME NEW t \in Thing, ~Says(k, t), Silent(s, t) PROVE Silent(q, t)
      <2> SUFFICES ASSUME NEW i \in DOMAIN q PROVE ~Says(q[i], t)
          BY DEF Silent
      <2>1. i = n + 1 \/ i \in DOMAIN s
            BY <1>1
      <2> QED BY <1>1, <1>3, <2>1 DEF Silent
<1>4. ASSUME NEW t \in Thing, NEW to \in BOOLEAN, ~Says(k, t), LastWord(s, t, to) PROVE LastWord(q, t, to)
      <2>1. PICK i \in DOMAIN s : /\ Says(s[i], t) /\ Word(s[i]) = to
                                  /\ \A j \in DOMAIN s : j > i => ~Says(s[j], t)
            BY <1>4 DEF LastWord
      <2>2. i \in DOMAIN q /\ Says(q[i], t) /\ Word(q[i]) = to
            BY <1>1, <2>1
      <2>3. ASSUME NEW j \in DOMAIN q, j > i PROVE ~Says(q[j], t)
            <3>1. j = n + 1 \/ j \in DOMAIN s
                  BY <1>1
            <3> QED BY <1>1, <1>4, <2>1, <2>3, <3>1
      <2> QED BY <2>2, <2>3 DEF LastWord
<1>5. ASSUME NEW m PROVE In(m, q) <=> m = k \/ In(m, s)
      <2>1. \A i : i \in DOMAIN q <=> i = n + 1 \/ i \in DOMAIN s
            BY <1>1
      <2> QED BY <1>1, <2>1 DEF In
<1>6. ASSUME NEW f \in Feed, Once(s, f), k # OpenOf(f) \/ ~In(OpenOf(f), s) PROVE Once(q, f)
      <2> SUFFICES ASSUME NEW i \in DOMAIN q, NEW j \in DOMAIN q, q[i] = OpenOf(f), q[j] = OpenOf(f)
                   PROVE  i = j
          BY DEF Once
      <2>1. (i = n + 1 \/ i \in DOMAIN s) /\ (j = n + 1 \/ j \in DOMAIN s)
            BY <1>1
      <2>2. CASE i \in DOMAIN s /\ j \in DOMAIN s
            BY <1>1, <1>6, <2>2 DEF Once
      <2>3. CASE i = n + 1 /\ j \in DOMAIN s
            BY <1>1, <1>6, <2>3 DEF In
      <2>4. CASE j = n + 1 /\ i \in DOMAIN s
            BY <1>1, <1>6, <2>4 DEF In
      <2> QED BY <2>1, <2>2, <2>3, <2>4
<1> QED BY <1>2, <1>3, <1>4, <1>5, <1>6

\* The first of a queue goes on.
LEMMA QueueShrinks ==
  ASSUME NEW s \in Seq(Task), s # << >>, NEW k, NEW q, k = Head(s), q = Tail(s)
  PROVE  /\ \A m : In(m, s) <=> m = k \/ In(m, q)
         /\ \A f \in Feed : Once(s, f) => Once(q, f) /\ (k = OpenOf(f) => ~In(OpenOf(f), q))
         /\ \A t \in Thing : \A to : LastWord(s, t, to) =>
               \/ Says(k, t) /\ Word(k) = to /\ Silent(q, t)
               \/ LastWord(q, t, to)
         /\ \A t \in Thing : Silent(s, t) => Silent(q, t) /\ ~Says(k, t)
<1> DEFINE n == Len(s)
<1>1. /\ n \in Nat \ {0} /\ DOMAIN s = 1 .. n /\ DOMAIN q = 1 .. n - 1
      /\ s[1] = k /\ \A i \in 1 .. n - 1 : q[i] = s[i + 1]
      OBVIOUS
<1> HIDE DEF n
<1>2. \A i \in DOMAIN s : i = 1 \/ (i - 1 \in DOMAIN q /\ q[i - 1] = s[i])
      BY <1>1
<1>3. \A i \in DOMAIN q : i + 1 \in DOMAIN s /\ q[i] = s[i + 1] /\ i + 1 > 1
      BY <1>1
<1>4. 1 \in DOMAIN s /\ DOMAIN s \subseteq Nat /\ DOMAIN q \subseteq Nat
      BY <1>1
<1>5. ASSUME NEW m PROVE In(m, s) <=> m = k \/ In(m, q)
      BY ZenonT(60), <1>1, <1>2, <1>3, <1>4 DEF In
<1>6. ASSUME NEW f \in Feed, Once(s, f) PROVE Once(q, f) /\ (k = OpenOf(f) => ~In(OpenOf(f), q))
      <2>1. Once(q, f)
            <3> SUFFICES ASSUME NEW i \in DOMAIN q, NEW j \in DOMAIN q, q[i] = OpenOf(f), q[j] = OpenOf(f)
                         PROVE  i = j
                BY DEF Once
            <3>1. i + 1 = j + 1
                  BY <1>3, <1>6 DEF Once
            <3> QED BY <1>4, <3>1
      <2>2. ASSUME k = OpenOf(f), NEW i \in DOMAIN q, q[i] = OpenOf(f) PROVE FALSE
            <3>1. i + 1 = 1
                  BY <1>1, <1>3, <1>4, <1>6, <2>2 DEF Once
            <3> QED BY <1>1, <3>1
      <2> QED BY <2>1, <2>2 DEF In
<1>7. ASSUME NEW t \in Thing, NEW to, LastWord(s, t, to)
      PROVE  \/ Says(k, t) /\ Word(k) = to /\ Silent(q, t)
             \/ LastWord(q, t, to)
      <2>1. PICK i \in DOMAIN s : /\ Says(s[i], t) /\ Word(s[i]) = to
                                  /\ \A j \in DOMAIN s : j > i => ~Says(s[j], t)
            BY <1>7 DEF LastWord
      <2>2. CASE i = 1
            <3>1. Says(k, t) /\ Word(k) = to
                  BY <1>1, <2>1, <2>2
            <3>2. \A j \in DOMAIN q : ~Says(q[j], t)
                  BY <1>3, <2>1, <2>2
            <3> QED BY <3>1, <3>2 DEF Silent
      <2>3. CASE i # 1
            <3>1. i - 1 \in DOMAIN q /\ q[i - 1] = s[i]
                  BY <1>2, <2>3
            <3>2. \A j \in DOMAIN q : j > i - 1 => j + 1 > i
                  BY <1>4
            <3>3. \A j \in DOMAIN q : j > i - 1 => ~Says(q[j], t)
                  BY <1>3, <2>1, <3>2
            <3> QED BY <2>1, <3>1, <3>3 DEF LastWord
      <2> QED BY <2>2, <2>3
<1>8. ASSUME NEW t \in Thing, Silent(s, t) PROVE Silent(q, t) /\ ~Says(k, t)
      <2>1. ~Says(k, t)
            BY <1>1, <1>4, <1>8 DEF Silent
      <2>2. \A j \in DOMAIN q : ~Says(q[j], t)
            BY <1>3, <1>8 DEF Silent
      <2> QED BY <2>1, <2>2 DEF Silent
<1> QED BY <1>5, <1>6, <1>7, <1>8

\* Nothing is said in an empty queue.
LEMMA QueueEmpty ==
  /\ \A t : Silent(<< >>, t)
  /\ \A t, to : ~LastWord(<< >>, t, to)
  /\ \A m : ~In(m, << >>)
  /\ \A f : Once(<< >>, f)
BY DEF Silent, LastWord, In, Once

\* What the news of a device say.
LEMMA NewsSays ==
  ASSUME NEW t \in Thing, NEW u \in Thing
  PROVE  /\ Says([kind |-> "added", thing |-> t], u) <=> u = t
         /\ Word([kind |-> "added", thing |-> t]) = TRUE
         /\ Says([kind |-> "removed", thing |-> t], u) <=> u = t
         /\ Word([kind |-> "removed", thing |-> t]) = FALSE
BY DEF Says, Word

\* What the news of its connection say.
LEMMA ConnectedSays ==
  ASSUME NEW t \in Thing, NEW u \in Thing, NEW to \in BOOLEAN, NEW k,
         k = [kind |-> "connected", thing |-> t, to |-> to]
  PROVE  (Says(k, u) <=> u = t) /\ Word(k) = to /\ (\A f : k # OpenOf(f)) /\ k.kind = "connected"
<1>1. k.kind = "connected" /\ k.thing = t
      OBVIOUS
<1>2. k.to = to
      OBVIOUS
<1>3. Says(k, u) <=> u = t
      BY <1>1 DEF Says
<1>4. Word(k) = k.to
      BY <1>1 DEF Word
<1>5. \A f : OpenOf(f).kind = "open"
      BY DEF OpenOf
<1>6. \A f : k # OpenOf(f)
      BY <1>1, <1>5
<1> QED BY <1>1, <1>2, <1>3, <1>4, <1>6

\* Only those who open a feed do.
LEMMA CallOpens ==
  /\ \A f, t : /\ [kind |-> "added", thing |-> t] # OpenOf(f)
               /\ [kind |-> "removed", thing |-> t] # OpenOf(f)
               /\ [kind |-> "post", thing |-> t] # OpenOf(f)
  /\ \A f, w : [kind |-> "watch", watcher |-> w] # OpenOf(f)
  /\ \A f, g : [kind |-> "open", feed |-> f] = OpenOf(g) <=> f = g
BY DEF OpenOf

\* Requests say nothing of a device.
LEMMA RequestSays ==
  \A t, u, f, w : /\ ~Says([kind |-> "post", thing |-> t], u)
                  /\ ~Says([kind |-> "open", feed |-> f], u)
                  /\ ~Says([kind |-> "watch", watcher |-> w], u)
BY DEF Says

-----------------------------------------------------------------------------
(* What holds as long as no mishap has happened.                           *)

\* Once the table was read and somebody makes use of it, the Map is the table.
MapIsTable ==
  /\ Mapped \subseteq rows
  /\ (\/ Mapped # {} \/ now # << >>
      \/ \E t \in Thing : making[t] # 0
      \/ \E f \in Feed : feed[f] = "open")
     => rows = Mapped
\* What was read is what the table holds, but for things that are in the Map.
ReadIsTable == load = "read" => rows \subseteq snapshot \union Mapped
\* An object is in the Map from its insertion on, and connected until then.
Creations ==
  \A t \in Thing : /\ t \in inserted => things[t] = making[t]
                   /\ making[t] # 0 /\ t \notin inserted
                        => things[t] # making[t] /\ object[making[t]].connected
\* A feed that is opened calls once, and listens to nothing when the call goes on.
Calls ==
  \A f \in Feed :
    /\ Once(now, f) /\ Once(waiting, f)
    /\ ~(In(OpenOf(f), now) /\ In(OpenOf(f), waiting))
    /\ In(OpenOf(f), now) => feed[f] = "opening" /\ subs[f] = {}
    /\ In(OpenOf(f), waiting) => feed[f] = "opening"
\* A feed listens to objects of the Map, to each by one listener, and when it is open to all.
Listeners ==
  \A f \in Feed :
    /\ leaked[f] = {}
    /\ \A o \in subs[f] : things[object[o].id] = o /\ object[o].id \notin inserted
    /\ feed[f] \in {"new", "closed"} => subs[f] = {}
    /\ feed[f] = "open" => \A t \in Mapped \ inserted : things[t] \in subs[f]
\* What a client shows.
Shown ==
  \A f \in Feed, t \in Thing :
    /\ feed[f] \in {"new", "opening"} /\ things[t] \notin subs[f] => shown[f][t] = "absent"
    /\ feed[f] = "open" /\ t \notin inserted =>
         shown[f][t] = IF things[t] = 0 THEN "absent" ELSE State(object[things[t]].connected)
\* The last of the news that are under way is what was heard last; if there is none, it was
\* taken up.
Heard ==
  /\ \A t \in Mapped : Silent(now, t) \/ LastWord(now, t, heard[t])
  /\ \A t \in Mapped \ missed : Silent(now, t) => object[things[t]].connected = heard[t]
  /\ \A t \in rows \ Mapped : \/ Silent(waiting, t) /\ heard[t] = FALSE
                              \/ LastWord(waiting, t, heard[t])
\* A stranger was offered, or is about to be.
Offered ==
  \A w \in Watcher : watcher[w] = "open" =>
    \A t \in device \ (Mapped \union forgotten) :
      \/ t \in found[w]
      \/ In([kind |-> "added", thing |-> t], now)
      \/ In([kind |-> "added", thing |-> t], waiting)

Holds == /\ MapIsTable /\ ReadIsTable /\ Creations /\ Calls
         /\ Listeners /\ Shown /\ Heard /\ Offered

\* The inductive invariant.
FeedInv == TypeInv /\ (Undisturbed => Holds)

\* Mishaps are remembered.
LEMMA MishapsStay == TypeInv /\ [Next]_vars /\ Undisturbed' => Undisturbed
<1> SUFFICES ASSUME TypeInv, [Next]_vars PROVE spoiled \subseteq spoiled' /\ early \subseteq early'
    BY DEF Undisturbed
<1>1. CASE Go
      BY <1>1 DEF Go, TakeUp, TakeState, Create, Follow, Offer
<1>2. CASE Read \/ Loaded
      BY <1>2 DEF Read, Loaded, historyVars
<1>3. ASSUME NEW t \in Thing,
             \/ DeviceAdded(t) \/ DeviceRemoved(t) \/ (\E to \in BOOLEAN : DeviceConnected(t, to))
             \/ Post(t) \/ Inserted(t) \/ Announced(t) \/ Updated(t) \/ Delete(t) \/ Deleted(t)
      PROVE  spoiled \subseteq spoiled' /\ early \subseteq early'
      BY <1>3 DEF DeviceAdded, DeviceRemoved, DeviceConnected, Post, Inserted, Announced, Updated, Delete,
                  Deleted, historyVars
<1>4. ASSUME NEW f \in Feed, Open(f) \/ Close(f) PROVE spoiled \subseteq spoiled' /\ early \subseteq early'
      BY <1>4 DEF Open, Close, historyVars
<1>5. ASSUME NEW w \in Watcher, Watch(w) \/ Leave(w) PROVE spoiled \subseteq spoiled' /\ early \subseteq early'
      BY <1>5 DEF Watch, Leave, historyVars
<1>6. CASE UNCHANGED vars
      BY <1>6 DEF vars, historyVars
<1> QED BY <1>1, <1>2, <1>3, <1>4, <1>5, <1>6 DEF Next

\* In the initial state.
LEMMA HoldsAtStart == Init => FeedInv
<1> SUFFICES ASSUME Init PROVE Holds
    BY TypesStart DEF FeedInv
<1>1. Mapped = {} /\ now = << >> /\ waiting = << >>
      BY DEF Init, Mapped
<1>2. MapIsTable /\ ReadIsTable /\ Creations /\ Offered
      BY <1>1 DEF Init, MapIsTable, ReadIsTable, Creations, Offered
<1>3. Calls
      BY <1>1, QueueEmpty DEF Calls
<1>4. Listeners
      BY <1>1 DEF Init, Listeners
<1>5. Shown
      BY DEF Init, Shown
<1>6. Heard
      BY <1>1, QueueEmpty DEF Init, Heard
<1> QED BY <1>2, <1>3, <1>4, <1>5, <1>6 DEF Holds

\* Somebody calls getThings.
LEMMA CallHolds ==
  ASSUME TypeInv, Holds, Quiet, NEW k \in Task, Call(k),
         UNCHANGED <<things, object, making, inserted, subs, leaked, shown, found, missed>>,
         \A f \in Feed : \/ k = OpenOf(f) /\ feed[f] = "new" /\ feed'[f] = "opening"
                         \/ k # OpenOf(f) /\ feed'[f] = feed[f],
         \A t \in Thing : \/ Says(k, t) /\ Word(k) = heard'[t] /\ heard'[t] \in BOOLEAN
                          \/ ~Says(k, t) /\ heard'[t] = heard[t],
         \A t \in device' \ forgotten' : t \in device \ forgotten \/ k = [kind |-> "added", thing |-> t],
         \A w \in Watcher : watcher'[w] = "open" => watcher[w] = "open"
  PROVE  Holds'
<1>1. /\ rows' = rows /\ snapshot' = snapshot /\ now = << >> /\ Mapped' = Mapped
      /\ Mapped # {} => now' = Append(now, k) /\ waiting' = waiting /\ load' = load
      /\ Mapped = {} => now' = now /\ waiting' = Append(waiting, k)
                        /\ load' = IF load = "none" THEN "reading" ELSE load
      BY CallQueues DEF TypeInv, Quiet, Mapped
<1>2. now \in Seq(Task) /\ waiting \in Seq(Task) /\ rows \subseteq Thing /\ heard \in [Thing -> BOOLEAN]
      BY DEF TypeInv, PlainTypes
<1>3. MapIsTable'
      BY <1>1 DEF Holds, MapIsTable
<1>4. ReadIsTable'
      BY <1>1 DEF Holds, ReadIsTable
<1>5. Creations'
      BY DEF Holds, Creations
<1>6. Calls'
      <2> SUFFICES ASSUME NEW f \in Feed
                   PROVE  /\ Once(now', f) /\ Once(waiting', f)
                          /\ ~(In(OpenOf(f), now') /\ In(OpenOf(f), waiting'))
                          /\ In(OpenOf(f), now') => feed'[f] = "opening" /\ subs'[f] = {}
                          /\ In(OpenOf(f), waiting') => feed'[f] = "opening"
          BY DEF Calls
      <2>1. /\ Once(now, f) /\ Once(waiting, f)
            /\ ~(In(OpenOf(f), now) /\ In(OpenOf(f), waiting))
            /\ In(OpenOf(f), now) => feed[f] = "opening" /\ subs[f] = {}
            /\ In(OpenOf(f), waiting) => feed[f] = "opening"
            BY DEF Holds, Calls
      <2>2. feed[f] = "new" => subs[f] = {}
            BY DEF Holds, Listeners
      <2>3. k = OpenOf(f) => ~In(OpenOf(f), now) /\ ~In(OpenOf(f), waiting)
            BY <2>1
      <2>4. CASE Mapped # {}
            <3>1. /\ Once(now', f) /\ (In(OpenOf(f), now') <=> OpenOf(f) = k \/ In(OpenOf(f), now))
                  BY <1>1, <1>2, <2>1, <2>3, <2>4, QueueGrows
            <3> QED BY <1>1, <2>1, <2>2, <2>3, <2>4, <3>1
      <2>5. CASE Mapped = {}
            <3>1. /\ Once(waiting', f) /\ (In(OpenOf(f), waiting') <=> OpenOf(f) = k \/ In(OpenOf(f), waiting))
                  BY <1>1, <1>2, <2>1, <2>3, <2>5, QueueGrows
            <3> QED BY <1>1, <2>1, <2>2, <2>3, <2>5, <3>1
      <2> QED BY <2>4, <2>5
<1>7. Listeners'
      BY <1>1 DEF Holds, Listeners
<1>8. Shown'
      BY DEF Holds, Shown
<1>9. Heard'
      <2>1. CASE Mapped # {}
            <3>1. rows = Mapped
                  BY <2>1 DEF Holds, MapIsTable
            <3>2. ASSUME NEW t \in Mapped
                  PROVE  /\ Silent(now', t) \/ LastWord(now', t, heard'[t])
                         /\ t \notin missed /\ Silent(now', t) => object[things[t]].connected = heard'[t]
                  <4>1. t \in Thing /\ Silent(now, t)
                        BY <1>1, QueueEmpty DEF Mapped
                  <4>2. CASE Says(k, t)
                        <5>1. LastWord(now', t, heard'[t])
                              <6>1. LastWord(now', t, Word(k))
                                    BY <1>1, <1>2, <2>1, <4>1, <4>2, QueueGrows
                              <6>2. Word(k) = heard'[t]
                                    BY <4>1, <4>2
                              <6> QED BY <6>1, <6>2
                        <5>2. ~Silent(now', t)
                              BY <5>1 DEF LastWord, Silent
                        <5> QED BY <5>1, <5>2
                  <4>3. CASE ~Says(k, t)
                        <5>1. Silent(now', t)
                              BY <1>1, <1>2, <2>1, <4>1, <4>3, QueueGrows
                        <5>2. t \notin missed => object[things[t]].connected = heard[t]
                              BY <4>1 DEF Holds, Heard
                        <5> QED BY <4>1, <4>3, <5>1, <5>2
                  <4> QED BY <4>2, <4>3
            <3> QED BY <1>1, <3>1, <3>2 DEF Heard
      <2>2. CASE Mapped = {}
            <3>1. ASSUME NEW t \in rows
                  PROVE  \/ Silent(waiting', t) /\ heard'[t] = FALSE
                         \/ LastWord(waiting', t, heard'[t])
                  <4>1. /\ t \in Thing
                        /\ (Silent(waiting, t) /\ heard[t] = FALSE) \/ LastWord(waiting, t, heard[t])
                        BY <1>2, <2>2 DEF Holds, Heard
                  <4>2. CASE Says(k, t)
                        BY <1>1, <1>2, <2>2, <4>1, <4>2, QueueGrows
                  <4>3. CASE ~Says(k, t)
                        BY <1>1, <1>2, <2>2, <4>1, <4>3, QueueGrows
                  <4> QED BY <4>2, <4>3
            <3> QED BY <1>1, <2>2, <3>1 DEF Heard
      <2> QED BY <2>1, <2>2
<1>10. Offered'
      <2> SUFFICES ASSUME NEW w \in Watcher, watcher'[w] = "open",
                          NEW t \in device', t \notin Mapped, t \notin forgotten'
                   PROVE  \/ t \in found[w]
                          \/ In([kind |-> "added", thing |-> t], now')
                          \/ In([kind |-> "added", thing |-> t], waiting')
          BY <1>1 DEF Offered
      <2>1. \/ t \in found[w]
            \/ In([kind |-> "added", thing |-> t], now)
            \/ In([kind |-> "added", thing |-> t], waiting)
            \/ [kind |-> "added", thing |-> t] = k
            BY DEF Holds, Offered
      <2>2. CASE Mapped # {}
            <3>1. \A m : In(m, now') <=> m = k \/ In(m, now)
                  BY <1>1, <1>2, <2>2, QueueGrows
            <3> QED BY <1>1, <2>1, <2>2, <3>1
      <2>3. CASE Mapped = {}
            <3>1. \A m : In(m, waiting') <=> m = k \/ In(m, waiting)
                  BY <1>1, <1>2, <2>3, QueueGrows
            <3> QED BY <1>1, <2>1, <2>3, <3>1
      <2> QED BY <2>2, <2>3
<1> QED BY <1>3, <1>4, <1>5, <1>6, <1>7, <1>8, <1>9, <1>10 DEF Holds

-----------------------------------------------------------------------------
(* Those who call getThings.                                               *)

\* A device is there.
LEMMA AddedHolds == ASSUME TypeInv, Holds, NEW t \in Thing, DeviceAdded(t) PROVE Holds'
<1> DEFINE k == [kind |-> "added", thing |-> t]
<1>1. k \in Task
      BY TaskMade
<1>2. \A u \in Thing : (Says(k, u) <=> u = t) /\ Word(k) = TRUE
      BY NewsSays
<1>3. \A f \in Feed : k # OpenOf(f)
      BY CallOpens
<1>4. Call(k)
      BY DEF DeviceAdded
<1>5. k = [kind |-> "added", thing |-> t]
      OBVIOUS
<1> HIDE DEF k
<1>6. /\ UNCHANGED <<things, object, making, inserted, subs, leaked, shown, found, missed, feed, watcher>>
      /\ Quiet
      BY DEF DeviceAdded, objectVars, requestVars, feedVars, watcherVars
<1>7. \A u \in Thing : \/ Says(k, u) /\ Word(k) = heard'[u] /\ heard'[u] \in BOOLEAN
                       \/ ~Says(k, u) /\ heard'[u] = heard[u]
      BY <1>2 DEF DeviceAdded, TypeInv, PlainTypes
<1>8. \A u \in device' \ forgotten' : u \in device \ forgotten \/ k = [kind |-> "added", thing |-> u]
      BY <1>5 DEF DeviceAdded
<1> QED BY <1>1, <1>3, <1>4, <1>6, <1>7, <1>8, CallHolds

\* A device is gone.
LEMMA RemovedHolds == ASSUME TypeInv, Holds, NEW t \in Thing, DeviceRemoved(t) PROVE Holds'
<1> DEFINE k == [kind |-> "removed", thing |-> t]
<1>1. k \in Task
      BY TaskMade
<1>2. \A u \in Thing : (Says(k, u) <=> u = t) /\ Word(k) = FALSE
      BY NewsSays
<1>3. \A f \in Feed : k # OpenOf(f)
      BY CallOpens
<1>4. Call(k)
      BY DEF DeviceRemoved
<1> HIDE DEF k
<1>6. /\ UNCHANGED <<things, object, making, inserted, subs, leaked, shown, found, missed, feed, watcher>>
      /\ Quiet
      BY DEF DeviceRemoved, objectVars, requestVars, feedVars, watcherVars
<1>7. \A u \in Thing : \/ Says(k, u) /\ Word(k) = heard'[u] /\ heard'[u] \in BOOLEAN
                       \/ ~Says(k, u) /\ heard'[u] = heard[u]
      BY <1>2 DEF DeviceRemoved, TypeInv, PlainTypes
<1>8. \A u \in device' \ forgotten' : u \in device \ forgotten
      BY DEF DeviceRemoved
<1> QED BY <1>1, <1>3, <1>4, <1>6, <1>7, <1>8, CallHolds

\* A device is connected, or not.
LEMMA ToldHolds ==
  ASSUME TypeInv, Holds, NEW t \in Thing, NEW to \in BOOLEAN, DeviceConnected(t, to) PROVE Holds'
<1> DEFINE k == [kind |-> "connected", thing |-> t, to |-> to]
<1>1. k \in Task
      BY TaskMade
<1>2. \A u \in Thing : (Says(k, u) <=> u = t) /\ Word(k) = to
      BY ConnectedSays
<1>3. \A f \in Feed : k # OpenOf(f)
      BY ConnectedSays
<1>4. Call(k)
      BY DEF DeviceConnected
<1> HIDE DEF k
<1>6. /\ UNCHANGED <<things, object, making, inserted, subs, leaked, shown, found, missed, feed, watcher>>
      /\ UNCHANGED <<device, forgotten>>
      /\ Quiet
      BY DEF DeviceConnected, objectVars, requestVars, feedVars, watcherVars
<1>7. \A u \in Thing : \/ Says(k, u) /\ Word(k) = heard'[u] /\ heard'[u] \in BOOLEAN
                       \/ ~Says(k, u) /\ heard'[u] = heard[u]
      BY <1>2 DEF DeviceConnected, TypeInv, PlainTypes
<1> QED BY <1>1, <1>3, <1>4, <1>6, <1>7, CallHolds

\* Somebody asks for a thing to be made.
LEMMA PostHolds == ASSUME TypeInv, Holds, NEW t \in Thing, Post(t) PROVE Holds'
<1> DEFINE k == [kind |-> "post", thing |-> t]
<1>1. k \in Task
      BY TaskMade
<1>2. \A u \in Thing : ~Says(k, u)
      BY RequestSays
<1>3. \A f \in Feed : k # OpenOf(f)
      BY CallOpens
<1>4. Call(k)
      BY DEF Post
<1> HIDE DEF k
<1>6. /\ UNCHANGED <<things, object, making, inserted, subs, leaked, shown, found, missed, feed, watcher>>
      /\ UNCHANGED <<device, forgotten, heard>>
      /\ Quiet
      BY DEF Post, objectVars, requestVars, feedVars, watcherVars, historyVars
<1> QED BY <1>1, <1>2, <1>3, <1>4, <1>6, CallHolds

\* A feed comes.
LEMMA OpenHolds == ASSUME TypeInv, Holds, NEW f \in Feed, Open(f) PROVE Holds'
<1> DEFINE k == [kind |-> "open", feed |-> f]
<1>1. k \in Task
      BY TaskMade
<1>2. \A u \in Thing : ~Says(k, u)
      BY RequestSays
<1>3. \A g \in Feed : k = OpenOf(g) <=> f = g
      BY CallOpens
<1>4. Call(k)
      BY DEF Open
<1> HIDE DEF k
<1>6. /\ UNCHANGED <<things, object, making, inserted, subs, leaked, shown, found, missed, watcher>>
      /\ UNCHANGED <<device, forgotten, heard>>
      /\ Quiet
      BY DEF Open, objectVars, requestVars, feedVars, watcherVars, historyVars
<1>7. feed[f] = "new" /\ \A g \in Feed : feed'[g] = IF g = f THEN "opening" ELSE feed[g]
      BY DEF Open, TypeInv, PlainTypes
<1> QED BY <1>1, <1>2, <1>3, <1>4, <1>6, <1>7, CallHolds

\* A watcher comes.
LEMMA WatchHolds == ASSUME TypeInv, Holds, NEW w \in Watcher, Watch(w) PROVE Holds'
<1> DEFINE k == [kind |-> "watch", watcher |-> w]
<1>1. k \in Task
      BY TaskMade
<1>2. \A u \in Thing : ~Says(k, u)
      BY RequestSays
<1>3. \A g \in Feed : k # OpenOf(g)
      BY CallOpens
<1>4. Call(k)
      BY DEF Watch
<1> HIDE DEF k
<1>6. /\ UNCHANGED <<things, object, making, inserted, subs, leaked, shown, found, missed, feed>>
      /\ UNCHANGED <<device, forgotten, heard>>
      /\ Quiet
      BY DEF Watch, objectVars, requestVars, feedVars, historyVars
<1>7. \A v \in Watcher : watcher'[v] = "open" => watcher[v] = "open"
      BY DEF Watch, TypeInv, PlainTypes
<1> QED BY <1>1, <1>2, <1>3, <1>4, <1>6, <1>7, CallHolds

-----------------------------------------------------------------------------
(* The steps of the database that make no difference, and the load.        *)

\* What the invariant is about has not changed.
LEMMA HoldsStays ==
  ASSUME Holds, UNCHANGED <<rows, things, object, load, snapshot, waiting, now, device, making, inserted,
                            feed, subs, leaked, shown, watcher, found, heard, missed, forgotten>>
  PROVE  Holds'
<1>1. Mapped' = Mapped
      BY DEF Mapped
<1>2. MapIsTable' /\ ReadIsTable' /\ Creations' /\ Offered'
      BY <1>1 DEF Holds, MapIsTable, ReadIsTable, Creations, Offered
<1>3. Calls'
      BY DEF Holds, Calls
<1>4. Listeners' /\ Shown'
      BY <1>1 DEF Holds, Listeners, Shown
<1>5. Heard'
      BY <1>1 DEF Holds, Heard
<1> QED BY <1>2, <1>3, <1>4, <1>5 DEF Holds

\* The table is read.
LEMMA ReadHolds == ASSUME TypeInv, Holds, Read PROVE Holds'
<1>0. UNCHANGED <<rows, things, object, waiting, now, device, making, inserted,
                  feed, subs, leaked, shown, watcher, found, heard, missed, forgotten>>
      /\ snapshot' = rows
      BY DEF Read, objectVars, requestVars, feedVars, watcherVars, historyVars
<1>1. Mapped' = Mapped
      BY <1>0 DEF Mapped
<1>2. MapIsTable' /\ ReadIsTable' /\ Creations' /\ Offered'
      BY <1>0, <1>1 DEF Holds, MapIsTable, ReadIsTable, Creations, Offered
<1>3. Calls'
      BY <1>0 DEF Holds, Calls
<1>4. Listeners' /\ Shown'
      BY <1>0, <1>1 DEF Holds, Listeners, Shown
<1>5. Heard'
      BY <1>0, <1>1 DEF Holds, Heard
<1> QED BY <1>2, <1>3, <1>4, <1>5 DEF Holds

\* Somebody asks for a thing to be removed.
LEMMA DeleteHolds == ASSUME Holds, NEW t \in Thing, Delete(t) PROVE Holds'
BY HoldsStays DEF Delete, storeVars, objectVars, feedVars, watcherVars, historyVars

\* A row is written, or is not: those who watch are offered no less than before.
LEMMA UpdatedHolds == ASSUME TypeInv, Holds, NEW t \in Thing, Updated(t) PROVE Holds'
<1>0. UNCHANGED <<rows, things, object, load, snapshot, waiting, now, device, making, inserted,
                  feed, subs, leaked, shown, watcher, heard, missed, forgotten>>
      BY DEF Updated, storeVars, objectVars, feedVars, historyVars
<1>1. Mapped' = Mapped
      BY <1>0 DEF Mapped
<1>2. MapIsTable' /\ ReadIsTable' /\ Creations'
      BY <1>0, <1>1 DEF Holds, MapIsTable, ReadIsTable, Creations
<1>3. \A w \in Watcher : found[w] \subseteq found'[w]
      BY DEF Updated, Tell
<1>4. Offered'
      BY <1>0, <1>1, <1>3 DEF Holds, Offered
<1>5. Calls'
      BY <1>0 DEF Holds, Calls
<1>6. Listeners' /\ Shown'
      BY <1>0, <1>1 DEF Holds, Listeners, Shown
<1>7. Heard'
      BY <1>0, <1>1 DEF Holds, Heard
<1> QED BY <1>2, <1>4, <1>5, <1>6, <1>7 DEF Holds

\* A watcher leaves.
LEMMA LeaveHolds == ASSUME TypeInv, Holds, NEW w \in Watcher, Leave(w) PROVE Holds'
<1>0. UNCHANGED <<rows, things, object, load, snapshot, waiting, now, device, making, inserted,
                  feed, subs, leaked, shown, heard, missed, forgotten>>
      BY DEF Leave, storeVars, objectVars, requestVars, feedVars, historyVars
<1>1. Mapped' = Mapped
      BY <1>0 DEF Mapped
<1>2. MapIsTable' /\ ReadIsTable' /\ Creations'
      BY <1>0, <1>1 DEF Holds, MapIsTable, ReadIsTable, Creations
<1>3. \A v \in Watcher : watcher'[v] = "open" => watcher[v] = "open" /\ found'[v] = found[v]
      BY DEF Leave, TypeInv, PlainTypes
<1>4. Offered'
      BY <1>0, <1>1, <1>3 DEF Holds, Offered
<1>5. Calls'
      BY <1>0 DEF Holds, Calls
<1>6. Listeners' /\ Shown'
      BY <1>0, <1>1 DEF Holds, Listeners, Shown
<1>7. Heard'
      BY <1>0, <1>1 DEF Holds, Heard
<1> QED BY <1>2, <1>4, <1>5, <1>6, <1>7 DEF Holds

\* A load that disturbs nobody is the load of a Map that was empty.
LEMMA LoadedHolds == ASSUME TypeInv, Holds, Loaded, Undisturbed' PROVE Holds'
<1>1. /\ now = << >> /\ load = "read" /\ load' = "none" /\ now' = waiting /\ waiting' = << >>
      /\ UNCHANGED <<rows, device, making, inserted, feed, subs, leaked, shown, watcher, found, heard,
                     missed, forgotten>>
      BY DEF Loaded, Quiet, requestVars, feedVars, watcherVars
<1>2. Mapped = {} /\ snapshot \subseteq rows /\ \A t \in Thing : making[t] = 0
      <2>1. spoiled \union Mapped \union {t \in Thing : making[t] # 0} \union (snapshot \ rows) = {}
            BY DEF Loaded, Undisturbed
      <2> QED BY <2>1
<1>3. snapshot = rows /\ inserted = {} /\ snapshot \subseteq Thing
      BY <1>1, <1>2 DEF Holds, ReadIsTable, TypeInv, PlainTypes, ObjectTypes
<1>4. \A t \in Thing : things[t] = 0
      BY <1>2 DEF Mapped
<1>5. \A f \in Feed : subs[f] = {} /\ leaked[f] = {}
      BY <1>4 DEF Holds, Listeners, TypeInv, ObjectTypes
<1>6. (\E f \in Feed : feed[f] = "open") => snapshot = {}
      BY <1>2, <1>3 DEF Holds, MapIsTable
<1>7. /\ \A t \in Thing : t \notin snapshot => things'[t] = 0
      /\ \A t \in snapshot : things'[t] # 0 /\ object'[things'[t]].connected = FALSE
      BY LoadedObjects
<1>8. Mapped' = rows /\ Mapped' = snapshot
      BY <1>3, <1>7 DEF Mapped
<1>9. MapIsTable' /\ ReadIsTable' /\ Creations'
      BY <1>1, <1>2, <1>3, <1>8 DEF MapIsTable, ReadIsTable, Creations
<1>10. Calls'
       <2>1. \A f \in Feed : Once(now', f) /\ Once(waiting', f) /\ ~In(OpenOf(f), waiting')
             BY <1>1, QueueEmpty DEF Holds, Calls
       <2>2. \A f \in Feed : In(OpenOf(f), now') => feed'[f] = "opening" /\ subs'[f] = {}
             BY <1>1, <1>5 DEF Holds, Calls
       <2> QED BY <2>1, <2>2 DEF Calls
<1>11. Listeners'
       BY <1>1, <1>5, <1>6, <1>8 DEF Listeners
<1>12. Shown'
       <2> SUFFICES ASSUME NEW f \in Feed, NEW t \in Thing
                    PROVE  /\ feed[f] \in {"new", "opening"} /\ things'[t] \notin subs[f] => shown[f][t] = "absent"
                           /\ feed[f] = "open" /\ t \notin inserted =>
                                shown[f][t] = IF things'[t] = 0 THEN "absent"
                                              ELSE State(object'[things'[t]].connected)
           BY <1>1 DEF Shown
       <2>1. feed[f] \in {"new", "opening", "open"} => shown[f][t] = "absent"
             BY <1>3, <1>4, <1>5 DEF Holds, Shown
       <2>2. feed[f] = "open" => things'[t] = 0
             BY <1>6, <1>7
       <2> QED BY <2>1, <2>2
<1>13. Heard'
       <2>1. ASSUME NEW t \in rows
             PROVE  /\ Silent(now', t) \/ LastWord(now', t, heard[t])
                    /\ Silent(now', t) => object'[things'[t]].connected = heard[t]
             <3>1. \/ Silent(now', t) /\ heard[t] = FALSE
                   \/ LastWord(now', t, heard[t])
                   BY <1>1, <1>2, <2>1 DEF Holds, Heard
             <3>2. LastWord(now', t, heard[t]) => ~Silent(now', t)
                   BY DEF LastWord, Silent
             <3> QED BY <1>3, <1>7, <3>1, <3>2
       <2> QED BY <1>1, <1>8, <2>1 DEF Heard
<1>14. Offered'
       <2>1. \A m : ~In(m, now)
             BY <1>1, QueueEmpty
       <2> QED BY <1>1, <1>2, <1>8, <2>1 DEF Holds, Offered
<1> QED BY <1>9, <1>10, <1>11, <1>12, <1>13, <1>14 DEF Holds

-----------------------------------------------------------------------------
(* Those who go on.                                                        *)

\* The next of those who go on does.
Goes(k) ==
  /\ now # << >> /\ k = Head(now) /\ now' = Tail(now)
  /\ UNCHANGED <<rows, load, snapshot, waiting, device, heard, things, inserted, forgotten>>

\* What is known then of the calls and of the news.
LEMMA GoFacts ==
  ASSUME TypeInv, Holds, NEW k, Goes(k)
  PROVE  /\ k \in Task /\ rows = Mapped /\ Mapped' = Mapped
         /\ \A m : In(m, now) <=> m = k \/ In(m, now')
         /\ \A f \in Feed : Once(now', f) /\ (k = OpenOf(f) => ~In(OpenOf(f), now'))
         /\ \A t \in Mapped : Silent(now', t) \/ LastWord(now', t, heard[t])
         /\ \A t \in Mapped : Silent(now', t) => \/ Says(k, t) /\ Word(k) = heard[t]
                                                 \/ ~Says(k, t) /\ Silent(now, t)
<1>1. now \in Seq(Task) /\ now # << >> /\ k = Head(now) /\ now' = Tail(now)
      BY DEF Goes, TypeInv, PlainTypes
<1>2. k \in Task
      BY <1>1
<1>3. rows = Mapped /\ Mapped' = Mapped
      BY <1>1 DEF Holds, MapIsTable, Mapped, Goes
<1>4. \A m : In(m, now) <=> m = k \/ In(m, now')
      BY <1>1, QueueShrinks
<1>5. \A f \in Feed : Once(now', f) /\ (k = OpenOf(f) => ~In(OpenOf(f), now'))
      BY <1>1, QueueShrinks DEF Holds, Calls
<1>6. ASSUME NEW t \in Mapped
      PROVE  /\ Silent(now', t) \/ LastWord(now', t, heard[t])
             /\ Silent(now', t) => \/ Says(k, t) /\ Word(k) = heard[t]
                                   \/ ~Says(k, t) /\ Silent(now, t)
      <2>1. t \in Thing /\ heard[t] \in BOOLEAN
            BY DEF Mapped, TypeInv, PlainTypes
      <2>2. Silent(now, t) \/ LastWord(now, t, heard[t])
            BY DEF Holds, Heard
      <2>3. LastWord(now', t, heard[t]) => ~Silent(now', t)
            BY DEF LastWord, Silent
      <2>4. CASE Silent(now, t)
            BY <1>1, <2>1, <2>4, QueueShrinks
      <2>5. CASE LastWord(now, t, heard[t])
            BY <1>1, <2>1, <2>3, <2>5, QueueShrinks
      <2> QED BY <2>2, <2>4, <2>5
<1> QED BY <1>2, <1>3, <1>4, <1>5, <1>6

\* What goes on makes no difference to the Map, the table and, unless it opens a feed, to the calls.
LEMMA GoCalls ==
  ASSUME TypeInv, Holds, NEW k, Goes(k),
         \A f \in Feed : k # OpenOf(f) => feed'[f] = feed[f] /\ subs'[f] = subs[f]
  PROVE  MapIsTable' /\ ReadIsTable' /\ Calls'
<1>1. MapIsTable' /\ ReadIsTable'
      BY GoFacts DEF MapIsTable, ReadIsTable, Goes
<1>2. ASSUME NEW f \in Feed
      PROVE  /\ Once(now', f) /\ Once(waiting', f)
             /\ ~(In(OpenOf(f), now') /\ In(OpenOf(f), waiting'))
             /\ In(OpenOf(f), now') => feed'[f] = "opening" /\ subs'[f] = {}
             /\ In(OpenOf(f), waiting') => feed'[f] = "opening"
      <2>1. Once(now', f) /\ (In(OpenOf(f), now) <=> OpenOf(f) = k \/ In(OpenOf(f), now'))
            /\ (k = OpenOf(f) => ~In(OpenOf(f), now'))
            BY GoFacts
      <2>2. waiting' = waiting
            BY DEF Goes
      <2> QED BY <2>1, <2>2 DEF Holds, Calls
<1> QED BY <1>1, <1>2 DEF Calls

\* A thing takes up what was heard of its device, or there is no such thing.
LEMMA TakenHolds ==
  ASSUME TypeInv, Holds, NEW k, Goes(k), NEW t \in Thing, NEW to \in BOOLEAN,
         Says(k, t), Word(k) = to, \A f \in Feed : k # OpenOf(f),
         UNCHANGED <<making, feed, subs, leaked, watcher>>,
         \/ things[t] # 0 /\ SetConnected(things[t], to) /\ missed' = missed \ {t}
         \/ things[t] = 0 /\ UNCHANGED <<object, shown, missed>>,
         \A w \in Watcher : found[w] \subseteq found'[w],
         \A w \in Watcher, u \in Thing :
            k = [kind |-> "added", thing |-> u] /\ watcher[w] = "open" /\ things[u] = 0 => u \in found'[w]
  PROVE  Holds'
<1>1. MapIsTable' /\ ReadIsTable' /\ Calls'
      BY GoCalls
<1>2. UNCHANGED <<rows, waiting, device, heard, things, inserted, forgotten>> /\ Mapped' = Mapped
      BY GoFacts DEF Goes
<1>3. \A u \in Thing : things[u] # 0 => things[u] \in DOMAIN object /\ object[things[u]].id = u
      BY DEF TypeInv, ObjectTypes
<1>4. \A u \in Thing : making[u] # 0 => making[u] \in DOMAIN object /\ object[making[u]].id = u
      BY DEF TypeInv, ObjectTypes
<1>5. /\ \A p \in DOMAIN object : object'[p].id = object[p].id
      /\ \A p \in DOMAIN object : p # things[t] => object'[p].connected = object[p].connected
      /\ things[t] # 0 => object'[things[t]].connected = to
      <2>1. CASE things[t] = 0
            BY <2>1
      <2>2. CASE things[t] # 0
            BY <1>3, <2>2, ConnectedKeeps DEF TypeInv
      <2> QED BY <2>1, <2>2
<1>6. \A u \in Thing : u # t /\ things[u] # 0 => object'[things[u]].connected = object[things[u]].connected
      BY <1>3, <1>5
<1>7. Creations'
      <2> SUFFICES ASSUME NEW u \in Thing
                   PROVE  /\ u \in inserted => things[u] = making[u]
                          /\ making[u] # 0 /\ u \notin inserted
                               => things[u] # making[u] /\ object'[making[u]].connected
          BY <1>2 DEF Creations
      <2>1. /\ u \in inserted => things[u] = making[u]
            /\ making[u] # 0 /\ u \notin inserted
                 => things[u] # making[u] /\ object[making[u]].connected
            BY DEF Holds, Creations
      <2>2. making[u] # 0 /\ making[u] = things[t] => u = t
            BY <1>3, <1>4
      <2> QED BY <1>4, <1>5, <2>1, <2>2
<1>8. Listeners'
      <2>1. \A f \in Feed : subs[f] \subseteq DOMAIN object
            BY DEF TypeInv, ObjectTypes
      <2> QED BY <1>2, <1>5, <2>1 DEF Holds, Listeners
<1>9. \A f \in Feed, u \in Thing :
         shown'[f][u] = IF things[t] # 0 /\ u = t /\ things[t] \in subs[f] /\ feed[f] # "closed"
                        THEN State(to) ELSE shown[f][u]
      <2>1. CASE things[t] = 0
            BY <2>1
      <2>2. CASE things[t] # 0
            <3>1. object[things[t]].id = t
                  BY <1>3, <2>2
            <3>2. shown' = [f \in Feed |-> IF f \in Listening(things[t])
                               THEN [shown[f] EXCEPT ![t] = State(to)] ELSE shown[f]]
                  BY <2>2, <3>1 DEF SetConnected
            <3>3. \A f \in Feed : f \in Listening(things[t]) <=> things[t] \in subs[f] /\ feed[f] # "closed"
                  BY DEF Listening
            <3>4. shown \in [Feed -> [Thing -> States]]
                  BY DEF TypeInv, PlainTypes
            <3> HIDE DEF Listening
            <3> QED BY <2>2, <3>2, <3>3, <3>4
      <2> QED BY <2>1, <2>2
<1>10. Shown'
       <2> SUFFICES ASSUME NEW f \in Feed, NEW u \in Thing
                    PROVE  /\ feed[f] \in {"new", "opening"} /\ things[u] \notin subs[f] => shown'[f][u] = "absent"
                           /\ feed[f] = "open" /\ u \notin inserted =>
                                shown'[f][u] = IF things[u] = 0 THEN "absent"
                                               ELSE State(object'[things[u]].connected)
           BY <1>2 DEF Shown
       <2>1. /\ feed[f] \in {"new", "opening"} /\ things[u] \notin subs[f] => shown[f][u] = "absent"
             /\ feed[f] = "open" /\ u \notin inserted =>
                  shown[f][u] = IF things[u] = 0 THEN "absent" ELSE State(object[things[u]].connected)
             BY DEF Holds, Shown
       <2>2. feed[f] = "open" /\ t \notin inserted /\ things[t] # 0 => things[t] \in subs[f]
             BY DEF Holds, Listeners, Mapped
       <2> QED BY <1>5, <1>6, <1>9, <2>1, <2>2
<1>11. Heard'
       <2>1. ASSUME NEW u \in Mapped
             PROVE  /\ Silent(now', u) \/ LastWord(now', u, heard[u])
                    /\ u \notin missed' /\ Silent(now', u) => object'[things[u]].connected = heard[u]
             <3>1. /\ Silent(now', u) \/ LastWord(now', u, heard[u])
                   /\ Silent(now', u) => \/ Says(k, u) /\ Word(k) = heard[u]
                                         \/ ~Says(k, u) /\ Silent(now, u)
                   BY GoFacts
             <3>2. u \in Thing /\ things[u] # 0 /\ (Says(k, u) => u = t)
                   BY DEF Mapped, Says
             <3>3. u \notin missed /\ Silent(now, u) => object[things[u]].connected = heard[u]
                   BY DEF Holds, Heard
             <3>4. CASE u = t
                   BY <1>5, <3>1, <3>2, <3>4
             <3>5. CASE u # t
                   <4>1. u \notin missed' => u \notin missed
                         BY <3>5
                   <4> QED BY <1>6, <3>1, <3>2, <3>3, <3>5, <4>1
             <3> QED BY <3>4, <3>5
       <2>2. rows = Mapped
             BY GoFacts
       <2> QED BY <1>2, <2>1, <2>2 DEF Heard
<1>12. Offered'
       <2> SUFFICES ASSUME NEW w \in Watcher, watcher[w] = "open",
                           NEW u \in device, u \notin Mapped, u \notin forgotten
                    PROVE  \/ u \in found'[w]
                           \/ In([kind |-> "added", thing |-> u], now')
                           \/ In([kind |-> "added", thing |-> u], waiting)
           BY <1>2 DEF Offered
       <2>1. \/ u \in found[w]
             \/ In([kind |-> "added", thing |-> u], now)
             \/ In([kind |-> "added", thing |-> u], waiting)
             BY DEF Holds, Offered
       <2>2. In([kind |-> "added", thing |-> u], now)
               => k = [kind |-> "added", thing |-> u] \/ In([kind |-> "added", thing |-> u], now')
             BY GoFacts
       <2>3. u \in Thing /\ things[u] = 0
             BY PresentAssumption DEF TypeInv, PlainTypes, Mapped
       <2> QED BY <2>1, <2>2, <2>3
<1> QED BY <1>1, <1>7, <1>8, <1>10, <1>11, <1>12 DEF Holds

\* A device was added.
LEMMA TakeUpHolds == ASSUME TypeInv, Holds, NEW k, Goes(k), TakeUp(k) PROVE Holds'
<1>1. k \in Task /\ k.kind = "added"
      BY GoFacts DEF TakeUp
<1>2. k.thing \in Thing /\ \A f \in Feed : k # OpenOf(f)
      BY <1>1, TaskIs DEF OpenOf
<1> DEFINE t == k.thing
<1>3. Says(k, t) /\ Word(k) = TRUE
      BY <1>1 DEF Says, Word
<1>4. /\ \/ things[t] # 0 /\ SetConnected(things[t], TRUE) /\ missed' = missed \ {t}
         \/ things[t] = 0 /\ UNCHANGED <<object, shown, missed>>
      /\ UNCHANGED <<making, feed, subs, leaked, watcher>>
      BY DEF TakeUp
<1>5. \/ found' = found
      \/ /\ things[t] = 0
         /\ found' = [w \in Watcher |-> IF watcher[w] \in {"opening", "open"}
                                          THEN found[w] \union {t} ELSE found[w]]
      BY DEF TakeUp, Tell
<1>6. things[t] # 0 \/ found' = [w \in Watcher |-> IF watcher[w] \in {"opening", "open"}
                                          THEN found[w] \union {t} ELSE found[w]]
      BY DEF TakeUp, Tell
<1>7. \A u \in Thing : k = [kind |-> "added", thing |-> u] => u = t
      OBVIOUS
<1> HIDE DEF t
<1>8. \A w \in Watcher : found[w] \subseteq found'[w]
      BY <1>5
<1>9. \A w \in Watcher, u \in Thing :
         k = [kind |-> "added", thing |-> u] /\ watcher[w] = "open" /\ things[u] = 0 => u \in found'[w]
      BY <1>6, <1>7
<1>10. t \in Thing
      BY <1>2 DEF t
<1> QED BY <1>2, <1>3, <1>4, <1>8, <1>9, <1>10, TakenHolds

\* A device was removed, or its connection was heard of.
LEMMA TakeStateHolds == ASSUME TypeInv, Holds, NEW k, Goes(k), TakeState(k) PROVE Holds'
<1>1. k \in Task /\ k.kind \in {"removed", "connected"}
      BY GoFacts DEF TakeState
<1>2. k.thing \in Thing /\ \A f \in Feed : k # OpenOf(f)
      BY <1>1, TaskIs DEF OpenOf
<1> DEFINE t == k.thing
           to == k.kind = "connected" /\ k.to
<1>3. Says(k, t) /\ Word(k) = to /\ to \in BOOLEAN
      <2>1. CASE k.kind = "removed"
            BY <2>1 DEF Says, Word
      <2>2. CASE k.kind = "connected"
            <3>1. k.to \in BOOLEAN
                  BY <1>1, <2>2, TaskIs
            <3> QED BY <2>2, <3>1 DEF Says, Word
      <2> QED BY <1>1, <2>1, <2>2
<1>4. /\ \/ things[t] # 0 /\ SetConnected(things[t], to) /\ missed' = missed \ {t}
         \/ things[t] = 0 /\ UNCHANGED <<object, shown, missed>>
      /\ UNCHANGED <<making, feed, subs, leaked, watcher, found>>
      BY DEF TakeState, requestVars, watcherVars
<1>5. \A u \in Thing : k # [kind |-> "added", thing |-> u]
      BY <1>1
<1>6. t \in Thing
      BY <1>2
<1> HIDE DEF t, to
<1> QED BY <1>2, <1>3, <1>4, <1>5, <1>6, TakenHolds

\* What goes on says nothing of a device.
LEMMA SilentHolds ==
  ASSUME TypeInv, Holds, NEW k, Goes(k), k.kind \notin {"added", "removed", "connected"},
         missed' = missed, \A t \in Thing : things[t] # 0 => object'[things[t]] = object[things[t]]
  PROVE  Heard'
<1>1. \A t : ~Says(k, t)
      BY DEF Says
<1>2. UNCHANGED <<rows, waiting, heard, things, missed>> /\ Mapped' = Mapped /\ rows = Mapped
      BY GoFacts DEF Goes
<1>3. ASSUME NEW t \in Mapped
      PROVE  /\ Silent(now', t) \/ LastWord(now', t, heard[t])
             /\ t \notin missed /\ Silent(now', t) => object'[things[t]].connected = heard[t]
      <2>1. /\ Silent(now', t) \/ LastWord(now', t, heard[t])
            /\ Silent(now', t) => Silent(now, t)
            BY <1>1, GoFacts
      <2>2. t \in Thing /\ things[t] # 0
            BY DEF Mapped
      <2>3. t \notin missed /\ Silent(now, t) => object[things[t]].connected = heard[t]
            BY DEF Holds, Heard
      <2> QED BY <2>1, <2>2, <2>3
<1> QED BY <1>2, <1>3 DEF Heard

\* What goes on adds no device.
LEMMA OfferStays ==
  ASSUME TypeInv, Holds, NEW k, Goes(k), k.kind # "added",
         \A w \in Watcher : watcher'[w] = "open" =>
            \/ watcher[w] = "open" /\ found[w] \subseteq found'[w]
            \/ device \ Mapped \subseteq found'[w]
  PROVE  Offered'
<1>1. UNCHANGED <<waiting, device, forgotten>> /\ Mapped' = Mapped
      BY GoFacts DEF Goes
<1> SUFFICES ASSUME NEW w \in Watcher, watcher'[w] = "open",
                    NEW u \in device, u \notin Mapped, u \notin forgotten
             PROVE  \/ u \in found'[w]
                    \/ In([kind |-> "added", thing |-> u], now')
                    \/ In([kind |-> "added", thing |-> u], waiting)
    BY <1>1 DEF Offered
<1>2. k # [kind |-> "added", thing |-> u]
      OBVIOUS
<1>3. In([kind |-> "added", thing |-> u], now) => In([kind |-> "added", thing |-> u], now')
      BY <1>2, GoFacts
<1> QED BY <1>3 DEF Holds, Offered

\* A thing is made.
LEMMA CreateHolds == ASSUME TypeInv, Holds, NEW k, Goes(k), Create(k) PROVE Holds'
<1>1. k \in Task /\ k.kind = "post"
      BY GoFacts DEF Create
<1>2. \A f \in Feed : k # OpenOf(f)
      BY <1>1 DEF OpenOf
<1>3. UNCHANGED <<feed, subs, leaked, shown, watcher, found, missed>>
      BY DEF Create, feedVars, watcherVars
<1>4. UNCHANGED <<things, inserted>> /\ Mapped' = Mapped
      BY GoFacts DEF Goes
<1>5. /\ \A o \in DOMAIN object : object'[o] = object[o]
      /\ \/ making' = making
         \/ /\ things[k.thing] = 0 /\ making' = [making EXCEPT ![k.thing] = NewObject]
            /\ NewObject # 0 /\ object'[NewObject] = [id |-> k.thing, connected |-> TRUE]
      <2>1. CASE things[k.thing] = 0
            BY <1>1, <2>1, CreateObjects
      <2>2. CASE things[k.thing] # 0
            BY <2>2 DEF Create
      <2> QED BY <2>1, <2>2
<1>6. MapIsTable' /\ ReadIsTable' /\ Calls'
      BY <1>3, GoCalls
<1>7. Creations'
      <2> SUFFICES ASSUME NEW u \in Thing
                   PROVE  /\ u \in inserted => things[u] = making'[u]
                          /\ making'[u] # 0 /\ u \notin inserted
                               => things[u] # making'[u] /\ object'[making'[u]].connected
          BY <1>4 DEF Creations
      <2>1. /\ u \in inserted => things[u] = making[u]
            /\ making[u] # 0 /\ u \notin inserted
                 => things[u] # making[u] /\ object[making[u]].connected
            /\ making[u] # 0 => making[u] \in DOMAIN object
            /\ u \in inserted => making[u] # 0
            BY DEF Holds, Creations, TypeInv, ObjectTypes
      <2>2. CASE making'[u] = making[u]
            BY <1>5, <2>1, <2>2
      <2>3. CASE making'[u] # making[u]
            <3>1. things[u] = 0 /\ making'[u] = NewObject /\ NewObject # 0
                  /\ object'[NewObject] = [id |-> k.thing, connected |-> TRUE]
                  BY <1>5, <2>3 DEF TypeInv, ObjectTypes
            <3> QED BY <2>1, <3>1
      <2> QED BY <2>2, <2>3
<1>8. Listeners'
      <2>1. \A f \in Feed : subs[f] \subseteq DOMAIN object
            BY DEF TypeInv, ObjectTypes
      <2> QED BY <1>3, <1>4, <1>5, <2>1 DEF Holds, Listeners
<1>9. \A t \in Thing : things[t] # 0 => object'[things[t]] = object[things[t]]
      BY <1>5 DEF TypeInv, ObjectTypes
<1>10. Shown'
      BY <1>3, <1>4, <1>9 DEF Holds, Shown
<1>11. Heard'
      BY <1>1, <1>3, <1>9, SilentHolds
<1>12. Offered'
      BY <1>1, <1>3, OfferStays
<1> QED BY <1>6, <1>7, <1>8, <1>10, <1>11, <1>12 DEF Holds

\* A watcher is told what there is.
LEMMA OfferHolds == ASSUME TypeInv, Holds, NEW k, Goes(k), Offer(k) PROVE Holds'
<1>1. k \in Task /\ k.kind = "watch"
      BY GoFacts DEF Offer
<1>2. \A f \in Feed : k # OpenOf(f)
      BY <1>1 DEF OpenOf
<1>3. UNCHANGED <<object, making, feed, subs, leaked, shown, missed>>
      BY DEF Offer, feedVars, objectVars, requestVars
<1>4. UNCHANGED <<things, inserted>> /\ Mapped' = Mapped
      BY GoFacts DEF Goes
<1>5. MapIsTable' /\ ReadIsTable' /\ Calls'
      BY <1>2, <1>3, GoCalls
<1>6. Creations' /\ Listeners' /\ Shown'
      BY <1>3, <1>4 DEF Holds, Creations, Listeners, Shown
<1>7. Heard'
      BY <1>1, <1>3, SilentHolds
<1>8. Offered'
      <2>1. \A w \in Watcher : watcher'[w] = "open" =>
              \/ watcher[w] = "open" /\ found[w] \subseteq found'[w]
              \/ device \ Mapped \subseteq found'[w]
            BY DEF Offer, watcherVars, TypeInv, PlainTypes
      <2> QED BY <1>1, <2>1, OfferStays
<1> QED BY <1>5, <1>6, <1>7, <1>8 DEF Holds

\* A feed follows the things, unless it was closed or a thing is in the making.
LEMMA FollowHolds == ASSUME TypeInv, Holds, NEW k, Goes(k), Follow(k), Undisturbed' PROVE Holds'
<1> DEFINE f == k.feed
           objects == {things[t] : t \in Mapped}
           ids == {object[o].id : o \in objects}
           thing(t) == object[CHOOSE o \in objects : object[o].id = t]
           told(g) == IF g \in {f} /\ feed[g] # "closed" THEN ids ELSE {}
<1>1. k \in Task /\ k.kind = "open" /\ f \in Feed /\ k = OpenOf(f)
      BY GoFacts, TaskIs DEF Follow
<1>2. \A g \in Feed : k = OpenOf(g) <=> g = f
      <2>1. \A g : OpenOf(g).feed = g
            BY DEF OpenOf
      <2> QED BY <1>1, <2>1
<1>3. feed[f] # "closed" /\ inserted = {}
      <2>1. early \union (IF feed[f] = "closed" \/ inserted # {} THEN {f} ELSE {}) = {}
            BY DEF Follow, Undisturbed
      <2> QED BY <2>1
<1>4. /\ leaked' = [g \in Feed |-> leaked[g] \union
                     IF g \in {f} THEN {o \in subs[g] : object[o].id \in ids} ELSE {}]
      /\ subs' = [g \in Feed |-> subs[g] \union IF g \in {f} THEN objects ELSE {}]
      /\ shown' = [g \in Feed |-> [t \in Thing |->
                     IF t \in told(g) THEN State(thing(t).connected) ELSE shown[g][t]]]
      /\ feed' = [feed EXCEPT ![f] = IF @ = "opening" THEN "open" ELSE @]
      /\ UNCHANGED <<object, making, watcher, found, missed>>
      BY DEF Follow, AddThings, objectVars, requestVars, watcherVars
<1>5. UNCHANGED <<things, inserted>> /\ Mapped' = Mapped
      BY GoFacts DEF Goes
<1>6. \A t \in Thing : things[t] # 0 => things[t] \in DOMAIN object /\ object[things[t]].id = t
      BY DEF TypeInv, ObjectTypes
<1>7. ids = Mapped /\ \A t \in Mapped : thing(t) = object[things[t]]
      <2>1. \A t \in Mapped : things[t] \in objects /\ object[things[t]].id = t
            BY <1>6 DEF Mapped
      <2>2. \A o \in objects : \E t \in Mapped : o = things[t] /\ object[o].id = t
            BY <2>1
      <2> HIDE DEF objects
      <2>3. ids = Mapped
            BY <2>1, <2>2
      <2>4. ASSUME NEW t \in Mapped PROVE (CHOOSE o \in objects : object[o].id = t) = things[t]
            <3>1. \A o \in objects : object[o].id = t => o = things[t]
                  BY <2>2
            <3> QED BY <2>1, <3>1
      <2> QED BY <2>3, <2>4
<1>8. feed[f] = "opening" /\ subs[f] = {} /\ ~In(OpenOf(f), now') /\ ~In(OpenOf(f), waiting)
      <2>1. In(OpenOf(f), now)
            BY <1>1, GoFacts
      <2>2. ~In(OpenOf(f), now')
            BY <1>1, GoFacts
      <2> QED BY <1>1, <2>1, <2>2 DEF Holds, Calls
<1>9. feed'[f] = "open" /\ \A g \in Feed : g # f => feed'[g] = feed[g]
      BY <1>1, <1>4, <1>8 DEF TypeInv, PlainTypes
<1>10. /\ \A g \in Feed : g # f => subs'[g] = subs[g] /\ leaked'[g] = leaked[g]
       /\ subs'[f] = objects /\ leaked'[f] = {}
       <2>1. leaked[f] = {}
             BY <1>1 DEF Holds, Listeners
       <2> HIDE DEF objects
       <2> QED BY <1>1, <1>4, <1>8, <2>1
<1>11. /\ \A g \in Feed, t \in Thing : g # f => shown'[g][t] = shown[g][t]
       /\ \A t \in Thing : shown'[f][t] = IF t \in Mapped THEN State(object[things[t]].connected) ELSE shown[f][t]
       <2>1. \A g \in Feed : told(g) = IF g = f THEN Mapped ELSE {}
             BY <1>3, <1>7
       <2> HIDE DEF told, thing, ids
       <2> QED BY <1>1, <1>4, <1>7, <2>1
<1> HIDE DEF f, ids, thing, told
<1>12. MapIsTable' /\ ReadIsTable'
       BY GoFacts DEF MapIsTable, ReadIsTable, Goes
<1>13. Calls'
       <2> SUFFICES ASSUME NEW g \in Feed
                    PROVE  /\ Once(now', g) /\ Once(waiting', g)
                           /\ ~(In(OpenOf(g), now') /\ In(OpenOf(g), waiting'))
                           /\ In(OpenOf(g), now') => feed'[g] = "opening" /\ subs'[g] = {}
                           /\ In(OpenOf(g), waiting') => feed'[g] = "opening"
           BY DEF Calls
       <2>1. Once(now', g) /\ (In(OpenOf(g), now) <=> OpenOf(g) = k \/ In(OpenOf(g), now'))
             BY GoFacts
       <2>2. waiting' = waiting
             BY DEF Goes
       <2>3. CASE g = f
             BY <1>8, <2>1, <2>2, <2>3 DEF Holds, Calls
       <2>4. CASE g # f
             BY <1>2, <1>9, <1>10, <2>1, <2>2, <2>4 DEF Holds, Calls
       <2> QED BY <2>3, <2>4
<1>14. Creations'
       BY <1>4, <1>5 DEF Holds, Creations
<1>15. Listeners'
       <2>1. \A o \in objects : things[object[o].id] = o
             BY <1>6 DEF Mapped
       <2>2. \A t \in Mapped : things[t] \in objects
             OBVIOUS
       <2>3. UNCHANGED <<object, things, inserted>>
             BY <1>4, <1>5
       <2> HIDE DEF objects
       <2> QED BY <1>3, <1>5, <1>9, <1>10, <2>1, <2>2, <2>3 DEF Holds, Listeners
<1>16. Shown'
       <2> SUFFICES ASSUME NEW g \in Feed, NEW t \in Thing
                    PROVE  /\ feed'[g] \in {"new", "opening"} /\ things[t] \notin subs'[g] => shown'[g][t] = "absent"
                           /\ feed'[g] = "open" /\ t \notin inserted =>
                                shown'[g][t] = IF things[t] = 0 THEN "absent"
                                               ELSE State(object[things[t]].connected)
           BY <1>4, <1>5 DEF Shown
       <2>1. /\ feed[g] \in {"new", "opening"} /\ things[t] \notin subs[g] => shown[g][t] = "absent"
             /\ feed[g] = "open" /\ t \notin inserted =>
                  shown[g][t] = IF things[t] = 0 THEN "absent" ELSE State(object[things[t]].connected)
             BY DEF Holds, Shown
       <2>2. t \in Mapped <=> things[t] # 0
             BY DEF Mapped
       <2>3. CASE g = f
             BY <1>8, <1>9, <1>11, <2>1, <2>2, <2>3
       <2>4. CASE g # f
             BY <1>9, <1>10, <1>11, <2>1, <2>4
       <2> QED BY <2>3, <2>4
<1>17. Heard'
       BY <1>1, <1>4, SilentHolds
<1>18. Offered'
       BY <1>1, <1>4, OfferStays
<1> QED BY <1>12, <1>13, <1>14, <1>15, <1>16, <1>17, <1>18 DEF Holds

\* Somebody goes on.
LEMMA GoHolds == ASSUME TypeInv, Holds, Go, Undisturbed' PROVE Holds'
<1> DEFINE k == Head(now)
<1>1. Goes(k)
      BY DEF Go, Goes, storeVars, TakeUp, TakeState, Create, Follow, Offer, objectVars, requestVars
<1>2. TakeUp(k) \/ TakeState(k) \/ Create(k) \/ Follow(k) \/ Offer(k)
      BY DEF Go
<1> HIDE DEF k
<1> QED BY <1>1, <1>2, TakeUpHolds, TakeStateHolds, CreateHolds, FollowHolds, OfferHolds

-----------------------------------------------------------------------------
(* Things come and go.                                                     *)

\* The row of a new thing is in, or there was one.
LEMMA InsertedHolds == ASSUME TypeInv, Holds, NEW t \in Thing, Inserted(t) PROVE Holds'
<1>1. /\ now = << >> /\ making[t] # 0 /\ t \notin inserted /\ object' = Swept
      /\ UNCHANGED <<load, snapshot, waiting, now, device, feed, subs, leaked, shown, watcher, found,
                     heard, forgotten>>
      BY DEF Inserted, Quiet, feedVars, watcherVars
<1>2. \/ /\ t \in rows /\ making' = [making EXCEPT ![t] = 0]
         /\ UNCHANGED <<rows, things, inserted, missed>>
      \/ /\ t \notin rows /\ rows' = rows \union {t} /\ things' = [things EXCEPT ![t] = making[t]]
         /\ inserted' = inserted \union {t} /\ UNCHANGED making
         /\ missed' = IF heard[t] THEN missed ELSE missed \union {t}
      BY DEF Inserted
<1>3. /\ \A o \in DOMAIN object' : object'[o] = object[o]
      /\ \A u \in Thing : things'[u] \in DOMAIN object => things'[u] \in DOMAIN object'
      /\ \A u \in Thing : making'[u] \in DOMAIN object => making'[u] \in DOMAIN object'
      /\ \A f \in Feed : subs[f] \subseteq DOMAIN object'
      BY <1>1, SweptKeeps DEF TypeInv, ObjectTypes
<1>4. \A u \in Thing : /\ things[u] # 0 => things[u] \in DOMAIN object /\ object[things[u]].id = u
                       /\ making[u] # 0 => making[u] \in DOMAIN object /\ object[making[u]].id = u
      BY DEF TypeInv, ObjectTypes
<1>5. \A f \in Feed : In(OpenOf(f), waiting) => feed[f] = "opening"
      BY DEF Holds, Calls
<1>6. Calls'
      BY <1>1 DEF Holds, Calls
<1>7. rows = Mapped
      BY <1>1 DEF Holds, MapIsTable
<1>8. CASE t \in rows
      <2>1. /\ making' = [making EXCEPT ![t] = 0]
            /\ UNCHANGED <<rows, things, inserted, missed>>
            BY <1>2, <1>8
      <2>2. Mapped' = Mapped /\ \A u \in Thing : making'[u] = IF u = t THEN 0 ELSE making[u]
            BY <2>1 DEF Mapped, TypeInv, ObjectTypes
      <2>3. MapIsTable' /\ ReadIsTable' /\ Offered'
            BY <1>1, <1>7, <2>1, <2>2 DEF Holds, MapIsTable, ReadIsTable, Offered
      <2>4. Creations'
            BY <1>1, <1>3, <1>4, <2>1, <2>2 DEF Holds, Creations
      <2>5. Listeners'
            BY <1>1, <1>3, <2>1, <2>2 DEF Holds, Listeners
      <2>6. \A u \in Thing : things[u] # 0 => object'[things[u]] = object[things[u]]
            BY <1>3, <1>4, <2>1
      <2>7. Shown'
            BY <1>1, <2>1, <2>6 DEF Holds, Shown
      <2>8. \A u \in Mapped : u \in Thing /\ things[u] # 0
            BY DEF Mapped
      <2>9. Heard'
            BY <1>1, <2>1, <2>2, <2>6, <2>8 DEF Holds, Heard
      <2> QED BY <1>6, <2>3, <2>4, <2>5, <2>7, <2>9 DEF Holds
<1>9. CASE t \notin rows
      <2>1. /\ rows' = rows \union {t} /\ inserted' = inserted \union {t} /\ UNCHANGED making
            /\ \A u \in Thing : things'[u] = IF u = t THEN making[t] ELSE things[u]
            /\ missed' = IF heard[t] THEN missed ELSE missed \union {t}
            BY <1>2, <1>9 DEF TypeInv, ObjectTypes
      <2>2. Mapped' = Mapped \union {t} /\ things[t] = 0
            BY <1>1, <1>7, <1>9, <2>1 DEF Mapped
      <2>3. MapIsTable' /\ ReadIsTable' /\ Offered'
            BY <1>1, <1>7, <2>1, <2>2 DEF Holds, MapIsTable, ReadIsTable, Offered
      <2>4. Creations'
            <3> SUFFICES ASSUME NEW u \in Thing
                         PROVE  /\ u \in inserted' => things'[u] = making'[u]
                                /\ making'[u] # 0 /\ u \notin inserted'
                                     => things'[u] # making'[u] /\ object'[making'[u]].connected
                BY DEF Creations
            <3>1. /\ u \in inserted => things[u] = making[u]
                  /\ making[u] # 0 /\ u \notin inserted => things[u] # making[u] /\ object[making[u]].connected
                  BY DEF Holds, Creations
            <3>2. making[u] # 0 => object'[making[u]] = object[making[u]]
                  BY <1>3, <1>4, <2>1
            <3> QED BY <2>1, <3>1, <3>2
      <2>5. \A f \in Feed : \A o \in subs[f] : /\ object[o].id # t /\ object'[o] = object[o]
                                               /\ things[object[o].id] = o /\ object[o].id \notin inserted
                                               /\ object[o].id \in Thing
            <3> SUFFICES ASSUME NEW f \in Feed, NEW o \in subs[f]
                         PROVE  /\ object[o].id # t /\ object'[o] = object[o]
                                /\ things[object[o].id] = o /\ object[o].id \notin inserted
                                /\ object[o].id \in Thing
                OBVIOUS
            <3>1. o \in DOMAIN object /\ o # 0
                  BY DEF TypeInv, ObjectTypes
            <3>2. object[o].id \in Thing
                  BY <3>1 DEF TypeInv, ObjectTypes
            <3>3. things[object[o].id] = o /\ object[o].id \notin inserted
                  BY DEF Holds, Listeners
            <3> QED BY <1>3, <2>2, <3>1, <3>2, <3>3
      <2>6. Listeners'
            <3> SUFFICES ASSUME NEW f \in Feed
                         PROVE  /\ leaked[f] = {}
                                /\ \A o \in subs[f] : things'[object'[o].id] = o /\ object'[o].id \notin inserted'
                                /\ feed[f] \in {"new", "closed"} => subs[f] = {}
                                /\ feed[f] = "open" => \A u \in Mapped' \ inserted' : things'[u] \in subs[f]
                BY <1>1 DEF Listeners
            <3>1. /\ leaked[f] = {} /\ (feed[f] \in {"new", "closed"} => subs[f] = {})
                  /\ feed[f] = "open" => \A u \in Mapped \ inserted : things[u] \in subs[f]
                  BY DEF Holds, Listeners
            <3>2. \A o \in subs[f] : things'[object'[o].id] = o /\ object'[o].id \notin inserted'
                  BY <2>1, <2>5
            <3>3. \A u \in Mapped' \ inserted' : u \in Mapped \ inserted /\ things'[u] = things[u]
                  BY <2>1, <2>2 DEF Mapped
            <3> QED BY <3>1, <3>2, <3>3
      <2>7. \A u \in Thing : things[u] # 0 => u # t /\ object'[things[u]] = object[things[u]]
            BY <1>3, <1>4, <2>1, <2>2
      <2>8. Shown'
            <3> SUFFICES ASSUME NEW f \in Feed, NEW u \in Thing
                         PROVE  /\ feed[f] \in {"new", "opening"} /\ things'[u] \notin subs[f]
                                     => shown[f][u] = "absent"
                                /\ feed[f] = "open" /\ u \notin inserted' =>
                                     shown[f][u] = IF things'[u] = 0 THEN "absent"
                                                   ELSE State(object'[things'[u]].connected)
                BY <1>1 DEF Shown
            <3>1. /\ feed[f] \in {"new", "opening"} /\ things[u] \notin subs[f] => shown[f][u] = "absent"
                  /\ feed[f] = "open" /\ u \notin inserted =>
                       shown[f][u] = IF things[u] = 0 THEN "absent" ELSE State(object[things[u]].connected)
                  BY DEF Holds, Shown
            <3>2. 0 \notin subs[f]
                  BY DEF TypeInv, ObjectTypes
            <3> QED BY <2>1, <2>2, <2>7, <3>1, <3>2
      <2>9. Heard'
            <3>1. ASSUME NEW u \in Mapped'
                  PROVE  u \notin missed' => object'[things'[u]].connected = heard[u]
                  <4>1. CASE u = t
                        <5>1. object[making[t]].connected = TRUE
                              <6>1. object[making[t]].connected \in BOOLEAN
                                    BY <1>1, <1>4 DEF TypeInv, ObjectTypes
                              <6> QED BY <1>1, <6>1 DEF Holds, Creations
                        <5>2. object'[things'[t]].connected = TRUE
                              BY <1>1, <1>3, <1>4, <2>1, <5>1
                        <5>3. heard[t] \in BOOLEAN
                              BY DEF TypeInv, PlainTypes
                        <5> QED BY <2>1, <4>1, <5>2, <5>3
                  <4>2. CASE u # t
                        <5>1. u \in Mapped /\ u \in Thing /\ things'[u] = things[u] /\ things[u] # 0
                              BY <2>1, <2>2, <4>2 DEF Mapped
                        <5>2. u \notin missed /\ Silent(now, u) => object[things[u]].connected = heard[u]
                              BY <5>1 DEF Holds, Heard
                        <5> QED BY <1>1, <2>1, <2>7, <4>2, <5>1, <5>2, QueueEmpty
                  <4> QED BY <4>1, <4>2
            <3>2. rows' \ Mapped' = {}
                  BY <1>7, <2>1, <2>2
            <3>3. \A u : Silent(now', u)
                  BY <1>1, QueueEmpty
            <3> QED BY <1>1, <3>1, <3>2, <3>3 DEF Heard
      <2> QED BY <1>6, <2>3, <2>4, <2>6, <2>8, <2>9 DEF Holds
<1> QED BY <1>8, <1>9

\* A feed is closed that had been opened.
LEMMA CloseHolds == ASSUME TypeInv, Holds, NEW f \in Feed, Close(f), Undisturbed' PROVE Holds'
<1>1. /\ now = << >> /\ feed[f] = "open" /\ object' = Swept
      /\ UNCHANGED <<rows, load, snapshot, waiting, now, device, things, making, inserted, leaked, watcher, found,
                     heard, missed, forgotten>>
      BY DEF Close, Quiet, Undisturbed, storeVars, requestVars, watcherVars
<1>2. /\ \A g \in Feed : /\ feed'[g] = IF g = f THEN "closed" ELSE feed[g]
                         /\ subs'[g] = IF g = f THEN leaked[f] ELSE subs[g]
                         /\ g # f => shown'[g] = shown[g]
      /\ subs' \in [Feed -> SUBSET DOMAIN object]
      BY DEF Close, TypeInv, PlainTypes, ObjectTypes
<1>3. leaked[f] = {}
      BY DEF Holds, Listeners
<1>4. /\ \A o \in DOMAIN object' : object'[o] = object[o]
      /\ \A u \in Thing : things[u] \in DOMAIN object => things[u] \in DOMAIN object'
      /\ \A u \in Thing : making[u] \in DOMAIN object => making[u] \in DOMAIN object'
      /\ \A g \in Feed : subs'[g] \subseteq DOMAIN object'
      BY <1>1, <1>2, SweptKeeps DEF TypeInv, ObjectTypes
<1>5. \A u \in Thing : /\ things[u] # 0 => object'[things[u]] = object[things[u]]
                       /\ making[u] # 0 => object'[making[u]] = object[making[u]]
      BY <1>4 DEF TypeInv, ObjectTypes
<1>6. Mapped' = Mapped /\ \A u \in Mapped : u \in Thing /\ things[u] # 0
      BY <1>1 DEF Mapped
<1>7. MapIsTable'
      <2>1. rows = Mapped
            BY <1>1 DEF Holds, MapIsTable
      <2> QED BY <1>1, <1>6, <2>1 DEF MapIsTable
<1>8. ReadIsTable' /\ Offered'
      BY <1>1, <1>6 DEF Holds, ReadIsTable, Offered
<1>9. Creations'
      BY <1>1, <1>5 DEF Holds, Creations
<1>10. Calls'
       <2>1. \A g \in Feed : ~In(OpenOf(g), now)
             BY <1>1, QueueEmpty
       <2> QED BY <1>1, <1>2, <2>1 DEF Holds, Calls
<1>11. Listeners'
       BY <1>1, <1>2, <1>3, <1>4, <1>6 DEF Holds, Listeners
<1>12. Shown'
       BY <1>1, <1>2, <1>5 DEF Holds, Shown
<1>13. Heard'
       BY <1>1, <1>5, <1>6 DEF Holds, Heard
<1> QED BY <1>7, <1>8, <1>9, <1>10, <1>11, <1>12, <1>13 DEF Holds

\* A new thing is announced.
LEMMA AnnouncedHolds == ASSUME TypeInv, Holds, NEW t \in Thing, Announced(t) PROVE Holds'
<1> DEFINE feeds == {f \in Feed : feed[f] \in {"opening", "open"}}
           o == making[t]
           ids == {object[p].id : p \in {o}}
           thing(u) == object[CHOOSE p \in {o} : object[p].id = u]
           told(f) == IF f \in feeds /\ feed[f] # "closed" THEN ids ELSE {}
<1>1. /\ now = << >> /\ t \in inserted /\ object' = Swept
      /\ making' = [making EXCEPT ![t] = 0] /\ inserted' = inserted \ {t}
      /\ UNCHANGED <<rows, load, snapshot, waiting, now, device, things, feed, watcher, found,
                     heard, missed, forgotten>>
      BY DEF Announced, Quiet, storeVars, watcherVars, historyVars
<1>2. /\ leaked' = [f \in Feed |-> leaked[f] \union
                     IF f \in feeds THEN {p \in subs[f] : object[p].id \in ids} ELSE {}]
      /\ subs' = [f \in Feed |-> subs[f] \union IF f \in feeds THEN {o} ELSE {}]
      /\ shown' = [f \in Feed |-> [u \in Thing |->
                     IF u \in told(f) THEN State(thing(u).connected) ELSE shown[f][u]]]
      BY DEF Announced, AddThings
<1>3. /\ o # 0 /\ o \in DOMAIN object /\ object[o].id = t /\ things[t] = o
      BY <1>1 DEF Holds, Creations, TypeInv, ObjectTypes
<1>4. ids = {t} /\ thing(t) = object[o]
      BY <1>3
<1>5. \A f \in Feed : f \in feeds <=> feed[f] \in {"opening", "open"}
      OBVIOUS
<1>6. \A f \in Feed : told(f) = IF f \in feeds THEN {t} ELSE {}
      BY <1>4, <1>5
<1> HIDE DEF feeds, thing, ids, told
<1>7. \A f \in Feed, u \in Thing :
         shown'[f][u] = IF f \in feeds /\ u = t THEN State(object[o].connected) ELSE shown[f][u]
      BY <1>2, <1>4, <1>6
<1>8. \A f \in Feed : subs'[f] = (subs[f] \union IF f \in feeds THEN {o} ELSE {})
      BY <1>2
<1>9. \A f \in Feed : leaked'[f] = {}
      <2>1. \A f \in Feed : leaked[f] = {} /\ \A p \in subs[f] : object[p].id \notin inserted
            BY DEF Holds, Listeners
      <2> QED BY <1>1, <1>2, <1>4, <2>1
<1>10. subs' \in [Feed -> SUBSET DOMAIN object]
       BY <1>2, <1>3 DEF TypeInv, ObjectTypes
<1>11. /\ \A p \in DOMAIN object' : object'[p] = object[p]
       /\ \A u \in Thing : things[u] \in DOMAIN object => things[u] \in DOMAIN object'
       /\ \A u \in Thing : making'[u] \in DOMAIN object => making'[u] \in DOMAIN object'
       /\ \A f \in Feed : subs'[f] \subseteq DOMAIN object'
       BY <1>1, <1>10, SweptKeeps DEF TypeInv, ObjectTypes
<1>12. \A u \in Thing : making'[u] = IF u = t THEN 0 ELSE making[u]
       BY <1>1 DEF TypeInv, ObjectTypes
<1>13. \A u \in Thing : /\ things[u] # 0 => object'[things[u]] = object[things[u]]
                        /\ making'[u] # 0 => object'[making'[u]] = object[making[u]]
       BY <1>11, <1>12 DEF TypeInv, ObjectTypes
<1>14. Mapped' = Mapped /\ \A u \in Mapped : u \in Thing /\ things[u] # 0
       BY <1>1 DEF Mapped
<1>15. MapIsTable' /\ ReadIsTable' /\ Offered'
       BY <1>1, <1>12, <1>14 DEF Holds, MapIsTable, ReadIsTable, Offered
<1>16. Creations'
       BY <1>1, <1>12, <1>13 DEF Holds, Creations
<1>17. Calls'
       <2>1. \A f \in Feed : ~In(OpenOf(f), now)
             BY <1>1, QueueEmpty
       <2> QED BY <1>1, <2>1 DEF Holds, Calls
<1>18. Listeners'
       <2> SUFFICES ASSUME NEW f \in Feed
                    PROVE  /\ \A p \in subs'[f] : things[object'[p].id] = p /\ object'[p].id \notin inserted'
                           /\ feed[f] \in {"new", "closed"} => subs'[f] = {}
                           /\ feed[f] = "open" => \A u \in Mapped \ inserted' : things[u] \in subs'[f]
           BY <1>1, <1>9, <1>14 DEF Listeners
       <2>1. /\ \A p \in subs[f] : things[object[p].id] = p /\ object[p].id \notin inserted
             /\ feed[f] \in {"new", "closed"} => subs[f] = {}
             /\ feed[f] = "open" => \A u \in Mapped \ inserted : things[u] \in subs[f]
             BY DEF Holds, Listeners
       <2>2. \A p \in subs'[f] : object'[p] = object[p]
             BY <1>11
       <2>3. \A p \in subs'[f] : p \in subs[f] \/ p = o
             BY <1>8
       <2> HIDE DEF o
       <2>4. \A p \in subs'[f] : things[object'[p].id] = p /\ object'[p].id \notin inserted'
             BY <1>1, <1>3, <2>1, <2>2, <2>3
       <2> QED BY <1>1, <1>3, <1>5, <1>8, <2>1, <2>4
<1>19. Shown'
       <2> SUFFICES ASSUME NEW f \in Feed, NEW u \in Thing
                    PROVE  /\ feed[f] \in {"new", "opening"} /\ things[u] \notin subs'[f]
                                => shown'[f][u] = "absent"
                           /\ feed[f] = "open" /\ u \notin inserted' =>
                                shown'[f][u] = IF things[u] = 0 THEN "absent"
                                               ELSE State(object'[things[u]].connected)
           BY <1>1 DEF Shown
       <2>1. /\ feed[f] \in {"new", "opening"} /\ things[u] \notin subs[f] => shown[f][u] = "absent"
             /\ feed[f] = "open" /\ u \notin inserted =>
                  shown[f][u] = IF things[u] = 0 THEN "absent" ELSE State(object[things[u]].connected)
             BY DEF Holds, Shown
       <2>2. things[u] \notin subs'[f] => things[u] \notin subs[f] /\ (f \notin feeds \/ things[u] # o)
             BY <1>8
       <2> HIDE DEF o
       <2> QED BY <1>1, <1>3, <1>5, <1>7, <1>13, <2>1, <2>2
<1>20. Heard'
       BY <1>1, <1>13, <1>14 DEF Holds, Heard
<1> QED BY <1>15, <1>16, <1>17, <1>18, <1>19, <1>20 DEF Holds

\* A thing is gone that was not in the making.
LEMMA DeletedHolds == ASSUME TypeInv, Holds, NEW t \in Thing, Deleted(t), Undisturbed' PROVE Holds'
<1>1. /\ rows' = rows \ {t} /\ object' = Swept /\ now = << >>
      /\ missed' = missed \ {t} /\ forgotten' = forgotten \union (device \intersect Mapped \intersect {t})
      /\ UNCHANGED <<load, snapshot, waiting, now, device, making, inserted, feed, leaked, watcher, found, heard>>
      BY DEF Deleted, Quiet, watcherVars
<1>2. making[t] = 0 /\ t \notin inserted
      <2>1. (IF making[t] # 0 THEN spoiled \union {t} ELSE spoiled) = {}
            BY DEF Deleted, Undisturbed
      <2> QED BY <2>1 DEF TypeInv, ObjectTypes
<1>3. \A f \in Feed : leaked[f] = {}
      BY DEF Holds, Listeners
<1>4. /\ \A u \in Thing : things'[u] = IF u = t THEN 0 ELSE things[u]
      /\ \A f \in Feed : subs'[f] = IF things[t] # 0 /\ things[t] \in subs[f]
                                    THEN {o \in subs[f] : object[o].id # t \/ o \in leaked[f]} ELSE subs[f]
      /\ subs' \in [Feed -> SUBSET DOMAIN object]
      /\ \A f \in Feed : \A u \in Thing :
           shown'[f][u] = IF things[t] # 0 /\ things[t] \in subs[f] /\ u = t THEN "absent" ELSE shown[f][u]
      <2>1. \A u \in Thing : things'[u] = IF u = t THEN 0 ELSE things[u]
            <3>1. things' = [things EXCEPT ![t] = 0] /\ things \in [Thing -> Nat]
                  BY DeletedParts DEF TypeInv, ObjectTypes
            <3> QED BY <3>1
      <2>2. \A f \in Feed, u \in Thing :
              shown'[f][u] = IF things[t] # 0 /\ things[t] \in subs[f] /\ u = t THEN "absent" ELSE shown[f][u]
            <3>1. \A f \in Feed : shown[f] \in [Thing -> States]
                  BY DEF TypeInv, PlainTypes
            <3>2. \A f \in Feed : shown'[f] = IF things[t] # 0 /\ things[t] \in subs[f]
                                              THEN [shown[f] EXCEPT ![t] = "absent"] ELSE shown[f]
                  BY DeletedParts
            <3> QED BY <3>1, <3>2
      <2>3. \A f \in Feed : subs'[f] = IF things[t] # 0 /\ things[t] \in subs[f]
                                    THEN {o \in subs[f] : object[o].id # t \/ o \in leaked[f]} ELSE subs[f]
            BY DeletedParts
      <2>4. subs' \in [Feed -> SUBSET DOMAIN object]
            BY DeletedParts
      <2> QED BY <2>1, <2>2, <2>3, <2>4
<1>5. /\ \A p \in DOMAIN object' : object'[p] = object[p]
      /\ \A u \in Thing : things'[u] \in DOMAIN object => things'[u] \in DOMAIN object'
      /\ \A u \in Thing : making[u] \in DOMAIN object => making[u] \in DOMAIN object'
      /\ \A f \in Feed : subs'[f] \subseteq DOMAIN object'
      BY <1>1, <1>4, SweptKeeps DEF TypeInv, ObjectTypes
<1>6. \A u \in Thing : /\ things'[u] # 0 => things'[u] = things[u] /\ object'[things[u]] = object[things[u]]
                       /\ making[u] # 0 => object'[making[u]] = object[making[u]]
      BY <1>4, <1>5 DEF TypeInv, ObjectTypes
<1>7. Mapped' = Mapped \ {t}
      BY <1>4 DEF Mapped
<1>8. MapIsTable' /\ ReadIsTable'
      BY <1>1, <1>7 DEF Holds, MapIsTable, ReadIsTable
<1>9. Offered'
      BY <1>1, <1>7 DEF Holds, Offered
<1>10. Creations'
       BY <1>1, <1>2, <1>4, <1>6 DEF Holds, Creations
<1>11. Calls'
       <2>1. \A f \in Feed : ~In(OpenOf(f), now)
             BY <1>1, QueueEmpty
       <2> QED BY <1>1, <2>1 DEF Holds, Calls
<1>12. ASSUME NEW f \in Feed, NEW o \in subs[f]
       PROVE  /\ o \in DOMAIN object /\ o # 0 /\ object[o].id \in Thing
              /\ things[object[o].id] = o /\ object[o].id \notin inserted
       BY DEF Holds, Listeners, TypeInv, ObjectTypes
<1>13. \A f \in Feed : subs'[f] = {o \in subs[f] : object[o].id # t}
       <2> SUFFICES ASSUME NEW f \in Feed PROVE subs'[f] = {o \in subs[f] : object[o].id # t}
           OBVIOUS
       <2>1. CASE things[t] # 0 /\ things[t] \in subs[f]
             BY <1>3, <1>4, <2>1
       <2>2. CASE ~(things[t] # 0 /\ things[t] \in subs[f])
             <3>1. \A o \in subs[f] : object[o].id # t
                   BY <1>12, <2>2
             <3> QED BY <1>4, <2>2, <3>1
       <2> QED BY <2>1, <2>2
<1>14. \A u \in Thing : things[u] # 0 => object[things[u]].id = u
       BY DEF TypeInv, ObjectTypes
<1>15. Listeners'
       <2> SUFFICES ASSUME NEW f \in Feed
                    PROVE  /\ \A o \in subs'[f] : things'[object'[o].id] = o /\ object'[o].id \notin inserted
                           /\ feed[f] \in {"new", "closed"} => subs'[f] = {}
                           /\ feed[f] = "open" => \A u \in Mapped' \ inserted : things'[u] \in subs'[f]
           BY <1>1, <1>3 DEF Listeners
       <2>1. /\ feed[f] \in {"new", "closed"} => subs[f] = {}
             /\ feed[f] = "open" => \A u \in Mapped \ inserted : things[u] \in subs[f]
             BY DEF Holds, Listeners
       <2>2. \A o \in subs'[f] : things'[object'[o].id] = o /\ object'[o].id \notin inserted
             BY <1>4, <1>5, <1>12, <1>13
       <2>3. \A u \in Mapped : u \in Thing /\ object[things[u]].id = u
             BY <1>14 DEF Mapped
       <2> QED BY <1>4, <1>7, <1>13, <2>1, <2>2, <2>3
<1>16. Shown'
       <2> SUFFICES ASSUME NEW f \in Feed, NEW u \in Thing
                    PROVE  /\ feed[f] \in {"new", "opening"} /\ things'[u] \notin subs'[f]
                                => shown'[f][u] = "absent"
                           /\ feed[f] = "open" /\ u \notin inserted =>
                                shown'[f][u] = IF things'[u] = 0 THEN "absent"
                                               ELSE State(object'[things'[u]].connected)
           BY <1>1 DEF Shown
       <2>1. /\ feed[f] \in {"new", "opening"} /\ things[u] \notin subs[f] => shown[f][u] = "absent"
             /\ feed[f] = "open" /\ u \notin inserted =>
                  shown[f][u] = IF things[u] = 0 THEN "absent" ELSE State(object[things[u]].connected)
             BY DEF Holds, Shown
       <2>2. 0 \notin subs[f] /\ (feed[f] = "open" /\ t \notin inserted /\ things[t] # 0 => things[t] \in subs[f])
             BY <1>12 DEF Holds, Listeners, Mapped
       <2>3. CASE u = t
             BY <1>2, <1>4, <2>1, <2>2, <2>3
       <2>4. CASE u # t
             <3>1. things[u] \in subs[f] => things[u] \in subs'[f]
                   BY <1>12, <1>13, <1>14, <2>2, <2>4
             <3> QED BY <1>4, <1>6, <2>1, <2>4, <3>1
       <2> QED BY <2>3, <2>4
<1>17. Heard'
       <2>1. \A u \in Mapped' : u \in Mapped /\ u # t /\ things'[u] = things[u] /\ object'[things[u]] = object[things[u]]
             BY <1>4, <1>6, <1>7 DEF Mapped
       <2> QED BY <1>1, <1>7, <2>1 DEF Holds, Heard
<1> QED BY <1>8, <1>9, <1>10, <1>11, <1>15, <1>16, <1>17 DEF Holds

\* Every step keeps the inductive invariant.
LEMMA FeedInvKept == FeedInv /\ [Next]_vars => FeedInv'
<1> SUFFICES ASSUME FeedInv, [Next]_vars, Undisturbed' PROVE Holds'
    BY TypesKept DEF FeedInv
<1>0. TypeInv /\ Holds
      BY MishapsStay DEF FeedInv
<1>1. CASE Read
      BY <1>0, <1>1, ReadHolds
<1>2. CASE Loaded
      BY <1>0, <1>2, LoadedHolds
<1>3. CASE Go
      BY <1>0, <1>3, GoHolds
<1>4. ASSUME NEW t \in Thing,
             \/ t \in Present /\ DeviceAdded(t)
             \/ DeviceRemoved(t)
             \/ (\E to \in BOOLEAN : DeviceConnected(t, to)) \/ Post(t)
             \/ Inserted(t) \/ Announced(t) \/ Updated(t) \/ Delete(t) \/ Deleted(t)
      PROVE  Holds'
      BY <1>0, <1>4, AddedHolds, RemovedHolds, ToldHolds, PostHolds, InsertedHolds, AnnouncedHolds,
         UpdatedHolds, DeleteHolds, DeletedHolds
<1>5. ASSUME NEW f \in Feed, Open(f) \/ Close(f) PROVE Holds'
      BY <1>0, <1>5, OpenHolds, CloseHolds
<1>6. ASSUME NEW w \in Watcher, Watch(w) \/ Leave(w) PROVE Holds'
      BY <1>0, <1>6, WatchHolds, LeaveHolds
<1>7. CASE UNCHANGED vars
      <2>1. UNCHANGED <<rows, things, object, load, snapshot, waiting, now, device, making, inserted,
                        feed, subs, leaked, shown, watcher, found, heard, missed, forgotten>>
            BY <1>7 DEF vars, storeVars, objectVars, requestVars, feedVars, watcherVars, historyVars
      <2> QED BY <1>0, <2>1, HoldsStays
<1> QED BY <1>1, <1>2, <1>3, <1>4, <1>5, <1>6, <1>7 DEF Next

\* The invariant holds of all behaviours.
LEMMA FeedInvHolds == Spec => []FeedInv
BY HoldsAtStart, FeedInvKept, PTL DEF Spec

-----------------------------------------------------------------------------
(* What the runs check.                                                    *)

\* A websocket that is closed listens to no thing, as long as none is closed
\* while it is opened, or opened in the middle of a creation (cleanup); it is
\* still told of changes of the layout.
THEOREM ListenersGone == Spec => [](Undisturbed => NoThingListenerLeft)
<1>1. FeedInv => (Undisturbed => NoThingListenerLeft)
      BY DEF FeedInv, Holds, Listeners, NoThingListenerLeft
<1> QED BY <1>1, FeedInvHolds, PTL

\* What clients are shown, what the things say and what was heard of their
\* devices agree, whatever is made, removed, loaded and heard in whatever
\* order, as long as no mishap happens (Thing.addConnectedSubscription,
\* Things.handleNewThing, handleThingRemoved, handleConnected).
THEOREM ConnectionsAgree == Spec => [](Undisturbed => ConnectionsShown)
<1>1. ASSUME FeedInv, Undisturbed PROVE FeedFollows
      BY <1>1 DEF FeedInv, Holds, Shown, FeedFollows
<1>2. ASSUME FeedInv, Undisturbed PROVE ConnectedAsHeard
      <2> SUFFICES ASSUME Steady, NEW t \in Mapped, t \notin missed
                   PROVE  object[things[t]].connected = heard[t]
          BY DEF ConnectedAsHeard
      <2>1. Silent(now, t)
            BY QueueEmpty DEF Steady
      <2> QED BY <1>2, <2>1 DEF FeedInv, Holds, Heard
<1>3. FeedInv => (Undisturbed => ConnectionsShown)
      BY <1>1, <1>2 DEF ConnectionsShown
<1> QED BY <1>3, FeedInvHolds, PTL

\* Every device no thing is made of is offered to those who watch for new
\* things, and no device that is a thing is, but when writing its row ends, as
\* long as no mishap happens (registerWebsocket, getNewThings, handleNewThing).
THEOREM StrangersSeen == Spec /\ []Undisturbed => StrangersOffered
<1>1. ASSUME FeedInv, Undisturbed PROVE StrangersAreOffered
      <2> SUFFICES ASSUME Steady, NEW w \in Watcher, watcher[w] = "open",
                          NEW t \in device \ (Mapped \union forgotten \union spoiled)
                   PROVE  t \in found[w]
          BY DEF StrangersAreOffered
      <2>1. \A m : ~In(m, now) /\ ~In(m, waiting)
            BY QueueEmpty DEF Steady
      <2> QED BY <1>1, <2>1 DEF FeedInv, Holds, Offered
<1>2. ASSUME FeedInv, Undisturbed, [Next]_vars PROVE OnlyStrangersOffered \/ UNCHANGED vars
      <2>0. TypeInv /\ Holds
            BY <1>2 DEF FeedInv
      <2>1. CASE Go
            <3>1. rows = Mapped
                  BY <2>0, <2>1 DEF Go, Holds, MapIsTable
            <3>2. PICK k : TakeUp(k) \/ TakeState(k) \/ Create(k) \/ Follow(k) \/ Offer(k)
                  BY <2>1 DEF Go
            <3>3. CASE TakeUp(k)
                  <4>1. \/ found' = found
                        \/ /\ things[k.thing] = 0
                           /\ found' = [w \in Watcher |-> IF watcher[w] \in {"opening", "open"}
                                                            THEN found[w] \union {k.thing} ELSE found[w]]
                        BY <3>3 DEF TakeUp, Tell
                  <4> QED BY <3>1, <4>1 DEF Mapped, OnlyStrangersOffered
            <3>4. CASE Offer(k)
                  <4>1. \/ found' = found
                        \/ found' = [found EXCEPT ![k.watcher] = @ \union (device \ Mapped)]
                        BY <3>4 DEF Offer, watcherVars
                  <4>2. \A w \in Watcher : found'[w] \subseteq found[w] \union (device \ Mapped)
                        BY <2>0, <4>1 DEF TypeInv, PlainTypes
                  <4> QED BY <3>1, <4>2 DEF OnlyStrangersOffered
            <3>5. CASE TakeState(k) \/ Create(k) \/ Follow(k)
                  BY <3>5 DEF TakeState, Create, Follow, watcherVars, OnlyStrangersOffered
            <3> QED BY <3>2, <3>3, <3>4, <3>5
      <2>2. CASE Read \/ Loaded
            BY <2>2 DEF Read, Loaded, watcherVars, OnlyStrangersOffered
      <2>3. ASSUME NEW t \in Thing,
                   \/ DeviceAdded(t) \/ DeviceRemoved(t) \/ (\E to \in BOOLEAN : DeviceConnected(t, to))
                   \/ Post(t) \/ Inserted(t) \/ Announced(t) \/ Delete(t) \/ Deleted(t)
            PROVE  OnlyStrangersOffered
            BY <2>3 DEF DeviceAdded, DeviceRemoved, DeviceConnected, Post, Inserted, Announced, Delete,
                        Deleted, watcherVars, OnlyStrangersOffered
      <2>4. ASSUME NEW f \in Feed, Open(f) \/ Close(f) PROVE OnlyStrangersOffered
            BY <2>4 DEF Open, Close, watcherVars, OnlyStrangersOffered
      <2>5. ASSUME NEW w \in Watcher, Watch(w) \/ Leave(w) PROVE OnlyStrangersOffered
            <3>1. found' = found \/ found' = [found EXCEPT ![w] = {}]
                  BY <2>5 DEF Watch, Leave
            <3>2. \A v \in Watcher : found'[v] \subseteq found[v]
                  BY <2>0, <3>1 DEF TypeInv, PlainTypes
            <3> QED BY <3>2 DEF OnlyStrangersOffered
      <2>6. ASSUME NEW t \in Thing, Updated(t) PROVE OnlyStrangersOffered
            <3>1. /\ t \in updating /\ updating' = updating \ {t}
                  /\ \A w \in Watcher : found'[w] \subseteq found[w] \union {t}
                  BY <2>6 DEF Updated, Tell
            <3> QED BY <3>1 DEF OnlyStrangersOffered
      <2> QED BY <1>2, <2>1, <2>2, <2>3, <2>4, <2>5, <2>6 DEF Next
<1>3. FeedInv /\ Undisturbed /\ FeedInv' /\ Undisturbed' /\ [Next]_vars
        => [OnlyStrangersOffered /\ StrangersAreOffered']_vars
      <2>1. FeedInv' /\ Undisturbed' => StrangersAreOffered'
            BY <1>1, PTL
      <2> QED BY <1>2, <2>1
<1> QED BY <1>3, FeedInvHolds, PTL DEF Spec, StrangersOffered
=============================================================================
