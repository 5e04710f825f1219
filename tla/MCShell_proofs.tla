---------------------------- MODULE MCShell_proofs ----------------------------
(***************************************************************************)
(* What is around the pages, for every value of the constants: one view    *)
(* and its messages are seen, the page that is open is shown, what is      *)
(* dragged goes where it is shown, and the floorplan shows things where    *)
(* they are.  Each part has an inductive invariant of its own; a step of   *)
(* ShellSpec is a step of one part and leaves the others alone, so each    *)
(* invariant holds of it.                                                  *)
(***************************************************************************)
EXTENDS MCShell, TLAPS, FiniteSetTheorems, SequenceTheorems, WellFoundedInduction

\* The k-th of a set of numbers.
NthOf(K, k) == CHOOSE i \in K : Cardinality({j \in K : j <= i}) = k

\* Each number of a finite set is the k-th of it, for one k.
LEMMA EachIsNth ==
  ASSUME NEW K, K \subseteq Nat, IsFiniteSet(K)
  PROVE  /\ Cardinality(K) \in Nat
         /\ \A k \in 1 .. Cardinality(K) : NthOf(K, k) \in K
         /\ \A i \in K : \E k \in 1 .. Cardinality(K) : NthOf(K, k) = i
<1> DEFINE upto(i) == {j \in K : j <= i}
           nth(k) == CHOOSE i \in K : Cardinality(upto(i)) = k
<1>1. K \subseteq Nat
      OBVIOUS
<1>3. IsFiniteSet(K) /\ Cardinality(K) \in Nat
      BY FS_CardinalityType
<1>4. \A i \in K : upto(i) \subseteq K /\ IsFiniteSet(upto(i)) /\ i \in upto(i)
      BY <1>1, <1>3, FS_Subset
<1>5. ASSUME NEW i \in K PROVE Cardinality(upto(i)) \in 1 .. Cardinality(K)
      <2>1. Cardinality(upto(i)) \in Nat /\ Cardinality(upto(i)) <= Cardinality(K)
            BY <1>3, <1>4, FS_Subset, FS_CardinalityType
      <2>2. Cardinality(upto(i)) # 0
            BY <1>4, FS_EmptySet
      <2> QED BY <1>3, <2>1, <2>2
<1>6. ASSUME NEW i \in K, NEW j \in K, i < j PROVE Cardinality(upto(i)) < Cardinality(upto(j))
      <2>0. i \in Nat /\ j \in Nat /\ \A k \in K : k \in Nat
            BY <1>1
      <2>1. \A k \in K : k <= i => k <= j
            BY <1>6, <2>0
      <2>2. ~(j <= i) /\ j <= j
            BY <1>6, <2>0
      <2>3. upto(i) \subseteq upto(j) /\ j \notin upto(i) /\ j \in upto(j)
            BY <2>1, <2>2
      <2>4. upto(i) # upto(j)
            BY <2>3
      <2>5. IsFiniteSet(upto(j)) /\ Cardinality(upto(i)) \in Nat /\ Cardinality(upto(j)) \in Nat
            BY <1>4, FS_CardinalityType
      <2>6. Cardinality(upto(i)) <= Cardinality(upto(j))
              /\ Cardinality(upto(i)) # Cardinality(upto(j))
            <3> HIDE DEF upto
            <3> QED BY <2>3, <2>4, <2>5, FS_Subset
      <2> HIDE DEF upto
      <2> QED BY <2>5, <2>6
<1>7. ASSUME NEW i \in K PROVE nth(Cardinality(upto(i))) = i
      <2>1. \A j \in K : Cardinality(upto(j)) = Cardinality(upto(i)) => j = i
            <3> SUFFICES ASSUME NEW j \in K, Cardinality(upto(j)) = Cardinality(upto(i)),
                j # i PROVE FALSE
                OBVIOUS
            <3>1. i < j \/ j < i
                  BY <1>1
            <3> HIDE DEF upto
            <3>2. Cardinality(upto(i)) \in Nat /\ Cardinality(upto(j)) \in Nat
                  BY <1>5, <1>3
            <3>3. Cardinality(upto(i)) < Cardinality(upto(j))
                    \/ Cardinality(upto(j)) < Cardinality(upto(i))
                  BY <1>6, <3>1
            <3> QED BY <3>2, <3>3
      <2> HIDE DEF upto
      <2> QED BY <2>1
<1>8. ASSUME NEW k \in 1 .. Cardinality(K) PROVE nth(k) \in K
      <2> DEFINE n == Cardinality(K)
                 f == [i \in K |-> Cardinality(upto(i))]
      <2>1. n \in Nat /\ IsFiniteSet(1 .. n) /\ Cardinality(1 .. n) = n
            BY <1>3, FS_Interval
      <2>2. \A i, j \in K : Cardinality(upto(i)) = Cardinality(upto(j)) => i = j
            <3> SUFFICES ASSUME NEW i \in K, NEW j \in K,
            Cardinality(upto(i)) = Cardinality(upto(j)) PROVE i = j
                OBVIOUS
            <3>1. nth(Cardinality(upto(i))) = i /\ nth(Cardinality(upto(j))) = j
                  BY <1>7
            <3> HIDE DEF upto, nth
            <3> QED BY <3>1
      <2>3. f \in Injection(K, 1 .. n)
            <3> HIDE DEF upto, n
            <3>1. \A i \in K : Cardinality(upto(i)) \in 1 .. n
                  BY <1>5 DEF n
            <3> QED BY <2>2, <3>1 DEF Injection, IsInjective
      <2>4. f \in Surjection(K, 1 .. n)
            <3> HIDE DEF upto, f
            <3> QED BY <2>1, <2>3, FS_Injection
      <2>5. \E i \in K : Cardinality(upto(i)) = k
            <3> HIDE DEF upto
            <3> QED BY <2>4 DEF Surjection
      <2> HIDE DEF upto
      <2> QED BY <2>5
<1>9. \A k : nth(k) = NthOf(K, k)
      BY DEF NthOf
<1> HIDE DEF upto, nth
<1> QED BY <1>3, <1>5, <1>7, <1>8, <1>9

\* A set of numbers that is not empty has a least one.
LEMMA NatMin ==
  ASSUME NEW T, T \subseteq Nat, T # {}
  PROVE  \E x \in T : \A y \in T : x <= y
<1> DEFINE R == OpToRel(<, Nat)
<1>1. IsWellFoundedOn(R, Nat)
      BY NatLessThanWellFounded, Zenon
<1>2. \A x, y \in Nat : <<y, x>> \in R <=> y < x
      BY DEF OpToRel
<1> HIDE DEF R
<1>3. PICK x \in T : \A y \in T : ~(<<y, x>> \in R)
      BY <1>1, WFMin, Zenon
<1>4. \A y \in T : ~(y < x)
      BY <1>2, <1>3, Zenon
<1>5. \A y \in T : x <= y
      BY <1>4
<1> QED BY <1>5

-----------------------------------------------------------------------------
(* The views and the messages (AppViews, MessageArea).                     *)
\* What the constants of the views and of the message area are.
LEMMA ViewBounds == Shell!AppViewsAssumption
BY AroundAssumption DEF AroundAssumption
\* The addresses of things are of their own.
LEMMA AreaBounds == Messages!MessageAreaAssumption
BY AroundAssumption DEF AroundAssumption

\* A step is a step of the views, or leaves them alone.
LEMMA ViewsMove == [ShellNext]_shellVars => [Shell!Next]_viewsVars
BY DEF ShellNext, shellVars, viewsVars

\* A step is a step of the message area, or leaves it alone.
LEMMA MessagesMove == [ShellNext]_shellVars => [Messages!Next]_messagesVars
BY DEF ShellNext, shellVars, messagesVars

\* Another view is chosen, and extensions are told to show themselves only if they are.
LEMMA ViewChosen ==
  ASSUME Shell!OneViewIsShown, NEW v \in Views \union Extension, NEW on,
         on \subseteq active \union {v}, v \in Views
             => on \subseteq active, Shell!SelectView(v, on)
  PROVE  Shell!OneViewIsShown'
<1>1. /\ views' = (views \ {current}) \union {v} /\ current' = v /\ active' = on \ {displayed}
      /\ displayed' = IF v \in Extension THEN v ELSE Shell!Nothing
      /\ item' = IF v \in Views \union Listed THEN v ELSE item
      BY DEF Shell!SelectView, Shell!Hidden, Shell!SelectItem
<1>2. Views \cap Extension = {} /\ Listed \subseteq Extension
      BY ViewBounds DEF Shell!AppViewsAssumption, Shell!Id
<1>3. views' = {v}
      BY <1>1 DEF Shell!OneViewIsShown
<1>4. item' = v \/ v \in Extension \ Listed
      BY <1>1
<1>5. active' \subseteq {displayed'}
      BY <1>1, <1>2 DEF Shell!OneViewIsShown
<1> QED BY <1>1, <1>3, <1>4, <1>5 DEF Shell!OneViewIsShown

\* One view is shown at first.
LEMMA ViewStarts == Shell!Init => Shell!OneViewIsShown
<1>1. Home \notin Extension
      BY ViewBounds DEF Shell!AppViewsAssumption, Shell!Id
<1> QED BY <1>1 DEF Shell!Init, Shell!OneViewIsShown

\* No other view is chosen.
LEMMA ViewStays ==
  Shell!OneViewIsShown /\ UNCHANGED <<views, current, displayed, active, item>>
      => Shell!OneViewIsShown'
BY DEF Shell!OneViewIsShown

\* Every step keeps to one view.
LEMMA ViewSteps == Shell!OneViewIsShown /\ [Shell!Next]_viewsVars => Shell!OneViewIsShown'
<1> SUFFICES ASSUME Shell!OneViewIsShown, [Shell!Next]_viewsVars PROVE Shell!OneViewIsShown'
    OBVIOUS
<1>1. ASSUME NEW v \in Views, Shell!Show(v) PROVE Shell!OneViewIsShown'
      BY <1>1, ViewChosen DEF Shell!Show
<1>2. ASSUME NEW x \in Extension, Shell!Loaded(x) PROVE Shell!OneViewIsShown'
      <2>1. Views \cap Extension = {}
            BY ViewBounds DEF Shell!AppViewsAssumption, Shell!Id
      <2>2. Shell!SelectView(x, active \union {x})
            BY <1>2 DEF Shell!Loaded
      <2> QED BY <2>1, <2>2, ViewChosen
<1>3. ASSUME NEW x \in Shell!Id, Shell!Checked(x) PROVE Shell!OneViewIsShown'
      <2>1. Home \in Views
            BY ViewBounds DEF Shell!AppViewsAssumption
      <2>2. CASE Shell!SelectView(Home, active)
            BY <2>1, <2>2, ViewChosen
      <2>3. CASE UNCHANGED <<views, current, displayed, active, item>>
            BY <2>3, ViewStays
      <2> QED BY <1>3, <2>2, <2>3 DEF Shell!Checked
<1>4. ASSUME NEW x \in Shell!Id, Shell!Open(x) PROVE Shell!OneViewIsShown'
      BY <1>4, ViewStays DEF Shell!Open
<1>5. ASSUME NEW x \in Extension, Shell!LoadFails(x) \/ Shell!RegisterExtension(x)
      PROVE  Shell!OneViewIsShown'
      BY <1>5, ViewStays DEF Shell!LoadFails, Shell!RegisterExtension
<1>6. CASE UNCHANGED viewsVars
      BY <1>6, ViewStays DEF viewsVars
<1> QED BY <1>1, <1>2, <1>3, <1>4, <1>5, <1>6 DEF Shell!Next

\* What the area is.
AreaText == {"", "message", Messages!Unreachable, Messages!Disconnected}
Area == [text : AreaText, visible : BOOLEAN, blocked : BOOLEAN, timer : Nat, timers : SUBSET Nat]

\* What is blocked stays, and what is not goes after its own time.
AreaKept(a) == /\ a.blocked
                   => a.visible /\ a.timers = {}
                       /\ a.text \in {Messages!Unreachable, Messages!Disconnected}
               /\ ~a.blocked /\ a.visible => a.timer # Messages!Quiet /\ a.timers = {a.timer}
               /\ ~a.visible => a.timers = {}

\* The inductive invariant of the messages.
MessagesInv == /\ area \in Area /\ AreaKept(area) /\ events \in Nat
               /\ place = "list"
                   => pages = {} /\ (area.blocked => area.text = Messages!Unreachable)
               /\ overlay <=> status = "offline"

\* What the invariant says of the messages.
LEMMA MessagesAreKept == MessagesInv => Messages!MessagesKept
BY DEF MessagesInv, Messages!MessagesKept, AreaKept

\* At first there is none.
LEMMA EmptyArea == Messages!Empty \in Area /\ AreaKept(Messages!Empty) /\ ~Messages!Empty.blocked
<1>1. Messages!Empty.text = "" /\ Messages!Empty.visible = FALSE
        /\ Messages!Empty.blocked = FALSE /\ Messages!Empty.timer = 0
        /\ Messages!Empty.timers = {}
      BY DEF Messages!Empty, Messages!Quiet
<1>2. Messages!Empty \in Area
      BY Zenon DEF Messages!Empty, Area, AreaText, Messages!Quiet
<1> QED BY <1>1, <1>2 DEF AreaKept

\* The invariant holds at first.
LEMMA MessagesStart == Messages!Init => MessagesInv
<1> SUFFICES ASSUME Messages!Init PROVE MessagesInv
    OBVIOUS
<1>1. area = Messages!Empty /\ pages = {} /\ status = "none" /\ overlay = FALSE /\ events = 0
      BY DEF Messages!Init
<1> QED BY <1>1, EmptyArea DEF MessagesInv

\* A message, with its own time or persistent.
LEMMA MessageIs ==
  ASSUME NEW a \in Area, AreaKept(a), NEW text \in AreaText, NEW number \in Nat
  PROVE  /\ Messages!Message(a, text, number) \in Area
         /\ Messages!Message(a, text, number).blocked = a.blocked
         /\ Messages!Message(a, text, number).timers = IF a.blocked
             \/ number = Messages!Quiet THEN {} ELSE {number}
         /\ Messages!Message(a, text, number).text = IF a.blocked THEN a.text ELSE text
         /\ Messages!Message(a, text, number).visible
         /\ ~a.blocked => Messages!Message(a, text, number).timer = number
<1>1. a.timers \subseteq {a.timer} /\ (a.blocked => a.visible)
      BY DEF AreaKept
<1> DEFINE b == Messages!Untimed(a, number)
<1>2. /\ b \in Area /\ b.text = a.text /\ b.visible = a.visible /\ b.blocked = a.blocked
      /\ b.timers = {}
      <2>1. b = [a EXCEPT !.timer = 0, !.timers = a.timers \ {a.timer}]
            BY DEF Messages!Untimed, Messages!Quiet
      <2>2. a.timers \ {a.timer} = {}
            BY <1>1
      <2>3. b = [a EXCEPT !.timer = 0, !.timers = {}]
            BY <2>1, <2>2
      <2> HIDE DEF b
      <2> QED BY <2>3 DEF Area
<1> HIDE DEF b
<1>3. CASE a.blocked
      <2>1. Messages!Message(a, text, number) = b
            BY <1>3 DEF Messages!Message, b
      <2> QED BY <1>1, <1>2, <1>3, <2>1
<1>4. CASE ~a.blocked
      <2> DEFINE T == IF number = Messages!Quiet THEN b.timers ELSE b.timers \union {number}
      <2>1. Messages!Message(a, text, number) = [b EXCEPT !.text = text, !.visible = TRUE,
              !.timer = number, !.timers = T]
            BY <1>4 DEF Messages!Message, b
      <2>2. T = (IF number = Messages!Quiet THEN {} ELSE {number}) /\ T \in SUBSET Nat
            BY <1>2
      <2> HIDE DEF T
      <2> QED BY <1>2, <1>4, <2>1, <2>2 DEF Area
<1> QED BY <1>3, <1>4

\* A message with a time to live.
LEMMA MessageKept ==
  ASSUME NEW a \in Area, AreaKept(a), NEW number \in Nat \ {0}
  PROVE  /\ Messages!Message(a, "message", number) \in Area
         /\ AreaKept(Messages!Message(a, "message", number))
         /\ Messages!Message(a, "message", number).blocked = a.blocked
         /\ a.blocked => Messages!Message(a, "message", number).text = a.text
<1> DEFINE m == Messages!Message(a, "message", number)
<1>1. /\ m \in Area /\ m.blocked = a.blocked
          /\ m.timers = (IF a.blocked \/ number = Messages!Quiet THEN {} ELSE {number})
      /\ m.text = (IF a.blocked THEN a.text ELSE "message") /\ m.visible
      /\ ~a.blocked => m.timer = number
      BY ZenonT(60), MessageIs DEF AreaText
<1> HIDE DEF m
<1>2. AreaKept(m)
      BY <1>1 DEF AreaKept, Messages!Quiet
<1> QED BY <1>1, <1>2 DEF m

\* A persistent message.
LEMMA PersistentKept ==
  ASSUME NEW a \in Area, AreaKept(a), NEW text \in {Messages!Unreachable, Messages!Disconnected}
  PROVE  /\ Messages!Persistent(a, text) \in Area /\ AreaKept(Messages!Persistent(a, text))
         /\ Messages!Persistent(a, text).text = IF a.blocked THEN a.text ELSE text
<1> DEFINE m == Messages!Message(a, text, Messages!Quiet)
           p == Messages!Persistent(a, text)
<1>1. /\ m \in Area /\ m.blocked = a.blocked /\ m.timers = {}
      /\ m.text = (IF a.blocked THEN a.text ELSE text) /\ m.visible
      <2>1. text \in AreaText /\ Messages!Quiet \in Nat
            BY DEF AreaText, Messages!Quiet
      <2> QED BY <2>1, MessageIs
<1>2. p = [m EXCEPT !.blocked = TRUE]
      BY DEF Messages!Persistent
<1> HIDE DEF m, p
<1>3. p \in Area /\ p.blocked = TRUE /\ p.timers = m.timers /\ p.text = m.text
        /\ p.visible = m.visible
      BY <1>1, <1>2 DEF Area
<1>4. AreaKept(p)
      BY <1>1, <1>3 DEF AreaKept
<1> QED BY <1>1, <1>3, <1>4 DEF p

\* A persistent message is hidden.
LEMMA HiddenKept ==
  ASSUME NEW a \in Area, AreaKept(a)
  PROVE  Messages!Hidden(a) \in Area /\ AreaKept(Messages!Hidden(a))
             /\ ~Messages!Hidden(a).blocked
<1>1. CASE a.blocked
      <2> DEFINE h == Messages!Hidden(a)
      <2>1. h = [a EXCEPT !.visible = FALSE, !.blocked = FALSE]
            BY <1>1 DEF Messages!Hidden
      <2> HIDE DEF h
      <2>2. h \in Area /\ h.visible = FALSE /\ h.blocked = FALSE /\ h.timers = a.timers
            BY <2>1 DEF Area
      <2>3. AreaKept(h)
            BY <1>1, <2>2 DEF AreaKept
      <2> QED BY <2>2, <2>3 DEF h
<1>2. CASE ~a.blocked
      BY <1>2 DEF Messages!Hidden
<1> QED BY <1>1, <1>2

\* Each step keeps the area, and what is shown on the list.
LEMMA MessagesSteps == MessagesInv /\ [Messages!Next]_messagesVars => MessagesInv'
<1> SUFFICES ASSUME MessagesInv, [Messages!Next]_messagesVars PROVE MessagesInv'
    OBVIOUS
<1>0. /\ area \in Area /\ AreaKept(area) /\ events \in Nat
      /\ place = "list" => pages = {} /\ (area.blocked => area.text = Messages!Unreachable)
      /\ overlay <=> status = "offline"
      BY DEF MessagesInv
<1>1. CASE Messages!ShowMessage
      <2>1. events' \in Nat \ {0} /\ area' = Messages!Message(area, "message", events')
            /\ UNCHANGED <<place, pages, status, overlay>>
            BY <1>0, <1>1 DEF Messages!ShowMessage, Messages!Counts, Messages!Pinger
      <2>2. /\ area' \in Area /\ AreaKept(area') /\ area'.blocked = area.blocked
            /\ area.blocked => area'.text = area.text
            BY <1>0, <2>1, MessageKept
      <2> QED BY <1>0, <2>1, <2>2 DEF MessagesInv, AreaKept
<1>2. CASE Messages!ShowList
      <2>1. events' \in Nat /\ area' = Messages!HiddenIf(area, Messages!Disconnected)
              /\ pages' = {}
            /\ UNCHANGED <<status, overlay>>
            BY <1>0, <1>2 DEF Messages!ShowList, Messages!Counts, Messages!Pinger
      <2>2. CASE area.text = Messages!Disconnected
            <3>1. area' \in Area /\ AreaKept(area') /\ ~area'.blocked
                  BY <1>0, <2>1, <2>2, HiddenKept DEF Messages!HiddenIf
            <3> QED BY <1>0, <2>1, <3>1 DEF MessagesInv, AreaKept
      <2>3. CASE area.text # Messages!Disconnected
            <3>1. area' = area /\ (area.blocked => area.text = Messages!Unreachable)
                  BY <1>0, <2>1, <2>3 DEF Messages!HiddenIf, AreaKept
            <3> QED BY <1>0, <2>1, <3>1 DEF MessagesInv, AreaKept
      <2> QED BY <2>2, <2>3
<1>3. CASE Messages!ShowOther
      BY <1>0, <1>3
         DEF Messages!ShowOther, Messages!Counts, Messages!Pinger, MessagesInv, AreaKept
<1>4. ASSUME NEW t \in Thing, Messages!ShowThing(t) PROVE MessagesInv'
      <2>1. events' \in Nat /\ place' # "list" /\ UNCHANGED <<status, overlay>>
            /\ area' \in {area, Messages!Persistent(area, Messages!Disconnected)}
            BY <1>0, <1>4, AreaBounds
               DEF Messages!ShowThing, Messages!Counts, Messages!Pinger, Messages!Drawn,
                   Messages!MessageAreaAssumption
      <2>2. area' \in Area /\ AreaKept(area')
            BY <1>0, <2>1, PersistentKept
      <2> QED BY <1>0, <2>1, <2>2 DEF MessagesInv, AreaKept
<1>5. ASSUME NEW t \in Thing, Messages!Connected(t) PROVE MessagesInv'
      <2>1. events' \in Nat /\ UNCHANGED <<place, pages, status, overlay>>
            /\ \/ area' = area
               \/ place # "list" /\ area' = Messages!Hidden(area)
               \/ place # "list" /\ area' = Messages!Persistent(area, Messages!Disconnected)
            <3>1. area' = CASE t \notin pages -> area
                            [] t \in pages /\ ~connected[t] -> Messages!Hidden(area)
                            [] t \in pages
                                /\ connected[t] -> Messages!Persistent(area,
                                    Messages!Disconnected)
                  BY <1>5 DEF Messages!Connected
            <3>2. CASE t \notin pages
                  <4>1. area' = area
                        BY Zenon, <3>1, <3>2
                  <4> QED BY <1>0, <1>5, <4>1
                     DEF Messages!Connected, Messages!Counts, Messages!Pinger
            <3>3. CASE t \in pages /\ ~connected[t]
                  <4>1. area' = Messages!Hidden(area)
                        BY Zenon, <3>1, <3>3
                  <4> QED BY <1>0, <1>5, <3>3, <4>1
                     DEF Messages!Connected, Messages!Counts, Messages!Pinger
            <3>4. CASE t \in pages /\ connected[t]
                  <4>1. area' = Messages!Persistent(area, Messages!Disconnected)
                        BY Zenon, <3>1, <3>4
                  <4> QED BY <1>0, <1>5, <3>4, <4>1
                     DEF Messages!Connected, Messages!Counts, Messages!Pinger
            <3> QED BY <3>2, <3>3, <3>4
      <2>2. area' \in Area /\ AreaKept(area')
            <3>1. Messages!Disconnected \in {Messages!Unreachable, Messages!Disconnected}
                  OBVIOUS
            <3>2. Messages!Persistent(area, Messages!Disconnected) \in Area
                    /\ AreaKept(Messages!Persistent(area, Messages!Disconnected))
                  BY <1>0, <3>1, PersistentKept
            <3>3. Messages!Hidden(area) \in Area /\ AreaKept(Messages!Hidden(area))
                  BY <1>0, HiddenKept
            <3> QED BY <1>0, <2>1, <3>2, <3>3
      <2>3. AreaKept(area)'
            BY <2>2 DEF AreaKept
      <2> QED BY <1>0, <2>1, <2>2, <2>3 DEF MessagesInv
<1>6. CASE Messages!Answered
      <2>1. CASE status = "offline"
            <3>1. /\ pages' = (IF place \in Thing THEN {place} ELSE {}) /\ status' = "none"
                      /\ overlay' = FALSE
                  /\ area' \in {Messages!Empty,
                      Messages!Persistent(Messages!Empty, Messages!Disconnected)}
                  /\ place \notin Thing => area' = Messages!Empty
                  /\ UNCHANGED <<place, events>>
                  BY <1>6, <2>1 DEF Messages!Answered
            <3>2. "list" \notin Thing
                  BY AreaBounds DEF Messages!MessageAreaAssumption
            <3>3. area' \in Area /\ AreaKept(area')
                  BY <3>1, EmptyArea, PersistentKept
            <3> QED BY <1>0, <3>1, <3>2, <3>3, EmptyArea DEF MessagesInv, AreaKept
      <2>2. CASE status # "offline"
            <3>1. /\ area' = Messages!HiddenIf(area, Messages!Unreachable) /\ status' = "online"
                  /\ overlay' = FALSE
                  /\ UNCHANGED <<place, pages, events>>
                  BY <1>6, <2>2 DEF Messages!Answered
            <3>2. area' = area \/ (area' \in Area /\ AreaKept(area') /\ ~area'.blocked)
                  BY <1>0, <3>1, HiddenKept DEF Messages!HiddenIf
            <3> QED BY <1>0, <3>1, <3>2 DEF MessagesInv, AreaKept
      <2> QED BY <2>1, <2>2
<1>7. CASE Messages!Failed
      <2>1. UNCHANGED <<place, pages, events>>
            BY <1>7 DEF Messages!Failed
      <2>2. CASE overlay' = TRUE /\ status' = "offline"
                   /\ area' = Messages!Persistent(area, Messages!Unreachable)
            <3>1. /\ area' \in Area /\ AreaKept(area')
                  /\ area'.text = IF area.blocked THEN area.text ELSE Messages!Unreachable
                  BY <1>0, <2>2, PersistentKept
            <3> QED BY <1>0, <2>1, <2>2, <3>1 DEF MessagesInv, AreaKept
      <2>3. CASE UNCHANGED <<overlay, status, area>>
            BY <1>0, <2>1, <2>3 DEF MessagesInv, AreaKept
      <2> QED BY <1>7, <2>2, <2>3 DEF Messages!Failed
<1>8. ASSUME NEW number \in 1 .. MaxEvents, Messages!Expire(number) PROVE MessagesInv'
      <2>1. /\ number \in area.timers /\ UNCHANGED <<place, pages, status, overlay, events>>
            /\ area' = [area EXCEPT !.timers = area.timers \ {number}, !.timer = 0,
                !.visible = FALSE]
            BY <1>8 DEF Messages!Expire, Messages!Pinger, Messages!Quiet
      <2>2. ~area.blocked /\ area.timers = {number}
            BY <1>0, <2>1 DEF AreaKept
      <2>3. area.timers \ {number} = {}
            BY <2>2
      <2>4. /\ area' \in Area /\ area'.timers = {} /\ area'.visible = FALSE
            /\ area'.blocked = area.blocked
            BY <1>0, <2>1, <2>3 DEF Area
      <2> QED BY <1>0, <2>1, <2>2, <2>4 DEF MessagesInv, AreaKept
<1>9. CASE UNCHANGED messagesVars
      BY <1>0, <1>9 DEF messagesVars, MessagesInv, AreaKept
<1> QED BY <1>1, <1>2, <1>3, <1>4, <1>5, <1>6, <1>7, <1>8, <1>9 DEF Messages!Next

\* One view is to be seen, the menu marks it, and no extension goes on working behind another; a
\* persistent message stays until something hides it, and any other goes after its own time.  It
\* holds for any views, extensions and things, however addresses, loads, timers, pings and news
\* of connections overtake one another (App.selectView, showMessage, startPinger).
THEOREM ShellIsRight == ShellSpec => []ShellTells
<1>1. ShellInit => Shell!OneViewIsShown /\ MessagesInv
      BY ViewStarts, MessagesStart DEF ShellInit
<1>2. Shell!OneViewIsShown /\ MessagesInv /\ [ShellNext]_shellVars
        => Shell!OneViewIsShown' /\ MessagesInv'
      BY ViewsMove, MessagesMove, ViewSteps, MessagesSteps
<1>3. Shell!OneViewIsShown /\ MessagesInv => ShellTells
      BY MessagesAreKept DEF ShellTells
<1> QED BY <1>1, <1>2, <1>3, PTL DEF ShellSpec

-----------------------------------------------------------------------------
(* The page of the things (ThingsScreen).                                  *)
\* The pages that follow the model, and its jobs.
FollowedPages == {Screen!List} \cup [page : {"one"}, thing : Thing]
AskJob == [of : Thing \cup {Screen!All}, draws : Screen!Page \cup {Screen!Nobody}]

\* What is of which type; the model knows no thing the gateway does not have.
ScreenTyped ==
  /\ exists \subseteq Thing /\ learned \subseteq exists
  /\ jobs \in Seq(AskJob) /\ stuck \in BOOLEAN /\ strange \in BOOLEAN
  /\ address \in Screen!Page /\ shows \in Screen!Page \cup {Screen!NotFound}

\* One page follows: that of the address, if it is the list or a thing.
FollowsOne ==
  \E p \in FollowedPages :
    /\ follows = {p}
    /\ address.page \in {"list", "one"} => address = p
    /\ ~strange => ~Screen!Waits(p, learned)

\* As long as nothing strange was opened, no job is for a page.
NothingStrange ==
  ~strange => /\ ~stuck
              /\ \A i \in DOMAIN jobs : jobs[i].draws = Screen!Nobody
              /\ address.page \in {"list", "one"} => shows = address

\* The inductive invariant of the page.
ScreenInv == ScreenTyped /\ FollowsOne /\ NothingStrange

\* What the invariant says of the page.
LEMMA ScreenTells == ScreenInv => Screen!ShowsWhatIsOpen
BY DEF ScreenInv, NothingStrange, Screen!ShowsWhatIsOpen

\* The invariant holds at first.
LEMMA ScreenStarts == Screen!Init => ScreenInv
<1> SUFFICES ASSUME Screen!Init PROVE ScreenInv
    OBVIOUS
<1>1. Screen!List \in Screen!Page /\ Screen!List \in FollowedPages /\ Screen!List.page = "list"
      BY DEF Screen!Page, Screen!List, FollowedPages
<1>2. ScreenTyped
      <2>1. <<>> \in Seq(AskJob)
            OBVIOUS
      <2> QED BY <1>1, <2>1 DEF Screen!Init, ScreenTyped
<1>3. FollowsOne
      BY <1>1 DEF Screen!Init, FollowsOne, Screen!Waits
<1>4. NothingStrange
      BY DEF Screen!Init, NothingStrange
<1> QED BY <1>2, <1>3, <1>4 DEF ScreenInv

\* The pages, and those that may follow the model.
LEMMA ScreenPages ==
  /\ Screen!List \in Screen!Page /\ Screen!List.page = "list"
  /\ \A t \in Thing : \A k \in {"one", "form", "events"} :
       [page |-> k, thing |-> t] \in Screen!Page /\ [page |-> k, thing |-> t].page = k
  /\ \A t \in Thing :
      Screen!One(t) \in Screen!Page /\ Screen!One(t) \in FollowedPages
          /\ Screen!One(t).page = "one"
  /\ FollowedPages \subseteq Screen!Page /\ Screen!List \in FollowedPages
  /\ \A p \in Screen!Page : p.page # "list" => p.thing \in Thing
BY DEF Screen!Page, Screen!List, FollowedPages, Screen!One

\* A job more.
LEMMA JobAsked ==
  ASSUME jobs \in Seq(AskJob), NEW j \in AskJob
  PROVE  /\ Append(jobs, j) \in Seq(AskJob)
         /\ (\A i \in DOMAIN jobs : jobs[i].draws = Screen!Nobody) /\ j.draws = Screen!Nobody
              => \A i \in DOMAIN Append(jobs, j) : Append(jobs, j)[i].draws = Screen!Nobody
BY DEF AskJob

\* The job of a page that waits.
LEMMA JobFor == ASSUME NEW p \in Screen!Page, p.page # "list" PROVE Screen!Job(p) \in AskJob
BY ScreenPages DEF Screen!Job, AskJob

\* An address is opened.
LEMMA AddressOpened ==
  ASSUME ScreenInv, NEW p \in Screen!Page, Screen!Visit(p),
         (p.page \in {"list", "one"} /\ p \in FollowedPages /\ follows' = {p})
           \/ (p.page \notin {"list", "one"} /\ follows' = follows)
  PROVE  ScreenInv'
<1>1. ScreenTyped'
      <2>1. Screen!Waits(p, learned) => Append(jobs, Screen!Job(p)) \in Seq(AskJob)
            BY JobFor, JobAsked DEF Screen!Waits, ScreenInv, ScreenTyped
      <2> QED BY <2>1 DEF Screen!Visit, ScreenInv, ScreenTyped
<1>2. FollowsOne'
      <2>1. CASE p.page \in {"list", "one"}
            BY <2>1 DEF Screen!Visit, FollowsOne, Screen!Waits
      <2>2. CASE p.page \notin {"list", "one"}
            BY <2>2 DEF ScreenInv, Screen!Visit, FollowsOne, Screen!Waits
      <2> QED BY <2>1, <2>2
<1>3. NothingStrange'
      BY DEF ScreenInv, NothingStrange, Screen!Visit
<1> QED BY <1>1, <1>2, <1>3 DEF ScreenInv

\* Which address it may be.
LEMMA AddressKeeps ==
  ASSUME ScreenInv,
         Screen!ShowThings \/ \E t \in Thing :
             Screen!ShowThing(t) \/ Screen!ShowActionInputForm(t) \/ Screen!ShowEvents(t)
  PROVE  ScreenInv'
<1>1. CASE Screen!ShowThings
      BY <1>1, ScreenPages, AddressOpened DEF Screen!ShowThings, Screen!Followed
<1>2. ASSUME NEW t \in Thing, Screen!ShowThing(t) PROVE ScreenInv'
      BY <1>2, ScreenPages, AddressOpened DEF Screen!ShowThing, Screen!Followed
<1>3. ASSUME NEW t \in Thing, NEW k \in {"form", "events"}, UNCHANGED follows,
             Screen!Visit([page |-> k, thing |-> t])
      PROVE  ScreenInv'
      <2>1. [page |-> k, thing |-> t] \in Screen!Page /\ [page |-> k, thing |-> t].page = k
            BY ScreenPages
      <2> QED BY <1>3, <2>1, AddressOpened
<1> QED BY <1>1, <1>2, <1>3 DEF Screen!ShowActionInputForm, Screen!ShowEvents

\* News makes a job.
LEMMA JobAskedKeeps ==
  ASSUME ScreenInv, NEW t \in Thing, Screen!AskAll(t) \/ Screen!Modify(t) PROVE ScreenInv'
<1>1. PICK j \in AskJob : jobs' = Append(jobs, j) /\ j.draws = Screen!Nobody
      BY DEF Screen!AskAll, Screen!Modify, AskJob
<1>2. exists \subseteq exists' /\ exists' \subseteq Thing
      BY DEF Screen!AskAll, Screen!Modify, ScreenInv, ScreenTyped
<1>3. UNCHANGED <<learned, stuck, follows, shows, address, strange>>
      BY DEF Screen!AskAll, Screen!Modify
<1>4. jobs' \in Seq(AskJob)
      BY <1>1, JobAsked DEF ScreenInv, ScreenTyped
<1>5. ~strange => \A i \in DOMAIN jobs' : jobs'[i].draws = Screen!Nobody
      BY <1>1, JobAsked DEF ScreenInv, ScreenTyped, NothingStrange
<1> QED BY <1>2, <1>3, <1>4, <1>5
   DEF ScreenInv, ScreenTyped, FollowsOne, NothingStrange, Screen!Waits

\* A thing is removed.
LEMMA ThingRemoved == ASSUME ScreenInv, NEW t \in Thing, Screen!Remove(t) PROVE ScreenInv'
<1>1. PICK p \in FollowedPages : /\ follows = {p}
                                     /\ (address.page \in {"list", "one"} => address = p)
                                 /\ (~strange => ~Screen!Waits(p, learned))
      BY DEF ScreenInv, FollowsOne
<1>2. /\ exists' = exists \ {t} /\ learned' = learned \ {t}
      /\ UNCHANGED <<stuck, follows, address>>
      /\ t \notin learned => UNCHANGED <<shows, jobs, strange>>
      BY DEF Screen!Remove
<1>3. t \in learned =>
        /\ Screen!Drawing(p, learned')
        /\ jobs' = IF Screen!Waits(p, learned') THEN Append(jobs, Screen!Job(p)) ELSE jobs
        /\ strange' = (strange \/ Screen!Waits(p, learned'))
      BY <1>1 DEF Screen!Remove, Screen!Asking
<1>4. p \in Screen!Page /\ (Screen!Waits(p, learned') => Screen!Job(p) \in AskJob)
      BY JobFor, ScreenPages DEF Screen!Waits
<1>5. ScreenTyped'
      <2>1. jobs' \in Seq(AskJob)
            BY <1>2, <1>3, <1>4, JobAsked DEF ScreenInv, ScreenTyped
      <2> QED BY <1>2, <1>3, <1>4, <2>1 DEF ScreenInv, ScreenTyped, Screen!Drawing
<1>6. FollowsOne'
      BY <1>1, <1>2, <1>3 DEF FollowsOne, ScreenInv, ScreenTyped, Screen!Waits
<1>7. NothingStrange'
      BY <1>1, <1>2, <1>3 DEF NothingStrange, ScreenInv, Screen!Drawing
<1> QED BY <1>5, <1>6, <1>7 DEF ScreenInv

\* The head of the queue is answered.
LEMMA JobAnswered == ASSUME ScreenInv, Screen!Answer PROVE ScreenInv'
<1>1. PICK p \in FollowedPages : /\ follows = {p}
                                     /\ (address.page \in {"list", "one"} => address = p)
                                 /\ (~strange => ~Screen!Waits(p, learned))
      BY DEF ScreenInv, FollowsOne
<1> DEFINE j == Head(jobs)
           hit == j.of = Screen!All \/ j.of \in exists
           knows == IF j.of = Screen!All THEN exists ELSE learned \cup ({j.of} \cap exists)
<1>2. /\ jobs # <<>> /\ learned' = knows /\ UNCHANGED <<exists, follows, address, strange>>
      /\ IF hit /\ Screen!Waits(p, knows)
         THEN stuck' = TRUE /\ jobs' = Append(jobs, Screen!Job(p)) /\ UNCHANGED shows
         ELSE /\ jobs' = Tail(jobs)
              /\ shows' = CASE j.draws # Screen!Nobody /\ ~hit -> Screen!NotFound
                            [] j.draws # Screen!Nobody /\ hit -> j.draws
                            [] j.draws = Screen!Nobody /\ hit -> p
                            [] OTHER -> shows
              /\ UNCHANGED stuck
      BY <1>1 DEF Screen!Answer, Screen!Asking
<1>3. /\ j \in AskJob /\ Tail(jobs) \in Seq(AskJob) /\ 1 \in DOMAIN jobs /\ j = jobs[1]
      /\ \A i \in DOMAIN Tail(jobs) : i + 1 \in DOMAIN jobs /\ Tail(jobs)[i] = jobs[i + 1]
      BY <1>2 DEF ScreenInv, ScreenTyped
<1>4. learned \subseteq knows /\ knows \subseteq exists
      BY DEF ScreenInv, ScreenTyped
<1>5. p \in Screen!Page /\ (Screen!Waits(p, knows) => Screen!Job(p) \in AskJob)
      BY JobFor, ScreenPages DEF Screen!Waits
<1> HIDE DEF j, knows
<1>6. Screen!Waits(p, knows) => Append(jobs, Screen!Job(p)) \in Seq(AskJob)
      BY <1>5, JobAsked DEF ScreenInv, ScreenTyped
<1>7. ~strange => ~Screen!Waits(p, knows)
      BY <1>1, <1>4 DEF Screen!Waits
<1>8. ScreenTyped'
      <2>1. j.draws \in Screen!Page \cup {Screen!Nobody}
            BY <1>3 DEF AskJob
      <2>2. shows' \in Screen!Page \cup {Screen!NotFound}
            BY <1>2, <1>5, <2>1 DEF ScreenInv, ScreenTyped
      <2>3. jobs' \in Seq(AskJob) /\ stuck' \in BOOLEAN
            BY <1>2, <1>3, <1>6 DEF ScreenInv, ScreenTyped
      <2> QED BY <1>2, <1>4, <2>2, <2>3 DEF ScreenInv, ScreenTyped
<1>9. FollowsOne'
      BY <1>1, <1>2, <1>7 DEF FollowsOne
<1>10. NothingStrange'
      <2> SUFFICES ASSUME ~strange
                   PROVE  /\ ~stuck' /\ \A i \in DOMAIN jobs' : jobs'[i].draws = Screen!Nobody
                          /\ address.page \in {"list", "one"} => shows' = address
          BY <1>2 DEF NothingStrange
      <2>1. /\ ~stuck /\ \A i \in DOMAIN jobs : jobs[i].draws = Screen!Nobody
            /\ address.page \in {"list", "one"} => shows = address
            BY DEF ScreenInv, NothingStrange
      <2>2. j.draws = Screen!Nobody
            BY <1>3, <2>1
      <2> QED BY <1>1, <1>2, <1>3, <1>7, <2>1, <2>2
<1> QED BY <1>8, <1>9, <1>10 DEF ScreenInv

\* Every step keeps the invariant.
LEMMA ScreenSteps == ASSUME ScreenInv, [Screen!Next]_screenVars PROVE ScreenInv'
<1>1. CASE UNCHANGED screenVars
      BY <1>1 DEF screenVars, ScreenInv, ScreenTyped, FollowsOne, NothingStrange, Screen!Waits
<1> QED BY <1>1, AddressKeeps, JobAskedKeeps, ThingRemoved, JobAnswered DEF Screen!Next

\* A step is a step of the page, or leaves it alone.
LEMMA ScreenMoves == [ShellNext]_shellVars => [Screen!Next]_screenVars
BY DEF ShellNext, shellVars, screenVars

\* As long as no page is open of a thing the model does not know, the list is shown at its address
\* and a thing at its own, and no job waits for one behind it; for any things, news and addresses,
\* in any order (ThingsScreen.showThings, showThing, GatewayModel.addQueue, refreshThings).
THEOREM ScreenIsRight == ShellSpec => []Screen!ShowsWhatIsOpen
<1>1. ShellInit => ScreenInv
      BY ScreenStarts DEF ShellInit
<1>2. ScreenInv /\ [ShellNext]_shellVars => ScreenInv'
      BY ScreenMoves, ScreenSteps
<1> QED BY <1>1, <1>2, ScreenTells, PTL DEF ShellSpec

-----------------------------------------------------------------------------
(* The floorplan (Floorplan).                                              *)
\* Two places have different numbers.
LEMMA NthDiffers ==
  ASSUME NEW K, K \subseteq Nat, IsFiniteSet(K)
  PROVE  \A j, k \in 1 .. Cardinality(K) : NthOf(K, j) = NthOf(K, k) => j = k
<1> DEFINE n == Cardinality(K)
           f == [k \in 1 .. n |-> NthOf(K, k)]
<1>1. /\ n \in Nat
      /\ \A k \in 1 .. n : NthOf(K, k) \in K
      /\ \A i \in K : \E k \in 1 .. n : NthOf(K, k) = i
      BY EachIsNth
<1>2. IsFiniteSet(1 .. n) /\ Cardinality(1 .. n) = Cardinality(K)
      BY <1>1, FS_Interval
<1>3. f \in Surjection(1 .. n, K)
      <2> HIDE DEF n
      <2> QED BY <1>1 DEF Surjection
<1>4. f \in Injection(1 .. n, K)
      <2> HIDE DEF f, n
      <2> QED BY <1>2, <1>3, FS_SurjSameCardinalityImpliesInj
<1> HIDE DEF n
<1>5. \A j, k \in 1 .. n : f[j] = f[k] => j = k
      <2> HIDE DEF f
      <2> QED BY <1>4 DEF Injection, IsInjective
<1> QED BY <1>5 DEF n

\* What starts as 1, 2, 3 counts itself.
LEMMA NthAtStart ==
  ASSUME NEW K, K \subseteq Nat \ {0}, IsFiniteSet(K),
         NEW m \in Nat, 1 .. m \subseteq K, NEW k \in 1 .. m
  PROVE  NthOf(K, k) = k /\ k \in 1 .. Cardinality(K)
<1> DEFINE upto(i) == {j \in K : j <= i}
<1>1. \A i \in K : upto(i) \subseteq K /\ IsFiniteSet(upto(i))
      BY FS_Subset
<1>0. /\ \A j \in K : j \in Nat /\ 1 <= j
      /\ \A j \in 1 .. m : j \in K
      /\ k \in K /\ k \in Nat /\ k <= m
      OBVIOUS
<1>2. upto(k) = 1 .. k /\ k \in K /\ k \in Nat
      <2>1. \A j \in upto(k) : j \in 1 .. k
            BY <1>0
      <2>2. \A j \in 1 .. k : j \in upto(k)
            BY <1>0
      <2> HIDE DEF upto
      <2> QED BY <1>0, <2>1, <2>2
<1>3. Cardinality(upto(k)) = k
      <2>1. IsFiniteSet(1 .. k) /\ Cardinality(1 .. k) = k
            BY <1>2, FS_Interval
      <2> HIDE DEF upto
      <2> QED BY <1>2, <2>1
<1>4. ASSUME NEW i \in K, Cardinality(upto(i)) = k PROVE i = k
      <2>0. i \in Nat /\ i # 0
            OBVIOUS
      <2>1. CASE i < k
            <3>1. upto(i) = 1 .. i
                  <4>1. \A j \in upto(i) : j \in 1 .. i
                        BY <1>0, <2>0
                  <4>2. \A j \in 1 .. i : j \in upto(i)
                        BY <1>0, <2>0, <2>1
                  <4> HIDE DEF upto
                  <4> QED BY <4>1, <4>2
            <3>2. Cardinality(1 .. i) = i
                  BY <2>0, FS_Interval
            <3> HIDE DEF upto
            <3> QED BY <1>4, <2>0, <2>1, <3>1, <3>2
      <2>2. CASE k < i
            <3>1. upto(k) \subseteq upto(i) /\ i \in upto(i) /\ i \notin upto(k)
                  BY <1>2, <2>0, <2>2
            <3> HIDE DEF upto
            <3>2. IsFiniteSet(upto(i))
                  BY <1>1
            <3>3. upto(k) = upto(i)
                  BY <1>3, <1>4, <3>1, <3>2, FS_Subset
            <3> QED BY <3>1, <3>3
      <2> QED BY <1>2, <2>0, <2>1, <2>2
<1>5. NthOf(K, k) = k
      <2>1. NthOf(K, k) = CHOOSE i \in K : Cardinality(upto(i)) = k
            BY DEF NthOf
      <2> HIDE DEF upto
      <2> QED BY <1>2, <1>3, <1>4, <2>1
<1>6. k \in 1 .. Cardinality(K)
      <2>1. Cardinality(upto(k)) <= Cardinality(K) /\ Cardinality(K) \in Nat
            BY FS_Subset, FS_CardinalityType
      <2> HIDE DEF upto
      <2> QED BY <1>2, <1>3, <2>1
<1> QED BY <1>5, <1>6

\* To count is to count.
LEMMA PlanCounts == \A S : Plan!Cardinality(S) = Cardinality(S)
BY Zenon DEF Plan!Cardinality, Cardinality

\* What the constants of the plan are.
LEMMA PlanBounds == IsFiniteSet(Thing) /\ Point \subseteq Nat \ (Plan!Auto \cup {Plan!Unplaced})
BY AroundAssumption DEF AroundAssumption, Plan!FloorplanAssumption,
       Plan!IsFiniteSet, IsFiniteSet

\* What stands at some places of a sequence: that and no more, each once, and a start that
\* stays whole.
LEMMA AtThoseIs ==
  ASSUME NEW S, NEW s \in Seq(S), NEW K, K \subseteq DOMAIN s
  PROVE  /\ Plan!AtThose(s, K) \in Seq(S)
         /\ \A k \in DOMAIN Plan!AtThose(s, K) : \E i \in K : Plan!AtThose(s, K)[k] = s[i]
         /\ \A i \in K : \E k \in DOMAIN Plan!AtThose(s, K) : Plan!AtThose(s, K)[k] = s[i]
         /\ (\A i, j \in DOMAIN s : s[i] = s[j] => i = j) =>
              \A j, k \in DOMAIN Plan!AtThose(s, K) :
                  Plan!AtThose(s, K)[j] = Plan!AtThose(s, K)[k] => j = k
         /\ \A m \in Nat : 1 .. m \subseteq K =>
              \A k \in 1 .. m : k \in DOMAIN Plan!AtThose(s, K) /\ Plan!AtThose(s, K)[k] = s[k]
<1> DEFINE n == Cardinality(K)
           a == Plan!AtThose(s, K)
<1>1. DOMAIN s = 1 .. Len(s) /\ Len(s) \in Nat /\ K \subseteq Nat \ {0} /\ K \subseteq Nat
      OBVIOUS
<1>2. IsFiniteSet(1 .. Len(s))
      BY <1>1, FS_Interval
<1>3. IsFiniteSet(K)
      BY <1>1, <1>2, FS_Subset
<1>4. /\ n \in Nat
      /\ \A k \in 1 .. n : NthOf(K, k) \in K
      /\ \A i \in K : \E k \in 1 .. n : NthOf(K, k) = i
      BY <1>1, <1>3, EachIsNth
<1>5. \A j, k \in 1 .. n : NthOf(K, j) = NthOf(K, k) => j = k
      BY <1>1, <1>3, NthDiffers
<1>6. a = [k \in 1 .. n |-> s[NthOf(K, k)]]
      BY Zenon DEF Plan!AtThose, NthOf, Plan!Cardinality, Cardinality
<1>7. \A i \in K : s[i] \in S /\ i \in DOMAIN s
      BY <1>1
<1> HIDE DEF n, a
<1>8. a \in Seq(S) /\ DOMAIN a = 1 .. n /\ \A k \in 1 .. n : a[k] = s[NthOf(K, k)]
      BY <1>4, <1>6, <1>7
<1>9. ASSUME NEW m \in Nat, 1 .. m \subseteq K, NEW k \in 1 .. m
      PROVE  k \in DOMAIN a /\ a[k] = s[k]
      <2>1. NthOf(K, k) = k /\ k \in 1 .. n
            BY <1>1, <1>3, <1>9, NthAtStart DEF n
      <2> QED BY <1>8, <2>1
<1>10. ASSUME \A i, j \in DOMAIN s : s[i] = s[j] => i = j, NEW j \in DOMAIN a, NEW k \in DOMAIN a,
              a[j] = a[k]
       PROVE  j = k
       BY <1>4, <1>5, <1>7, <1>8, <1>10
<1>11. \A k \in DOMAIN a : \E i \in K : a[k] = s[i]
       BY <1>4, <1>8
<1>12. \A i \in K : \E k \in DOMAIN a : a[k] = s[i]
       BY <1>4, <1>8
<1> QED BY <1>8, <1>9, <1>10, <1>11, <1>12 DEF a

\* A finite set as a sequence: its members, each once.
LEMMA SetToSeqIs ==
  ASSUME NEW S, IsFiniteSet(S)
  PROVE  /\ Plan!SetToSeq(S) \in Seq(S)
         /\ \A i, j \in DOMAIN Plan!SetToSeq(S) : Plan!SetToSeq(S)[i] = Plan!SetToSeq(S)[j]
             => i = j
<1> DEFINE n == Cardinality(S)
<1>1. n \in Nat /\ ExistsBijection(1 .. n, S)
      BY FS_CardinalityType
<1>2. \E f \in [1 .. n -> S] : IsInjective(f)
      <2> HIDE DEF n
      <2> QED BY <1>1 DEF ExistsBijection, Bijection, Injection
<1>3. Plan!SetToSeq(S) = CHOOSE f \in [1 .. n -> S] : IsInjective(f)
      BY Zenon DEF Plan!SetToSeq, Plan!Cardinality, Cardinality, Plan!IsInjective, IsInjective
<1> HIDE DEF n
<1>4. Plan!SetToSeq(S) \in [1 .. n -> S] /\ IsInjective(Plan!SetToSeq(S))
      BY <1>2, <1>3
<1> QED BY <1>1, <1>4 DEF IsInjective

\* What is given a spot: each thing that had none, another one than the others.
LEMMA LaidIs ==
  ASSUME NEW all \in Seq(Thing), NEW s \in [Thing -> Nat]
  PROVE  /\ Plan!Laid(all, s) \in [Thing -> Nat]
         /\ \A t \in Plan!ToSet(all) : Plan!Laid(all, s)[t] # 0
         /\ \A t \in Thing : t \notin Plan!ToSet(all) \/ s[t] # 0 => Plan!Laid(all, s)[t] = s[t]
         /\ \A t, u \in Plan!ToSet(all) :
             s[t] = 0 /\ s[u] = 0 /\ Plan!Laid(all, s)[t] = Plan!Laid(all, s)[u] =>
              t = u
<1> DEFINE placeOf(t) == CHOOSE i \in DOMAIN all : all[i] = t
           before(t) == {i \in 1 .. placeOf(t) : s[all[i]] = Plan!Unplaced}
           laid == Plan!Laid(all, s)
<1>1. ASSUME NEW t \in Plan!ToSet(all)
      PROVE  t \in Thing /\ placeOf(t) \in 1 .. Len(all) /\ all[placeOf(t)] = t
      BY <1>1 DEF Plan!ToSet
<1>2. laid = [t \in Thing |-> IF t \in Plan!ToSet(all) /\ s[t] = Plan!Unplaced
                              THEN Cardinality(before(t)) ELSE s[t]]
      BY Zenon DEF Plan!Laid, Plan!Cardinality, Cardinality
<1>3. \A t \in Plan!ToSet(all) : placeOf(t) \in Nat
      <2> HIDE DEF placeOf
      <2> QED BY <1>1
<1> HIDE DEF laid, placeOf
<1>4. ASSUME NEW t \in Plan!ToSet(all)
      PROVE  /\ IsFiniteSet(before(t)) /\ Cardinality(before(t)) \in Nat
             /\ s[t] = 0 => placeOf(t) \in before(t) /\ Cardinality(before(t)) # 0
      <2>1. IsFiniteSet(1 .. placeOf(t))
            BY <1>3, FS_Interval
      <2>2. IsFiniteSet(before(t)) /\ Cardinality(before(t)) \in Nat
            BY <2>1, FS_Subset, FS_CardinalityType
      <2>3. s[t] = 0 => placeOf(t) \in before(t)
            BY <1>1 DEF Plan!Unplaced
      <2> HIDE DEF before
      <2> QED BY <2>2, <2>3, FS_EmptySet
<1>5. ASSUME NEW t \in Plan!ToSet(all), NEW u \in Plan!ToSet(all), s[t] = 0, s[u] = 0,
             placeOf(t) < placeOf(u), Cardinality(before(t)) = Cardinality(before(u))
      PROVE  FALSE
      <2>1. before(t) \subseteq before(u) /\ placeOf(u) \notin before(t)
            BY <1>3, <1>5
      <2>2. before(t) = before(u)
            <3> HIDE DEF before
            <3> QED BY <1>4, <1>5, <2>1, FS_Subset
      <2> HIDE DEF before
      <2> QED BY <1>4, <1>5, <2>1, <2>2
<1> HIDE DEF before
<1>6. ASSUME NEW t \in Plan!ToSet(all), NEW u \in Plan!ToSet(all), s[t] = 0, s[u] = 0,
      laid[t] = laid[u]
      PROVE  t = u
      <2>1. Cardinality(before(t)) = Cardinality(before(u))
            BY <1>1, <1>2, <1>6 DEF Plan!Unplaced
      <2>2. ~(placeOf(t) < placeOf(u)) /\ ~(placeOf(u) < placeOf(t))
            BY <1>5, <1>6, <2>1
      <2>3. placeOf(t) = placeOf(u)
            BY <1>3, <2>2
      <2> QED BY <1>1, <2>3
<1>7. laid \in [Thing -> Nat] /\ \A t \in Plan!ToSet(all) : laid[t] # 0
      BY <1>1, <1>2, <1>4 DEF Plan!Unplaced
<1>8. \A t \in Thing : t \notin Plan!ToSet(all) \/ s[t] # 0 => laid[t] = s[t]
      BY <1>2 DEF Plan!Unplaced
<1> QED BY <1>6, <1>7, <1>8 DEF laid

\* What is drawn, chosen, asked and told.
PlanNode == [thing : Thing, spot : Nat \ {0}]
PlanChoice == [node : PlanNode, index : Nat \ {0}, live : BOOLEAN]
PlanCall == [thing : Thing, spot : Nat \ {0}, stage : {"sent", "served", "done"}]
PlanNews == [does : {"all", "one", "removed"}, thing : Thing]

\* The plan, the gateway and what is between them are of their kinds; a thing is in the Map once.
PlanTyped ==
  /\ stands \subseteq Thing
  /\ placed \in [Thing -> Nat] /\ \A t \in Thing \ stands : placed[t] = 0
  /\ listing \in Seq(Thing)
  /\ \A i, j \in DOMAIN listing : listing[i] = listing[j] => i = j
  /\ spots \in [Thing -> Nat]
  /\ plan \in Seq(PlanNode)
  /\ editing \in BOOLEAN
  /\ grabbed \in Seq(PlanChoice) /\ Len(grabbed) <= 1
  /\ shifts \in Seq(PlanCall)
  /\ word \in Seq(PlanNews)
  /\ adrifting \subseteq Thing /\ fetched \in BOOLEAN /\ lost \in BOOLEAN

\* The things are finitely many, and no spot of the user's is one the page gives.
LEMMA PlanConstants ==
  /\ IsFiniteSet(Thing)
  /\ \A p \in Point : p \in Nat \ {0} /\ p \notin Plan!Auto
BY PlanBounds DEF Plan!FloorplanAssumption, Plan!Unplaced

\* What a refresh does, while the plan is edited and otherwise.
LEMMA Refreshed ==
  ASSUME PlanTyped, NEW all \in Seq(Thing), NEW s \in [Thing -> Nat], Plan!RefreshThings(all, s)
  PROVE  /\ spots' \in [Thing -> Nat] /\ plan' \in Seq(PlanNode)
         /\ grabbed' \in Seq(PlanChoice) /\ Len(grabbed') <= 1
         /\ adrifting' \subseteq Thing
         /\ lost' \in BOOLEAN /\ lost' = (lost \/ ~(Plan!Icons \subseteq Plan!ToSet(all)))
         /\ \A t \in Thing : t \notin Plan!ToSet(all) \/ s[t] # 0 => spots'[t] = s[t]
         /\ DOMAIN grabbed' = DOMAIN grabbed
         /\ \A i \in DOMAIN grabbed : /\ grabbed'[i].node = grabbed[i].node
                                      /\ grabbed'[i].index = grabbed[i].index
         /\ editing => /\ spots' = s /\ plan' = plan /\ grabbed' = grabbed
                       /\ adrifting \subseteq adrifting'
                       /\ \A i \in DOMAIN plan :
                            plan[i].thing \in adrifting' \/ plan[i].spot = s[plan[i].thing]
         /\ ~editing => /\ DOMAIN plan' = DOMAIN all
                        /\ \A i \in DOMAIN all : /\ plan'[i].thing = all[i]
                                                 /\ plan'[i].spot = spots'[all[i]]
                        /\ \A t \in Plan!ToSet(all) : spots'[t] # 0
                        /\ \A t, u \in Plan!ToSet(all) :
                            s[t] = 0 /\ s[u] = 0 /\ spots'[t] = spots'[u] =>
                             t = u
                        /\ \A t \in adrifting : \/ t \in adrifting' \/ spots'[t] = placed[t]
                                                \/ placed[t] = 0 /\ s[t] = 0
                        /\ \A i \in DOMAIN grabbed : ~grabbed'[i].live
<1> USE DEF PlanTyped
<1>1. lost' \in BOOLEAN /\ lost' = (lost \/ ~(Plan!Icons \subseteq Plan!ToSet(all)))
      BY DEF Plan!RefreshThings
<1>2. CASE editing
      <2>1. /\ spots' = s /\ plan' = plan /\ grabbed' = grabbed
            /\ adrifting' = adrifting
                \cup {t \in Thing : \E n \in Plan!ToSet(plan) : n.thing = t /\ n.spot # s[t]}
                                      \cup (Plan!ToSet(all) \ Plan!Icons)
            BY <1>2 DEF Plan!RefreshThings
      <2>2. \A i \in DOMAIN plan : plan[i] \in PlanNode /\ plan[i] \in Plan!ToSet(plan)
            BY DEF Plan!ToSet
      <2>3. \A i \in DOMAIN plan : plan[i].thing \in adrifting' \/ plan[i].spot = s[plan[i].thing]
            BY <2>1, <2>2 DEF PlanNode
      <2>4. Plan!ToSet(all) \subseteq Thing
            BY DEF Plan!ToSet
      <2> QED BY <1>1, <1>2, <2>1, <2>3, <2>4
<1>3. CASE ~editing
      <2>1. /\ spots' = Plan!Laid(all, s)
            /\ plan' = [i \in DOMAIN all |-> [thing |-> all[i], spot |-> spots'[all[i]]]]
            /\ grabbed' = [i \in DOMAIN grabbed |-> [grabbed[i] EXCEPT !.live = FALSE]]
            /\ adrifting' =
                 {t \in adrifting : /\ spots'[t] # placed[t]
                                    /\ ~(placed[t] = Plan!Unplaced /\ s[t] = Plan!Unplaced)}
            BY <1>3 DEF Plan!RefreshThings
      <2>2. /\ spots' \in [Thing -> Nat]
            /\ \A t \in Plan!ToSet(all) : spots'[t] # 0
            /\ \A t \in Thing : t \notin Plan!ToSet(all) \/ s[t] # 0 => spots'[t] = s[t]
            /\ \A t, u \in Plan!ToSet(all) : s[t] = 0 /\ s[u] = 0 /\ spots'[t] = spots'[u]
                => t = u
            <3>1. /\ Plan!Laid(all, s) \in [Thing -> Nat]
                  /\ \A t \in Plan!ToSet(all) : Plan!Laid(all, s)[t] # 0
                  /\ \A t \in Thing : t \notin Plan!ToSet(all) \/ s[t] # 0
                      => Plan!Laid(all, s)[t] = s[t]
                  /\ \A t, u \in Plan!ToSet(all) :
                       s[t] = 0 /\ s[u] = 0 /\ Plan!Laid(all, s)[t] = Plan!Laid(all, s)[u]
                           => t = u
                  BY Zenon, LaidIs
            <3> QED BY Zenon, <2>1, <3>1
      <2>3. \A i \in DOMAIN all : all[i] \in Thing /\ spots'[all[i]] \in Nat \ {0}
            BY <2>2 DEF Plan!ToSet
      <2>4. /\ DOMAIN plan' = DOMAIN all
            /\ \A i \in DOMAIN all : /\ plan'[i].thing = all[i]
                                     /\ plan'[i].spot = spots'[all[i]]
            BY <2>1
      <2>5. plan' \in Seq(PlanNode)
            <3>1. \A i \in DOMAIN all : [thing |-> all[i], spot |-> spots'[all[i]]] \in PlanNode
                  BY <2>3 DEF PlanNode
            <3>2. DOMAIN all = 1 .. Len(all) /\ Len(all) \in Nat
                  OBVIOUS
            <3>3. \A i \in 1 .. Len(all) : plan'[i] \in PlanNode
                  BY <2>1, <3>1, <3>2
            <3> HIDE DEF PlanTyped
            <3>4. plan' = [i \in 1 .. Len(all) |-> plan'[i]]
                  BY <2>1, <3>2
            <3> QED BY <3>2, <3>3, <3>4
      <2>6. \A i \in DOMAIN grabbed : grabbed[i] \in PlanChoice
            OBVIOUS
      <2>7. \A i \in DOMAIN grabbed : [grabbed[i] EXCEPT !.live = FALSE] \in PlanChoice
            BY <2>6 DEF PlanChoice
      <2>8. /\ DOMAIN grabbed' = DOMAIN grabbed
            /\ \A i \in DOMAIN grabbed : /\ grabbed'[i].node = grabbed[i].node
                                         /\ grabbed'[i].index = grabbed[i].index
                                         /\ ~grabbed'[i].live
            BY <2>1, <2>6 DEF PlanChoice
      <2>9. grabbed' \in Seq(PlanChoice) /\ Len(grabbed') = Len(grabbed)
            <3>1. DOMAIN grabbed = 1 .. Len(grabbed) /\ Len(grabbed) \in Nat
                  OBVIOUS
            <3> HIDE DEF PlanTyped
            <3> QED BY <2>1, <2>7, <3>1
      <2>10. adrifting' \subseteq Thing
             /\ \A t \in adrifting : \/ t \in adrifting' \/ spots'[t] = placed[t]
                                     \/ placed[t] = 0 /\ s[t] = 0
             BY <2>1 DEF Plan!Unplaced
      <2> QED BY <1>1, <1>3, <2>2, <2>4, <2>5, <2>8, <2>9, <2>10
<1> QED BY <1>2, <1>3

\* The descriptions the page is given with a piece of news.
HeardSpots(n) == [u \in Thing |-> IF n.does = "all" \/ u = n.thing THEN placed[u] ELSE spots[u]]

\* The Map once the page has heard: what the news is about comes or goes, the others stay, and
\* the first ones stay the first if they all stay.
LEMMA HeardIs ==
  ASSUME PlanTyped, Plan!Hear, NEW n, n = Head(word)
  PROVE  /\ n \in PlanNews /\ word' \in Seq(PlanNews)
         /\ listing' \in Seq(Thing)
         /\ \A i, j \in DOMAIN listing' : listing'[i] = listing'[j] => i = j
         /\ Plan!RefreshThings(listing', HeardSpots(n)) /\ HeardSpots(n) \in [Thing -> Nat]
         /\ n.does # "all" => \A t \in Plan!ToSet(listing') :
              \/ t \in Plan!ToSet(listing) /\ ~(n.does = "removed" /\ t = n.thing)
              \/ n.does = "one" /\ t = n.thing
         /\ n.does # "all" => \A t \in Plan!ToSet(listing) :
              (n.does = "removed" /\ t = n.thing) \/ t \in Plan!ToSet(listing')
         /\ \A m \in Nat :
              1 .. m \subseteq DOMAIN listing
                  /\ (\A i \in 1 .. m : listing[i] \in Plan!ToSet(listing'))
                => \A j \in 1 .. m : j \in DOMAIN listing' /\ listing'[j] = listing[j]
<1> DEFINE there == Plan!AtThose(listing, Plan!Stays(n))
           come == Plan!SetToSeq(Plan!Comes(n))
<1>0. /\ listing \in Seq(Thing) /\ placed \in [Thing -> Nat] /\ spots \in [Thing -> Nat]
      /\ stands \subseteq Thing /\ word \in Seq(PlanNews)
      /\ \A i, j \in DOMAIN listing : listing[i] = listing[j] => i = j
      BY DEF PlanTyped
<1>1. n \in PlanNews /\ word' \in Seq(PlanNews)
      BY <1>0 DEF Plan!Hear
<1>2. /\ n.thing \in Thing /\ n.does \in {"all", "one", "removed"}
      /\ Plan!Found(n)
      /\ listing' = there \o come
      /\ Plan!RefreshThings(listing', HeardSpots(n))
      <2>1. n.thing \in Thing /\ n.does \in {"all", "one", "removed"}
            BY <1>1 DEF PlanNews
      <2> QED BY <2>1, Zenon DEF Plan!Hear, HeardSpots
<1>3. HeardSpots(n) \in [Thing -> Nat]
      BY <1>0 DEF HeardSpots
<1>4. /\ Plan!Comes(n) \subseteq Thing /\ Plan!Comes(n) \cap Plan!ToSet(listing) = {}
      /\ n.does # "all" => Plan!Comes(n) \subseteq IF n.does = "one" THEN {n.thing} ELSE {}
      BY <1>0, <1>2 DEF Plan!Comes
<1>5. /\ come \in Seq(Plan!Comes(n))
      /\ \A i, j \in DOMAIN come : come[i] = come[j] => i = j
      <2>1. IsFiniteSet(Plan!Comes(n))
            BY <1>4, PlanConstants, FS_Subset
      <2> QED BY <2>1, SetToSeqIs
<1>6. Plan!Stays(n) \subseteq DOMAIN listing
      BY DEF Plan!Stays
<1>7. /\ there \in Seq(Thing)
      /\ \A k \in DOMAIN there : \E i \in Plan!Stays(n) : there[k] = listing[i]
      /\ \A i \in Plan!Stays(n) : \E k \in DOMAIN there : there[k] = listing[i]
      /\ \A j, k \in DOMAIN there : there[j] = there[k] => j = k
      /\ \A m \in Nat : 1 .. m \subseteq Plan!Stays(n) =>
           \A k \in 1 .. m : k \in DOMAIN there /\ there[k] = listing[k]
      <2>1. /\ Plan!AtThose(listing, Plan!Stays(n)) \in Seq(Thing)
            /\ \A k \in DOMAIN Plan!AtThose(listing, Plan!Stays(n)) :
                 \E i \in Plan!Stays(n) : Plan!AtThose(listing, Plan!Stays(n))[k] = listing[i]
            /\ \A i \in Plan!Stays(n) :
                 \E k \in DOMAIN Plan!AtThose(listing, Plan!Stays(n)) :
                     Plan!AtThose(listing, Plan!Stays(n))[k] = listing[i]
            /\ \A j, k \in DOMAIN Plan!AtThose(listing, Plan!Stays(n)) :
                 Plan!AtThose(listing, Plan!Stays(n))[j] = Plan!AtThose(listing,
                     Plan!Stays(n))[k] => j = k
            /\ \A m \in Nat : 1 .. m \subseteq Plan!Stays(n) =>
                 \A k \in 1 .. m : /\ k \in DOMAIN Plan!AtThose(listing, Plan!Stays(n))
                                   /\ Plan!AtThose(listing, Plan!Stays(n))[k] = listing[k]
            <3> HIDE <1>2, <1>4, <1>5
            <3> DEFINE K == Plan!Stays(n)
            <3>1. K \subseteq DOMAIN listing
                  BY <1>6
            <3> HIDE DEF K
            <3>2. /\ Plan!AtThose(listing, K) \in Seq(Thing)
                  /\ \A k \in DOMAIN Plan!AtThose(listing, K) : \E i \in K :
                      Plan!AtThose(listing, K)[k] = listing[i]
                  /\ \A i \in K : \E k \in DOMAIN Plan!AtThose(listing, K) :
                      Plan!AtThose(listing, K)[k] = listing[i]
                  /\ (\A i, j \in DOMAIN listing : listing[i] = listing[j] => i = j) =>
                       \A j, k \in DOMAIN Plan!AtThose(listing, K) :
                         Plan!AtThose(listing, K)[j] = Plan!AtThose(listing, K)[k] => j = k
                  /\ \A m \in Nat : 1 .. m \subseteq K =>
                       \A k \in 1 .. m : /\ k \in DOMAIN Plan!AtThose(listing, K)
                                         /\ Plan!AtThose(listing, K)[k] = listing[k]
                  BY ZenonT(60), <1>0, <3>1, AtThoseIs
            <3> QED BY <1>0, <3>2, Zenon DEF K
      <2> QED BY <2>1, Zenon
<1> HIDE DEF there, come
<1>8. /\ listing' \in Seq(Thing)
      /\ DOMAIN listing' = 1 .. Len(there) + Len(come)
      /\ \A k \in DOMAIN there : k \in DOMAIN listing' /\ listing'[k] = there[k]
      /\ \A k \in DOMAIN come : Len(there) + k \in DOMAIN listing'
                                /\ listing'[Len(there) + k] = come[k]
      /\ \A k \in DOMAIN listing' : \/ k \in DOMAIN there
                                    \/ k - Len(there) \in DOMAIN come
      <2>1. come \in Seq(Thing)
            BY <1>4, <1>5
      <2>2. /\ DOMAIN there = 1 .. Len(there) /\ Len(there) \in Nat
            /\ DOMAIN come = 1 .. Len(come) /\ Len(come) \in Nat
            BY <1>7, <2>1
      <2> QED BY <1>2, <1>7, <2>1, <2>2
<1>9. \A k \in DOMAIN come : come[k] \in Plan!Comes(n)
      BY <1>5
<1>10. /\ \A k \in DOMAIN there : there[k] \in Plan!ToSet(listing)
       /\ \A i \in DOMAIN listing : listing[i] \in Plan!ToSet(listing)
       BY <1>6, <1>7 DEF Plan!ToSet
<1>11. ASSUME NEW i \in DOMAIN listing', NEW j \in DOMAIN listing', listing'[i] = listing'[j]
       PROVE  i = j
       <2>1. CASE i \in DOMAIN there /\ j \in DOMAIN there
             BY <1>7, <1>8, <1>11, <2>1
       <2>2. CASE i \in DOMAIN there /\ j - Len(there) \in DOMAIN come
             BY <1>4, <1>8, <1>9, <1>10, <1>11, <2>2
       <2>3. CASE i - Len(there) \in DOMAIN come /\ j \in DOMAIN there
             BY <1>4, <1>8, <1>9, <1>10, <1>11, <2>3
       <2>4. CASE i - Len(there) \in DOMAIN come /\ j - Len(there) \in DOMAIN come
             <3>1. listing'[i] = come[i - Len(there)] /\ listing'[j] = come[j - Len(there)]
                   BY <1>7, <1>8, <2>4
             <3>2. i - Len(there) = j - Len(there)
                   BY <1>5, <1>11, <2>4, <3>1
             <3> QED BY <1>7, <1>8, <3>2
       <2> QED BY <1>8, <2>1, <2>2, <2>3, <2>4
<1>12. ASSUME NEW t \in Plan!ToSet(listing')
       PROVE  t \in Plan!Comes(n) \/ \E i \in Plan!Stays(n) : t = listing[i]
       <2>1. PICK k \in DOMAIN listing' : t = listing'[k]
             BY DEF Plan!ToSet
       <2>2. CASE k \in DOMAIN there
             <3>1. PICK i \in Plan!Stays(n) : there[k] = listing[i]
                   BY <1>7, <2>2
             <3> QED BY <1>8, <2>1, <2>2, <3>1
       <2>3. CASE k - Len(there) \in DOMAIN come
             <3>1. Len(there) + (k - Len(there)) = k
                   BY <1>7, <1>8
             <3> QED BY <1>8, <1>9, <2>1, <2>3, <3>1
       <2> QED BY <1>8, <2>2, <2>3
<1>13. ASSUME NEW i \in Plan!Stays(n) PROVE listing[i] \in Plan!ToSet(listing')
       <2>1. PICK k \in DOMAIN there : there[k] = listing[i]
             BY <1>7
       <2> QED BY <1>8, <2>1 DEF Plan!ToSet
<1>14. n.does # "all" => \A t \in Plan!ToSet(listing') :
              \/ t \in Plan!ToSet(listing) /\ ~(n.does = "removed" /\ t = n.thing)
              \/ n.does = "one" /\ t = n.thing
       <2> SUFFICES ASSUME n.does # "all", NEW t \in Plan!ToSet(listing')
                    PROVE  \/ t \in Plan!ToSet(listing) /\ ~(n.does = "removed" /\ t = n.thing)
                           \/ n.does = "one" /\ t = n.thing
           OBVIOUS
       <2>1. CASE t \in Plan!Comes(n)
             BY <1>2, <1>4, <2>1
       <2>2. CASE \E i \in Plan!Stays(n) : t = listing[i]
             BY <1>6, <1>10, <2>2 DEF Plan!Stays
       <2> QED BY <1>12, <2>1, <2>2
<1>15. n.does # "all" => \A t \in Plan!ToSet(listing) :
              (n.does = "removed" /\ t = n.thing) \/ t \in Plan!ToSet(listing')
       <2> SUFFICES ASSUME n.does # "all", NEW t \in Plan!ToSet(listing),
                           ~(n.does = "removed" /\ t = n.thing)
                    PROVE  t \in Plan!ToSet(listing')
           OBVIOUS
       <2>1. PICK i \in DOMAIN listing : t = listing[i]
             BY DEF Plan!ToSet
       <2>2. i \in Plan!Stays(n)
             BY <2>1 DEF Plan!Stays
       <2> QED BY <1>13, <2>1, <2>2
<1>16. ASSUME NEW m \in Nat, 1 .. m \subseteq DOMAIN listing,
              \A i \in 1 .. m : listing[i] \in Plan!ToSet(listing')
       PROVE  \A i \in 1 .. m : i \in DOMAIN listing' /\ listing'[i] = listing[i]
       <2>1. ASSUME NEW i \in 1 .. m PROVE i \in Plan!Stays(n)
             <3>1. i \in DOMAIN listing /\ listing[i] \notin Plan!Comes(n)
                   BY <1>4, <1>10, <1>16
             <3>2. PICK j \in Plan!Stays(n) : listing[i] = listing[j]
                   BY <1>12, <1>16, <3>1
             <3>3. j \in DOMAIN listing /\ j = i
                   BY <1>0, <1>6, <3>1, <3>2
             <3> QED BY <3>2, <3>3
       <2>2. \A k \in 1 .. m : k \in DOMAIN there /\ there[k] = listing[k]
             BY <1>7, <2>1
       <2> QED BY <1>8, <2>2
<1> QED BY <1>1, <1>2, <1>3, <1>8, <1>11, <1>14, <1>15, <1>16

\* What is chosen is an icon with an index; and each icon, request and piece of news is one.
LEMMA PlanParts ==
  ASSUME PlanTyped
  PROVE  /\ grabbed # Plan!Nothing => /\ grabbed[1] \in PlanChoice /\ DOMAIN grabbed = {1}
                                      /\ grabbed[1].node \in PlanNode
                                      /\ grabbed[1].node.thing \in Thing
                                      /\ grabbed[1].node.spot \in Nat \ {0}
                                      /\ grabbed[1].index \in Nat \ {0}
                                      /\ grabbed[1].live \in BOOLEAN
         /\ grabbed = Plan!Nothing => DOMAIN grabbed = {}
         /\ {grabbed[k].node.thing : k \in DOMAIN grabbed} \subseteq Thing
         /\ \A i \in DOMAIN plan : /\ plan[i] \in PlanNode /\ plan[i].thing \in Thing
                                   /\ plan[i].spot \in Nat \ {0} /\ i \in Nat \ {0}
         /\ \A c \in DOMAIN shifts : /\ shifts[c] \in PlanCall /\ shifts[c].thing \in Thing
                                     /\ shifts[c].spot \in Nat \ {0}
         /\ \A i \in DOMAIN listing : listing[i] \in Thing
         /\ \A i \in DOMAIN word : word[i] \in PlanNews
<1> USE DEF PlanTyped
<1>1. ASSUME grabbed # Plan!Nothing
      PROVE  grabbed[1] \in PlanChoice /\ DOMAIN grabbed = {1}
      <2>0. grabbed \in Seq(PlanChoice) /\ Len(grabbed) <= 1 /\ Len(grabbed) \in Nat
            OBVIOUS
      <2> HIDE DEF PlanTyped
      <2>1. Len(grabbed) # 0
            BY <1>1, <2>0, EmptySeq DEF Plan!Nothing
      <2>2. Len(grabbed) = 1
            <3> DEFINE k == Len(grabbed)
            <3>1. k \in Nat /\ k <= 1 /\ k # 0
                  BY <2>0, <2>1
            <3> HIDE DEF k
            <3>2. k = 1
                  BY <3>1
            <3> QED BY <3>2 DEF k
      <2>3. DOMAIN grabbed = 1 .. Len(grabbed)
            BY <2>0
      <2> QED BY <2>0, <2>2, <2>3
<1>2. grabbed # Plan!Nothing => /\ grabbed[1].node \in PlanNode
                                /\ grabbed[1].node.thing \in Thing
                                /\ grabbed[1].node.spot \in Nat \ {0}
                                /\ grabbed[1].index \in Nat \ {0}
                                /\ grabbed[1].live \in BOOLEAN
      <2> HIDE DEF PlanTyped
      <2> QED BY <1>1 DEF PlanChoice, PlanNode
<1>3. grabbed = Plan!Nothing => DOMAIN grabbed = {}
      BY DEF Plan!Nothing
<1>4. \A i \in DOMAIN plan : plan[i] \in PlanNode /\ i \in Nat \ {0}
      OBVIOUS
<1>5. \A i \in DOMAIN plan : plan[i].thing \in Thing /\ plan[i].spot \in Nat \ {0}
      <2> HIDE DEF PlanTyped
      <2> QED BY <1>4 DEF PlanNode
<1>6. \A c \in DOMAIN shifts : shifts[c] \in PlanCall
      OBVIOUS
<1>7. \A c \in DOMAIN shifts : shifts[c].thing \in Thing /\ shifts[c].spot \in Nat \ {0}
      <2> HIDE DEF PlanTyped
      <2> QED BY <1>6 DEF PlanCall
<1>8. (\A i \in DOMAIN listing : listing[i] \in Thing) /\ \A i \in DOMAIN word :
        word[i] \in PlanNews
      OBVIOUS
<1> HIDE DEF PlanTyped
<1>9. {grabbed[k].node.thing : k \in DOMAIN grabbed} \subseteq Thing
      BY <1>1, <1>2, <1>3
<1> QED BY <1>1, <1>2, <1>3, <1>4, <1>5, <1>6, <1>7, <1>8, <1>9

\* An element is one that may be chosen.
LEMMA ElementIs ==
  ASSUME PlanTyped, NEW i \in DOMAIN plan
  PROVE  /\ Plan!Element(i) \in Seq(PlanChoice) /\ Len(Plan!Element(i)) = 1
         /\ Plan!Element(i) # Plan!Nothing
         /\ Plan!Element(i)[1].node = plan[i] /\ Plan!Element(i)[1].index = i
<1>1. plan[i] \in PlanNode /\ i \in Nat \ {0}
      BY PlanParts
<1>2. [node |-> plan[i], index |-> i, live |-> TRUE] \in PlanChoice
      BY <1>1 DEF PlanChoice
<1> QED BY <1>2 DEF Plan!Element, Plan!Nothing

\* The Map, and what was read of it, while the page hears or shows.
LEMMA PlanDrawn ==
  ASSUME PlanTyped, Plan!Hear \/ Plan!Show
  PROVE  /\ listing' \in Seq(Thing)
         /\ \A i, j \in DOMAIN listing' : listing'[i] = listing'[j] => i = j
         /\ word' \in Seq(PlanNews)
         /\ \E s \in [Thing -> Nat] : Plan!RefreshThings(listing', s)
<1>1. CASE Plan!Hear
      BY <1>1, HeardIs
<1>2. CASE Plan!Show
      BY <1>2 DEF Plan!Show, PlanTyped, Plan!Gateway
<1> QED BY <1>1, <1>2

\* An icon that is dragged is still one, and so is what is chosen.
LEMMA MovedIs ==
  ASSUME PlanTyped, NEW p \in Point, Plan!MoveThing(p)
  PROVE  /\ grabbed # Plan!Nothing /\ editing
         /\ grabbed' \in Seq(PlanChoice) /\ Len(grabbed') = 1 /\ grabbed' # Plan!Nothing
         /\ grabbed'[1].node.thing = grabbed[1].node.thing
         /\ grabbed'[1].index = grabbed[1].index /\ grabbed'[1].live = grabbed[1].live
         /\ plan' \in Seq(PlanNode) /\ DOMAIN plan' = DOMAIN plan
         /\ \A i \in DOMAIN plan :
              /\ plan'[i].thing = plan[i].thing
              /\ \/ plan'[i].spot = plan[i].spot
                 \/ plan'[i].spot = p /\ grabbed[1].live /\ i = grabbed[1].index
<1> DEFINE c == grabbed[1]
           d == [c EXCEPT !.node.spot = p]
<1>1. /\ editing /\ grabbed # Plan!Nothing /\ grabbed' = <<d>>
      /\ plan' = IF c.live THEN [plan EXCEPT ![c.index].spot = p] ELSE plan
      BY Zenon DEF Plan!MoveThing
<1>2. c \in PlanChoice /\ p \in Nat \ {0}
      BY <1>1, PlanParts, PlanConstants
<1>3. /\ d \in PlanChoice /\ d.node.thing = c.node.thing /\ d.index = c.index
      /\ d.live = c.live
      BY <1>2 DEF PlanChoice, PlanNode
<1>4. \A i \in DOMAIN plan : plan[i] \in PlanNode
      BY PlanParts
<1>5. plan \in Seq(PlanNode)
      BY DEF PlanTyped
<1> HIDE DEF c, d
<1>6. \A i \in DOMAIN plan : [plan[i] EXCEPT !.spot = p] \in PlanNode
                             /\ [plan[i] EXCEPT !.spot = p].thing = plan[i].thing
                             /\ [plan[i] EXCEPT !.spot = p].spot = p
      BY <1>2, <1>4 DEF PlanNode
<1>7. /\ DOMAIN plan' = DOMAIN plan
      /\ \A i \in DOMAIN plan :
           plan'[i] = IF c.live /\ i = c.index THEN [plan[i] EXCEPT !.spot = p] ELSE plan[i]
      BY <1>1, <1>5
<1>8. plan' \in Seq(PlanNode)
      <2>1. DOMAIN plan = 1 .. Len(plan) /\ Len(plan) \in Nat
            BY <1>5
      <2>2. CASE ~c.live
            BY <1>1, <1>5, <2>2
      <2>3. CASE c.live
            <3>1. plan' = [i \in 1 .. Len(plan) |->
                             IF i = c.index THEN [plan[i] EXCEPT !.spot = p] ELSE plan[i]]
                  BY <1>1, <1>5, <2>1, <2>3
            <3> QED BY <1>4, <1>6, <2>1, <3>1
      <2> QED BY <2>2, <2>3
<1>9. \A i \in DOMAIN plan :
        /\ plan'[i].thing = plan[i].thing
        /\ \/ plan'[i].spot = plan[i].spot
           \/ plan'[i].spot = p /\ c.live /\ i = c.index
      <2> TAKE i \in DOMAIN plan
      <2>1. CASE c.live /\ i = c.index
            <3>1. plan'[i] = [plan[i] EXCEPT !.spot = p]
                  BY <1>7, <2>1
            <3> QED BY <1>6, <2>1, <3>1
      <2>2. CASE ~(c.live /\ i = c.index)
            BY <1>7, <2>2
      <2> QED BY <2>1, <2>2
<1>10. /\ grabbed' \in Seq(PlanChoice) /\ Len(grabbed') = 1 /\ grabbed' # Plan!Nothing
       /\ grabbed'[1] = d
       BY <1>1, <1>3 DEF Plan!Nothing
<1> QED BY <1>1, <1>3, <1>7, <1>8, <1>9, <1>10 DEF c

\* The kinds stay as they are.
LEMMA PlanTypedKeeps ==
  ASSUME PlanTyped, [Plan!Next]_planVars
  PROVE  PlanTyped'
<1> USE DEF Plan!Gateway, Plan!Page, Plan!Pointer
<1>1. CASE Plan!Hear \/ Plan!Show
      <2>1. /\ listing' \in Seq(Thing)
            /\ \A i, j \in DOMAIN listing' : listing'[i] = listing'[j] => i = j
            /\ word' \in Seq(PlanNews)
            /\ \E s \in [Thing -> Nat] : Plan!RefreshThings(listing', s)
            BY <1>1, PlanDrawn
      <2>2. /\ spots' \in [Thing -> Nat] /\ plan' \in Seq(PlanNode)
            /\ grabbed' \in Seq(PlanChoice) /\ Len(grabbed') <= 1
            /\ adrifting' \subseteq Thing /\ lost' \in BOOLEAN
            BY <2>1, Refreshed
      <2>3. UNCHANGED <<stands, placed, editing, shifts>> /\ fetched' \in BOOLEAN
            BY <1>1 DEF Plan!Hear, Plan!Show, PlanTyped
      <2> QED BY <2>1, <2>2, <2>3 DEF PlanTyped
<1>2. CASE \E i \in DOMAIN plan : Plan!OnPointerDown(i) \/ Plan!SelectThing(i)
      <2>1. PICK i \in DOMAIN plan : Plan!OnPointerDown(i) \/ Plan!SelectThing(i)
            BY <1>2
      <2>2. grabbed' \in Seq(PlanChoice) /\ Len(grabbed') <= 1
            <3>1. grabbed' = Plan!Element(i)
                  BY <2>1 DEF Plan!OnPointerDown, Plan!SelectThing
            <3>2. Plan!Element(i) \in Seq(PlanChoice) /\ Len(Plan!Element(i)) = 1
                  BY ElementIs
            <3> QED BY <3>1, <3>2
      <2>3. adrifting' \subseteq Thing /\ lost' \in BOOLEAN
            <3>1. adrifting \subseteq Thing /\ lost \in BOOLEAN
                  BY DEF PlanTyped
            <3>2. {grabbed[k].node.thing : k \in DOMAIN grabbed} \subseteq Thing
                  BY PlanParts
            <3> QED BY <2>1, <3>1, <3>2 DEF Plan!OnPointerDown, Plan!SelectThing, Plan!Displaced
      <2>4. UNCHANGED <<stands, placed, listing, spots, plan, editing, shifts, word, fetched>>
            BY <2>1 DEF Plan!OnPointerDown, Plan!SelectThing
      <2> QED BY <2>2, <2>3, <2>4 DEF PlanTyped
<1>3. CASE \E p \in Point : Plan!MoveThing(p)
      <2>1. PICK p \in Point : Plan!MoveThing(p)
            BY <1>3
      <2>2. /\ grabbed' \in Seq(PlanChoice) /\ Len(grabbed') = 1
            /\ plan' \in Seq(PlanNode)
            BY <2>1, MovedIs
      <2>3. UNCHANGED <<stands, placed, listing, spots, editing, shifts, word, adrifting, fetched,
              lost>>
            BY <2>1 DEF Plan!MoveThing
      <2> QED BY <2>2, <2>3 DEF PlanTyped
<1>4. CASE \E c \in DOMAIN shifts : Plan!Serve(c) \/ Plan!Failed(c) \/ Plan!Answered(c)
      <2>1. PICK c \in DOMAIN shifts : Plan!Serve(c) \/ Plan!Failed(c) \/ Plan!Answered(c)
            BY <1>4
      <2>2. shifts[c] \in PlanCall /\ shifts[c].thing \in Thing /\ shifts[c].spot \in Nat \ {0}
            BY PlanParts
      <2>3. shifts' \in Seq(PlanCall)
            <3>1. \A g \in {"served", "done"} : [shifts EXCEPT ![c].stage = g] \in Seq(PlanCall)
                  <4>1. \A g \in {"served", "done"} : [shifts[c] EXCEPT !.stage = g] \in PlanCall
                        BY <2>2 DEF PlanCall
                  <4>2. shifts \in Seq(PlanCall)
                        BY DEF PlanTyped
                  <4> QED BY <4>1, <4>2
            <3> QED BY <2>1, <3>1 DEF Plan!Serve, Plan!Failed, Plan!Answered
      <2>4. word' \in Seq(PlanNews)
            <3>1. [does |-> "one", thing |-> shifts[c].thing] \in PlanNews
                  BY <2>2 DEF PlanNews
            <3>2. word \in Seq(PlanNews)
                  BY DEF PlanTyped
            <3> QED BY <2>1, <3>1, <3>2 DEF Plan!Serve, Plan!Failed, Plan!Answered, Plan!Tell
      <2>5. placed' \in [Thing -> Nat] /\ \A t \in Thing \ stands : placed'[t] = 0
            BY <2>1, <2>2 DEF Plan!Serve, Plan!Failed, Plan!Answered, PlanTyped
      <2>6. spots' \in [Thing -> Nat] /\ adrifting' \subseteq Thing
            BY <2>1, <2>2 DEF Plan!Serve, Plan!Failed, Plan!Answered, PlanTyped
      <2>7. UNCHANGED <<stands, listing, plan, editing, grabbed, fetched, lost>>
            BY <2>1 DEF Plan!Serve, Plan!Failed, Plan!Answered
      <2> QED BY <2>3, <2>4, <2>5, <2>6, <2>7 DEF PlanTyped
<1>5. CASE \E t \in Thing : Plan!Other(t)
      <2>1. PICK t \in Thing : Plan!Other(t)
            BY <1>5
      <2>2. UNCHANGED <<listing, spots, plan, editing, grabbed, shifts, adrifting, fetched, lost>>
            BY <2>1 DEF Plan!Other
      <2>3. word' \in Seq(PlanNews)
            <3>1. \A g \in {"all", "one", "removed"} : [does |-> g, thing |-> t] \in PlanNews
                  BY DEF PlanNews
            <3>2. word \in Seq(PlanNews)
                  BY DEF PlanTyped
            <3>3. \E g \in {"all", "one", "removed"} :
                    word' = Append(word, [does |-> g, thing |-> t])
                  BY <2>1 DEF Plan!Other, Plan!Tell
            <3> QED BY <3>1, <3>2, <3>3
      <2>4. /\ stands' \subseteq Thing
            /\ placed' \in [Thing -> Nat] /\ \A u \in Thing \ stands' : placed'[u] = 0
            <3>1. /\ stands \subseteq Thing /\ placed \in [Thing -> Nat]
                  /\ \A u \in Thing \ stands : placed[u] = 0
                  BY DEF PlanTyped
            <3>2. \/ /\ t \in stands /\ stands' = stands
                     /\ \E p \in Point : placed' = [placed EXCEPT ![t] = p]
                  \/ stands' = stands \ {t} /\ placed' = [placed EXCEPT ![t] = 0]
                  \/ stands' = stands \cup {t} /\ placed' = placed
                  \/ stands' = stands /\ placed' = placed
                  BY <2>1 DEF Plan!Other, Plan!Unplaced
            <3> QED BY <3>1, <3>2, PlanConstants
      <2> QED BY <2>2, <2>3, <2>4 DEF PlanTyped
<1>6. CASE Plan!OnPointerUp \/ Plan!Expire \/ Plan!Edit \/ Plan!HearOfNone \/ UNCHANGED planVars
      <2>1. grabbed' \in Seq(PlanChoice) /\ Len(grabbed') <= 1
            <3>0. <<>> \in Seq(PlanChoice) /\ Len(<<>>) = 0
                  BY EmptySeq
            <3>1. grabbed' = grabbed \/ grabbed' = <<>>
                  BY <1>6
                     DEF Plan!OnPointerUp, Plan!Expire, Plan!Edit, Plan!HearOfNone, planVars,
                         Plan!Nothing
            <3>2. grabbed \in Seq(PlanChoice) /\ Len(grabbed) <= 1
                  BY DEF PlanTyped
            <3>3. CASE grabbed' = grabbed
                  BY <3>2, <3>3
            <3>4. CASE grabbed' = <<>>
                  BY <3>0, <3>4
            <3> QED BY <3>1, <3>3, <3>4
      <2>2. word' \in Seq(PlanNews) /\ editing' \in BOOLEAN
            <3>1. /\ word' = word \/ (word # <<>> /\ word' = Tail(word))
                  /\ editing' = editing \/ editing' = TRUE
                  BY <1>6 DEF Plan!OnPointerUp, Plan!Expire, Plan!Edit, Plan!HearOfNone, planVars
            <3>2. word \in Seq(PlanNews) /\ editing \in BOOLEAN
                  BY DEF PlanTyped
            <3>3. word # <<>> => Tail(word) \in Seq(PlanNews)
                  BY <3>2
            <3>4. word' \in Seq(PlanNews)
                  BY <3>1, <3>2, <3>3
            <3> QED BY <3>1, <3>2, <3>4
      <2>3. UNCHANGED <<stands, placed, listing, spots, plan, shifts, adrifting, fetched, lost>>
            BY <1>6 DEF Plan!OnPointerUp, Plan!Expire, Plan!Edit, Plan!HearOfNone, planVars
      <2> QED BY <2>1, <2>2, <2>3 DEF PlanTyped
<1>7. CASE Plan!Done \/ Plan!DeselectThing
      <2>1. grabbed' \in Seq(PlanChoice) /\ Len(grabbed') <= 1
            <3>0. <<>> \in Seq(PlanChoice) /\ Len(<<>>) = 0
                  BY EmptySeq
            <3>1. grabbed' = grabbed \/ grabbed' = <<>>
                  BY <1>7 DEF Plan!Done, Plan!DeselectThing, Plan!Nothing
            <3>2. grabbed \in Seq(PlanChoice) /\ Len(grabbed) <= 1
                  BY DEF PlanTyped
            <3>3. CASE grabbed' = grabbed
                  BY <3>2, <3>3
            <3>4. CASE grabbed' = <<>>
                  BY <3>0, <3>4
            <3> QED BY <3>1, <3>3, <3>4
      <2>2. adrifting' \subseteq Thing /\ editing' \in BOOLEAN
            BY <1>7, PlanParts DEF Plan!Done, Plan!DeselectThing, PlanTyped
      <2>3. shifts' \in Seq(PlanCall)
            <3>1. shifts \in Seq(PlanCall)
                  BY DEF PlanTyped
            <3>2. Plan!DeselectThing
                    => [thing |-> grabbed[1].node.thing, spot |-> grabbed[1].node.spot,
                                         stage |-> "sent"] \in PlanCall
                  BY PlanParts DEF Plan!DeselectThing, PlanCall
            <3> QED BY <1>7, <3>1, <3>2 DEF Plan!Done, Plan!DeselectThing
      <2>4. UNCHANGED <<stands, placed, listing, spots, plan, word, fetched, lost>>
            BY <1>7 DEF Plan!Done, Plan!DeselectThing
      <2> QED BY <2>1, <2>2, <2>3, <2>4 DEF PlanTyped
<1> QED BY <1>1, <1>2, <1>3, <1>4, <1>5, <1>6, <1>7 DEF Plan!Next

\* An element that is in the page is the icon of its thing.
LiveIsThere ==
  grabbed # Plan!Nothing /\ grabbed[1].live =>
    /\ grabbed[1].index \in DOMAIN plan
    /\ plan[grabbed[1].index].thing = grabbed[1].node.thing

\* Unless an icon disappeared, the icon that was pressed has its index, and the icons are the
\* first of the Map.
PressedIsThere ==
  grabbed # Plan!Nothing /\ ~lost =>
    /\ grabbed[1].index \in DOMAIN plan
    /\ plan[grabbed[1].index].thing = grabbed[1].node.thing
    /\ ~Plan!Displaced

\* While the page hears or shows, icons that stay keep their place in the Map.
LEMMA PlanAhead ==
  ASSUME PlanTyped, Plan!Hear \/ Plan!Show, ~Plan!Displaced,
         Plan!Icons \subseteq Plan!ToSet(listing')
  PROVE  \A i \in DOMAIN plan : i \in DOMAIN listing' /\ listing'[i] = plan[i].thing
<1>1. \A i \in DOMAIN plan : i \in DOMAIN listing /\ listing[i] = plan[i].thing
      BY DEF Plan!Displaced
<1>2. CASE Plan!Show
      BY <1>1, <1>2 DEF Plan!Show
<1>3. CASE Plan!Hear
      <2> DEFINE m == Len(plan)
      <2>1. DOMAIN plan = 1 .. m /\ m \in Nat
            BY DEF PlanTyped
      <2>2. \A i \in DOMAIN plan : plan[i].thing \in Plan!Icons
            BY DEF Plan!Icons, Plan!ToSet
      <2> HIDE DEF m
      <2>3. 1 .. m \subseteq DOMAIN listing /\ \A i \in 1 .. m :
              listing[i] \in Plan!ToSet(listing')
            BY <1>1, <2>1, <2>2
      <2>4. \A j \in 1 .. m : j \in DOMAIN listing' /\ listing'[j] = listing[j]
            BY <1>3, <2>1, <2>3, HeardIs
      <2> QED BY <1>1, <2>1, <2>4
<1> QED BY <1>2, <1>3

\* What a refresh leaves of what is chosen.
LEMMA PlanRedrawn ==
  ASSUME PlanTyped, Plan!Hear \/ Plan!Show, grabbed' # Plan!Nothing
  PROVE  /\ grabbed # Plan!Nothing
         /\ grabbed'[1].node = grabbed[1].node /\ grabbed'[1].index = grabbed[1].index
         /\ editing => grabbed' = grabbed /\ plan' = plan
         /\ ~editing => /\ ~grabbed'[1].live
                        /\ DOMAIN plan' = DOMAIN listing'
                        /\ \A i \in DOMAIN listing' : plan'[i].thing = listing'[i]
         /\ lost' = (lost \/ ~(Plan!Icons \subseteq Plan!ToSet(listing')))
<1>1. PICK s \in [Thing -> Nat] : Plan!RefreshThings(listing', s)
      BY PlanDrawn
<1>2. listing' \in Seq(Thing)
      BY PlanDrawn
<1>3. /\ grabbed' \in Seq(PlanChoice)
      /\ lost' = (lost \/ ~(Plan!Icons \subseteq Plan!ToSet(listing')))
      /\ DOMAIN grabbed' = DOMAIN grabbed
      /\ \A i \in DOMAIN grabbed : /\ grabbed'[i].node = grabbed[i].node
                                   /\ grabbed'[i].index = grabbed[i].index
      /\ editing => plan' = plan /\ grabbed' = grabbed
      /\ ~editing => /\ DOMAIN plan' = DOMAIN listing'
                     /\ \A i \in DOMAIN listing' : plan'[i].thing = listing'[i]
                     /\ \A i \in DOMAIN grabbed : ~grabbed'[i].live
      BY <1>1, <1>2, Refreshed
<1>4. grabbed # Plan!Nothing
      <2> SUFFICES ASSUME grabbed = Plan!Nothing PROVE FALSE
          OBVIOUS
      <2>1. DOMAIN grabbed' = {}
            BY <1>3, PlanParts
      <2>2. Len(grabbed') = 0
            BY <1>3, <2>1
      <2> QED BY <1>3, <2>2, EmptySeq DEF Plan!Nothing
<1>5. 1 \in DOMAIN grabbed
      BY <1>4, PlanParts
<1> QED BY <1>3, <1>4, <1>5

\* A press gets to the icon it was meant for.
LEMMA PressedKeeps ==
  ASSUME PlanTyped, LiveIsThere, PressedIsThere, [Plan!Next]_planVars
  PROVE  LiveIsThere' /\ PressedIsThere'
<1> USE DEF Plan!Gateway, Plan!Page, Plan!Pointer
<1>1. CASE Plan!Hear \/ Plan!Show
      <2> SUFFICES ASSUME grabbed' # Plan!Nothing
                   PROVE  /\ grabbed'[1].live =>
                               /\ grabbed'[1].index \in DOMAIN plan'
                               /\ plan'[grabbed'[1].index].thing = grabbed'[1].node.thing
                          /\ ~lost' =>
                               /\ grabbed'[1].index \in DOMAIN plan'
                               /\ plan'[grabbed'[1].index].thing = grabbed'[1].node.thing
                               /\ ~Plan!Displaced'
          BY DEF LiveIsThere, PressedIsThere, Plan!Nothing
      <2>1. /\ grabbed # Plan!Nothing
            /\ grabbed'[1].node = grabbed[1].node /\ grabbed'[1].index = grabbed[1].index
            /\ editing => grabbed' = grabbed /\ plan' = plan
            /\ ~editing => /\ ~grabbed'[1].live
                           /\ DOMAIN plan' = DOMAIN listing'
                           /\ \A i \in DOMAIN listing' : plan'[i].thing = listing'[i]
            /\ lost' = (lost \/ ~(Plan!Icons \subseteq Plan!ToSet(listing')))
            BY <1>1, PlanRedrawn
      <2>2. grabbed'[1].live => /\ grabbed'[1].index \in DOMAIN plan'
                                /\ plan'[grabbed'[1].index].thing = grabbed'[1].node.thing
            BY <2>1 DEF LiveIsThere
      <2>3. ASSUME ~lost'
            PROVE  /\ grabbed'[1].index \in DOMAIN plan'
                   /\ plan'[grabbed'[1].index].thing = grabbed'[1].node.thing
                   /\ ~Plan!Displaced'
            <3>1. ~lost /\ Plan!Icons \subseteq Plan!ToSet(listing')
                  BY <2>1, <2>3
            <3>2. /\ grabbed[1].index \in DOMAIN plan
                  /\ plan[grabbed[1].index].thing = grabbed[1].node.thing
                  /\ ~Plan!Displaced
                  BY <2>1, <3>1 DEF PressedIsThere
            <3>3. \A i \in DOMAIN plan : i \in DOMAIN listing' /\ listing'[i] = plan[i].thing
                  BY <1>1, <3>1, <3>2, PlanAhead
            <3>4. \A i \in DOMAIN plan' : i \in DOMAIN listing' /\ listing'[i] = plan'[i].thing
                  BY <2>1, <3>3
            <3> QED BY <2>1, <3>2, <3>3, <3>4 DEF Plan!Displaced
      <2> QED BY <2>2, <2>3
<1>2. CASE \E i \in DOMAIN plan : Plan!OnPointerDown(i) \/ Plan!SelectThing(i)
      <2>1. PICK i \in DOMAIN plan : Plan!OnPointerDown(i) \/ Plan!SelectThing(i)
            BY <1>2
      <2>2. /\ grabbed' = Plan!Element(i) /\ UNCHANGED <<plan, listing>>
            /\ ~lost' => ~Plan!Displaced
            BY <2>1 DEF Plan!OnPointerDown, Plan!SelectThing, Plan!Displaced
      <2>3. /\ Plan!Element(i)[1].node = plan[i] /\ Plan!Element(i)[1].index = i
            BY ElementIs
      <2>4. Plan!Displaced' <=> Plan!Displaced
            BY <2>2 DEF Plan!Displaced
      <2> QED BY <2>2, <2>3, <2>4 DEF LiveIsThere, PressedIsThere
<1>3. CASE \E p \in Point : Plan!MoveThing(p)
      <2>1. PICK p \in Point : Plan!MoveThing(p)
            BY <1>3
      <2>2. /\ grabbed # Plan!Nothing
            /\ grabbed'[1].node.thing = grabbed[1].node.thing
            /\ grabbed'[1].index = grabbed[1].index /\ grabbed'[1].live = grabbed[1].live
            /\ DOMAIN plan' = DOMAIN plan
            /\ \A i \in DOMAIN plan : plan'[i].thing = plan[i].thing
            BY <2>1, MovedIs
      <2>3. lost' = lost /\ listing' = listing
            BY <2>1 DEF Plan!MoveThing
      <2>4. Plan!Displaced' <=> Plan!Displaced
            BY <2>2, <2>3 DEF Plan!Displaced
      <2> QED BY <2>2, <2>3, <2>4 DEF LiveIsThere, PressedIsThere
<1>4. CASE \/ \E c \in DOMAIN shifts : Plan!Serve(c) \/ Plan!Failed(c) \/ Plan!Answered(c)
           \/ \E t \in Thing : Plan!Other(t)
           \/ Plan!OnPointerUp \/ Plan!Expire \/ Plan!Edit \/ Plan!Done \/ Plan!DeselectThing
               \/ Plan!HearOfNone \/ UNCHANGED planVars
      <2>1. UNCHANGED <<plan, listing, lost>> /\ (grabbed' = grabbed \/ grabbed' = Plan!Nothing)
            BY <1>4
               DEF Plan!Serve, Plan!Failed, Plan!Answered, Plan!Other, Plan!OnPointerUp,
                   Plan!Expire, Plan!Edit, Plan!Done,
               Plan!DeselectThing, Plan!HearOfNone, planVars, Plan!Nothing
      <2>2. Plan!Displaced' <=> Plan!Displaced
            BY <2>1 DEF Plan!Displaced
      <2> QED BY <2>1, <2>2 DEF LiveIsThere, PressedIsThere, Plan!Nothing
<1> QED BY <1>1, <1>2, <1>3, <1>4 DEF Plan!Next

\* So the icon that was pressed gets the click.
LEMMA ClickedKeeps ==
  ASSUME PlanTyped, PressedIsThere, Plan!ClickedIsPressed, [Plan!Next]_planVars
  PROVE  Plan!ClickedIsPressed'
<1> USE DEF Plan!Gateway, Plan!Page, Plan!Pointer
<1>1. CASE Plan!OnPointerUp
      <2>1. lost' = lost /\ grabbed # Plan!Nothing
            BY <1>1 DEF Plan!OnPointerUp
      <2>2. \/ clicked' = clicked
            \/ clicked' = <<grabbed[1].node.thing, plan[grabbed[1].index].thing>>
            BY <1>1 DEF Plan!OnPointerUp
      <2> QED BY <2>1, <2>2 DEF PressedIsThere, Plan!ClickedIsPressed
<1>2. CASE Plan!Hear \/ Plan!Show
      <2>1. clicked' = clicked
            BY <1>2 DEF Plan!Hear, Plan!Show
      <2>2. PICK s \in [Thing -> Nat] : Plan!RefreshThings(listing', s)
            BY <1>2, PlanDrawn
      <2>3. ~lost' => ~lost
            BY <2>2 DEF Plan!RefreshThings
      <2> QED BY <2>1, <2>3 DEF Plan!ClickedIsPressed
<1>3. CASE \E i \in DOMAIN plan : Plan!OnPointerDown(i) \/ Plan!SelectThing(i)
      BY <1>3 DEF Plan!OnPointerDown, Plan!SelectThing, Plan!ClickedIsPressed
<1>4. CASE \/ \E c \in DOMAIN shifts : Plan!Serve(c) \/ Plan!Failed(c) \/ Plan!Answered(c)
           \/ \E t \in Thing : Plan!Other(t)
           \/ \E p \in Point : Plan!MoveThing(p)
           \/ Plan!Expire \/ Plan!Edit \/ Plan!Done \/ Plan!DeselectThing \/ Plan!HearOfNone
               \/ UNCHANGED planVars
      <2>1. UNCHANGED <<lost, clicked>>
            BY <1>4
               DEF Plan!Serve, Plan!Failed, Plan!Answered, Plan!Other, Plan!MoveThing,
                   Plan!Expire, Plan!Edit, Plan!Done,
               Plan!DeselectThing, Plan!HearOfNone, planVars
      <2> QED BY <2>1 DEF Plan!ClickedIsPressed
<1> QED BY <1>1, <1>2, <1>3, <1>4 DEF Plan!Next

\* An icon that is being dragged; news of a thing that comes; a request to place it.
IsHeld(t) == editing /\ grabbed # Plan!Nothing /\ grabbed[1].node.thing = t
IsPending(t) == \E i \in DOMAIN word : word[i].does = "all" \/ word[i].thing = t
IsAsked(t) == \E c \in DOMAIN shifts : shifts[c].stage = "sent" /\ shifts[c].thing = t

\* A spot is where the gateway has the thing, or news of it comes, or it waits for a request.
IsRight(t, s) == \/ t \in adrifting \/ t \notin stands \/ placed[t] = 0 \/ placed[t] = s
                 \/ IsPending(t) \/ IsAsked(t)
SpotsRight == \A t \in Plan!ToSet(listing) : IsRight(t, spots[t])
NodesRight == \A i \in DOMAIN plan : IsRight(plan[i].thing, plan[i].spot) \/ IsHeld(plan[i].thing)

\* What is said to be removed is gone, or everything is told after it.
RemovedIsGone ==
  \A i \in DOMAIN word : word[i].does = "removed" /\ word[i].thing \in stands =>
    \E j \in DOMAIN word : i < j /\ word[j].does = "all"

\* A piece of news is heard: the others are still to come, and what was said to be removed is
\* gone or told of again.
LEMMA NewsHeard ==
  ASSUME PlanTyped, RemovedIsGone, word # <<>>, word' = Tail(word), stands' = stands,
         NEW n, n = Head(word)
  PROVE  /\ n \in PlanNews
         /\ RemovedIsGone'
         /\ \A t \in Thing : IsPending(t) => n.does = "all" \/ n.thing = t \/ IsPending(t)'
         /\ n.does = "removed" => n.thing \notin stands \/ \A t \in Thing : IsPending(t)'
<1>1. word \in Seq(PlanNews)
      BY DEF PlanTyped
<1>2. /\ Len(word) \in Nat \ {0} /\ DOMAIN word = 1 .. Len(word) /\ n = word[1]
      /\ DOMAIN word' = 1 .. Len(word) - 1
      /\ \A i \in DOMAIN word' : word'[i] = word[i + 1]
      BY <1>1, EmptySeq
<1>3. n \in PlanNews
      BY <1>1, <1>2
<1>4. ASSUME NEW t \in Thing, IsPending(t), n.does # "all", n.thing # t PROVE IsPending(t)'
      <2>1. PICK i \in DOMAIN word : word[i].does = "all" \/ word[i].thing = t
            BY <1>4 DEF IsPending
      <2>2. i # 1
            BY <1>2, <1>4, <2>1
      <2>3. i - 1 \in DOMAIN word' /\ word'[i - 1] = word[i]
            BY <1>2, <2>2
      <2> QED BY <2>1, <2>3 DEF IsPending
<1>5. ASSUME n.does = "removed", n.thing \in stands, NEW t \in Thing PROVE IsPending(t)'
      <2>1. PICK j \in DOMAIN word : 1 < j /\ word[j].does = "all"
            BY <1>2, <1>5 DEF RemovedIsGone
      <2>2. j - 1 \in DOMAIN word' /\ word'[j - 1] = word[j]
            BY <1>2, <2>1
      <2> QED BY <2>1, <2>2 DEF IsPending
<1>6. RemovedIsGone'
      <2> SUFFICES ASSUME NEW i \in DOMAIN word', word'[i].does = "removed",
                          word'[i].thing \in stands
                   PROVE  \E j \in DOMAIN word' : i < j /\ word'[j].does = "all"
          BY DEF RemovedIsGone
      <2>1. i + 1 \in DOMAIN word /\ word[i + 1] = word'[i]
            BY <1>2
      <2>2. PICK j \in DOMAIN word : i + 1 < j /\ word[j].does = "all"
            BY <2>1 DEF RemovedIsGone
      <2>3. j - 1 \in DOMAIN word' /\ word'[j - 1] = word[j] /\ i < j - 1
            BY <1>2, <2>2
      <2> QED BY <2>2, <2>3
<1> QED BY <1>3, <1>4, <1>5, <1>6

\* What is told is told after what was told before.
LEMMA NewsTold ==
  ASSUME PlanTyped, NEW does \in {"all", "one", "removed"}, NEW t \in Thing, Plan!Tell(does, t)
  PROVE  /\ IsPending(t)'
         /\ does = "all" => \A u \in Thing : IsPending(u)'
         /\ \A u \in Thing : IsPending(u) => IsPending(u)'
         /\ DOMAIN word' = 1 .. Len(word) + 1 /\ Len(word) \in Nat
         /\ word'[Len(word) + 1].does = does /\ word'[Len(word) + 1].thing = t
         /\ \A i \in DOMAIN word : i \in DOMAIN word' /\ word'[i] = word[i] /\ i < Len(word) + 1
<1>1. word \in Seq(PlanNews)
      BY DEF PlanTyped
<1>2. word' = Append(word, [does |-> does, thing |-> t])
      BY DEF Plan!Tell
<1>3. /\ DOMAIN word' = 1 .. Len(word) + 1 /\ Len(word) \in Nat
      /\ word'[Len(word) + 1] = [does |-> does, thing |-> t]
      /\ \A i \in DOMAIN word : i \in DOMAIN word' /\ word'[i] = word[i] /\ i < Len(word) + 1
      BY <1>1, <1>2
<1>4. word'[Len(word) + 1].does = does /\ word'[Len(word) + 1].thing = t
      BY <1>3
<1>5. Len(word) + 1 \in DOMAIN word'
      BY <1>3
<1> QED BY <1>3, <1>4, <1>5 DEF IsPending

\* What is said to be removed stays gone, or everything is told after it.
LEMMA RemovedStays ==
  ASSUME PlanTyped, RemovedIsGone, [Plan!Next]_planVars
  PROVE  RemovedIsGone'
<1> USE DEF Plan!Gateway, Plan!Page, Plan!Pointer
<1>1. CASE Plan!Hear \/ Plan!HearOfNone
      <2>1. word # <<>> /\ word' = Tail(word) /\ stands' = stands
            BY <1>1 DEF Plan!Hear, Plan!HearOfNone
      <2> QED BY <2>1, NewsHeard
<1>2. CASE \E c \in DOMAIN shifts : Plan!Serve(c)
      <2>1. PICK c \in DOMAIN shifts : Plan!Serve(c)
            BY <1>2
      <2>2. shifts[c].thing \in Thing /\ Plan!Tell("one", shifts[c].thing) /\ stands' = stands
            BY <2>1, PlanParts DEF Plan!Serve
      <2>3. /\ DOMAIN word' = 1 .. Len(word) + 1 /\ Len(word) \in Nat
            /\ word'[Len(word) + 1].does = "one"
            /\ \A i \in DOMAIN word :
                i \in DOMAIN word' /\ word'[i] = word[i] /\ i < Len(word) + 1
            BY <2>2, NewsTold
      <2>4. DOMAIN word = 1 .. Len(word)
            BY DEF PlanTyped
      <2> QED BY <2>2, <2>3, <2>4 DEF RemovedIsGone
<1>3. CASE \E t \in Thing : Plan!Other(t)
      <2>1. PICK t \in Thing : Plan!Other(t)
            BY <1>3
      <2>2. PICK g \in {"all", "one", "removed"} :
              /\ Plan!Tell(g, t)
              /\ g = "all" => stands' = stands \cup {t}
              /\ g = "one" => stands' = stands
              /\ g = "removed" => stands' = stands \ {t}
            BY <2>1 DEF Plan!Other
      <2>3. /\ DOMAIN word' = 1 .. Len(word) + 1 /\ Len(word) \in Nat
            /\ word'[Len(word) + 1].does = g /\ word'[Len(word) + 1].thing = t
            /\ \A i \in DOMAIN word :
                i \in DOMAIN word' /\ word'[i] = word[i] /\ i < Len(word) + 1
            BY <2>2, NewsTold
      <2>4. DOMAIN word = 1 .. Len(word)
            BY DEF PlanTyped
      <2> SUFFICES ASSUME NEW i \in DOMAIN word', word'[i].does = "removed",
                          word'[i].thing \in stands'
                   PROVE  \E j \in DOMAIN word' : i < j /\ word'[j].does = "all"
          BY DEF RemovedIsGone
      <2>5. i \in DOMAIN word /\ word'[i] = word[i] /\ i < Len(word) + 1
            <3>1. i # Len(word) + 1
                  BY <2>2, <2>3
            <3> QED BY <2>3, <2>4, <3>1
      <2>6. CASE g = "all"
            BY <2>3, <2>5, <2>6
      <2>7. CASE g # "all"
            <3>1. word[i].thing \in stands
                  BY <2>2, <2>5, <2>7
            <3>2. PICK j \in DOMAIN word : i < j /\ word[j].does = "all"
                  BY <2>5, <3>1 DEF RemovedIsGone
            <3> QED BY <2>3, <3>2
      <2> QED BY <2>6, <2>7
<1>4. CASE \/ \E i \in DOMAIN plan : Plan!OnPointerDown(i) \/ Plan!SelectThing(i)
           \/ \E p \in Point : Plan!MoveThing(p)
           \/ \E c \in DOMAIN shifts : Plan!Failed(c) \/ Plan!Answered(c)
           \/ Plan!OnPointerUp \/ Plan!Expire \/ Plan!Edit \/ Plan!Done \/ Plan!DeselectThing
               \/ Plan!Show \/ UNCHANGED planVars
      <2>1. UNCHANGED <<word, stands>>
            BY <1>4
               DEF Plan!OnPointerDown, Plan!SelectThing, Plan!MoveThing, Plan!Failed,
                   Plan!Answered, Plan!OnPointerUp,
               Plan!Expire, Plan!Edit, Plan!Done, Plan!DeselectThing, Plan!Show, planVars
      <2> QED BY <2>1 DEF RemovedIsGone
<1> QED BY <1>1, <1>2, <1>3, <1>4 DEF Plan!Next

\* A spot will be right.
WillBeRight(t, s) == \/ t \in adrifting' \/ t \notin stands' \/ placed'[t] = 0 \/ placed'[t] = s
                     \/ IsPending(t)' \/ IsAsked(t)'

\* A spot that is right stays right, while nothing is drawn.
LEMMA RightKeeps ==
  ASSUME PlanTyped, RemovedIsGone, [Plan!Next]_planVars, ~Plan!Hear, ~Plan!Show
  PROVE  \A t \in Thing, s \in Nat : IsRight(t, s) => WillBeRight(t, s)
<1> USE DEF Plan!Gateway, Plan!Page, Plan!Pointer
<1>0. adrifting \subseteq Thing /\ shifts \in Seq(PlanCall) /\ placed \in [Thing -> Nat]
      BY DEF PlanTyped
<1>1. CASE Plan!HearOfNone
      <2> DEFINE n == Head(word)
      <2>1. word # <<>> /\ word' = Tail(word) /\ UNCHANGED <<stands, placed, adrifting, shifts>>
              /\ ~Plan!Found(n)
            BY <1>1 DEF Plan!HearOfNone
      <2>2. /\ n \in PlanNews
            /\ \A t \in Thing : IsPending(t) => n.does = "all" \/ n.thing = t \/ IsPending(t)'
            /\ n.does = "removed" => n.thing \notin stands \/ \A t \in Thing : IsPending(t)'
            BY <2>1, NewsHeard
      <2> HIDE DEF n
      <2>3. n.does = "removed" \/ n.thing \notin stands
            BY <2>1, <2>2 DEF Plan!Found, PlanNews
      <2>4. n.does # "all"
            BY <2>1 DEF Plan!Found
      <2>5. \A t \in Thing : IsAsked(t) => IsAsked(t)'
            BY <2>1 DEF IsAsked
      <2> QED BY <2>1, <2>2, <2>3, <2>4, <2>5 DEF IsRight, WillBeRight
<1>2. CASE \E c \in DOMAIN shifts : Plan!Serve(c)
      <2>1. PICK c \in DOMAIN shifts : Plan!Serve(c)
            BY <1>2
      <2>0. PICK u \in Thing : u = shifts[c].thing
            BY PlanParts
      <2>2. /\ u \in Thing /\ Plan!Tell("one", u) /\ UNCHANGED <<stands, adrifting>>
            /\ shifts' = [shifts EXCEPT ![c].stage = "served"]
            /\ placed' = [placed EXCEPT ![u] = shifts[c].spot]
            BY <2>0, <2>1 DEF Plan!Serve
      <2>3. IsPending(u)' /\ \A t \in Thing : IsPending(t) => IsPending(t)'
            BY <2>2, NewsTold
      <2>4. \A t \in Thing : t # u => placed'[t] = placed[t]
            BY <1>0, <2>2
      <2>5. \A t \in Thing : t # u => (IsAsked(t) => IsAsked(t)')
            BY <1>0, <2>0, <2>2 DEF IsAsked
      <2> QED BY <2>2, <2>3, <2>4, <2>5 DEF IsRight, WillBeRight
<1>3. CASE \E c \in DOMAIN shifts : Plan!Failed(c)
      <2>1. PICK c \in DOMAIN shifts : Plan!Failed(c)
            BY <1>3
      <2>0. PICK u \in Thing : u = shifts[c].thing
            BY PlanParts
      <2>2. /\ u \in Thing /\ UNCHANGED <<stands, placed, word>>
            /\ adrifting' = adrifting \cup {u}
            /\ shifts' = [shifts EXCEPT ![c].stage = "done"]
            BY <2>0, <2>1 DEF Plan!Failed
      <2>3. \A t \in Thing : IsPending(t) => IsPending(t)'
            BY <2>2 DEF IsPending
      <2>5. \A t \in Thing : t # u => (IsAsked(t) => IsAsked(t)')
            BY <1>0, <2>0, <2>2 DEF IsAsked
      <2> QED BY <2>2, <2>3, <2>5 DEF IsRight, WillBeRight
<1>4. CASE \E c \in DOMAIN shifts : Plan!Answered(c)
      <2>1. PICK c \in DOMAIN shifts : Plan!Answered(c)
            BY <1>4
      <2>2. /\ UNCHANGED <<stands, placed, word>> /\ adrifting \subseteq adrifting'
            /\ shifts[c].stage = "served" /\ shifts' = [shifts EXCEPT ![c].stage = "done"]
            BY <2>1 DEF Plan!Answered
      <2>3. \A t \in Thing : IsPending(t) => IsPending(t)'
            BY <2>2 DEF IsPending
      <2>4. \A t \in Thing : IsAsked(t) => IsAsked(t)'
            BY <1>0, <2>2 DEF IsAsked
      <2> QED BY <2>2, <2>3, <2>4 DEF IsRight, WillBeRight
<1>5. CASE \E t \in Thing : Plan!Other(t)
      <2>1. PICK u \in Thing : Plan!Other(u)
            BY <1>5
      <2>2. /\ UNCHANGED <<adrifting, shifts>>
            /\ \E g \in {"all", "one", "removed"} : Plan!Tell(g, u)
            BY <2>1 DEF Plan!Other
      <2>3. IsPending(u)' /\ \A t \in Thing : IsPending(t) => IsPending(t)'
            BY <2>2, NewsTold
      <2>4. \A t \in Thing : t # u => placed'[t] = placed[t] /\ (t \in stands' <=> t \in stands)
            BY <1>0, <2>1 DEF Plan!Other
      <2>5. \A t \in Thing : IsAsked(t) => IsAsked(t)'
            BY <2>2 DEF IsAsked
      <2> QED BY <2>2, <2>3, <2>4, <2>5 DEF IsRight, WillBeRight
<1>6. CASE Plan!DeselectThing
      <2> DEFINE k == [thing |-> grabbed[1].node.thing, spot |-> grabbed[1].node.spot,
                       stage |-> "sent"]
      <2>1. /\ UNCHANGED <<stands, placed, word>> /\ adrifting \subseteq adrifting'
            /\ shifts' = Append(shifts, k)
            BY <1>6 DEF Plan!DeselectThing
      <2> HIDE DEF k
      <2>2. \A t \in Thing : IsPending(t) => IsPending(t)'
            BY <2>1 DEF IsPending
      <2>3. \A c \in DOMAIN shifts : c \in DOMAIN shifts' /\ shifts'[c] = shifts[c]
            BY <1>0, <2>1
      <2>4. \A t \in Thing : IsAsked(t) => IsAsked(t)'
            BY <2>3 DEF IsAsked
      <2> QED BY <2>1, <2>2, <2>4 DEF IsRight, WillBeRight
<1>7. CASE \/ \E i \in DOMAIN plan : Plan!OnPointerDown(i) \/ Plan!SelectThing(i)
           \/ \E p \in Point : Plan!MoveThing(p)
           \/ Plan!OnPointerUp \/ Plan!Expire \/ Plan!Edit \/ Plan!Done \/ UNCHANGED planVars
      <2>1. UNCHANGED <<stands, placed, word, shifts>> /\ adrifting \subseteq adrifting'
            BY <1>7
               DEF Plan!OnPointerDown, Plan!SelectThing, Plan!MoveThing, Plan!OnPointerUp,
                   Plan!Expire, Plan!Edit, Plan!Done, planVars
      <2>2. \A t \in Thing : IsPending(t) => IsPending(t)'
            BY <2>1 DEF IsPending
      <2>3. \A t \in Thing : IsAsked(t) => IsAsked(t)'
            BY <2>1 DEF IsAsked
      <2> QED BY <2>1, <2>2, <2>3 DEF IsRight, WillBeRight
<1> QED BY <1>1, <1>2, <1>3, <1>4, <1>5, <1>6, <1>7 DEF Plan!Next

\* While the page hears or shows, what it draws or keeps is right.
LEMMA RightDrawn ==
  ASSUME PlanTyped, RemovedIsGone, SpotsRight, NodesRight, Plan!Hear \/ Plan!Show
  PROVE  SpotsRight' /\ NodesRight'
<1> USE DEF Plan!Gateway, Plan!Page, Plan!Pointer
<1>0. UNCHANGED <<stands, placed, editing, shifts>>
      BY DEF Plan!Hear, Plan!Show
<1>1. listing' \in Seq(Thing)
      BY PlanDrawn
<1>2. \A t \in Thing : IsAsked(t) => IsAsked(t)'
      BY <1>0 DEF IsAsked
<1>3. \E s \in [Thing -> Nat] :
        /\ Plan!RefreshThings(listing', s)
        /\ \A t \in Plan!ToSet(listing') : \/ t \in adrifting \/ t \notin stands
                                               \/ placed[t] \in {0, s[t]}
                                           \/ IsPending(t)' \/ IsAsked(t)'
        /\ \A i \in DOMAIN plan :
             \A t \in {plan[i].thing} :
               \/ t \in adrifting \/ t \notin stands \/ placed[t] \in {0, plan[i].spot, s[t]}
               \/ IsPending(t)' \/ IsAsked(t)' \/ IsHeld(t)
      <2>1. CASE Plan!Show
            <3>1. word' = word /\ listing' = listing /\ Plan!RefreshThings(listing', spots)
                  BY <2>1 DEF Plan!Show
            <3>2. spots \in [Thing -> Nat]
                  BY DEF PlanTyped
            <3>3. \A t : IsPending(t) => IsPending(t)'
                  BY <3>1 DEF IsPending
            <3>4. \A t \in Plan!ToSet(listing') : \/ t \in adrifting \/ t \notin stands
                                                  \/ placed[t] \in {0, spots[t]}
                                                  \/ IsPending(t)' \/ IsAsked(t)'
                  <4>1. \A t \in Plan!ToSet(listing) : t \in Thing
                        BY PlanParts DEF Plan!ToSet
                  <4> QED BY <1>2, <3>1, <3>3, <4>1 DEF SpotsRight, IsRight
            <3>5. ASSUME NEW i \in DOMAIN plan, NEW t, t = plan[i].thing
                  PROVE  \/ t \in adrifting \/ t \notin stands
                         \/ placed[t] \in {0, plan[i].spot, spots[t]}
                         \/ IsPending(t)' \/ IsAsked(t)' \/ IsHeld(t)
                  <4>1. t \in Thing
                        BY <3>5, PlanParts
                  <4>2. IsRight(t, plan[i].spot) \/ IsHeld(t)
                        BY <3>5 DEF NodesRight
                  <4> QED BY <1>2, <3>3, <4>1, <4>2 DEF IsRight
            <3> QED BY <3>1, <3>2, <3>4, <3>5
      <2>2. CASE Plan!Hear
            <3> DEFINE n == Head(word)
                       s == HeardSpots(n)
            <3>0. word # <<>> /\ word' = Tail(word) /\ stands' = stands
                  BY <2>2 DEF Plan!Hear
            <3>1. /\ n \in PlanNews /\ Plan!RefreshThings(listing', s) /\ s \in [Thing -> Nat]
                  /\ n.does # "all" => \A t \in Plan!ToSet(listing') :
                       \/ t \in Plan!ToSet(listing) /\ ~(n.does = "removed" /\ t = n.thing)
                       \/ n.does = "one" /\ t = n.thing
                  BY <2>2, HeardIs
            <3>2. /\ \A t \in Thing : IsPending(t)
                      => n.does = "all" \/ n.thing = t \/ IsPending(t)'
                  /\ n.does = "removed" => n.thing \notin stands \/ \A t \in Thing : IsPending(t)'
                  BY <3>0, NewsHeard
            <3>3. \A t \in Thing :
                    s[t] = IF n.does = "all" \/ t = n.thing THEN placed[t] ELSE spots[t]
                  BY DEF HeardSpots
            <3> HIDE DEF n, s
            <3>4. ASSUME NEW t \in Plan!ToSet(listing')
                  PROVE  \/ t \in adrifting \/ t \notin stands \/ placed[t] \in {0, s[t]}
                         \/ IsPending(t)' \/ IsAsked(t)'
                  <4>1. t \in Thing
                        BY <1>1 DEF Plan!ToSet
                  <4>2. CASE n.does = "all" \/ t = n.thing
                        BY <3>3, <4>1, <4>2
                  <4>3. CASE n.does # "all" /\ t # n.thing
                        <5>1. t \in Plan!ToSet(listing)
                              BY <3>1, <4>3
                        <5> QED BY <1>2, <3>2, <3>3, <4>1, <4>3, <5>1 DEF SpotsRight, IsRight
                  <4> QED BY <4>2, <4>3
            <3>5. ASSUME NEW i \in DOMAIN plan, NEW t, t = plan[i].thing
                  PROVE  \/ t \in adrifting \/ t \notin stands
                             \/ placed[t] \in {0, plan[i].spot, s[t]}
                         \/ IsPending(t)' \/ IsAsked(t)' \/ IsHeld(t)
                  <4>1. t \in Thing
                        BY <3>5, PlanParts
                  <4>2. CASE n.does = "all" \/ t = n.thing
                        BY <3>3, <4>1, <4>2
                  <4>3. CASE n.does # "all" /\ t # n.thing
                        <5>1. IsRight(t, plan[i].spot) \/ IsHeld(t)
                              BY <3>5 DEF NodesRight
                        <5> QED BY <1>2, <3>2, <4>1, <4>3, <5>1 DEF IsRight
                  <4> QED BY <4>2, <4>3
            <3>6. \A i \in DOMAIN plan :
                    \A t \in {plan[i].thing} :
                      \/ t \in adrifting \/ t \notin stands
                          \/ placed[t] \in {0, plan[i].spot, s[t]}
                      \/ IsPending(t)' \/ IsAsked(t)' \/ IsHeld(t)
                  BY <3>5
            <3> QED BY <3>1, <3>4, <3>6, Zenon
      <2> QED BY <2>1, <2>2
<1>4. PICK s \in [Thing -> Nat] :
        /\ Plan!RefreshThings(listing', s)
        /\ \A t \in Plan!ToSet(listing') : \/ t \in adrifting \/ t \notin stands
                                               \/ placed[t] \in {0, s[t]}
                                           \/ IsPending(t)' \/ IsAsked(t)'
        /\ \A i \in DOMAIN plan :
             \A t \in {plan[i].thing} :
               \/ t \in adrifting \/ t \notin stands \/ placed[t] \in {0, plan[i].spot, s[t]}
               \/ IsPending(t)' \/ IsAsked(t)' \/ IsHeld(t)
      BY <1>3
<1>5. /\ plan' \in Seq(PlanNode)
      /\ \A t \in Thing : t \notin Plan!ToSet(listing') \/ s[t] # 0 => spots'[t] = s[t]
      /\ editing => /\ spots' = s /\ plan' = plan /\ grabbed' = grabbed
                    /\ adrifting \subseteq adrifting'
                    /\ \A i \in DOMAIN plan :
                         plan[i].thing \in adrifting' \/ plan[i].spot = s[plan[i].thing]
      /\ ~editing => /\ DOMAIN plan' = DOMAIN listing'
                     /\ \A i \in DOMAIN listing' : /\ plan'[i].thing = listing'[i]
                                                   /\ plan'[i].spot = spots'[listing'[i]]
                     /\ \A t \in adrifting : \/ t \in adrifting' \/ spots'[t] = placed[t]
                                             \/ placed[t] = 0 /\ s[t] = 0
      BY <1>1, <1>4, Refreshed
<1>6. \A t \in Plan!ToSet(listing') : t \in Thing /\ s[t] \in Nat
      BY <1>1 DEF Plan!ToSet
<1>7. \A t \in Plan!ToSet(listing') : WillBeRight(t, spots'[t])
      <2> SUFFICES ASSUME NEW t \in Plan!ToSet(listing') PROVE WillBeRight(t, spots'[t])
          OBVIOUS
      <2>1. t \in Thing /\ (s[t] # 0 => spots'[t] = s[t])
            BY <1>5, <1>6
      <2>2. t \in adrifting => t \in adrifting' \/ spots'[t] = placed[t] \/ placed[t] = 0
            BY <1>5
      <2>3. placed[t] \in {0, s[t]} => placed[t] = 0 \/ placed[t] = spots'[t]
            BY <2>1
      <2>4. \/ t \in adrifting \/ t \notin stands \/ placed[t] \in {0, s[t]}
            \/ IsPending(t)' \/ IsAsked(t)'
            BY <1>4
      <2> QED BY <1>0, <2>2, <2>3, <2>4 DEF WillBeRight
<1>8. SpotsRight'
      BY <1>7 DEF SpotsRight, IsRight, WillBeRight
<1>9. \A i \in DOMAIN plan' : \A t \in {plan'[i].thing} :
        WillBeRight(t, plan'[i].spot) \/ IsHeld(t)'
      <2> SUFFICES ASSUME NEW i \in DOMAIN plan', NEW t \in {plan'[i].thing}
                   PROVE  WillBeRight(t, plan'[i].spot) \/ IsHeld(t)'
          OBVIOUS
      <2>1. CASE editing
            <3>0. plan' = plan /\ grabbed' = grabbed /\ adrifting \subseteq adrifting'
                  BY <1>5, <2>1
            <3>1. \/ t \in adrifting \/ t \notin stands \/ placed[t] \in {0, plan[i].spot, s[t]}
                  \/ IsPending(t)' \/ IsAsked(t)' \/ IsHeld(t)
                  BY <1>4, <3>0
            <3>2. t \in adrifting' \/ plan[i].spot = s[t]
                  BY <1>5, <2>1, <3>0
            <3>3. IsHeld(t) => IsHeld(t)'
                  BY <1>0, <3>0 DEF IsHeld, Plan!Nothing
            <3> QED BY <1>0, <3>0, <3>1, <3>2, <3>3 DEF WillBeRight
      <2>2. CASE ~editing
            <3>1. /\ i \in DOMAIN listing' /\ t = listing'[i]
                  /\ plan'[i].spot = spots'[t]
                  BY <1>5, <2>2
            <3>2. t \in Plan!ToSet(listing')
                  BY <3>1 DEF Plan!ToSet
            <3> QED BY <1>7, <3>1, <3>2
      <2> QED BY <2>1, <2>2
<1>10. NodesRight'
       BY <1>9 DEF NodesRight, IsRight, WillBeRight, IsHeld
<1> QED BY <1>8, <1>10

\* Spots and icons are right after every step.
LEMMA RightHolds ==
  ASSUME PlanTyped, LiveIsThere, RemovedIsGone, SpotsRight, NodesRight, [Plan!Next]_planVars
  PROVE  SpotsRight' /\ NodesRight'
<1> USE DEF Plan!Gateway, Plan!Page, Plan!Pointer
<1>1. CASE Plan!Hear \/ Plan!Show
      BY <1>1, RightDrawn
<1>2. CASE ~Plan!Hear /\ ~Plan!Show
      <2>1. \A t \in Thing, s \in Nat : IsRight(t, s) => WillBeRight(t, s)
            BY <1>2, RightKeeps
      <2>2. /\ \A t \in Plan!ToSet(listing) : t \in Thing
            /\ spots \in [Thing -> Nat]
            BY PlanParts DEF Plan!ToSet, PlanTyped
      <2>3. /\ listing' = listing
            /\ \A t \in Plan!ToSet(listing) : spots'[t] = spots[t] \/ WillBeRight(t, spots'[t])
            <3>1. CASE \E c \in DOMAIN shifts : Plan!Answered(c)
                  <4>1. PICK c \in DOMAIN shifts : Plan!Answered(c)
                        BY <3>1
                  <4>2. PICK u \in Thing : u = shifts[c].thing
                        BY PlanParts
                  <4>3. /\ listing' = listing /\ placed' = placed
                        /\ spots' = IF u \in Plan!ToSet(listing)
                            THEN [spots EXCEPT ![u] = shifts[c].spot]
                                    ELSE spots
                        /\ placed[u] # shifts[c].spot => u \in adrifting'
                        BY <4>1, <4>2 DEF Plan!Answered
                  <4>4. \A t \in Plan!ToSet(listing) : t # u => spots'[t] = spots[t]
                        BY <2>2, <4>3
                  <4>5. u \in Plan!ToSet(listing) => spots'[u] = shifts[c].spot
                        BY <2>2, <4>3
                  <4> QED BY <4>3, <4>4, <4>5 DEF WillBeRight
            <3>2. CASE ~\E c \in DOMAIN shifts : Plan!Answered(c)
                  BY <1>2, <3>2
                     DEF Plan!Next, Plan!OnPointerDown, Plan!SelectThing, Plan!MoveThing,
                         Plan!Serve, Plan!Failed,
                     Plan!Other, Plan!OnPointerUp, Plan!Expire, Plan!Edit, Plan!Done,
                         Plan!DeselectThing, Plan!HearOfNone, planVars
            <3> QED BY <3>1, <3>2
      <2>4. \A t \in Plan!ToSet(listing) : WillBeRight(t, spots'[t])
            BY <2>1, <2>2, <2>3 DEF SpotsRight
      <2>5. SpotsRight'
            BY <2>3, <2>4 DEF SpotsRight, IsRight, WillBeRight
      <2>6. \A t \in Thing : IsHeld(t) => IsHeld(t)' \/ \A s : WillBeRight(t, s)
            <3> SUFFICES ASSUME NEW t \in Thing, editing, grabbed # Plan!Nothing,
                                grabbed[1].node.thing = t
                         PROVE  IsHeld(t)' \/ \A s : WillBeRight(t, s)
                BY DEF IsHeld
            <3>1. CASE \E i \in DOMAIN plan : Plan!OnPointerDown(i) \/ Plan!SelectThing(i)
                  <4>1. PICK i \in DOMAIN plan : Plan!SelectThing(i)
                        BY <3>1 DEF Plan!OnPointerDown
                  <4>2. t \in adrifting'
                        BY <4>1, PlanParts DEF Plan!SelectThing
                  <4> QED BY <4>2 DEF WillBeRight
            <3>2. CASE \E p \in Point : Plan!MoveThing(p)
                  <4>1. PICK p \in Point : Plan!MoveThing(p)
                        BY <3>2
                  <4>2. editing' = editing
                        BY <4>1 DEF Plan!MoveThing
                  <4>3. grabbed' # Plan!Nothing /\ grabbed'[1].node.thing = grabbed[1].node.thing
                        BY <4>1, MovedIs
                  <4> QED BY <4>2, <4>3 DEF IsHeld, Plan!Nothing
            <3>3. CASE Plan!Done
                  <4>1. t \in adrifting'
                        BY <3>3, PlanParts DEF Plan!Done
                  <4> QED BY <4>1 DEF WillBeRight
            <3>4. CASE Plan!DeselectThing
                  <4> DEFINE k == [thing |-> grabbed[1].node.thing,
                                   spot |-> grabbed[1].node.spot, stage |-> "sent"]
                  <4>1. shifts' = Append(shifts, k) /\ shifts \in Seq(PlanCall)
                        BY <3>4 DEF Plan!DeselectThing, PlanTyped
                  <4>2. k.thing = t /\ k.stage = "sent"
                        OBVIOUS
                  <4> HIDE DEF k
                  <4>3. Len(shifts) + 1 \in DOMAIN shifts' /\ shifts'[Len(shifts) + 1] = k
                        BY <4>1
                  <4> QED BY <4>2, <4>3 DEF WillBeRight, IsAsked
            <3>5. CASE \/ \E c \in DOMAIN shifts :
                           Plan!Serve(c) \/ Plan!Failed(c) \/ Plan!Answered(c)
                       \/ \E u \in Thing : Plan!Other(u)
                       \/ Plan!OnPointerUp \/ Plan!Expire \/ Plan!Edit \/ Plan!HearOfNone
                           \/ UNCHANGED planVars
                  <4>1. grabbed' = grabbed /\ editing' = editing
                        BY <3>5
                           DEF Plan!Serve, Plan!Failed, Plan!Answered, Plan!Other,
                               Plan!OnPointerUp, Plan!Expire, Plan!Edit,
                           Plan!HearOfNone, planVars
                  <4> QED BY <4>1 DEF IsHeld, Plan!Nothing
            <3> QED BY <1>2, <3>1, <3>2, <3>3, <3>4, <3>5 DEF Plan!Next
      <2>7. /\ DOMAIN plan' = DOMAIN plan
            /\ \A i \in DOMAIN plan : /\ plan'[i].thing = plan[i].thing
                                      /\ \/ plan'[i].spot = plan[i].spot
                                         \/ \A t \in {plan[i].thing} : IsHeld(t)'
            <3>1. CASE \E p \in Point : Plan!MoveThing(p)
                  <4>1. PICK p \in Point : Plan!MoveThing(p)
                        BY <3>1
                  <4>2. editing' = editing
                        BY <4>1 DEF Plan!MoveThing
                  <4>3. /\ grabbed # Plan!Nothing /\ editing
                        /\ grabbed' # Plan!Nothing
                        /\ grabbed'[1].node.thing = grabbed[1].node.thing
                        /\ DOMAIN plan' = DOMAIN plan
                        /\ \A i \in DOMAIN plan :
                             /\ plan'[i].thing = plan[i].thing
                             /\ \/ plan'[i].spot = plan[i].spot
                                \/ plan'[i].spot = p /\ grabbed[1].live
                                   /\ i = grabbed[1].index
                        BY <4>1, MovedIs
                  <4>4. grabbed[1].live =>
                          plan[grabbed[1].index].thing = grabbed[1].node.thing
                        BY <4>3 DEF LiveIsThere
                  <4> QED BY <4>2, <4>3, <4>4 DEF IsHeld, Plan!Nothing
            <3>2. CASE ~\E p \in Point : Plan!MoveThing(p)
                  <4>1. plan' = plan
                        BY <1>2, <3>2
                           DEF Plan!Next, Plan!OnPointerDown, Plan!SelectThing, Plan!Serve,
                               Plan!Failed, Plan!Answered,
                           Plan!Other, Plan!OnPointerUp, Plan!Expire, Plan!Edit, Plan!Done,
                               Plan!DeselectThing, Plan!HearOfNone, planVars
                  <4> QED BY <4>1
            <3> QED BY <3>1, <3>2
      <2>8. \A i \in DOMAIN plan : \A t \in {plan[i].thing} :
              WillBeRight(t, plan'[i].spot) \/ IsHeld(t)'
            <3> SUFFICES ASSUME NEW i \in DOMAIN plan, NEW t \in {plan[i].thing}, ~IsHeld(t)'
                         PROVE  WillBeRight(t, plan'[i].spot)
                OBVIOUS
            <3>1. t \in Thing /\ plan[i].spot \in Nat
                  BY PlanParts
            <3>2. plan'[i].spot = plan[i].spot
                  BY <2>7
            <3>3. IsRight(t, plan[i].spot) \/ IsHeld(t)
                  BY DEF NodesRight
            <3> QED BY <2>1, <2>6, <3>1, <3>2, <3>3
      <2>9. \A i \in DOMAIN plan' : \A t \in {plan'[i].thing} :
              WillBeRight(t, plan'[i].spot) \/ IsHeld(t)'
            BY <2>7, <2>8
      <2>10. NodesRight'
            BY <2>9 DEF NodesRight, IsRight, WillBeRight, IsHeld
      <2> QED BY <2>5, <2>10
<1> QED BY <1>1, <1>2

\* A thing nobody placed, and which is shown as the gateway has it.
IsFresh(t) == t \in stands /\ t \notin adrifting /\ placed[t] = 0
WillBeFresh(t) == t \in stands' /\ t \notin adrifting' /\ placed'[t] = 0
NoneTold == \A i \in DOMAIN word : word[i].does # "all"

\* Those that nobody placed were given spots together, and others than one another.
SpotsBeside ==
  ~fetched /\ NoneTold => \A t, u \in Plan!ToSet(listing) :
    /\ spots[t] = 0 /\ IsFresh(u) => spots[u] = 0
    /\ IsFresh(t) /\ IsFresh(u) /\ t # u /\ spots[t] = spots[u] => spots[t] = 0

\* Their icons are at these spots.
NodesBeside ==
  ~fetched /\ NoneTold => \A i \in DOMAIN plan : \A t \in {plan[i].thing} :
    IsFresh(t) /\ plan[i].spot \in Plan!Auto
        => t \in Plan!ToSet(listing) /\ spots[t] = plan[i].spot

\* While nothing is drawn, none becomes fresh, and the spots of those that are stay.
LEMMA FreshKeeps ==
  ASSUME PlanTyped, [Plan!Next]_planVars, ~Plan!Hear, ~Plan!Show, ~fetched', NoneTold'
  PROVE  /\ ~fetched /\ NoneTold /\ listing' = listing
         /\ \A t \in Thing : WillBeFresh(t) => IsFresh(t)
         /\ \A t \in Plan!ToSet(listing) : /\ WillBeFresh(t) => spots'[t] = spots[t]
                                           /\ spots'[t] = 0 => spots[t] = 0
         /\ DOMAIN plan' = DOMAIN plan
         /\ \A i \in DOMAIN plan : /\ plan'[i].thing = plan[i].thing
                                   /\ plan'[i].spot = plan[i].spot
                                       \/ plan'[i].spot \notin Plan!Auto
<1> USE DEF Plan!Gateway, Plan!Page, Plan!Pointer
<1>0. /\ placed \in [Thing -> Nat] /\ spots \in [Thing -> Nat] /\ word \in Seq(PlanNews)
      /\ \A t \in Plan!ToSet(listing) : t \in Thing
      BY PlanParts DEF PlanTyped, Plan!ToSet
<1>1. CASE \E c \in DOMAIN shifts : Plan!Serve(c)
      <2>1. PICK c \in DOMAIN shifts : Plan!Serve(c)
            BY <1>1
      <2>2. PICK u \in Thing : u = shifts[c].thing
            BY PlanParts
      <2>3. /\ Plan!Tell("one", u) /\ shifts[c].spot # 0
            /\ UNCHANGED <<stands, listing, spots, plan, adrifting, fetched>>
            /\ placed' = [placed EXCEPT ![u] = shifts[c].spot]
            BY <2>1, <2>2, PlanParts DEF Plan!Serve
      <2>4. NoneTold
            <3>1. \A i \in DOMAIN word : i \in DOMAIN word' /\ word'[i] = word[i]
                  BY <2>3, NewsTold
            <3> QED BY <3>1 DEF NoneTold
      <2> QED BY <1>0, <2>3, <2>4 DEF IsFresh, WillBeFresh
<1>2. CASE \E c \in DOMAIN shifts : Plan!Answered(c)
      <2>1. PICK c \in DOMAIN shifts : Plan!Answered(c)
            BY <1>2
      <2>2. PICK u \in Thing : u = shifts[c].thing
            BY PlanParts
      <2>3. /\ UNCHANGED <<stands, placed, word, listing, plan, fetched>>
            /\ spots' = IF u \in Plan!ToSet(listing) THEN [spots EXCEPT ![u] = shifts[c].spot]
                ELSE spots
            /\ adrifting \subseteq adrifting' /\ (placed[u] # shifts[c].spot => u \in adrifting')
            /\ shifts[c].spot # 0
            BY <2>1, <2>2, PlanParts DEF Plan!Answered
      <2>4. NoneTold
            BY <2>3 DEF NoneTold
      <2>5. \A t \in Plan!ToSet(listing) : t # u => spots'[t] = spots[t]
            BY <1>0, <2>3
      <2>6. ~WillBeFresh(u) /\ (u \in Plan!ToSet(listing) => spots'[u] # 0)
            BY <1>0, <2>3 DEF WillBeFresh
      <2> QED BY <2>3, <2>4, <2>5, <2>6 DEF IsFresh, WillBeFresh
<1>3. CASE \E t \in Thing : Plan!Other(t)
      <2>1. PICK u \in Thing : Plan!Other(u)
            BY <1>3
      <2>2. PICK g \in {"all", "one", "removed"} :
              /\ Plan!Tell(g, u)
              /\ g = "one"
                  => stands' = stands
                      /\ (placed' = placed \/ \E p \in Point : placed' = [placed EXCEPT ![u] = p])
              /\ g = "removed" => stands' = stands \ {u} /\ placed' = [placed EXCEPT ![u] = 0]
            BY <2>1 DEF Plan!Other, Plan!Unplaced
      <2>3. UNCHANGED <<listing, spots, plan, adrifting, fetched>>
            BY <2>1 DEF Plan!Other
      <2>4. /\ \A i \in DOMAIN word : i \in DOMAIN word' /\ word'[i] = word[i]
            /\ Len(word) + 1 \in DOMAIN word' /\ word'[Len(word) + 1].does = g
            BY <2>2, NewsTold
      <2>5. NoneTold /\ g # "all"
            BY <2>4 DEF NoneTold
      <2>6. \A t \in Thing : WillBeFresh(t) => IsFresh(t)
            BY <1>0, <2>2, <2>3, <2>5, PlanConstants DEF IsFresh, WillBeFresh
      <2> QED BY <2>3, <2>5, <2>6
<1>4. CASE \E p \in Point : Plan!MoveThing(p)
      <2>1. PICK p \in Point : Plan!MoveThing(p)
            BY <1>4
      <2>2. UNCHANGED <<stands, placed, word, listing, spots, adrifting, fetched>>
            BY <2>1 DEF Plan!MoveThing
      <2>3. /\ DOMAIN plan' = DOMAIN plan
            /\ \A i \in DOMAIN plan :
                 /\ plan'[i].thing = plan[i].thing
                 /\ plan'[i].spot = plan[i].spot \/ plan'[i].spot = p
            BY <2>1, MovedIs
      <2> QED BY <2>2, <2>3, PlanConstants DEF IsFresh, WillBeFresh, NoneTold
<1>5. CASE Plan!HearOfNone
      <2>1. /\ word # <<>> /\ word' = Tail(word) /\ Head(word).does # "all"
            /\ UNCHANGED <<stands, placed, listing, spots, plan, adrifting, fetched>>
            BY <1>5 DEF Plan!HearOfNone, Plan!Found
      <2>2. /\ Len(word) \in Nat \ {0} /\ DOMAIN word = 1 .. Len(word) /\ Head(word) = word[1]
            /\ DOMAIN word' = 1 .. Len(word) - 1
            /\ \A i \in DOMAIN word' : word'[i] = word[i + 1]
            BY <1>0, <2>1, EmptySeq
      <2>3. \A i \in DOMAIN word : i = 1 \/ (i - 1 \in DOMAIN word' /\ word'[i - 1] = word[i])
            BY <2>2
      <2>4. NoneTold
            BY <2>1, <2>2, <2>3 DEF NoneTold
      <2> QED BY <2>1, <2>4 DEF IsFresh, WillBeFresh
<1>6. CASE \/ \E i \in DOMAIN plan : Plan!OnPointerDown(i) \/ Plan!SelectThing(i)
           \/ \E c \in DOMAIN shifts : Plan!Failed(c)
           \/ Plan!OnPointerUp \/ Plan!Expire \/ Plan!Edit \/ Plan!Done \/ Plan!DeselectThing
               \/ UNCHANGED planVars
      <2>1. UNCHANGED <<stands, placed, word, listing, spots, plan, fetched>>
              /\ adrifting \subseteq adrifting'
            BY <1>6
               DEF Plan!OnPointerDown, Plan!SelectThing, Plan!Failed, Plan!OnPointerUp,
                   Plan!Expire, Plan!Edit, Plan!Done,
               Plan!DeselectThing, planVars
      <2> QED BY <2>1 DEF IsFresh, WillBeFresh, NoneTold
<1> QED BY <1>1, <1>2, <1>3, <1>4, <1>5, <1>6 DEF Plan!Next

\* What the page is about to draw: those that nobody placed have spots beside one another, or none.
LEMMA BesideBefore ==
  ASSUME PlanTyped, RemovedIsGone, SpotsBeside, NodesBeside, Plan!Hear \/ Plan!Show, ~fetched',
         NoneTold'
  PROVE  \E s \in [Thing -> Nat] :
           /\ Plan!RefreshThings(listing', s)
           /\ \A t, u \in Plan!ToSet(listing') :
                /\ s[t] = 0 /\ IsFresh(u) => s[u] = 0
                /\ IsFresh(t) /\ IsFresh(u) /\ t # u /\ s[t] = s[u] => s[t] = 0
           /\ \A i \in DOMAIN plan : \A t \in {plan[i].thing} :
                IsFresh(t) /\ plan[i].spot \in Plan!Auto /\ plan[i].spot = s[t]
                    => t \in Plan!ToSet(listing')
<1>1. CASE Plan!Show
      <2>1. /\ word' = word /\ fetched' = fetched /\ listing' = listing
            /\ Plan!RefreshThings(listing', spots)
            BY <1>1 DEF Plan!Show, Plan!Gateway
      <2>2. spots \in [Thing -> Nat] /\ ~fetched /\ NoneTold
            BY <2>1 DEF PlanTyped, NoneTold
      <2>3. \A t, u \in Plan!ToSet(listing') :
                /\ spots[t] = 0 /\ IsFresh(u) => spots[u] = 0
                /\ IsFresh(t) /\ IsFresh(u) /\ t # u /\ spots[t] = spots[u] => spots[t] = 0
            BY <2>1, <2>2 DEF SpotsBeside
      <2>4. \A i \in DOMAIN plan : \A t \in {plan[i].thing} :
              IsFresh(t) /\ plan[i].spot \in Plan!Auto /\ plan[i].spot = spots[t]
                  => t \in Plan!ToSet(listing')
            BY <2>1, <2>2 DEF NodesBeside
      <2> QED BY <2>1, <2>2, <2>3, <2>4, Zenon
<1>2. CASE Plan!Hear
      <2> DEFINE n == Head(word)
                 s == HeardSpots(n)
      <2>1. /\ word # <<>> /\ word' = Tail(word) /\ word \in Seq(PlanNews)
            /\ fetched' = IF n.does = "all" THEN FALSE
                          ELSE fetched \/ (n.does = "one" /\ placed[n.thing] = 0)
            BY <1>2 DEF Plan!Hear, PlanTyped, Plan!Unplaced
      <2>2. /\ n \in PlanNews /\ Plan!RefreshThings(listing', s) /\ s \in [Thing -> Nat]
            /\ listing' \in Seq(Thing)
            /\ n.does # "all" => \A t \in Plan!ToSet(listing') :
                 \/ t \in Plan!ToSet(listing) /\ ~(n.does = "removed" /\ t = n.thing)
                 \/ n.does = "one" /\ t = n.thing
            /\ n.does # "all" => \A t \in Plan!ToSet(listing) :
                 (n.does = "removed" /\ t = n.thing) \/ t \in Plan!ToSet(listing')
            BY <1>2, HeardIs
      <2>3. /\ \A t \in Thing :
                s[t] = IF n.does = "all" \/ t = n.thing THEN placed[t] ELSE spots[t]
            /\ \A t \in Plan!ToSet(listing') : t \in Thing
            BY <2>2 DEF HeardSpots, Plan!ToSet
      <2>4. /\ Len(word) \in Nat \ {0} /\ DOMAIN word = 1 .. Len(word) /\ n = word[1]
            /\ DOMAIN word' = 1 .. Len(word) - 1
            /\ \A i \in DOMAIN word' : word'[i] = word[i + 1]
            BY <2>1, EmptySeq
      <2> HIDE DEF n, s
      <2>5. CASE n.does = "all"
            <3>1. \A t \in Thing : IsFresh(t) => s[t] = 0
                  BY <2>3, <2>5 DEF IsFresh
            <3>2. \A i \in DOMAIN plan : plan[i].thing \in Thing /\ plan[i].spot # 0
                  BY PlanParts
            <3> QED BY <2>2, <2>3, <3>1, <3>2
      <2>6. CASE n.does # "all"
            <3>1. ~fetched /\ (n.does = "one" => placed[n.thing] # 0)
                  BY <2>1, <2>6
            <3>2. NoneTold
                  <4>1. \A i \in DOMAIN word :
                          i = 1 \/ (i - 1 \in DOMAIN word' /\ word'[i - 1] = word[i])
                        BY <2>4
                  <4> QED BY <2>4, <2>6, <4>1 DEF NoneTold
            <3>3. ~IsFresh(n.thing)
                  <4>1. CASE n.does = "one"
                        BY <3>1, <4>1 DEF IsFresh
                  <4>2. CASE n.does = "removed"
                        <5>1. 1 \in DOMAIN word
                              BY <2>4
                        <5>2. n.thing \notin stands
                              BY <2>4, <3>2, <4>2, <5>1 DEF RemovedIsGone, NoneTold
                        <5> QED BY <5>2 DEF IsFresh
                  <4> QED BY <2>2, <2>6, <4>1, <4>2 DEF PlanNews
            <3>4. \A t \in Plan!ToSet(listing') : s[t] = 0 \/ IsFresh(t) =>
                    t \in Plan!ToSet(listing) /\ s[t] = spots[t]
                  <4> SUFFICES ASSUME NEW t \in Plan!ToSet(listing'), s[t] = 0 \/ IsFresh(t)
                               PROVE  t \in Plan!ToSet(listing) /\ s[t] = spots[t]
                      OBVIOUS
                  <4>1. t \in Thing /\ (t = n.thing => s[t] = placed[t])
                        BY <2>3
                  <4>2. t # n.thing
                        <5>1. n.does \in {"one", "removed"}
                              BY <2>2, <2>6 DEF PlanNews
                        <5>2. ASSUME t = n.thing PROVE FALSE
                              <6>1. s[t] = 0 /\ s[t] = placed[n.thing]
                                    BY <3>3, <4>1, <5>2
                              <6>2. n.does = "removed"
                                    BY <3>1, <5>1, <6>1
                              <6> QED BY <2>2, <5>2, <6>2
                        <5> QED BY <5>2
                  <4> QED BY <2>2, <2>3, <2>6, <4>1, <4>2
            <3>5. \A t, u \in Plan!ToSet(listing') :
                    /\ s[t] = 0 /\ IsFresh(u) => s[u] = 0
                    /\ IsFresh(t) /\ IsFresh(u) /\ t # u /\ s[t] = s[u] => s[t] = 0
                  BY <3>1, <3>2, <3>4 DEF SpotsBeside
            <3>6. \A i \in DOMAIN plan : \A t \in {plan[i].thing} :
                    IsFresh(t) /\ plan[i].spot \in Plan!Auto => t \in Plan!ToSet(listing')
                  BY <2>2, <2>6, <3>1, <3>2, <3>3 DEF NodesBeside
            <3> QED BY <2>2, <3>5, <3>6, Zenon
      <2> QED BY <2>5, <2>6
<1> QED BY <1>1, <1>2

\* Those that nobody placed stay beside one another.
LEMMA BesideKeeps ==
  ASSUME PlanTyped, RemovedIsGone, SpotsBeside, NodesBeside, [Plan!Next]_planVars
  PROVE  SpotsBeside' /\ NodesBeside'
<1> DEFINE Spaced == \A t, u \in Plan!ToSet(listing') :
             /\ spots'[t] = 0 /\ WillBeFresh(u) => spots'[u] = 0
             /\ WillBeFresh(t) /\ WillBeFresh(u) /\ t # u /\ spots'[t] = spots'[u]
                 => spots'[t] = 0
           Shown == \A i \in DOMAIN plan' : \A t \in {plan'[i].thing} :
             WillBeFresh(t) /\ plan'[i].spot \in Plan!Auto =>
               t \in Plan!ToSet(listing') /\ spots'[t] = plan'[i].spot
<1>1. SUFFICES ASSUME ~fetched', NoneTold' PROVE Spaced /\ Shown
      BY DEF SpotsBeside, NodesBeside, IsFresh, WillBeFresh
<1>2. CASE ~Plan!Hear /\ ~Plan!Show
      <2>1. /\ ~fetched /\ NoneTold /\ listing' = listing
            /\ \A t \in Thing : WillBeFresh(t) => IsFresh(t)
            /\ \A t \in Plan!ToSet(listing) : /\ WillBeFresh(t) => spots'[t] = spots[t]
                                              /\ spots'[t] = 0 => spots[t] = 0
            /\ DOMAIN plan' = DOMAIN plan
            /\ \A i \in DOMAIN plan :
                 /\ plan'[i].thing = plan[i].thing
                 /\ plan'[i].spot = plan[i].spot \/ plan'[i].spot \notin Plan!Auto
            BY <1>1, <1>2, FreshKeeps
      <2>2. /\ \A t \in Plan!ToSet(listing) : t \in Thing
            /\ \A i \in DOMAIN plan : plan[i].thing \in Thing
            BY PlanParts DEF Plan!ToSet
      <2>3. Spaced
            BY <2>1, <2>2 DEF SpotsBeside
      <2>4. Shown
            BY <2>1, <2>2 DEF NodesBeside
      <2> QED BY <2>3, <2>4
<1>3. CASE Plan!Hear \/ Plan!Show
      <2>0. UNCHANGED <<stands, placed, editing>> /\ listing' \in Seq(Thing)
            BY <1>3, PlanDrawn DEF Plan!Hear, Plan!Show, Plan!Gateway
      <2>1. PICK s \in [Thing -> Nat] :
              /\ Plan!RefreshThings(listing', s)
              /\ \A t, u \in Plan!ToSet(listing') :
                   /\ s[t] = 0 /\ IsFresh(u) => s[u] = 0
                   /\ IsFresh(t) /\ IsFresh(u) /\ t # u /\ s[t] = s[u] => s[t] = 0
              /\ \A i \in DOMAIN plan : \A t \in {plan[i].thing} :
                   IsFresh(t) /\ plan[i].spot \in Plan!Auto /\ plan[i].spot = s[t]
                       => t \in Plan!ToSet(listing')
            BY <1>1, <1>3, BesideBefore
      <2>2. /\ \A t \in Thing : t \notin Plan!ToSet(listing') \/ s[t] # 0 => spots'[t] = s[t]
            /\ editing => /\ spots' = s /\ plan' = plan
                          /\ adrifting \subseteq adrifting'
                          /\ \A i \in DOMAIN plan :
                               plan[i].thing \in adrifting' \/ plan[i].spot = s[plan[i].thing]
            /\ ~editing => /\ DOMAIN plan' = DOMAIN listing'
                           /\ \A i \in DOMAIN listing' : /\ plan'[i].thing = listing'[i]
                                                         /\ plan'[i].spot = spots'[listing'[i]]
                           /\ \A t \in Plan!ToSet(listing') : spots'[t] # 0
                           /\ \A t, u \in Plan!ToSet(listing') :
                                s[t] = 0 /\ s[u] = 0 /\ spots'[t] = spots'[u] => t = u
                           /\ \A t \in adrifting : \/ t \in adrifting' \/ spots'[t] = placed[t]
                                                   \/ placed[t] = 0 /\ s[t] = 0
            BY <2>0, <2>1, Refreshed
      <2>3. CASE editing
            <3>1. \A t : WillBeFresh(t) => IsFresh(t) /\ t \notin adrifting'
                  BY <2>0, <2>2, <2>3 DEF IsFresh, WillBeFresh
            <3>2. Spaced
                  BY <2>1, <2>2, <2>3, <3>1
            <3>3. Shown
                  BY <2>1, <2>2, <2>3, <3>1
            <3> QED BY <3>2, <3>3
      <2>4. CASE ~editing
            <3>1. \A t \in Plan!ToSet(listing') : t \in Thing
                  BY <2>0 DEF Plan!ToSet
            <3>2. \A t \in Plan!ToSet(listing') : WillBeFresh(t) => IsFresh(t) \/ s[t] = 0
                  BY <2>0, <2>2, <2>4 DEF IsFresh, WillBeFresh
            <3>3. ASSUME NEW t \in Plan!ToSet(listing'), NEW u \in Plan!ToSet(listing'),
                  WillBeFresh(t),
                         WillBeFresh(u), t # u, spots'[t] = spots'[u]
                  PROVE  FALSE
                  <4>1. s[t] = 0 /\ s[u] = 0 => FALSE
                        BY <2>2, <2>4, <3>3
                  <4>2. s[t] # 0 /\ s[u] # 0
                        BY <2>1, <3>2, <3>3, <4>1
                  <4>3. spots'[t] = s[t] /\ spots'[u] = s[u]
                        BY <2>2, <3>1, <4>2
                  <4> QED BY <2>1, <3>2, <3>3, <4>2, <4>3
            <3>4. Spaced
                  BY <2>2, <2>4, <3>3
            <3>5. Shown
                  BY <2>2, <2>4 DEF Plan!ToSet
            <3> QED BY <3>4, <3>5
      <2> QED BY <2>3, <2>4
<1> QED BY <1>2, <1>3

\* The inductive invariant of the plan.
PlanInv == /\ PlanTyped /\ LiveIsThere /\ PressedIsThere /\ Plan!ClickedIsPressed
           /\ RemovedIsGone /\ SpotsRight /\ NodesRight /\ SpotsBeside /\ NodesBeside

\* What is right once nothing is under way is what is promised.
LEMMA PlanTells == PlanInv => Plan!PlanHolds
<1> SUFFICES ASSUME PlanInv PROVE Plan!PlanHolds
    OBVIOUS
<1> USE DEF PlanInv
<1>1. Plan!ShownWherePlaced
      <2> SUFFICES ASSUME \A c \in DOMAIN shifts : shifts[c].stage = "done", word = <<>>,
                          grabbed = Plan!Nothing, NEW n \in Plan!ToSet(plan)
                   PROVE  n.thing \in adrifting \/ n.thing \notin stands
                              \/ placed[n.thing] \in {0, n.spot}
          BY DEF Plan!ShownWherePlaced, Plan!Unplaced
      <2>1. PICK i \in DOMAIN plan : n = plan[i]
            BY DEF Plan!ToSet
      <2>2. ~IsHeld(n.thing) /\ ~IsPending(n.thing) /\ ~IsAsked(n.thing)
            BY DEF IsHeld, IsPending, IsAsked
      <2> QED BY <2>1, <2>2 DEF NodesRight, IsRight
<1>2. Plan!NoneOnAnother
      <2> SUFFICES ASSUME ~fetched, word = <<>>, NEW m \in Plan!ToSet(plan),
      NEW n \in Plan!ToSet(plan),
                          IsFresh(m.thing), IsFresh(n.thing), m.spot \in Plan!Auto,
                              m.spot = n.spot
                   PROVE  m = n
          BY DEF Plan!NoneOnAnother, IsFresh, Plan!Unplaced
      <2>1. PICK i \in DOMAIN plan : m = plan[i]
            BY DEF Plan!ToSet
      <2>2. PICK j \in DOMAIN plan : n = plan[j]
            BY DEF Plan!ToSet
      <2>3. NoneTold
            BY DEF NoneTold
      <2>4. /\ m.thing \in Plan!ToSet(listing) /\ spots[m.thing] = m.spot
            /\ n.thing \in Plan!ToSet(listing) /\ spots[n.thing] = n.spot
            BY <2>1, <2>2, <2>3 DEF NodesBeside
      <2>5. m \in PlanNode /\ n \in PlanNode /\ m.spot # 0
            BY <2>1, <2>2, PlanParts
      <2>6. m.thing = n.thing
            BY <2>3, <2>4, <2>5 DEF SpotsBeside
      <2> QED BY <2>5, <2>6 DEF PlanNode
<1> QED BY <1>1, <1>2 DEF Plan!PlanHolds

\* It holds at the start.
LEMMA PlanStarts == Plan!Init => PlanInv
<1> SUFFICES ASSUME Plan!Init PROVE PlanInv
    OBVIOUS
<1> USE DEF Plan!Init
<1>1. /\ stands \subseteq Thing /\ placed \in [Thing -> Nat] /\ \A t \in Thing \ stands :
          placed[t] = 0
      BY PlanConstants DEF Plan!Unplaced
<1>2. /\ listing \in Seq(stands)
      /\ \A i, j \in DOMAIN listing : listing[i] = listing[j] => i = j
      <2>1. IsFiniteSet(stands)
            BY <1>1, PlanConstants, FS_Subset
      <2>2. listing = Plan!SetToSeq(stands)
            OBVIOUS
      <2> QED BY <2>1, <2>2, SetToSeqIs
<1>3. listing \in Seq(Thing) /\ \A i \in DOMAIN listing : listing[i] \in stands
      BY <1>1, <1>2
<1>4. \A t \in Plan!ToSet(listing) : t \in Thing
      BY <1>3 DEF Plan!ToSet
<1>5. spots = Plan!Laid(listing, placed)
      OBVIOUS
<1>6. /\ spots \in [Thing -> Nat]
      /\ \A t \in Plan!ToSet(listing) : spots[t] # 0
      /\ \A t \in Thing : t \notin Plan!ToSet(listing) \/ placed[t] # 0 => spots[t] = placed[t]
      /\ \A t, u \in Plan!ToSet(listing) : placed[t] = 0 /\ placed[u] = 0 /\ spots[t] = spots[u]
          => t = u
      BY <1>1, <1>3, <1>5, LaidIs
<1>7. /\ DOMAIN plan = DOMAIN listing
      /\ \A i \in DOMAIN listing : plan[i] = [thing |-> listing[i], spot |-> spots[listing[i]]]
      /\ \A i \in DOMAIN listing : listing[i] \in Plan!ToSet(listing) /\ listing[i] \in Thing
      BY <1>3 DEF Plan!ToSet
<1>8. plan \in Seq(PlanNode)
      <2>1. DOMAIN listing = 1 .. Len(listing) /\ Len(listing) \in Nat
            BY <1>3
      <2>2. \A i \in 1 .. Len(listing) :
              [thing |-> listing[i], spot |-> spots[listing[i]]] \in PlanNode
            BY <1>6, <1>7, <2>1 DEF PlanNode
      <2>3. plan = [i \in 1 .. Len(listing) |-> [thing |-> listing[i],
              spot |-> spots[listing[i]]]]
            BY <2>1
      <2> QED BY <2>1, <2>2, <2>3
<1>9. /\ editing = FALSE /\ grabbed = <<>> /\ shifts = <<>> /\ word = <<>>
      /\ adrifting = {} /\ fetched = FALSE /\ lost = FALSE /\ clicked = <<>>
      BY DEF Plan!Nothing
<1> HIDE DEF Plan!Init
<1>10. /\ grabbed \in Seq(PlanChoice) /\ Len(grabbed) <= 1
       /\ shifts \in Seq(PlanCall) /\ word \in Seq(PlanNews)
       <2>1. grabbed \in Seq(PlanChoice) /\ shifts \in Seq(PlanCall) /\ word \in Seq(PlanNews)
             BY <1>9, EmptySeq
       <2>2. Len(grabbed) = 0
             BY <1>9, <2>1, EmptySeq
       <2> QED BY <2>1, <2>2
<1>11. PlanTyped
       BY <1>1, <1>2, <1>3, <1>6, <1>8, <1>9, <1>10 DEF PlanTyped
<1>12. LiveIsThere /\ PressedIsThere /\ Plan!ClickedIsPressed /\ RemovedIsGone
       BY <1>9 DEF LiveIsThere, PressedIsThere, Plan!ClickedIsPressed, RemovedIsGone, Plan!Nothing
<1>13. SpotsRight
       BY <1>4, <1>6 DEF SpotsRight, IsRight
<1>14. NodesRight
       BY <1>6, <1>7 DEF NodesRight, IsRight
<1>15. SpotsBeside
       BY <1>4, <1>6 DEF SpotsBeside, IsFresh
<1>16. NodesBeside
       BY <1>7 DEF NodesBeside
<1> QED BY <1>11, <1>12, <1>13, <1>14, <1>15, <1>16 DEF PlanInv

\* And after every step.
LEMMA PlanSteps == PlanInv /\ [Plan!Next]_planVars => PlanInv'
<1> SUFFICES ASSUME PlanInv, [Plan!Next]_planVars PROVE PlanInv'
    OBVIOUS
<1> USE DEF PlanInv
<1>1. PlanTyped'
      BY PlanTypedKeeps
<1>2. LiveIsThere' /\ PressedIsThere'
      BY PressedKeeps
<1>3. Plan!ClickedIsPressed'
      BY ClickedKeeps
<1>4. RemovedIsGone'
      BY RemovedStays
<1>5. SpotsRight' /\ NodesRight'
      BY RightHolds
<1>6. SpotsBeside' /\ NodesBeside'
      BY BesideKeeps
<1> QED BY <1>1, <1>2, <1>3, <1>4, <1>5, <1>6

\* A step is a step of the plan, or leaves it alone.
LEMMA PlanMoves == [ShellNext]_shellVars => [Plan!Next]_planVars
BY DEF ShellNext, shellVars, planVars

\* The plan shows placed things where the gateway has them once nothing is under way, those nobody
\* placed beside one another, and a click gets to the icon that was pressed, but for what each of
\* them excepts; for any number of things, spots, presses and changes, in any order
\* (FloorplanScreen.refreshThings, onPointerUp, deselectThing).
THEOREM PlanIsRight == ShellSpec => []Plan!PlanHolds
<1>1. ShellInit => PlanInv
      BY PlanStarts DEF ShellInit
<1>2. PlanInv /\ [ShellNext]_shellVars => PlanInv'
      BY PlanMoves, PlanSteps
<1> QED BY <1>1, <1>2, PlanTells, PTL DEF ShellSpec

-----------------------------------------------------------------------------
(* What is dragged (ThingsPage).                                           *)
\* What the constants of what is dragged are.
LEMMA DragBounds == IsFiniteSet(Tile) /\ IsFiniteSet(Group) /\ NoGroup \notin Group
BY AroundAssumption DEF AroundAssumption, Dragging!ThingsPageAssumption,
       Dragging!IsFiniteSet, IsFiniteSet

\* To count is to count.
LEMMA DragCounts == \A S : Dragging!Cardinality(S) = Cardinality(S)
BY Zenon DEF Dragging!Cardinality, Cardinality

\* The index of the end of a list is how many tiles there are.
LEMMA EndCounts == Dragging!End = Cardinality(Tile)
BY Zenon DEF Dragging!End, Dragging!Cardinality, Cardinality

\* No two members of a list are the same.
Apart(l) == \A i, j \in DOMAIN l : l[i] = l[j] => i = j

\* Where a member stands.
LEMMA SpotIs ==
  ASSUME NEW l, NEW x \in Dragging!ToSet(l)
  PROVE  Dragging!Spot(l, x) \in DOMAIN l /\ l[Dragging!Spot(l, x)] = x
BY DEF Dragging!Spot, Dragging!ToSet

\* It stands nowhere else.
LEMMA SpotOf ==
  ASSUME NEW l, Apart(l), NEW i \in DOMAIN l
  PROVE  l[i] \in Dragging!ToSet(l) /\ Dragging!Spot(l, l[i]) = i
<1>1. l[i] \in Dragging!ToSet(l)
      BY DEF Dragging!ToSet
<1> QED BY <1>1, SpotIs DEF Apart

\* A list with one member less.
LEMMA LeftOut ==
  ASSUME NEW S, NEW l \in Seq(S), NEW i \in DOMAIN l
  PROVE  /\ Dragging!RemoveAt(l, i) \in Seq(S) /\ Len(Dragging!RemoveAt(l, i)) = Len(l) - 1
         /\ \A j \in 1 .. Len(l) - 1 :
              Dragging!RemoveAt(l, i)[j] = IF j < i THEN l[j] ELSE l[j + 1]
<1>1. i \in 1 .. Len(l) /\ Len(l) \in Nat
      OBVIOUS
<1>2. SubSeq(l, 1, i - 1) \in Seq(S) /\ Len(SubSeq(l, 1, i - 1)) = i - 1
      BY <1>1
<1>3. SubSeq(l, i + 1, Len(l)) \in Seq(S) /\ Len(SubSeq(l, i + 1, Len(l))) = Len(l) - i
      BY <1>1
<1>4. \A j \in 1 .. i - 1 : SubSeq(l, 1, i - 1)[j] = l[j]
      BY <1>1
<1>5. \A j \in 1 .. Len(l) - i : SubSeq(l, i + 1, Len(l))[j] = l[i + j]
      BY <1>1
<1> DEFINE a == SubSeq(l, 1, i - 1)
           b == SubSeq(l, i + 1, Len(l))
<1>6. Dragging!RemoveAt(l, i) = a \o b
      BY DEF Dragging!RemoveAt
<1> HIDE DEF a, b
<1>7. a \in Seq(S) /\ b \in Seq(S) /\ Len(a) = i - 1 /\ Len(b) = Len(l) - i
      BY <1>2, <1>3 DEF a, b
<1>8. a \o b \in Seq(S) /\ Len(a \o b) = Len(l) - 1
      BY <1>1, <1>7
<1>9. ASSUME NEW j \in 1 .. Len(l) - 1
      PROVE  (a \o b)[j] = IF j < i THEN l[j] ELSE l[j + 1]
      <2>1. CASE j < i
            <3>1. (a \o b)[j] = a[j]
                  BY <1>1, <1>7, <2>1
            <3> QED BY <1>1, <1>4, <2>1, <3>1 DEF a
      <2>2. CASE ~(j < i)
            <3>1. (a \o b)[j] = b[j - (i - 1)]
                  BY <1>1, <1>7, <2>2
            <3>2. j - (i - 1) \in 1 .. Len(l) - i /\ i + (j - (i - 1)) = j + 1
                  BY <1>1, <2>2
            <3> QED BY <1>5, <2>2, <3>1, <3>2 DEF b
      <2> QED BY <2>1, <2>2
<1> QED BY <1>6, <1>8, <1>9

\* A list with one member more.
LEMMA PutIn ==
  ASSUME NEW S, NEW l \in Seq(S), NEW x \in S, NEW i \in 1 .. Len(l) + 1
  PROVE  /\ Dragging!InsertAt(l, i, x) \in Seq(S) /\ Len(Dragging!InsertAt(l, i, x)) = Len(l) + 1
         /\ \A j \in 1 .. Len(l) + 1 :
              Dragging!InsertAt(l, i, x)[j] = IF j < i THEN l[j] ELSE IF j = i THEN x
                  ELSE l[j - 1]
<1>1. i \in 1 .. Len(l) + 1 /\ Len(l) \in Nat
      OBVIOUS
<1>2. SubSeq(l, 1, i - 1) \in Seq(S) /\ Len(SubSeq(l, 1, i - 1)) = i - 1
      BY <1>1
<1>3. SubSeq(l, i, Len(l)) \in Seq(S) /\ Len(SubSeq(l, i, Len(l))) = Len(l) + 1 - i
      BY <1>1
<1>4. \A j \in 1 .. i - 1 : SubSeq(l, 1, i - 1)[j] = l[j]
      BY <1>1
<1>5. \A j \in 1 .. Len(l) + 1 - i : SubSeq(l, i, Len(l))[j] = l[i + j - 1]
      BY <1>1
<1> DEFINE a == SubSeq(l, 1, i - 1)
           b == SubSeq(l, i, Len(l))
           c == a \o <<x>>
<1>6. Dragging!InsertAt(l, i, x) = c \o b
      BY DEF Dragging!InsertAt
<1> HIDE DEF a, b
<1>7. a \in Seq(S) /\ b \in Seq(S) /\ Len(a) = i - 1 /\ Len(b) = Len(l) + 1 - i
      BY <1>2, <1>3 DEF a, b
<1>8. c \in Seq(S) /\ Len(c) = i /\ c[i] = x /\ \A j \in 1 .. i - 1 : c[j] = a[j]
      <2> DEFINE e == <<x>>
      <2>1. e \in Seq(S) /\ Len(e) = 1 /\ e[1] = x
            BY <1>1
      <2>2. c = a \o e
            OBVIOUS
      <2> HIDE DEF c, e
      <2>3. a \o e \in Seq(S) /\ Len(a \o e) = Len(a) + Len(e)
            BY <1>7, <2>1, ConcatProperties
      <2>4. \A j \in 1 .. Len(a) + Len(e) :
              (a \o e)[j] = IF j <= Len(a) THEN a[j] ELSE e[j - Len(a)]
            BY <1>7, <2>1, ConcatProperties
      <2>5. /\ Len(a) + Len(e) = i /\ i \in 1 .. Len(a) + Len(e)
            /\ ~(i <= Len(a)) /\ i - Len(a) = 1
            BY <1>1, <1>7, <2>1
      <2>6. (a \o e)[i] = e[1]
            BY <2>4, <2>5
      <2>7. \A j \in 1 .. i - 1 : (a \o e)[j] = a[j]
            BY <1>7, <2>1, <2>4, <2>5
      <2> QED BY <2>1, <2>2, <2>3, <2>5, <2>6, <2>7
<1> HIDE DEF c
<1>9. c \o b \in Seq(S) /\ Len(c \o b) = Len(l) + 1
      <2>1. c \o b \in Seq(S) /\ Len(c \o b) = Len(c) + Len(b)
            BY <1>7, <1>8, ConcatProperties
      <2> QED BY <1>1, <1>7, <1>8, <2>1
<1>10. ASSUME NEW j \in 1 .. Len(l) + 1
       PROVE  (c \o b)[j] = IF j < i THEN l[j] ELSE IF j = i THEN x ELSE l[j - 1]
      <2>1. CASE j <= i
            <3>1. (c \o b)[j] = c[j]
                  BY <1>1, <1>7, <1>8, <2>1
            <3>2. ASSUME j < i PROVE c[j] = l[j]
                  <4>1. j \in 1 .. i - 1
                        BY <1>1, <3>2
                  <4>2. c[j] = a[j] /\ a[j] = l[j]
                        BY <1>4, <1>8, <4>1 DEF a
                  <4> QED BY <4>2
            <3>3. j < i \/ j = i
                  BY <1>1, <2>1
            <3> QED BY <1>1, <1>8, <3>1, <3>2, <3>3
      <2>2. CASE i < j
            <3>1. (c \o b)[j] = b[j - i]
                  BY <1>1, <1>7, <1>8, <2>2
            <3>2. j - i \in 1 .. Len(l) + 1 - i /\ i + (j - i) - 1 = j - 1
                  BY <1>1, <2>2
            <3> QED BY <1>1, <1>5, <2>2, <3>1, <3>2 DEF b
      <2>3. j <= i \/ i < j
            BY <1>1
      <2> QED BY <2>1, <2>2, <2>3
<1> QED BY <1>6, <1>9, <1>10

\* What is put at the end of a list is appended.
LEMMA PutLast ==
  ASSUME NEW S, NEW l \in Seq(S), NEW x \in S
  PROVE  Dragging!InsertAt(l, Len(l) + 1, x) = Append(l, x)
<1>1. PICK i \in 1 .. Len(l) + 1 : i = Len(l) + 1
      OBVIOUS
<1> DEFINE a == Dragging!InsertAt(l, i, x)
<1>2. a \in Seq(S) /\ Len(a) = Len(l) + 1
      BY PutIn
<1>3. \A j \in 1 .. Len(l) + 1 :
        a[j] = IF j < i THEN l[j] ELSE IF j = i THEN x ELSE l[j - 1]
      BY PutIn
<1> HIDE DEF a
<1>4. \A j \in 1 .. Len(l) + 1 : a[j] = Append(l, x)[j]
      BY <1>1, <1>3
<1>5. a = Append(l, x)
      BY <1>2, <1>4
<1> QED BY <1>1, <1>5 DEF a

\* A list without something: it has the rest, and what stood behind it moves up by one.
LEMMA WithoutIs ==
  ASSUME NEW S, NEW l \in Seq(S), Apart(l), NEW x
  PROVE  /\ Dragging!Without(l, x) \in Seq(S) /\ Apart(Dragging!Without(l, x))
         /\ Dragging!ToSet(Dragging!Without(l, x)) = Dragging!ToSet(l) \ {x}
         /\ Len(Dragging!Without(l, x)) = Len(l) - IF x \in Dragging!ToSet(l) THEN 1 ELSE 0
         /\ x \notin Dragging!ToSet(l) => Dragging!Without(l, x) = l
         /\ \A y \in Dragging!ToSet(l) \ {x} :
              Dragging!Spot(Dragging!Without(l, x), y) =
                Dragging!Spot(l, y) - IF x \in Dragging!ToSet(l)
                    /\ Dragging!Spot(l, x) < Dragging!Spot(l, y) THEN 1 ELSE 0
<1>0. Len(l) \in Nat /\ DOMAIN l = 1 .. Len(l)
      OBVIOUS
<1>1. CASE x \notin Dragging!ToSet(l)
      BY <1>0, <1>1, SpotIs DEF Dragging!Without
<1>2. CASE x \in Dragging!ToSet(l)
      <2> DEFINE i == Dragging!Spot(l, x)
                 r == Dragging!RemoveAt(l, i)
      <2>1. i \in 1 .. Len(l) /\ l[i] = x
            BY <1>0, <1>2, SpotIs
      <2>2. Dragging!Without(l, x) = r
            BY <1>2 DEF Dragging!Without
      <2>3. /\ r \in Seq(S) /\ Len(r) = Len(l) - 1
            /\ \A j \in 1 .. Len(l) - 1 : r[j] = IF j < i THEN l[j] ELSE l[j + 1]
            <3> HIDE DEF i
            <3> QED BY <1>0, <2>1, LeftOut
      <2> HIDE DEF i, r
      <2>4. DOMAIN r = 1 .. Len(l) - 1
            BY <2>3
      <2>5. ASSUME NEW j \in DOMAIN r, NEW k \in DOMAIN r, r[j] = r[k] PROVE j = k
            <3>1. CASE j < i /\ k < i
                  BY <1>0, <2>1, <2>3, <2>4, <2>5, <3>1 DEF Apart
            <3>2. CASE ~(j < i) /\ ~(k < i)
                  <4>1. l[j + 1] = l[k + 1] /\ j + 1 \in 1 .. Len(l) /\ k + 1 \in 1 .. Len(l)
                        BY <1>0, <2>3, <2>4, <2>5, <3>2
                  <4> QED BY <1>0, <2>4, <4>1 DEF Apart
            <3>3. CASE j < i /\ ~(k < i)
                  <4>1. l[j] = l[k + 1] /\ j \in 1 .. Len(l) /\ k + 1 \in 1 .. Len(l)
                        BY <1>0, <2>3, <2>4, <2>5, <3>3
                  <4>2. j = k + 1
                        BY <1>0, <4>1 DEF Apart
                  <4> QED BY <2>1, <2>4, <3>3, <4>2
            <3>4. CASE ~(j < i) /\ k < i
                  <4>1. l[j + 1] = l[k] /\ j + 1 \in 1 .. Len(l) /\ k \in 1 .. Len(l)
                        BY <1>0, <2>3, <2>4, <2>5, <3>4
                  <4>2. j + 1 = k
                        BY <1>0, <4>1 DEF Apart
                  <4> QED BY <2>1, <2>4, <3>4, <4>2
            <3> QED BY <3>1, <3>2, <3>3, <3>4
      <2>6. Apart(r)
            BY <2>5 DEF Apart
      <2>7. ASSUME NEW j \in 1 .. Len(l), j # i
            PROVE  LET k == j - IF i < j THEN 1 ELSE 0 IN k \in DOMAIN r /\ r[k] = l[j]
            BY <1>0, <2>1, <2>3, <2>4, <2>7
      <2>8. ASSUME NEW j \in DOMAIN r PROVE r[j] \in Dragging!ToSet(l) /\ r[j] # x
            <3>1. CASE j < i
                  <4>1. r[j] = l[j] /\ j \in 1 .. Len(l) /\ j # i
                        BY <1>0, <2>1, <2>3, <2>4, <3>1
                  <4> QED BY <1>0, <2>1, <4>1 DEF Apart, Dragging!ToSet
            <3>2. CASE ~(j < i)
                  <4>1. r[j] = l[j + 1] /\ j + 1 \in 1 .. Len(l) /\ j + 1 # i
                        BY <1>0, <2>1, <2>3, <2>4, <3>2
                  <4> QED BY <1>0, <2>1, <4>1 DEF Apart, Dragging!ToSet
            <3> QED BY <3>1, <3>2
      <2>9. ASSUME NEW y \in Dragging!ToSet(l) \ {x}
            PROVE  /\ y \in Dragging!ToSet(r)
                   /\ Dragging!Spot(r, y) = Dragging!Spot(l, y) - IF i < Dragging!Spot(l, y)
                       THEN 1 ELSE 0
            <3> DEFINE j == Dragging!Spot(l, y)
                       k == j - IF i < j THEN 1 ELSE 0
            <3>1. j \in 1 .. Len(l) /\ l[j] = y /\ j # i
                  BY <1>0, <2>1, <2>9, SpotIs
            <3>2. k \in DOMAIN r /\ r[k] = y
                  <4> HIDE DEF j
                  <4> QED BY <2>7, <3>1
            <3> HIDE DEF k
            <3>3. y \in Dragging!ToSet(r) /\ Dragging!Spot(r, y) = k
                  BY <2>6, <3>2, SpotOf
            <3> QED BY <3>3 DEF k
      <2>10. Dragging!ToSet(r) = Dragging!ToSet(l) \ {x}
            <3>1. \A y \in Dragging!ToSet(r) : y \in Dragging!ToSet(l) \ {x}
                  BY <2>8 DEF Dragging!ToSet
            <3> QED BY <2>9, <3>1
      <2> QED BY <1>0, <1>2, <2>2, <2>3, <2>6, <2>9, <2>10 DEF i
<1> QED BY <1>1, <1>2

\* A list with something put in.
LEMMA InsertedIs ==
  ASSUME NEW S, NEW l \in Seq(S), Apart(l), NEW x \in S, x \notin Dragging!ToSet(l),
         NEW i \in 1 .. Len(l) + 1
  PROVE  /\ Dragging!InsertAt(l, i, x) \in Seq(S) /\ Apart(Dragging!InsertAt(l, i, x))
         /\ Dragging!ToSet(Dragging!InsertAt(l, i, x)) = Dragging!ToSet(l) \cup {x}
<1>0. Len(l) \in Nat /\ DOMAIN l = 1 .. Len(l)
      OBVIOUS
<1>1. PICK r : /\ r = Dragging!InsertAt(l, i, x)
               /\ r \in Seq(S) /\ Len(r) = Len(l) + 1
               /\ \A j \in 1 .. Len(l) + 1 :
                    r[j] = IF j < i THEN l[j] ELSE IF j = i THEN x ELSE l[j - 1]
      <2> DEFINE a == Dragging!InsertAt(l, i, x)
      <2>1. a \in Seq(S) /\ Len(a) = Len(l) + 1
            BY PutIn
      <2>2. \A j \in 1 .. Len(l) + 1 :
              a[j] = IF j < i THEN l[j] ELSE IF j = i THEN x ELSE l[j - 1]
            BY PutIn
      <2> HIDE DEF a
      <2> QED BY <2>1, <2>2 DEF a
<1>2. DOMAIN r = 1 .. Len(l) + 1
      BY <1>1
<1>3. ASSUME NEW j \in DOMAIN r, j # i
      PROVE  LET k == j - IF i < j THEN 1 ELSE 0
             IN k \in DOMAIN l /\ r[j] = l[k] /\ r[j] \in Dragging!ToSet(l)
      <2> DEFINE k == j - IF i < j THEN 1 ELSE 0
      <2>0. i \in Nat /\ 1 <= i /\ i <= Len(l) + 1 /\ j \in 1 .. Len(l) + 1
            BY <1>0, <1>2
      <2>1. k \in DOMAIN l /\ r[j] = l[k]
            <3>1. CASE i < j
                  <4>1. k = j - 1 /\ k \in 1 .. Len(l) /\ ~(j < i) /\ j # i
                        BY <1>0, <2>0, <3>1
                  <4> HIDE DEF k
                  <4> QED BY <1>0, <1>1, <2>0, <4>1
            <3>2. CASE j < i
                  <4>1. k = j /\ k \in 1 .. Len(l)
                        BY <1>0, <2>0, <3>2
                  <4> HIDE DEF k
                  <4> QED BY <1>0, <1>1, <2>0, <3>2, <4>1
            <3> QED BY <1>3, <2>0, <3>1, <3>2
      <2> HIDE DEF k
      <2>2. r[j] \in Dragging!ToSet(l)
            BY <2>1 DEF Dragging!ToSet
      <2> QED BY <2>1, <2>2 DEF k
<1>4. r[i] = x /\ i \in DOMAIN r
      BY <1>0, <1>1, <1>2
<1>5. ASSUME NEW j \in DOMAIN r, NEW k \in DOMAIN r, r[j] = r[k] PROVE j = k
      <2>1. CASE j # i /\ k # i
            <3> DEFINE m == j - IF i < j THEN 1 ELSE 0
                       n == k - IF i < k THEN 1 ELSE 0
            <3>1. m \in DOMAIN l /\ n \in DOMAIN l /\ l[m] = l[n]
                  BY <1>3, <1>5, <2>1
            <3>2. m = n
                  <4> HIDE DEF m, n
                  <4> QED BY <3>1 DEF Apart
            <3> QED BY <1>0, <1>2, <2>1, <3>2
      <2>2. CASE j = i \/ k = i
            BY <1>3, <1>4, <1>5, <2>2
      <2> QED BY <2>1, <2>2
<1>6. \A y \in Dragging!ToSet(l) : y \in Dragging!ToSet(r)
      <2> SUFFICES ASSUME NEW j \in DOMAIN l PROVE l[j] \in Dragging!ToSet(r)
          BY DEF Dragging!ToSet
      <2> DEFINE k == j + IF i <= j THEN 1 ELSE 0
      <2>1. k \in DOMAIN r /\ r[k] = l[j]
            BY <1>0, <1>1, <1>2
      <2> HIDE DEF k
      <2> QED BY <2>1 DEF Dragging!ToSet
<1>7. \A y \in Dragging!ToSet(r) : y \in Dragging!ToSet(l) \cup {x}
      <2> SUFFICES ASSUME NEW j \in DOMAIN r PROVE r[j] \in Dragging!ToSet(l) \cup {x}
          BY DEF Dragging!ToSet
      <2> QED BY <1>3, <1>4
<1>8. x \in Dragging!ToSet(r)
      BY <1>4 DEF Dragging!ToSet
<1>9. Dragging!ToSet(r) = Dragging!ToSet(l) \cup {x}
      BY <1>6, <1>7, <1>8
<1> QED BY <1>1, <1>5, <1>9 DEF Apart

\* As far as a list goes.
LEMMA AtIs ==
  ASSUME NEW S, NEW l \in Seq(S), Apart(l), NEW x \in S, x \notin Dragging!ToSet(l), NEW i \in Nat
  PROVE  Dragging!At(l, x, i) \in Seq(S) /\ Apart(Dragging!At(l, x, i))
             /\ Dragging!ToSet(Dragging!At(l, x, i)) = Dragging!ToSet(l) \cup {x}
<1>1. Dragging!Lesser(i, Len(l)) + 1 \in 1 .. Len(l) + 1
      BY DEF Dragging!Lesser
<1> QED BY <1>1, InsertedIs DEF Dragging!At

\* What is dropped on something, before or after it: the index the page asks for is where it goes.
LEMMA IndexIs ==
  ASSUME NEW S, NEW l \in Seq(S), Apart(l), NEW x, NEW y \in Dragging!ToSet(l), x # y,
         NEW late \in BOOLEAN,
         NEW k,
             k = Dragging!Spot(l, y) - 1 - (IF x \in Dragging!ToSet(l)
                 /\ Dragging!Spot(l, x) < Dragging!Spot(l, y) THEN 1 ELSE 0)
                                            + (IF late THEN 1 ELSE 0)
  PROVE  LET r == Dragging!Without(l, x)
         IN /\ Dragging!Spot(r, y) \in 1 .. Len(r)
            /\ Dragging!Lesser(k, Len(r)) + 1 = IF late THEN Dragging!Spot(r, y) + 1
                ELSE Dragging!Spot(r, y)
<1> DEFINE r == Dragging!Without(l, x)
           m == IF x \in Dragging!ToSet(l)
               /\ Dragging!Spot(l, x) < Dragging!Spot(l, y) THEN 1 ELSE 0
<1>1. r \in Seq(S) /\ y \in Dragging!ToSet(r) /\ Dragging!Spot(r, y) = Dragging!Spot(l, y) - m
      <2> HIDE DEF m
      <2> QED BY WithoutIs DEF m
<1>2. Dragging!Spot(l, y) \in DOMAIN l
      BY SpotIs
<1>3. Dragging!Spot(l, y) \in Nat /\ m \in Nat
      BY <1>2
<1> HIDE DEF r, m
<1>4. Dragging!Spot(r, y) \in DOMAIN r
      BY <1>1, SpotIs
<1>5. Dragging!Spot(r, y) \in 1 .. Len(r) /\ Len(r) \in Nat
      BY <1>1, <1>4
<1>6. k = Dragging!Spot(r, y) - 1 + (IF late THEN 1 ELSE 0)
      BY <1>1, <1>3 DEF m
<1>7. Dragging!Lesser(k, Len(r)) + 1 = IF late THEN Dragging!Spot(r, y) + 1
        ELSE Dragging!Spot(r, y)
      <2> DEFINE n == Dragging!Spot(r, y)
      <2> HIDE DEF n
      <2>1. n \in 1 .. Len(r) /\ k = n - 1 + (IF late THEN 1 ELSE 0)
            BY <1>5, <1>6 DEF n
      <2>2. Dragging!Lesser(k, Len(r)) + 1 = IF late THEN n + 1 ELSE n
            BY <1>5, <2>1 DEF Dragging!Lesser
      <2> QED BY <2>2 DEF n
<1> QED BY <1>5, <1>7 DEF r

\* An arrangement in which each thing stands once, and each group.
IsArranged(a) ==
  /\ a \in Dragging!Arrangement
  /\ \A p \in Dragging!Place : Apart(a.of[p])
  /\ \A t \in Tile : \E p \in Dragging!Place : t \in Dragging!ToSet(a.of[p])
  /\ \A p, q \in Dragging!Place : \A t \in Tile :
       t \in Dragging!ToSet(a.of[p]) /\ t \in Dragging!ToSet(a.of[q]) => p = q
  /\ Apart(a.order) /\ Dragging!ToSet(a.order) = Group

\* What is asked for: to move a thing, or a group.
IsMove(c) ==
  \/ c.does = "thing" /\ c.what \in Tile /\ c.to \in Dragging!Place /\ c.index \in Nat
  \/ c.does = "group" /\ c.what \in Group /\ c.index \in Nat

\* The lists of an arrangement.
LEMMA Lists ==
  ASSUME NEW a \in Dragging!Arrangement
  PROVE  /\ a = [of |-> a.of, order |-> a.order]
         /\ \A p \in Dragging!Place : a.of[p] \in Seq(Tile)
         /\ a.of \in [Dragging!Place -> Seq(Tile)] /\ a.order \in Seq(Group)
BY DEF Dragging!Arrangement

\* The list a thing is in is the only one.
LEMMA HolderIs ==
  ASSUME NEW a, IsArranged(a), NEW t \in Tile
  PROVE  /\ Dragging!Holder(a, t) \in Dragging!Place
         /\ t \in Dragging!ToSet(a.of[Dragging!Holder(a, t)])
         /\ \A p \in Dragging!Place : t \in Dragging!ToSet(a.of[p]) => p = Dragging!Holder(a, t)
         /\ Dragging!In(t, a)
<1>1. \E p \in Dragging!Place : t \in Dragging!ToSet(a.of[p])
      BY DEF IsArranged
<1>2. Dragging!Holder(a, t) \in Dragging!Place
        /\ t \in Dragging!ToSet(a.of[Dragging!Holder(a, t)])
      BY <1>1 DEF Dragging!Holder
<1>3. \A p, q \in Dragging!Place : t \in Dragging!ToSet(a.of[p]) /\ t \in Dragging!ToSet(a.of[q])
        => p = q
      BY DEF IsArranged
<1> QED BY <1>1, <1>2, <1>3 DEF Dragging!In

\* A thing is taken out of its list.
LEMMA TakenIs ==
  ASSUME NEW a, IsArranged(a), NEW t \in Tile
  PROVE  /\ Dragging!Taken(a, t) =
              [of |-> [p \in Dragging!Place |-> Dragging!Without(a.of[p], t)], order |-> a.order]
         /\ Dragging!Taken(a, t) \in Dragging!Arrangement
         /\ \A p \in Dragging!Place :
              /\ Dragging!Taken(a, t).of[p] = Dragging!Without(a.of[p], t)
              /\ Apart(Dragging!Taken(a, t).of[p])
              /\ Dragging!ToSet(Dragging!Taken(a, t).of[p]) = Dragging!ToSet(a.of[p]) \ {t}
<1>1. a \in Dragging!Arrangement /\ \A p \in Dragging!Place : Apart(a.of[p])
      BY DEF IsArranged
<1>2. \A p \in Dragging!Place : a.of[p] \in Seq(Tile)
      BY <1>1, Lists
<1>3. ASSUME NEW p \in Dragging!Place
      PROVE  /\ Dragging!Without(a.of[p], t) \in Seq(Tile) /\ Apart(Dragging!Without(a.of[p], t))
             /\ Dragging!ToSet(Dragging!Without(a.of[p], t)) = Dragging!ToSet(a.of[p]) \ {t}
      BY <1>1, <1>2, WithoutIs
<1>4. Dragging!Taken(a, t) =
        [of |-> [p \in Dragging!Place |-> Dragging!Without(a.of[p], t)], order |-> a.order]
      BY <1>1 DEF Dragging!Taken, Dragging!Arrangement
<1>5. a.order \in Seq(Group)
      BY <1>1, Lists
<1>6. Dragging!Taken(a, t) \in Dragging!Arrangement
      BY <1>3, <1>4, <1>5 DEF Dragging!Arrangement
<1>7. \A p \in Dragging!Place : Dragging!Taken(a, t).of[p] = Dragging!Without(a.of[p], t)
      BY <1>4
<1>8. \A p \in Dragging!Place : /\ Apart(Dragging!Taken(a, t).of[p])
                                /\ Dragging!ToSet(Dragging!Taken(a,
                                    t).of[p]) = Dragging!ToSet(a.of[p]) \ {t}
      BY <1>3, <1>7
<1> QED BY <1>4, <1>6, <1>7, <1>8

\* An arrangement stays one when a list of it is another, or the order.
LEMMA ListPut ==
  ASSUME NEW b \in Dragging!Arrangement, NEW p \in Dragging!Place, NEW l \in Seq(Tile)
  PROVE  /\ [b EXCEPT !.of[p] = l] \in Dragging!Arrangement
         /\ [b EXCEPT !.of[p] = l].order = b.order
         /\ \A q \in Dragging!Place : [b EXCEPT !.of[p] = l].of[q] = IF q = p THEN l ELSE b.of[q]
BY DEF Dragging!Arrangement

\* A group is put elsewhere among the others.
LEMMA OrderPut ==
  ASSUME NEW o \in Seq(Group), Apart(o), Dragging!ToSet(o) = Group, NEW g \in Group, NEW k \in Nat
  PROVE  /\ Dragging!At(Dragging!Without(o, g), g, k) \in Seq(Group)
         /\ Apart(Dragging!At(Dragging!Without(o, g), g, k))
         /\ Dragging!ToSet(Dragging!At(Dragging!Without(o, g), g, k)) = Group
<1>1. PICK r : /\ r = Dragging!Without(o, g) /\ r \in Seq(Group) /\ Apart(r)
               /\ g \notin Dragging!ToSet(r)
               /\ Dragging!ToSet(r) = Group \ {g}
      BY WithoutIs
<1>2. /\ Dragging!At(r, g, k) \in Seq(Group) /\ Apart(Dragging!At(r, g, k))
      /\ Dragging!ToSet(Dragging!At(r, g, k)) = Dragging!ToSet(r) \cup {g}
      BY <1>1, AtIs
<1> QED BY <1>1, <1>2

\* The gateway does what it is asked to.
LEMMA AfterIs ==
  ASSUME NEW a, IsArranged(a), NEW c, IsMove(c)
  PROVE  /\ IsArranged(Dragging!After(a, c))
         /\ c.does = "thing" =>
              Dragging!After(a, c) = [Dragging!Taken(a, c.what) EXCEPT
                                        !.of[c.to] = Dragging!At(Dragging!Without(a.of[c.to],
                                            c.what), c.what, c.index)]
<1>1. CASE c.does = "thing"
      <2> DEFINE t == c.what
                 b == Dragging!Taken(a, t)
                 l == Dragging!At(Dragging!Without(a.of[c.to], t), t, c.index)
                 d == [b EXCEPT !.of[c.to] = l]
      <2>1. t \in Tile /\ c.to \in Dragging!Place /\ c.index \in Nat
            BY <1>1 DEF IsMove
      <2>2. /\ b \in Dragging!Arrangement /\ b.order = a.order
            /\ \A p \in Dragging!Place :
                 /\ b.of[p] = Dragging!Without(a.of[p], t) /\ Apart(b.of[p])
                 /\ Dragging!ToSet(b.of[p]) = Dragging!ToSet(a.of[p]) \ {t}
            <3> HIDE DEF t
            <3>1. b = [of |-> [p \in Dragging!Place |-> Dragging!Without(a.of[p], t)],
                    order |-> a.order]
                  BY <2>1, TakenIs
            <3>2. b.order = a.order
                  BY <3>1
            <3> QED BY <2>1, <3>2, TakenIs
      <2>3. Dragging!After(a, c) = d
            BY <1>1, <2>1, <2>2 DEF Dragging!After
      <2> HIDE DEF b
      <2>4. b.of[c.to] \in Seq(Tile) /\ t \notin Dragging!ToSet(b.of[c.to])
            BY <2>1, <2>2, Lists
      <2>5. l \in Seq(Tile) /\ Apart(l) /\ Dragging!ToSet(l) = Dragging!ToSet(b.of[c.to]) \cup {t}
            <3>1. b.of[c.to] = Dragging!Without(a.of[c.to], t) /\ Apart(b.of[c.to])
                  BY <2>1, <2>2
            <3> HIDE DEF t
            <3> QED BY SMTT(40), <2>1, <2>4, <3>1, AtIs
      <2> HIDE DEF l
      <2>6. /\ d \in Dragging!Arrangement /\ d.order = b.order
            /\ \A q \in Dragging!Place : d.of[q] = IF q = c.to THEN l ELSE b.of[q]
            <3>1. b \in Dragging!Arrangement /\ c.to \in Dragging!Place /\ l \in Seq(Tile)
                  BY <2>1, <2>2, <2>5
            <3> HIDE DEF t
            <3> QED BY <3>1, ListPut
      <2> HIDE DEF d, t
      <2>7. \A q \in Dragging!Place : Apart(d.of[q])
            BY <2>2, <2>5, <2>6
      <2>8. \A q \in Dragging!Place : Dragging!ToSet(d.of[q]) = (Dragging!ToSet(a.of[q]) \ {t})
                                                                   \cup (IF q = c.to THEN {t}
                                                                       ELSE {})
            BY <2>1, <2>2, <2>5, <2>6
      <2>9. \A u \in Tile : \E q \in Dragging!Place : u \in Dragging!ToSet(d.of[q])
            <3> SUFFICES ASSUME NEW u \in Tile PROVE \E q \in Dragging!Place :
                u \in Dragging!ToSet(d.of[q])
                OBVIOUS
            <3>1. CASE u = t
                  BY <2>1, <2>8, <3>1
            <3>2. CASE u # t
                  <4>1. PICK q \in Dragging!Place : u \in Dragging!ToSet(a.of[q])
                        BY DEF IsArranged
                  <4> QED BY <2>8, <3>2, <4>1
            <3> QED BY <3>1, <3>2
      <2>10. \A p, q \in Dragging!Place : \A u \in Tile :
               u \in Dragging!ToSet(d.of[p]) /\ u \in Dragging!ToSet(d.of[q]) => p = q
            <3> SUFFICES ASSUME NEW p \in Dragging!Place, NEW q \in Dragging!Place,
            NEW u \in Tile,
                                u \in Dragging!ToSet(d.of[p]), u \in Dragging!ToSet(d.of[q])
                         PROVE  p = q
                OBVIOUS
            <3>1. CASE u = t
                  BY <2>8, <3>1
            <3>2. CASE u # t
                  <4>1. u \in Dragging!ToSet(a.of[p]) /\ u \in Dragging!ToSet(a.of[q])
                        BY <2>8, <3>2
                  <4> QED BY <4>1 DEF IsArranged
            <3> QED BY <3>1, <3>2
      <2>11. Apart(d.order) /\ Dragging!ToSet(d.order) = Group
            BY <2>2, <2>6 DEF IsArranged
      <2>12. IsArranged(d)
            BY <2>6, <2>7, <2>9, <2>10, <2>11 DEF IsArranged
      <2> QED BY <2>3, <2>12 DEF d, l, b, t
<1>2. CASE c.does # "thing"
      <2> DEFINE g == c.what
                 l == Dragging!At(Dragging!Without(a.order, g), g, c.index)
      <2>1. g \in Group /\ c.index \in Nat
            BY <1>2 DEF IsMove
      <2>2. /\ a \in Dragging!Arrangement /\ a.order \in Seq(Group) /\ Apart(a.order)
            /\ Dragging!ToSet(a.order) = Group
            BY Lists DEF IsArranged
      <2>3. Dragging!After(a, c) = [a EXCEPT !.order = l]
            BY <1>2 DEF Dragging!After
      <2> HIDE DEF g
      <2>5. l \in Seq(Group) /\ Apart(l) /\ Dragging!ToSet(l) = Group
            BY <2>1, <2>2, OrderPut
      <2> HIDE DEF l
      <2>6. /\ [a EXCEPT !.order = l] \in Dragging!Arrangement
            /\ [a EXCEPT !.order = l].of = a.of /\ [a EXCEPT !.order = l].order = l
            BY <2>2, <2>5 DEF Dragging!Arrangement
      <2>7. IsArranged([a EXCEPT !.order = l])
            BY <2>5, <2>6 DEF IsArranged
      <2> QED BY <1>2, <2>3, <2>7
<1> QED BY <1>1, <1>2

\* How many stand up to a place of a list.
LEMMA CountTo ==
  ASSUME NEW S, NEW l \in Seq(S), Apart(l), NEW k \in 0 .. Len(l)
  PROVE  IsFiniteSet({l[j] : j \in 1 .. k}) /\ Cardinality({l[j] : j \in 1 .. k}) = k
<1> DEFINE T == {l[j] : j \in 1 .. k}
           f == [j \in 1 .. k |-> l[j]]
<1>1. k \in Nat /\ \A j \in 1 .. k : j \in DOMAIN l
      OBVIOUS
<1>2. IsFiniteSet(1 .. k) /\ Cardinality(1 .. k) = k
      BY <1>1, FS_Interval
<1>3. f \in Surjection(1 .. k, T)
      BY DEF Surjection
<1>4. \A i, j \in 1 .. k : f[i] = f[j] => i = j
      BY <1>1 DEF Apart
<1>5. f \in Injection(1 .. k, T)
      BY <1>4 DEF Injection, IsInjective
<1> HIDE DEF T, f
<1>6. IsFiniteSet(T) /\ Cardinality(T) = Cardinality(1 .. k)
      BY <1>2, <1>3, <1>5, FS_Surjection
<1> QED BY <1>2, <1>6 DEF T

\* No list is longer than there are things.
LEMMA ListEnds ==
  ASSUME NEW l \in Seq(Tile), Apart(l)
  PROVE  Len(l) <= Dragging!End /\ Dragging!End \in Nat
<1> DEFINE T == {l[j] : j \in 1 .. Len(l)}
<1>1. Len(l) \in 0 .. Len(l) /\ T \subseteq Tile
      OBVIOUS
<1>2. Cardinality(T) = Len(l)
      BY <1>1, CountTo
<1>3. IsFiniteSet(Tile)
      BY DragBounds
<1> HIDE DEF T
<1>4. Cardinality(T) <= Cardinality(Tile) /\ Cardinality(Tile) \in Nat
      BY <1>1, <1>3, FS_Subset, FS_CardinalityType
<1> QED BY <1>2, <1>4, EndCounts

\* A list is drawn as it was read.
LEMMA ListDrawn ==
  ASSUME NEW S, NEW l \in Seq(S), Apart(l), NEW index,
         \A x \in Dragging!ToSet(l) : index[x] = Dragging!Spot(l, x) - 1
  PROVE  Dragging!DrawnList(Dragging!ToSet(l), index) = l
<1> DEFINE UpTo(x) == {y \in Dragging!ToSet(l) : index[y] <= index[x]}
           n == Cardinality(Dragging!ToSet(l))
<1>0. Len(l) \in Nat /\ DOMAIN l = 1 .. Len(l)
      OBVIOUS
<1>1. ASSUME NEW k \in 1 .. Len(l)
      PROVE  UpTo(l[k]) = {l[j] : j \in 1 .. k}
      <2>1. l[k] \in Dragging!ToSet(l) /\ index[l[k]] = k - 1
            BY <1>0, SpotOf
      <2>2. ASSUME NEW y \in Dragging!ToSet(l),
              index[y] <= index[l[k]] PROVE y \in {l[j] : j \in 1 .. k}
            <3>1. Dragging!Spot(l, y) \in 1 .. Len(l) /\ l[Dragging!Spot(l, y)] = y
                    /\ index[y] = Dragging!Spot(l, y) - 1
                  BY <1>0, SpotIs
            <3>2. Dragging!Spot(l, y) \in 1 .. k
                  BY <1>0, <2>1, <2>2, <3>1
            <3> QED BY <3>1, <3>2
      <2>3. ASSUME NEW j \in 1 .. k PROVE l[j] \in Dragging!ToSet(l) /\ index[l[j]] <= index[l[k]]
            <3>1. j \in DOMAIN l
                  BY <1>0
            <3>2. l[j] \in Dragging!ToSet(l) /\ index[l[j]] = j - 1
                  BY <3>1, SpotOf
            <3> QED BY <1>0, <2>1, <3>2
      <2> QED BY <2>2, <2>3
<1>2. ASSUME NEW k \in 1 .. Len(l) PROVE Cardinality(UpTo(l[k])) = k
      <2>1. k \in 0 .. Len(l)
            BY <1>0
      <2>2. Cardinality({l[j] : j \in 1 .. k}) = k
            BY <2>1, CountTo
      <2> QED BY <1>1, <2>2
<1>3. n = Len(l)
      <2>1. Len(l) \in 0 .. Len(l)
            BY <1>0
      <2>2. Dragging!ToSet(l) = {l[j] : j \in 1 .. Len(l)}
            BY <1>0 DEF Dragging!ToSet
      <2>3. Cardinality({l[j] : j \in 1 .. Len(l)}) = Len(l)
            BY <2>1, CountTo
      <2> QED BY <2>2, <2>3
<1>4. Dragging!DrawnList(Dragging!ToSet(l), index) =
        [k \in 1 .. n |-> CHOOSE x \in Dragging!ToSet(l) : Cardinality(UpTo(x)) = k]
      BY Zenon DEF Dragging!DrawnList, Dragging!Cardinality, Cardinality
<1> HIDE DEF UpTo, n
<1>5. ASSUME NEW k \in 1 .. Len(l)
      PROVE  (CHOOSE x \in Dragging!ToSet(l) : Cardinality(UpTo(x)) = k) = l[k]
      <2>1. l[k] \in Dragging!ToSet(l) /\ Cardinality(UpTo(l[k])) = k
            BY <1>0, <1>2 DEF Dragging!ToSet
      <2>2. ASSUME NEW x \in Dragging!ToSet(l), Cardinality(UpTo(x)) = k PROVE x = l[k]
            <3>1. PICK j \in 1 .. Len(l) : x = l[j]
                  BY <1>0 DEF Dragging!ToSet
            <3> QED BY <1>2, <2>2, <3>1
      <2> QED BY <2>1, <2>2
<1>6. Dragging!DrawnList(Dragging!ToSet(l), index) = [k \in 1 .. Len(l) |-> l[k]]
      BY <1>3, <1>4, <1>5
<1> QED BY <1>0, <1>6

\* What the gateway answers about an arrangement.
LEMMA RowsAre ==
  ASSUME NEW a, IsArranged(a)
  PROVE  /\ \A t \in Tile :
              /\ Dragging!Rows(a).thing[t].place = Dragging!Holder(a, t)
              /\ Dragging!Rows(a).thing[t].index = Dragging!Spot(a.of[Dragging!Holder(a, t)],
                  t) - 1
              /\ Dragging!Rows(a).thing[t].index \in Nat
         /\ \A g \in Group : /\ Dragging!Rows(a).group[g] = Dragging!Spot(a.order, g) - 1
                             /\ Dragging!Rows(a).group[g] \in Nat
<1>1. a \in Dragging!Arrangement /\ Dragging!ToSet(a.order) = Group
      BY DEF IsArranged
<1>2. ASSUME NEW t \in Tile PROVE Dragging!Spot(a.of[Dragging!Holder(a, t)], t) - 1 \in Nat
      <2>1. a.of[Dragging!Holder(a, t)] \in Seq(Tile)
              /\ t \in Dragging!ToSet(a.of[Dragging!Holder(a, t)])
            BY <1>1, HolderIs, Lists
      <2>2. Dragging!Spot(a.of[Dragging!Holder(a, t)], t) \in DOMAIN a.of[Dragging!Holder(a, t)]
            BY <2>1, SpotIs
      <2> QED BY <2>1, <2>2
<1>3. ASSUME NEW g \in Group PROVE Dragging!Spot(a.order, g) - 1 \in Nat
      <2>1. a.order \in Seq(Group) /\ g \in Dragging!ToSet(a.order)
            BY <1>1, Lists
      <2>2. Dragging!Spot(a.order, g) \in DOMAIN a.order
            BY <2>1, SpotIs
      <2> QED BY <2>1, <2>2
<1> QED BY <1>2, <1>3 DEF Dragging!Rows

\* What is drawn of what the gateway answers is its arrangement.
LEMMA DrawnIs == ASSUME NEW a, IsArranged(a) PROVE Dragging!Drawn(Dragging!Rows(a)) = a
<1> DEFINE r == Dragging!Rows(a)
           index == [t \in Tile |-> r.thing[t].index]
<1>1. a \in Dragging!Arrangement /\ Apart(a.order) /\ Dragging!ToSet(a.order) = Group
      BY DEF IsArranged
<1>2. /\ \A t \in Tile : /\ r.thing[t].place = Dragging!Holder(a, t)
                         /\ index[t] = Dragging!Spot(a.of[Dragging!Holder(a, t)], t) - 1
      /\ \A g \in Group : r.group[g] = Dragging!Spot(a.order, g) - 1
      BY RowsAre
<1>3. Dragging!Drawn(r) =
        [of |-> [p \in Dragging!Place |->
                   Dragging!DrawnList({t \in Tile : r.thing[t].place = p}, index)],
         order |-> Dragging!DrawnList(Group, r.group)]
      BY DEF Dragging!Drawn
<1> HIDE DEF r, index
<1>4. ASSUME NEW p \in Dragging!Place
      PROVE  Dragging!DrawnList({t \in Tile : r.thing[t].place = p}, index) = a.of[p]
      <2>1. a.of[p] \in Seq(Tile) /\ Apart(a.of[p])
            BY <1>1, Lists DEF IsArranged
      <2>2. Dragging!ToSet(a.of[p]) \subseteq Tile
            BY <2>1 DEF Dragging!ToSet
      <2>3. \A t \in Tile : t \in Dragging!ToSet(a.of[p]) <=> p = Dragging!Holder(a, t)
            BY HolderIs
      <2>4. {t \in Tile : r.thing[t].place = p} = Dragging!ToSet(a.of[p])
            BY <1>2, <2>2, <2>3
      <2>5. \A t \in Dragging!ToSet(a.of[p]) : index[t] = Dragging!Spot(a.of[p], t) - 1
            BY <1>2, <2>2, <2>3
      <2>6. Dragging!DrawnList(Dragging!ToSet(a.of[p]), index) = a.of[p]
            BY <2>1, <2>5, ListDrawn
      <2> QED BY <2>4, <2>6
<1>5. Dragging!DrawnList(Group, r.group) = a.order
      <2>1. a.order \in Seq(Group)
            BY <1>1, Lists
      <2>2. Dragging!DrawnList(Dragging!ToSet(a.order), r.group) = a.order
            BY <1>1, <1>2, <2>1, ListDrawn
      <2> QED BY <1>1, <2>2
<1>6. [p \in Dragging!Place |-> Dragging!DrawnList({t \in Tile : r.thing[t].place = p},
        index)] = a.of
      BY <1>1, <1>4, Lists
<1>7. Dragging!Drawn(r) = [of |-> a.of, order |-> a.order]
      BY <1>3, <1>5, <1>6
<1> QED BY <1>1, <1>7, Lists DEF r

\* The page was drawn of an arrangement, and what was read may be of two.
DrawnFrom == \E a \in Dragging!Arrangement : IsArranged(a) /\ indices = Dragging!Rows(a)
ReadFrom ==
  \/ read = <<>>
  \/ \E a \in Dragging!Arrangement : IsArranged(a) /\ read = <<Dragging!Rows(a).thing>>
  \/ \E a, b \in Dragging!Arrangement :
       IsArranged(a) /\ IsArranged(b) /\ read = <<Dragging!Rows(a).thing, Dragging!Rows(b).group>>

\* The requests.
DragCall == [does : {"thing"}, what : Tile, to : Dragging!Place, index : Nat, stage : {"sent"}]
            \cup [does : {"group"}, what : Group, index : Nat, stage : {"sent"}]
            \cup [does : {"none"}, stage : {"served", "done"}]

\* What is of which type.
DragTyped ==
  /\ IsArranged(kept) /\ DrawnFrom /\ ReadFrom
  /\ drags \in Seq(DragCall) /\ notices \in Nat /\ job \in BOOLEAN
  /\ groupOf \in [Tile -> Dragging!Place] /\ adrift \in BOOLEAN

\* The page is as it was drawn until something is dropped.
AsDrawn == dropped = <<>> /\ ~adrift => dom = Dragging!Drawn(indices)

\* With no request done that the page was not told of, what it read is right, and so is what it
\* drew, unless something was dropped.
NoneServed == (\A c \in DOMAIN drags : drags[c].stage # "served") /\ notices = 0 /\ ~job
SomeSent == \E c \in DOMAIN drags : drags[c].stage = "sent"
ReadIsKept ==
  NoneServed => /\ Len(read) >= 1 => read[1] = Dragging!Rows(kept).thing
                /\ Len(read) = 2 => read[2] = Dragging!Rows(kept).group
                /\ read = <<>> => dom = kept \/ adrift \/ SomeSent

\* The inductive invariant of what is dragged.
DragInv == DragTyped /\ AsDrawn /\ Dragging!DroppedWhereShown /\ ReadIsKept

\* What the invariant says of what is dragged.
LEMMA DragTells == DragInv => Dragging!InPlace
<1> SUFFICES ASSUME DragInv PROVE Dragging!ShownAsKept
    BY DEF DragInv, Dragging!InPlace
<1> SUFFICES ASSUME \A c \in DOMAIN drags : drags[c].stage = "done",
                    notices = 0, ~job, read = <<>>
             PROVE  adrift \/ dom = kept
    BY DEF Dragging!ShownAsKept
<1> QED BY DEF DragInv, ReadIsKept, NoneServed, SomeSent

\* A request that is sent is to move something.
LEMMA SentIs ==
  /\ \A c \in DragCall : c.stage = "sent" => IsMove(c)
  /\ \A t \in Tile, p \in Dragging!Place, k \in Nat :
       LET c == [does |-> "thing", what |-> t, to |-> p, index |-> k, stage |-> "sent"]
       IN c \in DragCall /\ c.stage = "sent"
  /\ \A g \in Group, k \in Nat :
       LET c == [does |-> "group", what |-> g, index |-> k, stage |-> "sent"]
       IN c \in DragCall /\ c.stage = "sent"
  /\ Dragging!NoCall \in DragCall /\ Dragging!NoCall.stage = "done"
  /\ [does |-> "none", stage |-> "served"] \in DragCall
BY DEF DragCall, IsMove, Dragging!NoCall

\* One request more, or one that is another.
LEMMA CallsAre ==
  ASSUME drags \in Seq(DragCall), NEW d \in DragCall
  PROVE  /\ Append(drags, d) \in Seq(DragCall)
         /\ \A c \in DOMAIN drags :
             c \in DOMAIN Append(drags, d) /\ Append(drags, d)[c] = drags[c]
         /\ \A c \in DOMAIN Append(drags, d) : c \in DOMAIN drags \/ Append(drags, d)[c] = d
         /\ \E c \in DOMAIN Append(drags, d) : Append(drags, d)[c] = d
         /\ \A e \in DOMAIN drags :
              /\ [drags EXCEPT ![e] = d] \in Seq(DragCall)
              /\ DOMAIN [drags EXCEPT ![e] = d] = DOMAIN drags
              /\ \A c \in DOMAIN drags :
                   [drags EXCEPT ![e] = d][c] = IF c = e THEN d ELSE drags[c]
<1>1. \E c \in DOMAIN Append(drags, d) : Append(drags, d)[c] = d
      <2>1. Len(drags) + 1 \in DOMAIN Append(drags, d) /\ Append(drags, d)[Len(drags) + 1] = d
            OBVIOUS
      <2> QED BY <2>1
<1> QED BY <1>1

\* What is dropped is asked for.
LEMMA AskKeeps ==
  ASSUME DragInv, NEW c \in DragCall, c.stage = "sent", NEW clean \in BOOLEAN,
         Dragging!Ask(c, clean),
         dropped = <<>> /\ ~adrift /\ clean => Dragging!After(Dragging!Drawn(indices), c) = dom'
  PROVE  DragInv'
<1>1. /\ drags' = Append(drags, c)
      /\ dropped' = IF dropped = <<>> THEN <<[call |-> c, clean |-> clean]>> ELSE Dragging!Many
      /\ UNCHANGED <<indices, adrift, kept, listens, notices, job, read, groupOf, failures>>
      BY DEF Dragging!Ask, Dragging!Between
<1>2. drags \in Seq(DragCall)
      BY DEF DragInv, DragTyped
<1>3. DragTyped'
      BY <1>1, <1>2, CallsAre DEF DragInv, DragTyped, DrawnFrom, ReadFrom
<1>4. dropped' # <<>>
      BY <1>1 DEF Dragging!Many
<1>5. Dragging!DroppedWhereShown'
      <2>1. CASE dropped = <<>>
            <3>1. dropped'[1].call = c /\ dropped'[1].clean = clean
                  BY <1>1, <2>1
            <3>2. (Dragging!Drawn(indices))' = Dragging!Drawn(indices)
                  BY <1>1 DEF Dragging!Drawn
            <3>3. Dragging!After(Dragging!Drawn(indices),
                    dropped'[1].call) = Dragging!After(Dragging!Drawn(indices), c)
                  BY <3>1
            <3>4. ASSUME dropped'[1].clean, ~adrift'
                  PROVE  Dragging!After(Dragging!Drawn(indices), dropped'[1].call) = dom'
                  BY <1>1, <2>1, <3>1, <3>3, <3>4
            <3> QED BY <1>1, <3>4 DEF Dragging!DroppedWhereShown
      <2>2. CASE dropped # <<>>
            <3>1. Len(dropped') = 2
                  BY <1>1, <2>2 DEF Dragging!Many
            <3> QED BY <3>1 DEF Dragging!DroppedWhereShown
      <2> QED BY <2>1, <2>2
<1>6. ReadIsKept'
      <2>1. SomeSent'
            BY <1>1, <1>2, CallsAre DEF SomeSent
      <2>2. NoneServed' => NoneServed
            BY <1>1, <1>2, CallsAre DEF NoneServed
      <2> QED BY <1>1, <2>1, <2>2 DEF DragInv, ReadIsKept
<1> QED BY <1>3, <1>4, <1>5, <1>6 DEF DragInv, AsDrawn

\* A drop that throws.
LEMMA LostKeeps ==
  ASSUME DragInv, Dragging!Lost PROVE DragInv'
<1>1. /\ drags' = Append(drags, Dragging!NoCall) /\ adrift' = TRUE
      /\ UNCHANGED <<indices, dropped, kept, listens, notices, job, read, groupOf, failures>>
      BY DEF Dragging!Lost, Dragging!Between
<1>2. drags \in Seq(DragCall) /\ Dragging!NoCall \in DragCall
      BY SentIs DEF DragInv, DragTyped
<1>3. DragTyped'
      BY <1>1, <1>2, CallsAre DEF DragInv, DragTyped, DrawnFrom, ReadFrom
<1>4. NoneServed' => NoneServed
      BY <1>1, <1>2, CallsAre DEF NoneServed
<1>5. ReadIsKept'
      BY <1>1, <1>4 DEF DragInv, ReadIsKept
<1> QED BY <1>1, <1>3, <1>5 DEF DragInv, AsDrawn, Dragging!DroppedWhereShown

\* The index that is asked for is a number.
LEMMA IndexByIs ==
  ASSUME NEW S, NEW index \in [S -> Nat], NEW x \in S, NEW y \in S,
         NEW together \in BOOLEAN, NEW late \in BOOLEAN
  PROVE  Dragging!IndexBy(x, y, index, together, late) \in Nat
BY DEF Dragging!IndexBy

\* The indices the page was drawn with.
LEMMA IndicesAre ==
  ASSUME DrawnFrom
  PROVE  /\ [x \in Tile |-> indices.thing[x].index] \in [Tile -> Nat]
         /\ \A t \in Tile : indices.thing[t].place \in Dragging!Place
         /\ \A g \in Group : indices.group[g] \in Nat
         /\ indices.group \in [Group -> Nat]
<1>1. PICK a \in Dragging!Arrangement : IsArranged(a) /\ indices = Dragging!Rows(a)
      BY DEF DrawnFrom
<1>2. /\ \A t \in Tile :
          indices.thing[t].index \in Nat /\ indices.thing[t].place \in Dragging!Place
      /\ \A g \in Group : indices.group[g] \in Nat
      BY <1>1, RowsAre, HolderIs
<1>3. indices.group = [g \in Group |-> Dragging!Spot(a.order, g) - 1]
      BY <1>1 DEF Dragging!Rows
<1> QED BY <1>2, <1>3

\* Until something is dropped, the nodes are what the page was drawn of.
LEMMA NotDropped ==
  ASSUME DragInv, dropped = <<>>, ~adrift
  PROVE  IsArranged(dom) /\ indices = Dragging!Rows(dom) /\ Dragging!Drawn(indices) = dom
BY DrawnIs DEF DragInv, DragTyped, AsDrawn, DrawnFrom

\* A thing that is dropped on another is put where it is asked to be.
LEMMA ThingGoes ==
  ASSUME NEW a, IsArranged(a), NEW t \in Tile, NEW u \in Tile, t # u, NEW late \in BOOLEAN,
         NEW q, q = Dragging!Holder(a, u),
         NEW k, k = Dragging!IndexBy(t, u, [x \in Tile |-> Dragging!Rows(a).thing[x].index],
                                     Dragging!Holder(a, t) = q, late)
  PROVE  LET r == Dragging!Without(a.of[q], t)
             i == Dragging!Spot(r, u)
         IN /\ i \in 1 .. Len(r)
            /\ Dragging!At(r, t, k) = Dragging!InsertAt(r, IF late THEN i + 1 ELSE i, t)
<1> DEFINE l == a.of[q]
           r == Dragging!Without(l, t)
           index == [x \in Tile |-> Dragging!Rows(a).thing[x].index]
<1>1. q \in Dragging!Place /\ u \in Dragging!ToSet(l)
        /\ (t \in Dragging!ToSet(l) <=> Dragging!Holder(a, t) = q)
      BY HolderIs
<1>2. l \in Seq(Tile) /\ Apart(l)
      BY <1>1, Lists DEF IsArranged
<1>3. /\ index[u] = Dragging!Spot(l, u) - 1
      /\ Dragging!Holder(a, t) = q => index[t] = Dragging!Spot(l, t) - 1
      BY RowsAre
<1>4. k = index[u] - (IF Dragging!Holder(a, t) = q /\ index[t] < index[u] THEN 1 ELSE 0)
                   + (IF late THEN 1 ELSE 0)
      BY DEF Dragging!IndexBy
<1> HIDE DEF l, index
<1>5. /\ Dragging!Spot(l, u) \in Nat
      /\ t \in Dragging!ToSet(l) => Dragging!Spot(l, t) \in Nat
      <2>1. Dragging!Spot(l, u) \in DOMAIN l
              /\ (t \in Dragging!ToSet(l) => Dragging!Spot(l, t) \in DOMAIN l)
            BY <1>1, SpotIs
      <2> QED BY <1>2, <2>1
<1>6. k = Dragging!Spot(l, u) - 1 - (IF t \in Dragging!ToSet(l)
        /\ Dragging!Spot(l, t) < Dragging!Spot(l, u) THEN 1 ELSE 0)
                                  + (IF late THEN 1 ELSE 0)
      <2>1. CASE t \in Dragging!ToSet(l)
            <3>1. index[t] < index[u] <=> Dragging!Spot(l, t) < Dragging!Spot(l, u)
                  BY <1>1, <1>3, <1>5, <2>1
            <3> QED BY <1>1, <1>3, <1>4, <2>1, <3>1
      <2>2. CASE t \notin Dragging!ToSet(l)
            BY <1>1, <1>3, <1>4, <2>2
      <2> QED BY <2>1, <2>2
<1>7. /\ Dragging!Spot(r, u) \in 1 .. Len(r)
      /\ Dragging!Lesser(k, Len(r)) + 1 = IF late THEN Dragging!Spot(r, u) + 1
          ELSE Dragging!Spot(r, u)
      BY <1>1, <1>2, <1>6, IndexIs
<1> QED BY <1>7 DEF Dragging!At, l

\* A thing is dropped on a thing.
LEMMA ThingDropped ==
  ASSUME DragInv, NEW t \in Tile, NEW u \in Tile, NEW late \in BOOLEAN,
         Dragging!DropOnThing(t, u, late)
  PROVE  DragInv'
<1> DEFINE there == Dragging!Holder(dom, u)
           into == indices.thing[u].place
           rest == Dragging!Taken(dom, t)
           i == Dragging!Spot(rest.of[there], u)
           k == Dragging!IndexBy(t, u, [x \in Tile |-> indices.thing[x].index],
               Dragging!Holder(dom, t) = there, late)
           c == [does |-> "thing", what |-> t, to |-> groupOf[u], index |-> k, stage |-> "sent"]
           last == late /\ (t = u \/ i = Len(rest.of[there]))
           spot == IF last THEN Len(rest.of[into]) + 1 ELSE IF late THEN i + 1 ELSE i
           clean == t # u /\ groupOf[u] = into
<1>1. \/ /\ dom' = [rest EXCEPT !.of[into] = Dragging!InsertAt(@, spot, t)]
         /\ Dragging!Ask(c, clean)
      \/ Dragging!Lost
      BY DEF Dragging!DropOnThing
<1>2. c \in DragCall /\ c.stage = "sent" /\ c.does = "thing" /\ c.what = t /\ c.to = groupOf[u]
        /\ c.index = k
      <2>1. k \in Nat
            <3>1. [x \in Tile |-> indices.thing[x].index] \in [Tile -> Nat]
                  BY IndicesAre DEF DragInv, DragTyped
            <3>2. (Dragging!Holder(dom, t) = there) \in BOOLEAN
                  OBVIOUS
            <3> QED BY <3>1, <3>2, IndexByIs
      <2>2. groupOf[u] \in Dragging!Place
            BY DEF DragInv, DragTyped
      <2> HIDE DEF k
      <2> QED BY <2>1, <2>2 DEF DragCall
<1>3. ASSUME dom' = [rest EXCEPT !.of[into] = Dragging!InsertAt(@, spot, t)],
             dropped = <<>>, ~adrift, clean
      PROVE  Dragging!After(Dragging!Drawn(indices), c) = dom'
      <2>1. IsArranged(dom) /\ indices = Dragging!Rows(dom) /\ Dragging!Drawn(indices) = dom
            BY <1>3, NotDropped
      <2>2. into = there /\ there \in Dragging!Place
            BY <2>1, RowsAre, HolderIs
      <2>3. rest.of[there] = Dragging!Without(dom.of[there], t)
            BY <2>1, <2>2, TakenIs
      <2>4. /\ i \in 1 .. Len(rest.of[there])
            /\ Dragging!At(rest.of[there], t, k) = Dragging!InsertAt(rest.of[there], IF late
                THEN i + 1 ELSE i, t)
            BY <1>3, <2>1, <2>3, ThingGoes
      <2>5. spot = IF late THEN i + 1 ELSE i
            <3> HIDE DEF i
            <3> QED BY <1>3, <2>2
      <2>6. dom' = [rest EXCEPT !.of[there] = Dragging!At(rest.of[there], t, k)]
            <3> HIDE DEF spot, k, i, rest, there
            <3> QED BY <1>3, <2>2, <2>4, <2>5
      <2>7. IsMove(c)
            BY <1>2, SentIs
      <2>8. Dragging!After(dom, c) = [Dragging!Taken(dom, t) EXCEPT
                                        !.of[c.to] = Dragging!At(Dragging!Without(dom.of[c.to],
                                            t), t, k)]
            <3> HIDE DEF c, k
            <3> QED BY <1>2, <2>1, <2>7, AfterIs
      <2>9. c.to = there
            BY <1>2, <1>3, <2>2
      <2> HIDE DEF c, k, there
      <2> QED BY <2>1, <2>3, <2>6, <2>8, <2>9
<1>4. clean \in BOOLEAN
      OBVIOUS
<1> HIDE DEF c, clean
<1>5. CASE dom' = [rest EXCEPT !.of[into] = Dragging!InsertAt(@, spot, t)]
             /\ Dragging!Ask(c, clean)
      <2> HIDE DEF rest, spot, into
      <2> QED BY <1>2, <1>3, <1>4, <1>5, AskKeeps
<1> QED BY <1>1, <1>5, LostKeeps

\* A thing is dropped in a list.
LEMMA ThingGiven ==
  ASSUME DragInv, NEW t \in Tile, NEW p \in Dragging!Place,
         Dragging!DropInList(t, p) PROVE DragInv'
<1> DEFINE c == [does |-> "thing", what |-> t, to |-> p, index |-> Dragging!End, stage |-> "sent"]
<1>1. dom' = [Dragging!Taken(dom, t) EXCEPT !.of[p] = Append(@, t)] /\ Dragging!Ask(c, TRUE)
      BY DEF Dragging!DropInList
<1>2. /\ c \in DragCall /\ c.stage = "sent" /\ c.does = "thing" /\ c.what = t /\ c.to = p
      /\ c.index = Dragging!End /\ Dragging!End \in Nat
      <2>1. Dragging!End \in Nat
            BY DragBounds, EndCounts, FS_CardinalityType
      <2> QED BY <2>1 DEF DragCall
<1> HIDE DEF c
<1>3. ASSUME dropped = <<>>, ~adrift PROVE Dragging!After(Dragging!Drawn(indices), c) = dom'
      <2>1. IsArranged(dom) /\ indices = Dragging!Rows(dom) /\ Dragging!Drawn(indices) = dom
            BY <1>3, NotDropped
      <2> DEFINE r == Dragging!Without(dom.of[p], t)
      <2>2. Dragging!Taken(dom, t).of[p] = r /\ Apart(r) /\ r \in Seq(Tile)
            <3>1. Dragging!Taken(dom, t).of[p] \in Seq(Tile)
                  BY <2>1, TakenIs, Lists
            <3> QED BY <2>1, <3>1, TakenIs
      <2> HIDE DEF r
      <2>3. Len(r) <= Dragging!End /\ Len(r) \in Nat
            BY <2>2, ListEnds
      <2>4. Dragging!Lesser(Dragging!End, Len(r)) = Len(r)
            BY <1>2, <2>3 DEF Dragging!Lesser
      <2>5. Dragging!At(r, t, Dragging!End) = Dragging!InsertAt(r, Len(r) + 1, t)
            BY <2>4 DEF Dragging!At
      <2>6. Dragging!InsertAt(r, Len(r) + 1, t) = Append(r, t)
            BY <2>2, PutLast
      <2>7. IsMove(c)
            BY <1>2, SentIs
      <2>8. Dragging!After(dom,
              c) = [Dragging!Taken(dom, t) EXCEPT !.of[p] = Dragging!At(r, t, Dragging!End)]
            BY <1>2, <2>1, <2>7, AfterIs DEF r
      <2> QED BY <1>1, <2>1, <2>2, <2>5, <2>6, <2>8
<1> QED BY <1>1, <1>2, <1>3, AskKeeps

\* A group is dropped on another.
LEMMA GroupDropped ==
  ASSUME DragInv, NEW g \in Group, NEW h \in Group, NEW late \in BOOLEAN,
         Dragging!DropGroup(g, h, late)
  PROVE  DragInv'
<1> DEFINE r == Dragging!Without(dom.order, g)
           i == Dragging!Spot(r, h)
           k == Dragging!IndexBy(g, h, indices.group, TRUE, late)
           c == [does |-> "group", what |-> g, index |-> k, stage |-> "sent"]
<1>1. /\ g # h
      /\ dom' = [dom EXCEPT !.order = Dragging!InsertAt(r, IF late THEN i + 1 ELSE i, g)]
      /\ Dragging!Ask(c, TRUE)
      BY DEF Dragging!DropGroup
<1>2. /\ c \in DragCall /\ c.stage = "sent" /\ c.does = "group" /\ c.what = g /\ c.index = k
      <2>1. k \in Nat
            <3>1. indices.group \in [Group -> Nat]
                  BY IndicesAre DEF DragInv, DragTyped
            <3> QED BY <3>1, IndexByIs
      <2> HIDE DEF k
      <2> QED BY <2>1 DEF DragCall
<1>3. ASSUME dropped = <<>>, ~adrift PROVE Dragging!After(Dragging!Drawn(indices), c) = dom'
      <2>1. IsArranged(dom) /\ indices = Dragging!Rows(dom) /\ Dragging!Drawn(indices) = dom
            BY <1>3, NotDropped
      <2> DEFINE l == dom.order
      <2>2. l \in Seq(Group) /\ Apart(l) /\ Dragging!ToSet(l) = Group
            BY <2>1, Lists DEF IsArranged
      <2>3. indices.group[g] = Dragging!Spot(l, g) - 1
              /\ indices.group[h] = Dragging!Spot(l, h) - 1
            BY <2>1, RowsAre
      <2>4. k = indices.group[h] - (IF indices.group[g] < indices.group[h] THEN 1 ELSE 0)
                                 + (IF late THEN 1 ELSE 0)
            BY DEF Dragging!IndexBy
      <2>5. Dragging!Spot(l, g) \in Nat /\ Dragging!Spot(l, h) \in Nat
            <3>1. Dragging!Spot(l, g) \in DOMAIN l /\ Dragging!Spot(l, h) \in DOMAIN l
                  BY <2>2, SpotIs
            <3> QED BY <2>2, <3>1
      <2> HIDE DEF l, k
      <2>6. k = Dragging!Spot(l, h) - 1 - (IF g \in Dragging!ToSet(l)
              /\ Dragging!Spot(l, g) < Dragging!Spot(l, h) THEN 1 ELSE 0)
                                        + (IF late THEN 1 ELSE 0)
            BY <2>2, <2>3, <2>4, <2>5
      <2>7. /\ Dragging!Spot(Dragging!Without(l, g), h) \in 1 .. Len(Dragging!Without(l, g))
            /\ Dragging!Lesser(k, Len(Dragging!Without(l, g))) + 1 =
                 IF late THEN Dragging!Spot(Dragging!Without(l, g), h) + 1
                     ELSE Dragging!Spot(Dragging!Without(l, g), h)
            BY <1>1, <2>2, <2>6, IndexIs
      <2>8. Dragging!At(r, g, k) = Dragging!InsertAt(r, IF late THEN i + 1 ELSE i, g)
            BY <2>7 DEF Dragging!At, l
      <2>9. Dragging!After(dom, c) = [dom EXCEPT !.order = Dragging!At(r, g, k)]
            BY <1>2 DEF Dragging!After
      <2> QED BY <1>1, <2>1, <2>8, <2>9
<1> HIDE DEF c
<1> QED BY <1>1, <1>2, <1>3, AskKeeps

\* A request is served, answered, or fails.
LEMMA CallKeeps ==
  ASSUME DragInv, NEW c \in DOMAIN drags,
         Dragging!Serve(c) \/ Dragging!Answered(c) \/ Dragging!Failed(c)
  PROVE  DragInv'
<1>0. drags \in Seq(DragCall) /\ drags[c] \in DragCall
      BY DEF DragInv, DragTyped
<1>1. CASE Dragging!Serve(c)
      <2> DEFINE d == [does |-> "none", stage |-> "served"]
      <2>1. /\ drags[c].stage = "sent" /\ drags' = [drags EXCEPT ![c] = d]
            /\ kept' = Dragging!After(kept, drags[c]) /\ notices' \in {notices, notices + 1}
            /\ UNCHANGED <<listens, job, read, groupOf, indices, dom, dropped, adrift, failures>>
            BY <1>1 DEF Dragging!Serve, Dragging!Told
      <2>2. IsArranged(kept')
            BY <1>0, <2>1, SentIs, AfterIs DEF DragInv, DragTyped
      <2>3. d \in DragCall /\ d.stage = "served"
            BY SentIs
      <2> HIDE DEF d
      <2>4. drags' \in Seq(DragCall) /\ c \in DOMAIN drags' /\ drags'[c].stage = "served"
            BY <1>0, <2>1, <2>3, CallsAre
      <2>5. notices' \in Nat
            BY <2>1 DEF DragInv, DragTyped
      <2>6. DragTyped'
            BY <2>1, <2>2, <2>4, <2>5 DEF DragInv, DragTyped, DrawnFrom, ReadFrom
      <2>7. ~NoneServed'
            BY <2>4 DEF NoneServed
      <2> QED BY <2>1, <2>6, <2>7
         DEF DragInv, AsDrawn, Dragging!DroppedWhereShown, ReadIsKept, Dragging!Drawn
<1>2. CASE Dragging!Answered(c)
      <2>1. /\ drags' = [drags EXCEPT ![c] = Dragging!NoCall] /\ job' = TRUE
            /\ UNCHANGED <<kept, listens, notices, read, groupOf, indices, dom, dropped, adrift,
                failures>>
            BY <1>2 DEF Dragging!Answered, Dragging!Ends
      <2>2. drags' \in Seq(DragCall)
            BY <1>0, <2>1, SentIs, CallsAre
      <2>3. DragTyped'
            BY <2>1, <2>2 DEF DragInv, DragTyped, DrawnFrom, ReadFrom
      <2>4. ~NoneServed'
            BY <2>1 DEF NoneServed
      <2> QED BY <2>1, <2>3, <2>4
         DEF DragInv, AsDrawn, Dragging!DroppedWhereShown, ReadIsKept, Dragging!Drawn
<1>3. CASE Dragging!Failed(c)
      <2>1. /\ drags' = [drags EXCEPT ![c] = Dragging!NoCall] /\ drags[c].stage = "sent"
            /\ adrift' = TRUE
            /\ UNCHANGED <<kept, listens, notices, job, read, groupOf, indices, dom, dropped>>
            BY <1>3 DEF Dragging!Failed, Dragging!Ends
      <2>2. /\ drags' \in Seq(DragCall) /\ DOMAIN drags' = DOMAIN drags
            /\ \A e \in DOMAIN drags : e # c => drags'[e] = drags[e]
            BY <1>0, <2>1, SentIs, CallsAre
      <2>3. DragTyped'
            BY <2>1, <2>2 DEF DragInv, DragTyped, DrawnFrom, ReadFrom
      <2>4. NoneServed' => NoneServed
            <3> SUFFICES ASSUME NoneServed',
            NEW e \in DOMAIN drags PROVE drags[e].stage # "served"
                BY <2>1 DEF NoneServed
            <3>1. CASE e = c
                  BY <2>1, <3>1
            <3>2. CASE e # c
                  BY <2>2, <3>2 DEF NoneServed
            <3> QED BY <3>1, <3>2
      <2> QED BY <2>1, <2>3, <2>4 DEF DragInv, AsDrawn, Dragging!DroppedWhereShown, ReadIsKept
<1> QED BY <1>1, <1>2, <1>3

\* Another browser moves something.
LEMMA OtherKeeps == ASSUME DragInv, Dragging!Other PROVE DragInv'
<1>1. PICK c : kept' = Dragging!After(kept, c) /\ IsMove(c)
      <2>1. CASE \E t \in Tile, p \in Dragging!Place :
                   kept' = Dragging!After(kept,
                       [does |-> "thing", what |-> t, to |-> p, index |-> 0])
            <3>1. PICK t \in Tile, p \in Dragging!Place :
                    kept' = Dragging!After(kept,
                        [does |-> "thing", what |-> t, to |-> p, index |-> 0])
                  BY <2>1
            <3>2. IsMove([does |-> "thing", what |-> t, to |-> p, index |-> 0])
                  BY DEF IsMove
            <3> QED BY <3>1, <3>2
      <2>2. CASE \E g \in Group :
                   kept' = Dragging!After(kept, [does |-> "group", what |-> g, index |-> 0])
            <3>1. PICK g \in Group :
                    kept' = Dragging!After(kept, [does |-> "group", what |-> g, index |-> 0])
                  BY <2>2
            <3>2. IsMove([does |-> "group", what |-> g, index |-> 0])
                  BY DEF IsMove
            <3> QED BY <3>1, <3>2
      <2> QED BY <2>1, <2>2 DEF Dragging!Other
<1>2. /\ drags' = Append(drags, Dragging!NoCall) /\ notices' = notices + 1
      /\ UNCHANGED <<listens, job, read, groupOf, indices, dom, dropped, adrift, failures>>
      BY DEF Dragging!Other, Dragging!Told
<1>3. drags \in Seq(DragCall) /\ Dragging!NoCall \in DragCall /\ notices \in Nat
      BY SentIs DEF DragInv, DragTyped
<1>4. IsArranged(kept')
      BY <1>1, AfterIs DEF DragInv, DragTyped
<1>5. DragTyped'
      BY <1>2, <1>3, <1>4, CallsAre DEF DragInv, DragTyped, DrawnFrom, ReadFrom
<1>6. ~NoneServed'
      BY <1>2, <1>3 DEF NoneServed
<1> QED BY <1>2, <1>5, <1>6
   DEF DragInv, AsDrawn, Dragging!DroppedWhereShown, ReadIsKept, Dragging!Drawn

\* The page hears of a change.
LEMMA NoticeKeeps == ASSUME DragInv, Dragging!Hear PROVE DragInv'
<1>1. /\ notices > 0 /\ notices' = notices - 1 /\ job' = TRUE
      /\ UNCHANGED <<kept, listens, drags, read, groupOf, indices, dom, dropped, adrift,
          failures>>
      BY DEF Dragging!Hear
<1>2. DragTyped'
      BY <1>1 DEF DragInv, DragTyped, DrawnFrom, ReadFrom
<1>3. ~NoneServed'
      BY <1>1 DEF NoneServed
<1> QED BY <1>1, <1>2, <1>3
   DEF DragInv, AsDrawn, Dragging!DroppedWhereShown, ReadIsKept, Dragging!Drawn

\* What is read of two arrangements is what is read of one.
LEMMA RowsOfTwo ==
  ASSUME NEW a \in Dragging!Arrangement, NEW b \in Dragging!Arrangement, IsArranged(a),
         IsArranged(b)
  PROVE  \E c \in Dragging!Arrangement : /\ IsArranged(c)
                                         /\ Dragging!Rows(c) = [thing |-> Dragging!Rows(a).thing,
                                             group |-> Dragging!Rows(b).group]
<1> DEFINE c == [of |-> a.of, order |-> b.order]
<1>1. c \in Dragging!Arrangement /\ c.of = a.of /\ c.order = b.order
      BY Lists DEF Dragging!Arrangement
<1> HIDE DEF c
<1>2. IsArranged(c)
      BY <1>1 DEF IsArranged
<1>3. \A t \in Tile : Dragging!Holder(c, t) = Dragging!Holder(a, t)
      BY <1>1 DEF Dragging!Holder
<1>4. Dragging!Rows(c) = [thing |-> Dragging!Rows(a).thing, group |-> Dragging!Rows(b).group]
      BY <1>1, <1>3 DEF Dragging!Rows
<1> QED BY <1>1, <1>2, <1>4

\* Sequences of one and of two elements.
LEMMA OneTwo ==
  ASSUME NEW x, NEW y
  PROVE  /\ Len(<<x>>) = 1 /\ <<x>>[1] = x /\ Append(<<x>>, y) = <<x, y>>
         /\ Len(<<x, y>>) = 2 /\ <<x, y>>[1] = x /\ <<x, y>>[2] = y
         /\ Len(<<>>) = 0
<1>1. Len(<<x>>) = 1 /\ <<x>>[1] = x
      OBVIOUS
<1>2. Len(<<x, y>>) = 2 /\ <<x, y>>[1] = x /\ <<x, y>>[2] = y
      OBVIOUS
<1>3. Append(<<x>>, y) = <<x, y>>
      <2> DEFINE s == <<x>>
      <2>1. s \in Seq({x}) /\ Len(s) = 1 /\ s[1] = x
            OBVIOUS
      <2>2. s \in Seq({x, y})
            OBVIOUS
      <2> DEFINE p == Append(s, y)
                 q == <<x, y>>
      <2>3. /\ p \in Seq({x, y}) /\ Len(p) = 2
            /\ p[1] = x /\ p[2] = y
            BY <2>1, <2>2
      <2>4. q \in Seq({x, y}) /\ Len(q) = 2 /\ q[1] = x /\ q[2] = y
            OBVIOUS
      <2> HIDE DEF p, q
      <2>5. p \in [1..2 -> {x, y}] /\ q \in [1..2 -> {x, y}]
            BY <2>3, <2>4
      <2>6. \A i \in 1..2 : p[i] = q[i]
            BY <2>3, <2>4
      <2>7. p = q
            BY <2>5, <2>6
      <2> QED BY <2>7 DEF p, q
<1> QED BY <1>1, <1>2, <1>3

\* A job reads the things, or the groups.
LEMMA ReadKeeps == ASSUME DragInv, Dragging!Read PROVE DragInv'
<1>0. /\ UNCHANGED <<kept, listens, drags, notices, indices, dom, dropped, adrift, failures>>
      /\ IsArranged(kept) /\ kept \in Dragging!Arrangement
      BY DEF Dragging!Read, DragInv, DragTyped, IsArranged
<1>1. CASE read = <<>> /\ job /\ job' = FALSE /\ read' = <<Dragging!Rows(kept).thing>>
             /\ UNCHANGED groupOf
      <2>1. ReadFrom'
            BY <1>0, <1>1 DEF ReadFrom
      <2>2. DragTyped'
            BY <1>0, <1>1, <2>1 DEF DragInv, DragTyped, DrawnFrom
      <2>3. Len(read') = 1 /\ read'[1] = Dragging!Rows(kept).thing
            BY <1>1
      <2>4. (Dragging!Rows(kept))' = Dragging!Rows(kept)
            BY <1>0 DEF Dragging!Rows
      <2>5. ReadIsKept'
            BY <2>3, <2>4 DEF ReadIsKept
      <2> QED BY <1>0, <2>2, <2>5 DEF DragInv, AsDrawn, Dragging!DroppedWhereShown, Dragging!Drawn
<1>2. CASE /\ Len(read) = 1
           /\ groupOf' = [t \in Tile |-> read[1][t].place]
           /\ read' = Append(read, Dragging!Rows(kept).group)
           /\ UNCHANGED job
      <2>1. PICK a \in Dragging!Arrangement : IsArranged(a) /\ read = <<Dragging!Rows(a).thing>>
            <3>1. CASE read = <<>>
                  BY <1>2, <3>1
            <3>2. CASE \E a \in Dragging!Arrangement :
                         IsArranged(a) /\ read = <<Dragging!Rows(a).thing>>
                  BY <3>2
            <3>3. CASE \E a, b \in Dragging!Arrangement : /\ IsArranged(a) /\ IsArranged(b)
                                                          /\ read = <<Dragging!Rows(a).thing,
                                                              Dragging!Rows(b).group>>
                  <4>1. PICK a, b \in Dragging!Arrangement :
                               read = <<Dragging!Rows(a).thing, Dragging!Rows(b).group>>
                        BY <3>3
                  <4>2. Len(read) = 2
                        BY <4>1, OneTwo
                  <4>3. Len(read) = 1
                        BY <1>2
                  <4> QED BY <4>2, <4>3
            <3> QED BY <3>1, <3>2, <3>3 DEF DragInv, DragTyped, ReadFrom
      <2> DEFINE x == Dragging!Rows(a).thing
                 y == Dragging!Rows(kept).group
      <2>2. read' = <<x, y>>
            <3>1. read = <<x>> /\ read' = Append(read, y)
                  BY <1>2, <2>1
            <3>2. Append(<<x>>, y) = <<x, y>>
                  BY OneTwo
            <3> HIDE DEF x, y
            <3> QED BY <3>1, <3>2
      <2>3. ReadFrom'
            BY <1>0, <2>1, <2>2 DEF ReadFrom
      <2>4. groupOf' \in [Tile -> Dragging!Place]
            <3>1. \A t \in Tile : read[1][t].place \in Dragging!Place
                  BY <2>1, RowsAre, HolderIs
            <3> QED BY <1>2, <3>1
      <2>5. DragTyped'
            BY <1>0, <1>2, <2>3, <2>4 DEF DragInv, DragTyped, DrawnFrom
      <2>6. (Dragging!Rows(kept))' = Dragging!Rows(kept)
            BY <1>0 DEF Dragging!Rows
      <2>7. NoneServed' => NoneServed
            BY <1>0, <1>2 DEF NoneServed
      <2>8. NoneServed => Dragging!Rows(a).thing = Dragging!Rows(kept).thing
            <3>1. Len(read) = 1 /\ read[1] = Dragging!Rows(a).thing
                  BY <2>1
            <3> QED BY <3>1 DEF DragInv, ReadIsKept
      <2>9. /\ Len(read') = 2 /\ read'[1] = Dragging!Rows(a).thing
            /\ read'[2] = Dragging!Rows(kept).group
            /\ read' # <<>>
            BY <2>2, OneTwo
      <2>10. ReadIsKept'
            BY <2>6, <2>7, <2>8, <2>9 DEF ReadIsKept
      <2> QED BY <1>0, <2>5, <2>10
         DEF DragInv, AsDrawn, Dragging!DroppedWhereShown, Dragging!Drawn
<1> QED BY <1>1, <1>2 DEF Dragging!Read

\* The page is drawn anew.
LEMMA RefreshKeeps == ASSUME DragInv, Dragging!RefreshThings PROVE DragInv'
<1>1. /\ Len(read) = 2
      /\ indices' = [thing |-> read[1], group |-> read[2]] /\ dom' = Dragging!Drawn(indices')
      /\ read' = <<>> /\ dropped' = <<>> /\ adrift' = FALSE
      /\ UNCHANGED <<kept, listens, drags, notices, job, groupOf, failures>>
      BY DEF Dragging!RefreshThings
<1>2. PICK a, b \in Dragging!Arrangement : IsArranged(a) /\ IsArranged(b)
                                           /\ read = <<Dragging!Rows(a).thing,
                                               Dragging!Rows(b).group>>
      <2>1. read # <<>>
            BY <1>1, OneTwo
      <2>2. \A a \in Dragging!Arrangement : read # <<Dragging!Rows(a).thing>>
            <3> SUFFICES ASSUME NEW a \in Dragging!Arrangement,
                read = <<Dragging!Rows(a).thing>> PROVE FALSE
                OBVIOUS
            <3>1. Len(read) = 1
                  BY OneTwo
            <3> QED BY <1>1, <3>1
      <2> QED BY <2>1, <2>2 DEF DragInv, DragTyped, ReadFrom
<1>3. indices' = [thing |-> Dragging!Rows(a).thing, group |-> Dragging!Rows(b).group]
      BY <1>1, <1>2
<1>4. PICK c \in Dragging!Arrangement : IsArranged(c) /\ indices' = Dragging!Rows(c)
      BY <1>2, <1>3, RowsOfTwo
<1>5. DragTyped'
      BY <1>1, <1>4 DEF DragInv, DragTyped, DrawnFrom, ReadFrom
<1>6. AsDrawn'
      BY <1>1 DEF AsDrawn, Dragging!Drawn
<1>7. Dragging!DroppedWhereShown'
      BY <1>1 DEF Dragging!DroppedWhereShown
<1>8. NoneServed' => dom' = kept
      <2>1. NoneServed' => NoneServed
            BY <1>1 DEF NoneServed
      <2>2. NoneServed
              => read[1] = Dragging!Rows(kept).thing /\ read[2] = Dragging!Rows(kept).group
            BY <1>1 DEF DragInv, ReadIsKept
      <2>3. NoneServed => indices' = Dragging!Rows(kept)
            BY <1>1, <2>2 DEF Dragging!Rows
      <2>4. Dragging!Drawn(Dragging!Rows(kept)) = kept
            BY DrawnIs DEF DragInv, DragTyped
      <2> QED BY <1>1, <2>1, <2>3, <2>4
<1>9. ReadIsKept'
      <2>1. Len(read') = 0
            BY <1>1
      <2> QED BY <1>1, <1>8, <2>1 DEF ReadIsKept
<1> QED BY <1>5, <1>6, <1>7, <1>9 DEF DragInv

\* Every step keeps the invariant.
LEMMA DragSteps == ASSUME DragInv, [Dragging!Next]_draggingVars PROVE DragInv'
<1>1. CASE UNCHANGED draggingVars
      BY ZenonT(60), <1>1
         DEF draggingVars, DragInv, DragTyped, DrawnFrom, ReadFrom, AsDrawn,
             Dragging!DroppedWhereShown,
                  ReadIsKept, NoneServed, SomeSent, Dragging!Drawn, Dragging!Rows
<1> QED BY <1>1, ThingDropped, ThingGiven, GroupDropped, CallKeeps, OtherKeeps, NoticeKeeps,
           ReadKeeps, RefreshKeeps DEF Dragging!Next

\* A finite set as a sequence: all its members, each once.
LEMMA AllInOrder ==
  ASSUME NEW S, IsFiniteSet(S)
  PROVE  /\ Dragging!SetToSeq(S) \in Seq(S) /\ Len(Dragging!SetToSeq(S)) = Cardinality(S)
         /\ Apart(Dragging!SetToSeq(S)) /\ Dragging!ToSet(Dragging!SetToSeq(S)) = S
<1> DEFINE n == Cardinality(S)
           l == Dragging!SetToSeq(S)
<1>1. n \in Nat /\ ExistsBijection(1 .. n, S)
      BY FS_CardinalityType
<1>2. \E f \in [1 .. n -> S] : IsInjective(f)
      <2> HIDE DEF n
      <2> QED BY <1>1 DEF ExistsBijection, Bijection, Injection
<1>3. l = CHOOSE f \in [1 .. n -> S] : IsInjective(f)
      BY Zenon DEF Dragging!SetToSeq, Dragging!IsInjective, IsInjective,
               Dragging!Cardinality, Cardinality
<1>4. IsFiniteSet(1 .. n) /\ Cardinality(1 .. n) = n
      BY <1>1, FS_Interval
<1>5. n = Cardinality(S)
      OBVIOUS
<1> HIDE DEF n, l
<1>6. l \in [1 .. n -> S] /\ IsInjective(l)
      BY <1>2, <1>3
<1>7. l \in Injection(1 .. n, S)
      BY <1>6 DEF Injection
<1>8. l \in Surjection(1 .. n, S)
      BY <1>4, <1>5, <1>7, FS_Injection
<1>9. Dragging!ToSet(l) = S
      BY <1>6, <1>8 DEF Surjection, Dragging!ToSet
<1>10. l \in Seq(S) /\ Len(l) = n /\ Apart(l)
      BY <1>1, <1>6 DEF IsInjective, Apart
<1> QED BY <1>5, <1>9, <1>10 DEF l

\* Each place has its number.
LEMMA ListIs ==
  /\ Cardinality(Dragging!Place) \in Nat
  /\ \A p \in Dragging!Place : Dragging!List(p) \in 1 .. Cardinality(Dragging!Place)
  /\ \A p, q \in Dragging!Place : Dragging!List(p) = Dragging!List(q) => p = q
  /\ \A k \in 1 .. Cardinality(Dragging!Place) : \E p \in Dragging!Place : Dragging!List(p) = k
<1> DEFINE l == Dragging!SetToSeq(Group)
           m == Cardinality(Dragging!Place)
<1>1. IsFiniteSet(Group) /\ NoGroup \notin Group
      BY DragBounds
<1>2. l \in Seq(Group) /\ Len(l) = Cardinality(Group) /\ Apart(l) /\ Dragging!ToSet(l) = Group
      BY <1>1, AllInOrder
<1>3. m = Len(l) + 1 /\ Len(l) \in Nat
      <2>1. Cardinality(Group \cup {NoGroup}) = Cardinality(Group) + 1
            BY <1>1, FS_AddElement
      <2>2. Cardinality(Group) \in Nat
            BY <1>1, FS_CardinalityType
      <2> QED BY <1>2, <2>1, <2>2 DEF Dragging!Place
<1>4. Dragging!List(NoGroup) = 1 /\ \A g \in Group : Dragging!List(g) = Dragging!Spot(l, g) + 1
      BY <1>1 DEF Dragging!List
<1> HIDE DEF l, m
<1>5. ASSUME NEW g \in Group
      PROVE  Dragging!Spot(l, g) \in 1 .. Len(l) /\ l[Dragging!Spot(l, g)] = g
      BY <1>2, SpotIs
<1>6. \A p \in Dragging!Place : Dragging!List(p) \in 1 .. m
      BY <1>3, <1>4, <1>5 DEF Dragging!Place
<1>7. ASSUME NEW p \in Dragging!Place, NEW q \in Dragging!Place,
      Dragging!List(p) = Dragging!List(q)
      PROVE  p = q
      <2>1. CASE p = NoGroup /\ q = NoGroup
            BY <2>1
      <2>2. CASE p = NoGroup /\ q \in Group
            BY <1>3, <1>4, <1>5, <1>7, <2>2
      <2>3. CASE p \in Group /\ q = NoGroup
            BY <1>3, <1>4, <1>5, <1>7, <2>3
      <2>4. CASE p \in Group /\ q \in Group
            <3>1. Dragging!Spot(l, p) = Dragging!Spot(l, q)
                  BY <1>3, <1>4, <1>5, <1>7, <2>4
            <3> QED BY <1>5, <2>4, <3>1
      <2> QED BY <2>1, <2>2, <2>3, <2>4 DEF Dragging!Place
<1>8. ASSUME NEW k \in 1 .. m PROVE \E p \in Dragging!Place : Dragging!List(p) = k
      <2>1. CASE k = 1
            BY <1>4, <2>1 DEF Dragging!Place
      <2>2. CASE k # 1
            <3>1. k - 1 \in DOMAIN l /\ k = (k - 1) + 1
                  BY <1>2, <1>3, <2>2
            <3>2. l[k - 1] \in Group /\ Dragging!Spot(l, l[k - 1]) = k - 1
                  BY <1>2, <3>1, SpotOf
            <3>3. Dragging!List(l[k - 1]) = k
                  BY <1>4, <3>1, <3>2
            <3> QED BY <3>2, <3>3 DEF Dragging!Place
      <2> QED BY <2>1, <2>2
<1>9. m \in Nat
      BY <1>3
<1> QED BY <1>6, <1>7, <1>8, <1>9 DEF m

\* What stands between two ends.
LEMMA CutIs ==
  ASSUME NEW l \in Seq(Tile), Apart(l), NEW i \in 0 .. Len(l), NEW j \in 0 .. Len(l), i <= j
  PROVE  /\ SubSeq(l, i + 1, j) \in Seq(Tile) /\ Apart(SubSeq(l, i + 1, j))
         /\ \A x : x \in Dragging!ToSet(SubSeq(l, i + 1, j)) <=> \E k \in i + 1 .. j : l[k] = x
<1> DEFINE s == SubSeq(l, i + 1, j)
<1>1. s \in Seq(Tile) /\ Len(s) = j - i /\ i \in Nat /\ j \in Nat
      OBVIOUS
<1>2. \A k \in 1 .. j - i : s[k] = l[k + i]
      OBVIOUS
<1> HIDE DEF s
<1>3. DOMAIN s = 1 .. j - i /\ DOMAIN l = 1 .. Len(l) /\ Len(l) \in Nat
      BY <1>1
<1>4. Apart(s)
      <2> SUFFICES ASSUME NEW a \in 1 .. j - i, NEW b \in 1 .. j - i, s[a] = s[b] PROVE a = b
          BY <1>3 DEF Apart
      <2>1. l[a + i] = l[b + i]
            BY <1>2
      <2>2. a + i \in DOMAIN l /\ b + i \in DOMAIN l
            BY <1>1, <1>3
      <2>3. a + i = b + i
            BY <2>1, <2>2 DEF Apart
      <2> QED BY <1>1, <2>3
<1>5. ASSUME NEW x PROVE x \in Dragging!ToSet(s) <=> \E k \in i + 1 .. j : l[k] = x
      <2>1. ASSUME x \in Dragging!ToSet(s) PROVE \E k \in i + 1 .. j : l[k] = x
            <3>1. PICK k \in 1 .. j - i : s[k] = x
                  BY <1>3, <2>1 DEF Dragging!ToSet
            <3>2. k + i \in i + 1 .. j
                  BY <1>1
            <3> QED BY <1>2, <3>1, <3>2
      <2>2. ASSUME NEW k \in i + 1 .. j, l[k] = x PROVE x \in Dragging!ToSet(s)
            <3>1. k - i \in 1 .. j - i /\ (k - i) + i = k
                  BY <1>1
            <3>2. s[k - i] = x
                  BY <1>2, <2>2, <3>1
            <3> QED BY <1>3, <3>1, <3>2 DEF Dragging!ToSet
      <2> QED BY <2>1, <2>2
<1> QED BY <1>1, <1>4, <1>5 DEF s

\* It starts there.
LEMMA DragStarts == Dragging!Init => DragInv
<1> SUFFICES ASSUME Dragging!Init PROVE DragInv
    OBVIOUS
<1> DEFINE m == Cardinality(Dragging!Place)
           l == Dragging!SetToSeq(Tile)
<1>1. PICK ends \in [0 .. m -> 0 .. Dragging!End] :
        /\ ends[0] = 0 /\ ends[m] = Dragging!End
        /\ \A j, k \in DOMAIN ends : j <= k => ends[j] <= ends[k]
        /\ kept = [of |-> [p \in Dragging!Place |-> SubSeq(l, ends[Dragging!List(p) - 1] + 1,
            ends[Dragging!List(p)])],
                   order |-> Dragging!SetToSeq(Group)]
      BY Zenon DEF Dragging!Init, Dragging!Cardinality, Cardinality
<1>2. IsFiniteSet(Tile) /\ IsFiniteSet(Group)
      BY DragBounds
<1>3. l \in Seq(Tile) /\ Len(l) = Dragging!End /\ Apart(l) /\ Dragging!ToSet(l) = Tile
        /\ Dragging!End \in Nat
      BY <1>2, AllInOrder, EndCounts
<1>4. /\ Dragging!SetToSeq(Group) \in Seq(Group) /\ Apart(Dragging!SetToSeq(Group))
      /\ Dragging!ToSet(Dragging!SetToSeq(Group)) = Group
      BY <1>2, AllInOrder
<1>5. /\ m \in Nat
      /\ \A p \in Dragging!Place : Dragging!List(p) \in 1 .. m
      /\ \A p, q \in Dragging!Place : Dragging!List(p) = Dragging!List(q) => p = q
      /\ \A k \in 1 .. m : \E p \in Dragging!Place : Dragging!List(p) = k
      BY ListIs
<1> DEFINE starts(p) == ends[Dragging!List(p) - 1]
           stops(p) == ends[Dragging!List(p)]
<1> HIDE DEF m, l
<1>6. ASSUME NEW p \in Dragging!Place
      PROVE  starts(p) \in 0 .. Len(l) /\ stops(p) \in 0 .. Len(l) /\ starts(p) <= stops(p)
      <2>1. Dragging!List(p) \in Nat /\ Dragging!List(p) - 1 \in 0 .. m
              /\ Dragging!List(p) \in 0 .. m
            BY <1>5
      <2>2. Dragging!List(p) - 1 \in DOMAIN ends /\ Dragging!List(p) \in DOMAIN ends
              /\ Dragging!List(p) - 1 <= Dragging!List(p)
            BY <1>1, <2>1
      <2>3. ends[Dragging!List(p) - 1] <= ends[Dragging!List(p)]
            BY <1>1, <2>2
      <2> QED BY <1>1, <1>3, <2>1, <2>3
<1>7. kept.order = Dragging!SetToSeq(Group)
        /\ kept.of = [p \in Dragging!Place |-> SubSeq(l, starts(p) + 1, stops(p))]
      BY <1>1
<1>8. ASSUME NEW p \in Dragging!Place
      PROVE  /\ kept.of[p] \in Seq(Tile) /\ Apart(kept.of[p])
             /\ \A x : x \in Dragging!ToSet(kept.of[p]) <=> \E k \in starts(p) + 1 .. stops(p) :
                 l[k] = x
      <2> DEFINE i == starts(p)
                 j == stops(p)
      <2>1. kept.of[p] = SubSeq(l, i + 1, j)
            BY <1>7
      <2>2. i \in 0 .. Len(l) /\ j \in 0 .. Len(l) /\ i <= j
            BY <1>6
      <2> HIDE DEF i, j
      <2>3. /\ SubSeq(l, i + 1, j) \in Seq(Tile) /\ Apart(SubSeq(l, i + 1, j))
            /\ \A x : x \in Dragging!ToSet(SubSeq(l, i + 1, j)) <=> \E k \in i + 1 .. j : l[k] = x
            BY <1>3, <2>2, CutIs
      <2> QED BY <2>1, <2>3 DEF i, j
<1>9. kept \in Dragging!Arrangement
      <2>1. kept.of \in [Dragging!Place -> Seq(Tile)]
            BY <1>7, <1>8
      <2>2. kept = [of |-> kept.of, order |-> kept.order]
            BY <1>1
      <2> QED BY <1>4, <1>7, <2>1, <2>2 DEF Dragging!Arrangement
<1> HIDE DEF starts, stops
<1>10. ASSUME NEW t \in Tile PROVE \E p \in Dragging!Place : t \in Dragging!ToSet(kept.of[p])
      <2>1. PICK i \in 1 .. Dragging!End : l[i] = t
            BY <1>3 DEF Dragging!ToSet
      <2> DEFINE K == {k \in 0 .. m : i <= ends[k]}
      <2>2. m \in K /\ K \subseteq Nat
            BY <1>1, <1>3, <1>5, <2>1
      <2>3. PICK k \in K : \A j \in K : k <= j
            BY <2>2, NatMin
      <2>4. k # 0
            BY <1>1, <1>3, <2>1, <2>3
      <2>5. k \in 1 .. m /\ k - 1 \in 0 .. m /\ k - 1 \notin K
            BY <1>5, <2>3, <2>4
      <2>6. ends[k - 1] \in Nat /\ ends[k] \in Nat /\ ends[k - 1] < i /\ i <= ends[k]
            BY <1>1, <1>3, <2>1, <2>3, <2>5
      <2>7. PICK p \in Dragging!Place : Dragging!List(p) = k
            BY <1>5, <2>5
      <2>8. i \in starts(p) + 1 .. stops(p)
            BY <2>1, <2>6, <2>7 DEF starts, stops
      <2> QED BY <1>8, <2>1, <2>8
<1>11. ASSUME NEW p \in Dragging!Place, NEW q \in Dragging!Place,
       NEW t \in Dragging!ToSet(kept.of[p]),
              t \in Dragging!ToSet(kept.of[q]), Dragging!List(p) < Dragging!List(q)
       PROVE  FALSE
      <2>1. PICK a \in starts(p) + 1 .. stops(p) : l[a] = t
            BY <1>8
      <2>2. PICK b \in starts(q) + 1 .. stops(q) : l[b] = t
            BY <1>8, <1>11
      <2>3. /\ starts(p) \in 0 .. Len(l) /\ stops(p) \in 0 .. Len(l)
            /\ starts(q) \in 0 .. Len(l) /\ stops(q) \in 0 .. Len(l) /\ Len(l) \in Nat
            BY <1>3, <1>6
      <2>4. a \in DOMAIN l /\ b \in DOMAIN l
            BY <1>3, <2>1, <2>2, <2>3
      <2>5. a = b
            BY <1>3, <2>1, <2>2, <2>4 DEF Apart
      <2>6. stops(p) <= starts(q)
            <3>1. Dragging!List(p) \in Nat /\ Dragging!List(q) \in Nat
                    /\ Dragging!List(p) <= Dragging!List(q) - 1
                  BY <1>5, <1>11
            <3>2. Dragging!List(p) \in 0 .. m /\ Dragging!List(q) - 1 \in 0 .. m
                  BY <1>5, <1>11
            <3> QED BY <1>1, <3>1, <3>2 DEF starts, stops
      <2> QED BY <2>1, <2>2, <2>3, <2>5, <2>6
<1>12. ASSUME NEW p \in Dragging!Place, NEW q \in Dragging!Place, NEW t \in Tile,
              t \in Dragging!ToSet(kept.of[p]), t \in Dragging!ToSet(kept.of[q])
       PROVE  p = q
      <2>1. ~(Dragging!List(p) < Dragging!List(q)) /\ ~(Dragging!List(q) < Dragging!List(p))
            BY <1>11, <1>12
      <2>2. Dragging!List(p) = Dragging!List(q)
            BY <1>5, <2>1
      <2> QED BY <1>5, <2>2
<1>13. IsArranged(kept)
      BY <1>4, <1>7, <1>8, <1>9, <1>10, <1>12 DEF IsArranged
<1>14. /\ drags = <<>> /\ notices = 0 /\ job = FALSE /\ read = <<>>
       /\ groupOf = [t \in Tile |-> Dragging!Holder(kept, t)]
       /\ indices = Dragging!Rows(kept) /\ dom = Dragging!Drawn(indices)
       /\ dropped = <<>> /\ adrift = FALSE
      BY DEF Dragging!Init
<1>15. groupOf \in [Tile -> Dragging!Place]
      BY <1>13, <1>14, HolderIs
<1>16. DragTyped
      <2>1. DrawnFrom /\ ReadFrom
            BY <1>9, <1>13, <1>14 DEF DrawnFrom, ReadFrom
      <2>2. drags \in Seq(DragCall)
            BY <1>14
      <2>3. notices \in Nat /\ job \in BOOLEAN /\ adrift \in BOOLEAN
            BY <1>14
      <2> QED BY <1>13, <1>15, <2>1, <2>2, <2>3 DEF DragTyped
<1>17. dom = kept
      BY <1>13, <1>14, DrawnIs
<1>18. AsDrawn /\ Dragging!DroppedWhereShown
      BY <1>14, OneTwo DEF AsDrawn, Dragging!DroppedWhereShown
<1>19. ReadIsKept
      BY <1>14, <1>17, OneTwo DEF ReadIsKept
<1> QED BY <1>16, <1>18, <1>19 DEF DragInv

\* A step is a step of what is dragged, or leaves it alone.
LEMMA DragMoves == [ShellNext]_shellVars => [Dragging!Next]_draggingVars
BY DEF ShellNext, shellVars, draggingVars

\* What is dragged: as long as no drop threw and no request failed since the page was drawn, the
\* first drop goes where the gateway is asked to put it, and once nothing is under way the page
\* shows the gateway's arrangement; for any things, groups, moves and failures, in any order
\* (ThingsScreen.handleDrop, Thing.handleDrop, Group.handleDrop).
THEOREM DragIsInPlace == ShellSpec => []Dragging!InPlace
<1>1. ShellInit => DragInv
      BY DragStarts DEF ShellInit
<1>2. DragInv /\ [ShellNext]_shellVars => DragInv'
      BY DragMoves, DragSteps
<1> QED BY <1>1, <1>2, DragTells, PTL DEF ShellSpec

\* Everything is in its place: what is dragged goes where the page shows it, the page shows the
\* thing or the list whose address is open, and the plan shows things where they are.
THEOREM ThingsAreInPlace == ShellSpec => []InPlace
<1>1. Dragging!InPlace /\ Screen!ShowsWhatIsOpen /\ Plan!PlanHolds => InPlace
      BY DEF InPlace
<1> QED BY <1>1, DragIsInPlace, ScreenIsRight, PlanIsRight, PTL
===============================================================================
