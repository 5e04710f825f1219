---------------------------- MODULE MCPages_proofs ----------------------------
(***************************************************************************)
(* What the pages of MCPages keep for every value of the constants: visits *)
(* to the screen of new things are kept apart, the forms of the settings   *)
(* and of the users show and send what belongs in them, and the pages of   *)
(* the add-ons show what the gateway has.  Each part has an inductive      *)
(* invariant of its own; a step of PagesSpec is a step of one part and     *)
(* leaves the others alone, so each invariant holds of it.                 *)
(***************************************************************************)
EXTENDS MCPages, TLAPS, FiniteSetTheorems, SequenceTheorems, WellFoundedInduction

\* The k-th of a set of numbers.
NthOf(K, k) == CHOOSE i \in K : Cardinality({j \in K : j <= i}) = k

\* Each number of a finite set is the k-th of it, for one k.
LEMMA EachIsNth ==
  ASSUME NEW K, K \subseteq Nat, IsFiniteSet(K)
  PROVE  /\ Cardinality(K) \in Nat
         /\ \A k \in 1 .. Cardinality(K) : NthOf(K, k) \in K
         /\ \A i \in K : \E k \in 1 .. Cardinality(K) : NthOf(K, k) = i
<1> DEFINE upto(i) == {j \in K : j <= i}
           nth(k) == CHOOSE i \in K : Cardinality(upto(i)) = k
<1>1. K \subseteq Nat
      OBVIOUS
<1>3. IsFiniteSet(K) /\ Cardinality(K) \in Nat
      BY FS_CardinalityType
<1>4. \A i \in K : upto(i) \subseteq K /\ IsFiniteSet(upto(i)) /\ i \in upto(i)
      BY <1>1, <1>3, FS_Subset
<1>5. ASSUME NEW i \in K PROVE Cardinality(upto(i)) \in 1 .. Cardinality(K)
      <2>1. Cardinality(upto(i)) \in Nat /\ Cardinality(upto(i)) <= Cardinality(K)
            BY <1>3, <1>4, FS_Subset, FS_CardinalityType
      <2>2. Cardinality(upto(i)) # 0
            BY <1>4, FS_EmptySet
      <2> QED BY <1>3, <2>1, <2>2
<1>6. ASSUME NEW i \in K, NEW j \in K, i < j PROVE Cardinality(upto(i)) < Cardinality(upto(j))
      <2>0. i \in Nat /\ j \in Nat /\ \A k \in K : k \in Nat
            BY <1>1
      <2>1. \A k \in K : k <= i => k <= j
            BY <1>6, <2>0
      <2>2. ~(j <= i) /\ j <= j
            BY <1>6, <2>0
      <2>3. upto(i) \subseteq upto(j) /\ j \notin upto(i) /\ j \in upto(j)
            BY <2>1, <2>2
      <2>4. upto(i) # upto(j)
            BY <2>3
      <2>5. IsFiniteSet(upto(j)) /\ Cardinality(upto(i)) \in Nat /\ Cardinality(upto(j)) \in Nat
            BY <1>4, FS_CardinalityType
      <2>6. Cardinality(upto(i)) <= Cardinality(upto(j))
              /\ Cardinality(upto(i)) # Cardinality(upto(j))
            <3> HIDE DEF upto
            <3> QED BY <2>3, <2>4, <2>5, FS_Subset
      <2> HIDE DEF upto
      <2> QED BY <2>5, <2>6
<1>7. ASSUME NEW i \in K PROVE nth(Cardinality(upto(i))) = i
      <2>1. \A j \in K : Cardinality(upto(j)) = Cardinality(upto(i)) => j = i
            <3> SUFFICES ASSUME NEW j \in K, Cardinality(upto(j)) = Cardinality(upto(i)),
                j # i PROVE FALSE
                OBVIOUS
            <3>1. i < j \/ j < i
                  BY <1>1
            <3> HIDE DEF upto
            <3>2. Cardinality(upto(i)) \in Nat /\ Cardinality(upto(j)) \in Nat
                  BY <1>5, <1>3
            <3>3. Cardinality(upto(i)) < Cardinality(upto(j))
                    \/ Cardinality(upto(j)) < Cardinality(upto(i))
                  BY <1>6, <3>1
            <3> QED BY <3>2, <3>3
      <2> HIDE DEF upto
      <2> QED BY <2>1
<1>8. ASSUME NEW k \in 1 .. Cardinality(K) PROVE nth(k) \in K
      <2> DEFINE n == Cardinality(K)
                 f == [i \in K |-> Cardinality(upto(i))]
      <2>1. n \in Nat /\ IsFiniteSet(1 .. n) /\ Cardinality(1 .. n) = n
            BY <1>3, FS_Interval
      <2>2. \A i, j \in K : Cardinality(upto(i)) = Cardinality(upto(j)) => i = j
            <3> SUFFICES ASSUME NEW i \in K, NEW j \in K,
            Cardinality(upto(i)) = Cardinality(upto(j)) PROVE i = j
                OBVIOUS
            <3>1. nth(Cardinality(upto(i))) = i /\ nth(Cardinality(upto(j))) = j
                  BY <1>7
            <3> HIDE DEF upto, nth
            <3> QED BY <3>1
      <2>3. f \in Injection(K, 1 .. n)
            <3> HIDE DEF upto, n
            <3>1. \A i \in K : Cardinality(upto(i)) \in 1 .. n
                  BY <1>5 DEF n
            <3> QED BY <2>2, <3>1 DEF Injection, IsInjective
      <2>4. f \in Surjection(K, 1 .. n)
            <3> HIDE DEF upto, f
            <3> QED BY <2>1, <2>3, FS_Injection
      <2>5. \E i \in K : Cardinality(upto(i)) = k
            <3> HIDE DEF upto
            <3> QED BY <2>4 DEF Surjection
      <2> HIDE DEF upto
      <2> QED BY <2>5
<1>9. \A k : nth(k) = NthOf(K, k)
      BY DEF NthOf
<1> HIDE DEF upto, nth
<1> QED BY <1>3, <1>5, <1>7, <1>8, <1>9

\* A set of numbers that is not empty has a least one.
LEMMA NatMin ==
  ASSUME NEW T, T \subseteq Nat, T # {}
  PROVE  \E x \in T : \A y \in T : x <= y
<1> DEFINE R == OpToRel(<, Nat)
<1>1. IsWellFoundedOn(R, Nat)
      BY NatLessThanWellFounded, Zenon
<1>2. \A x, y \in Nat : <<y, x>> \in R <=> y < x
      BY DEF OpToRel
<1> HIDE DEF R
<1>3. PICK x \in T : \A y \in T : ~(<<y, x>> \in R)
      BY <1>1, WFMin, Zenon
<1>4. \A y \in T : ~(y < x)
      BY <1>2, <1>3, Zenon
<1>5. \A y \in T : x <= y
      BY <1>4
<1> QED BY <1>5

-----------------------------------------------------------------------------
(* Visits to the screen of new things (NewThings).                         *)
\* What the constants of the screen of new things are.
LEMMA AddingBounds == Adding!NewThingsAssumption
BY PagesAssumption DEF PagesAssumption

\* The requests of the page.
CallKinds == {"pair", "cancel", "save", "pin", "login", "web"}
CallStates == {"sent", "done", "refused"}
PageCalls == [do : CallKinds, n : Nat, thing : Adding!Offered \union {"none"}, state : CallStates]

\* What is of which type; a device with a card was heard of.
VisitsTyped ==
  /\ posts \subseteq PageCalls /\ entry \in Nat /\ actionUrl \in Nat /\ (adding => entry # 0)
  /\ announced \subseteq Device /\ DOMAIN offers \subseteq Adding!Offered
  /\ DOMAIN offers \cap Device \subseteq visible

\* How far the visit is with its session.
Pairs == {c \in posts : c.do \in {"pair", "cancel"}}
PairCall(do, s) == [do |-> do, n |-> entry, thing |-> "none", state |-> s]
SocketOpen == /\ socket = entry /\ entry \in connecting \union listening
              /\ connecting \union listening \subseteq {entry}
SocketShut == connecting = {} /\ listening = {}
PairingAsked == /\ adding /\ Pairs = {PairCall("pair", "sent")} /\ actionUrl = 0 /\ timers = {}
                /\ session = 0
                /\ SocketOpen
PairingBegun  == /\ adding /\ Pairs = {PairCall("pair", "done")} /\ actionUrl = 0 /\ timers = {}
                 /\ session \in {0, entry} /\ entry \in actions /\ SocketOpen
PairingRuns   == /\ adding /\ Pairs = {} /\ actionUrl = entry /\ timers = {entry}
                 /\ timeout = entry
                 /\ session \in {0, entry} /\ entry \in actions /\ SocketOpen
PairingEnds == /\ Pairs = {PairCall("cancel", "sent")} /\ actionUrl = entry /\ timers = {}
               /\ session \in {0, entry} /\ entry \in actions /\ SocketShut
PairingEnded  == /\ Pairs = {PairCall("cancel", "done")} /\ actionUrl = entry /\ timers = {}
                 /\ session = 0
                 /\ SocketShut
NoneLeft   == Pairs = {} /\ actionUrl = 0 /\ timers = {} /\ session = 0 /\ SocketShut
VisitPhase == PairingAsked \/ PairingBegun \/ PairingRuns \/ PairingEnds \/ PairingEnded
    \/ NoneLeft

\* What is being saved, and what is heard of.
SavesKept ==
  /\ \A c \in posts : c.do = "save" =>
       /\ adding /\ c.n = entry /\ c.thing \in DOMAIN offers /\ offers[c.thing] = "saving"
       /\ c.state = "done" => c.thing \in stored
       /\ c.state # "done" /\ c.thing \in Device => c.thing \notin stored
  /\ \A c, e \in posts : c.do = "save" /\ e.do = "save" /\ c.thing = e.thing => c = e
NewsFresh == \A m \in finds :
    m[1] \in listening /\ m[2] \in Device /\ (m[2] \in stored => m[2] \in visible)

\* The inductive invariant of the visits.
VisitsInv == VisitsTyped
    /\ (~Hasty => VisitPhase /\ SavesKept /\ NewsFresh /\ Adding!OffersWhatIsNew)

\* What the invariant says of the visits.
LEMMA VisitsAreApart == VisitsInv /\ ~Hasty => Adding!VisitsKeptApart
<1> SUFFICES ASSUME VisitsInv, ~Hasty PROVE Adding!LeavesNothing /\ Adding!OwnTimer
    BY DEF VisitsInv, Adding!VisitsKeptApart
<1>1. VisitPhase
      BY DEF VisitsInv
<1>2. posts = {} => Pairs = {}
      BY DEF Pairs
<1>3. posts = {} => PairingRuns \/ NoneLeft
      BY <1>1, <1>2 DEF VisitPhase, PairingAsked, PairingBegun, PairingEnds, PairingEnded
<1> QED BY <1>3
   DEF Adding!LeavesNothing, Adding!OwnTimer, PairingRuns, NoneLeft, SocketOpen, SocketShut

\* The invariant holds at first.
LEMMA VisitsStart == Adding!Init => VisitsInv
<1> SUFFICES ASSUME Adding!Init PROVE VisitsInv
    OBVIOUS
<1>1. posts = {} /\ Pairs = {} /\ DOMAIN offers = {} /\ finds = {} /\ adding = FALSE
      BY DEF Adding!Init, Adding!NoCards, Pairs
<1>2. VisitsTyped
      BY <1>1 DEF Adding!Init, VisitsTyped
<1>3. VisitPhase
      BY <1>1 DEF Adding!Init, VisitPhase, NoneLeft, SocketShut
<1>4. SavesKept /\ NewsFresh /\ Adding!OffersWhatIsNew
      BY <1>1 DEF SavesKept, NewsFresh, Adding!OffersWhatIsNew
<1> QED BY <1>2, <1>3, <1>4 DEF VisitsInv

\* The session goes on as it was.
LEMMA PhaseStays ==
  ASSUME VisitPhase, Pairs' = Pairs, session' \in {session, 0},
         connecting' \union listening' = connecting \union listening,
         UNCHANGED <<actions, adding, entry, socket, actionUrl, timeout, timers>>
  PROVE  VisitPhase'
<1>1. \A do, s : PairCall(do, s)' = PairCall(do, s)
      BY DEF PairCall
<1>2. SocketOpen => SocketOpen'
      BY DEF SocketOpen
<1>3. SocketShut => SocketShut'
      BY DEF SocketShut
<1>4. PairingAsked => PairingAsked'
      BY <1>1, <1>2 DEF PairingAsked
<1>5. PairingBegun => PairingBegun'
      BY <1>1, <1>2 DEF PairingBegun
<1>6. PairingRuns => PairingRuns'
      BY <1>2 DEF PairingRuns
<1>7. PairingEnds => PairingEnds'
      BY <1>1, <1>3 DEF PairingEnds
<1>8. PairingEnded => PairingEnded'
      BY <1>1, <1>3 DEF PairingEnded
<1>9. NoneLeft => NoneLeft'
      BY <1>3 DEF NoneLeft
<1> QED BY <1>4, <1>5, <1>6, <1>7, <1>8, <1>9 DEF VisitPhase

\* A request is served.
LEMMA CallServed ==
  ASSUME VisitsTyped, NEW c \in posts, NEW s \in CallStates,
         posts' = (posts \ {c}) \union {[c EXCEPT !.state = s]}
  PROVE  /\ posts' \subseteq PageCalls
         /\ c.do \notin {"pair", "cancel"} => Pairs' = Pairs
         /\ Pairs = {c} /\ c.do \in {"pair", "cancel"} => Pairs' = {[c EXCEPT !.state = s]}
         /\ \A e \in posts' :
             (e \in posts /\ e # c)
                 \/ (e.do = c.do /\ e.n = c.n /\ e.thing = c.thing /\ e.state = s)
<1>1. c \in PageCalls
      BY DEF VisitsTyped
<1>2. PICK e : e = [c EXCEPT !.state = s]
      OBVIOUS
<1>3. e \in PageCalls /\ e.do = c.do /\ e.n = c.n /\ e.thing = c.thing /\ e.state = s
      BY <1>1, <1>2 DEF PageCalls
<1>4. posts' = (posts \ {c}) \union {e}
      BY <1>2
<1>5. posts' \subseteq PageCalls
      BY <1>3, <1>4 DEF VisitsTyped
<1>6. c.do \notin {"pair", "cancel"} => Pairs' = Pairs
      BY <1>3, <1>4 DEF Pairs
<1>7. Pairs = {c} /\ c.do \in {"pair", "cancel"} => Pairs' = {e}
      BY <1>3, <1>4 DEF Pairs
<1> QED BY <1>2, <1>3, <1>4, <1>5, <1>6, <1>7

\* A visit begins.
LEMMA ShowKeeps == VisitsInv /\ Adding!Show => VisitsInv'
<1> SUFFICES ASSUME VisitsInv, Adding!Show PROVE VisitsInv'
    OBVIOUS
<1>1. VisitsTyped /\ (~Hasty => VisitPhase /\ SavesKept /\ NewsFresh /\ Adding!OffersWhatIsNew)
      BY DEF VisitsInv
<1>2. /\ ~adding /\ (Hasty \/ posts = {}) /\ adding' = TRUE /\ entry' = entry + 1 /\ visible' = {}
      /\ offers' = Adding!NoCards /\ socket' = entry + 1
      /\ connecting' = connecting \union {entry + 1}
      /\ UNCHANGED <<actions, session, announced, stored, listening, finds, actionUrl, timeout,
          timers>>
      BY DEF Adding!Show, Adding!Found
<1>3. PICK c : c = Adding!Call("pair", entry + 1, "none")
      OBVIOUS
<1>4. posts' = posts \union {c} /\ c \in PageCalls /\ c.do = "pair"
      BY <1>1, <1>2, <1>3
         DEF Adding!Show, Adding!Call, PageCalls, CallKinds, CallStates, VisitsTyped
<1>5. c = PairCall("pair", "sent")'
      BY <1>2, <1>3 DEF Adding!Call, PairCall
<1>6. DOMAIN offers' = {}
      BY <1>2 DEF Adding!NoCards
<1>7. VisitsTyped'
      BY <1>1, <1>2, <1>4, <1>6 DEF VisitsTyped
<1>8. ASSUME ~Hasty PROVE VisitPhase' /\ SavesKept' /\ NewsFresh' /\ Adding!OffersWhatIsNew'
      <2>1. posts = {} /\ Pairs = {}
            BY <1>2, <1>8 DEF Pairs
      <2>2. NoneLeft
            BY <1>1, <1>2, <1>8, <2>1
               DEF VisitPhase, PairingAsked, PairingBegun, PairingRuns, PairingEnds, PairingEnded
      <2>3. Pairs' = {c}
            BY <1>4, <2>1 DEF Pairs
      <2>4. PairingAsked'
            BY <1>2, <1>5, <2>2, <2>3 DEF PairingAsked, NoneLeft, SocketOpen, SocketShut
      <2>5. SavesKept'
            BY <1>4, <2>1 DEF SavesKept
      <2>6. NewsFresh'
            BY <1>1, <1>2, <1>8, <2>2 DEF NewsFresh, NoneLeft, SocketShut
      <2>7. Adding!OffersWhatIsNew'
            BY <1>6 DEF Adding!OffersWhatIsNew
      <2> QED BY <2>4, <2>5, <2>6, <2>7 DEF VisitPhase
<1> QED BY <1>7, <1>8 DEF VisitsInv

\* The pair action is made.
LEMMA StartedKeeps == ASSUME VisitsInv, NEW c \in posts, Adding!Started(c) PROVE VisitsInv'
<1>1. VisitsTyped /\ (~Hasty => VisitPhase /\ SavesKept /\ NewsFresh /\ Adding!OffersWhatIsNew)
      BY DEF VisitsInv
<1>2. /\ c.do = "pair" /\ c.state # "sent" /\ posts' = posts \ {c} /\ actionUrl' = c.n
      /\ timeout' = c.n /\ timers' = timers \union {c.n}
      /\ UNCHANGED <<actions, session, announced, stored, connecting, listening, finds, adding,
          entry, socket, visible, offers>>
      BY DEF Adding!Started, Adding!Found, Adding!Sockets, Adding!Cards
<1>3. VisitsTyped'
      BY <1>1, <1>2 DEF VisitsTyped, PageCalls
<1>4. ASSUME ~Hasty PROVE VisitPhase' /\ SavesKept' /\ NewsFresh' /\ Adding!OffersWhatIsNew'
      <2>1. c \in Pairs /\ Pairs' = Pairs \ {c}
            BY <1>2 DEF Pairs
      <2>2. \A s :
              PairCall("pair", s).state = s /\ PairCall("pair", s).n = entry
                  /\ PairCall("cancel", s).do = "cancel"
            BY DEF PairCall
      <2>3. PairingBegun
            BY <1>1, <1>2, <1>4, <2>1, <2>2
               DEF VisitPhase, PairingAsked, PairingRuns, PairingEnds, PairingEnded, NoneLeft
      <2>4. c = PairCall("pair", "done")
            BY <2>1, <2>3 DEF PairingBegun
      <2>5. Pairs' = {} /\ c.n = entry
            BY <2>1, <2>2, <2>3, <2>4 DEF PairingBegun
      <2>6. PairingRuns'
            BY <1>2, <2>3, <2>5 DEF PairingBegun, PairingRuns, SocketOpen
      <2>7. SavesKept'
            BY <1>1, <1>2, <1>4 DEF SavesKept
      <2>8. NewsFresh' /\ Adding!OffersWhatIsNew'
            BY <1>1, <1>2, <1>4 DEF NewsFresh, Adding!OffersWhatIsNew
      <2> QED BY <2>6, <2>7, <2>8 DEF VisitPhase
<1> QED BY <1>3, <1>4 DEF VisitsInv

\* The session is cancelled, by the timer or as the screen is left.
LEMMA CancelRequested ==
  ASSUME VisitsInv, NEW still, NEW handle, Adding!RequestCancel(still, handle),
         UNCHANGED <<actions, session, announced, stored, entry, actionUrl, visible, offers>>,
         adding' => adding,
         ~Hasty => \/ PairingRuns /\ still \subseteq {entry} /\ still \ {handle} = {}
                       /\ (adding' = adding \/ posts = {})
                   \/ NoneLeft /\ still = {} /\ posts = {}
  PROVE  VisitsInv'
<1>1. VisitsTyped /\ (~Hasty => VisitPhase /\ SavesKept /\ NewsFresh /\ Adding!OffersWhatIsNew)
      BY DEF VisitsInv
<1>2. /\ timers' = still \ {handle} /\ timeout' = 0 /\ connecting' = connecting \ {socket}
      /\ listening' = listening \ {socket} /\ finds' = {m \in finds : m[1] # socket}
          /\ socket' = 0
      /\ posts' = IF actionUrl = 0 THEN posts
          ELSE posts \union {Adding!Call("cancel", actionUrl, "none")}
      BY DEF Adding!RequestCancel
<1>3. PICK c : c = Adding!Call("cancel", actionUrl, "none")
      OBVIOUS
<1>4. c \in PageCalls /\ c.do = "cancel"
        /\ posts' = IF actionUrl = 0 THEN posts ELSE posts \union {c}
      BY <1>1, <1>2, <1>3 DEF Adding!Call, PageCalls, CallKinds, CallStates, VisitsTyped
<1>5. VisitsTyped'
      BY <1>1, <1>4 DEF VisitsTyped
<1>6. ASSUME ~Hasty PROVE VisitPhase' /\ SavesKept' /\ NewsFresh' /\ Adding!OffersWhatIsNew'
      <2>1. PairingRuns \/ NoneLeft
            BY <1>6
      <2>2. NewsFresh'
            BY <1>1, <1>2, <1>6 DEF NewsFresh
      <2>3. Adding!OffersWhatIsNew'
            BY <1>1, <1>6 DEF Adding!OffersWhatIsNew
      <2>4. SavesKept'
            BY <1>1, <1>4, <1>6 DEF SavesKept
      <2>5. CASE PairingRuns /\ still \ {handle} = {}
            <3>1. entry # 0 /\ actionUrl = entry
                  BY <1>1, <2>5 DEF PairingRuns, VisitsTyped
            <3>2. c = PairCall("cancel", "sent")'
                  BY <1>3, <3>1 DEF Adding!Call, PairCall
            <3>3. Pairs' = {c}
                  BY <1>4, <2>5, <3>1 DEF PairingRuns, Pairs
            <3>4. PairingEnds'
                  BY <1>2, <2>5, <3>1, <3>2, <3>3
                     DEF PairingRuns, PairingEnds, SocketOpen, SocketShut
            <3> QED BY <2>2, <2>3, <2>4, <3>4 DEF VisitPhase
      <2>6. CASE NoneLeft /\ still = {}
            <3>1. Pairs' = {}
                  BY <1>4, <2>6 DEF NoneLeft, Pairs
            <3>2. NoneLeft'
                  BY <1>2, <2>6, <3>1 DEF NoneLeft, SocketShut
            <3> QED BY <2>2, <2>3, <2>4, <3>2 DEF VisitPhase
      <2> QED BY <1>6, <2>5, <2>6
<1> QED BY <1>5, <1>6 DEF VisitsInv

\* The timer of a visit fires.
LEMMA FiresKeeps == ASSUME VisitsInv, NEW n \in Nat, Adding!Fires(n) PROVE VisitsInv'
<1>1. n \in timers /\ Adding!RequestCancel(timers \ {n}, 0)
      /\ UNCHANGED <<actions, session, announced, stored, adding, entry, actionUrl, visible,
          offers>>
      BY DEF Adding!Fires, Adding!Found, Adding!Cards
<1>2. ~Hasty => PairingRuns
      BY <1>1
         DEF VisitsInv, VisitPhase, PairingAsked, PairingBegun, PairingEnds, PairingEnded,
             NoneLeft
<1>3. ~Hasty => PairingRuns /\ timers \ {n} \subseteq {entry} /\ (timers \ {n}) \ {0} = {}
      BY <1>1, <1>2 DEF PairingRuns
<1> QED BY <1>1, <1>3, CancelRequested

\* The screen is left.
LEMMA HideKeeps == VisitsInv /\ Adding!Hide => VisitsInv'
<1> SUFFICES ASSUME VisitsInv, Adding!Hide PROVE VisitsInv'
    OBVIOUS
<1>1. (Hasty \/ posts = {}) /\ adding' = FALSE /\ Adding!RequestCancel(timers, timeout)
      /\ UNCHANGED <<actions, session, announced, stored, entry, actionUrl, visible, offers>>
      BY DEF Adding!Hide, Adding!Found, Adding!Cards
<1>2. ~Hasty => Pairs = {} /\ posts = {}
      BY <1>1 DEF Pairs
<1>3. ~Hasty => PairingRuns \/ NoneLeft
      BY <1>2 DEF VisitsInv, VisitPhase, PairingAsked, PairingBegun, PairingEnds, PairingEnded
<1>4. ~Hasty => \/ PairingRuns /\ timers \subseteq {entry} /\ timers \ {timeout} = {}
                    /\ posts = {}
                \/ NoneLeft /\ timers = {} /\ posts = {}
      BY <1>2, <1>3 DEF PairingRuns, NoneLeft
<1> QED BY <1>1, <1>4, CancelRequested

\* The pair action is gone.
LEMMA CancelledKeeps == ASSUME VisitsInv, NEW c \in posts, Adding!Cancelled(c) PROVE VisitsInv'
<1>1. VisitsTyped /\ (~Hasty => VisitPhase /\ SavesKept /\ NewsFresh /\ Adding!OffersWhatIsNew)
      BY DEF VisitsInv
<1>2. /\ c.do = "cancel" /\ c.state # "sent" /\ posts' = posts \ {c}
      /\ actionUrl' = IF c.state = "done" THEN 0 ELSE actionUrl
      /\ UNCHANGED <<actions, session, announced, stored, connecting, listening, finds, adding,
          entry, socket,
                     timeout, timers, visible, offers>>
      BY DEF Adding!Cancelled, Adding!Found, Adding!Sockets, Adding!Cards
<1>3. VisitsTyped'
      BY <1>1, <1>2 DEF VisitsTyped
<1>4. ASSUME ~Hasty PROVE VisitPhase' /\ SavesKept' /\ NewsFresh' /\ Adding!OffersWhatIsNew'
      <2>1. c \in Pairs /\ Pairs' = Pairs \ {c}
            BY <1>2 DEF Pairs
      <2>2. \A s : PairCall("cancel", s).state = s /\ PairCall("pair", s).do = "pair"
            BY DEF PairCall
      <2>3. PairingEnded
            BY <1>1, <1>2, <1>4, <2>1, <2>2
               DEF VisitPhase, PairingAsked, PairingBegun, PairingRuns, PairingEnds, NoneLeft
      <2>4. c = PairCall("cancel", "done") /\ Pairs' = {}
            BY <2>1, <2>3 DEF PairingEnded
      <2>5. NoneLeft'
            BY <1>2, <2>2, <2>3, <2>4 DEF PairingEnded, NoneLeft, SocketShut
      <2>7. SavesKept'
            BY <1>1, <1>2, <1>4 DEF SavesKept
      <2>8. NewsFresh' /\ Adding!OffersWhatIsNew'
            BY <1>1, <1>2, <1>4 DEF NewsFresh, Adding!OffersWhatIsNew
      <2> QED BY <2>5, <2>7, <2>8 DEF VisitPhase
<1> QED BY <1>3, <1>4 DEF VisitsInv

\* The gateway makes a pair action.
LEMMA ServePairKeeps == ASSUME VisitsInv, NEW c \in posts, Adding!ServePair(c) PROVE VisitsInv'
<1>1. VisitsTyped /\ (~Hasty => VisitPhase /\ SavesKept /\ NewsFresh /\ Adding!OffersWhatIsNew)
      BY DEF VisitsInv
<1>2. /\ c.do = "pair" /\ c.state = "sent"
      /\ posts' = (posts \ {c}) \union {[c EXCEPT !.state = "done"]}
      /\ actions' = actions \union {c.n} /\ session' = IF session = 0 THEN c.n ELSE session
      /\ UNCHANGED <<announced, stored, connecting, listening, finds, adding, entry, socket,
          actionUrl,
                     timeout, timers, visible, offers>>
      BY DEF Adding!ServePair, Adding!Serve, Adding!Sockets, Adding!Visit, Adding!Cards
<1>3. /\ posts' \subseteq PageCalls
      /\ Pairs = {c} => Pairs' = {[c EXCEPT !.state = "done"]}
      /\ \A e \in posts' : (e \in posts /\ e # c) \/ e.do = "pair"
      BY <1>1, <1>2, CallServed DEF CallStates
<1>4. VisitsTyped'
      BY <1>1, <1>2, <1>3 DEF VisitsTyped
<1>5. ASSUME ~Hasty PROVE VisitPhase' /\ SavesKept' /\ NewsFresh' /\ Adding!OffersWhatIsNew'
      <2>1. c \in Pairs
            BY <1>2 DEF Pairs
      <2>2. \A s :
              PairCall("pair", s).state = s /\ PairCall("pair", s).n = entry
                  /\ PairCall("cancel", s).do = "cancel"
            BY DEF PairCall
      <2>3. PairingAsked
            BY <1>1, <1>2, <1>5, <2>1, <2>2
               DEF VisitPhase, PairingBegun, PairingRuns, PairingEnds, PairingEnded, NoneLeft
      <2>4. c = PairCall("pair", "sent") /\ Pairs = {c} /\ c.n = entry
            BY <2>1, <2>2, <2>3 DEF PairingAsked
      <2>5. [c EXCEPT !.state = "done"] = PairCall("pair", "done")'
            BY <1>2, <2>4 DEF PairCall
      <2>6. PairingBegun'
            BY <1>2, <1>3, <2>3, <2>4, <2>5 DEF PairingAsked, PairingBegun, SocketOpen
      <2>7. SavesKept'
            BY <1>1, <1>2, <1>3, <1>5 DEF SavesKept
      <2>8. NewsFresh' /\ Adding!OffersWhatIsNew'
            BY <1>1, <1>2, <1>5 DEF NewsFresh, Adding!OffersWhatIsNew
      <2> QED BY <2>6, <2>7, <2>8 DEF VisitPhase
<1> QED BY <1>4, <1>5 DEF VisitsInv

\* It removes one.
LEMMA ServeCancelKeeps ==
  ASSUME VisitsInv, NEW c \in posts, Adding!ServeCancel(c)
  PROVE  VisitsInv'
<1>1. VisitsTyped /\ (~Hasty => VisitPhase /\ SavesKept /\ NewsFresh /\ Adding!OffersWhatIsNew)
      BY DEF VisitsInv
<1>0. PICK s \in CallStates : s = IF c.n \in actions THEN "done" ELSE "refused"
      BY DEF CallStates
<1>2. /\ c.do = "cancel" /\ c.state = "sent"
      /\ posts' = (posts \ {c}) \union {[c EXCEPT !.state = s]}
      /\ actions' = actions \ {c.n} /\ session' = IF session = c.n THEN 0 ELSE session
      /\ UNCHANGED <<announced, stored, connecting, listening, finds, adding, entry, socket,
          actionUrl,
                     timeout, timers, visible, offers>>
      BY <1>0 DEF Adding!ServeCancel, Adding!Serve, Adding!Sockets, Adding!Visit, Adding!Cards
<1>3. /\ posts' \subseteq PageCalls
      /\ Pairs = {c} => Pairs' = {[c EXCEPT !.state = s]}
      /\ \A e \in posts' : (e \in posts /\ e # c) \/ e.do = "cancel"
      BY <1>1, <1>2, CallServed
<1>4. VisitsTyped'
      BY <1>1, <1>2, <1>3 DEF VisitsTyped
<1>5. ASSUME ~Hasty PROVE VisitPhase' /\ SavesKept' /\ NewsFresh' /\ Adding!OffersWhatIsNew'
      <2>1. c \in Pairs
            BY <1>2 DEF Pairs
      <2>2. \A r :
              PairCall("cancel", r).state = r /\ PairCall("cancel", r).n = entry
                  /\ PairCall("pair", r).do = "pair"
            BY DEF PairCall
      <2>3. PairingEnds
            BY <1>1, <1>2, <1>5, <2>1, <2>2
               DEF VisitPhase, PairingAsked, PairingBegun, PairingRuns, PairingEnded, NoneLeft
      <2>4. c = PairCall("cancel", "sent") /\ Pairs = {c} /\ c.n = entry /\ s = "done"
            BY <1>0, <2>1, <2>2, <2>3 DEF PairingEnds
      <2>5. [c EXCEPT !.state = s] = PairCall("cancel", "done")'
            BY <1>2, <2>4 DEF PairCall
      <2>6. PairingEnded'
            BY <1>2, <1>3, <2>3, <2>4, <2>5 DEF PairingEnds, PairingEnded, SocketShut
      <2>7. SavesKept'
            BY <1>1, <1>2, <1>3, <1>5 DEF SavesKept
      <2>8. NewsFresh' /\ Adding!OffersWhatIsNew'
            BY <1>1, <1>2, <1>5 DEF NewsFresh, Adding!OffersWhatIsNew
      <2> QED BY <2>6, <2>7, <2>8 DEF VisitPhase
<1> QED BY <1>4, <1>5 DEF VisitsInv

\* Another request is served.
LEMMA RequestServed ==
  ASSUME VisitsInv, NEW c \in posts, NEW s \in {"done", "refused"}, c.state = "sent",
         c.do \notin {"pair", "cancel"}, posts' = (posts \ {c}) \union {[c EXCEPT !.state = s]},
         \/ stored' = stored /\ (c.do = "save" => s = "refused")
         \/ /\ c.do = "save" /\ stored' = stored \union {c.thing}
            /\ s = "refused" => c.thing \in stored,
         UNCHANGED <<actions, session, announced, connecting, listening, finds, adding, entry,
             socket,
                     actionUrl, timeout, timers, visible, offers>>
  PROVE  VisitsInv'
<1>1. VisitsTyped /\ (~Hasty => VisitPhase /\ SavesKept /\ NewsFresh /\ Adding!OffersWhatIsNew)
      BY DEF VisitsInv
<1>2. s \in CallStates
      BY DEF CallStates
<1>3. posts' \subseteq PageCalls /\ Pairs' = Pairs
      BY <1>1, <1>2, CallServed
<1>4. PICK d : d = [c EXCEPT !.state = s]
      OBVIOUS
<1>5. /\ posts' = (posts \ {c}) \union {d} /\ d.do = c.do /\ d.n = c.n /\ d.thing = c.thing
      /\ d.state = s
      BY <1>1, <1>4 DEF VisitsTyped, PageCalls
<1>6. VisitsTyped'
      BY <1>1, <1>3 DEF VisitsTyped
<1>7. ASSUME ~Hasty PROVE VisitPhase' /\ SavesKept' /\ NewsFresh' /\ Adding!OffersWhatIsNew'
      <2>1. VisitPhase'
            BY <1>1, <1>3, <1>7, PhaseStays
      <2>2. \A e \in posts : e.do = "save" /\ e # c /\ c.do = "save" => e.thing # c.thing
            BY <1>1, <1>7 DEF SavesKept
      <2>3. stored \subseteq stored'
            OBVIOUS
      <2>4. ASSUME NEW e \in posts', e.do = "save"
            PROVE  /\ adding /\ e.n = entry /\ e.thing \in DOMAIN offers
                   /\ offers[e.thing] = "saving"
                   /\ e.state = "done" => e.thing \in stored'
                   /\ e.state # "done" /\ e.thing \in Device => e.thing \notin stored'
            <3>1. CASE e \in posts /\ e # c
                  BY <1>1, <1>7, <2>2, <2>3, <2>4, <3>1 DEF SavesKept
            <3>2. CASE e = d
                  BY <1>1, <1>5, <1>7, <2>3, <2>4, <3>2 DEF SavesKept
            <3> QED BY <1>5, <3>1, <3>2
      <2>5. \A e, g \in posts' : e.do = "save" /\ g.do = "save" /\ e.thing = g.thing => e = g
            BY <1>1, <1>5, <1>7, <2>2 DEF SavesKept
      <2>6. SavesKept'
            BY <2>4, <2>5 DEF SavesKept
      <2>7. c.do = "save" => adding /\ c.thing \in DOMAIN offers /\ offers[c.thing] = "saving"
            BY <1>1, <1>7 DEF SavesKept
      <2>8. NewsFresh'
            BY <1>1, <1>7, <2>7 DEF NewsFresh, VisitsTyped
      <2>9. Adding!OffersWhatIsNew'
            BY <1>1, <1>7, <2>7 DEF Adding!OffersWhatIsNew
      <2> QED BY <2>1, <2>6, <2>8, <2>9
<1> QED BY <1>6, <1>7 DEF VisitsInv

\* A thing is saved, or a PIN, a password or an address is taken, or it is refused.
LEMMA RequestKeeps ==
  ASSUME VisitsInv, NEW c \in posts,
         Adding!ServeSave(c) \/ Adding!ServeDevice(c) \/ Adding!ServeWeb(c) \/ Adding!Refuse(c)
  PROVE  VisitsInv'
<1>1. CASE Adding!ServeSave(c)
      <2>1. PICK s \in {"done", "refused"} : s = IF c.thing \in stored THEN "refused" ELSE "done"
            OBVIOUS
      <2>2. /\ c.do = "save" /\ Adding!Serve(c, s) /\ stored' = stored \union {c.thing}
            /\ UNCHANGED <<actions, session>>
            BY <1>1, <2>1 DEF Adding!ServeSave
      <2> QED BY <2>1, <2>2, RequestServed
         DEF Adding!Serve, Adding!Sockets, Adding!Visit, Adding!Cards
<1>2. CASE Adding!ServeDevice(c) \/ Adding!ServeWeb(c)
      BY <1>2, RequestServed
         DEF Adding!ServeDevice, Adding!ServeWeb, Adding!Serve, Adding!Sockets, Adding!Visit,
             Adding!Cards
<1>3. CASE Adding!Refuse(c)
      BY <1>3, RequestServed
         DEF Adding!Refuse, Adding!Serve, Adding!Sockets, Adding!Visit, Adding!Cards
<1> QED BY <1>1, <1>2, <1>3

\* The session ends itself, a socket opens, or a device is found.
LEMMA EndsItselfKeeps == VisitsInv /\ Adding!EndsItself => VisitsInv'
<1> SUFFICES ASSUME VisitsInv, Adding!EndsItself PROVE VisitsInv'
    OBVIOUS
<1>1. VisitsTyped /\ (~Hasty => VisitPhase /\ SavesKept /\ NewsFresh /\ Adding!OffersWhatIsNew)
      BY DEF VisitsInv
<1>2. session' = 0 /\ UNCHANGED <<actions, announced, stored, connecting, listening, finds, posts,
        adding, entry, socket, actionUrl, timeout, timers, visible, offers>>
      BY DEF Adding!EndsItself, Adding!Sockets, Adding!Visit, Adding!Cards
<1>3. VisitsTyped'
      BY <1>1, <1>2 DEF VisitsTyped
<1>4. VisitPhase => VisitPhase'
      BY <1>2, PhaseStays DEF Pairs
<1>5. ~Hasty => SavesKept' /\ NewsFresh' /\ Adding!OffersWhatIsNew'
      BY <1>1, <1>2 DEF SavesKept, NewsFresh, Adding!OffersWhatIsNew
<1> QED BY <1>1, <1>3, <1>4, <1>5 DEF VisitsInv

\* A socket opens.
LEMMA OpenedKeeps == ASSUME VisitsInv, NEW n, Adding!Opened(n) PROVE VisitsInv'
<1>1. VisitsTyped /\ (~Hasty => VisitPhase /\ SavesKept /\ NewsFresh /\ Adding!OffersWhatIsNew)
      BY DEF VisitsInv
<1>2. /\ n \in connecting /\ connecting' = connecting \ {n} /\ listening' = listening \union {n}
      /\ finds' = finds \union ({n} \X (announced \ stored))
      /\ UNCHANGED <<actions, session, announced, stored, posts, adding, entry, socket, actionUrl,
                     timeout, timers, visible, offers>>
      BY DEF Adding!Opened, Adding!Found, Adding!Visit, Adding!Cards
<1>3. VisitsTyped'
      BY <1>1, <1>2 DEF VisitsTyped
<1>4. connecting' \union listening' = connecting \union listening /\ Pairs' = Pairs
      BY <1>2 DEF Pairs
<1>5. VisitPhase => VisitPhase'
      BY <1>2, <1>4, PhaseStays
<1>6. ~Hasty => SavesKept' /\ Adding!OffersWhatIsNew'
      BY <1>1, <1>2 DEF SavesKept, Adding!OffersWhatIsNew
<1>7. ASSUME ~Hasty, NEW m \in finds'
      PROVE  m[1] \in listening' /\ m[2] \in Device /\ (m[2] \in stored' => m[2] \in visible')
      <2>1. CASE m \in finds
            BY <1>1, <1>2, <1>7, <2>1 DEF NewsFresh
      <2>2. CASE m \in {n} \X (announced \ stored)
            BY <1>1, <1>2, <2>2 DEF VisitsTyped
      <2> QED BY <1>2, <1>7, <2>1, <2>2
<1>8. ~Hasty => NewsFresh'
      BY <1>7 DEF NewsFresh
<1> QED BY <1>1, <1>3, <1>5, <1>6, <1>8 DEF VisitsInv

\* A device is found.
LEMMA AnnounceKeeps == ASSUME VisitsInv, NEW d \in Device, Adding!Announce(d) PROVE VisitsInv'
<1>1. VisitsTyped /\ (~Hasty => VisitPhase /\ SavesKept /\ NewsFresh /\ Adding!OffersWhatIsNew)
      BY DEF VisitsInv
<1>2. /\ d \notin stored /\ announced' = announced \union {d}
      /\ finds' = finds \union (listening \X {d})
      /\ UNCHANGED <<actions, session, stored, connecting, listening, posts, adding, entry,
          socket,
                     actionUrl, timeout, timers, visible, offers>>
      BY DEF Adding!Announce, Adding!Visit, Adding!Cards
<1>3. VisitsTyped'
      BY <1>1, <1>2 DEF VisitsTyped
<1>4. VisitPhase => VisitPhase'
      BY <1>2, PhaseStays DEF Pairs
<1>5. ~Hasty => SavesKept' /\ Adding!OffersWhatIsNew'
      BY <1>1, <1>2 DEF SavesKept, Adding!OffersWhatIsNew
<1>6. ASSUME ~Hasty, NEW m \in finds'
      PROVE  m[1] \in listening' /\ m[2] \in Device /\ (m[2] \in stored' => m[2] \in visible')
      <2>1. CASE m \in finds
            BY <1>1, <1>2, <1>6, <2>1 DEF NewsFresh
      <2>2. CASE m \in listening \X {d}
            BY <1>2, <2>2
      <2> QED BY <1>2, <1>6, <2>1, <2>2
<1>7. ~Hasty => NewsFresh'
      BY <1>6 DEF NewsFresh
<1> QED BY <1>1, <1>3, <1>4, <1>5, <1>7 DEF VisitsInv

\* Only cards and requests change, and no request is about pairing: what is left to show.
LEMMA CardsKeep ==
  ASSUME VisitsInv, posts' \subseteq PageCalls, Pairs' = Pairs, finds' \subseteq finds,
         DOMAIN offers' \subseteq Adding!Offered, DOMAIN offers' \cap Device \subseteq visible',
         visible \subseteq visible', ~Hasty => SavesKept' /\ Adding!OffersWhatIsNew',
         UNCHANGED <<actions, session, announced, stored, connecting, listening, adding, entry,
             socket,
                     actionUrl, timeout, timers>>
  PROVE  VisitsInv'
<1>1. VisitsTyped /\ (~Hasty => VisitPhase /\ SavesKept /\ NewsFresh /\ Adding!OffersWhatIsNew)
      BY DEF VisitsInv
<1>2. VisitsTyped'
      BY <1>1 DEF VisitsTyped
<1>3. VisitPhase => VisitPhase'
      BY PhaseStays
<1>4. ~Hasty => NewsFresh'
      BY <1>1 DEF NewsFresh
<1> QED BY <1>1, <1>2, <1>3, <1>4 DEF VisitsInv

\* A new device is heard of.
LEMMA NewDeviceKeeps ==
  ASSUME VisitsInv, NEW n, NEW d \in Device, Adding!Hear(n, d)
  PROVE  VisitsInv'
<1>1. VisitsTyped /\ (~Hasty => VisitPhase /\ SavesKept /\ NewsFresh /\ Adding!OffersWhatIsNew)
      BY DEF VisitsInv
<1>2. /\ <<n, d>> \in finds /\ finds' \subseteq finds /\ visible' = visible \union {d}
      /\ offers' = IF d \in visible THEN offers
          ELSE Adding!Dealt(d, Adding!Asks(d, [pin |-> {}, login |-> {}]))
      /\ UNCHANGED <<actions, session, announced, stored, connecting, listening, posts, adding,
          entry,
                     socket, actionUrl, timeout, timers>>
      BY DEF Adding!Hear, Adding!Found, Adding!Visit
<1>3. posts' \subseteq PageCalls /\ Pairs' = Pairs
      BY <1>1, <1>2 DEF Pairs, VisitsTyped
<1>4. CASE d \in visible
      <2>1. offers' = offers
            BY <1>2, <1>4
      <2>2. ~Hasty => SavesKept' /\ Adding!OffersWhatIsNew'
            BY <1>1, <1>2, <2>1 DEF SavesKept, Adding!OffersWhatIsNew
      <2>3. DOMAIN offers' \subseteq Adding!Offered
              /\ DOMAIN offers' \cap Device \subseteq visible'
            BY <1>1, <1>2, <2>1 DEF VisitsTyped
      <2> QED BY <1>2, <1>3, <2>2, <2>3, CardsKeep
<1>5. CASE d \notin visible
      <2>1. PICK card : card = Adding!Asks(d, [pin |-> {}, login |-> {}])
            OBVIOUS
      <2>2. card # "saved"
            BY <2>1 DEF Adding!Asks
      <2>3. d \notin DOMAIN offers
            BY <1>1, <1>5 DEF VisitsTyped
      <2>4. /\ DOMAIN offers' = DOMAIN offers \union {d} /\ offers'[d] = card
            /\ \A u \in DOMAIN offers : offers'[u] = offers[u]
            BY <1>2, <1>5, <2>1, <2>3 DEF Adding!Dealt
      <2>5. ~Hasty => d \notin stored
            BY <1>1, <1>2, <1>5 DEF NewsFresh
      <2>6. ~Hasty => SavesKept'
            BY <1>1, <1>2, <2>4 DEF SavesKept
      <2>7. ~Hasty => Adding!OffersWhatIsNew'
            BY <1>1, <1>2, <2>2, <2>4, <2>5 DEF Adding!OffersWhatIsNew
      <2>8. DOMAIN offers' \subseteq Adding!Offered
              /\ DOMAIN offers' \cap Device \subseteq visible'
            BY <1>1, <1>2, <2>4 DEF VisitsTyped, Adding!Offered
      <2> QED BY <1>2, <1>3, <2>6, <2>7, <2>8, CardsKeep
<1> QED BY <1>4, <1>5

\* A card turns, and may ask for something.
LEMMA CardTurns ==
  ASSUME VisitsInv, NEW t \in Adding!Offered, NEW was, NEW to, was \notin {"saving", "saved"},
         to # "saved",
         Adding!Turn(t, was, to),
         \/ posts' = posts
         \/ \E do \in {"pin", "login", "web"} : Adding!Send(do, t)
         \/ Adding!Send("save", t) /\ to = "saving"
  PROVE  VisitsInv'
<1>1. VisitsTyped /\ (~Hasty => VisitPhase /\ SavesKept /\ NewsFresh /\ Adding!OffersWhatIsNew)
      BY DEF VisitsInv
<1>2. /\ adding /\ t \in DOMAIN offers /\ offers[t] = was /\ offers' = [offers EXCEPT ![t] = to]
      /\ UNCHANGED <<actions, session, announced, stored, connecting, listening, finds, adding,
          entry,
                     socket, actionUrl, timeout, timers, visible>>
      BY DEF Adding!Turn, Adding!Found, Adding!Sockets, Adding!Visit
<1>3. /\ DOMAIN offers' = DOMAIN offers /\ offers'[t] = to
      /\ \A u \in DOMAIN offers \ {t} : offers'[u] = offers[u]
      BY <1>2
<1>4. \A c \in posts : ~Hasty /\ c.do = "save" => c.thing # t
      BY <1>1, <1>2 DEF SavesKept
<1>5. ~Hasty => ~(t \in stored /\ t \in Device)
      BY <1>1, <1>2 DEF Adding!OffersWhatIsNew
<1>6. ~Hasty => Adding!OffersWhatIsNew'
      BY <1>1, <1>2, <1>3, <1>5 DEF Adding!OffersWhatIsNew
<1>7. DOMAIN offers' \subseteq Adding!Offered /\ DOMAIN offers' \cap Device \subseteq visible'
      BY <1>1, <1>2, <1>3 DEF VisitsTyped
<1>8. CASE posts' = posts
      <2>1. ~Hasty => SavesKept'
            BY <1>1, <1>2, <1>3, <1>4, <1>8 DEF SavesKept
      <2>2. posts' \subseteq PageCalls /\ Pairs' = Pairs
            BY <1>1, <1>8 DEF VisitsTyped, Pairs
      <2> QED BY <1>2, <1>6, <1>7, <2>1, <2>2, CardsKeep
<1>9. ASSUME NEW do \in {"save", "pin", "login", "web"}, Adding!Send(do, t), do = "save"
        => to = "saving"
      PROVE  VisitsInv'
      <2>1. PICK c : c = Adding!Call(do, entry, t)
            OBVIOUS
      <2>2. /\ posts' = posts \union {c} /\ c.do = do /\ c.n = entry /\ c.thing = t
            /\ c.state = "sent" /\ c \in PageCalls
            BY <1>1, <1>9, <2>1
               DEF Adding!Send, Adding!Call, PageCalls, CallKinds, CallStates, VisitsTyped
      <2>3. ASSUME ~Hasty PROVE SavesKept'
            <3>1. ASSUME NEW e \in posts', e.do = "save"
                  PROVE  /\ adding' /\ e.n = entry' /\ e.thing \in DOMAIN offers'
                         /\ offers'[e.thing] = "saving"
                             /\ (e.state = "done" => e.thing \in stored')
                         /\ e.state # "done" /\ e.thing \in Device => e.thing \notin stored'
                  <4>1. CASE e \in posts
                        BY <1>1, <1>2, <1>3, <1>4, <2>3, <3>1, <4>1 DEF SavesKept
                  <4>2. CASE e = c
                        BY <1>2, <1>3, <1>5, <1>9, <2>2, <2>3, <3>1, <4>2
                  <4> QED BY <2>2, <4>1, <4>2
            <3>2. \A e, g \in posts' : e.do = "save" /\ g.do = "save" /\ e.thing = g.thing
                    => e = g
                  BY <1>1, <1>4, <2>2, <2>3 DEF SavesKept
            <3> QED BY <3>1, <3>2 DEF SavesKept
      <2>4. posts' \subseteq PageCalls /\ Pairs' = Pairs
            BY <1>1, <2>2 DEF VisitsTyped, Pairs
      <2> QED BY <1>2, <1>6, <1>7, <2>3, <2>4, CardsKeep
<1> QED BY <1>8, <1>9

\* Cards go, or that of the web thing comes.
LEMMA DropKeeps == ASSUME VisitsInv, NEW t \in Adding!Offered, Adding!Drop(t) PROVE VisitsInv'
<1>1. VisitsTyped /\ (~Hasty => VisitPhase /\ SavesKept /\ NewsFresh /\ Adding!OffersWhatIsNew)
      BY DEF VisitsInv
<1>2. /\ t \in DOMAIN offers /\ offers[t] # "saving"
      /\ offers' = [u \in DOMAIN offers \ {t} |-> offers[u]]
      /\ UNCHANGED <<actions, session, announced, stored, connecting, listening, finds, posts,
          adding,
                     entry, socket, actionUrl, timeout, timers, visible>>
      BY DEF Adding!Drop, Adding!Found, Adding!Sockets, Adding!Visit
<1>3. DOMAIN offers' = DOMAIN offers \ {t} /\ \A u \in DOMAIN offers \ {t} :
        offers'[u] = offers[u]
      BY <1>2
<1>4. ~Hasty => Adding!OffersWhatIsNew'
      BY <1>1, <1>2, <1>3 DEF Adding!OffersWhatIsNew
<1>5. ~Hasty => SavesKept'
      BY <1>1, <1>2, <1>3 DEF SavesKept
<1>6. /\ posts' \subseteq PageCalls /\ Pairs' = Pairs
      /\ DOMAIN offers' \subseteq Adding!Offered /\ DOMAIN offers' \cap Device \subseteq visible'
      BY <1>1, <1>2, <1>3 DEF VisitsTyped, Pairs
<1> QED BY <1>2, <1>4, <1>5, <1>6, CardsKeep

\* The card of the web thing comes.
LEMMA NewWebKeeps == VisitsInv /\ Adding!NewWeb => VisitsInv'
<1> SUFFICES ASSUME VisitsInv, Adding!NewWeb PROVE VisitsInv'
    OBVIOUS
<1>1. VisitsTyped /\ (~Hasty => VisitPhase /\ SavesKept /\ NewsFresh /\ Adding!OffersWhatIsNew)
      BY DEF VisitsInv
<1>2. /\ Web \notin DOMAIN offers /\ offers' = Adding!Dealt(Web, "url")
      /\ UNCHANGED <<actions, session, announced, stored, connecting, listening, finds, posts,
          adding,
                     entry, socket, actionUrl, timeout, timers, visible>>
      BY DEF Adding!NewWeb, Adding!Found, Adding!Sockets, Adding!Visit
<1>3. Web \notin Device
      BY AddingBounds DEF Adding!NewThingsAssumption
<1>4. /\ DOMAIN offers' = DOMAIN offers \union {Web} /\ offers'[Web] = "url"
      /\ \A u \in DOMAIN offers : offers'[u] = offers[u]
      BY <1>2 DEF Adding!Dealt
<1>5. ~Hasty => Adding!OffersWhatIsNew'
      BY <1>1, <1>2, <1>3, <1>4 DEF Adding!OffersWhatIsNew
<1>6. ~Hasty => SavesKept'
      BY <1>1, <1>2, <1>4 DEF SavesKept
<1>7. /\ posts' \subseteq PageCalls /\ Pairs' = Pairs
      /\ DOMAIN offers' \subseteq Adding!Offered /\ DOMAIN offers' \cap Device \subseteq visible'
      BY <1>1, <1>2, <1>3, <1>4 DEF VisitsTyped, Pairs, Adding!Offered
<1> QED BY <1>2, <1>5, <1>6, <1>7, CardsKeep

\* What an answer makes of a card.
LEMMA AnswerMakes ==
  ASSUME NEW c \in PageCalls, c.do \notin {"pair", "cancel"}, c.state # "sent"
  PROVE  /\ c.do # "save"
             => Adding!Waits(c) \notin {"saving", "saved"} /\ Adding!After(c) # "saved"
         /\ c.do = "save" => (Adding!After(c) = "saved" <=> c.state = "done")
<1>1. c.do \in {"pin", "login", "web", "save"} /\ c.state \in {"done", "refused"}
      BY DEF PageCalls, CallKinds, CallStates
<1>2. CASE c.do = "pin"
      <2>1. Adding!Waits(c) = "pinSent"
            BY Zenon, <1>2 DEF Adding!Waits
      <2>2. CASE c.state = "done"
            <3>1. Adding!After(c) = Adding!Asks(c.thing, [pin |-> Device, login |-> {}])
                  BY Zenon, <1>2, <2>2 DEF Adding!After
            <3>2. Adding!Asks(c.thing, [pin |-> Device, login |-> {}]) # "saved"
                  BY DEF Adding!Asks
            <3> QED BY <1>2, <2>1, <3>1, <3>2
      <2>3. CASE c.state = "refused"
            <3>1. Adding!After(c) = "pin"
                  BY Zenon, <1>2, <2>3 DEF Adding!After
            <3> QED BY <1>2, <2>1, <3>1
      <2> QED BY <1>1, <2>2, <2>3
<1>3. CASE c.do = "login"
      <2>1. Adding!Waits(c) = "loginSent"
            BY Zenon, <1>3 DEF Adding!Waits
      <2>2. CASE c.state = "done"
            <3>1. Adding!After(c) = "form"
                  BY Zenon, <1>3, <2>2 DEF Adding!After
            <3> QED BY <1>3, <2>1, <3>1
      <2>3. CASE c.state = "refused"
            <3>1. Adding!After(c) = "login"
                  BY Zenon, <1>3, <2>3 DEF Adding!After
            <3> QED BY <1>3, <2>1, <3>1
      <2> QED BY <1>1, <2>2, <2>3
<1>4. CASE c.do = "web"
      <2>1. Adding!Waits(c) = "asked"
            BY Zenon, <1>4 DEF Adding!Waits
      <2>2. Adding!After(c) = IF c.state = "done" THEN "form" ELSE "url"
            BY Zenon, <1>4 DEF Adding!After
      <2> QED BY <1>4, <2>1, <2>2
<1>5. CASE c.do = "save"
      <2>1. CASE c.state = "refused"
            <3>1. Adding!After(c) = IF c.thing = Web THEN "url" ELSE "form"
                  BY Zenon, <1>5, <2>1 DEF Adding!After
            <3> QED BY <1>5, <2>1, <3>1
      <2>2. CASE c.state = "done"
            <3>1. Adding!After(c) = "saved"
                  BY Zenon, <1>5, <2>2 DEF Adding!After
            <3> QED BY <1>5, <2>2, <3>1
      <2> QED BY <1>1, <2>1, <2>2
<1> QED BY <1>1, <1>2, <1>3, <1>4, <1>5

\* An answer comes to a card.
LEMMA AnswerKeeps == ASSUME VisitsInv, NEW c \in posts, Adding!Answer(c) PROVE VisitsInv'
<1>1. VisitsTyped /\ (~Hasty => VisitPhase /\ SavesKept /\ NewsFresh /\ Adding!OffersWhatIsNew)
      BY DEF VisitsInv
<1>2. /\ c.state # "sent" /\ c.do \notin {"pair", "cancel"} /\ posts' = posts \ {c}
      /\ offers' = IF c.n = entry /\ c.thing \in DOMAIN offers
          /\ offers[c.thing] = Adding!Waits(c)
                   THEN [offers EXCEPT ![c.thing] = Adding!After(c)] ELSE offers
      /\ UNCHANGED <<actions, session, announced, stored, connecting, listening, finds, adding,
                     entry, socket, actionUrl, timeout, timers, visible>>
      BY DEF Adding!Answer, Adding!Found, Adding!Sockets, Adding!Visit
<1>3. c \in PageCalls
      BY <1>1 DEF VisitsTyped
<1>4. /\ c.do # "save" => Adding!Waits(c) \notin {"saving", "saved"} /\ Adding!After(c) # "saved"
      /\ c.do = "save" => (Adding!After(c) = "saved" <=> c.state = "done")
      BY <1>2, <1>3, AnswerMakes
<1>5. posts' \subseteq PageCalls /\ Pairs' = Pairs /\ DOMAIN offers' = DOMAIN offers
      BY <1>1, <1>2 DEF VisitsTyped, Pairs
<1>6. CASE offers' = offers
      <2>1. ~Hasty => SavesKept' /\ Adding!OffersWhatIsNew'
            BY <1>1, <1>2, <1>6 DEF SavesKept, Adding!OffersWhatIsNew
      <2> QED BY <1>1, <1>2, <1>5, <2>1, CardsKeep DEF VisitsTyped
<1>7. CASE c.thing \in DOMAIN offers /\ offers[c.thing] = Adding!Waits(c)
           /\ offers' = [offers EXCEPT ![c.thing] = Adding!After(c)]
      <2>1. /\ offers'[c.thing] = Adding!After(c)
            /\ \A u \in DOMAIN offers \ {c.thing} : offers'[u] = offers[u]
            BY <1>7
      <2>2. ASSUME ~Hasty, NEW e \in posts', e.do = "save" PROVE e.thing # c.thing
            BY <1>1, <1>2, <1>4, <1>7, <2>2 DEF SavesKept
      <2>3. ~Hasty => SavesKept'
            BY <1>1, <1>2, <1>5, <2>1, <2>2 DEF SavesKept
      <2>4. ASSUME ~Hasty PROVE Adding!OffersWhatIsNew'
            <3>1. CASE c.do = "save"
                  BY <1>1, <1>2, <1>4, <1>5, <2>1, <2>4, <3>1
                     DEF SavesKept, Adding!OffersWhatIsNew
            <3>2. CASE c.do # "save"
                  BY <1>1, <1>2, <1>4, <1>5, <1>7, <2>1, <2>4, <3>2 DEF Adding!OffersWhatIsNew
            <3> QED BY <3>1, <3>2
      <2> QED BY <1>1, <1>2, <1>5, <2>3, <2>4, CardsKeep DEF VisitsTyped
<1> QED BY <1>2, <1>6, <1>7

\* Nothing moves.
LEMMA VisitsRest == VisitsInv /\ UNCHANGED addingVars => VisitsInv'
<1> SUFFICES ASSUME VisitsInv, UNCHANGED addingVars PROVE VisitsInv'
    OBVIOUS
<1>1. VisitsTyped /\ (~Hasty => SavesKept /\ Adding!OffersWhatIsNew)
      BY DEF VisitsInv
<1>2. ~Hasty => SavesKept' /\ Adding!OffersWhatIsNew'
      BY <1>1 DEF addingVars, SavesKept, Adding!OffersWhatIsNew
<1> QED BY <1>1, <1>2, CardsKeep DEF addingVars, VisitsTyped, Pairs

\* Every step keeps the invariant.
LEMMA VisitsSteps == VisitsInv /\ [Adding!Next]_addingVars => VisitsInv'
<1> SUFFICES ASSUME VisitsInv, [Adding!Next]_addingVars PROVE VisitsInv'
    OBVIOUS
<1>1. entry \in Nat /\ 1 .. entry \subseteq Nat
      BY DEF VisitsInv, VisitsTyped
<1>2. Device \subseteq Adding!Offered /\ Web \in Adding!Offered
      BY DEF Adding!Offered
<1>3. ASSUME NEW d \in Device, Adding!Submit(d) PROVE VisitsInv'
      BY <1>2, <1>3, CardTurns DEF Adding!Submit
<1>4. ASSUME NEW t \in Adding!Offered, Adding!Save(t) PROVE VisitsInv'
      BY <1>4, CardTurns DEF Adding!Save
<1>5. ASSUME NEW t \in Adding!Offered, Adding!Upload(t) PROVE VisitsInv'
      BY <1>5, CardTurns DEF Adding!Upload
<1>6. ASSUME NEW t \in Adding!Offered, Adding!Loaded(t) PROVE VisitsInv'
      BY <1>6, CardTurns DEF Adding!Loaded
<1>7. CASE Adding!Address
      BY <1>2, <1>7, CardTurns DEF Adding!Address
<1>8. ASSUME NEW n \in 1 .. entry, Adding!Fires(n) \/ Adding!Opened(n) \/ \E d \in Device :
        Adding!Hear(n, d)
      PROVE  VisitsInv'
      BY <1>1, <1>8, FiresKeeps, OpenedKeeps, NewDeviceKeeps
<1>9. ASSUME NEW c \in posts,
             Adding!Started(c) \/ Adding!Cancelled(c) \/ Adding!Answer(c) \/ Adding!Refuse(c)
                 \/ Adding!ServePair(c) \/ Adding!ServeCancel(c)
             \/ Adding!ServeSave(c) \/ Adding!ServeDevice(c) \/ Adding!ServeWeb(c)
      PROVE  VisitsInv'
      BY <1>9, StartedKeeps, CancelledKeeps, AnswerKeeps, RequestKeeps, ServePairKeeps,
          ServeCancelKeeps
<1>10. ASSUME NEW t \in Adding!Offered, Adding!Drop(t) PROVE VisitsInv'
       BY <1>10, DropKeeps
<1>11. ASSUME NEW d \in Device, Adding!Announce(d) PROVE VisitsInv'
       BY <1>11, AnnounceKeeps
<1>12. CASE Adding!Show \/ Adding!Hide \/ Adding!EndsItself \/ Adding!NewWeb
       BY <1>12, ShowKeeps, HideKeeps, EndsItselfKeeps, NewWebKeeps
<1> QED BY <1>3, <1>4, <1>5, <1>6, <1>7, <1>8, <1>9, <1>10, <1>11, <1>12, VisitsRest
   DEF Adding!Next

\* A step is a step of the screen of new things, or leaves it alone.
LEMMA VisitsMove == [PagesNext]_pagesVars => [Adding!Next]_addingVars
BY DEF PagesNext, pagesVars, addingVars

\* The invariant of the visits holds of the pages together.
LEMMA VisitsAlways == PagesSpec => []VisitsInv
<1>1. PagesInit => VisitsInv
      BY VisitsStart DEF PagesInit
<1>2. VisitsInv /\ [PagesNext]_pagesVars => VisitsInv'
      BY VisitsMove, VisitsSteps
<1> QED BY <1>1, <1>2, PTL DEF PagesSpec

\* A user who waits for answers before leaving or coming back leaves no socket, timer or session
\* behind, is disturbed by no timer but that of the visit, and is offered no thing the gateway has
\* already; for any number of visits, devices, refusals and dropped cards, in any order
\* (AddThingScreen, NewThing, NewWebThing).
THEOREM VisitsAreKeptApart == PagesSpec => [](~Hasty => VisitsKeptApart)
<1> DEFINE Apart == ~Hasty => VisitsKeptApart
<1>1. VisitsInv => Apart
      BY VisitsAreApart DEF VisitsKeptApart
<1> HIDE DEF Apart
<1>2. PagesSpec => []Apart
      BY <1>1, VisitsAlways, PTL
<1> QED BY <1>2 DEF Apart

-----------------------------------------------------------------------------
(* The forms of the settings (SettingsForms).                              *)
\* The elements of the forms, the modes of the ethernet, and the changes this page asked for.
FormFields == {"box", "name", "locked", "mode", "valid", "done", "ssid", "key", "connect",
    "offered"}
Modes == {"dhcp", "static"}
OfThisLoad(p) == p \in puts /\ p.load = load

\* What is of which type.
FormTyped == DOMAIN form = FormFields /\ form.box \in [Settings!Choice -> 0 .. 2]
    /\ form.mode \in Modes
SettingsTyped ==
  /\ FormTyped
  /\ DOMAIN settings = Settings!Choice \cup {"name", "lan"} /\ settings.lan \in Modes
      /\ \A c \in Settings!Choice : settings[c] \in 1 .. 2
  /\ run \in Nat /\ from \in Nat /\ from <= run /\ load \in Nat
  /\ \A p \in puts : /\ p.load \in Nat /\ p.load <= load
                     /\ p.what \in Settings!Choice \cup {"name", "lan", "wlan", "update"}
                     /\ p.what \in Settings!Choice => p.value \in 1 .. 2
                     /\ p.what = "lan" => p.value.mode \in Modes
\* One change is under way at a time.
OneChange == \A p, q \in puts : p = q
\* What is sent about the network was valid, and its form still is.
NetworkValid ==
  /\ Settings!SentIsValid
  /\ \A p \in puts : OfThisLoad(p) /\ p.what = "lan" => Settings!Valid(form)
  /\ \A p \in puts : OfThisLoad(p) /\ p.what = "wlan" => form.key # "short"
\* A change of a choice is under way: until its answer the page waits for no other, and the box
\* shows what was chosen.
ChoiceAsked(c) == \E p \in puts : OfThisLoad(p) /\ p.what = c
BoxesTell ==
  /\ \A c \in Settings!Choice \ stale : form.box[c] # 0
      => form.box[c] = settings[c] \/ ChoiceAsked(c)
  /\ \A p \in puts : OfThisLoad(p) /\ p.what \in Settings!Choice =>
       fetches = <<>> /\ form.box[p.what] = p.value
           /\ (p.what \notin stale => settings[p.what] = 3 - p.value)
\* The name is locked where it is not announced.
NameLocked == form.box["mdns"] = 1 => form.locked \/ ChoiceAsked("mdns")

\* The inductive invariant of the settings.
SettingsInv == SettingsTyped /\ OneChange /\ NetworkValid /\ BoxesTell /\ NameLocked
    /\ Settings!ReloadsTheNew

\* What the invariant says of the settings.
LEMMA SettingsAreTold == SettingsInv => Settings!SettingsTell
BY
   DEF SettingsInv, Settings!SettingsTell, Settings!ChoicesTell, NetworkValid,
       Settings!ReloadsTheNew, BoxesTell, NameLocked, ChoiceAsked, Settings!Choice,
       Settings!PageOf

\* The elements of a page that was just loaded.
LEMMA BlankIs ==
  /\ DOMAIN Settings!Blank = FormFields /\ Settings!Blank.box \in [Settings!Choice -> 0 .. 2]
  /\ Settings!Blank.mode \in Modes
  /\ \A c \in Settings!Choice : Settings!Blank.box[c] = 0
  /\ Settings!Blank.key # "short" /\ Settings!Valid(Settings!Blank) /\ "mdns" \in Settings!Choice
BY DEF Settings!Blank, FormFields, Modes, Settings!Valid, Settings!Choice, Settings!PageOf

\* The invariant holds at first.
LEMMA SettingsStart == Settings!Init => SettingsInv
<1> SUFFICES ASSUME Settings!Init PROVE SettingsInv
    OBVIOUS
<1>1. PICK mdns \in 1 .. 2, lan \in Modes :
         settings = [mdns |-> mdns, ssh |-> 1, updates |-> 1, country |-> 1, zone |-> 1,
             name |-> 1, lan |-> lan]
      BY DEF Settings!Init, Modes
<1>2. DOMAIN settings = Settings!Choice \cup {"name", "lan"} /\ settings.lan \in Modes
        /\ \A c \in Settings!Choice : settings[c] \in 1 .. 2
      BY <1>1 DEF Settings!Choice, Settings!PageOf
<1> QED BY <1>2, BlankIs
   DEF Settings!Init, SettingsInv, SettingsTyped, FormTyped, OneChange, NetworkValid,
       Settings!SentIsValid,
     BoxesTell, NameLocked, Settings!ReloadsTheNew, OfThisLoad, ChoiceAsked

\* Only the elements of the form change.
LEMMA FormFilled ==
  ASSUME SettingsInv, UNCHANGED <<settings, up, run, puts, polls, load, from>>,
         FormTyped', \A c \in Settings!Choice : ChoiceAsked(c)
             => form'.box[c] = form.box[c] /\ fetches' = <<>>,
         \A c \in Settings!Choice \ stale' : form'.box[c] # 0
             => form'.box[c] = settings[c] \/ (c \notin stale /\ form'.box[c] = form.box[c]),
         \A c \in Settings!Choice : ChoiceAsked(c) /\ c \in stale => c \in stale',
         form'.done => Settings!Valid(form'), form'.connect => form'.key # "short",
         \A p \in puts : OfThisLoad(p) /\ p.what = "lan" => Settings!Valid(form'),
         \A p \in puts : OfThisLoad(p) /\ p.what = "wlan"
             => form'.key = form.key /\ form'.ssid = form.ssid,
         form'.box["mdns"] = 1 => form'.locked \/ (form.box["mdns"] = 1 /\ ~form.locked)
  PROVE  SettingsInv'
<1>1. SettingsTyped' /\ OneChange' /\ Settings!ReloadsTheNew'
      BY DEF SettingsInv, SettingsTyped, OneChange, Settings!ReloadsTheNew
<1>2. \A c : ChoiceAsked(c)' = ChoiceAsked(c)
      BY DEF ChoiceAsked, OfThisLoad
<1>3. NetworkValid'
      BY DEF SettingsInv, NetworkValid, Settings!SentIsValid, OfThisLoad
<1>4. BoxesTell'
      <2>1. ASSUME NEW c \in Settings!Choice \ stale',
              form'.box[c] # 0 PROVE form'.box[c] = settings[c] \/ ChoiceAsked(c)
            BY <2>1 DEF SettingsInv, BoxesTell
      <2>2. ASSUME NEW p \in puts, OfThisLoad(p), p.what \in Settings!Choice
            PROVE  fetches' = <<>> /\ form'.box[p.what] = p.value
                       /\ (p.what \notin stale' => settings[p.what] = 3 - p.value)
            <3>1. ChoiceAsked(p.what)
                  BY <2>2 DEF ChoiceAsked
            <3> QED BY <2>2, <3>1 DEF SettingsInv, BoxesTell
      <2> QED BY <1>2, <2>1, <2>2 DEF BoxesTell, OfThisLoad
<1>5. NameLocked'
      BY <1>2 DEF SettingsInv, NameLocked
<1> QED BY <1>1, <1>3, <1>4, <1>5 DEF SettingsInv

\* A page is opened.
LEMMA FormShown ==
  ASSUME SettingsInv, ~Hasty, NEW shownPage \in Settings!Page, Settings!Show(shownPage)
  PROVE  SettingsInv'
<1>1. PICK valid \in {form.valid} \cup (IF shownPage = "ethernet" THEN {TRUE} ELSE {}) :
       form' = [form EXCEPT !.valid = valid,
                            !.box = [c \in Settings!Choice |->
                                       IF shownPage = "localization"
                                           /\ c \in Settings!On(shownPage) THEN 0
                                       ELSE form.box[c]]]
      BY DEF Settings!Show
<1>2. puts = {} /\ UNCHANGED <<settings, up, run, stale, puts, polls, load, from>>
      BY DEF Settings!Show, Settings!Gateway, Settings!Browser
<1>3. /\ FormTyped' /\ form'.done = form.done /\ form'.connect = form.connect
      /\ form'.key = form.key
      /\ form'.locked = form.locked /\ form'.mode = form.mode /\ form'.valid = valid
      /\ \A c \in Settings!Choice : form'.box[c] = 0 \/ form'.box[c] = form.box[c]
      BY <1>1 DEF SettingsInv, SettingsTyped, FormTyped, FormFields
<1>4. form'.done => Settings!Valid(form')
      BY <1>3 DEF SettingsInv, NetworkValid, Settings!SentIsValid, Settings!Valid
<1>5. form'.connect => form'.key # "short"
      BY <1>3 DEF SettingsInv, NetworkValid, Settings!SentIsValid
<1>6. "mdns" \in Settings!Choice /\ \A c : ~ChoiceAsked(c)
      BY <1>2 DEF Settings!Choice, Settings!PageOf, ChoiceAsked, OfThisLoad
<1> QED BY <1>2, <1>3, <1>4, <1>5, <1>6, FormFilled

\* The form of a network is opened.
LEMMA JoinShown ==
  ASSUME SettingsInv, ~Hasty, NEW ssid, Settings!ShowJoin(ssid)
  PROVE  SettingsInv'
<1>1. /\ puts = {} /\ UNCHANGED <<settings, up, run, stale, puts, polls, load, from>>
      /\ form' = [form EXCEPT !.ssid = ssid, !.key = "empty"]
      BY DEF Settings!ShowJoin, Settings!Gateway, Settings!Browser
<1>2. /\ FormTyped' /\ form'.done = form.done /\ form'.key = "empty"
      /\ form'.locked = form.locked /\ form'.mode = form.mode /\ form'.valid = form.valid
      /\ form'.box = form.box
      BY <1>1 DEF SettingsInv, SettingsTyped, FormTyped, FormFields
<1>4. form'.done => Settings!Valid(form')
      BY <1>2 DEF SettingsInv, NetworkValid, Settings!SentIsValid, Settings!Valid
<1>6. "mdns" \in Settings!Choice /\ \A c : ~ChoiceAsked(c)
      BY <1>1 DEF Settings!Choice, Settings!PageOf, ChoiceAsked, OfThisLoad
<1> QED BY <1>1, <1>2, <1>4, <1>6, FormFilled

\* What the answers make of the form.
Refills(f, g, shownPage) ==
  /\ DOMAIN g = FormFields /\ g.box \in [Settings!Choice -> 0 .. 2] /\ g.mode \in Modes
  /\ \A c \in Settings!Choice :
      g.box[c] = IF c \in Settings!On(shownPage) THEN settings[c] ELSE f.box[c]
  /\ g.done => Settings!Valid(g)
  /\ g.connect => g.key # "short"
  /\ Settings!Valid(f) => Settings!Valid(g)
  /\ g.key = f.key /\ g.ssid = f.ssid
  /\ g.box["mdns"] = 1 => g.locked \/ (f.box["mdns"] = 1 /\ ~f.locked)

\* The boxes a page fills are the gateway's.
LEMMA BoxesAre ==
  ASSUME SettingsTyped, NEW shownPage
  PROVE  /\ Settings!Boxes(form, shownPage) \in [Settings!Choice -> 0 .. 2]
         /\ \A c \in Settings!Choice :
             Settings!Boxes(form, shownPage)[c] = IF c \in Settings!On(shownPage)
                 THEN settings[c] ELSE form.box[c]
BY DEF SettingsTyped, FormTyped, Settings!Boxes

\* Which page has which choice.
LEMMA ChoicesAre == /\ "mdns" \in Settings!Choice /\ Settings!On("domain") = {"mdns"}
                    /\ "mdns" \notin Settings!On("localization") \cup Settings!On("update")
                        \cup Settings!On("developer")
                    /\ Settings!On("ethernet") = {} /\ Settings!On("wifi") = {} /\ \A shownPage :
                        Settings!On(shownPage) \subseteq Settings!Choice
                            /\ (shownPage \notin Settings!Page => Settings!On(shownPage) = {})
BY DEF Settings!On, Settings!Choice, Settings!PageOf, Settings!Page

\* Every page refills its form that way.
LEMMA FormRefilled ==
  ASSUME SettingsInv, NEW shownPage, NEW offered \in BOOLEAN
  PROVE  Refills(form, Settings!Filled(form, shownPage, offered), shownPage)
<1> USE DEF SettingsInv, SettingsTyped, FormTyped, NetworkValid, Settings!SentIsValid, Refills
<1>1. CASE shownPage = "domain"
      <2> DEFINE g == Settings!DomainFilled(form)
      <2>1. /\ DOMAIN g = FormFields /\ g.box = Settings!Boxes(form, shownPage)
            /\ g.mode = form.mode /\ g.done = form.done /\ g.connect = form.connect
            /\ g.key = form.key /\ g.ssid = form.ssid /\ g.valid = form.valid
                /\ (settings.mdns = 1 => g.locked)
            BY <1>1 DEF Settings!DomainFilled, FormFields
      <2>2. Settings!Filled(form, shownPage, offered) = g
            BY <1>1 DEF Settings!Filled, Settings!Page
      <2> HIDE DEF g
      <2> QED BY <1>1, <2>1, <2>2, BoxesAre, ChoicesAre DEF Settings!Valid
<1>2. CASE shownPage = "ethernet"
      <2> DEFINE g == Settings!EthernetFilled(form)
      <2>1. /\ DOMAIN g = FormFields /\ g.box = form.box /\ g.mode = settings.lan
            /\ Settings!Valid(g) /\ g.connect = form.connect
            /\ g.key = form.key /\ g.ssid = form.ssid /\ g.locked = form.locked
            BY <1>2 DEF Settings!EthernetFilled, Settings!Lan, FormFields, Settings!Valid, Modes
      <2>2. Settings!Filled(form, shownPage, offered) = g
            BY <1>2 DEF Settings!Filled, Settings!Page
      <2> HIDE DEF g
      <2> QED BY <1>2, <2>1, <2>2, ChoicesAre
<1>3. CASE shownPage = "wifi"
      <2> DEFINE g == Settings!WifiFilled(form)
      <2>1. /\ DOMAIN g = FormFields /\ g.box = form.box /\ g.mode = form.mode
            /\ g.done = form.done /\ g.valid = form.valid
            /\ (g.connect => g.key # "short")
            /\ g.key = form.key /\ g.ssid = form.ssid /\ g.locked = form.locked
            BY <1>3 DEF Settings!WifiFilled, Settings!Wifi, FormFields
      <2>2. Settings!Filled(form, shownPage, offered) = g
            BY <1>3 DEF Settings!Filled, Settings!Page
      <2> HIDE DEF g
      <2> QED BY <1>3, <2>1, <2>2, ChoicesAre DEF Settings!Valid
<1>4. CASE shownPage \in {"localization", "update", "developer"}
      <2> DEFINE g == Settings!Filled(form, shownPage, offered)
      <2>0. \/ shownPage = "localization" /\ g = Settings!PlaceFilled(form)
            \/ shownPage = "update" /\ g = Settings!UpdateFilled(form, offered)
            \/ shownPage = "developer" /\ g = Settings!DeveloperFilled(form)
            BY <1>4 DEF Settings!Filled, Settings!Page
      <2> HIDE DEF g
      <2>1. /\ DOMAIN g = FormFields /\ g.box = Settings!Boxes(form, shownPage)
            /\ g.mode = form.mode /\ g.done = form.done /\ g.connect = form.connect
            /\ g.key = form.key /\ g.ssid = form.ssid /\ g.valid = form.valid
            /\ g.locked = form.locked
            BY ZenonT(60), <2>0
               DEF Settings!PlaceFilled, Settings!UpdateFilled, Settings!DeveloperFilled,
                   FormFields
      <2> QED BY <1>4, <2>1, BoxesAre, ChoicesAre DEF Settings!Valid, g
<1>5. CASE shownPage \notin Settings!Page
      <2>1. Settings!Filled(form, shownPage, offered) = form
            BY <1>5 DEF Settings!Filled, Settings!Page
      <2> QED BY <1>5, <2>1, ChoicesAre
<1> QED BY <1>1, <1>2, <1>3, <1>4, <1>5 DEF Settings!Page

\* Where a page waits for its answer, no choice of it waits for its own.
LEMMA NoneAnswering ==
  ASSUME SettingsInv, fetches # <<>>
  PROVE  \A c \in Settings!Choice : ~ChoiceAsked(c)
BY DEF SettingsInv, BoxesTell, ChoiceAsked

\* A page is answered.
LEMMA SettingsAnswered == ASSUME SettingsInv, Settings!Answered PROVE SettingsInv'
<1> DEFINE g == Head(fetches)
<1>1. /\ fetches # <<>> /\ UNCHANGED <<settings, up, run, puts, polls, load, from>>
      BY DEF Settings!Answered, Settings!Gateway, Settings!Browser
<1>2. CASE g.load = load
      <2>1. PICK offered \in BOOLEAN : form' = Settings!Filled(form, g.page, offered)
            BY <1>2 DEF Settings!Answered
      <2>2. stale' = stale \ Settings!On(g.page)
            BY <1>2 DEF Settings!Answered
      <2>3. Refills(form, form', g.page)
            BY <2>1, FormRefilled
      <2> HIDE DEF g
      <2>4. FormTyped'
            BY <2>3 DEF Refills, FormTyped
      <2>5. \A p \in puts : OfThisLoad(p) /\ p.what = "lan" => Settings!Valid(form')
            BY <2>3 DEF Refills, SettingsInv, NetworkValid
      <2> QED BY <1>1, <2>2, <2>3, <2>4, <2>5, NoneAnswering, FormFilled DEF Refills
<1>3. CASE g.load # load
      <2>1. form' = form /\ stale' = stale
            BY <1>3 DEF Settings!Answered
      <2> QED BY <1>1, <2>1, NoneAnswering, FormFilled
         DEF SettingsInv, SettingsTyped, FormTyped, NetworkValid, Settings!SentIsValid
<1> QED BY <1>2, <1>3

\* A page is not answered.
LEMMA SettingsUnanswered == ASSUME SettingsInv, Settings!Unanswered PROVE SettingsInv'
<1> DEFINE g == Head(fetches)
<1>1. /\ fetches # <<>> /\ UNCHANGED <<settings, up, run, puts, polls, load, from>>
      /\ stale \subseteq stale'
      BY DEF Settings!Unanswered, Settings!Gateway, Settings!Browser
<1>2. form' = form \/ form' = Settings!Lan(form) \/ form' = Settings!Wifi(form)
      BY DEF Settings!Unanswered
<1>3. /\ FormTyped' /\ form'.box = form.box /\ form'.locked = form.locked /\ form'.key = form.key
      /\ form'.ssid = form.ssid
      /\ form'.mode = form.mode /\ form'.valid = form.valid
      /\ form'.done => form.done \/ Settings!Valid(form)
      /\ form'.connect => form.connect \/ form.key # "short"
      BY <1>2 DEF Settings!Lan, Settings!Wifi, SettingsInv, SettingsTyped, FormTyped, FormFields
<1>4. /\ Settings!Valid(form') <=> Settings!Valid(form)
      /\ form'.done => Settings!Valid(form')
      /\ form'.connect => form'.key # "short"
      BY <1>3 DEF Settings!Valid, SettingsInv, NetworkValid, Settings!SentIsValid
<1>5. \A p \in puts : OfThisLoad(p) /\ p.what = "lan" => Settings!Valid(form')
      BY <1>4 DEF SettingsInv, NetworkValid
<1> QED BY <1>1, <1>3, <1>4, <1>5, NoneAnswering, FormFilled

\* The form is edited, while no change is under way.
LEMMA NetworkEdited ==
  ASSUME SettingsInv, puts = {}, UNCHANGED <<settings, up, run, puts, stale, fetches, polls, load,
         from>>,
         DOMAIN form' = FormFields, form'.box = form.box, form'.locked = form.locked,
         form'.mode \in Modes, form'.done => Settings!Valid(form'), form'.connect
             => form'.key # "short"
  PROVE  SettingsInv'
<1>1. \A c : ~ChoiceAsked(c)
      BY DEF ChoiceAsked, OfThisLoad
<1>2. FormTyped'
      BY DEF SettingsInv, SettingsTyped, FormTyped
<1>3. "mdns" \in Settings!Choice
      BY ChoicesAre
<1> QED BY <1>1, <1>2, <1>3, FormFilled

\* The mode of the ethernet is chosen.
LEMMA ModeChosen ==
  ASSUME SettingsInv, ~Hasty, NEW m \in {"dhcp", "static"}, Settings!Mode(m)
  PROVE  SettingsInv'
<1> DEFINE f == [form EXCEPT !.mode = m]
<1>1. puts = {} /\ UNCHANGED <<settings, up, run, puts, stale, fetches, polls, load, from>>
        /\ form' = Settings!Lan(f)
      BY DEF Settings!Mode, Settings!Edits, Settings!Does, Settings!Gateway, Settings!Browser
<1>2. DOMAIN f = FormFields /\ f.box = form.box /\ f.locked = form.locked /\ f.mode \in Modes
        /\ f.connect = form.connect /\ f.key = form.key
      BY DEF SettingsInv, SettingsTyped, FormTyped, FormFields, Modes
<1> HIDE DEF f
<1>3. DOMAIN form' = FormFields /\ form'.box = form.box /\ form'.locked = form.locked
        /\ form'.mode \in Modes
      /\ form'.connect = form.connect /\ form'.key = form.key
          /\ (form'.done => Settings!Valid(form'))
      BY <1>1, <1>2 DEF Settings!Lan, Settings!Valid, FormFields
<1>4. form'.connect => form'.key # "short"
      BY <1>3 DEF SettingsInv, NetworkValid, Settings!SentIsValid
<1> QED BY <1>1, <1>3, <1>4, NetworkEdited

\* Its address is edited.
LEMMA AddressEdited ==
  ASSUME SettingsInv, ~Hasty, NEW b \in BOOLEAN, Settings!Address(b)
  PROVE  SettingsInv'
<1> DEFINE f == [form EXCEPT !.valid = b]
<1>1. puts = {} /\ UNCHANGED <<settings, up, run, puts, stale, fetches, polls, load, from>>
        /\ form' = Settings!Lan(f)
      BY DEF Settings!Address, Settings!Edits, Settings!Does, Settings!Gateway, Settings!Browser
<1>2. DOMAIN f = FormFields /\ f.box = form.box /\ f.locked = form.locked /\ f.mode \in Modes
        /\ f.connect = form.connect /\ f.key = form.key
      BY DEF SettingsInv, SettingsTyped, FormTyped, FormFields
<1> HIDE DEF f
<1>3. DOMAIN form' = FormFields /\ form'.box = form.box /\ form'.locked = form.locked
        /\ form'.mode \in Modes
      /\ form'.connect = form.connect /\ form'.key = form.key
          /\ (form'.done => Settings!Valid(form'))
      BY <1>1, <1>2 DEF Settings!Lan, Settings!Valid, FormFields
<1>4. form'.connect => form'.key # "short"
      BY <1>3 DEF SettingsInv, NetworkValid, Settings!SentIsValid
<1> QED BY <1>1, <1>3, <1>4, NetworkEdited

\* The key of the Wi-Fi is edited.
LEMMA KeyEdited == ASSUME SettingsInv, ~Hasty, NEW k, Settings!Key(k) PROVE SettingsInv'
<1> DEFINE f == [form EXCEPT !.key = k]
<1>1. puts = {} /\ UNCHANGED <<settings, up, run, puts, stale, fetches, polls, load, from>>
        /\ form' = Settings!Wifi(f)
      BY DEF Settings!Key, Settings!Edits, Settings!Does, Settings!Gateway, Settings!Browser
<1>2. DOMAIN f = FormFields /\ f.box = form.box /\ f.locked = form.locked /\ f.mode = form.mode
        /\ f.done = form.done /\ f.valid = form.valid
      BY DEF SettingsInv, SettingsTyped, FormTyped, FormFields
<1> HIDE DEF f
<1>3. DOMAIN form' = FormFields /\ form'.box = form.box /\ form'.locked = form.locked
        /\ form'.mode = form.mode
      /\ form'.done = form.done /\ form'.valid = form.valid
          /\ (form'.connect => form'.key # "short")
      BY <1>1, <1>2 DEF Settings!Wifi, FormFields
<1>4. form'.mode \in Modes /\ (form'.done => Settings!Valid(form'))
      BY <1>3
         DEF SettingsInv, SettingsTyped, FormTyped, NetworkValid, Settings!SentIsValid,
             Settings!Valid
<1> QED BY <1>1, <1>3, <1>4, NetworkEdited

\* A change is sent, while none is under way.
LEMMA ChangeSent ==
  ASSUME SettingsInv, puts = {},
         NEW what \in Settings!Choice \cup {"name", "lan", "wlan", "update"}, NEW sentValue,
         puts' = puts \cup {[what |-> what, value |-> sentValue, load |-> load]},
         UNCHANGED <<settings, up, run, stale, fetches, polls, load, from>>,
         FormTyped', form'.locked = form.locked,
         form'.done => Settings!Valid(form'), form'.connect => form'.key # "short",
         what \in Settings!Choice => /\ sentValue \in 1 .. 2 /\ fetches = <<>>
                                     /\ form.box[what] = 3 - sentValue
                                     /\ form'.box = [form.box EXCEPT ![what] = sentValue],
         what \notin Settings!Choice => form'.box = form.box,
         what = "lan" => sentValue.mode \in Modes /\ sentValue.valid /\ Settings!Valid(form'),
         what = "wlan"
             => sentValue.key # "short" /\ sentValue.ssid = form'.ssid /\ form'.key # "short"
  PROVE  SettingsInv'
<1> DEFINE p == [what |-> what, value |-> sentValue, load |-> load]
<1>1. /\ puts' = {p} /\ p.what = what /\ p.value = sentValue /\ p.load = load
      OBVIOUS
<1> HIDE DEF p
<1>2. \A c : ~ChoiceAsked(c)
      BY DEF ChoiceAsked, OfThisLoad
<1>3. \A c : ChoiceAsked(c)' <=> c = what
      BY <1>1 DEF ChoiceAsked, OfThisLoad
<1>4. /\ SettingsTyped'
      /\ OneChange'
      /\ Settings!ReloadsTheNew'
      <2>1. SettingsTyped'
            BY <1>1 DEF SettingsInv, SettingsTyped
      <2>2. OneChange'
            BY <1>1 DEF OneChange
      <2>3. Settings!ReloadsTheNew'
            BY DEF SettingsInv, Settings!ReloadsTheNew
      <2> QED BY <2>1, <2>2, <2>3
<1>5. NetworkValid'
      BY <1>1 DEF NetworkValid, Settings!SentIsValid, OfThisLoad
<1>6. BoxesTell'
      <2>1. ASSUME NEW c \in Settings!Choice \ stale, form'.box[c] # 0,
              c # what PROVE form'.box[c] = settings[c]
            <3>1. form'.box[c] = form.box[c]
                  BY <2>1 DEF SettingsInv, SettingsTyped, FormTyped
            <3> QED BY <1>2, <2>1, <3>1 DEF SettingsInv, BoxesTell
      <2>2. ASSUME what \in Settings!Choice
            PROVE  fetches' = <<>> /\ form'.box[what] = sentValue
                       /\ (what \notin stale => settings[what] = 3 - sentValue)
            <3>1. form'.box[what] = sentValue /\ form.box[what] # 0
                  BY <2>2 DEF SettingsInv, SettingsTyped, FormTyped
            <3> QED BY <1>2, <2>2, <3>1 DEF SettingsInv, BoxesTell
      <2>3. ASSUME NEW c \in Settings!Choice \ stale, form'.box[c] # 0
            PROVE  form'.box[c] = settings[c] \/ ChoiceAsked(c)'
            BY <1>3, <2>1, <2>3
      <2>4. ASSUME NEW q \in puts', OfThisLoad(q)', q.what \in Settings!Choice
            PROVE  fetches' = <<>> /\ form'.box[q.what] = q.value
                       /\ (q.what \notin stale => settings[q.what] = 3 - q.value)
            BY <1>1, <2>2, <2>4
      <2> QED BY <2>3, <2>4 DEF BoxesTell
<1>7. NameLocked'
      <2>1. ASSUME "mdns" # what PROVE form'.box["mdns"] = form.box["mdns"]
            BY <2>1, ChoicesAre DEF SettingsInv, SettingsTyped, FormTyped
      <2> QED BY <1>2, <1>3, <2>1 DEF SettingsInv, NameLocked
<1> QED BY <1>4, <1>5, <1>6, <1>7 DEF SettingsInv

\* A box or a select is changed.
LEMMA ChoiceKeeps ==
  ASSUME SettingsInv, ~Hasty, NEW c \in Settings!Choice, Settings!Choose(c)
  PROVE  SettingsInv'
<1>1. /\ puts = {} /\ fetches = <<>> /\ form.box[c] # 0
      /\ UNCHANGED <<settings, up, run, stale, fetches, polls, load, from>>
      /\ puts' = puts \cup {[what |-> c, value |-> 3 - form.box[c], load |-> load]}
      /\ form' = [form EXCEPT !.box[c] = 3 - @]
      BY DEF Settings!Choose, Settings!Does, Settings!Sends, Settings!Gateway, Settings!Browser
<1>2. /\ form'.box = [form.box EXCEPT ![c] = 3 - form.box[c]] /\ DOMAIN form' = FormFields
      /\ form'.mode = form.mode /\ form'.valid = form.valid /\ form'.done = form.done
      /\ form'.key = form.key /\ form'.connect = form.connect /\ form'.locked = form.locked
      BY <1>1 DEF SettingsInv, SettingsTyped, FormTyped, FormFields
<1>3. 3 - form.box[c] \in 1 .. 2 /\ form.box[c] = 3 - (3 - form.box[c]) /\ c # "lan" /\ c # "wlan"
      BY <1>1 DEF SettingsInv, SettingsTyped, FormTyped, Settings!Choice, Settings!PageOf
<1>4. FormTyped'
      BY <1>2, <1>3 DEF SettingsInv, SettingsTyped, FormTyped
<1>5. form'.done => Settings!Valid(form')
      BY <1>2 DEF SettingsInv, NetworkValid, Settings!SentIsValid, Settings!Valid
<1>6. form'.connect => form'.key # "short"
      BY <1>2 DEF SettingsInv, NetworkValid, Settings!SentIsValid
<1> QED BY <1>1, <1>2, <1>3, <1>4, <1>5, <1>6, ChangeSent

\* The host name is changed.
LEMMA NameSent == ASSUME SettingsInv, ~Hasty, NEW name, Settings!Rename(name) PROVE SettingsInv'
<1>1. /\ puts = {}
      /\ UNCHANGED <<settings, up, run, stale, fetches, polls, load, from>>
      /\ puts' = puts \cup {[what |-> "name", value |-> name, load |-> load]}
      /\ form' = [form EXCEPT !.name = name]
      BY DEF Settings!Rename, Settings!Does, Settings!Sends, Settings!Gateway, Settings!Browser
<1>2. /\ form'.box = form.box /\ DOMAIN form' = FormFields
      /\ form'.mode = form.mode /\ form'.valid = form.valid /\ form'.done = form.done
      /\ form'.key = form.key /\ form'.connect = form.connect /\ form'.locked = form.locked
      BY <1>1 DEF SettingsInv, SettingsTyped, FormTyped, FormFields
<1>4. FormTyped'
      BY <1>2 DEF SettingsInv, SettingsTyped, FormTyped
<1>5. form'.done => Settings!Valid(form')
      BY <1>2 DEF SettingsInv, NetworkValid, Settings!SentIsValid, Settings!Valid
<1>6. form'.connect => form'.key # "short"
      BY <1>2 DEF SettingsInv, NetworkValid, Settings!SentIsValid
<1>7. "name" \notin Settings!Choice
      BY DEF Settings!Choice, Settings!PageOf
<1> QED BY <1>1, <1>2, <1>4, <1>5, <1>6, <1>7, ChangeSent

\* The form of the ethernet is sent.
LEMMA EthernetSent == ASSUME SettingsInv, ~Hasty, Settings!Done PROVE SettingsInv'
<1> DEFINE sentValue == [mode |-> form.mode, valid |-> Settings!Valid(form)]
<1>1. /\ puts = {} /\ form.done
      /\ UNCHANGED <<settings, up, run, stale, fetches, polls, load, from>>
      /\ puts' = puts \cup {[what |-> "lan", value |-> sentValue, load |-> load]}
      /\ form' = [form EXCEPT !.done = FALSE]
      BY DEF Settings!Done, Settings!Does, Settings!Sends, Settings!Gateway, Settings!Browser
<1>2. /\ form'.box = form.box /\ DOMAIN form' = FormFields
      /\ form'.mode = form.mode /\ form'.valid = form.valid /\ form'.done = FALSE
      /\ form'.key = form.key /\ form'.connect = form.connect /\ form'.locked = form.locked
      BY <1>1 DEF SettingsInv, SettingsTyped, FormTyped, FormFields
<1>3. Settings!Valid(form)
      BY <1>1 DEF SettingsInv, NetworkValid, Settings!SentIsValid
<1>4. FormTyped' /\ Settings!Valid(form')
      BY <1>2, <1>3 DEF SettingsInv, SettingsTyped, FormTyped, Settings!Valid
<1>5. sentValue.mode = form.mode /\ sentValue.valid
      BY <1>3
<1>6. form'.connect => form'.key # "short"
      BY <1>2 DEF SettingsInv, NetworkValid, Settings!SentIsValid
<1>7. "lan" \notin Settings!Choice /\ sentValue.mode \in Modes
      BY <1>5 DEF Settings!Choice, Settings!PageOf, SettingsInv, SettingsTyped, FormTyped
<1> HIDE DEF sentValue
<1> QED BY <1>1, <1>2, <1>4, <1>5, <1>6, <1>7, ChangeSent

\* The form of the Wi-Fi is sent.
LEMMA WifiSent == ASSUME SettingsInv, ~Hasty, Settings!Connect PROVE SettingsInv'
<1> DEFINE sentValue == [ssid |-> form.ssid, key |-> form.key]
<1>1. /\ puts = {} /\ form.connect
      /\ UNCHANGED <<settings, up, run, stale, fetches, polls, load, from>>
      /\ puts' = puts \cup {[what |-> "wlan", value |-> sentValue, load |-> load]}
      /\ form' = [form EXCEPT !.connect = FALSE]
      BY DEF Settings!Connect, Settings!Does, Settings!Sends, Settings!Gateway, Settings!Browser
<1>2. /\ form'.box = form.box /\ DOMAIN form' = FormFields
      /\ form'.mode = form.mode /\ form'.valid = form.valid /\ form'.done = form.done
      /\ form'.key = form.key /\ form'.ssid = form.ssid /\ form'.connect = FALSE
      /\ form'.locked = form.locked
      BY <1>1 DEF SettingsInv, SettingsTyped, FormTyped, FormFields
<1>4. FormTyped' /\ (form'.done => Settings!Valid(form'))
      BY <1>2
         DEF SettingsInv, SettingsTyped, FormTyped, NetworkValid, Settings!SentIsValid,
             Settings!Valid
<1>5. sentValue.ssid = form.ssid /\ sentValue.key = form.key /\ form.key # "short"
      BY <1>1 DEF SettingsInv, NetworkValid, Settings!SentIsValid
<1>7. "wlan" \notin Settings!Choice
      BY DEF Settings!Choice, Settings!PageOf
<1> HIDE DEF sentValue
<1> QED BY <1>1, <1>2, <1>4, <1>5, <1>7, ChangeSent

\* An update is asked for.
LEMMA UpdateAsked == ASSUME SettingsInv, ~Hasty, Settings!Update PROVE SettingsInv'
<1>1. /\ puts = {}
      /\ UNCHANGED <<settings, up, run, stale, fetches, polls, load, from, form>>
      /\ puts' = puts \cup {[what |-> "update", value |-> 0, load |-> load]}
      BY DEF Settings!Update, Settings!Does, Settings!Sends, Settings!Gateway, Settings!Browser
<1>2. FormTyped' /\ (form'.done => Settings!Valid(form'))
        /\ (form'.connect => form'.key # "short")
      BY <1>1 DEF SettingsInv, SettingsTyped, FormTyped, NetworkValid, Settings!SentIsValid
<1>3. "update" \notin Settings!Choice
      BY DEF Settings!Choice, Settings!PageOf
<1> QED BY <1>1, <1>2, <1>3, ChangeSent

\* The one change that was under way is over.
LEMMA ChangeEnds ==
  ASSUME SettingsInv, puts' = {}, SettingsTyped', Settings!ReloadsTheNew',
         form'.done => Settings!Valid(form'),
         form'.connect => form'.key # "short",
         \A c \in Settings!Choice \ stale' : form'.box[c] # 0 => form'.box[c] = settings'[c],
         form'.box["mdns"] = 1 => form'.locked
  PROVE  SettingsInv'
BY
   DEF SettingsInv, OneChange, NetworkValid, Settings!SentIsValid, BoxesTell, NameLocked,
       ChoiceAsked, OfThisLoad

\* It was the only one.
LEMMA TheOnlyChange ==
  ASSUME SettingsInv, NEW p \in puts
  PROVE  puts \ {p} = {} /\ \A c : ChoiceAsked(c) <=> p.load = load /\ p.what = c
BY DEF SettingsInv, OneChange, ChoiceAsked, OfThisLoad

\* The gateway stores what was sent.
LEMMA SettingStored ==
  ASSUME SettingsInv, NEW p \in puts, Settings!Stored(p)
  PROVE  /\ DOMAIN settings' = Settings!Choice \cup {"name", "lan"} /\ settings'.lan \in Modes
         /\ \A c \in Settings!Choice :
             settings'[c] = (IF c = p.what THEN p.value ELSE settings[c])
                 /\ settings'[c] \in 1 .. 2
<1>0. /\ DOMAIN settings = Settings!Choice \cup {"name", "lan"} /\ settings.lan \in Modes
          /\ \A c \in Settings!Choice : settings[c] \in 1 .. 2
      /\ p.what \in Settings!Choice \cup {"name", "lan", "wlan", "update"}
      /\ p.what \in Settings!Choice => p.value \in 1 .. 2
      /\ p.what = "lan" => p.value.mode \in Modes
      BY DEF SettingsInv, SettingsTyped
<1>1. \A c \in Settings!Choice : c # "lan" /\ c # "name" /\ c # "wlan" /\ c # "update"
      BY DEF Settings!Choice, Settings!PageOf
<1>2. CASE p.what \in {"wlan", "update"}
      <2>1. settings' = settings
            BY <1>1, <1>2 DEF Settings!Stored
      <2> QED BY <1>0, <1>1, <1>2, <2>1
<1>3. CASE p.what = "lan"
      <2>1. settings' = [settings EXCEPT !.lan = p.value.mode]
            BY <1>1, <1>3 DEF Settings!Stored
      <2> QED BY <1>0, <1>1, <1>3, <2>1
<1>4. CASE p.what \in Settings!Choice \cup {"name"}
      <2>1. settings' = [settings EXCEPT ![p.what] = p.value]
            BY <1>1, <1>4 DEF Settings!Stored
      <2> QED BY <1>0, <1>1, <1>4, <2>1
<1> QED BY <1>0, <1>2, <1>3, <1>4

\* What the page is after it was loaded anew.
LEMMA ReloadedIs ==
  ASSUME SettingsInv, Settings!Reloaded
  PROVE  /\ FormTyped' /\ form' = Settings!Blank /\ (\A c \in Settings!Choice : form'.box[c] = 0)
         /\ (form'.done => Settings!Valid(form')) /\ (form'.connect => form'.key # "short")
         /\ polls' = {} /\ load' = load + 1 /\ from' = run
BY BlankIs DEF Settings!Reloaded, FormTyped

\* A change is accepted.
LEMMA ChangeAccepted ==
  ASSUME SettingsInv, NEW p \in puts, Settings!Accepted(p)
  PROVE  SettingsInv'
<1>0. /\ FormTyped /\ p.load \in Nat /\ p.load <= load /\ load \in Nat /\ run \in Nat
      /\ from \in Nat /\ from <= run
      /\ p.what \in Settings!Choice \cup {"name", "lan", "wlan", "update"}
      /\ p.what \in Settings!Choice => p.value \in 1 .. 2
      BY DEF SettingsInv, SettingsTyped
<1>1. /\ puts' = {} /\ up /\ up' = up /\ run' = run
      /\ \A c : ChoiceAsked(c) <=> p.load = load /\ p.what = c
      BY TheOnlyChange DEF Settings!Accepted, Settings!Takes
<1>2. /\ DOMAIN settings' = Settings!Choice \cup {"name", "lan"} /\ settings'.lan \in Modes
      /\ \A c \in Settings!Choice :
          settings'[c] = (IF c = p.what THEN p.value ELSE settings[c]) /\ settings'[c] \in 1 .. 2
      BY SettingStored DEF Settings!Accepted
<1>3. /\ form.done => Settings!Valid(form)
      /\ form.connect => form.key # "short"
      /\ \A c \in Settings!Choice \ stale : form.box[c] # 0
          => form.box[c] = settings[c] \/ ChoiceAsked(c)
      /\ form.box["mdns"] = 1 => form.locked \/ ChoiceAsked("mdns")
      /\ p.load = load /\ p.what \in Settings!Choice => form.box[p.what] = p.value
      /\ p.load = load /\ p.what = "lan" => Settings!Valid(form)
      /\ p.load = load /\ p.what = "wlan" => form.key # "short"
      /\ TRUE \in polls => run > from
      BY <1>1
         DEF SettingsInv, NetworkValid, Settings!SentIsValid, BoxesTell, NameLocked, OfThisLoad,
             Settings!ReloadsTheNew
<1>4. ASSUME FormTyped', load' = load, from' = from, polls' \ {FALSE} = polls \ {FALSE},
             form'.done => Settings!Valid(form'), form'.connect => form'.key # "short",
             \A c \in Settings!Choice \ stale' : form'.box[c] # 0 => form'.box[c] = settings'[c],
             form'.box["mdns"] = 1 => form'.locked
      PROVE  SettingsInv'
      <2>1. SettingsTyped'
            BY <1>0, <1>1, <1>2, <1>4 DEF SettingsTyped
      <2>2. Settings!ReloadsTheNew'
            BY <1>1, <1>3, <1>4 DEF Settings!ReloadsTheNew
      <2> QED BY <1>1, <1>4, <2>1, <2>2, ChangeEnds
<1>5. \A c \in Settings!Choice : c # "lan" /\ c # "name" /\ c # "wlan" /\ c # "update"
      BY DEF Settings!Choice, Settings!PageOf
<1>6. CASE p.load # load
      <2>1. form' = form /\ UNCHANGED <<load, from, polls>>
              /\ stale' = stale \cup (Settings!Choice \cap {p.what})
            BY <1>6 DEF Settings!Accepted, Settings!Stays, Settings!Browser
      <2> QED BY <1>0, <1>1, <1>2, <1>3, <1>4, <1>6, <2>1, ChoicesAre DEF FormTyped
<1>7. CASE p.load = load /\ p.what = "mdns"
      <2>1. /\ form' = [form EXCEPT !.locked = p.value = 1] /\ UNCHANGED <<load, from, polls>>
            /\ stale' = stale
            BY <1>5, <1>7 DEF Settings!Accepted, Settings!Stays, Settings!Browser
      <2>2. /\ FormTyped' /\ form'.box = form.box /\ form'.done = form.done
            /\ form'.mode = form.mode /\ form'.valid = form.valid
            /\ form'.connect = form.connect /\ form'.key = form.key
                /\ (p.value = 1 => form'.locked)
            BY <1>0, <2>1 DEF FormTyped, FormFields
      <2> QED BY <1>1, <1>2, <1>3, <1>4, <1>7, <2>1, <2>2, ChoicesAre DEF Settings!Valid
<1>8. CASE p.load = load /\ p.what \in {"lan", "wlan"}
      <2>1. /\ form' = (IF p.what = "lan" THEN [form EXCEPT !.done = TRUE]
                ELSE [form EXCEPT !.connect = TRUE])
            /\ UNCHANGED <<load, from, polls>> /\ stale' = stale
            BY <1>5, <1>8 DEF Settings!Accepted, Settings!Browser
      <2>2. /\ FormTyped' /\ form'.box = form.box /\ form'.mode = form.mode
            /\ form'.valid = form.valid
            /\ form'.key = form.key /\ form'.locked = form.locked
            /\ p.what = "lan" \/ form'.done = form.done
            /\ p.what = "wlan" \/ form'.connect = form.connect
            BY <1>0, <1>8, <2>1 DEF FormTyped, FormFields
      <2> QED BY <1>1, <1>2, <1>3, <1>4, <1>5, <1>8, <2>1, <2>2, ChoicesAre DEF Settings!Valid
<1>9. CASE p.load = load /\ p.what = "zone"
      <2>1. Settings!Reloaded /\ stale' = stale
            BY <1>5, <1>9 DEF Settings!Accepted
      <2>2. SettingsTyped'
            BY <1>0, <1>1, <1>2, <2>1, ReloadedIs DEF SettingsTyped
      <2>3. Settings!ReloadsTheNew'
            BY <2>1, ReloadedIs DEF Settings!ReloadsTheNew
      <2> QED BY <1>1, <2>1, <2>2, <2>3, ReloadedIs, ChangeEnds, ChoicesAre
<1>10. CASE p.load = load /\ p.what = "update"
      <2>1. polls' = polls \cup {FALSE} /\ UNCHANGED <<form, load, from>> /\ stale' = stale
            BY <1>5, <1>10 DEF Settings!Accepted
      <2> QED BY <1>0, <1>1, <1>2, <1>3, <1>4, <1>5, <1>10, <2>1, ChoicesAre DEF FormTyped
<1>11. CASE p.load = load /\ p.what \in {"ssh", "updates", "country", "name"}
      <2>1. UNCHANGED <<form, load, from, polls>> /\ stale' = stale
            BY <1>5, <1>11 DEF Settings!Accepted, Settings!Stays, Settings!Browser
      <2> QED BY <1>0, <1>1, <1>2, <1>3, <1>4, <1>5, <1>11, <2>1, ChoicesAre DEF FormTyped
<1> QED BY <1>0, <1>6, <1>7, <1>8, <1>9, <1>10, <1>11 DEF Settings!Choice, Settings!PageOf

\* A change is refused.
LEMMA ChangeRefused == ASSUME SettingsInv, NEW p \in puts, Settings!Refused(p) PROVE SettingsInv'
<1>0. /\ FormTyped /\ p.load \in Nat /\ p.load <= load /\ load \in Nat
      /\ p.what \in Settings!Choice \cup {"name", "lan", "wlan", "update"}
      /\ p.what \in Settings!Choice => p.value \in 1 .. 2
      BY DEF SettingsInv, SettingsTyped
<1>1. /\ puts' = {} /\ UNCHANGED <<settings, up, run, polls, load, from>>
      /\ \A c \in Settings!Choice : ChoiceAsked(c) <=> p.load = load /\ p.what = c
      BY TheOnlyChange
         DEF Settings!Refused, Settings!Takes, Settings!Gateway, Settings!Stays, Settings!Browser
<1>2. /\ stale \subseteq stale'
      /\ p.what \in Settings!Choice \ {"mdns"} => p.what \in stale'
      BY DEF Settings!Refused
<1>3. /\ form.done => Settings!Valid(form)
      /\ form.connect => form.key # "short"
      /\ \A c \in Settings!Choice \ stale : form.box[c] # 0
          => form.box[c] = settings[c] \/ ChoiceAsked(c)
      /\ form.box["mdns"] = 1 => form.locked \/ ChoiceAsked("mdns")
      /\ p.load = load /\ p.what \in Settings!Choice /\ p.what \notin stale
          => settings[p.what] = 3 - p.value
      /\ p.load = load /\ p.what = "lan" => Settings!Valid(form)
      /\ p.load = load /\ p.what = "wlan" => form.key # "short"
      BY <1>1
         DEF SettingsInv, NetworkValid, Settings!SentIsValid, BoxesTell, NameLocked, OfThisLoad
<1>4. ASSUME FormTyped', form'.done => Settings!Valid(form'), form'.connect
        => form'.key # "short",
             \A c \in Settings!Choice \ stale' : form'.box[c] # 0 => form'.box[c] = settings[c],
             form'.box["mdns"] = 1 => form'.locked
      PROVE  SettingsInv'
      <2>1. SettingsTyped'
            BY <1>1, <1>4 DEF SettingsInv, SettingsTyped
      <2>2. Settings!ReloadsTheNew'
            BY <1>1 DEF SettingsInv, Settings!ReloadsTheNew
      <2> QED BY <1>1, <1>4, <2>1, <2>2, ChangeEnds
<1>5. \A c \in Settings!Choice : c # "lan" /\ c # "name" /\ c # "wlan" /\ c # "update"
      BY DEF Settings!Choice, Settings!PageOf
<1>6. ASSUME form' = form, p.load = load => p.what # "mdns" PROVE SettingsInv'
      <2>1. \A c \in Settings!Choice \ stale' : ~ChoiceAsked(c)
            BY <1>1, <1>2, <1>6
      <2>2. ~ChoiceAsked("mdns")
            BY <1>1, <1>6, ChoicesAre
      <2> QED BY <1>0, <1>2, <1>3, <1>4, <1>6, <2>1, <2>2 DEF FormTyped
<1>7. CASE p.load = load /\ p.what = "mdns"
      <2>1. form' = [form EXCEPT !.box.mdns = 3 - p.value, !.locked = p.value = 2]
            BY <1>5, <1>7 DEF Settings!Refused
      <2>2. /\ DOMAIN form' = FormFields /\ form'.box = [form.box EXCEPT !["mdns"] = 3 - p.value]
            /\ form'.done = form.done /\ form'.mode = form.mode /\ form'.valid = form.valid
            /\ form'.connect = form.connect /\ form'.key = form.key
                /\ (p.value = 2 => form'.locked)
            BY <1>0, <2>1 DEF FormTyped, FormFields
      <2>3. /\ FormTyped' /\ form'.box["mdns"] = 3 - p.value
            /\ \A c \in Settings!Choice \ {"mdns"} : form'.box[c] = form.box[c]
            BY <1>0, <1>7, <2>2, ChoicesAre DEF FormTyped
      <2> QED BY <1>0, <1>1, <1>2, <1>3, <1>4, <1>7, <2>2, <2>3, ChoicesAre DEF Settings!Valid
<1>8. CASE p.load = load /\ p.what \in {"lan", "wlan"}
      <2>1. form' = IF p.what = "lan" THEN [form EXCEPT !.done = TRUE]
              ELSE [form EXCEPT !.connect = TRUE]
            BY <1>5, <1>8 DEF Settings!Refused
      <2>2. /\ FormTyped' /\ form'.box = form.box /\ form'.mode = form.mode
            /\ form'.valid = form.valid
            /\ form'.key = form.key /\ form'.locked = form.locked
            /\ p.what = "lan" \/ form'.done = form.done
            /\ p.what = "wlan" \/ form'.connect = form.connect
            BY <1>0, <1>8, <2>1 DEF FormTyped, FormFields
      <2> QED BY <1>1, <1>2, <1>3, <1>4, <1>5, <1>8, <2>2, ChoicesAre DEF Settings!Valid
<1>9. CASE p.load = load /\ p.what = "name"
      <2>1. form' = form \/ form' = [form EXCEPT !.name = settings.name]
            BY <1>5, <1>9 DEF Settings!Refused
      <2>2. /\ FormTyped' /\ form'.box = form.box /\ form'.mode = form.mode
            /\ form'.valid = form.valid
            /\ form'.key = form.key /\ form'.locked = form.locked /\ form'.done = form.done
            /\ form'.connect = form.connect
            BY <1>0, <2>1 DEF FormTyped, FormFields
      <2> QED BY <1>1, <1>2, <1>3, <1>4, <1>5, <1>9, <2>2, ChoicesAre DEF Settings!Valid
<1>10. CASE p.load # load
      BY <1>6, <1>10 DEF Settings!Refused
<1>11. CASE p.load = load /\ p.what \in (Settings!Choice \ {"mdns"}) \cup {"update"}
      <2>1. form' = form
            BY <1>5, <1>11 DEF Settings!Refused
      <2> QED BY <1>5, <1>6, <1>11, <2>1, ChoicesAre
<1> QED BY <1>0, <1>7, <1>8, <1>9, <1>10, <1>11

\* The page asks whether the gateway is up again.
LEMMA StatusPolled ==
  ASSUME SettingsInv, ~Hasty, NEW down \in BOOLEAN, Settings!Poll(down)
  PROVE  SettingsInv'
<1>0. UNCHANGED <<settings, up, run, stale, puts>> /\ down \in polls
      BY DEF Settings!Poll, Settings!Gateway
<1>1. CASE up /\ down /\ Settings!Reloaded
      <2>1. \A c \in Settings!Choice : form'.box[c] = 0
            BY <1>1, ReloadedIs
      <2>2. \A p \in puts : p.load \in Nat /\ p.load <= load /\ load' = load + 1 /\ load \in Nat
            BY <1>1, ReloadedIs DEF SettingsInv, SettingsTyped
      <2>3. \A p \in puts : ~OfThisLoad(p)'
            BY <1>0, <2>2 DEF OfThisLoad
      <2>4. SettingsTyped'
            BY <1>0, <1>1, <2>2, ReloadedIs DEF SettingsInv, SettingsTyped
      <2>5. NetworkValid'
            <3>1. \A p \in puts : p.load # load'
                  BY <2>2
            <3> QED BY <1>0, <1>1, <2>3, <3>1, ReloadedIs
               DEF SettingsInv, NetworkValid, Settings!SentIsValid
      <2>6. BoxesTell' /\ NameLocked'
            BY <1>0, <2>1, <2>3, ChoicesAre DEF BoxesTell, NameLocked
      <2>7. OneChange' /\ Settings!ReloadsTheNew'
            BY <1>0, <1>1, ReloadedIs DEF SettingsInv, OneChange, Settings!ReloadsTheNew
      <2> QED BY <2>4, <2>5, <2>6, <2>7 DEF SettingsInv
<1>2. CASE ~up /\ UNCHANGED <<form, fetches, load, from>>
      BY <1>0, <1>2
         DEF SettingsInv, SettingsTyped, FormTyped, OneChange, NetworkValid, Settings!SentIsValid,
             OfThisLoad, ChoiceAsked,
        BoxesTell, NameLocked, Settings!ReloadsTheNew, Settings!Valid
<1> QED BY <1>1, <1>2 DEF Settings!Poll

\* The gateway stops and starts; or another client changes a choice.
LEMMA HostMoves ==
  ASSUME SettingsInv,
         Settings!Stops \/ Settings!Starts \/ \E c \in Settings!Choice : Settings!OtherClient(c)
  PROVE  SettingsInv'
<1>0. UNCHANGED <<form, fetches, puts, polls, load, from>>
      BY DEF Settings!Stops, Settings!Starts, Settings!OtherClient, Settings!Browser
<1>1. /\ stale \subseteq stale' /\ \A c \in Settings!Choice \ stale' : settings'[c] = settings[c]
      /\ DOMAIN settings' = Settings!Choice \cup {"name", "lan"} /\ settings'.lan \in Modes
          /\ \A c \in Settings!Choice : settings'[c] \in 1 .. 2
      <2>1. CASE settings' = settings /\ stale' = stale
            BY <2>1 DEF SettingsInv, SettingsTyped
      <2>2. ASSUME NEW c \in Settings!Choice, Settings!OtherClient(c) PROVE <1>1!1 /\ <1>1!2
            <3>1. settings' = [settings EXCEPT ![c] = 3 - settings[c]] /\ stale' = stale \cup {c}
                    /\ c # "lan"
                  BY <2>2 DEF Settings!OtherClient, Settings!Choice, Settings!PageOf
            <3> QED BY <3>1 DEF SettingsInv, SettingsTyped
      <2> QED BY <2>1, <2>2 DEF Settings!Stops, Settings!Starts
<1>2. run' \in Nat /\ from <= run' /\ (up' /\ up => run' = run) /\ (up' /\ ~up => run' > from)
      BY DEF SettingsInv, SettingsTyped, Settings!Stops, Settings!Starts, Settings!OtherClient
<1>3. \A c : ChoiceAsked(c)' = ChoiceAsked(c)
      BY <1>0 DEF ChoiceAsked, OfThisLoad
<1>4. SettingsTyped'
      BY <1>0, <1>1, <1>2 DEF SettingsInv, SettingsTyped, FormTyped
<1>5. BoxesTell'
      BY <1>0, <1>1, <1>3 DEF SettingsInv, BoxesTell, OfThisLoad
<1>6. NameLocked'
      BY <1>0, <1>3 DEF SettingsInv, NameLocked
<1>7. Settings!ReloadsTheNew'
      BY <1>0, <1>2 DEF SettingsInv, Settings!ReloadsTheNew
<1>8. NetworkValid' /\ OneChange'
      BY <1>0
         DEF SettingsInv, NetworkValid, Settings!SentIsValid, OneChange, OfThisLoad,
             Settings!Valid
<1> QED BY <1>4, <1>5, <1>6, <1>7, <1>8 DEF SettingsInv

\* Every step keeps the invariant.
LEMMA SettingsStep == ASSUME SettingsInv, ~Hasty, [Settings!Next]_settingsVars PROVE SettingsInv'
<1>1. CASE UNCHANGED settingsVars
      BY ZenonT(60), <1>1
         DEF settingsVars, SettingsInv, SettingsTyped, FormTyped, OneChange, NetworkValid,
             Settings!SentIsValid, OfThisLoad, ChoiceAsked,
        BoxesTell, NameLocked, Settings!ReloadsTheNew, Settings!Valid
<1>2. CASE Settings!Next
      BY <1>2, SettingsAnswered, SettingsUnanswered, EthernetSent, WifiSent, UpdateAsked,
          HostMoves, FormShown, JoinShown,
         ChoiceKeeps, NameSent, ModeChosen, AddressEdited, StatusPolled, KeyEdited,
             ChangeAccepted, ChangeRefused DEF Settings!Next
<1> QED BY <1>1, <1>2

-----------------------------------------------------------------------------
(* The pages of the users (UserForms).                                     *)
\* What the constants of the pages of the users are.
LEMMA UsersBounds == Users!UserFormsAssumption
BY PagesAssumption DEF PagesAssumption

\* The clients, what is kept of a second factor, the changes of the form of a user, and the page
\* each change is asked from.
Clients == {Allowed[i] : i \in DOMAIN Allowed}
Factors == [on : BOOLEAN, codes : Nat]
AsksFor(g, u) == [get |-> g, id |-> u]
InForm == {"edit", "enable", "disable", "verify", "renew"}
PageFor(do) == IF do \in InForm THEN "edit"
               ELSE IF do = "add" THEN "add" ELSE IF do = "remove" THEN "users" ELSE "clients"

\* What is of which type; no user has the name of another.
Requests == [get : {"users", "clients", "user"}, id : Users!Everyone]
UsersTyped ==
  /\ DOMAIN accounts \subseteq Users!Everyone /\ Users!NotMixed
  /\ DOMAIN listed \subseteq DOMAIN accounts
  /\ factor \in [Users!Everyone -> Factors]
  /\ clients \subseteq Clients /\ items \in Seq(Clients)
  /\ gets \in Seq(Requests)
  /\ codes \in Seq(Nat)

\* Where the form of a user is open, its answer is the last that comes; and
\* so on the page of the clients.
FormFollows ==
  where = "edit" =>
    /\ id \in DOMAIN accounts
    /\ IF gets = <<>> THEN fields \in {id, "typed"} ELSE gets[Len(gets)] = AsksFor("user", id)
\* The codes that are shown last work.
CodesWork == codes # <<>> => codes[Len(codes)] = factor[id].codes
ClientsFollow ==
  where = "clients" =>
    IF gets = <<>> THEN clients \subseteq {items[i] : i \in DOMAIN items}
    ELSE gets[Len(gets)] = AsksFor("clients", Me)

\* One change is under way, of the page that is shown, which waits for no GET.
ChangeOfPage ==
  /\ \A c, d \in call : c = d
  /\ \A c \in call :
       /\ gets = <<>>
       /\ c.do \in InForm \cup {"add", "remove", "revoke"} /\ where = PageFor(c.do)
       /\ c.do \in InForm => c.id = id
       /\ c.do = "edit" => c.with \in {id, "typed"}
       /\ c.do = "revoke" => c.with \in DOMAIN items /\ items[c.with] = c.id

\* The inductive invariant of the users.
UsersInv == UsersTyped /\ FormFollows /\ CodesWork /\ ClientsFollow /\ ChangeOfPage

\* What the invariant says of the users.
LEMMA UsersApart == UsersInv => Users!UsersKeptApart
BY
   DEF UsersInv, UsersTyped, FormFollows, CodesWork, ClientsFollow, Users!UsersKeptApart,
       Users!NotMixed, Users!FormIsHis,
  Users!AllCanBeRevoked, Users!Quiet

\* The invariant holds at first.
LEMMA UsersStart == Users!Init => UsersInv
<1> SUFFICES ASSUME Users!Init PROVE UsersInv
    OBVIOUS
<1>1. accounts = [u \in User |-> u] /\ listed = [u \in {} |-> FALSE] /\ clients = Clients
      /\ factor = [u \in Users!Everyone |-> [on |-> FALSE, codes |-> 0]]
      /\ where = "menu" /\ codes = <<>> /\ items = <<>> /\ gets = <<>> /\ call = {}
      BY DEF Users!Init, Clients
<1>2. factor \in [Users!Everyone -> Factors]
      BY <1>1 DEF Factors
<1>3. DOMAIN accounts \subseteq Users!Everyone /\ Users!NotMixed
        /\ DOMAIN listed \subseteq DOMAIN accounts
      BY <1>1 DEF Users!Everyone, Users!NotMixed
<1> QED BY <1>1, <1>2, <1>3
   DEF UsersInv, UsersTyped, FormFollows, CodesWork, ClientsFollow, ChangeOfPage

\* The clients that are listed are those that are authorized.
LEMMA AuthorizedAre ==
  ASSUME UsersInv
  PROVE  Users!Authorized \in Seq(Clients) /\ \A c \in clients : \E k \in DOMAIN Users!Authorized :
             Users!Authorized[k] = c
<1> DEFINE still == {i \in DOMAIN Allowed : Allowed[i] \in clients}
<1>0. Allowed \in Seq(Clients)
      BY UsersBounds DEF Users!UserFormsAssumption, Clients
<1>1. DOMAIN Allowed = 1 .. Len(Allowed) /\ Len(Allowed) \in Nat
        /\ still \subseteq 1 .. Len(Allowed) /\ still \subseteq Nat
      BY <1>0
<1>6. IsFiniteSet(1 .. Len(Allowed))
      BY <1>1, FS_Interval
<1>2. IsFiniteSet(still)
      <2> HIDE DEF still
      <2> QED BY <1>1, <1>6, FS_Subset
<1>3. Users!Authorized = [k \in 1 .. Cardinality(still) |-> Allowed[NthOf(still, k)]]
      BY Zenon DEF Users!Authorized, NthOf, Users!Cardinality, Cardinality
<1>4. \A i \in still : Allowed[i] \in Clients
      BY DEF Clients
<1>5. \A c \in clients : \E i \in still : Allowed[i] = c
      BY DEF UsersInv, UsersTyped, Clients
<1> HIDE DEF still
<1>7. /\ Cardinality(still) \in Nat
      /\ \A k \in 1 .. Cardinality(still) : NthOf(still, k) \in still
      /\ \A i \in still : \E k \in 1 .. Cardinality(still) : NthOf(still, k) = i
      BY <1>1, <1>2, EachIsNth
<1>8. Users!Authorized \in Seq(Clients)
      BY <1>3, <1>4, <1>7
<1>9. ASSUME NEW c \in clients PROVE \E k \in DOMAIN Users!Authorized : Users!Authorized[k] = c
      <2>1. PICK i \in still : Allowed[i] = c
            BY <1>5
      <2>2. PICK k \in 1 .. Cardinality(still) : NthOf(still, k) = i
            BY <1>7
      <2> QED BY <1>3, <2>1, <2>2
<1> QED BY <1>8, <1>9

\* A sequence with one more.
LEMMA OneAsked ==
  ASSUME NEW S, NEW s \in Seq(S), NEW e \in S
  PROVE  Append(s, e) \in Seq(S) /\ Append(s, e) # <<>> /\ Append(s, e)[Len(Append(s, e))] = e
OBVIOUS

\* A sequence without one of its elements.
LEMMA Without ==
  ASSUME NEW S, NEW s \in Seq(S), NEW n \in DOMAIN s
  PROVE  LET t == SubSeq(s, 1, n - 1) \o SubSeq(s, n + 1, Len(s)) IN
         t \in Seq(S) /\ \A i \in DOMAIN s : i # n => \E j \in DOMAIN t : t[j] = s[i]
<1> DEFINE a == SubSeq(s, 1, n - 1)
           b == SubSeq(s, n + 1, Len(s))
<1>1. /\ Len(s) \in Nat /\ Len(s) \in Int /\ n \in 1 .. Len(s) /\ n \in Int /\ n - 1 \in Int
      /\ n + 1 \in Int
      /\ DOMAIN s = 1 .. Len(s) /\ \A i \in 1 .. Len(s) : s[i] \in S
      OBVIOUS
<1>2. (\A i \in 1 .. n - 1 : s[i] \in S) /\ \A i \in n + 1 .. Len(s) : s[i] \in S
      BY <1>1
<1>3. a \in Seq(S) /\ Len(a) = IF 1 <= n - 1 THEN n - 1 - 1 + 1 ELSE 0
      BY <1>1, <1>2, SubSeqProperties
<1>4. \A i \in 1 .. n - 1 - 1 + 1 : a[i] = s[1 + i - 1]
      BY <1>1, <1>2, SubSeqProperties
<1>5. b \in Seq(S) /\ Len(b) = IF n + 1 <= Len(s) THEN Len(s) - (n + 1) + 1 ELSE 0
      BY <1>1, <1>2, SubSeqProperties
<1>6. \A i \in 1 .. Len(s) - (n + 1) + 1 : b[i] = s[n + 1 + i - 1]
      <2> DEFINE m == n + 1
      <2>1. m \in Int /\ Len(s) \in Int /\ \A i \in m .. Len(s) : s[i] \in S
            BY <1>1, <1>2
      <2> HIDE DEF m
      <2>2. \A i \in 1 .. Len(s) - m + 1 : SubSeq(s, m, Len(s))[i] = s[m + i - 1]
            BY <2>1, SubSeqProperties
      <2> QED BY <2>2 DEF m
<1> HIDE DEF a, b
<1>7. Len(a) = n - 1 /\ Len(b) = Len(s) - n
      BY <1>1, <1>3, <1>5
<1>8. (\A i \in 1 .. n - 1 : a[i] = s[i]) /\ \A i \in 1 .. Len(s) - n : b[i] = s[n + i]
      <2>1. n - 1 - 1 + 1 = n - 1 /\ Len(s) - (n + 1) + 1 = Len(s) - n
            BY <1>1
      <2>2. \A i \in Int : 1 + i - 1 = i /\ n + 1 + i - 1 = n + i
            BY <1>1
      <2>3. (1 .. n - 1 \subseteq Int) /\ (1 .. Len(s) - n \subseteq Int)
            BY <1>1
      <2>4. ASSUME NEW i \in 1 .. n - 1 PROVE a[i] = s[i]
            BY <1>4, <2>1, <2>2, <2>3
      <2>5. ASSUME NEW i \in 1 .. Len(s) - n PROVE b[i] = s[n + i]
            BY <1>6, <2>1, <2>2, <2>3
      <2> QED BY <2>4, <2>5
<1>9. (a \o b) \in Seq(S) /\ DOMAIN (a \o b) = 1 .. (Len(s) - 1)
      <2>1. a \in Seq(S) /\ b \in Seq(S)
            BY <1>3, <1>5
      <2>2. (a \o b) \in Seq(S) /\ Len(a \o b) = Len(a) + Len(b)
            BY <2>1
      <2>3. Len(a) + Len(b) = Len(s) - 1
            BY <1>1, <1>7
      <2> QED BY <2>2, <2>3
<1>10. ASSUME NEW i \in 1 .. Len(s), i # n PROVE \E j \in DOMAIN (a \o b) : (a \o b)[j] = s[i]
      <2>1. CASE i < n
            <3>1. i \in 1 .. n - 1 /\ i \in 1 .. (Len(s) - 1)
                  BY <1>1, <2>1
            <3>2. (a \o b)[i] = a[i]
                  BY <1>3, <1>5, <1>7, <3>1
            <3> QED BY <1>8, <1>9, <3>1, <3>2
      <2>2. CASE i > n
            <3>0. i \in Int /\ 1 <= i /\ i <= Len(s)
                  BY <1>1
            <3>1. i - n \in 1 .. Len(s) - n /\ i - 1 \in 1 .. (Len(s) - 1) /\ n + (i - n) = i
                    /\ i - 1 = Len(a) + (i - n)
                  BY <1>1, <1>7, <2>2, <3>0
            <3>2. \A k \in 1 .. Len(b) : (a \o b)[Len(a) + k] = b[k]
                  <4>1. a \in Seq(S) /\ b \in Seq(S)
                        BY <1>3, <1>5
                  <4>2. Len(a) \in Nat /\ Len(b) \in Nat /\ DOMAIN b = 1 .. Len(b)
                        BY <4>1
                  <4>3. ASSUME NEW k \in 1 .. Len(b) PROVE (a \o b)[Len(a) + k] = b[k]
                        BY <4>1, <4>2, ConcatProperties
                  <4> QED BY <4>3
            <3>3. (a \o b)[i - 1] = b[i - n]
                  BY <1>7, <3>1, <3>2
            <3> QED BY <1>8, <1>9, <3>1, <3>3
      <2> QED BY <1>1, <1>10, <2>1, <2>2
<1>11. (a \o b) \in Seq(S) /\ \A i \in DOMAIN s : i # n => \E j \in DOMAIN (a \o b) :
         (a \o b)[j] = s[i]
      BY <1>1, <1>9, <1>10
<1> QED BY <1>11 DEF a, b

\* A sequence without its first.
LEMMA OneAnswered ==
  ASSUME NEW S, NEW s \in Seq(S), s # <<>>
  PROVE  LET t == SubSeq(s, 1, 0) \o SubSeq(s, 2, Len(s)) IN
         /\ t \in Seq(S) /\ (t = <<>> => s[1] = s[Len(s)]) /\ (t # <<>> => t[Len(t)] = s[Len(s)])
<1> DEFINE t == SubSeq(s, 1, 0) \o SubSeq(s, 2, Len(s))
<1>1. Len(s) \in Nat /\ Len(s) >= 1 /\ \A i \in 1 .. Len(s) : s[i] \in S
      OBVIOUS
<1>2. SubSeq(s, 2, Len(s)) \in Seq(S) /\ Len(SubSeq(s, 2, Len(s))) = Len(s) - 1
      /\ \A i \in 1 .. Len(s) - 1 : SubSeq(s, 2, Len(s))[i] = s[i + 1]
      <2>1. \A i \in 2 .. Len(s) : s[i] \in S
            BY <1>1
      <2>2. SubSeq(s, 2, Len(s)) \in Seq(S)
            BY <1>1, <2>1, SubSeqProperties
      <2>3. Len(SubSeq(s, 2, Len(s))) = IF 2 <= Len(s) THEN Len(s) - 2 + 1 ELSE 0
            BY <1>1, <2>1, SubSeqProperties
      <2>4. \A i \in 1 .. Len(s) - 2 + 1 : SubSeq(s, 2, Len(s))[i] = s[2 + i - 1]
            BY <1>1, <2>1, SubSeqProperties
      <2>5. Len(s) - 2 + 1 = Len(s) - 1 /\ \A i \in 1 .. Len(s) - 1 : 2 + i - 1 = i + 1
            BY <1>1
      <2> QED BY <1>1, <2>2, <2>3, <2>4, <2>5
<1>3. SubSeq(s, 1, 0) = <<>>
      BY SubSeqEmpty
<1>4. t = SubSeq(s, 2, Len(s))
      BY <1>2, <1>3
<1> HIDE DEF t
<1>5. t = <<>> => Len(s) = 1
      <2>1. t = <<>> => Len(t) = 0
            OBVIOUS
      <2>2. Len(t) = Len(s) - 1
            BY <1>2, <1>4
      <2> QED BY <1>1, <2>1, <2>2
<1>6. t # <<>> => t[Len(t)] = s[Len(s)]
      BY <1>1, <1>2, <1>4
<1> QED BY <1>1, <1>2, <1>4, <1>5, <1>6 DEF t

\* Another page is opened: no change is under way, and the page waits for the answer it asked.
LEMMA PageOpened ==
  ASSUME UsersInv, ~Hasty, NEW to, Users!Goes(to), DOMAIN listed' = DOMAIN listed,
         \/ to = "users" /\ Users!Asks("users", Me) /\ UNCHANGED Users!Form
         \/ to = "add" /\ UNCHANGED <<gets, Users!Form>>
         \/ to = "clients" /\ Users!Asks("clients", Me) /\ UNCHANGED Users!Form
         \/ to = "edit" /\ id' \in DOMAIN listed /\ Users!Asks("user", id') /\ codes' = <<>>
  PROVE  UsersInv'
<1>1. /\ call = {} /\ call' = {} /\ where' = to /\ UNCHANGED <<accounts, factor, clients, items>>
      BY DEF Users!Goes, Users!Kept
<1>2. Me \in Users!Everyone
      BY UsersBounds DEF Users!UserFormsAssumption, Users!Everyone
<1>3. ASSUME NEW g \in {"users", "clients", "user"}, NEW u \in Users!Everyone, Users!Asks(g, u)
      PROVE  gets' \in Seq(Requests) /\ gets' # <<>> /\ gets'[Len(gets')] = AsksFor(g, u)
      <2>1. gets' = Append(gets, AsksFor(g, u)) /\ AsksFor(g, u) \in Requests
              /\ gets \in Seq(Requests)
            BY <1>3 DEF Users!Asks, AsksFor, UsersInv, UsersTyped, Requests
      <2> QED BY <2>1, OneAsked
<1>4. id' \in Users!Everyone \/ to # "edit"
      BY DEF UsersInv, UsersTyped
<1>5. codes' = <<>> \/ UNCHANGED <<id, codes>>
      BY DEF Users!Form
<1>6. UsersTyped'
      <2>1. gets' \in Seq(Requests)
            BY <1>2, <1>3, <1>4 DEF UsersInv, UsersTyped
      <2>2. codes' \in Seq(Nat)
            <3>1. <<>> \in Seq(Nat) /\ codes \in Seq(Nat)
                  BY DEF UsersInv, UsersTyped
            <3> QED BY <1>5, <3>1
      <2> QED BY <1>1, <2>1, <2>2 DEF UsersInv, UsersTyped, Users!NotMixed
<1>7. FormFollows'
      BY <1>1, <1>3, <1>4 DEF UsersInv, UsersTyped, FormFollows
<1>8. CodesWork'
      BY <1>1, <1>5 DEF UsersInv, CodesWork
<1>9. ClientsFollow' /\ ChangeOfPage'
      BY <1>1, <1>2, <1>3 DEF ClientsFollow, ChangeOfPage
<1> QED BY <1>6, <1>7, <1>8, <1>9 DEF UsersInv

\* The first GET is answered.
LEMMA UsersAnswered == ASSUME UsersInv, ~Overtakes, Users!Answered PROVE UsersInv'
<1> DEFINE g == gets[1]
<1>1. PICK n \in DOMAIN gets : /\ n = 1
                               /\ gets' = SubSeq(gets, 1, n - 1) \o SubSeq(gets, n + 1, Len(gets))
                               /\ Users!Got(gets[n])
      BY DEF Users!Answered
<1>2. UNCHANGED <<accounts, factor, clients, where, call>>
      BY DEF Users!Answered, Users!Kept
<1>3. /\ gets # <<>> /\ g \in [get : {"users", "clients", "user"}, id : Users!Everyone]
      /\ gets' \in Seq(Requests)
      /\ gets' = <<>> => g = gets[Len(gets)]
      /\ gets' # <<>> => gets'[Len(gets')] = gets[Len(gets)]
      <2>1. gets \in Seq(Requests) /\ gets # <<>> /\ g \in Requests
            BY <1>1 DEF UsersInv, UsersTyped
      <2>2. gets' = SubSeq(gets, 1, 0) \o SubSeq(gets, 2, Len(gets))
            BY <1>1
      <2> QED BY <2>1, <2>2, OneAnswered DEF Requests
<1>4. call = {}
      BY <1>3 DEF UsersInv, ChangeOfPage
<1>5. Users!Got(g)
      BY <1>1
<1>6. UNCHANGED <<id, codes>>
      BY <1>3, <1>5 DEF Users!Got, Users!Form
<1>7. DOMAIN listed' \subseteq DOMAIN accounts
      BY <1>3, <1>5 DEF Users!Got, UsersInv, UsersTyped
<1>8. ASSUME g.get = "clients"
      PROVE  items' \in Seq(Clients) /\ clients \subseteq {items'[i] : i \in DOMAIN items'}
      <2>1. items' = Users!Walked(items) \o Users!Authorized
            BY <1>5, <1>8 DEF Users!Got
      <2>2. Users!Walked(items) \in Seq(Clients)
            BY DEF Users!Walked, UsersInv, UsersTyped
      <2>3. /\ items' \in Seq(Clients) /\ Len(Users!Walked(items)) \in Nat
            /\ \A k \in DOMAIN Users!Authorized :
                 /\ Len(Users!Walked(items)) + k \in DOMAIN items'
                 /\ items'[Len(Users!Walked(items)) + k] = Users!Authorized[k]
            BY <2>1, <2>2, AuthorizedAre
      <2> QED BY <2>3, AuthorizedAre
<1>9. g.get # "clients" => items' = items
      BY <1>3, <1>5 DEF Users!Got
<1>10. g.get = "user" /\ g.id \in DOMAIN accounts => fields' \in {g.id, "typed"}
      BY <1>5 DEF Users!Got, UsersInv, UsersTyped, Users!NotMixed
<1> HIDE DEF g
<1>11. UsersTyped'
      BY <1>2, <1>3, <1>6, <1>7, <1>8, <1>9 DEF UsersInv, UsersTyped, Users!NotMixed
<1>12. FormFollows'
      BY <1>2, <1>3, <1>6, <1>10 DEF UsersInv, FormFollows, AsksFor
<1>13. CodesWork'
      BY <1>2, <1>6 DEF UsersInv, CodesWork
<1>14. ClientsFollow' /\ ChangeOfPage'
      BY <1>2, <1>3, <1>4, <1>8 DEF UsersInv, ClientsFollow, ChangeOfPage, AsksFor
<1> QED BY <1>11, <1>12, <1>13, <1>14 DEF UsersInv

\* The user does something on a page that waits for nothing: a change may be sent.
LEMMA PageUsed ==
  ASSUME UsersInv, gets = <<>>,
         UNCHANGED <<accounts, factor, clients, where, id, gets, codes, items>>,
             DOMAIN listed' = DOMAIN listed,
         fields' = fields \/ fields' = "typed",
         call' = {} \/ \E c : /\ call' = {c}
                              /\ c.do \in InForm \cup {"add", "remove", "revoke"}
                              /\ where = PageFor(c.do)
                              /\ c.do \in InForm => c.id = id
                              /\ c.do = "edit" => c.with = fields
                              /\ c.do = "revoke"
                                  => c.with \in DOMAIN items /\ items[c.with] = c.id
  PROVE  UsersInv'
<1>1. UsersTyped'
      BY DEF UsersInv, UsersTyped, Users!NotMixed
<1>2. FormFollows' /\ CodesWork' /\ ClientsFollow'
      BY DEF UsersInv, FormFollows, CodesWork, ClientsFollow
<1>3. ChangeOfPage'
      BY DEF UsersInv, FormFollows, ChangeOfPage, PageFor, InForm
<1> QED BY <1>1, <1>2, <1>3 DEF UsersInv

\* What the user does, he does where nothing is under way.
LEMMA DoesIs ==
  ASSUME UsersInv, ~Hasty, NEW shownPage, Users!Does(shownPage)
  PROVE  gets = <<>> /\ call = {} /\ where = shownPage /\ UNCHANGED <<accounts, factor, clients,
         where, id, gets>>
BY DEF Users!Does, Users!Quiet, Users!Kept

\* A name is typed.
LEMMA NameTyped == ASSUME UsersInv, ~Hasty, Users!Type PROVE UsersInv'
<1>1. Users!Does("edit") /\ fields' = "typed" /\ UNCHANGED <<listed, codes, items, call>>
      BY DEF Users!Type
<1> QED BY <1>1, DoesIs, PageUsed

\* A form is sent.
LEMMA FormSent ==
  ASSUME UsersInv, ~Hasty, NEW shownPage \in {"edit", "add"}, NEW repeated \in BOOLEAN,
         Users!Submit(shownPage, repeated)
  PROVE  UsersInv'
<1> DEFINE c == [do |-> shownPage, id |-> id, with |-> fields]
<1>1. Users!Does(shownPage) /\ UNCHANGED <<listed, fields, codes, items>>
      BY DEF Users!Submit
<1>2. call' = call \/ call' = call \cup {c}
      BY DEF Users!Submit, Users!Asked
<1>3. c.do = shownPage /\ c.id = id /\ c.with = fields
      OBVIOUS
<1> HIDE DEF c
<1>4. PageFor(shownPage) = shownPage /\ shownPage \in InForm \cup {"add", "remove", "revoke"}
        /\ shownPage # "revoke"
      BY DEF PageFor, InForm
<1>5. call' = {} \/ call' = {c}
      BY <1>1, <1>2, DoesIs
<1> QED BY <1>1, <1>3, <1>4, <1>5, DoesIs, PageUsed

\* A user is removed from the list.
LEMMA RemovalAsked == ASSUME UsersInv, ~Hasty, NEW u, Users!Remove(u) PROVE UsersInv'
<1> DEFINE c == [do |-> "remove", id |-> u, with |-> "none"]
<1>1. Users!Does("users") /\ UNCHANGED <<fields, codes, items>> /\ call' = call \cup {c}
      /\ DOMAIN listed' = DOMAIN listed
      BY DEF Users!Remove, Users!Asked
<1>3. c.do = "remove" /\ PageFor(c.do) = "users"
      BY DEF PageFor, InForm
<1>4. c.do \notin InForm
      BY DEF InForm
<1> HIDE DEF c
<1>5. call' = {c}
      BY <1>1, DoesIs
<1> QED BY <1>1, <1>3, <1>4, <1>5, DoesIs, PageUsed

\* What is asked about the second factor.
LEMMA FactorAsked ==
  ASSUME UsersInv, ~Hasty, Users!Switch \/ Users!Renew \/ \E code : Users!Verify(code)
  PROVE  UsersInv'
<1>1. Users!Does("edit") /\ UNCHANGED <<listed, fields, codes, items>>
      BY DEF Users!Switch, Users!Renew, Users!Verify
<1>2. \E do, with : /\ do \in {"enable", "disable", "verify", "renew"}
                     /\ call' = call \cup {[do |-> do, id |-> id, with |-> with]}
      <2> DEFINE other == IF checked THEN "disable" ELSE "enable"
                 first == "verify"
      <2>1. CASE Users!Switch
            <3>1. call' = call \cup {[do |-> other, id |-> id, with |-> "none"]}
                  BY <2>1 DEF Users!Switch, Users!Asked
            <3>2. other \in {"enable", "disable", "verify", "renew"}
                  OBVIOUS
            <3> HIDE DEF other
            <3> QED BY <3>1, <3>2
      <2>2. CASE Users!Renew
            BY <2>2 DEF Users!Renew, Users!Asked
      <2>3. ASSUME NEW code, Users!Verify(code) PROVE <1>2
            <3>1. call' = call \cup {[do |-> first, id |-> id, with |-> code]}
                  BY <2>3 DEF Users!Verify, Users!Asked
            <3>2. first \in {"enable", "disable", "verify", "renew"}
                  OBVIOUS
            <3> HIDE DEF first
            <3> QED BY <3>1, <3>2
      <2> QED BY <2>1, <2>2, <2>3
<1>3. PICK do, with : /\ do \in {"enable", "disable", "verify", "renew"}
                      /\ call' = call \cup {[do |-> do, id |-> id, with |-> with]}
      BY <1>2
<1> DEFINE c == [do |-> do, id |-> id, with |-> with]
<1>4. c.do = do /\ c.id = id
      OBVIOUS
<1>5. PageFor(do) = "edit" /\ do \in InForm /\ do # "edit" /\ do # "revoke"
      BY <1>3 DEF PageFor, InForm
<1>6. call' = call \cup {c}
      BY <1>3
<1> HIDE DEF c
<1>7. call' = {c}
      BY <1>1, <1>6, DoesIs
<1> QED BY <1>1, <1>4, <1>5, <1>7, DoesIs, PageUsed

\* A client is revoked.
LEMMA RevokeAsked ==
  ASSUME UsersInv, ~Hasty, NEW i \in DOMAIN items, Users!Revoke(i)
  PROVE  UsersInv'
<1> DEFINE c == [do |-> "revoke", id |-> items[i], with |-> i]
<1>1. Users!Does("clients") /\ UNCHANGED <<listed, fields, codes, items>> /\ call' = call \cup {c}
      BY DEF Users!Revoke, Users!Asked
<1>3. c.do = "revoke" /\ PageFor(c.do) = "clients" /\ c.id = items[i] /\ c.with = i
      BY DEF PageFor, InForm
<1>4. c.do \notin InForm
      BY DEF InForm
<1> HIDE DEF c
<1>5. call' = {c}
      BY <1>1, DoesIs
<1> QED BY <1>1, <1>3, <1>4, <1>5, DoesIs, PageUsed

\* The one change that was under way is answered.
LEMMA TheChange ==
  ASSUME UsersInv, NEW c \in call, Users!Answer(c)
  PROVE  /\ call' = {} /\ gets = <<>>
         /\ c.do \in InForm \cup {"add", "remove", "revoke"} /\ where = PageFor(c.do)
         /\ c.do \in InForm => c.id = id
         /\ c.do = "edit" => c.with \in {id, "typed"}
         /\ c.do = "revoke" => c.with \in DOMAIN items /\ items[c.with] = c.id
BY DEF UsersInv, ChangeOfPage, Users!Answer

\* The gateway stores a user.
LEMMA UserStored ==
  ASSUME UsersInv, call' = {}, gets = <<>>, NEW c, NEW u \in Users!Everyone,
         NEW what \in {u, "typed"}, Users!Stored(c, u, what)
  PROVE  UsersInv'
<1>1. /\ accounts' = [v \in DOMAIN accounts \cup {u} |-> IF v = u THEN what ELSE accounts[v]]
      /\ where' = "users" /\ gets' = Append(gets, AsksFor("users", Me))
      /\ UNCHANGED <<factor, clients, listed, id, codes, items>>
      BY DEF Users!Stored, Users!Asks, AsksFor
<1>2. gets' \in Seq(Requests)
      <2>1. AsksFor("users", Me) \in Requests
            BY UsersBounds DEF Users!UserFormsAssumption, Requests, AsksFor, Users!Everyone
      <2> QED BY <1>1, <2>1, OneAsked DEF UsersInv, UsersTyped
<1>3. DOMAIN accounts' \subseteq Users!Everyone /\ Users!NotMixed'
        /\ DOMAIN listed' \subseteq DOMAIN accounts'
      BY <1>1 DEF UsersInv, UsersTyped, Users!NotMixed
<1>4. UsersTyped'
      BY <1>1, <1>2, <1>3 DEF UsersInv, UsersTyped
<1> QED BY <1>1, <1>4 DEF UsersInv, FormFollows, CodesWork, ClientsFollow, ChangeOfPage

\* A change is refused.
LEMMA UserRefused == ASSUME UsersInv, call' = {}, Users!Refused PROVE UsersInv'
BY
   DEF Users!Refused, Users!Kept, UsersInv, UsersTyped, Users!NotMixed, FormFollows, CodesWork,
       ClientsFollow, ChangeOfPage

\* The form of a user is answered.
LEMMA EditAnswered == ASSUME UsersInv, NEW c \in call, Users!SaveEdit(c) PROVE UsersInv'
<1>1. call' = {} /\ gets = <<>> /\ c.id = id /\ c.with \in {id, "typed"}
      BY TheChange DEF Users!SaveEdit, InForm
<1>2. CASE c.id \in DOMAIN accounts /\ Users!Stored(c, c.id, c.with)
      BY <1>1, <1>2, UserStored DEF UsersInv, UsersTyped
<1> QED BY <1>1, <1>2, UserRefused DEF Users!SaveEdit

\* The form of a new user is answered.
LEMMA NewAnswered == ASSUME UsersInv, NEW c \in call, Users!SaveNew(c) PROVE UsersInv'
<1>1. call' = {} /\ gets = <<>> /\ Newcomer \in Users!Everyone
      BY TheChange DEF Users!SaveNew, Users!Everyone
<1>2. CASE Users!Stored(c, Newcomer, "typed")
      BY <1>1, <1>2, UserStored
<1> QED BY <1>1, <1>2, UserRefused DEF Users!SaveNew

\* A user is removed.
LEMMA UserRemoved == ASSUME UsersInv, NEW c \in call, Users!Removed(c) PROVE UsersInv'
<1>1. /\ accounts' = [u \in DOMAIN accounts \ {c.id} |-> accounts[u]]
      /\ listed' = [u \in DOMAIN listed \ {c.id} |-> listed[u]]
      /\ UNCHANGED <<factor, clients, where, id, fields, codes, items, gets>>
      BY DEF Users!Removed
<1>2. call' = {} /\ gets = <<>> /\ where = "users"
      BY TheChange DEF Users!Removed, PageFor, InForm
<1>3. DOMAIN accounts' \subseteq Users!Everyone /\ Users!NotMixed'
        /\ DOMAIN listed' \subseteq DOMAIN accounts'
      BY <1>1 DEF UsersInv, UsersTyped, Users!NotMixed
<1>4. UsersTyped'
      BY <1>1, <1>3 DEF UsersInv, UsersTyped
<1> QED BY <1>1, <1>2, <1>4 DEF UsersInv, FormFollows, CodesWork, ClientsFollow, ChangeOfPage

\* The second factor of the user the form is for changes, and the codes that are shown follow.
LEMMA FactorChanges ==
  ASSUME UsersInv, NEW c \in call, Users!Answer(c), c.do \in InForm, Users!Rest,
         NEW on \in BOOLEAN, NEW n \in Nat,
         \/ UNCHANGED <<factor, codes>>
         \/ Users!Factor(c, on, n) /\ codes' = <<n>>
         \/ Users!Factor(c, on, n) /\ codes' = Append(codes, n)
         \/ Users!Factor(c, on, n) /\ codes' = codes /\ n = factor[c.id].codes
  PROVE  UsersInv'
<1>1. UNCHANGED <<accounts, clients, where, listed, id, fields, items, gets>>
      BY DEF Users!Rest
<1>2. call' = {} /\ gets = <<>> /\ where = "edit" /\ c.id = id
      BY TheChange DEF PageFor
<1>3. id \in Users!Everyone
      BY <1>2 DEF UsersInv, UsersTyped, FormFollows
<1>4. factor' \in [Users!Everyone -> Factors]
      <2>1. [on |-> on, codes |-> n] \in Factors
            BY DEF Factors
      <2> QED BY <2>1 DEF Users!Factor, UsersInv, UsersTyped
<1>5. /\ codes' \in Seq(Nat)
      /\ codes' = codes \/ (codes' # <<>> /\ codes'[Len(codes')] = n)
      <2>1. codes \in Seq(Nat)
            BY DEF UsersInv, UsersTyped
      <2>2. <<n>> \in Seq(Nat) /\ <<n>> # <<>> /\ <<n>>[Len(<<n>>)] = n
            OBVIOUS
      <2>3. Append(codes, n) \in Seq(Nat) /\ Append(codes, n) # <<>>
              /\ Append(codes, n)[Len(Append(codes, n))] = n
            BY <2>1, OneAsked
      <2>4. codes' = codes \/ codes' = <<n>> \/ codes' = Append(codes, n)
            OBVIOUS
      <2> QED BY <2>1, <2>2, <2>3, <2>4
<1>6. CodesWork'
      <2>1. CASE UNCHANGED <<factor, codes>>
            BY <1>1, <2>1 DEF UsersInv, CodesWork
      <2>2. CASE Users!Factor(c, on, n)
            <3>1. factor'[id].codes = n
                  BY <1>2, <1>3, <2>2 DEF Users!Factor, UsersInv, UsersTyped
            <3>2. codes' = codes /\ ~UNCHANGED <<factor, codes>>
                    => n = factor[id].codes \/ codes' = <<n>> \/ codes' = Append(codes, n)
                  BY <1>2
            <3> QED BY <1>1, <1>2, <1>5, <3>1, <2>1 DEF UsersInv, CodesWork
      <2> QED BY <2>1, <2>2
<1>7. UsersTyped'
      BY <1>1, <1>4, <1>5 DEF UsersInv, UsersTyped, Users!NotMixed
<1>8. FormFollows' /\ ClientsFollow' /\ ChangeOfPage'
      BY <1>1, <1>2 DEF UsersInv, FormFollows, ClientsFollow, ChangeOfPage
<1> QED BY <1>6, <1>7, <1>8 DEF UsersInv

\* What was asked about the second factor is answered.
LEMMA FactorAnswered ==
  ASSUME UsersInv, NEW c \in call,
         Users!Enabled(c) \/ Users!Disabled(c) \/ Users!Verified(c) \/ Users!Renewed(c)
  PROVE  UsersInv'
<1>1. Users!Answer(c) /\ c.do \in InForm /\ Users!Rest
      BY DEF Users!Enabled, Users!Disabled, Users!Verified, Users!Renewed, InForm
<1>2. factor[c.id] \in Factors
      BY <1>1, TheChange DEF PageFor, UsersInv, UsersTyped, FormFollows
<1>3. factor[c.id].on \in BOOLEAN /\ factor[c.id].codes \in Nat /\ factor[c.id].codes + 1 \in Nat
      BY <1>2 DEF Factors
<1>4. CASE Users!Enabled(c)
      BY <1>1, <1>4, FactorChanges, 0 \in Nat DEF Users!Enabled
<1>5. CASE Users!Disabled(c)
      BY <1>1, <1>3, <1>5, FactorChanges DEF Users!Disabled
<1>6. CASE Users!Verified(c)
      BY <1>1, <1>3, <1>6, FactorChanges DEF Users!Verified
<1>7. CASE Users!Renewed(c)
      BY <1>1, <1>3, <1>7, FactorChanges DEF Users!Renewed
<1> QED BY <1>4, <1>5, <1>6, <1>7

\* A client is gone.
LEMMA ClientRevoked == ASSUME UsersInv, NEW c \in call, Users!Revoked(c) PROVE UsersInv'
<1> DEFINE n == c.with
<1>1. /\ clients' = clients \ {c.id}
      /\ items' = IF c.id \notin clients \/ n \notin DOMAIN items THEN items
                  ELSE SubSeq(items, 1, n - 1) \o SubSeq(items, n + 1, Len(items))
      /\ UNCHANGED <<accounts, factor, where, listed, id, fields, codes, gets>>
      BY DEF Users!Revoked
<1>2. call' = {} /\ gets = <<>> /\ where = "clients" /\ n \in DOMAIN items /\ items[n] = c.id
      BY TheChange DEF Users!Revoked, PageFor, InForm
<1>3. /\ items' \in Seq(Clients)
      /\ \A i \in DOMAIN items : items[i] # c.id => \E j \in DOMAIN items' : items'[j] = items[i]
      <2>1. items \in Seq(Clients)
            BY DEF UsersInv, UsersTyped
      <2>2. CASE items' = items
            BY <2>1, <2>2
      <2>3. CASE items' = SubSeq(items, 1, n - 1) \o SubSeq(items, n + 1, Len(items))
            BY <1>2, <2>1, <2>3, Without
      <2> QED BY <1>1, <2>2, <2>3
<1>4. UsersTyped'
      BY <1>1, <1>3 DEF UsersInv, UsersTyped, Users!NotMixed
<1>5. ClientsFollow'
      <2>1. ASSUME NEW c2 \in clients, c2 # c.id PROVE \E j \in DOMAIN items' : items'[j] = c2
            <3>1. PICK i \in DOMAIN items : items[i] = c2
                  BY <1>2, <2>1 DEF UsersInv, ClientsFollow
            <3> QED BY <1>3, <2>1, <3>1
      <2> QED BY <1>1, <1>2, <2>1 DEF ClientsFollow
<1> QED BY <1>1, <1>2, <1>4, <1>5 DEF UsersInv, FormFollows, CodesWork, ChangeOfPage

\* Every step keeps the invariant.
LEMMA UsersStep ==
  ASSUME UsersInv, ~Hasty, ~Overtakes, [Users!Next]_usersVars
  PROVE  UsersInv'
<1>1. CASE UNCHANGED usersVars
      BY <1>1
         DEF usersVars, UsersInv, UsersTyped, Users!NotMixed, FormFollows, CodesWork,
             ClientsFollow, ChangeOfPage
<1>2. CASE Users!ShowUsers \/ Users!ShowAdd \/ Users!ShowClients
      BY <1>2, PageOpened DEF Users!ShowUsers, Users!ShowAdd, Users!ShowClients
<1>3. ASSUME NEW u \in Users!Everyone, Users!ShowEdit(u) PROVE UsersInv'
      BY <1>3, PageOpened DEF Users!ShowEdit
<1>4. CASE Users!Next
      BY <1>2, <1>3, <1>4, UsersAnswered, NameTyped, FactorAsked, RemovalAsked, FormSent,
          RevokeAsked, EditAnswered,
         NewAnswered, UserRemoved, FactorAnswered, ClientRevoked DEF Users!Next
<1> QED BY <1>1, <1>4

\* A step is a step of the pages of the users, or leaves them alone; and so with those of the
\* settings.
LEMMA FormsMove ==
  [PagesNext]_pagesVars => [Users!Next]_usersVars /\ [Settings!Next]_settingsVars
BY DEF PagesNext, pagesVars, usersVars, settingsVars

\* The invariants of both hold of the pages together, if the user waits for answers and the gateway
\* answers in the order it is asked.
LEMMA FormsAlways ==
  PagesSpec => []((~Hasty /\ ~Overtakes => UsersInv) /\ (~Hasty => SettingsInv))
<1> DEFINE Kept == (~Hasty /\ ~Overtakes => UsersInv) /\ (~Hasty => SettingsInv)
<1>1. PagesInit => Kept
      BY UsersStart, SettingsStart DEF PagesInit
<1>2. Kept /\ [PagesNext]_pagesVars => Kept'
      BY FormsMove, UsersStep, SettingsStep
<1> HIDE DEF Kept
<1>3. PagesSpec => []Kept
      BY <1>1, <1>2, PTL DEF PagesSpec
<1> QED BY <1>3 DEF Kept

\* A user who waits for answers is shown a choice as the gateway has it, sends nothing about the
\* network that is not valid, and waits for the process that follows an update; and, if a GET
\* overtakes no other, the form of a user never gives him the name of another or codes that do
\* not work, and every client can be revoked.  For any users, clients and number of steps
\* (SettingsScreen.showEditUserScreen, showDomainSettings, showNetworkSettings).
THEOREM FormsAreTold ==
  PagesSpec => [](~Hasty => Settings!SettingsTell /\ (~Overtakes => FormsTell))
<1> DEFINE Told == ~Hasty => Settings!SettingsTell /\ (~Overtakes => FormsTell)
           Kept == (~Hasty /\ ~Overtakes => UsersInv) /\ (~Hasty => SettingsInv)
<1>1. Kept => Told
      BY UsersApart, SettingsAreTold DEF FormsTell
<1> HIDE DEF Told, Kept
<1>2. PagesSpec => []Kept
      BY FormsAlways DEF Kept
<1>3. PagesSpec => []Told
      BY <1>1, <1>2, PTL
<1> QED BY <1>3 DEF Told

-----------------------------------------------------------------------------
(* The pages of the add-ons (AddonPages).                                  *)
\* What the constants of the pages of the add-ons are.
LEMMA AddonsBounds == Addons!AddonPagesAssumption
BY PagesAssumption DEF PagesAssumption

\* What a version is, what the gateway lists, and what is asked of it.
AddonVersion == Seq(Nat)
AddonListing == [a \in DOMAIN store |-> [version |-> store[a].version,
    enabled |-> store[a].enabled]]
AddonCalls == {"toggle", "remove", "update", "install", "config"}

\* What is of which type; every add-on of the gateway is listed.
MapsTyped ==
  /\ store \in [DOMAIN store -> [version: AddonVersion, enabled: BOOLEAN, listed: {TRUE}]]
  /\ installed \in [DOMAIN installed -> [version: AddonVersion, enabled: BOOLEAN]]
  /\ available \in [DOMAIN available -> [version: AddonVersion, installed: BOOLEAN]]
PageTyped ==
  /\ turn \in Nat /\ cardsOf \in 0 .. turn /\ waresOf \in 0 .. turn
  /\ screen \in {"menu", "main", "discover", "config"} /\ drawn \in BOOLEAN
  /\ cards \in [DOMAIN cards -> [version: AddonVersion, enabled: BOOLEAN, says: BOOLEAN,
                                 update: AddonVersion, busy: SUBSET {"toggle", "remove"}]]
  /\ wares \in [DOMAIN wares -> {"add", "added", "installing", "failed"}]
  /\ DOMAIN wares \subseteq DOMAIN available
CallsTyped ==
  calls \subseteq [do: AddonCalls, addon: Addon, n: {turn}, value: AddonVersion,
                   state: {"sent", "done", "refused"}]

\* A GET under way, and a page that waits: of the page that is shown.
PageReading(k, of, bodies) ==
  [n: {turn}, kind: {k}, of: {of}, state: {"sent", "done"}, body: bodies]
PageWaiting(step) == [n: {turn}, at: {screen}, of: Addon \cup {"none"}, get: {turn}, step: {step}]
\* Nothing is read; or the add-ons are, or those on offer, or a configuration: one GET at a
\* time, and nothing is asked meanwhile.
NothingRead == reads = {} /\ waits = {} /\ deferred.state \in {"none", "failed", "ok"}
ReadsInstalled ==
  /\ calls = {} /\ deferred = [get |-> turn, state |-> "pending"]
  /\ screen \in {"main", "discover", "config"}
  /\ \E r \in PageReading("installed", "none", {Addons!No, AddonListing}) :
        reads = {r} /\ (r.state = "done" => r.body = AddonListing)
  /\ \E w \in PageWaiting("installed") : waits = {w} /\ (screen = "config" => w.of = title)
ReadsAvailable ==
  /\ calls = {} /\ deferred.state = "ok" /\ screen \in {"main", "discover"}
  /\ screen = "main" => cardsOf = turn
  /\ \E r \in PageReading("available", "none", {Addons!No}) : reads = {r}
  /\ \E w \in PageWaiting("available") : waits = {w}
ReadsConfig ==
  /\ calls = {} /\ deferred.state = "ok" /\ screen = "config" /\ forms = {}
  /\ waits = {} /\ \E r \in PageReading("config", title, {Addons!No}) : reads = {r}
PageReads == /\ deferred \in [get: Nat, state: {"none", "failed", "ok", "pending"}]
             /\ NothingRead \/ ReadsInstalled \/ ReadsAvailable \/ ReadsConfig

\* One form is in the page of a configuration, for an add-on one call is under way, and an
\* update is to a newer version.
OneConfigForm == /\ \A f, g \in forms : f = g
                 /\ screen = "config" /\ drawn => forms \subseteq {title}
OneCallEach == \A c, d \in calls : c.addon = d.addon => c = d
NewerUpdates == \A a \in DOMAIN cards : cards[a].update # Addons!No
    => Addons!Older(cards[a].version, cards[a].update)

\* What a call is about; and what the gateway has once it did what it was asked to.
AskedOf(c) ==
  LET a == c.addon IN
  /\ c.do \in {"toggle", "remove", "update"} =>
       screen = "main" /\ a \in DOMAIN cards /\ a \in DOMAIN installed
  /\ c.do = "toggle" => c.value \in {<<0>>, <<1>>}
  /\ c.do = "update" => cards[a].enabled /\ cards[a].says /\ installed[a].enabled
                        /\ cards[a].update = Addons!No
  /\ c.do = "install" => screen = "discover" /\ a \in DOMAIN wares /\ wares[a] = "installing"
                         /\ a \notin DOMAIN installed /\ a \notin DOMAIN cards
                         /\ available[a].installed = FALSE
  /\ c.do = "config" => screen = "config" /\ a \in forms
DoneAhead(c) ==
  LET a == c.addon IN
  /\ c.do = "toggle" => /\ a \in DOMAIN store /\ store[a].enabled = (c.value = <<1>>)
                        /\ store[a].version = installed[a].version
                        /\ store[a].version = cards[a].version
  /\ c.do = "update" => a \in DOMAIN store /\ store[a].enabled /\ store[a].version = c.value
  /\ c.do = "install" => a \in DOMAIN store /\ store[a].enabled /\ store[a].version = c.value
  /\ c.do = "remove" => a \notin DOMAIN store
  /\ c.do \in {"toggle", "update"} =>
       /\ a \in DOMAIN available => available[a].installed
       /\ a \in DOMAIN wares => wares[a] = "added"
CallsAreFit == /\ calls # {} => NothingRead
               /\ \A c \in calls : AskedOf(c) /\ (c.state = "done" => DoneAhead(c))
\* Nothing was done that the page was not told of yet.
AddonSettled(a) == \A c \in calls : c.addon = a /\ c.state = "done" => c.do = "config"

\* The maps of the page, what is found and the cards agree with the gateway on an add-on.
PageKnows(a) ==
  /\ a \in DOMAIN installed =>
       /\ a \in DOMAIN store /\ installed[a].version = store[a].version
       /\ installed[a].enabled = store[a].enabled
  /\ a \in DOMAIN store /\ deferred.state = "ok" => a \in DOMAIN installed
PageOffers(a) ==
  /\ a \in DOMAIN available => (available[a].installed <=> a \in DOMAIN store)
  /\ a \in DOMAIN wares /\ a \in DOMAIN store => wares[a] = "added"
  /\ a \in DOMAIN wares /\ screen = "discover" /\ drawn /\ wares[a] = "added"
      => a \in DOMAIN store
PageDraws(a) ==
  a \in DOMAIN cards =>
    /\ a \in DOMAIN store /\ cards[a].version = store[a].version
    /\ cards[a].enabled = store[a].enabled /\ cards[a].says = store[a].enabled
    /\ a \in DOMAIN installed
\* Every add-on has its card once the page is drawn.
AllDrawn == screen = "main" /\ drawn => \A a \in DOMAIN store : a \in DOMAIN cards
\* They agree on every add-on about which nothing is on its way.
PagesAgree == \A a \in Addon : AddonSettled(a) => PageKnows(a) /\ PageOffers(a) /\ PageDraws(a)
AddonsOnly == /\ (DOMAIN store \cup DOMAIN installed \cup DOMAIN cards) \subseteq Addon
              /\ DOMAIN available \subseteq DOMAIN Addons!Offered

\* The inductive invariant of the pages of the add-ons.
PagesInv == /\ MapsTyped /\ PageTyped /\ CallsTyped /\ AddonsOnly /\ PageReads
            /\ OneConfigForm /\ OneCallEach /\ NewerUpdates /\ CallsAreFit /\ AllDrawn
            /\ PagesAgree

\* To be older is a strict order of versions.
LEMMA OlderIsOrder ==
  ASSUME NEW x \in AddonVersion, NEW y \in AddonVersion, NEW z \in AddonVersion
  PROVE  /\ ~(Addons!Older(x, y) /\ Addons!Older(y, x)) /\ ~Addons!Older(x, x)
         /\ Addons!Older(x, y) /\ Addons!Older(y, z) => Addons!Older(x, z)
<1>1. /\ DOMAIN x = 1 .. Len(x) /\ DOMAIN y = 1 .. Len(y) /\ DOMAIN z = 1 .. Len(z)
      /\ Len(x) \in Nat /\ Len(y) \in Nat /\ Len(z) \in Nat
      /\ \A i \in DOMAIN x : x[i] \in Nat
      /\ \A i \in DOMAIN y : y[i] \in Nat
      /\ \A i \in DOMAIN z : z[i] \in Nat
      BY DEF AddonVersion
<1>2. ASSUME Addons!Older(x, y), Addons!Older(y, x) PROVE FALSE
      <2>1. PICK i \in DOMAIN x : i \in DOMAIN y /\ x[i] < y[i] /\ \A j \in 1 .. i - 1 :
                   x[j] = y[j]
            BY <1>2 DEF Addons!Older
      <2>2. PICK k \in DOMAIN y : k \in DOMAIN x /\ y[k] < x[k] /\ \A j \in 1 .. k - 1 :
                   y[j] = x[j]
            BY <1>2 DEF Addons!Older
      <2>3. i < k \/ k < i \/ i = k
            BY <1>1, <2>1, <2>2
      <2>4. CASE i < k
            BY <1>1, <2>1, <2>2, <2>4
      <2>5. CASE k < i
            BY <1>1, <2>1, <2>2, <2>5
      <2>6. CASE i = k
            BY <1>1, <2>1, <2>2, <2>6
      <2> QED BY <2>3, <2>4, <2>5, <2>6
<1>3. ~Addons!Older(x, x)
      BY <1>1 DEF Addons!Older
<1>4. ASSUME Addons!Older(x, y), Addons!Older(y, z) PROVE Addons!Older(x, z)
      <2>1. PICK i \in DOMAIN x : i \in DOMAIN y /\ x[i] < y[i] /\ \A j \in 1 .. i - 1 :
                   x[j] = y[j]
            BY <1>4 DEF Addons!Older
      <2>2. PICK k \in DOMAIN y : k \in DOMAIN z /\ y[k] < z[k] /\ \A j \in 1 .. k - 1 :
                   y[j] = z[j]
            BY <1>4 DEF Addons!Older
      <2>3. CASE i < k
            <3>1. i \in DOMAIN z /\ x[i] < z[i] /\ \A j \in 1 .. i - 1 : x[j] = z[j]
                  BY SMTT(40), <1>1, <2>1, <2>2, <2>3
            <3> QED BY <3>1 DEF Addons!Older
      <2>4. CASE k <= i
            <3>1. k \in DOMAIN x /\ k \in DOMAIN z /\ \A j \in 1 .. k - 1 : x[j] = z[j]
                  BY <1>1, <2>1, <2>2, <2>4
            <3>2. x[k] < z[k]
                  <4>1. x[k] = y[k] \/ (k = i /\ x[k] < y[k])
                        BY <1>1, <2>1, <2>2, <2>4
                  <4>2. x[k] \in Nat /\ y[k] \in Nat /\ z[k] \in Nat
                        BY <1>1, <2>2, <3>1
                  <4> QED BY <2>2, <4>1, <4>2
            <3> QED BY <3>1, <3>2 DEF Addons!Older
      <2>5. i \in Nat /\ k \in Nat
            BY <1>1, <2>1, <2>2
      <2> QED BY <2>3, <2>4, <2>5
<1> QED BY <1>2, <1>3, <1>4

\* Of finitely many versions one is the newest.
LEMMA NewestIs ==
  ASSUME NEW T, T \subseteq AddonVersion, IsFiniteSet(T), T # {}
  PROVE  \E v \in T : \A u \in T : ~Addons!Older(v, u)
<1> DEFINE newer(v) == {u \in T : Addons!Older(v, u)}
           counts == {Cardinality(newer(v)) : v \in T}
<1>1. \A v \in T : newer(v) \subseteq T /\ IsFiniteSet(newer(v)) /\ Cardinality(newer(v)) \in Nat
      BY FS_Subset, FS_CardinalityType
<1>2. counts \subseteq Nat /\ counts # {}
      <2> HIDE DEF newer
      <2> QED BY <1>1
<1>3. PICK n \in counts : \A m \in counts : n <= m
      <2> HIDE DEF counts
      <2> QED BY <1>2, NatMin
<1>4. PICK v \in T : n = Cardinality(newer(v))
      <2> HIDE DEF newer
      <2> QED BY <1>3
<1>5. ASSUME NEW u \in T, Addons!Older(v, u) PROVE FALSE
      <2>1. \A w \in T : Addons!Older(u, w) => Addons!Older(v, w)
            BY <1>5, OlderIsOrder
      <2>2. newer(u) \subseteq newer(v) /\ u \in newer(v) /\ u \notin newer(u)
            BY <1>5, <2>1, OlderIsOrder
      <2> HIDE DEF newer
      <2>3. newer(u) # newer(v)
            BY <2>2
      <2>4. Cardinality(newer(u)) <= Cardinality(newer(v))
              /\ Cardinality(newer(u)) # Cardinality(newer(v))
            BY <1>1, <2>2, <2>3, FS_Subset
      <2>5. Cardinality(newer(v)) <= Cardinality(newer(u))
            BY <1>3, <1>4
      <2> QED BY <1>1, <2>4, <2>5
<1> QED BY <1>5

\* What is offered of an add-on is a version on one of the lists.
LEMMA OfferedIs == DOMAIN Addons!Offered \subseteq Addon /\ \A a \in DOMAIN Addons!Offered :
    Addons!Offered[a] \in AddonVersion
<1>0. /\ IsFiniteSet(OnOffer)
      /\ \A l \in OnOffer : DOMAIN l \subseteq Addon /\ \A a \in DOMAIN l : l[a] \in AddonVersion
      BY AddonsBounds DEF Addons!AddonPagesAssumption, AddonVersion,
                          Addons!IsFiniteSet, IsFiniteSet
<1>1. DOMAIN Addons!Offered = UNION {DOMAIN l : l \in OnOffer}
      BY DEF Addons!Offered
<1>2. DOMAIN Addons!Offered \subseteq Addon
      BY <1>0, <1>1
<1>3. ASSUME NEW a \in DOMAIN Addons!Offered PROVE Addons!Offered[a] \in AddonVersion
      <2> DEFINE having == {k \in OnOffer : a \in DOMAIN k}
                 T == {l[a] : l \in having}
                 Newest(v) == \A l \in OnOffer : a \in DOMAIN l => ~Addons!Older(v, l[a])
      <2>1. Addons!Offered[a] = CHOOSE v \in T : Newest(v)
            BY <1>1, <1>3 DEF Addons!Offered
      <2>2. T \subseteq AddonVersion /\ T # {}
            BY <1>0, <1>1, <1>3
      <2>3. IsFiniteSet(T)
            <3>1. IsFiniteSet(having)
                  BY <1>0, FS_Subset
            <3> DEFINE f == [k \in having |-> k[a]]
            <3>2. f \in Surjection(having, T)
                  BY DEF Surjection
            <3> HIDE DEF having, f, T
            <3> QED BY <3>1, <3>2, FS_Surjection
      <2>4. PICK v \in T : \A u \in T : ~Addons!Older(v, u)
            <3> HIDE DEF T
            <3> QED BY <2>2, <2>3, NewestIs
      <2>5. Newest(v)
            BY <2>4
      <2> HIDE DEF T, Newest
      <2>6. (CHOOSE w \in T : Newest(w)) \in T
            BY <2>5
      <2> QED BY <2>1, <2>2, <2>6
<1> QED BY <1>2, <1>3

\* The invariant holds at first.
LEMMA PagesStart == Addons!Init => PagesInv
<1> SUFFICES ASSUME Addons!Init PROVE PagesInv
    OBVIOUS
<1> USE DEF Addons!Init, Addons!No
<1>1. AtFirst \in [DOMAIN AtFirst -> AddonVersion] \/ \A a \in DOMAIN AtFirst :
        AtFirst[a] \in AddonVersion
      BY AddonsBounds DEF Addons!AddonPagesAssumption, AddonVersion
<1>2. DOMAIN AtFirst \subseteq Addon
      BY AddonsBounds DEF Addons!AddonPagesAssumption
<1>3. DOMAIN store = DOMAIN AtFirst /\ \A a \in DOMAIN store :
        store[a] \in [version: AddonVersion, enabled: BOOLEAN, listed: {TRUE}]
      BY <1>1
<1>4. MapsTyped
      BY <1>3 DEF MapsTyped
<1>9. PageTyped
      <2>1. DOMAIN cards = {} /\ DOMAIN wares = {} /\ DOMAIN available = {}
            OBVIOUS
      <2>2. turn \in Nat /\ cardsOf \in 0 .. turn /\ waresOf \in 0 .. turn
            OBVIOUS
      <2>3. cards = [a \in {} |-> 0] /\ wares = [a \in {} |-> 0]
            OBVIOUS
      <2> QED BY <2>1, <2>2, <2>3 DEF PageTyped
<1>10. CallsTyped
      BY DEF CallsTyped
<1>5. AddonsOnly
      BY <1>2, <1>3 DEF AddonsOnly
<1>6. PageReads /\ CallsAreFit /\ AllDrawn
      BY DEF PageReads, NothingRead, CallsAreFit, AllDrawn
<1>7. OneConfigForm /\ OneCallEach /\ NewerUpdates
      BY DEF OneConfigForm, OneCallEach, NewerUpdates
<1>8. PagesAgree
      BY DEF PagesAgree, PageKnows, PageOffers, PageDraws
<1> QED BY <1>4, <1>5, <1>6, <1>7, <1>8, <1>9, <1>10 DEF PagesInv

\* What the invariant says of the pages.
LEMMA AddonsAreTold == ASSUME half \/ PagesInv PROVE Addons!PagesTell
<1> SUFFICES ASSUME Addons!Quiet, PagesInv
             PROVE  Addons!MainTells /\ Addons!DiscoverTells /\ Addons!ConfigTells
    BY DEF Addons!PagesTell
<1>1. \A a \in Addon : PageKnows(a) /\ PageOffers(a) /\ PageDraws(a)
      BY DEF PagesInv, PagesAgree, Addons!Quiet, AddonSettled
<1>2. /\ DOMAIN store \subseteq Addon /\ DOMAIN cards \subseteq Addon
      /\ DOMAIN available \subseteq Addon
      /\ DOMAIN wares \subseteq DOMAIN available
      BY OfferedIs DEF PagesInv, AddonsOnly, PageTyped
<1>3. Addons!MainTells
      <2> SUFFICES ASSUME screen = "main", drawn PROVE Addons!MainTells
          BY DEF Addons!MainTells
      <2>1. DOMAIN cards = DOMAIN store
            BY <1>1, <1>2 DEF PagesInv, AllDrawn, PageDraws
      <2>2. ASSUME NEW a \in DOMAIN cards, cards[a].update # Addons!No
            PROVE  cards[a].update # store[a].version
                       /\ ~Addons!Older(cards[a].update, store[a].version)
            <3>1. Addons!Older(cards[a].version, cards[a].update)
                    /\ cards[a].version = store[a].version
                  BY <1>1, <1>2, <2>2 DEF PagesInv, NewerUpdates, PageDraws
            <3>2. cards[a].version \in AddonVersion /\ cards[a].update \in AddonVersion
                  BY <2>2 DEF PagesInv, PageTyped
            <3> QED BY <3>1, <3>2, OlderIsOrder
      <2> QED BY <1>1, <1>2, <2>1, <2>2 DEF Addons!MainTells, PageDraws
<1>4. Addons!DiscoverTells
      BY <1>1, <1>2 DEF Addons!DiscoverTells, PageOffers
<1>5. Addons!ConfigTells
      BY DEF Addons!ConfigTells, PagesInv, OneConfigForm
<1> QED BY <1>3, <1>4, <1>5

\* Where nothing is asked.
LEMMA NothingAsked ==
  ASSUME PagesInv, \A c \in calls : c.do = "config"
  PROVE  \A a \in Addon : PageKnows(a) /\ PageOffers(a) /\ PageDraws(a)
BY DEF PagesInv, PagesAgree, AddonSettled

\* A page is shown.
LEMMA VisitKeeps ==
  ASSUME PagesInv, NEW to \in {"main", "discover", "config"}, PageReads',
         \A c \in calls : c.do = "config", calls' = {},
         screen' = to, turn' = turn + 1, drawn' = FALSE,
         UNCHANGED <<store, installed, available, Addons!Shown>>,
         deferred'.state = "ok" => deferred.state = "ok"
  PROVE  PagesInv'
<1>1. UNCHANGED <<cards, cardsOf, wares, waresOf, forms>>
      BY DEF Addons!Shown
<1>2. MapsTyped' /\ AddonsOnly' /\ NewerUpdates'
      BY <1>1 DEF PagesInv, MapsTyped, AddonsOnly, NewerUpdates
<1>3. PageTyped' /\ CallsTyped'
      <2>1. turn \in Nat /\ turn' \in Nat /\ cardsOf' \in 0 .. turn' /\ waresOf' \in 0 .. turn'
            BY <1>1 DEF PagesInv, PageTyped
      <2>2. CallsTyped'
            BY <1>1 DEF CallsTyped
      <2> QED BY <1>1, <2>1, <2>2 DEF PagesInv, PageTyped
<1>4. OneConfigForm' /\ OneCallEach' /\ CallsAreFit' /\ AllDrawn'
      BY <1>1 DEF PagesInv, OneConfigForm, OneCallEach, CallsAreFit, AllDrawn
<1>5. PagesAgree'
      BY <1>1, NothingAsked DEF PagesAgree, PageKnows, PageOffers, PageDraws
<1> QED BY <1>2, <1>3, <1>4, <1>5 DEF PagesInv

\* A page is shown that asks for the add-ons anew.
LEMMA ForcedKeeps ==
  ASSUME PagesInv, ~Hasty, NEW to \in {"main", "config"}, NEW of \in Addon \cup {"none"},
         Addons!Forced(to, of),
         to = "config" => title' = of
  PROVE  PagesInv'
<1>1. /\ reads = {} /\ calls = {} /\ calls' = {} /\ screen' = to /\ turn' = turn + 1
      /\ deferred' = [get |-> turn + 1, state |-> "pending"]
      /\ reads' = reads \cup {Addons!Read(turn + 1, "installed", "none")}
      /\ waits' = waits \cup {Addons!Waiting(to, of, turn + 1, "installed")}
      BY DEF Addons!Forced, Addons!Visits, Addons!Quiet
<1>2. NothingRead
      BY <1>1 DEF PagesInv, PageReads, ReadsInstalled, ReadsAvailable, ReadsConfig
<1>3. /\ reads' = {Addons!Read(turn + 1, "installed", "none")}
      /\ waits' = {Addons!Waiting(to, of, turn + 1, "installed")}
      /\ Addons!Waiting(to, of, turn + 1, "installed") \in PageWaiting("installed")'
      /\ Addons!Read(turn + 1, "installed", "none") \in PageReading("installed", "none",
          {Addons!No, AddonListing})'
      BY <1>1, <1>2 DEF NothingRead, Addons!Read, PageReading, Addons!Waiting, PageWaiting
<1>4. ReadsInstalled'
      BY <1>1, <1>3 DEF ReadsInstalled, Addons!Read, Addons!Waiting
<1>5. PageReads'
      BY <1>1, <1>4 DEF PageReads, PagesInv, PageTyped
<1>6. UNCHANGED <<store, installed, available, Addons!Shown>> /\ drawn' = FALSE
      BY DEF Addons!Forced, Addons!Visits
<1> QED BY <1>1, <1>5, <1>6, VisitKeeps

\* The page of the installed add-ons is shown.
LEMMA ShowMainKeeps == ASSUME PagesInv, ~Hasty, Addons!ShowMain PROVE PagesInv'
BY ForcedKeeps DEF Addons!ShowMain
\* The page of a configuration is shown.
LEMMA ShowConfigKeeps ==
  ASSUME PagesInv, ~Hasty, NEW a \in Addon, Addons!ShowConfig(a)
  PROVE  PagesInv'
BY ForcedKeeps DEF Addons!ShowConfig

\* The page of the add-ons on offer is shown.
LEMMA ShowDiscoverKeeps == ASSUME PagesInv, ~Hasty, Addons!ShowDiscover PROVE PagesInv'
<1>1. Addons!Visits("discover") /\ reads = {} /\ calls = {} /\ screen' = "discover"
        /\ turn' = turn + 1 /\ UNCHANGED calls
      BY DEF Addons!ShowDiscover, Addons!Visits, Addons!Quiet
<1>2. NothingRead
      BY <1>1 DEF PagesInv, PageReads, ReadsInstalled, ReadsAvailable, ReadsConfig
<1>3. turn' \in Nat /\ "none" \in Addon \cup {"none"}
      BY <1>1 DEF PagesInv, PageTyped
<1>4. CASE deferred.state \in {"none", "failed"}
      <2>1. /\ deferred' = [get |-> turn + 1, state |-> "pending"]
            /\ reads' = reads \cup {Addons!Read(turn + 1, "installed", "none")}
            /\ waits' = waits \cup {Addons!Waiting("discover", "none", turn + 1, "installed")}
            BY <1>4 DEF Addons!ShowDiscover
      <2>2. /\ reads' = {Addons!Read(turn + 1, "installed", "none")}
            /\ waits' = {Addons!Waiting("discover", "none", turn + 1, "installed")}
            /\ Addons!Waiting("discover", "none", turn + 1,
                "installed") \in PageWaiting("installed")'
            /\ Addons!Read(turn + 1, "installed", "none") \in PageReading("installed", "none",
                {Addons!No, AddonListing})'
            BY <1>1, <1>2, <2>1
               DEF NothingRead, Addons!Read, PageReading, Addons!Waiting, PageWaiting
      <2>3. ReadsInstalled'
            BY <1>1, <1>3, <2>1, <2>2 DEF ReadsInstalled, Addons!Read, Addons!Waiting
      <2>4. PageReads'
            BY <1>3, <1>1, <2>1, <2>3 DEF PageReads
      <2> QED BY <1>1, <2>1, <2>4, VisitKeeps DEF Addons!Visits
<1>5. CASE deferred.state = "ok"
      <2>1. /\ deferred' = deferred
            /\ reads' = reads \cup {Addons!Read(turn + 1, "available", "none")}
            /\ waits' = waits \cup {Addons!Waiting("discover", "none", turn + 1, "available")}
            BY <1>5 DEF Addons!ShowDiscover
      <2>2. /\ reads' = {Addons!Read(turn + 1, "available", "none")}
            /\ waits' = {Addons!Waiting("discover", "none", turn + 1, "available")}
            /\ Addons!Waiting("discover", "none", turn + 1,
                "available") \in PageWaiting("available")'
            /\ Addons!Read(turn + 1, "available", "none") \in PageReading("available", "none",
                {Addons!No})'
            BY <1>1, <1>2, <2>1
               DEF NothingRead, Addons!Read, PageReading, Addons!Waiting, PageWaiting
      <2>3. ReadsAvailable'
            BY <1>1, <1>3, <1>5, <2>1, <2>2 DEF ReadsAvailable
      <2>4. PageReads'
            BY <1>3, <1>1, <2>1, <2>3 DEF PageReads, PagesInv
      <2> QED BY <1>1, <2>1, <2>4, VisitKeeps DEF Addons!Visits
<1> QED BY <1>2, <1>4, <1>5 DEF NothingRead

\* What is not about what is read.
LEMMA StillTold ==
  ASSUME PagesInv, PageReads', calls = {}, deferred'.state = "ok" => deferred.state = "ok",
         UNCHANGED <<store, installed, available, screen, turn, drawn, cards, cardsOf, wares,
             waresOf, forms,
                     title, calls>>
  PROVE  PagesInv'
<1>2. MapsTyped' /\ AddonsOnly' /\ NewerUpdates'
      BY DEF PagesInv, MapsTyped, AddonsOnly, NewerUpdates
<1>3. PageTyped' /\ CallsTyped'
      BY DEF PagesInv, PageTyped, CallsTyped
<1>4. OneConfigForm' /\ OneCallEach' /\ CallsAreFit' /\ AllDrawn'
      BY DEF PagesInv, OneConfigForm, OneCallEach, CallsAreFit, AllDrawn
<1>5. PagesAgree'
      BY NothingAsked DEF PagesAgree, PageKnows, PageOffers, PageDraws
<1> QED BY <1>2, <1>3, <1>4, <1>5 DEF PagesInv

\* The gateway answers a GET.
LEMMA ReadServed == ASSUME PagesInv, NEW r \in reads, Addons!Serve(r) PROVE PagesInv'
<1>1. /\ r.state = "sent"
      /\ UNCHANGED <<store, installed, available, deferred, screen, turn, drawn, waits, cards,
          cardsOf, wares,
                                         waresOf, forms, title, calls, taps, fails>>
      BY DEF Addons!Serve, Addons!Maps, Addons!Shown
<1>2. {b \in DOMAIN store : store[b].listed} = DOMAIN store
      BY DEF PagesInv, MapsTyped
<1>3. reads' = (reads \ {r})
        \cup {[r EXCEPT !.state = "done", !.body = IF r.kind # "installed" THEN Addons!No
            ELSE AddonListing]}
      BY <1>2 DEF Addons!Serve, AddonListing
<1>4. AddonListing' = AddonListing /\ \A k, of, b : PageReading(k, of, b)' = PageReading(k, of, b)
      BY <1>1 DEF AddonListing, PageReading
<1>5. \A step : PageWaiting(step)' = PageWaiting(step)
      BY <1>1 DEF PageWaiting
<1>6. PageReads'
      <2>1. ~NothingRead
            BY DEF NothingRead
      <2>2. CASE ReadsInstalled
            <3>1. r \in PageReading("installed", "none", {Addons!No, AddonListing}) /\ reads = {r}
                  BY <2>2 DEF ReadsInstalled
            <3> DEFINE q == [r EXCEPT !.state = "done", !.body = AddonListing]
            <3>2. q \in PageReading("installed", "none", {Addons!No, AddonListing})
                    /\ q.body = AddonListing
                  BY <3>1 DEF PageReading
            <3>3. reads' = {q}
                  BY <1>3, <3>1 DEF PageReading
            <3> HIDE DEF q
            <3>4. ReadsInstalled'
                  BY <1>1, <1>4, <1>5, <2>2, <3>1, <3>2, <3>3 DEF ReadsInstalled
            <3> QED BY <1>1, <3>4 DEF PageReads, PagesInv
      <2>3. CASE r.kind # "installed" /\ (ReadsAvailable \/ ReadsConfig)
            <3> DEFINE q == [r EXCEPT !.state = "done", !.body = Addons!No]
            <3>1. /\ r \in PageReading(r.kind, r.of, {Addons!No}) /\ reads = {r}
                  /\ \A k, of : r \in PageReading(k, of, {Addons!No})
                      => q \in PageReading(k, of, {Addons!No})
                  BY <2>3 DEF ReadsAvailable, ReadsConfig, PageReading
            <3>3. reads' = {q}
                  BY <1>3, <2>3, <3>1
            <3> HIDE DEF q
            <3>4. ReadsAvailable => ReadsAvailable'
                  BY <1>1, <1>4, <1>5, <3>1, <3>3 DEF ReadsAvailable
            <3>5. ReadsConfig => ReadsConfig'
                  BY <1>1, <1>4, <1>5, <3>1, <3>3 DEF ReadsConfig
            <3> QED BY <1>1, <2>3, <3>4, <3>5 DEF PageReads, PagesInv
      <2>4. ReadsAvailable \/ ReadsConfig => r.kind # "installed"
            BY DEF ReadsAvailable, ReadsConfig, PageReading
      <2> QED BY <2>1, <2>2, <2>3, <2>4 DEF PagesInv, PageReads
<1>7. calls = {}
      BY DEF PagesInv, PageReads, NothingRead, ReadsInstalled, ReadsAvailable, ReadsConfig
<1> QED BY <1>1, <1>6, <1>7, StillTold

\* Who reads, reads alone, and what is asked waits.
LEMMA ReadsAlone ==
  ASSUME PagesInv, NEW r \in reads
  PROVE  /\ reads = {r} /\ r.n = turn /\ calls = {}
         /\ r.kind = "installed" => ReadsInstalled
         /\ r.kind = "available" => ReadsAvailable
         /\ r.kind = "config" => ReadsConfig
         /\ r.kind \in {"installed", "available", "config"}
<1>1. ~NothingRead
      BY DEF NothingRead
<1>2. ReadsInstalled \/ ReadsAvailable \/ ReadsConfig
      BY <1>1 DEF PagesInv, PageReads
<1>3. ReadsInstalled => r.kind = "installed" /\ r.n = turn /\ reads = {r} /\ calls = {}
      BY DEF ReadsInstalled, PageReading
<1>4. ReadsAvailable => r.kind = "available" /\ r.n = turn /\ reads = {r} /\ calls = {}
      BY DEF ReadsAvailable, PageReading
<1>5. ReadsConfig => r.kind = "config" /\ r.n = turn /\ reads = {r} /\ calls = {}
      BY DEF ReadsConfig, PageReading
<1> QED BY <1>2, <1>3, <1>4, <1>5

\* The form of a configuration is drawn.
LEMMA ConfiguredKeeps == ASSUME PagesInv, NEW r \in reads, Addons!Configured(r) PROVE PagesInv'
<1>1. /\ r.kind = "config" /\ reads' = reads \ {r} /\ forms' = forms \cup {r.of}
          /\ drawn' = (drawn \/ screen = "config")
      /\ UNCHANGED <<store, installed, available, deferred, screen, turn, waits, cards, cardsOf,
          wares, waresOf, title, calls>>
      BY DEF Addons!Configured, Addons!Maps
<1>2. reads = {r} /\ calls = {} /\ ReadsConfig
      BY <1>1, ReadsAlone
<1>3. screen = "config" /\ forms = {} /\ waits = {} /\ r.of = title /\ deferred.state = "ok"
      BY <1>2 DEF ReadsConfig, PageReading
<1>4. MapsTyped' /\ AddonsOnly' /\ NewerUpdates'
      BY <1>1 DEF PagesInv, MapsTyped, AddonsOnly, NewerUpdates
<1>5. PageTyped' /\ CallsTyped'
      BY <1>1 DEF PagesInv, PageTyped, CallsTyped
<1>6. OneConfigForm' /\ OneCallEach' /\ CallsAreFit' /\ AllDrawn'
      BY <1>1, <1>2, <1>3 DEF PagesInv, OneConfigForm, OneCallEach, CallsAreFit, AllDrawn
<1>7. PagesAgree'
      BY <1>1, <1>2, <1>3, NothingAsked DEF PagesAgree, PageKnows, PageOffers, PageDraws
<1>8. PageReads'
      BY <1>1, <1>2, <1>3 DEF PageReads, NothingRead, PagesInv
<1> QED BY <1>4, <1>5, <1>6, <1>7, <1>8 DEF PagesInv

\* A GET fails.
LEMMA FailedKeeps == ASSUME PagesInv, NEW r \in reads, Addons!Failed(r) PROVE PagesInv'
<1> DEFINE on == {w \in waits : w.n = r.n}
           others == {w \in waits : w.step = "installed" /\ w.get = r.n /\ w.n # r.n}
<1>1. reads = {r} /\ calls = {} /\ r.n = turn
      BY ReadsAlone
<1>2. \A w \in waits : w.n = turn
      BY <1>1, ReadsAlone DEF ReadsInstalled, ReadsAvailable, ReadsConfig, PageWaiting
<1>3. on = waits /\ others = {}
      BY <1>1, <1>2
<1>4. /\ waits' = (waits \ (on \cup others)) \cup {[w EXCEPT !.get = w.n] : w \in others}
      /\ reads' = (reads \ {r}) \cup {Addons!Read(w.n, "installed", "none") : w \in others}
      /\ others = {} => deferred' = IF r.kind # "installed" THEN deferred
                                    ELSE IF deferred.get = r.n
                                        THEN [deferred EXCEPT !.state = "failed"] ELSE deferred
      BY DEF Addons!Failed
<1> HIDE DEF on, others
<1>5. waits' = {} /\ reads' = {}
      BY <1>1, <1>3, <1>4
<1>6. CASE r.kind = "installed"
      <2>1. deferred = [get |-> turn, state |-> "pending"]
            BY <1>6, ReadsAlone DEF ReadsInstalled
      <2>2. deferred' = [deferred EXCEPT !.state = "failed"]
            BY <1>1, <1>3, <1>4, <1>6, <2>1
      <2>3. deferred' \in [get: Nat, state: {"none", "failed", "ok", "pending"}]
              /\ deferred'.state = "failed"
            BY <2>1, <2>2 DEF PagesInv, PageTyped
      <2>4. PageReads'
            BY <1>5, <2>3 DEF PageReads, NothingRead
      <2> QED BY <1>1, <2>3, <2>4, StillTold DEF Addons!Failed, Addons!Shown
<1>7. CASE r.kind # "installed"
      <2>1. deferred.state = "ok" /\ deferred' = deferred
            BY <1>3, <1>4, <1>7, ReadsAlone DEF ReadsAvailable, ReadsConfig
      <2>2. PageReads'
            BY <1>5, <2>1 DEF PageReads, NothingRead, PagesInv
      <2> QED BY <1>1, <2>1, <2>2, StillTold DEF Addons!Failed, Addons!Shown
<1> QED BY <1>6, <1>7

\* The user searches.
LEMMA SearchKeeps == ASSUME PagesInv, ~Hasty, NEW s, Addons!Search(s) PROVE PagesInv'
<1>1. /\ screen = "discover" /\ reads = {} /\ calls = {} /\ s \subseteq DOMAIN available
      /\ turn' = turn + 1 /\ waresOf' = turn + 1
      /\ wares' = [a \in s |-> IF available[a].installed THEN "added" ELSE "add"]
      /\ UNCHANGED <<store, installed, available, deferred, screen, drawn, waits, reads, cards,
          cardsOf, forms, title, calls>>
      BY DEF Addons!Search, Addons!Quiet, Addons!Maps
<1>2. NothingRead
      BY <1>1 DEF PagesInv, PageReads, ReadsInstalled, ReadsAvailable, ReadsConfig
<1>3. PageReads'
      BY <1>1, <1>2 DEF PagesInv, PageReads, NothingRead
<1>4. MapsTyped' /\ AddonsOnly' /\ NewerUpdates'
      BY <1>1 DEF PagesInv, MapsTyped, AddonsOnly, NewerUpdates
<1>5. PageTyped'
      <2>1. turn \in Nat /\ turn' \in Nat /\ cardsOf' \in 0 .. turn' /\ waresOf' \in 0 .. turn'
            BY <1>1 DEF PagesInv, PageTyped
      <2>2. wares' \in [DOMAIN wares' -> {"add", "added", "installing", "failed"}]
            BY <1>1
      <2> QED BY <1>1, <2>1, <2>2 DEF PagesInv, PageTyped
<1>6. CallsTyped' /\ OneConfigForm' /\ OneCallEach' /\ CallsAreFit' /\ AllDrawn'
      BY <1>1 DEF PagesInv, CallsTyped, OneConfigForm, OneCallEach, CallsAreFit, AllDrawn
<1>7. PagesAgree'
      <2>1. \A a \in Addon : PageKnows(a)' /\ PageDraws(a)'
            BY <1>1, NothingAsked DEF PageKnows, PageDraws
      <2>2. \A a \in Addon : PageOffers(a)'
            BY <1>1, NothingAsked DEF PageOffers
      <2> QED BY <2>1, <2>2 DEF PagesAgree
<1> QED BY <1>3, <1>4, <1>5, <1>6, <1>7 DEF PagesInv

\* The add-ons are known.
LEMMA InstalledKeeps == ASSUME PagesInv, NEW r \in reads, Addons!Installed(r) PROVE PagesInv'
<1>1. ReadsInstalled /\ reads = {r} /\ calls = {} /\ r.n = turn
      BY ReadsAlone DEF Addons!Installed
<1>2. r.body = AddonListing /\ deferred = [get |-> turn, state |-> "pending"]
        /\ screen \in {"main", "discover", "config"}
      BY <1>1 DEF ReadsInstalled, Addons!Installed
<1>3. PICK w \in PageWaiting("installed") : waits = {w} /\ (screen = "config" => w.of = title)
      BY <1>1 DEF ReadsInstalled
<1> DEFINE on == {v \in waits : v.step = "installed" /\ v.get = r.n}
           to(pageOf) == {v \in on : v.at = pageOf}
           next == to("main") \cup to("discover")
<1>4. \A pageOf : to(pageOf) = IF pageOf = screen THEN {w} ELSE {}
      BY <1>1, <1>3 DEF PageWaiting
<1>5. next = IF screen = "config" THEN {} ELSE {w}
      BY <1>2, <1>4
<1>6. on = {w}
      BY <1>1, <1>3 DEF PageWaiting
<1>7. /\ installed' = r.body
      /\ deferred' = IF deferred.get = r.n THEN [deferred EXCEPT !.state = "ok"] ELSE deferred
      /\ waits' = (waits \ on) \cup {[v EXCEPT !.step = "available"] : v \in next}
      /\ reads' = (reads \ {r}) \cup {Addons!Read(v.n, "available", "none") : v \in next}
                    \cup {Addons!Read(v.n, "config",
                        v.of) : v \in {u \in to("config") : u.of \in DOMAIN r.body}}
      /\ IF to("main") # {}
         THEN /\ cards' = [a \in DOMAIN r.body |-> Addons!Card(r.body[a])]
              /\ cardsOf' = r.n
              /\ drawn' = (drawn \/ screen = "main")
         ELSE UNCHANGED <<cards, cardsOf, drawn>>
      /\ forms' = IF to("config") # {} THEN {} ELSE forms
      /\ UNCHANGED <<store, available, screen, turn, wares, waresOf, title, calls>>
      BY DEF Addons!Installed
<1> HIDE DEF on, to, next
<1>8. /\ installed' = AddonListing /\ deferred'.state = "ok"
      /\ deferred' \in [get: Nat, state: {"none", "failed", "ok", "pending"}]
      BY <1>1, <1>2, <1>7 DEF PagesInv, PageTyped
<1>9. /\ DOMAIN AddonListing = DOMAIN store
      /\ \A a \in DOMAIN store :
          AddonListing[a] = [version |-> store[a].version, enabled |-> store[a].enabled]
      BY DEF AddonListing
<1>12. MapsTyped'
      <2>1. installed' \in [DOMAIN installed' -> [version: AddonVersion, enabled: BOOLEAN]]
            BY <1>8 DEF PagesInv, MapsTyped, AddonListing
      <2> QED BY <1>7, <2>1 DEF PagesInv, MapsTyped
<1>13. \A a \in DOMAIN store :
         Addons!Card(AddonListing[a]) \in [version: AddonVersion, enabled: BOOLEAN, says: BOOLEAN,
                                                            update: AddonVersion,
                                                                busy: SUBSET {"toggle", "remove"}]
      <2>1. Addons!No \in AddonVersion
            BY DEF Addons!No, AddonVersion
      <2>2. \A a \in DOMAIN store :
              store[a].version \in AddonVersion /\ store[a].enabled \in BOOLEAN
            BY DEF PagesInv, MapsTyped
      <2> QED BY <1>9, <2>1, <2>2 DEF Addons!Card
<1>14. cards' = (IF screen = "main" THEN [a \in DOMAIN store |-> Addons!Card(AddonListing[a])]
         ELSE cards)
      BY <1>2, <1>4, <1>7, <1>9
<1>15. cardsOf' = (IF screen = "main" THEN turn ELSE cardsOf)
         /\ drawn' = (drawn \/ screen = "main")
      BY <1>1, <1>4, <1>7 DEF PagesInv, PageTyped
<1>16. forms' = IF screen = "config" THEN {} ELSE forms
      BY <1>4, <1>7
<1>17. PageTyped' /\ CallsTyped'
      <2>1. cards' \in [DOMAIN cards' -> [version: AddonVersion, enabled: BOOLEAN, says: BOOLEAN,
                                          update: AddonVersion,
                                              busy: SUBSET {"toggle", "remove"}]]
            BY <1>13, <1>14 DEF PagesInv, PageTyped
      <2>2. cardsOf' \in 0 .. turn
            BY <1>15 DEF PagesInv, PageTyped
      <2>3. drawn' \in BOOLEAN
            BY <1>15
      <2> QED BY <1>7, <2>1, <2>2, <2>3 DEF PagesInv, PageTyped, CallsTyped
<1>18. AddonsOnly'
      BY <1>7, <1>8, <1>9, <1>14 DEF PagesInv, AddonsOnly
<1>19. NewerUpdates'
      BY <1>14 DEF NewerUpdates, Addons!Card, PagesInv
<1>20. OneConfigForm' /\ OneCallEach' /\ CallsAreFit'
      BY <1>1, <1>7, <1>15, <1>16 DEF PagesInv, OneConfigForm, OneCallEach, CallsAreFit
<1>21. AllDrawn'
      BY <1>2, <1>7, <1>14, <1>15 DEF AllDrawn, PagesInv
<1>22. PagesAgree'
      <2> SUFFICES ASSUME NEW a \in Addon PROVE PageKnows(a)' /\ PageOffers(a)' /\ PageDraws(a)'
          BY DEF PagesAgree
      <2>1. PageKnows(a) /\ PageOffers(a) /\ PageDraws(a)
            BY <1>1, NothingAsked
      <2>2. PageKnows(a)'
            BY <1>7, <1>8, <1>9 DEF PageKnows
      <2>3. PageOffers(a)'
            BY <1>7, <1>15, <2>1 DEF PageOffers
      <2>4. PageDraws(a)'
            BY <1>7, <1>8, <1>9, <1>14, <2>1 DEF PageDraws, Addons!Card
      <2> QED BY <2>2, <2>3, <2>4
<1>23. PageReads'
      <2>1. CASE screen \in {"main", "discover"}
            <3>1. waits' = {[w EXCEPT !.step = "available"]}
                    /\ reads' = {Addons!Read(turn, "available", "none")}
                  BY <1>1, <1>3, <1>4, <1>5, <1>6, <1>7, <2>1 DEF PageWaiting
            <3>2. /\ [w EXCEPT !.step = "available"] \in PageWaiting("available")'
                  /\ Addons!Read(turn, "available", "none") \in PageReading("available", "none",
                      {Addons!No})'
                  BY <1>3, <1>7 DEF PageWaiting, PageReading, Addons!Read
            <3>3. ReadsAvailable'
                  BY <1>1, <1>7, <1>8, <1>15, <2>1, <3>1, <3>2 DEF ReadsAvailable
            <3> QED BY <1>8, <3>3 DEF PageReads
      <2>2. CASE screen = "config"
            <3>1. waits' = {}
                  BY <1>3, <1>5, <1>6, <1>7, <2>2
            <3>2. reads' = {Addons!Read(v.n, "config",
                    v.of) : v \in {u \in {w} : u.of \in DOMAIN r.body}}
                  BY <1>1, <1>4, <1>5, <1>7, <2>2
            <3>3. w.n = turn /\ w.of = title
                  BY <1>3, <2>2 DEF PageWaiting
            <3>4. reads' = {} \/ reads' = {Addons!Read(turn, "config", title)}
                  BY <3>2, <3>3
            <3>5. Addons!Read(turn, "config", title) \in PageReading("config", title,
                    {Addons!No})'
                  BY <1>7 DEF PageReading, Addons!Read
            <3>6. NothingRead' \/ ReadsConfig'
                  BY <1>1, <1>7, <1>8, <1>16, <2>2, <3>1, <3>4, <3>5 DEF NothingRead, ReadsConfig
            <3> QED BY <1>8, <3>6 DEF PageReads
      <2> QED BY <1>2, <2>1, <2>2
<1> QED BY <1>12, <1>17, <1>18, <1>19, <1>20, <1>21, <1>22, <1>23 DEF PagesInv

\* What is on offer is known.
LEMMA AvailableKeeps == ASSUME PagesInv, NEW r \in reads, Addons!Available(r) PROVE PagesInv'
<1>1. ReadsAvailable /\ reads = {r} /\ calls = {} /\ r.n = turn
      BY ReadsAlone DEF Addons!Available
<1>2. PICK w \in PageWaiting("available") : waits = {w}
      BY <1>1 DEF ReadsAvailable
<1> DEFINE on == {v \in waits : v.step = "available" /\ v.n = r.n}
           main == \E v \in on : v.at = "main"
<1>3. on = {w} /\ (main <=> screen = "main")
      BY <1>1, <1>2 DEF PageWaiting
<1>4. /\ reads' = reads \ {r} /\ waits' = waits \ on
      /\ available' = [a \in DOMAIN Addons!Offered |-> [version |-> Addons!Offered[a],
          installed |-> a \in DOMAIN installed]]
      /\ cards' = IF ~main \/ cardsOf # r.n THEN cards
                  ELSE [a \in DOMAIN cards |->
                          IF a \in DOMAIN installed \cap DOMAIN Addons!Offered
                             /\ Addons!Older(installed[a].version, Addons!Offered[a])
                          THEN [cards[a] EXCEPT !.update = Addons!Offered[a]] ELSE cards[a]]
      /\ IF main THEN UNCHANGED <<wares, waresOf, drawn>>
         ELSE /\ wares' = [a \in DOMAIN Addons!Offered |->
                              IF available'[a].installed THEN "added" ELSE "add"]
              /\ waresOf' = r.n /\ drawn' = (drawn \/ screen = "discover")
      /\ UNCHANGED <<store, installed, deferred, screen, turn, cardsOf, forms, title, calls>>
      BY DEF Addons!Available, Addons!Says
<1> HIDE DEF on, main
<1>5. reads' = {} /\ waits' = {}
      BY <1>1, <1>2, <1>3, <1>4
<1>6. deferred.state = "ok" /\ screen \in {"main", "discover"}
      BY <1>1 DEF ReadsAvailable
<1>7. PageReads'
      BY <1>4, <1>5, <1>6 DEF PageReads, NothingRead, PagesInv
<1>8. \A a \in Addon : PageKnows(a) /\ PageOffers(a) /\ PageDraws(a)
      BY <1>1, NothingAsked
<1>9. DOMAIN available' = DOMAIN Addons!Offered /\ \A a \in DOMAIN Addons!Offered :
         available'[a] = [version |-> Addons!Offered[a], installed |-> a \in DOMAIN installed]
      BY <1>4
<1>10. MapsTyped'
      <2>1. available' \in [DOMAIN available' -> [version: AddonVersion, installed: BOOLEAN]]
            BY <1>4, OfferedIs
      <2> QED BY <1>4, <2>1 DEF PagesInv, MapsTyped
<1>11. DOMAIN cards' = DOMAIN cards
      BY <1>4
<1>12. ASSUME NEW a \in DOMAIN cards
       PROVE  /\ cards'[a] \in [version: AddonVersion, enabled: BOOLEAN, says: BOOLEAN,
                                update: AddonVersion, busy: SUBSET {"toggle", "remove"}]
              /\ cards'[a].version = cards[a].version /\ cards'[a].enabled = cards[a].enabled
              /\ cards'[a].says = cards[a].says
              /\ cards'[a].update # Addons!No => Addons!Older(cards'[a].version, cards'[a].update)
      <2>1. cards[a] \in [version: AddonVersion, enabled: BOOLEAN, says: BOOLEAN,
                          update: AddonVersion, busy: SUBSET {"toggle", "remove"}]
            BY DEF PagesInv, PageTyped
      <2>2. cards[a].update # Addons!No => Addons!Older(cards[a].version, cards[a].update)
            BY DEF PagesInv, NewerUpdates
      <2>3. \/ cards'[a] = cards[a]
            \/ /\ a \in DOMAIN installed /\ a \in DOMAIN Addons!Offered
               /\ Addons!Older(installed[a].version, Addons!Offered[a])
               /\ cards'[a] = [cards[a] EXCEPT !.update = Addons!Offered[a]]
            BY <1>4
      <2>4. CASE cards'[a] = cards[a]
            BY <2>1, <2>2, <2>4
      <2>5. CASE /\ a \in DOMAIN installed /\ a \in DOMAIN Addons!Offered
                 /\ Addons!Older(installed[a].version, Addons!Offered[a])
                 /\ cards'[a] = [cards[a] EXCEPT !.update = Addons!Offered[a]]
            <3>1. Addons!Offered[a] \in AddonVersion /\ installed[a].version = cards[a].version
                  BY <1>8, <2>5, OfferedIs DEF PageKnows, PageDraws
            <3> QED BY <2>1, <2>5, <3>1
      <2> QED BY <2>3, <2>4, <2>5
<1>14. wares' = IF main THEN wares
                ELSE [a \in DOMAIN Addons!Offered |->
                        IF available'[a].installed THEN "added" ELSE "add"]
      BY <1>4
<1>15. drawn' \in BOOLEAN /\ (main => drawn' = drawn) /\ waresOf' \in 0 .. turn
      <2>1. turn \in Nat /\ drawn \in BOOLEAN /\ waresOf \in 0 .. turn
            BY DEF PagesInv, PageTyped
      <2>2. CASE main
            BY <1>4, <2>1, <2>2
      <2>3. CASE ~main
            BY <1>1, <1>4, <2>1, <2>3
      <2> QED BY <2>2, <2>3
<1>16. PageTyped'
      <2>1. cards' \in [DOMAIN cards' -> [version: AddonVersion, enabled: BOOLEAN, says: BOOLEAN,
                                          update: AddonVersion,
                                              busy: SUBSET {"toggle", "remove"}]]
            <3>1. cards' = [a \in DOMAIN cards |-> cards'[a]]
                  BY <1>4 DEF PagesInv, PageTyped
            <3> QED BY <1>11, <1>12, <3>1
      <2>2. wares' \in [DOMAIN wares' -> {"add", "added", "installing", "failed"}]
              /\ DOMAIN wares' \subseteq DOMAIN available'
            BY <1>9, <1>14 DEF PagesInv, PageTyped, AddonsOnly
      <2> QED BY <1>4, <1>15, <2>1, <2>2 DEF PagesInv, PageTyped
<1>17. AddonsOnly' /\ CallsTyped'
      <2>1. Addons!Offered' = Addons!Offered
            BY DEF Addons!Offered
      <2> QED BY <1>4, <1>9, <1>11, <2>1 DEF PagesInv, AddonsOnly, CallsTyped
<1>18. NewerUpdates'
      BY <1>11, <1>12 DEF NewerUpdates
<1>19. OneConfigForm' /\ OneCallEach' /\ CallsAreFit'
      BY <1>1, <1>4, <1>6 DEF PagesInv, OneConfigForm, OneCallEach, CallsAreFit
<1>20. AllDrawn'
      BY <1>3, <1>4, <1>11, <1>15 DEF PagesInv, AllDrawn
<1>21. PagesAgree'
      <2> SUFFICES ASSUME NEW a \in Addon PROVE PageKnows(a)' /\ PageOffers(a)' /\ PageDraws(a)'
          BY DEF PagesAgree
      <2>1. PageKnows(a)'
            BY <1>4, <1>8 DEF PageKnows
      <2>2. PageDraws(a)'
            BY <1>4, <1>8, <1>11, <1>12 DEF PageDraws
      <2>3. a \in DOMAIN installed <=> a \in DOMAIN store
            BY <1>6, <1>8 DEF PageKnows
      <2>4. PageOffers(a)'
            BY <1>3, <1>4, <1>6, <1>8, <1>9, <1>14, <2>3 DEF PageOffers
      <2> QED BY <2>1, <2>2, <2>4
<1> QED BY <1>7, <1>10, <1>16, <1>17, <1>18, <1>19, <1>20, <1>21 DEF PagesInv

\* What one add-on is in the maps of the page and of the gateway.
AddonSame(b) ==
  /\ b \in DOMAIN store' <=> b \in DOMAIN store
  /\ b \in DOMAIN store => store'[b] = store[b]
  /\ b \in DOMAIN installed' <=> b \in DOMAIN installed
  /\ b \in DOMAIN installed => installed'[b] = installed[b]
  /\ b \in DOMAIN available' <=> b \in DOMAIN available
  /\ b \in DOMAIN available => available'[b] = available[b]
  /\ b \in DOMAIN cards' <=> b \in DOMAIN cards
  /\ b \in DOMAIN cards => cards'[b] = cards[b]
  /\ b \in DOMAIN wares' <=> b \in DOMAIN wares
  /\ b \in DOMAIN wares => wares'[b] = wares[b]
AllElse == <<screen, drawn, deferred, turn, forms, reads, waits, title, waresOf, cardsOf>>

\* A step that is about one add-on.
LEMMA OneChanges ==
  ASSUME PagesInv, NothingRead, UNCHANGED AllElse, NEW a \in Addon,
         \A b \in Addon \ {a} : AddonSame(b),
         MapsTyped', PageTyped', CallsTyped', AddonsOnly', NewerUpdates', AllDrawn', OneCallEach',
         \A d \in calls' : d.addon # a => d \in calls,
         \A d \in calls : d.addon # a => d \in calls',
         \A d \in calls' : d.addon = a => AskedOf(d)' /\ (d.state = "done" => DoneAhead(d)'),
         AddonSettled(a)' => PageKnows(a)' /\ PageOffers(a)' /\ PageDraws(a)'
  PROVE  PagesInv'
<1>1. UNCHANGED <<screen, drawn, deferred, turn, forms, reads, waits, title>>
      BY DEF AllElse
<1>2. PageReads' /\ NothingRead'
      BY <1>1 DEF PagesInv, PageReads, NothingRead
<1>3. OneConfigForm'
      BY <1>1 DEF PagesInv, OneConfigForm
<1>4. CallsAreFit'
      <2> SUFFICES ASSUME NEW d \in calls', d.addon # a PROVE AskedOf(d)'
          /\ (d.state = "done" => DoneAhead(d)')
          BY <1>2 DEF CallsAreFit
      <2>1. d \in calls /\ d.addon \in Addon
            BY DEF PagesInv, CallsTyped
      <2>2. AskedOf(d) /\ (d.state = "done" => DoneAhead(d)) /\ AddonSame(d.addon)
            BY <2>1 DEF PagesInv, CallsAreFit
      <2>3. DOMAIN wares \subseteq DOMAIN available
            BY DEF PagesInv, PageTyped
      <2>4. AskedOf(d)'
            BY <1>1, <2>2, <2>3 DEF AskedOf, AddonSame
      <2>5. d.state = "done" => DoneAhead(d)'
            BY <1>1, <2>2 DEF AskedOf, DoneAhead, AddonSame
      <2> QED BY <2>4, <2>5
<1>5. PagesAgree'
      <2> SUFFICES ASSUME NEW b \in Addon, b # a, AddonSettled(b)' PROVE PageKnows(b)'
          /\ PageOffers(b)' /\ PageDraws(b)'
          BY DEF PagesAgree
      <2>1. AddonSettled(b)
            BY DEF AddonSettled
      <2>2. PageKnows(b) /\ PageOffers(b) /\ PageDraws(b) /\ AddonSame(b)
            BY <2>1 DEF PagesInv, PagesAgree
      <2>3. PageKnows(b)'
            BY <1>1, <2>2 DEF PageKnows, AddonSame
      <2>4. PageOffers(b)'
            BY <1>1, <2>2 DEF PageOffers, AddonSame
      <2>5. PageDraws(b)'
            BY <1>1, <2>2 DEF PageDraws, AddonSame
      <2> QED BY <2>3, <2>4, <2>5
<1> QED BY <1>2, <1>3, <1>4, <1>5 DEF PagesInv

\* What the user asks for, he asks where nothing else is under way for the add-on.
LEMMA AskIs ==
  ASSUME PagesInv, ~Hasty, NEW do \in AddonCalls, NEW a \in Addon, NEW sentValue \in AddonVersion,
         Addons!Ask(do, a, sentValue)
  PROVE  \E c \in [do: {do}, addon: {a}, n: {turn}, value: {sentValue}, state: {"sent"}] :
           /\ calls' = calls \cup {c} /\ (\A d \in calls : d.addon # a)
           /\ NothingRead /\ UNCHANGED <<store, installed, available, AllElse>>
           /\ MapsTyped' /\ CallsTyped' /\ OneCallEach'
           /\ (AddonSettled(a) /\ PageKnows(a) /\ PageOffers(a) /\ PageDraws(a))
<1> DEFINE c == [do |-> do, addon |-> a, n |-> turn, value |-> sentValue, state |-> "sent"]
<1>1. /\ reads = {} /\ \A d \in calls : d.addon # a
      BY DEF Addons!Ask, Addons!Free
<1>2. calls' = calls \cup {c} /\ UNCHANGED <<store, installed, available, AllElse>>
        /\ turn' = turn
      BY DEF Addons!Ask, Addons!Maps, AllElse
<1>3. c \in [do: {do}, addon: {a}, n: {turn}, value: {sentValue}, state: {"sent"}]
      OBVIOUS
<1> HIDE DEF c
<1>4. NothingRead
      BY <1>1 DEF PagesInv, PageReads, ReadsInstalled, ReadsAvailable, ReadsConfig
<1>5. MapsTyped'
      BY <1>2 DEF PagesInv, MapsTyped
<1>6. CallsTyped'
      BY <1>2, <1>3 DEF PagesInv, CallsTyped
<1>7. OneCallEach'
      BY <1>1, <1>2, <1>3 DEF PagesInv, OneCallEach
<1>8. AddonSettled(a) /\ PageKnows(a) /\ PageOffers(a) /\ PageDraws(a)
      BY <1>1 DEF PagesInv, PagesAgree, AddonSettled
<1> QED BY <1>1, <1>2, <1>3, <1>4, <1>5, <1>6, <1>7, <1>8

\* A card is pressed: its data are as they were.
LEMMA PressKeeps ==
  ASSUME PagesInv, ~Hasty, NEW do \in {"toggle", "remove", "update"}, NEW a \in Addon,
         NEW sentValue \in AddonVersion,
         Addons!Press(do, a, sentValue), NEW card,
         card \in [version: AddonVersion, enabled: BOOLEAN, says: BOOLEAN,
                   update: AddonVersion, busy: SUBSET {"toggle", "remove"}],
         cards' = [cards EXCEPT ![a] = card],
         card.version = cards[a].version, card.enabled = cards[a].enabled,
             card.says = cards[a].says,
         card.update \in {cards[a].update, Addons!No},
         do = "toggle" => sentValue \in {<< 0 >>, << 1 >>},
         do = "update" => card.update = Addons!No /\ cards[a].enabled
  PROVE  PagesInv'
<1>0. Addons!Ask(do, a, sentValue) /\ do \in AddonCalls /\ screen = "main" /\ a \in DOMAIN cards
        /\ wares' = wares
      BY DEF Addons!Press, AddonCalls
<1>1. PICK c \in [do: {do}, addon: {a}, n: {turn}, value: {sentValue}, state: {"sent"}] :
           /\ calls' = calls \cup {c} /\ (\A d \in calls : d.addon # a)
           /\ NothingRead /\ UNCHANGED <<store, installed, available, AllElse>>
           /\ MapsTyped' /\ CallsTyped' /\ OneCallEach'
           /\ (AddonSettled(a) /\ PageKnows(a) /\ PageOffers(a) /\ PageDraws(a))
      BY <1>0, AskIs
<1>2. UNCHANGED <<screen, drawn, deferred, turn, forms, reads, waits, title, waresOf, cardsOf>>
      BY <1>1 DEF AllElse
<1>3. DOMAIN cards' = DOMAIN cards /\ cards'[a] = card /\ \A b \in DOMAIN cards : b # a
        => cards'[b] = cards[b]
      BY <1>0
<1>4. \A b \in Addon \ {a} : AddonSame(b)
      BY <1>0, <1>1, <1>3 DEF AddonSame
<1>5. PageTyped'
      <2>1. cards' \in [DOMAIN cards' -> [version: AddonVersion, enabled: BOOLEAN, says: BOOLEAN,
                                          update: AddonVersion,
                                              busy: SUBSET {"toggle", "remove"}]]
            BY <1>3 DEF PagesInv, PageTyped
      <2> QED BY <1>0, <1>1, <1>2, <2>1 DEF PagesInv, PageTyped
<1>6. AddonsOnly'
      <2>1. Addons!Offered' = Addons!Offered
            BY DEF Addons!Offered
      <2> QED BY <1>1, <1>3, <2>1 DEF PagesInv, AddonsOnly
<1>7. NewerUpdates'
      BY <1>0, <1>3 DEF PagesInv, NewerUpdates
<1>8. AllDrawn'
      BY <1>1, <1>2, <1>3 DEF PagesInv, AllDrawn
<1>9. AskedOf(c)' /\ c.state # "done" /\ c.addon = a
      BY <1>0, <1>1, <1>2, <1>3 DEF AskedOf, PageKnows, PageDraws
<1>10. PageKnows(a)' /\ PageOffers(a)' /\ PageDraws(a)'
      BY <1>0, <1>1, <1>2, <1>3 DEF PageKnows, PageOffers, PageDraws
<1> QED BY <1>1, <1>4, <1>5, <1>6, <1>7, <1>8, <1>9, <1>10, OneChanges

\* What is sent are versions.
LEMMA VersionsAre == <<0>> \in AddonVersion /\ <<1>> \in AddonVersion
    /\ Addons!No \in AddonVersion
BY DEF AddonVersion, Addons!No

\* An add-on is to be enabled or disabled.
LEMMA ToggleKeeps == ASSUME PagesInv, ~Hasty, NEW a \in Addon, Addons!Toggle(a) PROVE PagesInv'
<1> DEFINE card == [cards[a] EXCEPT !.busy = @ \cup {"toggle"}]
<1>1. /\ Addons!Press("toggle", a, IF cards[a].enabled THEN <<0>> ELSE <<1>>)
          /\ a \in DOMAIN cards
      /\ cards' = [cards EXCEPT ![a] = card]
      BY DEF Addons!Toggle, Addons!Press
<1>2. cards[a] \in [version: AddonVersion, enabled: BOOLEAN, says: BOOLEAN,
                    update: AddonVersion, busy: SUBSET {"toggle", "remove"}]
      BY <1>1 DEF PagesInv, PageTyped
<1>3. /\ card \in [version: AddonVersion, enabled: BOOLEAN, says: BOOLEAN,
                   update: AddonVersion, busy: SUBSET {"toggle", "remove"}]
      /\ card.version = cards[a].version /\ card.enabled = cards[a].enabled
      /\ card.says = cards[a].says
      /\ card.update = cards[a].update
      BY <1>2
<1> HIDE DEF card
<1> QED BY <1>1, <1>3, PressKeeps, VersionsAre

\* An add-on is to be removed.
LEMMA RemoveKeeps == ASSUME PagesInv, ~Hasty, NEW a \in Addon, Addons!Remove(a) PROVE PagesInv'
<1> DEFINE card == [cards[a] EXCEPT !.busy = @ \cup {"remove"}]
<1>1. /\ Addons!Press("remove", a, Addons!No) /\ a \in DOMAIN cards
      /\ cards' = [cards EXCEPT ![a] = card]
      BY DEF Addons!Remove, Addons!Press
<1>2. cards[a] \in [version: AddonVersion, enabled: BOOLEAN, says: BOOLEAN,
                    update: AddonVersion, busy: SUBSET {"toggle", "remove"}]
      BY <1>1 DEF PagesInv, PageTyped
<1>3. /\ card \in [version: AddonVersion, enabled: BOOLEAN, says: BOOLEAN,
                   update: AddonVersion, busy: SUBSET {"toggle", "remove"}]
      /\ card.version = cards[a].version /\ card.enabled = cards[a].enabled
      /\ card.says = cards[a].says
      /\ card.update = cards[a].update
      BY <1>2
<1> HIDE DEF card
<1> QED BY <1>1, <1>3, PressKeeps, VersionsAre

\* An add-on is to be updated.
LEMMA UpdateKeeps == ASSUME PagesInv, ~Hasty, NEW a \in Addon, Addons!Update(a) PROVE PagesInv'
<1> DEFINE card == [cards[a] EXCEPT !.update = Addons!No]
<1>1. /\ Addons!Press("update", a, cards[a].update) /\ a \in DOMAIN cards /\ cards[a].enabled
      /\ cards' = [cards EXCEPT ![a] = card]
      BY DEF Addons!Update, Addons!Press
<1>2. cards[a] \in [version: AddonVersion, enabled: BOOLEAN, says: BOOLEAN,
                    update: AddonVersion, busy: SUBSET {"toggle", "remove"}]
      BY <1>1 DEF PagesInv, PageTyped
<1>3. /\ card \in [version: AddonVersion, enabled: BOOLEAN, says: BOOLEAN,
                   update: AddonVersion, busy: SUBSET {"toggle", "remove"}]
      /\ card.version = cards[a].version /\ card.enabled = cards[a].enabled
      /\ card.says = cards[a].says
      /\ card.update = Addons!No /\ cards[a].update \in AddonVersion
      BY <1>2, VersionsAre
<1> HIDE DEF card
<1> QED BY <1>1, <1>3, PressKeeps, VersionsAre

\* An add-on is to be installed.
LEMMA InstallKeeps == ASSUME PagesInv, ~Hasty, NEW a \in Addon, Addons!Install(a) PROVE PagesInv'
<1>0. /\ screen = "discover" /\ a \in DOMAIN wares /\ wares[a] = "add"
      /\ Addons!Ask("install", a, available[a].version)
      /\ wares' = [wares EXCEPT ![a] = "installing"] /\ cards' = cards
      BY DEF Addons!Install
<1>1. "install" \in AddonCalls /\ a \in DOMAIN available /\ available[a].version \in AddonVersion
        /\ available[a].installed \in BOOLEAN
      BY <1>0 DEF PagesInv, MapsTyped, PageTyped, AddonCalls
<1> DEFINE sentValue == available[a].version
<1> HIDE DEF sentValue
<1>2. sentValue \in AddonVersion /\ Addons!Ask("install", a, sentValue)
      BY <1>0, <1>1 DEF sentValue
<1>3. PICK c \in [do: {"install"}, addon: {a}, n: {turn}, value: {sentValue}, state: {"sent"}] :
           /\ calls' = calls \cup {c} /\ (\A d \in calls : d.addon # a)
           /\ NothingRead /\ UNCHANGED <<store, installed, available, AllElse>>
           /\ MapsTyped' /\ CallsTyped' /\ OneCallEach'
           /\ (AddonSettled(a) /\ PageKnows(a) /\ PageOffers(a) /\ PageDraws(a))
      BY <1>1, <1>2, AskIs
<1>4. UNCHANGED <<screen, drawn, deferred, turn, forms, reads, waits, title, waresOf, cardsOf>>
      BY <1>3 DEF AllElse
<1>5. DOMAIN wares' = DOMAIN wares /\ wares'[a] = "installing" /\ \A b \in DOMAIN wares : b # a
        => wares'[b] = wares[b]
      BY <1>0
<1>6. \A b \in Addon \ {a} : AddonSame(b)
      BY <1>0, <1>3, <1>5 DEF AddonSame
<1>7. PageTyped'
      <2>1. wares' \in [DOMAIN wares' -> {"add", "added", "installing", "failed"}]
            BY <1>0, <1>5 DEF PagesInv, PageTyped
      <2> QED BY <1>0, <1>3, <1>4, <1>5, <2>1 DEF PagesInv, PageTyped
<1>8. AddonsOnly' /\ NewerUpdates' /\ AllDrawn'
      <2>1. Addons!Offered' = Addons!Offered
            BY DEF Addons!Offered
      <2> QED BY <1>0, <1>3, <1>4, <2>1 DEF PagesInv, AddonsOnly, NewerUpdates, AllDrawn
<1>9. a \notin DOMAIN store
      BY <1>0, <1>3 DEF PageOffers
<1>10. AskedOf(c)' /\ c.state # "done" /\ c.addon = a
      BY <1>0, <1>1, <1>3, <1>4, <1>5, <1>9 DEF AskedOf, PageKnows, PageDraws, PageOffers
<1>11. PageKnows(a)' /\ PageOffers(a)' /\ PageDraws(a)'
      BY <1>0, <1>3, <1>4, <1>5, <1>9 DEF PageKnows, PageOffers, PageDraws
<1> QED BY <1>3, <1>6, <1>7, <1>8, <1>10, <1>11, OneChanges

\* A configuration is to be stored.
LEMMA ApplyKeeps == ASSUME PagesInv, ~Hasty, NEW a \in Addon, Addons!Apply(a) PROVE PagesInv'
<1>0. screen = "config" /\ a \in forms /\ Addons!Ask("config", a, Addons!No)
        /\ UNCHANGED <<cards, wares>> /\ "config" \in AddonCalls
      BY DEF Addons!Apply, AddonCalls
<1>3. PICK c \in [do: {"config"}, addon: {a}, n: {turn}, value: {Addons!No}, state: {"sent"}] :
           /\ calls' = calls \cup {c} /\ (\A d \in calls : d.addon # a)
           /\ NothingRead /\ UNCHANGED <<store, installed, available, AllElse>>
           /\ MapsTyped' /\ CallsTyped' /\ OneCallEach'
           /\ (AddonSettled(a) /\ PageKnows(a) /\ PageOffers(a) /\ PageDraws(a))
      BY <1>0, VersionsAre, AskIs
<1>4. UNCHANGED <<screen, drawn, deferred, turn, forms, reads, waits, title, waresOf, cardsOf>>
      BY <1>3 DEF AllElse
<1>6. \A b \in Addon \ {a} : AddonSame(b)
      BY <1>0, <1>3 DEF AddonSame
<1>7. PageTyped'
      BY <1>0, <1>3, <1>4 DEF PagesInv, PageTyped
<1>8. AddonsOnly' /\ NewerUpdates' /\ AllDrawn'
      <2>1. Addons!Offered' = Addons!Offered
            BY DEF Addons!Offered
      <2> QED BY <1>0, <1>3, <1>4, <2>1 DEF PagesInv, AddonsOnly, NewerUpdates, AllDrawn
<1>10. AskedOf(c)' /\ c.state # "done" /\ c.addon = a
      BY <1>0, <1>3, <1>4 DEF AskedOf
<1>11. PageKnows(a)' /\ PageOffers(a)' /\ PageDraws(a)'
      BY <1>0, <1>3, <1>4 DEF PageKnows, PageOffers, PageDraws
<1> QED BY <1>3, <1>6, <1>7, <1>8, <1>10, <1>11, OneChanges

\* The gateway answers a call.
LEMMA CallAnswered ==
  ASSUME PagesInv, NEW c \in calls, c.state = "sent", NEW st \in {"done", "refused"},
         calls' = (calls \ {c}) \cup {[c EXCEPT !.state = st]},
         UNCHANGED <<Addons!Maps, screen, turn, drawn, waits, reads, Addons!Shown, title>>,
         \A b \in Addon \ {c.addon} : /\ b \in DOMAIN store' <=> b \in DOMAIN store
                                      /\ b \in DOMAIN store => store'[b] = store[b],
         store' \in [DOMAIN store' -> [version: AddonVersion, enabled: BOOLEAN, listed: {TRUE}]],
         DOMAIN store' \subseteq Addon,
         st = "refused" \/ c.do = "config" => store' = store,
         st = "done" => DoneAhead(c)',
         AllDrawn'
  PROVE  PagesInv'
<1> DEFINE a == c.addon
           d == [c EXCEPT !.state = st]
<1>1. UNCHANGED <<installed, available, deferred, screen, turn, drawn, waits, reads, cards,
        cardsOf, wares, waresOf, forms, title>>
      BY DEF Addons!Maps, Addons!Shown
<1>2. /\ a \in Addon
          /\ c \in [do: AddonCalls, addon: Addon, n: {turn}, value: AddonVersion,
              state: {"sent", "done", "refused"}]
      /\ \A e \in calls : e.addon = a => e = c
      BY DEF PagesInv, CallsTyped, OneCallEach
<1>3. /\ d \in [do: AddonCalls, addon: Addon, n: {turn}, value: AddonVersion,
          state: {"sent", "done", "refused"}]
      /\ d.do = c.do /\ d.addon = a /\ d.value = c.value /\ d.state = st
      BY <1>2
<1>4. AddonSettled(a) /\ NothingRead /\ AskedOf(c)
      BY <1>2 DEF PagesInv, CallsAreFit, AddonSettled
<1>5. PageKnows(a) /\ PageOffers(a) /\ PageDraws(a)
      BY <1>2, <1>4 DEF PagesInv, PagesAgree
<1> HIDE DEF d
<1>6. calls' = (calls \ {c}) \cup {d}
      BY DEF d
<1>7. \A b \in Addon \ {a} : AddonSame(b)
      BY <1>1 DEF AddonSame
<1>8. MapsTyped' /\ PageTyped'
      BY <1>1 DEF PagesInv, MapsTyped, PageTyped
<1>9. CallsTyped' /\ OneCallEach'
      BY <1>1, <1>2, <1>3, <1>6 DEF PagesInv, CallsTyped, OneCallEach
<1>10. AddonsOnly' /\ NewerUpdates'
      <2>1. Addons!Offered' = Addons!Offered
            BY DEF Addons!Offered
      <2> QED BY <1>1, <2>1 DEF PagesInv, AddonsOnly, NewerUpdates
<1>11. AskedOf(d)' /\ (d.state = "done" => DoneAhead(d)')
      <2>1. AskedOf(d)'
            BY <1>1, <1>3, <1>4 DEF AskedOf
      <2>2. st = "done" => DoneAhead(d)'
            BY <1>3 DEF DoneAhead
      <2> QED BY <1>3, <2>1, <2>2
<1>12. AddonSettled(a)' => PageKnows(a)' /\ PageOffers(a)' /\ PageDraws(a)'
      <2>1. AddonSettled(a)' => store' = store
            BY <1>3, <1>6 DEF AddonSettled
      <2>2. store' = store => PageKnows(a)' /\ PageOffers(a)' /\ PageDraws(a)'
            BY <1>1, <1>5 DEF PageKnows, PageOffers, PageDraws
      <2> QED BY <2>1, <2>2
<1>13. UNCHANGED AllElse
      BY <1>1 DEF AllElse
<1>14. /\ \A e \in calls' : e.addon # a => e \in calls
       /\ \A e \in calls : e.addon # a => e \in calls'
       /\ \A e \in calls' : e.addon = a => e = d
      BY <1>2, <1>3, <1>6
<1> HIDE DEF a
<1> QED BY <1>2, <1>4, <1>7, <1>8, <1>9, <1>10, <1>11, <1>12, <1>13, <1>14, OneChanges DEF a

\* A map with one entry less.
LEMMA WithoutIs ==
  ASSUME NEW S, NEW f, NEW a, \A b \in DOMAIN f : f[b] \in S
  PROVE  /\ DOMAIN Addons!Without(f, a) = DOMAIN f \ {a}
         /\ \A b \in DOMAIN f : b # a => Addons!Without(f, a)[b] = f[b]
         /\ Addons!Without(f, a) \in [DOMAIN Addons!Without(f, a) -> S]
BY DEF Addons!Without

\* The gateway refuses a call, and has done nothing of it.
LEMMA RefuseCallKeeps ==
  ASSUME PagesInv, NEW c \in calls, Addons!RefuseCall(c), ~half'
  PROVE  PagesInv'
<1>1. /\ c.state = "sent" /\ calls' = (calls \ {c}) \cup {[c EXCEPT !.state = "refused"]}
      /\ UNCHANGED <<Addons!Maps, screen, turn, drawn, waits, reads, Addons!Shown, title>>
      /\ store' = store
      BY DEF Addons!RefuseCall, Addons!Gone
<1>2. AllDrawn'
      BY <1>1 DEF PagesInv, AllDrawn, Addons!Shown
<1>3. store \in [DOMAIN store -> [version: AddonVersion, enabled: BOOLEAN, listed: {TRUE}]]
        /\ DOMAIN store \subseteq Addon
      BY DEF PagesInv, MapsTyped, AddonsOnly
<1> QED BY <1>1, <1>2, <1>3, CallAnswered

\* The gateway does what it is asked to.
LEMMA ServeCallKeeps == ASSUME PagesInv, NEW c \in calls, Addons!ServeCall(c) PROVE PagesInv'
<1> DEFINE a == c.addon
           E == [version: AddonVersion, enabled: BOOLEAN, listed: {TRUE}]
           wasOn == a \in DOMAIN store /\ store[a].enabled
           given(on) == Addons!With(store, a,
               [version |-> c.value, enabled |-> on, listed |-> on])
<1>1. /\ a \in Addon /\ c.do \in AddonCalls /\ c.value \in AddonVersion /\ \A e \in calls :
          e.addon = a => e = c
      BY DEF PagesInv, CallsTyped, OneCallEach
<1>2. /\ c.state = "sent"
      /\ UNCHANGED <<Addons!Maps, screen, turn, drawn, waits, reads, Addons!Shown, title>>
      BY DEF Addons!ServeCall, Addons!Gone, Addons!Made, Addons!Barred
<1>3. AddonSettled(a) /\ AskedOf(c)
      BY <1>1, <1>2 DEF PagesInv, CallsAreFit, AddonSettled
<1>4. PageKnows(a) /\ PageOffers(a) /\ PageDraws(a)
      BY <1>1, <1>3 DEF PagesInv, PagesAgree
<1>5. /\ store \in [DOMAIN store -> E] /\ DOMAIN store \subseteq Addon
      /\ \A b \in DOMAIN store : store[b] \in E
      BY DEF PagesInv, MapsTyped, AddonsOnly
<1>6. UNCHANGED <<installed, available, screen, turn, drawn, cards, wares, forms>>
      BY <1>2 DEF Addons!Maps, Addons!Shown
<1>7. c.do \in {"toggle", "remove", "update"}
        => screen = "main" /\ a \in DOMAIN store /\ a \in DOMAIN cards /\ a \in DOMAIN installed
      BY <1>3, <1>4 DEF AskedOf, PageKnows
<1>8. CASE c.do = "toggle"
      <2>1. a \in DOMAIN store /\ store[a].listed
            BY <1>5, <1>7, <1>8
      <2>2. /\ calls' = (calls \ {c}) \cup {[c EXCEPT !.state = "done"]}
            /\ store' = [store EXCEPT ![a].enabled = (c.value = <<1>>)]
            BY <1>8, <2>1 DEF Addons!ServeCall, Addons!Gone, Addons!Made, Addons!Barred
      <2>3. store' \in [DOMAIN store' -> E] /\ DOMAIN store' = DOMAIN store
            BY ZenonT(60), <1>5, <2>2
      <2>4. /\ store'[a].version = store[a].version /\ store'[a].enabled = (c.value = <<1>>)
            /\ \A b \in DOMAIN store : b # a => store'[b] = store[b]
            BY <1>5, <2>1, <2>2
      <2>5. DoneAhead(c)'
            BY <1>4, <1>6, <1>7, <1>8, <2>3, <2>4 DEF DoneAhead, PageKnows, PageDraws, PageOffers
      <2>6. AllDrawn'
            BY <1>6, <2>3 DEF PagesInv, AllDrawn
      <2> HIDE DEF a
      <2>7. \A b \in Addon \ {a} :
              (b \in DOMAIN store' <=> b \in DOMAIN store)
                  /\ (b \in DOMAIN store => store'[b] = store[b])
            BY <2>3, <2>4
      <2> QED BY <1>2, <1>5, <1>8, <2>2, <2>3, <2>5, <2>6, <2>7, CallAnswered DEF a
<1>9. CASE c.do = "remove"
      <2>2. /\ calls' = (calls \ {c}) \cup {[c EXCEPT !.state = "done"]}
            /\ store' = Addons!Without(store, a)
            BY <1>9 DEF Addons!ServeCall, Addons!Gone, Addons!Made, Addons!Barred
      <2>3. store' \in [DOMAIN store' -> E] /\ DOMAIN store' = DOMAIN store \ {a}
              /\ \A b \in DOMAIN store : b # a => store'[b] = store[b]
            <3> HIDE DEF E, a
            <3>1. \A b \in DOMAIN store : store[b] \in E
                  BY <1>5
            <3>2. /\ DOMAIN Addons!Without(store, a) = DOMAIN store \ {a}
                  /\ \A b \in DOMAIN store : b # a => Addons!Without(store, a)[b] = store[b]
                  /\ Addons!Without(store, a) \in [DOMAIN Addons!Without(store, a) -> E]
                  BY <3>1, WithoutIs, Zenon
            <3> QED BY <2>2, <3>2
      <2>5. DoneAhead(c)'
            BY <1>9, <2>3 DEF DoneAhead
      <2>6. AllDrawn'
            BY <1>6, <2>3 DEF PagesInv, AllDrawn
      <2> HIDE DEF a
      <2>7. \A b \in Addon \ {a} :
              (b \in DOMAIN store' <=> b \in DOMAIN store)
                  /\ (b \in DOMAIN store => store'[b] = store[b])
            BY <2>3
      <2>8. DOMAIN store' \subseteq Addon
            BY <1>5, <2>3
      <2> QED BY <1>2, <1>9, <2>2, <2>3, <2>5, <2>6, <2>7, <2>8, CallAnswered DEF a
<1>10. CASE c.do \in {"install", "update"}
      <2>1. c.do = "update" => wasOn
            BY <1>3, <1>4, <1>7 DEF AskedOf, PageDraws
      <2>2. /\ calls' = (calls \ {c}) \cup {[c EXCEPT !.state = "done"]} /\ store' = given(TRUE)
            <3>1. c.do = "install" => store' = given(TRUE)
                  BY DEF Addons!ServeCall, Addons!Gone, Addons!Made, Addons!Barred
            <3>2. c.do = "update" => store' = given(wasOn)
                  BY DEF Addons!ServeCall, Addons!Gone, Addons!Made, Addons!Barred
            <3>3. c.do = "update" => wasOn = TRUE
                  BY <1>5, <2>1
            <3>4. calls' = (calls \ {c}) \cup {[c EXCEPT !.state = "done"]}
                  BY <1>10 DEF Addons!ServeCall, Addons!Gone, Addons!Made, Addons!Barred
            <3> HIDE DEF wasOn, given
            <3> QED BY <1>10, <3>1, <3>2, <3>3, <3>4
      <2> DEFINE new == [version |-> c.value, enabled |-> TRUE, listed |-> TRUE]
      <2>3. store' \in [DOMAIN store' -> E] /\ DOMAIN store' = DOMAIN store \cup {a}
              /\ store'[a] = new
            /\ \A b \in DOMAIN store : b # a => store'[b] = store[b]
            <3>1. new \in E
                  BY <1>1
            <3>2. store' = Addons!With(store, a, new)
                  BY <2>2
            <3> HIDE DEF new, E, a
            <3>3. \A b \in DOMAIN store : store[b] \in E
                  BY <1>5
            <3>4. /\ DOMAIN Addons!With(store, a, new) = DOMAIN store \cup {a}
                  /\ Addons!With(store, a, new)[a] = new
                  /\ \A b \in DOMAIN store : b # a => Addons!With(store, a, new)[b] = store[b]
                  /\ Addons!With(store, a, new) \in [DOMAIN Addons!With(store, a, new) -> E]
                  BY <3>1, <3>3, SMT DEF Addons!With
            <3> QED BY <3>2, <3>4
      <2>4. store'[a].enabled /\ store'[a].version = c.value
            BY <2>3
      <2> HIDE DEF new, given, wasOn
      <2>5. DoneAhead(c)'
            BY <1>4, <1>6, <1>7, <1>10, <2>3, <2>4 DEF DoneAhead, PageOffers
      <2>6. AllDrawn'
            BY <1>3, <1>6, <1>7, <1>10, <2>3 DEF PagesInv, AllDrawn, AskedOf
      <2> HIDE DEF a
      <2>7. \A b \in Addon \ {a} :
              (b \in DOMAIN store' <=> b \in DOMAIN store)
                  /\ (b \in DOMAIN store => store'[b] = store[b])
            BY <2>3
      <2>8. DOMAIN store' \subseteq Addon
            BY <1>1, <1>5, <2>3
      <2> QED BY <1>2, <1>10, <2>2, <2>3, <2>5, <2>6, <2>7, <2>8, CallAnswered DEF a
<1>11. CASE c.do = "config"
      <2>2. /\ calls' = (calls \ {c}) \cup {[c EXCEPT !.state = "done"]} /\ store' = store
            BY <1>11 DEF Addons!ServeCall, Addons!Gone, Addons!Made, Addons!Barred
      <2>5. DoneAhead(c)'
            BY <1>11 DEF DoneAhead
      <2>6. AllDrawn'
            BY <1>6, <2>2 DEF PagesInv, AllDrawn
      <2> QED BY <1>2, <1>5, <1>11, <2>2, <2>5, <2>6, CallAnswered
<1> QED BY <1>1, <1>8, <1>9, <1>10, <1>11 DEF AddonCalls

\* An answer is taken: what it was about is again as the gateway has it.
LEMMA TakenKeeps ==
  ASSUME PagesInv, NEW c \in calls, calls' = calls \ {c}, store' = store, UNCHANGED AllElse,
         \A b \in Addon \ {c.addon} : AddonSame(b),
         MapsTyped', PageTyped', NewerUpdates', AllDrawn', AddonsOnly',
         PageKnows(c.addon)', PageOffers(c.addon)', PageDraws(c.addon)'
  PROVE  PagesInv'
<1> DEFINE a == c.addon
<1>1. a \in Addon /\ NothingRead /\ \A e \in calls : e.addon = a => e = c
      BY DEF PagesInv, CallsTyped, OneCallEach, CallsAreFit
<1>2. CallsTyped' /\ OneCallEach'
      BY DEF PagesInv, CallsTyped, OneCallEach, AllElse
<1>3. /\ \A e \in calls' : e.addon # a /\ e \in calls
      /\ \A e \in calls : e.addon # a => e \in calls'
      BY <1>1
<1> HIDE DEF a
<1> QED BY <1>1, <1>2, <1>3, OneChanges DEF a

\* What is known of a call that is answered, and of what it is about.
LEMMA TakesIs ==
  ASSUME PagesInv, NEW c \in calls, NEW do, Addons!Takes(c, do)
  PROVE  /\ c.addon \in Addon /\ c.do = do /\ c.value \in AddonVersion /\ c.n = turn
         /\ calls' = calls \ {c}
         /\ c.state \in {"done", "refused"} /\ AskedOf(c)
         /\ c.state = "done" => DoneAhead(c)
         /\ c.state = "refused" => PageKnows(c.addon) /\ PageOffers(c.addon) /\ PageDraws(c.addon)
         /\ UNCHANGED <<store, deferred, forms, title, cardsOf, waresOf>>
         /\ c.n >= cardsOf /\ c.n >= waresOf
<1>1. /\ c.addon \in Addon /\ c.value \in AddonVersion /\ c.n = turn
      /\ c.state \in {"sent", "done", "refused"}
      /\ \A e \in calls : e.addon = c.addon => e = c
      BY DEF PagesInv, CallsTyped, OneCallEach
<1>2. /\ c.do = do /\ c.state # "sent" /\ calls' = calls \ {c}
      /\ UNCHANGED <<store, deferred, forms, title, cardsOf, waresOf>>
      BY DEF Addons!Takes
<1>3. AskedOf(c) /\ (c.state = "done" => DoneAhead(c))
      BY DEF PagesInv, CallsAreFit
<1>4. c.state = "refused" => AddonSettled(c.addon)
      BY <1>1 DEF AddonSettled
<1>5. turn \in Nat /\ cardsOf \in 0 .. turn /\ waresOf \in 0 .. turn
      BY DEF PagesInv, PageTyped
<1> QED BY <1>1, <1>2, <1>3, <1>4, <1>5 DEF PagesInv, PagesAgree

\* An add-on was enabled or disabled.
LEMMA ToggledKeeps == ASSUME PagesInv, NEW c \in calls, Addons!Toggled(c) PROVE PagesInv'
<1> DEFINE a == c.addon
           on == c.value = <<1>>
           ok == c.state = "done"
           card == cards'[a]
           C == [version: AddonVersion, enabled: BOOLEAN, says: BOOLEAN,
                 update: AddonVersion, busy: SUBSET {"toggle", "remove"}]
<1>1. /\ a \in Addon /\ c.do = "toggle" /\ c.value \in AddonVersion /\ c.n = turn
      /\ calls' = calls \ {c}
      /\ c.state \in {"done", "refused"} /\ AskedOf(c)
      /\ ok => DoneAhead(c)
      /\ c.state = "refused" => PageKnows(a) /\ PageOffers(a) /\ PageDraws(a)
      /\ UNCHANGED <<store, deferred, forms, title, cardsOf, waresOf>>
      /\ c.n >= cardsOf /\ c.n >= waresOf
      BY TakesIs DEF Addons!Toggled
<1>2. UNCHANGED <<screen, turn, drawn, waits, reads, available, wares>>
      BY DEF Addons!Toggled, Addons!Stays
<1>3. screen = "main" /\ a \in DOMAIN cards /\ a \in DOMAIN installed
      BY <1>1 DEF AskedOf
<1>4. cards' = [cards EXCEPT ![a].busy = @ \ {"toggle"},
                             ![a].enabled = IF ok THEN on ELSE @,
                             ![a].says = IF ok /\ a \in DOMAIN installed THEN on ELSE @]
      <2>1. Addons!Own(c)
            BY <1>1, <1>3 DEF Addons!Own
      <2> QED BY <2>1 DEF Addons!Toggled
<1>5. installed' = IF ok THEN [installed EXCEPT ![a].enabled = on] ELSE installed
      BY <1>3 DEF Addons!Toggled
<1>6. /\ card \in C /\ card.version = cards[a].version /\ card.update = cards[a].update
      /\ card.enabled = (IF ok THEN on ELSE cards[a].enabled)
          /\ card.says = (IF ok THEN on ELSE cards[a].says)
      <2>1. cards[a] \in C
            BY <1>3 DEF PagesInv, PageTyped
      <2>2. on \in BOOLEAN
            OBVIOUS
      <2>3. card = [cards[a] EXCEPT !.busy = @ \ {"toggle"},
                                    !.enabled = IF ok THEN on ELSE @,
                                    !.says = IF ok /\ a \in DOMAIN installed THEN on ELSE @]
            BY <1>3, <1>4
      <2> HIDE DEF card, on, ok
      <2> QED BY <1>3, <2>1, <2>2, <2>3
<1>7. DOMAIN cards' = DOMAIN cards /\ cards'[a] = card /\ \A b \in DOMAIN cards : b # a
        => cards'[b] = cards[b]
      BY <1>3, <1>4
<1>8. /\ DOMAIN installed' = DOMAIN installed
          /\ installed' \in [DOMAIN installed' -> [version: AddonVersion, enabled: BOOLEAN]]
      /\ installed'[a].version = installed[a].version
      /\ installed'[a].enabled = (IF ok THEN on ELSE installed[a].enabled)
      /\ \A b \in DOMAIN installed : b # a => installed'[b] = installed[b]
      <2>1. installed \in [DOMAIN installed -> [version: AddonVersion, enabled: BOOLEAN]]
            BY DEF PagesInv, MapsTyped
      <2>2. CASE ok
            <3>1. on \in BOOLEAN
                  OBVIOUS
            <3>2. installed' = [installed EXCEPT ![a].enabled = on]
                  BY <1>5, <2>2
            <3>3. installed[a] \in [version: AddonVersion, enabled: BOOLEAN]
                  BY <1>3, <2>1
            <3>4. \A r \in [version: AddonVersion, enabled: BOOLEAN] :
                     /\ [r EXCEPT !.enabled = on] \in [version: AddonVersion, enabled: BOOLEAN]
                     /\ [r EXCEPT !.enabled = on].version = r.version
                     /\ [r EXCEPT !.enabled = on].enabled = on
                  <4> HIDE DEF on
                  <4> QED BY <3>1
            <3> HIDE DEF on, ok
            <3> QED BY <1>3, <2>1, <2>2, <3>2, <3>3, <3>4
      <2>3. CASE ~ok
            BY <1>5, <2>1, <2>3
      <2> QED BY <2>2, <2>3
<1>9. UNCHANGED AllElse
      BY <1>1, <1>2 DEF AllElse
<1>10. MapsTyped' /\ PageTyped'
      <2>1. cards' \in [DOMAIN cards' -> C]
            <3>1. cards' = [b \in DOMAIN cards |-> cards'[b]]
                  BY <1>4 DEF PagesInv, PageTyped
            <3>2. \A b \in DOMAIN cards : cards'[b] \in C
                  BY <1>6, <1>7 DEF PagesInv, PageTyped
            <3> QED BY <1>7, <3>1, <3>2
      <2> QED BY <1>1, <1>2, <1>8, <2>1 DEF PagesInv, MapsTyped, PageTyped
<1>11. NewerUpdates' /\ AllDrawn'
      BY <1>1, <1>2, <1>6, <1>7 DEF PagesInv, NewerUpdates, AllDrawn
<1>12. AddonsOnly'
      <2>1. Addons!Offered' = Addons!Offered
            BY DEF Addons!Offered
      <2> QED BY <1>1, <1>2, <1>7, <1>8, <2>1 DEF PagesInv, AddonsOnly
<1>13. ok => /\ a \in DOMAIN store /\ store[a].enabled = on
             /\ store[a].version = installed[a].version /\ store[a].version = cards[a].version
             /\ a \in DOMAIN available => available[a].installed
             /\ a \in DOMAIN wares => wares[a] = "added"
      BY <1>1 DEF DoneAhead
<1> HIDE DEF on, C
<1>14. PageKnows(a)' /\ PageOffers(a)' /\ PageDraws(a)'
      <2>1. CASE ok
            <3>1. PageKnows(a)'
                  BY <1>1, <1>3, <1>8, <1>13, <2>1 DEF PageKnows
            <3>2. PageOffers(a)'
                  BY <1>1, <1>2, <1>13, <2>1 DEF PageOffers
            <3>3. PageDraws(a)'
                  BY <1>1, <1>3, <1>6, <1>7, <1>8, <1>13, <2>1 DEF PageDraws
            <3> QED BY <3>1, <3>2, <3>3
      <2>2. CASE ~ok
            <3>1. PageKnows(a) /\ PageOffers(a) /\ PageDraws(a)
                  BY <1>1, <2>2
            <3>2. PageKnows(a)'
                  BY <1>1, <1>8, <2>2, <3>1 DEF PageKnows
            <3>3. PageOffers(a)'
                  BY <1>1, <1>2, <3>1 DEF PageOffers
            <3>4. PageDraws(a)'
                  BY <1>1, <1>3, <1>6, <1>7, <1>8, <2>2, <3>1 DEF PageDraws
            <3> QED BY <3>2, <3>3, <3>4
      <2> QED BY <2>1, <2>2
<1> HIDE DEF ok, a
<1>15. \A b \in Addon \ {a} : AddonSame(b)
      BY <1>1, <1>2, <1>7, <1>8 DEF AddonSame
<1> QED BY <1>1, <1>9, <1>10, <1>11, <1>12, <1>14, <1>15, TakenKeeps DEF a

\* An add-on was removed.
LEMMA RemovedKeeps == ASSUME PagesInv, NEW c \in calls, Addons!Removed(c) PROVE PagesInv'
<1> DEFINE a == c.addon
           C == [version: AddonVersion, enabled: BOOLEAN, says: BOOLEAN,
                 update: AddonVersion, busy: SUBSET {"toggle", "remove"}]
<1>1. /\ a \in Addon /\ c.do = "remove" /\ c.value \in AddonVersion /\ c.n = turn
      /\ calls' = calls \ {c}
      /\ c.state \in {"done", "refused"} /\ AskedOf(c)
      /\ c.state = "done" => DoneAhead(c)
      /\ c.state = "refused" => PageKnows(a) /\ PageOffers(a) /\ PageDraws(a)
      /\ UNCHANGED <<store, deferred, forms, title, cardsOf, waresOf>>
      /\ c.n >= cardsOf /\ c.n >= waresOf
      BY TakesIs DEF Addons!Removed
<1>2. UNCHANGED <<screen, turn, drawn, waits, reads, wares>>
      BY DEF Addons!Removed, Addons!Stays
<1>3. screen = "main" /\ a \in DOMAIN cards /\ a \in DOMAIN installed
      BY <1>1 DEF AskedOf
<1>4. UNCHANGED AllElse
      BY <1>1, <1>2 DEF AllElse
<1>5. Addons!Offered' = Addons!Offered
      BY DEF Addons!Offered
<1>6. /\ cards \in [DOMAIN cards -> C]
          /\ installed \in [DOMAIN installed -> [version: AddonVersion, enabled: BOOLEAN]]
      /\ available \in [DOMAIN available -> [version: AddonVersion, installed: BOOLEAN]]
      BY DEF PagesInv, PageTyped, MapsTyped
<1>7. CASE c.state = "done"
      <2>1. cards' = Addons!Without(cards, a) /\ installed' = Addons!Without(installed, a)
              /\ available' = Addons!Mark(a, FALSE)
            BY <1>3, <1>7 DEF Addons!Removed
      <2>2. a \notin DOMAIN store
            BY <1>1, <1>7 DEF DoneAhead
      <2>3. /\ DOMAIN cards' = DOMAIN cards \ {a} /\ cards' \in [DOMAIN cards' -> C]
            /\ \A b \in DOMAIN cards : b # a => cards'[b] = cards[b]
            <3> HIDE DEF C, a
            <3>1. \A b \in DOMAIN cards : cards[b] \in C
                  BY <1>6
            <3>2. /\ DOMAIN Addons!Without(cards, a) = DOMAIN cards \ {a}
                  /\ \A b \in DOMAIN cards : b # a => Addons!Without(cards, a)[b] = cards[b]
                  /\ Addons!Without(cards, a) \in [DOMAIN Addons!Without(cards, a) -> C]
                  BY <3>1, WithoutIs, Zenon
            <3> QED BY <2>1, <3>2
      <2>4. /\ DOMAIN installed' = DOMAIN installed \ {a}
                /\ installed' \in [DOMAIN installed' -> [version: AddonVersion, enabled: BOOLEAN]]
            /\ \A b \in DOMAIN installed : b # a => installed'[b] = installed[b]
            <3> HIDE DEF a
            <3> DEFINE E == [version: AddonVersion, enabled: BOOLEAN]
            <3>1. \A b \in DOMAIN installed : installed[b] \in E
                  BY <1>6
            <3> HIDE DEF E
            <3>2. /\ DOMAIN Addons!Without(installed, a) = DOMAIN installed \ {a}
                  /\ \A b \in DOMAIN installed : b # a
                      => Addons!Without(installed, a)[b] = installed[b]
                  /\ Addons!Without(installed, a) \in [DOMAIN Addons!Without(installed, a) -> E]
                  BY <3>1, WithoutIs, Zenon
            <3> QED BY <2>1, <3>2 DEF E
      <2>5. /\ DOMAIN available' = DOMAIN available
            /\ available' \in [DOMAIN available' -> [version: AddonVersion, installed: BOOLEAN]]
            /\ a \in DOMAIN available => available'[a].installed = FALSE
            /\ \A b \in DOMAIN available : b # a => available'[b] = available[b]
            BY ZenonT(60), <1>6, <2>1 DEF Addons!Mark
      <2>6. MapsTyped' /\ PageTyped'
            BY <1>1, <1>2, <2>3, <2>4, <2>5 DEF PagesInv, MapsTyped, PageTyped
      <2>7. NewerUpdates' /\ AllDrawn' /\ AddonsOnly'
            BY <1>1, <1>2, <1>5, <2>2, <2>3, <2>4, <2>5
               DEF PagesInv, NewerUpdates, AllDrawn, AddonsOnly
      <2>8. PageKnows(a)' /\ PageOffers(a)' /\ PageDraws(a)'
            BY <1>1, <1>2, <1>3, <2>2, <2>3, <2>4, <2>5 DEF PageKnows, PageOffers, PageDraws
      <2> HIDE DEF a, C
      <2>9. \A b \in Addon \ {a} : AddonSame(b)
            BY <1>1, <1>2, <2>3, <2>4, <2>5 DEF AddonSame
      <2> QED BY <1>1, <1>4, <2>6, <2>7, <2>8, <2>9, TakenKeeps DEF a
<1>8. CASE c.state = "refused"
      <2> DEFINE card == [cards[a] EXCEPT !.busy = @ \ {"remove"}]
      <2>1. cards' = [cards EXCEPT ![a] = card] /\ UNCHANGED <<installed, available>>
            BY <1>1, <1>3, <1>8 DEF Addons!Removed, Addons!Own
      <2>2. /\ card \in C /\ card.version = cards[a].version /\ card.update = cards[a].update
            /\ card.enabled = cards[a].enabled /\ card.says = cards[a].says
            BY <1>3, <1>6
      <2> HIDE DEF card
      <2>3. /\ DOMAIN cards' = DOMAIN cards /\ cards'[a] = card /\ cards' \in [DOMAIN cards' -> C]
            /\ \A b \in DOMAIN cards : b # a => cards'[b] = cards[b]
            BY <1>3, <1>6, <2>1, <2>2
      <2>6. MapsTyped' /\ PageTyped'
            BY <1>1, <1>2, <2>1, <2>3 DEF PagesInv, MapsTyped, PageTyped
      <2>7. NewerUpdates' /\ AllDrawn' /\ AddonsOnly'
            BY <1>1, <1>2, <1>5, <2>1, <2>2, <2>3 DEF PagesInv, NewerUpdates, AllDrawn, AddonsOnly
      <2>8. PageKnows(a)' /\ PageOffers(a)' /\ PageDraws(a)'
            BY <1>1, <1>2, <1>3, <1>8, <2>1, <2>2, <2>3 DEF PageKnows, PageOffers, PageDraws
      <2> HIDE DEF a, C
      <2>9. \A b \in Addon \ {a} : AddonSame(b)
            BY <1>1, <1>2, <2>1, <2>3 DEF AddonSame
      <2> QED BY <1>1, <1>4, <2>6, <2>7, <2>8, <2>9, TakenKeeps DEF a
<1> QED BY <1>1, <1>7, <1>8

\* An add-on was updated.
LEMMA UpdateTaken == ASSUME PagesInv, NEW c \in calls, Addons!Updated(c) PROVE PagesInv'
<1> DEFINE a == c.addon
           C == [version: AddonVersion, enabled: BOOLEAN, says: BOOLEAN,
                 update: AddonVersion, busy: SUBSET {"toggle", "remove"}]
           E == [version: AddonVersion, enabled: BOOLEAN]
<1>1. /\ a \in Addon /\ c.do = "update" /\ c.value \in AddonVersion /\ c.n = turn
      /\ calls' = calls \ {c}
      /\ c.state \in {"done", "refused"} /\ AskedOf(c)
      /\ c.state = "done" => DoneAhead(c)
      /\ c.state = "refused" => PageKnows(a) /\ PageOffers(a) /\ PageDraws(a)
      /\ UNCHANGED <<store, deferred, forms, title, cardsOf, waresOf>>
      /\ c.n >= cardsOf /\ c.n >= waresOf
      BY TakesIs DEF Addons!Updated
<1>2. UNCHANGED <<screen, turn, drawn, waits, reads, available, wares>>
      BY DEF Addons!Updated, Addons!Stays
<1>3. /\ screen = "main" /\ a \in DOMAIN cards /\ a \in DOMAIN installed
      /\ cards[a].enabled /\ cards[a].says /\ installed[a].enabled /\ cards[a].update = Addons!No
      BY <1>1 DEF AskedOf
<1>4. UNCHANGED AllElse
      BY <1>1, <1>2 DEF AllElse
<1>5. Addons!Offered' = Addons!Offered
      BY DEF Addons!Offered
<1>6. cards \in [DOMAIN cards -> C] /\ installed \in [DOMAIN installed -> E]
      BY DEF PagesInv, PageTyped, MapsTyped
<1>7. CASE c.state = "done"
      <2>1. cards' = [cards EXCEPT ![a].version = c.value]
              /\ installed' = [installed EXCEPT ![a].version = c.value]
            BY <1>1, <1>3, <1>7 DEF Addons!Updated, Addons!Own
      <2>2. /\ a \in DOMAIN store /\ store[a].enabled /\ store[a].version = c.value
            /\ a \in DOMAIN available => available[a].installed
            /\ a \in DOMAIN wares => wares[a] = "added"
            BY <1>1, <1>7 DEF DoneAhead
      <2>3. /\ DOMAIN cards' = DOMAIN cards /\ cards' \in [DOMAIN cards' -> C]
            /\ cards'[a].version = c.value /\ cards'[a].enabled = cards[a].enabled
            /\ cards'[a].says = cards[a].says
            /\ cards'[a].update = Addons!No
            /\ \A b \in DOMAIN cards : b # a => cards'[b] = cards[b]
            <3> DEFINE card == [cards[a] EXCEPT !.version = c.value]
            <3>1. cards[a] \in C
                  BY <1>3, <1>6
            <3>2. /\ card \in C /\ card.version = c.value /\ card.enabled = cards[a].enabled
                  /\ card.says = cards[a].says /\ card.update = Addons!No
                  BY <1>1, <1>3, <3>1
            <3>3. cards' = [cards EXCEPT ![a] = card]
                  BY <2>1
            <3> HIDE DEF card, C
            <3> QED BY <1>3, <1>6, <3>2, <3>3
      <2>4. /\ DOMAIN installed' = DOMAIN installed /\ installed' \in [DOMAIN installed' -> E]
            /\ installed'[a].version = c.value /\ installed'[a].enabled = installed[a].enabled
            /\ \A b \in DOMAIN installed : b # a => installed'[b] = installed[b]
            BY ZenonT(60), <1>1, <1>3, <1>6, <2>1
      <2>6. MapsTyped' /\ PageTyped'
            BY <1>1, <1>2, <2>3, <2>4 DEF PagesInv, MapsTyped, PageTyped
      <2>7. NewerUpdates' /\ AllDrawn' /\ AddonsOnly'
            BY <1>1, <1>2, <1>5, <2>3, <2>4 DEF PagesInv, NewerUpdates, AllDrawn, AddonsOnly
      <2>8. store[a].enabled = TRUE /\ cards[a].enabled = TRUE /\ cards[a].says = TRUE
              /\ installed[a].enabled = TRUE
            BY <1>3, <1>6, <2>2 DEF PagesInv, MapsTyped
      <2>9. PageKnows(a)' /\ PageOffers(a)' /\ PageDraws(a)'
            BY <1>1, <1>2, <1>3, <2>2, <2>3, <2>4, <2>8 DEF PageKnows, PageOffers, PageDraws
      <2> HIDE DEF a, C, E
      <2>10. \A b \in Addon \ {a} : AddonSame(b)
            BY <1>1, <1>2, <2>3, <2>4 DEF AddonSame
      <2> QED BY <1>1, <1>4, <2>6, <2>7, <2>9, <2>10, TakenKeeps DEF a
<1>8. CASE c.state = "refused"
      <2>1. UNCHANGED <<cards, installed>>
            BY <1>8 DEF Addons!Updated
      <2>6. MapsTyped' /\ PageTyped'
            BY <1>1, <1>2, <2>1 DEF PagesInv, MapsTyped, PageTyped
      <2>7. NewerUpdates' /\ AllDrawn' /\ AddonsOnly'
            BY <1>1, <1>2, <1>5, <2>1 DEF PagesInv, NewerUpdates, AllDrawn, AddonsOnly
      <2>8. PageKnows(a)' /\ PageOffers(a)' /\ PageDraws(a)'
            BY <1>1, <1>2, <1>8, <2>1 DEF PageKnows, PageOffers, PageDraws
      <2> HIDE DEF a
      <2>9. \A b \in Addon \ {a} : AddonSame(b)
            BY <1>1, <1>2, <2>1 DEF AddonSame
      <2> QED BY <1>1, <1>4, <2>6, <2>7, <2>8, <2>9, TakenKeeps DEF a
<1> QED BY <1>1, <1>7, <1>8

\* An add-on was installed.
LEMMA InstallEndsKeeps == ASSUME PagesInv, NEW c \in calls, Addons!InstallEnds(c) PROVE PagesInv'
<1> DEFINE a == c.addon
           E == [version: AddonVersion, enabled: BOOLEAN]
           F == {"add", "added", "installing", "failed"}
<1>1. /\ a \in Addon /\ c.do = "install" /\ c.value \in AddonVersion /\ c.n = turn
      /\ calls' = calls \ {c}
      /\ c.state \in {"done", "refused"} /\ AskedOf(c)
      /\ c.state = "done" => DoneAhead(c)
      /\ c.state = "refused" => PageKnows(a) /\ PageOffers(a) /\ PageDraws(a)
      /\ UNCHANGED <<store, deferred, forms, title, cardsOf, waresOf>>
      /\ c.n >= cardsOf /\ c.n >= waresOf
      BY TakesIs DEF Addons!InstallEnds
<1>2. UNCHANGED <<screen, turn, drawn, waits, reads, cards>>
      BY DEF Addons!InstallEnds, Addons!Stays
<1>3. /\ screen = "discover" /\ a \in DOMAIN wares /\ wares[a] = "installing"
      /\ a \notin DOMAIN installed /\ a \notin DOMAIN cards
      BY <1>1 DEF AskedOf
<1>4. UNCHANGED AllElse
      BY <1>1, <1>2 DEF AllElse
<1>5. Addons!Offered' = Addons!Offered
      BY DEF Addons!Offered
<1>6. /\ wares \in [DOMAIN wares -> F] /\ installed \in [DOMAIN installed -> E]
      /\ available \in [DOMAIN available -> [version: AddonVersion, installed: BOOLEAN]]
      /\ DOMAIN wares \subseteq DOMAIN available /\ turn \in Nat /\ waresOf \in 0 .. turn
      BY DEF PagesInv, PageTyped, MapsTyped
<1> DEFINE saying == IF c.state = "done" THEN "added" ELSE "failed"
<1>7. wares' = [wares EXCEPT ![a] = saying]
      <2>1. ~(c.n < waresOf)
            BY <1>1, <1>6
      <2> QED BY <1>3, <2>1 DEF Addons!InstallEnds
<1>8. saying \in F
      OBVIOUS
<1>9. /\ DOMAIN wares' = DOMAIN wares /\ wares' \in [DOMAIN wares' -> F] /\ wares'[a] = saying
      /\ \A b \in DOMAIN wares : b # a => wares'[b] = wares[b]
      <2> HIDE DEF saying, F
      <2> QED BY <1>3, <1>6, <1>7, <1>8
<1>10. CASE c.state = "done"
      <2> DEFINE new == [version |-> c.value, enabled |-> TRUE]
      <2>1. installed' = Addons!With(installed, a, new) /\ available' = Addons!Mark(a, TRUE)
            BY <1>10 DEF Addons!InstallEnds
      <2>2. a \in DOMAIN store /\ store[a].enabled /\ store[a].version = c.value
            BY <1>1, <1>10 DEF DoneAhead
      <2>3. store[a].enabled = TRUE
            BY <2>2 DEF PagesInv, MapsTyped
      <2>4. /\ DOMAIN installed' = DOMAIN installed \cup {a}
            /\ installed' \in [DOMAIN installed' -> E]
            /\ installed'[a] = new
            /\ \A b \in DOMAIN installed : b # a => installed'[b] = installed[b]
            <3>1. new \in E /\ \A b \in DOMAIN installed : installed[b] \in E
                  BY <1>1, <1>6
            <3> HIDE DEF E, a, new
            <3>2. /\ DOMAIN Addons!With(installed, a, new) = DOMAIN installed \cup {a}
                  /\ Addons!With(installed, a, new)[a] = new
                  /\ \A b \in DOMAIN installed : b # a
                      => Addons!With(installed, a, new)[b] = installed[b]
                  /\ Addons!With(installed, a,
                      new) \in [DOMAIN Addons!With(installed, a, new) -> E]
                  BY <3>1, SMT DEF Addons!With
            <3> QED BY <2>1, <3>2
      <2>5. /\ DOMAIN available' = DOMAIN available
            /\ available' \in [DOMAIN available' -> [version: AddonVersion, installed: BOOLEAN]]
            /\ a \in DOMAIN available => available'[a].installed = TRUE
            /\ \A b \in DOMAIN available : b # a => available'[b] = available[b]
            BY ZenonT(60), <1>6, <2>1 DEF Addons!Mark
      <2>6. MapsTyped' /\ PageTyped'
            BY <1>1, <1>2, <1>9, <2>4, <2>5 DEF PagesInv, MapsTyped, PageTyped
      <2>7. NewerUpdates' /\ AllDrawn' /\ AddonsOnly'
            BY <1>1, <1>2, <1>5, <2>4, <2>5 DEF PagesInv, NewerUpdates, AllDrawn, AddonsOnly
      <2>8. PageKnows(a)' /\ PageOffers(a)' /\ PageDraws(a)'
            <3>1. installed'[a].version = c.value /\ installed'[a].enabled = TRUE
                    /\ wares'[a] = "added"
                  BY <1>9, <1>10, <2>4
            <3> QED BY <1>1, <1>2, <1>3, <2>2, <2>3, <2>4, <2>5, <3>1
               DEF PageKnows, PageOffers, PageDraws
      <2> HIDE DEF a, E, F, new
      <2>9. \A b \in Addon \ {a} : AddonSame(b)
            BY <1>1, <1>2, <1>9, <2>4, <2>5 DEF AddonSame
      <2> QED BY <1>1, <1>4, <2>6, <2>7, <2>8, <2>9, TakenKeeps DEF a
<1>11. CASE c.state = "refused"
      <2>1. UNCHANGED <<installed, available>>
            BY <1>11 DEF Addons!InstallEnds
      <2>6. MapsTyped' /\ PageTyped'
            BY <1>1, <1>2, <1>9, <2>1 DEF PagesInv, MapsTyped, PageTyped
      <2>7. NewerUpdates' /\ AllDrawn' /\ AddonsOnly'
            BY <1>1, <1>2, <1>5, <2>1 DEF PagesInv, NewerUpdates, AllDrawn, AddonsOnly
      <2>8. PageKnows(a)' /\ PageOffers(a)' /\ PageDraws(a)'
            <3>1. wares'[a] = "failed"
                  BY <1>9, <1>11
            <3> QED BY <1>1, <1>2, <1>3, <1>11, <2>1, <3>1 DEF PageKnows, PageOffers, PageDraws
      <2> HIDE DEF a, F
      <2>9. \A b \in Addon \ {a} : AddonSame(b)
            BY <1>1, <1>2, <1>9, <2>1 DEF AddonSame
      <2> QED BY <1>1, <1>4, <2>6, <2>7, <2>8, <2>9, TakenKeeps DEF a
<1> QED BY <1>1, <1>10, <1>11

\* A configuration was stored.
LEMMA AppliedKeeps == ASSUME PagesInv, NEW c \in calls, Addons!Applied(c) PROVE PagesInv'
<1>1. /\ c.do = "config" /\ calls' = calls \ {c} /\ c.addon \in Addon
      /\ UNCHANGED <<store, installed, available, Addons!Shown, title>>
      BY DEF Addons!Applied, PagesInv, CallsTyped
<1>2. screen = "config" /\ NothingRead
      BY <1>1 DEF PagesInv, CallsAreFit, AskedOf
<1>3. \A d \in calls : d.do = "config" /\ d.addon \in forms
      BY <1>2 DEF PagesInv, CallsAreFit, CallsTyped, AskedOf, AddonCalls
<1>4. calls' = {}
      BY <1>1, <1>3 DEF PagesInv, OneConfigForm, OneCallEach
<1>5. CASE c.state = "done" /\ turn < MaxPages
      <2>1. /\ screen' = "main" /\ turn' = turn + 1 /\ drawn' = FALSE
            /\ deferred' = [get |-> turn + 1, state |-> "pending"]
            /\ reads' = reads \cup {Addons!Read(turn + 1, "installed", "none")}
            /\ waits' = waits \cup {Addons!Waiting("main", "none", turn + 1, "installed")}
            BY <1>5 DEF Addons!Applied
      <2>2. /\ reads' = {Addons!Read(turn + 1, "installed", "none")}
            /\ waits' = {Addons!Waiting("main", "none", turn + 1, "installed")}
            /\ Addons!Waiting("main", "none", turn + 1, "installed") \in PageWaiting("installed")'
            /\ Addons!Read(turn + 1, "installed", "none") \in PageReading("installed", "none",
                {Addons!No, AddonListing})'
            BY <1>2, <2>1 DEF NothingRead, Addons!Read, PageReading, Addons!Waiting, PageWaiting
      <2>3. ReadsInstalled'
            BY <1>4, <2>1, <2>2 DEF ReadsInstalled, Addons!Read, Addons!Waiting
      <2>4. PageReads'
            BY <2>1, <2>3 DEF PageReads, PagesInv, PageTyped
      <2> QED BY <1>1, <1>3, <1>4, <2>1, <2>4, VisitKeeps
<1>6. CASE ~(c.state = "done" /\ turn < MaxPages)
      <2>1. UNCHANGED <<deferred, reads, waits, screen, turn, drawn, cards, cardsOf, wares,
              waresOf, forms>>
            BY <1>1, <1>6 DEF Addons!Applied, Addons!Stays, Addons!Shown
      <2>2. Addons!Offered' = Addons!Offered
            BY DEF Addons!Offered
      <2>3. MapsTyped' /\ PageTyped' /\ CallsTyped' /\ AddonsOnly' /\ NewerUpdates' /\ AllDrawn'
            BY <1>1, <1>4, <2>1, <2>2
               DEF PagesInv, MapsTyped, PageTyped, CallsTyped, AddonsOnly, NewerUpdates, AllDrawn
      <2>4. PageReads' /\ OneConfigForm' /\ OneCallEach' /\ CallsAreFit'
            BY <1>1, <1>2, <1>4, <2>1
               DEF PagesInv, PageReads, NothingRead, OneConfigForm, OneCallEach, CallsAreFit
      <2>5. PagesAgree'
            BY <1>1, <1>3, <2>1, NothingAsked DEF PagesAgree, PageKnows, PageOffers, PageDraws
      <2> QED BY <2>3, <2>4, <2>5 DEF PagesInv
<1> QED BY <1>5, <1>6

\* Every step keeps the invariant.
LEMMA PagesStep ==
  ASSUME PagesInv, ~Hasty, [Addons!Next]_addonsVars, ~half'
  PROVE  PagesInv'
<1>1. CASE Addons!ShowMain \/ Addons!ShowDiscover
      BY <1>1, ShowMainKeeps, ShowDiscoverKeeps
<1>2. ASSUME NEW r \in reads, Addons!Serve(r) \/ Addons!Installed(r) \/ Addons!Available(r)
        \/ Addons!Configured(r) \/ Addons!Failed(r)
      PROVE  PagesInv'
      BY <1>2, ReadServed, InstalledKeeps, AvailableKeeps, ConfiguredKeeps, FailedKeeps
<1>3. ASSUME NEW s \in SUBSET Addon, Addons!Search(s) PROVE PagesInv'
      BY <1>3, SearchKeeps
<1>4. ASSUME NEW a \in Addon, Addons!ShowConfig(a) \/ Addons!Toggle(a) \/ Addons!Remove(a)
        \/ Addons!Update(a) \/ Addons!Install(a) \/ Addons!Apply(a)
      PROVE  PagesInv'
      BY <1>4, ShowConfigKeeps, ToggleKeeps, RemoveKeeps, UpdateKeeps, InstallKeeps, ApplyKeeps
<1>5. ASSUME NEW c \in calls, Addons!ServeCall(c) \/ Addons!RefuseCall(c) \/ Addons!Toggled(c)
        \/ Addons!Removed(c) \/ Addons!Updated(c)
                               \/ Addons!InstallEnds(c) \/ Addons!Applied(c)
      PROVE  PagesInv'
      BY <1>5, ServeCallKeeps, RefuseCallKeeps, ToggledKeeps, RemovedKeeps, UpdateTaken,
          InstallEndsKeeps, AppliedKeeps
<1>6. CASE UNCHANGED addonsVars
      <2>1. UNCHANGED <<store, installed, available, deferred, screen, turn, drawn, waits, reads,
              cards, cardsOf,
                        wares, waresOf, forms, title, calls>>
            BY <1>6 DEF addonsVars
      <2>2. Addons!Offered' = Addons!Offered
            BY DEF Addons!Offered
      <2>3. MapsTyped' /\ PageTyped' /\ CallsTyped' /\ AddonsOnly' /\ NewerUpdates' /\ AllDrawn'
            BY <2>1, <2>2
               DEF PagesInv, MapsTyped, PageTyped, CallsTyped, AddonsOnly, NewerUpdates, AllDrawn
      <2>4. OneConfigForm' /\ OneCallEach' /\ CallsAreFit'
            BY <2>1
               DEF PagesInv, OneConfigForm, OneCallEach, CallsAreFit, NothingRead, AskedOf,
                   DoneAhead
      <2>5. PagesAgree'
            BY <2>1 DEF PagesInv, PagesAgree, AddonSettled, PageKnows, PageOffers, PageDraws
      <2>6. PageReads'
            <3>1. AddonListing' = AddonListing
                  BY <2>1 DEF AddonListing
            <3>2. NothingRead => NothingRead'
                  BY <2>1 DEF NothingRead
            <3>3. ReadsInstalled => ReadsInstalled'
                  BY <2>1, <3>1 DEF ReadsInstalled, PageReading, PageWaiting
            <3>4. ReadsAvailable => ReadsAvailable'
                  BY <2>1 DEF ReadsAvailable, PageReading, PageWaiting
            <3>5. ReadsConfig => ReadsConfig'
                  BY <2>1 DEF ReadsConfig, PageReading
            <3> QED BY <2>1, <3>2, <3>3, <3>4, <3>5 DEF PagesInv, PageReads
      <2> QED BY <2>3, <2>4, <2>5, <2>6 DEF PagesInv
<1> QED BY <1>1, <1>2, <1>3, <1>4, <1>5, <1>6 DEF Addons!Next

\* A step is a step of the pages of the add-ons, or leaves them alone.
LEMMA AddonsMove == [PagesNext]_pagesVars => [Addons!Next]_addonsVars
BY DEF PagesNext, pagesVars, addonsVars

\* What was refused and had been done in part stays so.
LEMMA HalfStays == ASSUME half, [Addons!Next]_addonsVars PROVE half'
<1>1. ASSUME NEW r \in reads, Addons!Serve(r) \/ Addons!Installed(r) \/ Addons!Available(r)
               \/ Addons!Configured(r) \/ Addons!Failed(r)
      PROVE  half'
      BY <1>1 DEF Addons!Serve, Addons!Installed, Addons!Available, Addons!Configured, Addons!Failed
<1>2. ASSUME NEW a \in Addon, Addons!Toggle(a) \/ Addons!Remove(a) \/ Addons!Update(a)
               \/ Addons!Install(a) \/ Addons!Apply(a)
      PROVE  half'
      BY <1>2 DEF Addons!Toggle, Addons!Remove, Addons!Update, Addons!Install, Addons!Apply,
                  Addons!Press, Addons!Ask
<1>3. ASSUME Addons!ShowMain \/ Addons!ShowDiscover \/ (\E a \in Addon : Addons!ShowConfig(a))
               \/ (\E s \in SUBSET Addon : Addons!Search(s))
      PROVE  half'
      BY <1>3 DEF Addons!ShowMain, Addons!ShowDiscover, Addons!ShowConfig, Addons!Search,
                  Addons!Forced, Addons!Visits
<1>4. ASSUME NEW c \in calls, Addons!ServeCall(c) \/ Addons!RefuseCall(c)
      PROVE  half'
      BY <1>4 DEF Addons!ServeCall, Addons!RefuseCall
<1>5. ASSUME NEW c \in calls, Addons!Toggled(c) \/ Addons!Removed(c) \/ Addons!Updated(c)
               \/ Addons!InstallEnds(c) \/ Addons!Applied(c)
      PROVE  half'
      BY <1>5 DEF Addons!Toggled, Addons!Removed, Addons!Updated, Addons!InstallEnds,
                  Addons!Applied, Addons!Takes
<1>6. CASE UNCHANGED addonsVars
      BY <1>6 DEF addonsVars
<1> QED BY <1>1, <1>2, <1>3, <1>4, <1>5, <1>6 DEF Addons!Next

\* The invariant holds of the pages together, if the user waits for answers and no request was
\* refused that had been done in part.
LEMMA AddonsAlways == PagesSpec => [](~Hasty => half \/ PagesInv)
<1> DEFINE Kept == ~Hasty => half \/ PagesInv
<1>1. PagesInit => Kept
      BY PagesStart DEF PagesInit
<1>2. Kept /\ [PagesNext]_pagesVars => Kept'
      BY AddonsMove, PagesStep, HalfStays
<1> HIDE DEF Kept
<1>3. PagesSpec => []Kept
      BY <1>1, <1>2, PTL DEF PagesSpec
<1> QED BY <1>3 DEF Kept

\* A user who waits for answers is shown the add-ons as the gateway has them, once nothing is
\* under way: a card for each with its version and whether it is enabled, an update only to a
\* newer version, "added" for what is installed and for nothing else, and no form but that of
\* the add-on he configures; unless the gateway had done a part of what it refused.  For any
\* number of pages, calls and failures
\* (SettingsScreen.showAddonSettings, showDiscoveredAddonsScreen, InstalledAddon).
THEOREM AddonsAreShown == PagesSpec => [](~Hasty => PagesTell)
<1> DEFINE Told == ~Hasty => PagesTell
           Kept == ~Hasty => half \/ PagesInv
<1>1. Kept => Told
      BY AddonsAreTold DEF PagesTell
<1> HIDE DEF Told, Kept
<1>2. PagesSpec => []Kept
      BY AddonsAlways DEF Kept
<1>3. PagesSpec => []Told
      BY <1>1, <1>2, PTL
<1> QED BY <1>3 DEF Told
===============================================================================
