--------------------------- MODULE MCOverview_proofs ---------------------------
(***************************************************************************)
(* What the parts of MCOverview keep for every value of the constants: a   *)
(* control shows the value of the device, an icon what was heard last, the *)
(* row of a thing, its icon and what clients know follow the thing, and    *)
(* the page catches up with the gateway; and that the composition is one   *)
(* of the pages and of what is around them, so that it keeps what          *)
(* MCPages_proofs and MCShell_proofs say of those.                         *)
(* Each part has an inductive invariant of its own; a step is a step of    *)
(* one part and leaves the others alone, so each invariant holds of        *)
(* OverviewSpec.                                                           *)
(***************************************************************************)
EXTENDS MCOverview, TLAPS, FiniteSetTheorems, SequenceTheorems, WellFoundedInduction

-----------------------------------------------------------------------------
(* A control of a property (PropertyControls).                             *)
\* The k-th of a set of numbers.
NthOf(K, k) == CHOOSE i \in K : Cardinality({j \in K : j <= i}) = k

\* Each number of a finite set is the k-th of it, for one k.
LEMMA EachIsNth ==
  ASSUME NEW K, K \subseteq Nat, IsFiniteSet(K)
  PROVE  /\ Cardinality(K) \in Nat
         /\ \A k \in 1 .. Cardinality(K) : NthOf(K, k) \in K
         /\ \A i \in K : \E k \in 1 .. Cardinality(K) : NthOf(K, k) = i
<1> DEFINE upto(i) == {j \in K : j <= i}
           nth(k) == CHOOSE i \in K : Cardinality(upto(i)) = k
<1>1. K \subseteq Nat
      OBVIOUS
<1>3. IsFiniteSet(K) /\ Cardinality(K) \in Nat
      BY FS_CardinalityType
<1>4. \A i \in K : upto(i) \subseteq K /\ IsFiniteSet(upto(i)) /\ i \in upto(i)
      BY <1>1, <1>3, FS_Subset
<1>5. ASSUME NEW i \in K PROVE Cardinality(upto(i)) \in 1 .. Cardinality(K)
      <2>1. Cardinality(upto(i)) \in Nat /\ Cardinality(upto(i)) <= Cardinality(K)
            BY <1>3, <1>4, FS_Subset, FS_CardinalityType
      <2>2. Cardinality(upto(i)) # 0
            BY <1>4, FS_EmptySet
      <2> QED BY <1>3, <2>1, <2>2
<1>6. ASSUME NEW i \in K, NEW j \in K, i < j PROVE Cardinality(upto(i)) < Cardinality(upto(j))
      <2>0. i \in Nat /\ j \in Nat /\ \A k \in K : k \in Nat
            BY <1>1
      <2>1. \A k \in K : k <= i => k <= j
            BY <1>6, <2>0
      <2>2. ~(j <= i) /\ j <= j
            BY <1>6, <2>0
      <2>3. upto(i) \subseteq upto(j) /\ j \notin upto(i) /\ j \in upto(j)
            BY <2>1, <2>2
      <2>4. upto(i) # upto(j)
            BY <2>3
      <2>5. IsFiniteSet(upto(j)) /\ Cardinality(upto(i)) \in Nat /\ Cardinality(upto(j)) \in Nat
            BY <1>4, FS_CardinalityType
      <2>6. Cardinality(upto(i)) <= Cardinality(upto(j))
              /\ Cardinality(upto(i)) # Cardinality(upto(j))
            <3> HIDE DEF upto
            <3> QED BY <2>3, <2>4, <2>5, FS_Subset
      <2> HIDE DEF upto
      <2> QED BY <2>5, <2>6
<1>7. ASSUME NEW i \in K PROVE nth(Cardinality(upto(i))) = i
      <2>1. \A j \in K : Cardinality(upto(j)) = Cardinality(upto(i)) => j = i
            <3> SUFFICES ASSUME NEW j \in K, Cardinality(upto(j)) = Cardinality(upto(i)),
                j # i PROVE FALSE
                OBVIOUS
            <3>1. i < j \/ j < i
                  BY <1>1
            <3> HIDE DEF upto
            <3>2. Cardinality(upto(i)) \in Nat /\ Cardinality(upto(j)) \in Nat
                  BY <1>5, <1>3
            <3>3. Cardinality(upto(i)) < Cardinality(upto(j))
                    \/ Cardinality(upto(j)) < Cardinality(upto(i))
                  BY <1>6, <3>1
            <3> QED BY <3>2, <3>3
      <2> HIDE DEF upto
      <2> QED BY <2>1
<1>8. ASSUME NEW k \in 1 .. Cardinality(K) PROVE nth(k) \in K
      <2> DEFINE n == Cardinality(K)
                 f == [i \in K |-> Cardinality(upto(i))]
      <2>1. n \in Nat /\ IsFiniteSet(1 .. n) /\ Cardinality(1 .. n) = n
            BY <1>3, FS_Interval
      <2>2. \A i, j \in K : Cardinality(upto(i)) = Cardinality(upto(j)) => i = j
            <3> SUFFICES ASSUME NEW i \in K, NEW j \in K,
            Cardinality(upto(i)) = Cardinality(upto(j)) PROVE i = j
                OBVIOUS
            <3>1. nth(Cardinality(upto(i))) = i /\ nth(Cardinality(upto(j))) = j
                  BY <1>7
            <3> HIDE DEF upto, nth
            <3> QED BY <3>1
      <2>3. f \in Injection(K, 1 .. n)
            <3> HIDE DEF upto, n
            <3>1. \A i \in K : Cardinality(upto(i)) \in 1 .. n
                  BY <1>5 DEF n
            <3> QED BY <2>2, <3>1 DEF Injection, IsInjective
      <2>4. f \in Surjection(K, 1 .. n)
            <3> HIDE DEF upto, f
            <3> QED BY <2>1, <2>3, FS_Injection
      <2>5. \E i \in K : Cardinality(upto(i)) = k
            <3> HIDE DEF upto
            <3> QED BY <2>4 DEF Surjection
      <2> HIDE DEF upto
      <2> QED BY <2>5
<1>9. \A k : nth(k) = NthOf(K, k)
      BY DEF NthOf
<1> HIDE DEF upto, nth
<1> QED BY <1>3, <1>5, <1>7, <1>8, <1>9

\* A set of numbers that is not empty has a least one.
LEMMA NatMin ==
  ASSUME NEW T, T \subseteq Nat, T # {}
  PROVE  \E x \in T : \A y \in T : x <= y
<1> DEFINE R == OpToRel(<, Nat)
<1>1. IsWellFoundedOn(R, Nat)
      BY NatLessThanWellFounded, Zenon
<1>2. \A x, y \in Nat : <<y, x>> \in R <=> y < x
      BY DEF OpToRel
<1> HIDE DEF R
<1>3. PICK x \in T : \A y \in T : ~(<<y, x>> \in R)
      BY <1>1, WFMin, Zenon
<1>4. \A y \in T : ~(y < x)
      BY <1>2, <1>3, Zenon
<1>5. \A y \in T : x <= y
      BY <1>4
<1> QED BY <1>5

\* The cardinality a control's module speaks of is the library's.
LEMMA Counted == \A S : Controls!Cardinality(S) = Cardinality(S)
BY Zenon DEF Controls!Cardinality, Cardinality

\* What the constants of the controls are.
LEMMA ControlsBounds ==
  /\ {Least, Most} \subseteq Nat /\ Least <= Most /\ Multiple \in Nat \ {0}
  /\ None \notin Nat
BY ShownAssumption DEF ShownAssumption, Controls!ControlsAssumption

\* A step is a step of the control, or leaves it alone.
LEMMA ControlMoves == [OverviewNext]_overviewVars => [Controls!Next]_controlVars
BY DEF OverviewNext, overviewVars, controlVars

\* The answers that are kept of a line are those on it, in the same number.
LEMMA AnswersOf ==
  ASSUME NEW S, NEW s \in Seq(S)
  PROVE  /\ Controls!Answers(s) \in Seq(S)
         /\ \A i \in DOMAIN s : s[i].is \notin {"status", "connected"} =>
              \E k \in DOMAIN Controls!Answers(s) : Controls!Answers(s)[k] = s[i]
         /\ \A k \in DOMAIN Controls!Answers(s) : \E i \in DOMAIN s :
              Controls!Answers(s)[k] = s[i] /\ s[i].is \notin {"status", "connected"}
<1> DEFINE wanted == {i \in DOMAIN s : s[i].is \notin {"status", "connected"}}
<1>1. /\ DOMAIN s = 1 .. Len(s) /\ Len(s) \in Nat
      /\ wanted \subseteq 1 .. Len(s) /\ wanted \subseteq Nat
      OBVIOUS
<1>2. IsFiniteSet(1 .. Len(s))
      BY <1>1, FS_Interval
<1>3. IsFiniteSet(wanted)
      <2> HIDE DEF wanted
      <2> QED BY <1>1, <1>2, FS_Subset
<1>4. /\ Cardinality(wanted) \in Nat
      /\ \A k \in 1 .. Cardinality(wanted) : NthOf(wanted, k) \in wanted
      /\ \A i \in wanted : \E k \in 1 .. Cardinality(wanted) : NthOf(wanted, k) = i
      <2> HIDE DEF wanted
      <2> QED BY <1>1, <1>3, EachIsNth
<1>5. Controls!Answers(s) = [k \in 1 .. Cardinality(wanted) |-> s[NthOf(wanted, k)]]
      BY Zenon DEF Controls!Answers, NthOf, Controls!Cardinality, Cardinality
<1>6. \A i \in wanted : s[i] \in S
      BY <1>1
<1>7. Controls!Answers(s) \in Seq(S)
      <2> HIDE DEF wanted
      <2> QED BY <1>4, <1>5, <1>6
<1>8. ASSUME NEW i \in wanted
      PROVE  \E k \in DOMAIN Controls!Answers(s) : Controls!Answers(s)[k] = s[i]
      <2> HIDE DEF wanted
      <2> QED BY <1>4, <1>5
<1>9. ASSUME NEW k \in DOMAIN Controls!Answers(s)
      PROVE  NthOf(wanted, k) \in wanted /\ Controls!Answers(s)[k] = s[NthOf(wanted, k)]
      <2> HIDE DEF wanted
      <2> QED BY <1>4, <1>5
<1> QED BY <1>7, <1>8, <1>9
\* Messages with news of the value, and answers to a PUT.
Telling == {"status", "done", "values"}
Ending == {"done", "failed"}
Holds(l, K) == \E i \in DOMAIN l : l[i].is \in K
LastTells(l, v) == \E i \in DOMAIN l : /\ l[i].is \in Telling /\ l[i].value = v
                                       /\ \A j \in DOMAIN l : j > i => l[j].is \notin Telling

\* What is on the line after one more message.
LEMMA HasMore ==
  ASSUME NEW S, NEW l \in Seq(S), NEW m \in S, NEW K
  PROVE  Holds(Append(l, m), K) <=> Holds(l, K) \/ m.is \in K
<1> DEFINE n == Append(l, m)
<1>1. DOMAIN l = 1 .. Len(l) /\ DOMAIN n = 1 .. Len(l) + 1 /\ Len(l) \in Nat
      OBVIOUS
<1>2. n[Len(l) + 1] = m /\ \A i \in DOMAIN l : n[i] = l[i]
      OBVIOUS
<1> HIDE DEF n
<1>3. Holds(n, K) <=> Holds(l, K) \/ m.is \in K
      BY <1>1, <1>2 DEF Holds
<1> QED BY <1>3 DEF n

\* What is on the line after the first message is heard.
LEMMA HasLess ==
  ASSUME NEW S, NEW l \in Seq(S), l # <<>>, NEW K
  PROVE  Holds(l, K) <=> Head(l).is \in K \/ Holds(Tail(l), K)
<1> DEFINE n == Tail(l)
<1>1. DOMAIN l = 1 .. Len(l) /\ DOMAIN n = 1 .. Len(l) - 1 /\ Len(l) \in Nat /\ Len(l) # 0
        /\ Head(l) = l[1]
      OBVIOUS
<1>2. \A i \in DOMAIN n : n[i] = l[i + 1]
      OBVIOUS
<1> HIDE DEF n
<1>3. Holds(n, K) => Holds(l, K)
      BY <1>1, <1>2 DEF Holds
<1>4. ASSUME NEW i \in DOMAIN l, l[i].is \in K, i # 1 PROVE Holds(n, K)
      <2>1. i - 1 \in DOMAIN n /\ n[i - 1] = l[i]
            BY <1>1, <1>2, <1>4
      <2> QED BY <1>4, <2>1 DEF Holds
<1>5. Holds(l, K) <=> l[1].is \in K \/ Holds(n, K)
      BY <1>1, <1>3, <1>4 DEF Holds
<1> QED BY <1>1, <1>5 DEF n

\* The last news after one more message.
LEMMA LastMore ==
  ASSUME NEW S, NEW l \in Seq(S), NEW m \in S, NEW v,
         (m.is \in Telling /\ m.value = v) \/ (m.is \notin Telling /\ LastTells(l, v))
  PROVE  LastTells(Append(l, m), v)
<1> DEFINE n == Append(l, m)
<1>1. DOMAIN l = 1 .. Len(l) /\ DOMAIN n = 1 .. Len(l) + 1 /\ Len(l) \in Nat
      OBVIOUS
<1>2. n[Len(l) + 1] = m /\ \A i \in DOMAIN l : n[i] = l[i]
      OBVIOUS
<1> HIDE DEF n
<1>3. CASE m.is \in Telling /\ m.value = v
      <2>1. Len(l) + 1 \in DOMAIN n /\ \A j \in DOMAIN n : ~(j > Len(l) + 1)
            BY <1>1
      <2>2. LastTells(n, v)
            BY <1>2, <1>3, <2>1 DEF LastTells
      <2> QED BY <2>2 DEF n
<1>4. CASE m.is \notin Telling /\ LastTells(l, v)
      <2>1. PICK i \in DOMAIN l : l[i].is \in Telling /\ l[i].value = v /\ \A j \in DOMAIN l :
                   j > i => l[j].is \notin Telling
            BY <1>4 DEF LastTells
      <2>2. i \in DOMAIN n /\ n[i] = l[i]
            BY <1>1, <1>2
      <2>3. ASSUME NEW j \in DOMAIN n, j > i PROVE n[j].is \notin Telling
            BY <1>1, <1>2, <1>4, <2>1, <2>3
      <2>4. LastTells(n, v)
            BY <2>1, <2>2, <2>3 DEF LastTells
      <2> QED BY <2>4 DEF n
<1> QED BY <1>3, <1>4

\* The last news after the first message is heard.
LEMMA LastLess ==
  ASSUME NEW S, NEW l \in Seq(S), l # <<>>, NEW v, LastTells(l, v)
  PROVE  LastTells(Tail(l), v)
             \/ (Head(l).is \in Telling /\ Head(l).value = v /\ ~Holds(Tail(l), Telling))
<1> DEFINE n == Tail(l)
<1>1. DOMAIN l = 1 .. Len(l) /\ DOMAIN n = 1 .. Len(l) - 1 /\ Len(l) \in Nat /\ Len(l) # 0
        /\ Head(l) = l[1]
      OBVIOUS
<1>2. \A i \in DOMAIN n : n[i] = l[i + 1]
      OBVIOUS
<1> HIDE DEF n
<1>3. PICK i \in DOMAIN l : l[i].is \in Telling /\ l[i].value = v /\ \A j \in DOMAIN l : j > i
             => l[j].is \notin Telling
      BY DEF LastTells
<1>4. CASE i = 1
      <2>1. \A j \in DOMAIN n : n[j].is \notin Telling
            BY <1>1, <1>2, <1>3, <1>4
      <2>2. ~Holds(n, Telling)
            BY <2>1 DEF Holds
      <2> QED BY <1>1, <1>3, <1>4, <2>2 DEF n
<1>5. CASE i # 1
      <2>1. i - 1 \in DOMAIN n /\ n[i - 1] = l[i]
            BY <1>1, <1>2, <1>5
      <2>2. ASSUME NEW j \in DOMAIN n, j > i - 1 PROVE n[j].is \notin Telling
            BY <1>1, <1>2, <1>3, <2>2
      <2>3. LastTells(n, v)
            BY <1>3, <2>1, <2>2 DEF LastTells
      <2> QED BY <2>3 DEF n
<1> QED BY <1>4, <1>5

\* A browser finds the step of a range that is nearest to a value.
LEMMA InRangeNat == ASSUME NEW v \in Nat PROVE Controls!InRange(v) \in Nat
<1> DEFINE ticks == {s \in Least .. Most : (s - Least) % Multiple = 0}
           off(s) == IF s > v THEN s - v ELSE v - s
           Best(s) == \A r \in ticks : off(s) < off(r) \/ (off(s) = off(r) /\ s >= r)
<1>1. ticks \subseteq Nat /\ Least \in ticks
      BY ControlsBounds
<1>2. \A s \in ticks : off(s) \in Nat
      BY <1>1
<1>3. \E s \in ticks : \A r \in ticks : off(s) <= off(r)
      <2> DEFINE T == {off(s) : s \in ticks}
      <2>1. T \subseteq Nat /\ T # {}
            BY <1>1, <1>2
      <2>2. \E x \in T : \A y \in T : x <= y
            <3> HIDE DEF T
            <3> QED BY <2>1, NatMin
      <2> HIDE DEF ticks, off
      <2> QED BY <2>2
<1>4. PICK s \in ticks : \A r \in ticks : off(s) <= off(r)
      BY <1>3
<1>5. \E b \in ticks : Best(b)
      <2>1. CASE s < v /\ v + (v - s) \in ticks
            <3>1. off(v + (v - s)) = off(s)
                  BY <1>1, <2>1
            <3>2. ASSUME NEW r \in ticks PROVE off(s) < off(r)
                    \/ (off(s) = off(r) /\ v + (v - s) >= r)
                  <4>1. off(s) <= off(r) /\ r \in Nat /\ s \in Nat
                        BY <1>1, <1>4
                  <4> HIDE DEF ticks
                  <4> QED BY <2>1, <4>1
            <3> HIDE DEF ticks, off
            <3> QED BY <2>1, <3>1, <3>2
      <2>2. CASE ~(s < v /\ v + (v - s) \in ticks)
            <3>1. ASSUME NEW r \in ticks PROVE off(s) < off(r) \/ (off(s) = off(r) /\ s >= r)
                  <4>1. off(s) <= off(r) /\ r \in Nat /\ s \in Nat
                        BY <1>1, <1>4
                  <4>2. off(s) = off(r) => r = s \/ r = v + (v - s)
                        <5> HIDE DEF ticks
                        <5> QED BY <4>1
                  <4> HIDE DEF ticks
                  <4> QED BY <2>2, <4>1, <4>2
            <3> HIDE DEF ticks, off
            <3> QED BY <3>1
      <2> QED BY <2>1, <2>2
<1>6. Controls!InRange(v) = CHOOSE b \in ticks : Best(b)
      BY DEF Controls!InRange
<1>7. Controls!InRange(v) \in ticks
      <2> HIDE DEF ticks, Best
      <2> QED BY <1>5, <1>6
<1> QED BY <1>1, <1>7

\* What a property may be, as a number.
Fit == IF detail.element \in Controls!TwoStates THEN {0, 1} ELSE Nat

\* The values of a property, and those that are entered, are numbers.
LEMMA FitNat == Fit \subseteq Nat /\ Controls!Possible \subseteq Fit
    /\ Controls!Enterable \subseteq Nat /\ 0 \in Fit /\ Controls!Possible \subseteq Nat
BY ControlsBounds
   DEF Fit, Controls!Possible, Controls!Enterable, Controls!Value, Controls!TwoStates

\* A control shows a value as one that fits, and is told of a change as it is opened.
LEMMA ShowsFit ==
  ASSUME NEW v \in Fit
  PROVE  Controls!Shows(v) \in Fit /\ Controls!Update(v) = Controls!Shows(v)
<1>1. v \in Nat
      BY FitNat
<1>2. Controls!Rounded(v) \in Nat /\ Controls!InRange(v) \in Nat
      <2>1. 2 * v + Multiple \in Nat /\ 2 * Multiple \in Nat \ {0}
            BY <1>1, ControlsBounds
      <2>2. (2 * v + Multiple) \div (2 * Multiple) \in Nat
            BY <2>1
      <2> QED BY <1>1, <2>2, InRangeNat, ControlsBounds DEF Controls!Rounded
<1>3. Controls!Shows(v) \in Fit
      BY <1>1, <1>2
         DEF Controls!Shows, Fit, Controls!TwoStates, Controls!NumberShows, Controls!LevelShows,
             Controls!SliderShows, Controls!SwitchShows, Controls!LabelShows, Controls!WordsShow,
             Controls!EnumShows
<1>4. detail.element = "checkbox" => Controls!Shows(v) = v
      BY DEF Controls!Shows, Fit, Controls!TwoStates, Controls!SwitchShows
<1> QED BY <1>3, <1>4 DEF Controls!Update

\* A control takes what is entered as a value that fits.
LEMMA TakesFit ==
  ASSUME NEW v \in Controls!Enterable, control \in Fit, detail.element # "state"
  PROVE  Controls!Takes(v) \in Fit
<1>1. v \in Nat
      BY FitNat
<1>2. \A w \in Nat :
        Controls!Rounded(w) \in Nat /\ Controls!Between(w) \in Nat /\ Controls!InRange(w) \in Nat
      <2> SUFFICES ASSUME NEW w \in Nat PROVE Controls!Rounded(w) \in Nat
          /\ Controls!Between(w) \in Nat /\ Controls!InRange(w) \in Nat
          OBVIOUS
      <2>1. 2 * w + Multiple \in Nat /\ 2 * Multiple \in Nat \ {0}
            BY ControlsBounds
      <2>2. (2 * w + Multiple) \div (2 * Multiple) \in Nat
            BY <2>1
      <2> QED BY <2>2, InRangeNat, ControlsBounds DEF Controls!Rounded, Controls!Between
<1>3. Controls!NumberTakes(v) \in Nat /\ Controls!LevelTakes(v) \in Nat
      BY <1>1, <1>2
         DEF Controls!NumberTakes, Controls!LevelTakes, Controls!NumberShows, Controls!LevelShows
<1>4. CASE detail.element \in Controls!TwoStates
      BY <1>4
         DEF Controls!Takes, Fit, Controls!TwoStates, Controls!SwitchToggles,
             Controls!CheckboxToggles
<1>5. CASE detail.element \notin Controls!TwoStates
      BY <1>1, <1>2, <1>3, <1>5
         DEF Controls!Takes, Fit, Controls!TwoStates, Controls!SliderShows, Controls!StringTakes,
             Controls!ColorTakes, Controls!EnumShows
<1> QED BY <1>4, <1>5

\* What is on the line, and what is asked.
LineMessage == [is : {"status", "done", "failed", "values", "connected"},
    value : Nat \union {None}]
PageRequest == [is : {"get", "put"}, value : Nat \union {None}]

\* What is passed on is a value the property may have.
PassedOn ==
  /\ line \in Seq(LineMessage) /\ requests \in Seq(PageRequest)
  /\ \A i \in DOMAIN line : line[i].is \in Telling => line[i].value \in Fit
  /\ \A i \in DOMAIN requests : requests[i].is = "put" => requests[i].value \in Fit
\* The device, the page and what is left to send have values that fit.
ControlKept ==
  /\ device \in Fit /\ known \in Fit \union {None} /\ left \in Fit \union {None}
  /\ page => control \in Fit
  /\ timer => page
\* While the socket is open the last news there is of the value tells it, or it will be asked for;
\* but for a value that is not the one given, which the answer to the PUT hides.
Asking == Holds(line, {"connected"}) \/ Holds(requests, {"get"})
NewsComes == open
    => LastTells(line, device) \/ Asking \/ (known = device /\ ~Holds(line, Telling)) \/ strayed
\* The page shows what it knows, or what the user chose, and has an answer to come.
Answering == timer \/ Holds(requests, {"put"}) \/ Holds(line, Ending)
PageShows == page
    => control = Controls!Shows(IF known = None THEN 0 ELSE known) \/ failed \/ Answering

\* The inductive invariant of a control.
ControlInv == PassedOn /\ ControlKept /\ NewsComes /\ PageShows

\* A message more on the line.
LEMMA LineGrows ==
  ASSUME line \in Seq(LineMessage), NEW m \in LineMessage, line' = Append(line, m)
  PROVE  /\ line' \in Seq(LineMessage)
         /\ \A i \in DOMAIN line' : (i \in DOMAIN line /\ line'[i] = line[i]) \/ line'[i] = m
         /\ \A K : Holds(line', K) <=> Holds(line, K) \/ m.is \in K
         /\ \A v :
             (m.is \in Telling /\ m.value = v) \/ (m.is \notin Telling /\ LastTells(line, v))
                 => LastTells(line', v)
<1>1. \A K : Holds(Append(line, m), K) <=> Holds(line, K) \/ m.is \in K
      BY HasMore
<1>2. \A v : (m.is \in Telling /\ m.value = v) \/ (m.is \notin Telling /\ LastTells(line, v))
        => LastTells(Append(line, m), v)
      BY LastMore
<1>3. \A K : Holds(line', K) <=> Holds(Append(line, m), K)
      BY DEF Holds
<1>4. \A v : LastTells(line', v) <=> LastTells(Append(line, m), v)
      BY DEF LastTells
<1> QED BY <1>1, <1>2, <1>3, <1>4

\* A message less.
LEMMA LineShrinks ==
  ASSUME line \in Seq(LineMessage), line # <<>>, line' = Tail(line)
  PROVE  /\ line' \in Seq(LineMessage) /\ Head(line) \in LineMessage /\ Head(line) = line[1]
         /\ 1 \in DOMAIN line
         /\ \A i \in DOMAIN line' : \E j \in DOMAIN line : line'[i] = line[j]
         /\ \A K : Holds(line, K) <=> Head(line).is \in K \/ Holds(line', K)
         /\ \A v : LastTells(line, v)
             => LastTells(line', v)
                 \/ (Head(line).is \in Telling /\ Head(line).value = v /\ ~Holds(line', Telling))
<1>1. \A K : Holds(line, K) <=> Head(line).is \in K \/ Holds(Tail(line), K)
      BY HasLess
<1>2. \A v : LastTells(line, v)
        => LastTells(Tail(line), v)
            \/ (Head(line).is \in Telling /\ Head(line).value = v /\ ~Holds(Tail(line), Telling))
      BY LastLess
<1>3. \A K : Holds(line', K) <=> Holds(Tail(line), K)
      BY DEF Holds
<1>4. \A v : LastTells(line', v) <=> LastTells(Tail(line), v)
      BY DEF LastTells
<1>5. \A i \in DOMAIN line' : i + 1 \in DOMAIN line /\ line'[i] = line[i + 1]
      OBVIOUS
<1> QED BY <1>1, <1>2, <1>3, <1>4, <1>5

\* A request more.
LEMMA RequestsGrow ==
  ASSUME requests \in Seq(PageRequest), NEW m \in PageRequest, requests' = Append(requests, m)
  PROVE  /\ requests' \in Seq(PageRequest)
         /\ \A i \in DOMAIN requests' :
             (i \in DOMAIN requests /\ requests'[i] = requests[i]) \/ requests'[i] = m
         /\ \A K : Holds(requests', K) <=> Holds(requests, K) \/ m.is \in K
<1>1. \A K : Holds(Append(requests, m), K) <=> Holds(requests, K) \/ m.is \in K
      BY HasMore
<1>2. \A K : Holds(requests', K) <=> Holds(Append(requests, m), K)
      BY DEF Holds
<1> QED BY <1>1, <1>2

\* A request less.
LEMMA RequestsShrink ==
  ASSUME requests \in Seq(PageRequest), requests # <<>>, requests' = Tail(requests)
  PROVE  /\ requests' \in Seq(PageRequest) /\ Head(requests) \in PageRequest
         /\ Head(requests) = requests[1] /\ 1 \in DOMAIN requests
         /\ \A i \in DOMAIN requests' : \E j \in DOMAIN requests : requests'[i] = requests[j]
         /\ \A K : Holds(requests, K) <=> Head(requests).is \in K \/ Holds(requests', K)
<1>1. \A K : Holds(requests, K) <=> Head(requests).is \in K \/ Holds(Tail(requests), K)
      BY HasLess
<1>3. \A K : Holds(requests', K) <=> Holds(Tail(requests), K)
      BY DEF Holds
<1>5. \A i \in DOMAIN requests' : i + 1 \in DOMAIN requests /\ requests'[i] = requests[i + 1]
      OBVIOUS
<1> QED BY <1>1, <1>3, <1>5

\* The invariant holds at first.
LEMMA ControlStarts == Controls!Init => ControlInv
<1> SUFFICES ASSUME Controls!Init PROVE ControlInv
    OBVIOUS
<1>1. Controls!Greeting \in LineMessage /\ line = <<Controls!Greeting>> /\ requests = <<>>
      BY DEF Controls!Init, Controls!Greeting, LineMessage
<1>2. line \in Seq(LineMessage) /\ requests \in Seq(PageRequest) /\ DOMAIN line = {1}
        /\ line[1] = Controls!Greeting /\ DOMAIN requests = {}
      BY <1>1
<1>3. Controls!Greeting.is = "connected"
      BY DEF Controls!Greeting
<1>4. PassedOn
      BY <1>2, <1>3 DEF PassedOn, Telling
<1>5. ControlKept
      BY FitNat DEF Controls!Init, ControlKept
<1>6. Holds(line, {"connected"})
      BY <1>2, <1>3 DEF Holds
<1> QED BY <1>4, <1>5, <1>6 DEF ControlInv, NewsComes, Asking, PageShows, Controls!Init

\* The device changes by itself.
LEMMA ChangeKeeps == ASSUME ControlInv, Controls!Change PROVE ControlInv'
<1>1. PICK v \in Controls!Possible : device' = v /\ line' = Controls!Told(v)
      BY DEF Controls!Change
<1> DEFINE m == [is |-> "status", value |-> v]
<1>2. v \in Fit /\ v \in Nat /\ m \in LineMessage /\ m.is = "status" /\ m.value = v
      BY FitNat DEF LineMessage
<1>3. UNCHANGED <<detail, open, requests, known, page, control, timer, left, failed>>
        /\ strayed' = (strayed /\ ~open)
      BY DEF Controls!Change
<1>4. Fit' = Fit /\ \A w : Controls!Shows(w)' = Controls!Shows(w)
      BY <1>3
         DEF Fit, Controls!Shows, Controls!NumberShows, Controls!LevelShows, Controls!SliderShows,
             Controls!SwitchShows, Controls!LabelShows, Controls!WordsShow, Controls!EnumShows
<1>5. ControlKept'
      BY <1>1, <1>2, <1>3, <1>4 DEF ControlInv, ControlKept
<1>6. CASE open
      <2>1. line' = Append(line, m)
            BY <1>1, <1>6 DEF Controls!Told
      <2> HIDE DEF m
      <2>2. /\ line' \in Seq(LineMessage)
            /\ \A i \in DOMAIN line' : (i \in DOMAIN line /\ line'[i] = line[i]) \/ line'[i] = m
            /\ \A K : Holds(line', K) <=> Holds(line, K) \/ m.is \in K
            /\ \A w :
                (m.is \in Telling /\ m.value = w) \/ (m.is \notin Telling /\ LastTells(line, w))
                    => LastTells(line', w)
            BY <1>2, <2>1, LineGrows DEF ControlInv, PassedOn
      <2>22. LastTells(line', v)
            <3>1. m.is \in Telling /\ m.value = v
                  BY <1>2 DEF Telling
            <3> QED BY <2>2, <3>1
      <2>3. PassedOn'
            BY <1>2, <1>3, <1>4, <2>2 DEF ControlInv, PassedOn
      <2>4. NewsComes'
            BY <1>1, <2>22 DEF NewsComes
      <2>5. Holds(line, Ending) => Holds(line', Ending)
            BY <2>2
      <2>6. PageShows'
            BY <1>3, <1>4, <2>5 DEF ControlInv, PageShows, Answering
      <2> QED BY <1>5, <2>3, <2>4, <2>6 DEF ControlInv
<1>7. CASE ~open
      <2>1. line' = line
            BY <1>1, <1>7 DEF Controls!Told
      <2> QED BY <1>3, <1>4, <1>5, <1>7, <2>1
         DEF ControlInv, PassedOn, NewsComes, PageShows, Answering
<1> QED BY <1>6, <1>7

\* What a step that leaves the page and its property alone leaves alone.
LEMMA SameDetail ==
  ASSUME detail' = detail
  PROVE  Fit' = Fit /\ \A w : Controls!Shows(w)' = Controls!Shows(w)
BY
   DEF Fit, Controls!Shows, Controls!NumberShows, Controls!LevelShows, Controls!SliderShows,
       Controls!SwitchShows, Controls!LabelShows, Controls!WordsShow, Controls!EnumShows

\* The gateway serves a request.
LEMMA ServeKeeps == ASSUME ControlInv, Controls!Serve PROVE ControlInv'
<1> DEFINE r == Head(requests)
<1>1. requests # <<>> /\ requests' = Tail(requests)
      BY DEF Controls!Serve
<1>2. /\ requests' \in Seq(PageRequest) /\ r \in PageRequest
      /\ \A i \in DOMAIN requests' : \E j \in DOMAIN requests : requests'[i] = requests[j]
      /\ \A K : Holds(requests, K) <=> r.is \in K \/ Holds(requests', K)
      /\ r.is = "put" => r.value \in Fit
      BY <1>1, RequestsShrink DEF ControlInv, PassedOn
<1>3. UNCHANGED <<detail, open, known, page, control, timer, left, failed>>
      BY DEF Controls!Serve
<1>4. Fit' = Fit /\ \A w : Controls!Shows(w)' = Controls!Shows(w)
      BY <1>3, SameDetail
<1>5. line \in Seq(LineMessage) /\ device \in Fit /\ device \in Nat
      BY FitNat DEF ControlInv, PassedOn, ControlKept
<1>6. \A i \in DOMAIN requests' : requests'[i].is = "put" => requests'[i].value \in Fit
      BY <1>2 DEF ControlInv, PassedOn
<1>7. CASE r.is = "get" /\ line' = Append(line, [is |-> "values", value |-> device])
             /\ device' = device /\ strayed' = FALSE
      <2> DEFINE m == [is |-> "values", value |-> device]
      <2>1. m \in LineMessage /\ m.is = "values" /\ m.value = device
            BY <1>5 DEF LineMessage
      <2>0. line' = Append(line, m)
            BY <1>7
      <2> HIDE DEF m, r
      <2>2. /\ line' \in Seq(LineMessage)
            /\ \A i \in DOMAIN line' : (i \in DOMAIN line /\ line'[i] = line[i]) \/ line'[i] = m
            /\ \A K : Holds(line', K) <=> Holds(line, K) \/ m.is \in K
            /\ \A w :
                (m.is \in Telling /\ m.value = w) \/ (m.is \notin Telling /\ LastTells(line, w))
                    => LastTells(line', w)
            BY <1>5, <2>0, <2>1, LineGrows
      <2>22. LastTells(line', device')
            <3>1. m.is \in Telling /\ m.value = device
                  BY <2>1 DEF Telling
            <3>2. LastTells(line', device)
                  BY <2>2, <3>1
            <3> QED BY <1>7, <3>2
      <2>3. PassedOn'
            BY <1>2, <1>4, <1>5, <1>6, <2>1, <2>2 DEF ControlInv, PassedOn
      <2>4. ControlKept' /\ NewsComes'
            BY <1>3, <1>4, <1>7, <2>22 DEF ControlInv, ControlKept, NewsComes
      <2>5. Holds(line, Ending) => Holds(line', Ending)
            BY <2>2
      <2>6. Holds(requests, {"put"}) => Holds(requests', {"put"})
            BY <1>2, <1>7
      <2>7. PageShows'
            BY <1>3, <1>4, <2>5, <2>6 DEF ControlInv, PageShows, Answering
      <2> QED BY <2>3, <2>4, <2>7 DEF ControlInv
<1>8. CASE r.is = "put" /\ device' \in {r.value} \union Controls!Possible
           /\ line' = Append(IF device' = device THEN line
               ELSE Controls!Told(device'), [is |-> "done", value |-> r.value])
           /\ strayed' = (device' # r.value)
      <2> DEFINE m == [is |-> "done", value |-> r.value]
                 s == [is |-> "status", value |-> device']
                 l == IF device' = device THEN line ELSE Controls!Told(device')
      <2>0. device' \in Fit /\ device' \in Nat
            BY <1>2, <1>8, FitNat
      <2>1. r.value \in Nat /\ r.value \in Fit
            BY <1>2, <1>8, FitNat
      <2>2. m \in LineMessage /\ m.is = "done" /\ m.value = r.value /\ s \in LineMessage
              /\ s.is = "status" /\ s.value = device'
            BY <2>0, <2>1 DEF LineMessage
      <2>3. line' = Append(l, m)
            BY <1>8
      <2>4. l = line \/ l = Append(line, s)
            BY DEF Controls!Told
      <2> HIDE DEF m, s, l, r
      <2>5. l \in Seq(LineMessage) /\ \A i \in DOMAIN l : l[i].is \in Telling
              => l[i].value \in Fit
            <3>1. \A i \in DOMAIN line : line[i].is \in Telling => line[i].value \in Fit
                  BY DEF ControlInv, PassedOn
            <3>2. CASE l = line
                  BY <1>5, <3>1, <3>2
            <3>3. CASE l = Append(line, s)
                  <4>1. \A i \in DOMAIN l : (i \in DOMAIN line /\ l[i] = line[i]) \/ l[i] = s
                        BY <1>5, <2>2, <3>3
                  <4>2. l \in Seq(LineMessage)
                        BY <1>5, <2>2, <3>3
                  <4> QED BY <2>0, <2>2, <3>1, <4>1, <4>2
            <3> QED BY <2>4, <3>2, <3>3
      <2>6. line' \in Seq(LineMessage) /\ \A i \in DOMAIN line' :
              (i \in DOMAIN l /\ line'[i] = l[i]) \/ line'[i] = m
            BY <2>2, <2>3, <2>5
      <2>7. Holds(line', Ending) /\ LastTells(line', r.value)
            <3>1. m.is \in Ending /\ m.is \in Telling
                  BY <2>2 DEF Ending, Telling
            <3>2. Holds(Append(l, m), Ending)
                  BY <2>2, <2>5, <3>1, HasMore
            <3>3. LastTells(Append(l, m), r.value)
                  BY <2>2, <2>5, <3>1, LastMore, Zenon
            <3> QED BY <2>3, <3>2, <3>3
      <2>8. PassedOn'
            BY <1>2, <1>4, <1>6, <2>1, <2>2, <2>5, <2>6 DEF ControlInv, PassedOn
      <2>9. ControlKept'
            BY <1>3, <1>4, <1>8, <2>0 DEF ControlInv, ControlKept
      <2>10. NewsComes'
            BY <1>8, <2>7 DEF NewsComes
      <2>11. PageShows'
            BY <2>7 DEF PageShows, Answering
      <2> QED BY <2>8, <2>9, <2>10, <2>11 DEF ControlInv
<1>9. CASE r.is = "put" /\ line' = Append(line, [is |-> "failed", value |-> None])
             /\ device' = device /\ strayed' = strayed
      <2> DEFINE m == [is |-> "failed", value |-> None]
      <2>1. m \in LineMessage /\ m.is = "failed"
            BY DEF LineMessage
      <2>0. line' = Append(line, m)
            BY <1>9
      <2> HIDE DEF m, r
      <2>2. /\ line' \in Seq(LineMessage)
            /\ \A i \in DOMAIN line' : (i \in DOMAIN line /\ line'[i] = line[i]) \/ line'[i] = m
            /\ \A K : Holds(line', K) <=> Holds(line, K) \/ m.is \in K
            /\ LastTells(line, device) => LastTells(line', device)
            BY <1>5, <1>9, <2>0, <2>1, LineGrows DEF Telling
      <2>3. PassedOn'
            BY <1>2, <1>4, <1>5, <1>6, <2>1, <2>2 DEF ControlInv, PassedOn, Telling
      <2>4. Holds(line', Ending) /\ (Holds(line', Telling) <=> Holds(line, Telling))
              /\ (Holds(line', {"connected"}) <=> Holds(line, {"connected"}))
            BY <2>1, <2>2 DEF Ending, Telling
      <2>5. Holds(requests', {"get"}) <=> Holds(requests, {"get"})
            BY <1>2, <1>9
      <2>6. ControlKept' /\ PageShows'
            BY <1>3, <1>4, <1>9, <2>4 DEF ControlInv, ControlKept, PageShows, Answering
      <2>7. NewsComes'
            BY <1>3, <1>9, <2>2, <2>4, <2>5 DEF ControlInv, NewsComes, Asking
      <2> QED BY <2>3, <2>6, <2>7 DEF ControlInv
<1> QED BY <1>7, <1>8, <1>9 DEF Controls!Serve

\* The socket is lost, and opened again.
LEMMA LoseKeeps == ASSUME ControlInv, Controls!Lose PROVE ControlInv'
<1>1. open' = FALSE /\ line' = Controls!Answers(line)
        /\ UNCHANGED <<detail, device, requests, known, page, control, timer, left, failed, strayed>>
      BY DEF Controls!Lose
<1>2. Fit' = Fit /\ \A w : Controls!Shows(w)' = Controls!Shows(w)
      BY <1>1, SameDetail
<1>3. /\ line' \in Seq(LineMessage)
      /\ \A i \in DOMAIN line : line[i].is \notin {"status", "connected"}
          => \E k \in DOMAIN line' : line'[k] = line[i]
      /\ \A k \in DOMAIN line' : \E i \in DOMAIN line : line'[k] = line[i]
      BY <1>1, AnswersOf DEF ControlInv, PassedOn
<1>4. Holds(line, Ending) => Holds(line', Ending)
      BY <1>3 DEF Holds, Ending
<1>5. PassedOn'
      BY <1>1, <1>2, <1>3 DEF ControlInv, PassedOn
<1> QED BY <1>1, <1>2, <1>4, <1>5 DEF ControlInv, ControlKept, NewsComes, PageShows, Answering

\* The socket is opened again, and the gateway greets.
LEMMA ReopenKeeps == ASSUME ControlInv, Controls!Reopen PROVE ControlInv'
<1>1. line' = Append(line, Controls!Greeting)
        /\ UNCHANGED <<detail, device, requests, known, page, control, timer, left, failed, strayed>>
      BY DEF Controls!Reopen
<1>2. Fit' = Fit /\ \A w : Controls!Shows(w)' = Controls!Shows(w)
      BY <1>1, SameDetail
<1>3. Controls!Greeting \in LineMessage /\ Controls!Greeting.is = "connected"
      BY DEF Controls!Greeting, LineMessage
<1>4. /\ line' \in Seq(LineMessage)
      /\ \A i \in DOMAIN line' :
          (i \in DOMAIN line /\ line'[i] = line[i]) \/ line'[i] = Controls!Greeting
      /\ \A K : Holds(line', K) <=> Holds(line, K) \/ Controls!Greeting.is \in K
      BY <1>1, <1>3, LineGrows DEF ControlInv, PassedOn
<1>5. Holds(line', {"connected"}) /\ (Holds(line, Ending) => Holds(line', Ending))
      BY <1>3, <1>4
<1>6. PassedOn'
      BY <1>1, <1>2, <1>3, <1>4 DEF ControlInv, PassedOn, Telling
<1> QED BY <1>1, <1>2, <1>5, <1>6
   DEF ControlInv, ControlKept, NewsComes, Asking, PageShows, Answering

\* The page hears a message or an answer.
LEMMA HearKeeps == ASSUME ControlInv, Controls!Hear PROVE ControlInv'
<1> DEFINE m == Head(line)
<1>1. /\ line # <<>> /\ line' = Tail(line)
      /\ UNCHANGED <<detail, device, open, page, timer, left, strayed>>
      BY DEF Controls!Hear
<1>2. /\ line' \in Seq(LineMessage) /\ m \in LineMessage
      /\ \A i \in DOMAIN line' : \E j \in DOMAIN line : line'[i] = line[j]
      /\ \A K : Holds(line, K) <=> m.is \in K \/ Holds(line', K)
      /\ \A v : LastTells(line, v)
          => LastTells(line', v) \/ (m.is \in Telling /\ m.value = v /\ ~Holds(line', Telling))
      /\ m.is \in Telling => m.value \in Fit
      BY <1>1, LineShrinks DEF ControlInv, PassedOn
<1>3. Fit' = Fit /\ \A w : Controls!Shows(w)' = Controls!Shows(w)
      BY <1>1, SameDetail
<1>4. \A i \in DOMAIN line' : line'[i].is \in Telling => line'[i].value \in Fit
      BY <1>2 DEF ControlInv, PassedOn
<1>5. CASE m.is \in Telling /\ Controls!OnPropertyStatus(m.value) /\ requests' = requests
      <2>1. m.value \in Fit /\ m.value # None
            BY <1>2, <1>5, FitNat, ControlsBounds
      <2>2. known' = m.value /\ control' = (IF page THEN Controls!Shows(m.value) ELSE control)
              /\ failed' = FALSE
            BY <1>5, <2>1, ShowsFit DEF Controls!OnPropertyStatus
      <2>3. PassedOn'
            BY <1>2, <1>3, <1>4, <1>5 DEF ControlInv, PassedOn
      <2>4. ControlKept'
            BY <1>1, <1>3, <2>1, <2>2, ShowsFit DEF ControlInv, ControlKept
      <2>5. NewsComes'
            <3>1. m.is # "connected"
                  BY <1>5 DEF Telling
            <3>2. Holds(line, {"connected"}) => Holds(line', {"connected"})
                  BY <1>2, <3>1
            <3>3. Holds(line, Telling)
                  BY <1>2, <1>5
            <3>4. LastTells(line, device)
                    => LastTells(line', device) \/ (m.value = device /\ ~Holds(line', Telling))
                  BY <1>2
            <3> HIDE DEF m
            <3> QED BY <1>1, <1>5, <2>2, <3>2, <3>3, <3>4 DEF ControlInv, NewsComes, Asking
      <2>6. PageShows'
            <3> HIDE DEF m
            <3> QED BY <1>1, <1>3, <2>1, <2>2 DEF PageShows
      <2> QED BY <2>3, <2>4, <2>5, <2>6 DEF ControlInv
<1>6. CASE m.is = "failed" /\ failed' = TRUE /\ UNCHANGED <<known, control, requests>>
      <2>1. PassedOn' /\ ControlKept'
            BY <1>1, <1>2, <1>3, <1>4, <1>6 DEF ControlInv, PassedOn, ControlKept
      <2>2. m.is \notin Telling /\ m.is # "connected"
            BY <1>6 DEF Telling
      <2>3. (Holds(line, {"connected"}) => Holds(line', {"connected"}))
              /\ (Holds(line', Telling) => Holds(line, Telling))
            BY <1>2, <2>2
      <2>4. LastTells(line, device) => LastTells(line', device)
            BY <1>2, <2>2
      <2>5. NewsComes'
            BY <1>1, <1>6, <2>3, <2>4 DEF ControlInv, NewsComes, Asking
      <2>6. PageShows'
            BY <1>6 DEF PageShows
      <2> QED BY <2>1, <2>5, <2>6 DEF ControlInv
<1>7. CASE m.is = "connected" /\ requests' = Controls!OnConnected
             /\ UNCHANGED <<known, control, failed>>
      <2> DEFINE q == [is |-> "get", value |-> None]
      <2>1. q \in PageRequest /\ q.is = "get"
            BY DEF PageRequest
      <2>2. requests' = Append(requests, q)
            BY <1>7 DEF Controls!OnConnected
      <2> HIDE DEF q, m
      <2>3. /\ requests' \in Seq(PageRequest)
            /\ \A i \in DOMAIN requests' :
                (i \in DOMAIN requests /\ requests'[i] = requests[i]) \/ requests'[i] = q
            /\ \A K : Holds(requests', K) <=> Holds(requests, K) \/ q.is \in K
            BY <2>1, <2>2, RequestsGrow DEF ControlInv, PassedOn
      <2>4. PassedOn' /\ ControlKept'
            BY <1>1, <1>2, <1>3, <1>4, <1>7, <2>1, <2>3 DEF ControlInv, PassedOn, ControlKept
      <2>5. Holds(requests', {"get"}) /\ (Holds(requests, {"put"}) => Holds(requests', {"put"}))
            BY <2>1, <2>3
      <2>6. NewsComes'
            BY <2>5 DEF NewsComes, Asking
      <2>7. m.is \notin Ending
            BY <1>7 DEF Ending
      <2>8. Holds(line, Ending) => Holds(line', Ending)
            BY <1>2, <2>7
      <2>9. PageShows'
            BY <1>1, <1>3, <1>7, <2>5, <2>8 DEF ControlInv, PageShows, Answering
      <2> QED BY <2>4, <2>6, <2>9 DEF ControlInv
<1> QED BY <1>5, <1>6, <1>7 DEF Controls!Hear, Telling

\* A request the page makes.
LEMMA PutKeeps ==
  ASSUME ControlInv, NEW v \in Fit, requests' = Append(requests, [is |-> "put", value |-> v]),
         UNCHANGED <<detail, device, open, line, known, page, failed, strayed>>,
         left' \in Fit \union {None}, page => control' \in Fit, timer' => page
  PROVE  ControlInv'
<1> DEFINE q == [is |-> "put", value |-> v]
<1>1. q \in PageRequest /\ q.is = "put" /\ q.value \in Fit
      BY FitNat DEF PageRequest
<1>2. requests' = Append(requests, q)
      OBVIOUS
<1> HIDE DEF q
<1>3. /\ requests' \in Seq(PageRequest)
      /\ \A i \in DOMAIN requests' :
          (i \in DOMAIN requests /\ requests'[i] = requests[i]) \/ requests'[i] = q
      /\ \A K : Holds(requests', K) <=> Holds(requests, K) \/ q.is \in K
      BY <1>1, <1>2, RequestsGrow DEF ControlInv, PassedOn
<1>4. Fit' = Fit
      BY SameDetail
<1>5. PassedOn' /\ ControlKept'
      BY <1>1, <1>3, <1>4 DEF ControlInv, PassedOn, ControlKept
<1>6. Holds(requests', {"put"}) /\ (Holds(requests, {"get"}) => Holds(requests', {"get"}))
      BY <1>1, <1>3
<1>7. NewsComes'
      BY <1>6 DEF ControlInv, NewsComes, Asking
<1>8. PageShows'
      BY <1>6 DEF PageShows, Answering
<1> QED BY <1>5, <1>7, <1>8 DEF ControlInv

\* What the page does without a request.
LEMMA PageKeeps ==
  ASSUME ControlInv, UNCHANGED <<detail, device, open, line, requests, known, strayed>>,
         left' \in Fit \union {None}, page' => control' \in Fit, timer' => page',
         page' => control' = Controls!Shows(IF known = None THEN 0 ELSE known) \/ timer'
  PROVE  ControlInv'
<1>1. Fit' = Fit /\ \A w : Controls!Shows(w)' = Controls!Shows(w)
      BY SameDetail
<1>2. PassedOn' /\ ControlKept'
      BY <1>1 DEF ControlInv, PassedOn, ControlKept
<1>3. NewsComes'
      BY DEF ControlInv, NewsComes, Asking
<1>4. PageShows'
      BY <1>1 DEF PageShows, Answering
<1> QED BY <1>2, <1>3, <1>4 DEF ControlInv

\* The page is opened.
LEMMA OpenKeeps == ASSUME ControlInv, Controls!Open \/ Controls!Close PROVE ControlInv'
<1>1. UNCHANGED <<detail, device, open, line, requests, known, strayed>>
      BY DEF Controls!Open, Controls!Close
<1>2. CASE Controls!Open
      <2>1. /\ page' = TRUE /\ left' = left /\ timer' = timer
            /\ control' = Controls!Shows(IF known = None THEN 0 ELSE known)
            BY <1>2 DEF Controls!Open
      <2>2. (IF known = None THEN 0 ELSE known) \in Fit /\ left \in Fit \union {None}
            BY FitNat DEF ControlInv, ControlKept
      <2>3. control' \in Fit
            BY <2>1, <2>2, ShowsFit
      <2> QED BY <1>1, <2>1, <2>2, <2>3, PageKeeps
<1>3. CASE Controls!Close
      <2>1. page' = FALSE /\ timer' = FALSE /\ left' \in Fit \union {None}
            BY <1>3 DEF Controls!Close, ControlInv, ControlKept
      <2> QED BY <1>1, <2>1, PageKeeps
<1> QED BY <1>2, <1>3

\* The user chooses a value.
LEMMA ChooseKeeps == ASSUME ControlInv, Controls!Choose PROVE ControlInv'
<1>1. /\ page /\ detail.element \notin {"label", "words", "state"}
      /\ UNCHANGED <<detail, device, open, line, known, page, left, failed, strayed>>
      BY DEF Controls!Choose
<1>2. PICK v \in Controls!Enterable :
        /\ control' = Controls!Takes(v)
        /\ IF detail.debounced
           THEN timer' = TRUE /\ UNCHANGED requests
           ELSE /\ requests' = Append(requests, [is |-> "put", value |-> Controls!Takes(v)])
                /\ UNCHANGED timer
      BY DEF Controls!Choose
<1>3. Controls!Takes(v) \in Fit /\ left \in Fit \union {None}
      BY <1>1, TakesFit DEF ControlInv, ControlKept
<1>4. CASE detail.debounced
      BY <1>1, <1>2, <1>3, <1>4, PageKeeps
<1>5. CASE ~detail.debounced
      BY <1>1, <1>2, <1>3, <1>5, PutKeeps
<1> QED BY <1>4, <1>5

\* The delayed setter fires.
LEMMA SetKeeps == ASSUME ControlInv, Controls!Set \/ Controls!SetLeft PROVE ControlInv'
<1>1. UNCHANGED <<detail, device, open, line, known, page, control, failed, strayed>>
      BY DEF Controls!Set, Controls!SetLeft
<1>2. CASE Controls!Set
      <2>1. timer' = FALSE /\ left' = left
              /\ requests' = Append(requests, [is |-> "put", value |-> control]) /\ page
            BY <1>2 DEF Controls!Set, ControlInv, ControlKept
      <2>2. control \in Fit /\ left \in Fit \union {None}
            BY <2>1 DEF ControlInv, ControlKept
      <2> QED BY <1>1, <2>1, <2>2, PutKeeps
<1>3. CASE Controls!SetLeft
      <2>1. timer' = timer /\ left' = None
              /\ requests' = Append(requests, [is |-> "put", value |-> left])
            BY <1>3 DEF Controls!SetLeft
      <2>2. left \in Fit /\ (page => control \in Fit) /\ (timer => page)
            BY <1>3 DEF Controls!SetLeft, ControlInv, ControlKept
      <2> QED BY <1>1, <2>1, <2>2, PutKeeps
<1> QED BY <1>2, <1>3

\* Every step keeps the invariant.
LEMMA ControlStep == ASSUME ControlInv, [Controls!Next]_controlVars PROVE ControlInv'
<1>1. CASE UNCHANGED controlVars
      <2>1. Fit' = Fit /\ \A w : Controls!Shows(w)' = Controls!Shows(w)
            BY <1>1, SameDetail DEF controlVars
      <2> QED BY <1>1, <2>1
         DEF controlVars, ControlInv, PassedOn, ControlKept, NewsComes, Asking, PageShows,
             Answering
<1>2. CASE Controls!Next
      BY <1>2, ChangeKeeps, ServeKeeps, LoseKeeps, ReopenKeeps, HearKeeps, OpenKeeps, ChooseKeeps,
          SetKeeps
         DEF Controls!Next
<1> QED BY <1>1, <1>2

\* What the invariant says of the control.
LEMMA ControlShows == ControlInv => Controls!ShowsDevice
<1> SUFFICES ASSUME ControlInv, Controls!Quiet, ~strayed PROVE known = device
    /\ (page /\ ~failed => control = Controls!Shows(device))
    BY DEF Controls!ShowsDevice
<1>1. \A K, v : ~Holds(line, K) /\ ~Holds(requests, K) /\ ~LastTells(line, v)
      BY DEF Controls!Quiet, Holds, LastTells
<1>2. known = device
      BY <1>1 DEF Controls!Quiet, ControlInv, NewsComes, Asking
<1>3. device # None
      BY FitNat, ControlsBounds DEF ControlInv, ControlKept
<1>4. page /\ ~failed => control = Controls!Shows(IF known = None THEN 0 ELSE known)
      BY <1>1 DEF Controls!Quiet, ControlInv, PageShows, Answering
<1> QED BY <1>2, <1>3, <1>4

\* The invariant of a control holds of what is composed.
LEMMA ControlAlways == OverviewSpec => []ControlInv
<1>1. OverviewInit => ControlInv
      BY ControlStarts DEF OverviewInit
<1>2. ControlInv /\ [OverviewNext]_overviewVars => ControlInv'
      BY ControlMoves, ControlStep
<1> QED BY <1>1, <1>2, PTL DEF OverviewSpec

-----------------------------------------------------------------------------
(* An icon of a thing (ThingIcons).                                        *)
\* What stands for no value is no value of a property.
LEMMA IconsBounds == NoWord \notin {"on", "off", "5", "7"}
BY ShownAssumption DEF ShownAssumption, Icons!IconsAssumption

\* A step is a step of the icon, or leaves it alone.
LEMMA IconMoves == [OverviewNext]_overviewVars => [Icons!Next]_iconVars
BY DEF OverviewNext, overviewVars, iconVars

\* What an icon keeps, and the icons of sensors.
IconFields == {"on", "level", "lit", "label"}
IsIcon(i) == DOMAIN i = IconFields
Sensors == {"binary", "alarm", "door", "motion", "occupancy", "leak", "smoke"}

\* The states of a thing, and what may be heard of them.
ValueOf(s) == IF s = "on" THEN Icons!State ELSE Icons!Number
IconValues == {f \in [Icons!Slot -> Icons!State
    \union Icons!Number] : \A s \in Icons!Slot : f[s] \in ValueOf(s)}
Hearings == {f \in [Icons!Slot -> Icons!State \union Icons!Number
    \union {NoWord}] : \A s \in Icons!Slot : f[s] \in ValueOf(s) \union {NoWord}}

\* What an icon is about, as far as it was heard.
OnOf(h) == IF "on" \in found THEN h["on"] ELSE NoWord
LevelOf(h) == IF "level" \in found /\ h["level"] # NoWord THEN h["level"] ELSE Icons!Zero

\* An icon keeps the level heard last.
Levelled(i, h) == kind.icon \in {"plug", "levels", "light"} => i.level = LevelOf(h)
\* It keeps and shows what was heard last.
IconIsRight(i, h) ==
  /\ kind.icon = "plug" => /\ i.on <=> OnOf(h) = "on"
                           /\ i.label = IF OnOf(h) = "on"
                               /\ "level" \in found THEN LevelOf(h) ELSE Icons!Name(OnOf(h))
  /\ kind.icon = "levels" => /\ i.on <=> OnOf(h) # "off"
                             /\ i.label = IF OnOf(h) = "off" THEN "off" ELSE LevelOf(h)
  /\ kind.icon = "light" => /\ i.on <=> OnOf(h) = "on"
                            /\ i.label = IF OnOf(h) # "on" THEN "off" ELSE IF "level" \in found
                                THEN LevelOf(h) ELSE "on"
  /\ kind.icon = "color" => i.label \in {h[s] : s \in found} \union {"white"}
  /\ kind.icon \in {"label", "thermostat"} => i.label = LevelOf(h)
  /\ kind.icon \in Sensors => i.label = Icons!Word(kind, OnOf(h))
  /\ kind.icon \in {"switch", "lock"} \/ (kind.icon = "button" /\ "on" \in found)
      => i.label = Icons!Name(OnOf(h))

\* What the icon of each kind is about.
LEMMA Kinds ==
  ASSUME kind \in Icons!Classes, found \subseteq kind.reads
  PROVE  /\ found \subseteq Icons!Slot
         /\ \/ kind.icon \in {"plug", "levels", "light", "thermostat", "color"}
            \/ kind.icon \in {"switch", "lock", "button"} \union Sensors /\ found \subseteq {"on"}
            \/ kind.icon = "label" /\ found \subseteq {"level"}
         /\ Icons!Sensor(kind) <=> kind.icon \in Sensors
<1>1. \/ kind.icon \in {"plug", "levels", "light", "thermostat", "color"}
          /\ kind.reads = Icons!Slot
      \/ kind.icon \in {"switch", "lock", "button"} \union Sensors /\ kind.reads = {"on"}
      \/ kind.icon = "label" /\ kind.reads = {"level"}
      BY
         DEF Icons!Classes, Icons!Class, Icons!OnOffSwitch, Icons!SmartPlug,
             Icons!MultiLevelSwitch, Icons!Light, Icons!Thermostat, Icons!ColorControl,
            Icons!BinarySensor, Icons!Alarm, Icons!DoorSensor, Icons!MotionSensor,
                Icons!OccupancySensor, Icons!LeakSensor,
            Icons!SmokeSensor, Icons!PushButton, Icons!Lock, Icons!MultiLevelSensor,
                Icons!EnergyMonitor,
            Icons!TemperatureSensor, Icons!HumiditySensor, Icons!BarometricPressureSensor,
                Icons!AirQualitySensor, Sensors
<1>2. DOMAIN Icons!SensorWords = Sensors
      BY DEF Icons!SensorWords, Sensors
<1> QED BY <1>1, <1>2 DEF Icons!Slot, Icons!Sensor

\* One property of one icon is told.
LEMMA ToldOne ==
  ASSUME kind \in Icons!Classes, found \subseteq kind.reads, NEW i, IsIcon(i), NEW h \in Hearings,
         Levelled(i, h),
         NEW s \in Icons!Slot, NEW v \in ValueOf(s), NEW g, g = [h EXCEPT ![s] = v]
  PROVE  /\ g \in Hearings /\ IsIcon(Icons!UpdateProperty(i, s, v))
         /\ Levelled(Icons!UpdateProperty(i, s, v), g)
         /\ IconIsRight(i, h) => IconIsRight(Icons!UpdateProperty(i, s, v), g)
         /\ s = "on" /\ "on" \in found /\ kind.icon \in {"switch", "plug", "levels", "light"}
             => IconIsRight(Icons!UpdateProperty(i, s, v), g)
<1> DEFINE n == Icons!UpdateProperty(i, s, v)
<1>0. /\ found \subseteq Icons!Slot
      /\ \/ kind.icon \in {"plug", "levels", "light", "thermostat", "color"}
         \/ kind.icon \in {"switch", "lock", "button"} \union Sensors /\ found \subseteq {"on"}
         \/ kind.icon = "label" /\ found \subseteq {"level"}
      /\ Icons!Sensor(kind) <=> kind.icon \in Sensors
      BY Kinds
<1>1. v # NoWord /\ v \in Icons!State \union Icons!Number /\ (s = "on" => v \in Icons!State)
        /\ (s = "level" => v \in Icons!Number)
      BY IconsBounds DEF ValueOf, Icons!Slot, Icons!State, Icons!Number
<1>2. g \in Hearings /\ g[s] = v /\ \A t \in Icons!Slot : t # s => g[t] = h[t]
      BY <1>1 DEF Hearings, ValueOf
<1>3. CASE s \notin found
      <2>1. n = i
            BY <1>3 DEF Icons!UpdateProperty
      <2>2. \A t \in found : g[t] = h[t]
            BY <1>0, <1>2, <1>3
      <2>3. OnOf(g) = OnOf(h) /\ LevelOf(g) = LevelOf(h)
              /\ {g[t] : t \in found} = {h[t] : t \in found}
            BY <2>2 DEF OnOf, LevelOf
      <2>4. Levelled(n, g) /\ (IconIsRight(i, h) => IconIsRight(n, g))
            BY <2>1, <2>3 DEF Levelled, IconIsRight, Sensors
      <2> QED BY <1>2, <1>3, <2>1, <2>4
<1>4. CASE s \in found /\ kind.icon = "plug"
      <2>1. CASE s = "on"
            <3>1. n = Icons!PlugOn(i, v)
                  BY <1>0, <1>4, <2>1 DEF Icons!UpdateProperty, Sensors
            <3>2. /\ DOMAIN n = IconFields /\ (n.on <=> v = "on") /\ n.level = i.level
                  /\ n.label = IF v = "on" /\ "level" \in found THEN i.level ELSE Icons!Name(v)
                  BY <3>1 DEF Icons!PlugOn, IsIcon, IconFields
            <3>3. OnOf(g) = v /\ LevelOf(g) = LevelOf(h) /\ i.level = LevelOf(h)
                  BY <1>2, <1>4, <2>1 DEF OnOf, LevelOf, Icons!Slot, Levelled
            <3>4. Levelled(n, g) /\ IconIsRight(n, g)
                  BY <1>4, <3>2, <3>3 DEF Levelled, IconIsRight, Sensors
            <3> QED BY <1>2, <3>2, <3>4 DEF IsIcon
      <2>2. CASE s = "level"
            <3>1. n = Icons!PlugPower(i, v)
                  BY <1>0, <1>4, <2>2 DEF Icons!UpdateProperty, Sensors
            <3>2. /\ DOMAIN n = IconFields /\ n.on = i.on /\ n.level = v
                  /\ n.label = IF i.on THEN v ELSE i.label
                  BY <3>1 DEF Icons!PlugPower, IsIcon, IconFields
            <3>3. OnOf(g) = OnOf(h) /\ LevelOf(g) = v
                  BY <1>1, <1>2, <1>4, <2>2 DEF OnOf, LevelOf, Icons!Slot
            <3>4. Levelled(n, g) /\ (IconIsRight(i, h) => IconIsRight(n, g))
                  BY <1>4, <2>2, <3>2, <3>3 DEF Levelled, IconIsRight, Sensors
            <3> QED BY <1>2, <2>2, <3>2, <3>4 DEF IsIcon
      <2> QED BY <2>1, <2>2 DEF Icons!Slot
<1>5. CASE s \in found /\ kind.icon = "levels"
      <2>1. CASE s = "on"
            <3>1. n = Icons!LevelsOn(i, v)
                  BY <1>0, <1>5, <2>1 DEF Icons!UpdateProperty, Sensors
            <3>2. /\ DOMAIN n = IconFields /\ (n.on <=> v = "on") /\ n.level = i.level
                  /\ n.label = IF v = "on" THEN i.level ELSE "off"
                  BY <3>1 DEF Icons!LevelsOn, IsIcon, IconFields
            <3>3. OnOf(g) = v /\ LevelOf(g) = LevelOf(h) /\ i.level = LevelOf(h)
                  BY <1>2, <1>5, <2>1 DEF OnOf, LevelOf, Icons!Slot, Levelled
            <3>4. Levelled(n, g) /\ IconIsRight(n, g)
                  BY <1>1, <1>5, <2>1, <3>2, <3>3 DEF Levelled, IconIsRight, Icons!State, Sensors
            <3> QED BY <1>2, <3>2, <3>4 DEF IsIcon
      <2>2. CASE s = "level"
            <3>1. n = Icons!LevelsLevel(i, v)
                  BY <1>0, <1>5, <2>2 DEF Icons!UpdateProperty, Sensors
            <3>2. /\ DOMAIN n = IconFields /\ n.on = i.on /\ n.level = v
                  /\ n.label = IF i.on THEN v ELSE i.label
                  BY <3>1 DEF Icons!LevelsLevel, IsIcon, IconFields
            <3>3. OnOf(g) = OnOf(h) /\ LevelOf(g) = v
                  BY <1>1, <1>2, <1>5, <2>2 DEF OnOf, LevelOf, Icons!Slot
            <3>4. Levelled(n, g) /\ (IconIsRight(i, h) => IconIsRight(n, g))
                  BY <1>5, <2>2, <3>2, <3>3 DEF Levelled, IconIsRight, Sensors
            <3> QED BY <1>2, <2>2, <3>2, <3>4 DEF IsIcon
      <2> QED BY <2>1, <2>2 DEF Icons!Slot
<1>6. CASE s \in found /\ kind.icon = "light"
      <2>1. CASE s = "on"
            <3>1. n = Icons!LightOn(i, v)
                  BY <1>0, <1>6, <2>1 DEF Icons!UpdateProperty, Sensors
            <3>2. /\ DOMAIN n = IconFields /\ (n.on <=> v = "on") /\ n.level = i.level
                  /\ n.label = IF v # "on" THEN "off" ELSE IF "level" \in found THEN i.level
                      ELSE "on"
                  BY <3>1 DEF Icons!LightOn, IsIcon, IconFields
            <3>3. OnOf(g) = v /\ LevelOf(g) = LevelOf(h) /\ i.level = LevelOf(h)
                  BY <1>2, <1>6, <2>1 DEF OnOf, LevelOf, Icons!Slot, Levelled
            <3>4. Levelled(n, g) /\ IconIsRight(n, g)
                  BY <1>6, <2>1, <3>2, <3>3 DEF Levelled, IconIsRight, Sensors
            <3> QED BY <1>2, <3>2, <3>4 DEF IsIcon
      <2>2. CASE s = "level"
            <3>1. n = Icons!LightBrightness(i, v)
                  BY <1>0, <1>6, <2>2 DEF Icons!UpdateProperty, Sensors
            <3>2. /\ DOMAIN n = IconFields /\ n.on = i.on /\ n.level = v
                  /\ n.label = IF i.on THEN v ELSE "off"
                  BY <3>1 DEF Icons!LightBrightness, IsIcon, IconFields
            <3>3. OnOf(g) = OnOf(h) /\ LevelOf(g) = v
                  BY <1>1, <1>2, <1>6, <2>2 DEF OnOf, LevelOf, Icons!Slot
            <3>4. Levelled(n, g) /\ (IconIsRight(i, h) => IconIsRight(n, g))
                  BY <1>6, <2>2, <3>2, <3>3 DEF Levelled, IconIsRight, Sensors
            <3> QED BY <1>2, <2>2, <3>2, <3>4 DEF IsIcon
      <2> QED BY <2>1, <2>2 DEF Icons!Slot
<1>7. CASE s \in found /\ kind.icon = "thermostat"
      <2>1. n = IF s = "on" THEN Icons!ThermostatState(i, v)
              ELSE Icons!ThermostatTemperature(i, v)
            BY <1>0, <1>7 DEF Icons!UpdateProperty, Sensors
      <2>2. DOMAIN n = IconFields /\ n.label = IF s = "on" THEN i.label ELSE v
            BY <2>1 DEF Icons!ThermostatState, Icons!ThermostatTemperature, IsIcon, IconFields
      <2>3. LevelOf(g) = IF s = "on" THEN LevelOf(h) ELSE v
            BY <1>1, <1>2, <1>7 DEF LevelOf, Icons!Slot
      <2> QED BY <1>2, <1>7, <2>2, <2>3 DEF IsIcon, Levelled, IconIsRight, Sensors
<1>8. CASE s \in found /\ kind.icon = "color"
      <2>1. n = Icons!ControlColor(i, v)
            BY <1>0, <1>8 DEF Icons!UpdateProperty, Sensors
      <2>2. DOMAIN n = IconFields /\ n.label = g[s]
            BY <1>2, <2>1 DEF Icons!ControlColor, IsIcon, IconFields
      <2> QED BY <1>2, <1>8, <2>2 DEF IsIcon, Levelled, IconIsRight, Sensors
<1>9. CASE s \in found /\ kind.icon = "label"
      <2>1. s = "level" /\ n = Icons!LabelLevel(i, v)
            BY <1>0, <1>9 DEF Icons!UpdateProperty, Sensors
      <2>2. DOMAIN n = IconFields /\ n.label = v
            BY <2>1 DEF Icons!LabelLevel, IsIcon, IconFields
      <2>3. LevelOf(g) = v
            BY <1>1, <1>2, <1>9, <2>1 DEF LevelOf, Icons!Slot
      <2> QED BY <1>2, <1>9, <2>2, <2>3 DEF IsIcon, Levelled, IconIsRight, Sensors
<1>10. CASE s \in found /\ kind.icon \in {"switch", "lock", "button"} \union Sensors
       <2>1. s = "on" /\ OnOf(g) = v
             BY <1>0, <1>2, <1>10 DEF OnOf, Icons!Slot, Sensors
       <2>2. DOMAIN n = IconFields
               /\ n.label = IF kind.icon \in Sensors THEN Icons!Word(kind, v) ELSE Icons!Name(v)
             <3>1. CASE kind.icon \in Sensors
                   BY <1>0, <1>10, <3>1
                      DEF Icons!UpdateProperty, Icons!SensorState, IsIcon, IconFields, Sensors
             <3>2. CASE kind.icon = "switch"
                   <4>1. n = Icons!SwitchOn(i, v)
                         BY <1>0, <1>10, <3>2 DEF Icons!UpdateProperty, Sensors
                   <4> QED BY <3>2, <4>1 DEF Icons!SwitchOn, IsIcon, IconFields, Sensors
             <3>3. CASE kind.icon = "lock"
                   BY <1>0, <1>10, <3>3
                      DEF Icons!UpdateProperty, Icons!LockState, IsIcon, IconFields, Sensors
             <3>4. CASE kind.icon = "button"
                   BY <1>0, <1>10, <3>4
                      DEF Icons!UpdateProperty, Icons!ButtonPushed, IsIcon, IconFields, Sensors
             <3> QED BY <1>10, <3>1, <3>2, <3>3, <3>4
       <2> QED BY <1>2, <1>10, <2>1, <2>2 DEF IsIcon, Levelled, IconIsRight, Sensors
<1> QED BY <1>0, <1>3, <1>4, <1>5, <1>6, <1>7, <1>8, <1>9, <1>10

\* What is on the line, and the rest of a press.
Orders == {<<>>, <<"on">>, <<"level">>, <<"on", "level">>, <<"level", "on">>}
IconWord == [is : {"status", "done", "failed"}, of : Orders, values : IconValues]
IconMessage == {m \in IconWord : (m.is = "done" => m.of = <<"on">>)
    /\ (m.is = "failed" => m.of = <<>>)}
Presses == {<<"off">>, <<"on", "off">>, <<"off", "on", "off">>}

\* The icon and what it is about are typed.
IconTyped == /\ kind \in Icons!Classes /\ found \subseteq kind.reads
             /\ value \in IconValues /\ model \in Hearings /\ told \in Seq(IconMessage)
             /\ click \in Icons!State \union {NoWord} /\ refused \in BOOLEAN
             /\ IsIcon(icon)
\* The icon is right, or a click of it is not answered or was refused.
ClickAwaited == IconIsRight(icon, model) \/ (Icons!Clickable /\ (click # NoWord \/ refused))
\* A press ends with the button let go.
Pressed == /\ press # <<>> => kind.icon = "button" /\ "on" \notin found /\ press \in Presses
           /\ kind.icon = "button" /\ "on" \notin found /\ press = <<>> => icon.label = "off"
\* The inductive invariant of an icon.
IconInv == IconTyped /\ Levelled(icon, model) /\ ClickAwaited /\ Pressed

\* The invariant holds at first.
LEMMA IconStarts ==
  ASSUME Icons!Init
  PROVE  IconInv
<1>0. kind \in Icons!Classes /\ model = [s \in Icons!Slot |-> NoWord] /\ told = <<>>
        /\ icon = Icons!Fresh(kind)
      /\ click = NoWord /\ refused = FALSE /\ press = <<>>
      BY DEF Icons!Init
<1>1. found \subseteq kind.reads
      BY DEF Icons!Init, Icons!Find
<1>2. /\ found \subseteq Icons!Slot
      /\ \/ kind.icon \in {"plug", "levels", "light", "thermostat", "color"}
         \/ kind.icon \in {"switch", "lock", "button"} \union Sensors /\ found \subseteq {"on"}
         \/ kind.icon = "label" /\ found \subseteq {"level"}
      /\ Icons!Sensor(kind) <=> kind.icon \in Sensors
      BY <1>0, <1>1, Kinds
<1>3. value \in IconValues
      <2>1. PICK b \in Icons!State, n \in Icons!Number :
                   value = [s \in Icons!Slot |-> IF s = "on" THEN b ELSE n]
            BY DEF Icons!Init
      <2> QED BY <2>1 DEF IconValues, ValueOf
<1>4. model \in Hearings
      BY <1>0 DEF Hearings, ValueOf
<1>5. OnOf(model) = NoWord /\ LevelOf(model) = Icons!Zero
      BY <1>0 DEF OnOf, LevelOf, Icons!Slot
<1>6. NoWord # "on" /\ NoWord # "off"
      BY IconsBounds
<1> DEFINE shown0(b, l) == [on |-> b, level |-> Icons!Zero, lit |-> b, label |-> l]
<1>7. /\ kind.icon \in {"switch", "plug", "lock"} \union Sensors => icon = shown0(FALSE, "...")
      /\ kind.icon = "button" /\ "on" \in found => icon = shown0(FALSE, "...")
      /\ kind.icon = "button" /\ "on" \notin found => icon = shown0(FALSE, "off")
      /\ kind.icon = "light" => icon = shown0(FALSE, "off")
      /\ kind.icon = "levels" => icon = shown0(TRUE, Icons!Zero)
      /\ kind.icon = "color" => icon = shown0(FALSE, "white")
      /\ kind.icon \in {"label", "thermostat"} => icon = shown0(FALSE, Icons!Zero)
      BY <1>0, <1>2 DEF Icons!Fresh, Sensors
<1>8. IsIcon(icon)
      BY <1>2, <1>7 DEF IsIcon, IconFields, Sensors
<1>9. Levelled(icon, model)
      BY <1>5, <1>7 DEF Levelled
<1>10. IconIsRight(icon, model)
       <2>1. CASE kind.icon \in {"plug", "levels", "light"}
             BY <2>1, <1>5, <1>6, <1>7 DEF IconIsRight, Icons!Name, Sensors
       <2>2. CASE kind.icon = "color"
             BY <2>2, <1>7 DEF IconIsRight, Sensors
       <2>5. CASE kind.icon \in {"label", "thermostat"}
             BY <2>5, <1>5, <1>7 DEF IconIsRight, Sensors
       <2>3. CASE kind.icon \in Sensors
             BY <2>3, <1>5, <1>7 DEF IconIsRight, Sensors, Icons!Word
       <2>4. CASE kind.icon \in {"switch", "lock", "button"}
             BY <2>4, <1>5, <1>7 DEF IconIsRight, Icons!Name, Sensors
       <2> QED BY <1>2, <2>1, <2>2, <2>3, <2>4, <2>5
<1>11. Pressed
       BY <1>0, <1>7 DEF Pressed
<1>12. IconTyped
       <2>1. told \in Seq(IconMessage) /\ click \in Icons!State \union {NoWord}
             BY <1>0
       <2>2. refused \in BOOLEAN
             BY <1>0
       <2> QED BY <1>0, <1>1, <1>3, <1>4, <1>8, <2>1, <2>2 DEF IconTyped
<1> QED BY <1>9, <1>10, <1>11, <1>12 DEF IconInv, ClickAwaited

\* What the invariant says of the icon.
LEMMA IconRight ==
  ASSUME IconInv
  PROVE  Icons!IconFollows
<1> SUFFICES ASSUME click = NoWord /\ ~refused /\ press = <<>>
             PROVE  icon.label \in Icons!Labels
    BY DEF Icons!IconFollows
<1>0. kind \in Icons!Classes /\ found \subseteq kind.reads
      BY DEF IconInv, IconTyped
<1>1. /\ found \subseteq Icons!Slot
      /\ \/ kind.icon \in {"plug", "levels", "light", "thermostat", "color"}
         \/ kind.icon \in {"switch", "lock", "button"} \union Sensors /\ found \subseteq {"on"}
         \/ kind.icon = "label" /\ found \subseteq {"level"}
      /\ Icons!Sensor(kind) <=> kind.icon \in Sensors
      BY <1>0, Kinds
<1>2. IconIsRight(icon, model)
      BY DEF IconInv, ClickAwaited
<1> DEFINE on == OnOf(model)
           level == LevelOf(model)
<1>3. /\ kind.icon = "plug"
          => Icons!Labels = {IF on = "on" /\ "level" \in found THEN level ELSE Icons!Name(on)}
      /\ kind.icon = "levels" => Icons!Labels = {IF on = "off" THEN "off" ELSE level}
      /\ kind.icon = "light"
          => Icons!Labels = {IF on # "on" THEN "off" ELSE IF "level" \in found THEN level
              ELSE "on"}
      /\ kind.icon = "color" => Icons!Labels = {model[s] : s \in found} \cup {"white"}
      /\ kind.icon = "button" /\ "on" \notin found => Icons!Labels = {"off"}
      /\ kind.icon \in {"label", "thermostat"} => Icons!Labels = {level}
      /\ kind.icon \in Sensors => Icons!Labels = {Icons!Word(kind, on)}
      /\ kind.icon \in {"switch", "lock"} \/ (kind.icon = "button" /\ "on" \in found)
          => Icons!Labels = {Icons!Name(on)}
      <2>1. kind.icon = "plug"
              => Icons!Labels = {IF on = "on" /\ "level" \in found THEN level ELSE Icons!Name(on)}
            BY <1>1 DEF Icons!Labels, OnOf, LevelOf, Sensors
      <2>2. kind.icon = "levels" => Icons!Labels = {IF on = "off" THEN "off" ELSE level}
            BY <1>1 DEF Icons!Labels, OnOf, LevelOf, Sensors
      <2>3. kind.icon = "light"
              => Icons!Labels = {IF on # "on" THEN "off" ELSE IF "level" \in found THEN level
                  ELSE "on"}
            BY <1>1 DEF Icons!Labels, OnOf, LevelOf, Sensors
      <2>4. kind.icon = "color" => Icons!Labels = {model[s] : s \in found} \cup {"white"}
            BY <1>1 DEF Icons!Labels, OnOf, LevelOf, Sensors
      <2>5. kind.icon = "button" /\ "on" \notin found => Icons!Labels = {"off"}
            BY <1>1 DEF Icons!Labels, OnOf, LevelOf, Sensors
      <2>6. kind.icon \in {"label", "thermostat"} => Icons!Labels = {level}
            BY <1>1 DEF Icons!Labels, OnOf, LevelOf, Sensors
      <2>7. kind.icon \in Sensors => Icons!Labels = {Icons!Word(kind, on)}
            BY <1>1 DEF Icons!Labels, OnOf, LevelOf, Sensors
      <2>8. kind.icon \in {"switch", "lock"} \/ (kind.icon = "button" /\ "on" \in found)
              => Icons!Labels = {Icons!Name(on)}
            BY <1>1 DEF Icons!Labels, OnOf, LevelOf, Sensors
      <2> QED BY <2>1, <2>2, <2>3, <2>4, <2>5, <2>6, <2>7, <2>8
<1>4. CASE kind.icon = "plug"
      BY <1>2, <1>3, <1>4 DEF IconIsRight
<1>5. CASE kind.icon = "levels"
      BY <1>2, <1>3, <1>5 DEF IconIsRight
<1>6. CASE kind.icon = "light"
      BY <1>2, <1>3, <1>6 DEF IconIsRight
<1>7. CASE kind.icon = "color"
      BY <1>2, <1>3, <1>7 DEF IconIsRight
<1>8. CASE kind.icon \in {"label", "thermostat"}
      BY <1>2, <1>3, <1>8 DEF IconIsRight
<1>9. CASE kind.icon \in Sensors
      BY <1>2, <1>3, <1>9 DEF IconIsRight, Sensors
<1>10. CASE kind.icon = "button" /\ "on" \notin found
       BY <1>3, <1>10 DEF IconInv, Pressed
<1>11. CASE kind.icon \in {"switch", "lock"} \/ (kind.icon = "button" /\ "on" \in found)
       BY <1>2, <1>3, <1>11 DEF IconIsRight, Sensors
<1> QED BY <1>1, <1>4, <1>5, <1>6, <1>7, <1>8, <1>9, <1>10, <1>11

\* What the steps that tell the icon nothing keep.
LEMMA IconUntold ==
  ASSUME IconInv, UNCHANGED <<kind, found, model, icon, refused, press>>,
         value' \in IconValues, told' \in Seq(IconMessage), click' = click
  PROVE  IconInv'
<1>1. OnOf(model)' = OnOf(model) /\ LevelOf(model)' = LevelOf(model)
        /\ Icons!Clickable' = Icons!Clickable
      BY DEF OnOf, LevelOf, Icons!Clickable
<1>2. Icons!Word(kind, OnOf(model))' = Icons!Word(kind, OnOf(model))
      BY <1>1 DEF Icons!Word
<1>3. IconIsRight(icon, model)' <=> IconIsRight(icon, model)
      BY <1>1, <1>2 DEF IconIsRight, Icons!Name
<1>4. Levelled(icon, model)'
      BY <1>1 DEF IconInv, Levelled
<1>5. ClickAwaited'
      BY <1>1, <1>3 DEF IconInv, ClickAwaited
<1>6. Pressed'
      BY DEF IconInv, Pressed
<1>7. IconTyped'
      BY DEF IconInv, IconTyped, IsIcon
<1> QED BY <1>4, <1>5, <1>6, <1>7 DEF IconInv

\* A property of the thing changes.
LEMMA IconChange ==
  ASSUME IconInv, Icons!Change
  PROVE  IconInv'
<1>0. UNCHANGED <<kind, found, model, icon, click, refused, press>> /\ value \in IconValues
        /\ told \in Seq(IconMessage)
      /\ kind \in Icons!Classes /\ found \subseteq kind.reads
      BY DEF Icons!Change, IconInv, IconTyped
<1>1. PICK s \in found, v \in Icons!State \cup Icons!Number :
               /\ v \in (IF s = "on" THEN Icons!State ELSE Icons!Number) /\ v # value[s]
               /\ value' = [value EXCEPT ![s] = v]
               /\ told' = Append(told, [is |-> "status", of |-> <<s>>, values |-> value'])
      BY DEF Icons!Change
<1>2. found \subseteq Icons!Slot
      BY <1>0, Kinds
<1>3. value' \in IconValues
      BY <1>0, <1>1, <1>2 DEF IconValues, ValueOf
<1>4. <<s>> \in Orders
      BY <1>1, <1>2 DEF Orders, Icons!Slot
<1>5. [is |-> "status", of |-> <<s>>, values |-> value'] \in IconMessage
      BY <1>3, <1>4 DEF IconMessage, IconWord
<1>6. told' \in Seq(IconMessage)
      BY <1>0, <1>1, <1>5
<1> QED BY <1>0, <1>3, <1>6, IconUntold

\* All properties are answered to a GET.
LEMMA IconFetch ==
  ASSUME IconInv, Icons!Fetch
  PROVE  IconInv'
<1>0. UNCHANGED <<kind, found, model, icon, click, refused, press, value>>
        /\ value \in IconValues /\ told \in Seq(IconMessage)
      BY DEF Icons!Fetch, IconInv, IconTyped
<1>1. PICK order \in {<<"on", "level">>, <<"level", "on">>} :
              told' = Append(told, [is |-> "status", of |-> order, values |-> value])
      BY DEF Icons!Fetch
<1>2. [is |-> "status", of |-> order, values |-> value] \in IconMessage
      BY <1>0 DEF IconMessage, IconWord, Orders
<1>3. told' \in Seq(IconMessage)
      BY <1>0, <1>1, <1>2
<1> QED BY <1>0, <1>3, IconUntold

\* A click is answered.
LEMMA IconServe ==
  ASSUME IconInv, Icons!Serve
  PROVE  IconInv'
<1>0. UNCHANGED <<kind, found, model, icon, click, refused, press>> /\ value \in IconValues
        /\ told \in Seq(IconMessage)
      /\ click \in Icons!State
      BY DEF Icons!Serve, IconInv, IconTyped
<1>1. \/ /\ value' = [value EXCEPT !["on"] = click]
         /\ told' = Append(told, [is |-> "done", of |-> <<"on">>, values |-> value'])
      \/ /\ told' = Append(told, [is |-> "failed", of |-> <<>>, values |-> value])
         /\ value' = value
      BY DEF Icons!Serve
<1>2. value' \in IconValues
      BY <1>0, <1>1 DEF IconValues, ValueOf, Icons!Slot
<1>3. [is |-> "done", of |-> <<"on">>, values |-> value'] \in IconMessage
      BY <1>2 DEF IconMessage, IconWord, Orders
<1>4. [is |-> "failed", of |-> <<>>, values |-> value] \in IconMessage
      BY <1>0 DEF IconMessage, IconWord, Orders
<1>5. told' \in Seq(IconMessage)
      <2>1. \E m \in IconMessage : told' = Append(told, m)
            BY <1>1, <1>3, <1>4
      <2> QED BY <1>0, <2>1
<1> QED BY <1>0, <1>2, <1>5, IconUntold

\* A click.
LEMMA IconClick ==
  ASSUME IconInv, Icons!Click
  PROVE  IconInv'
<1>0. UNCHANGED <<kind, found, value, told, model, refused, press>> /\ Icons!Clickable
      /\ icon' = Icons!UpdateProperty(icon, "on", NoWord)
      BY DEF Icons!Click
<1>1. click' \in Icons!State /\ click' # NoWord
      BY IconsBounds DEF Icons!Click, Icons!State
<1>9. Icons!Sensor(kind) <=> kind.icon \in Sensors
      BY Kinds DEF IconInv, IconTyped
<1>2. IsIcon(icon)' /\ icon'.level = icon.level
      <2>1. CASE kind.icon = "switch"
            <3>1. icon' = Icons!SwitchOn(icon, NoWord)
                  BY <1>0, <1>9, <2>1 DEF Icons!UpdateProperty, Icons!Clickable, Sensors
            <3> QED BY <3>1 DEF Icons!SwitchOn, IsIcon, IconFields, IconInv, IconTyped
      <2>2. CASE kind.icon = "plug"
            <3>1. icon' = Icons!PlugOn(icon, NoWord)
                  BY <1>0, <1>9, <2>2 DEF Icons!UpdateProperty, Icons!Clickable, Sensors
            <3> QED BY <3>1 DEF Icons!PlugOn, IsIcon, IconFields, IconInv, IconTyped
      <2>3. CASE kind.icon = "levels"
            <3>1. icon' = Icons!LevelsOn(icon, NoWord)
                  BY <1>0, <1>9, <2>3 DEF Icons!UpdateProperty, Icons!Clickable, Sensors
            <3> QED BY <3>1 DEF Icons!LevelsOn, IsIcon, IconFields, IconInv, IconTyped
      <2>4. CASE kind.icon = "light"
            <3>1. icon' = Icons!LightOn(icon, NoWord)
                  BY <1>0, <1>9, <2>4 DEF Icons!UpdateProperty, Icons!Clickable, Sensors
            <3> QED BY <3>1 DEF Icons!LightOn, IsIcon, IconFields, IconInv, IconTyped
      <2> QED BY <1>0, <2>1, <2>2, <2>3, <2>4 DEF Icons!Clickable
<1>3. Icons!Clickable'
      BY <1>0 DEF Icons!Clickable
<1>4. ClickAwaited'
      BY <1>1, <1>3 DEF ClickAwaited
<1>5. LevelOf(model)' = LevelOf(model)
      BY <1>0 DEF LevelOf
<1>6. Levelled(icon, model)'
      BY <1>0, <1>2, <1>5 DEF IconInv, Levelled
<1>7. Pressed'
      BY <1>0 DEF IconInv, Pressed, Icons!Clickable
<1>8. IconTyped'
      BY <1>0, <1>1, <1>2 DEF IconInv, IconTyped
<1> QED BY <1>4, <1>6, <1>7, <1>8 DEF IconInv

\* A button is shown as pushed or let go.
LEMMA IconPushes ==
  ASSUME IconInv, kind.icon = "button", "on" \notin found,
         UNCHANGED <<kind, found, value, told, model, click, refused>>,
         press' = <<>> \/ press' \in Presses,
         NEW v, icon' = Icons!ButtonPushed(icon, v), press' = <<>> => v = "off"
  PROVE  IconInv'
<1>1. DOMAIN icon' = IconFields /\ icon'.label = Icons!Name(v)
      BY DEF Icons!ButtonPushed, IconInv, IconTyped, IsIcon, IconFields
<1>2. press' = <<>> => icon'.label = "off"
      BY <1>1, IconsBounds DEF Icons!Name
<1>3. Pressed'
      BY <1>2 DEF Pressed
<1>4. IconTyped'
      BY <1>1 DEF IconInv, IconTyped, IsIcon
<1>5. Levelled(icon, model)'
      BY DEF Levelled
<1>6. IconIsRight(icon, model)'
      BY DEF IconIsRight, Sensors
<1> QED BY <1>3, <1>4, <1>5, <1>6 DEF IconInv, ClickAwaited

\* A press begins.
LEMMA IconPress ==
  ASSUME IconInv, Icons!Press
  PROVE  IconInv'
<1>1. /\ kind.icon = "button" /\ "on" \notin found
      /\ UNCHANGED <<kind, found, value, told, model, click, refused>>
      /\ icon' = Icons!ButtonPushed(icon, "on")
      BY DEF Icons!Press
<1>2. press' \in Presses /\ press' # <<>>
      BY DEF Icons!Press, Icons!Rest, Presses
<1> QED BY <1>1, <1>2, IconPushes

\* A press goes on.
LEMMA IconPressTimer ==
  ASSUME IconInv, Icons!PressTimer
  PROVE  IconInv'
<1>1. kind.icon = "button" /\ "on" \notin found /\ press \in Presses
      BY DEF Icons!PressTimer, IconInv, Pressed
<1>2. /\ UNCHANGED <<kind, found, value, told, model, click, refused>>
      /\ icon' = Icons!ButtonPushed(icon, Head(press)) /\ press' = Tail(press)
      BY DEF Icons!PressTimer
<1>3. /\ press' = <<>> \/ press' \in Presses
      /\ press' = <<>> => Head(press) = "off"
      <2>1. CASE press = <<"off">>
            BY <1>2, <2>1
      <2>2. CASE press = <<"on", "off">>
            <3>1. Tail(press) = <<"off">>
                  BY <2>2
            <3> QED BY <1>2, <3>1 DEF Presses
      <2>3. CASE press = <<"off", "on", "off">>
            <3>1. Tail(press) = <<"on", "off">>
                  BY <2>3
            <3> QED BY <1>2, <3>1 DEF Presses
      <2> QED BY <1>1, <2>1, <2>2, <2>3 DEF Presses
<1> QED BY <1>1, <1>2, <1>3, IconPushes

\* A whole message is told.
LEMMA ToldAll ==
  ASSUME IconTyped, Levelled(icon, model), NEW m \in IconMessage, NEW g,
         g = [s \in Icons!Slot |-> IF s \in {m.of[i] : i \in DOMAIN m.of} THEN m.values[s]
             ELSE model[s]]
  PROVE  /\ g \in Hearings /\ IsIcon(Icons!Told(icon, m)) /\ Levelled(Icons!Told(icon, m), g)
         /\ IconIsRight(icon, model) => IconIsRight(Icons!Told(icon, m), g)
         /\ "on" \in {m.of[i] : i \in DOMAIN m.of} /\ Icons!Clickable
             => IconIsRight(Icons!Told(icon, m), g)
         /\ {m.of[i] : i \in DOMAIN m.of} = {} => Icons!Told(icon, m) = icon
<1> DEFINE about == {m.of[i] : i \in DOMAIN m.of}
<1>0. /\ kind \in Icons!Classes /\ found \subseteq kind.reads /\ model \in Hearings
      /\ IsIcon(icon)
      /\ m.of \in Orders /\ m.values \in IconValues
      BY DEF IconTyped, IconMessage, IconWord
<1>1. \A s \in Icons!Slot : m.values[s] \in ValueOf(s)
      BY <1>0 DEF IconValues
<1>2. DOMAIN model = Icons!Slot /\ DOMAIN g = Icons!Slot
      BY <1>0 DEF Hearings
<1>3. ASSUME NEW s \in Icons!Slot, m.of = <<s>>
      PROVE  Icons!Told(icon, m) = Icons!UpdateProperty(icon, s, m.values[s])
                 /\ g = [model EXCEPT ![s] = m.values[s]] /\ about = {s}
      <2>1. m.of # <<>> /\ Len(m.of) = 1 /\ m.of[1] = s /\ DOMAIN m.of = {1}
            BY <1>3
      <2>2. about = {s}
            BY <2>1
      <2>3. Icons!Told(icon, m) = Icons!UpdateProperty(icon, s, m.values[s])
            BY <2>1 DEF Icons!Told
      <2>4. g = [model EXCEPT ![s] = m.values[s]]
            BY <1>2, <2>2
      <2> QED BY <2>2, <2>3, <2>4
<1>4. ASSUME NEW s \in Icons!Slot, NEW t \in Icons!Slot, s # t, m.of = <<s, t>>
      PROVE  /\ Icons!Told(icon, m) =
                  Icons!UpdateProperty(Icons!UpdateProperty(icon, s, m.values[s]), t, m.values[t])
             /\ g = [[model EXCEPT ![s] = m.values[s]] EXCEPT ![t] = m.values[t]]
             /\ about = {s, t}
      <2>1. m.of # <<>> /\ Len(m.of) = 2 /\ m.of[1] = s /\ m.of[2] = t /\ DOMAIN m.of = {1, 2}
            BY <1>4
      <2>2. about = {s, t}
            BY <2>1
      <2>3. Icons!Told(icon, m) = Icons!UpdateProperty(Icons!UpdateProperty(icon, s, m.values[s]),
              t, m.values[t])
            BY <2>1 DEF Icons!Told
      <2>4. g = [[model EXCEPT ![s] = m.values[s]] EXCEPT ![t] = m.values[t]]
            BY <1>2, <1>4, <2>2
      <2> QED BY <2>2, <2>3, <2>4
<1>5. CASE m.of = <<>>
      <2>1. about = {} /\ Icons!Told(icon, m) = icon
            BY <1>5 DEF Icons!Told
      <2>2. g = model
            BY <1>0, <2>1 DEF Hearings
      <2> QED BY <1>0, <2>1, <2>2
<1>6. CASE \E s \in Icons!Slot : m.of = <<s>>
      <2>1. PICK s \in Icons!Slot : m.of = <<s>>
            BY <1>6
      <2>2. Icons!Told(icon, m) = Icons!UpdateProperty(icon, s, m.values[s])
              /\ g = [model EXCEPT ![s] = m.values[s]] /\ about = {s}
            BY <1>3, <2>1
      <2>3. m.values[s] \in ValueOf(s)
            BY <1>1, <2>1
      <2>4. /\ g \in Hearings /\ IsIcon(Icons!Told(icon, m)) /\ Levelled(Icons!Told(icon, m), g)
            /\ IconIsRight(icon, model) => IconIsRight(Icons!Told(icon, m), g)
            /\ s = "on" /\ "on" \in found /\ kind.icon \in {"switch", "plug", "levels", "light"}
                => IconIsRight(Icons!Told(icon, m), g)
            BY <1>0, <2>2, <2>3, ToldOne
      <2> QED BY <2>2, <2>4 DEF Icons!Clickable
<1>7. CASE \E s, t \in Icons!Slot : s # t /\ m.of = <<s, t>>
      <2>1. PICK s \in Icons!Slot, t \in Icons!Slot : s # t /\ m.of = <<s, t>>
            BY <1>7
      <2> DEFINE one == Icons!UpdateProperty(icon, s, m.values[s])
                 then == [model EXCEPT ![s] = m.values[s]]
      <2>2. Icons!Told(icon, m) = Icons!UpdateProperty(one, t, m.values[t])
              /\ g = [then EXCEPT ![t] = m.values[t]] /\ about = {s, t}
            BY <1>4, <2>1
      <2>3. m.values[s] \in ValueOf(s) /\ m.values[t] \in ValueOf(t)
            BY <1>1, <2>1
      <2>4. /\ then \in Hearings /\ IsIcon(one) /\ Levelled(one, then)
            /\ IconIsRight(icon, model) => IconIsRight(one, then)
            /\ s = "on" /\ "on" \in found /\ kind.icon \in {"switch", "plug", "levels", "light"}
                => IconIsRight(one, then)
            BY <1>0, <2>3, ToldOne
      <2> HIDE DEF one, then
      <2>5. /\ g \in Hearings /\ IsIcon(Icons!Told(icon, m)) /\ Levelled(Icons!Told(icon, m), g)
            /\ IconIsRight(one, then) => IconIsRight(Icons!Told(icon, m), g)
            /\ t = "on" /\ "on" \in found /\ kind.icon \in {"switch", "plug", "levels", "light"}
                => IconIsRight(Icons!Told(icon, m), g)
            BY <1>0, <2>2, <2>3, <2>4, ToldOne
      <2> QED BY <2>2, <2>4, <2>5 DEF Icons!Clickable
<1>8. (m.of = <<>>) \/ (\E s \in Icons!Slot : m.of = <<s>>)
        \/ (\E s, t \in Icons!Slot : s # t /\ m.of = <<s, t>>)
      BY <1>0 DEF Orders, Icons!Slot
<1> QED BY <1>5, <1>6, <1>7, <1>8

\* A message is heard.
LEMMA IconHear ==
  ASSUME IconInv, Icons!Hear
  PROVE  IconInv'
<1> DEFINE m == Head(told)
           about == {m.of[i] : i \in DOMAIN m.of}
<1>0. /\ UNCHANGED <<kind, found, value, press>> /\ told' = Tail(told)
      /\ icon' = Icons!Told(icon, m)
      /\ model' = [s \in Icons!Slot |-> IF s \in about THEN m.values[s] ELSE model[s]]
      /\ click' = IF m.is = "status" THEN click ELSE NoWord
      BY DEF Icons!Hear
<1>1. refused' = CASE m.is = "failed" -> TRUE
                   [] "on" \in about -> FALSE
                   [] OTHER -> refused
      BY Zenon DEF Icons!Hear
<1>2. m \in IconMessage /\ told' \in Seq(IconMessage) /\ IconTyped /\ Levelled(icon, model)
      BY <1>0 DEF Icons!Hear, IconInv, IconTyped
<1> HIDE DEF m
<1>3. /\ model' \in Hearings /\ IsIcon(icon') /\ Levelled(icon', model')
      /\ IconIsRight(icon, model) => IconIsRight(icon', model')
      /\ "on" \in about /\ Icons!Clickable => IconIsRight(icon', model')
      /\ about = {} => icon' = icon
      BY <1>0, <1>2, ToldAll
<1>4. /\ m.is = "failed" => about = {}
      /\ m.is = "done" => "on" \in about
      /\ m.is \in {"status", "done", "failed"}
      BY <1>2 DEF IconMessage, IconWord
<1>5. /\ m.is = "failed" => refused' = TRUE
      /\ m.is # "failed" /\ "on" \in about => refused' = FALSE
      /\ m.is # "failed" /\ "on" \notin about => refused' = refused
      <2>1. m.is = "failed" => refused' = TRUE
            BY <1>1, <1>4, Zenon
      <2>2. m.is # "failed" /\ "on" \in about => refused' = FALSE
            BY <1>1, <1>4, Zenon
      <2>3. m.is # "failed" /\ "on" \notin about => refused' = refused
            BY <1>1, <1>4, Zenon
      <2> QED BY <2>1, <2>2, <2>3, Zenon
<1>6. Levelled(icon, model)'
      BY <1>0, <1>3 DEF Levelled, LevelOf
<1>7. IconIsRight(icon', model') => IconIsRight(icon, model)'
      BY <1>0 DEF IconIsRight, OnOf, LevelOf, Icons!Word, Icons!Name
<1>8. Icons!Clickable' = Icons!Clickable
      BY <1>0 DEF Icons!Clickable
<1>9. ClickAwaited'
      <2>1. IconIsRight(icon, model) \/ (Icons!Clickable /\ (click # NoWord \/ refused))
            BY DEF IconInv, ClickAwaited
      <2>2. CASE IconIsRight(icon, model)
            BY <1>3, <1>7, <2>2 DEF ClickAwaited
      <2>3. CASE Icons!Clickable /\ "on" \in about
            BY <1>3, <1>7, <2>3 DEF ClickAwaited
      <2>4. CASE Icons!Clickable /\ m.is = "failed"
            BY <1>5, <1>8, <2>4 DEF ClickAwaited
      <2>5. CASE Icons!Clickable /\ m.is # "failed" /\ "on" \notin about
                   /\ (click # NoWord \/ refused)
            <3>1. refused' = refused /\ click' = click
                  BY <1>0, <1>4, <1>5, <2>5
            <3> QED BY <1>8, <2>5, <3>1 DEF ClickAwaited
      <2> QED BY <2>1, <2>2, <2>3, <2>4, <2>5
<1>10. Pressed'
       <2>1. kind.icon = "button" /\ "on" \notin found => icon' = icon
             <3>1. SUFFICES ASSUME kind.icon = "button" /\ "on" \notin found
                            PROVE  icon' = icon
                   OBVIOUS
             <3>2. found = {}
                   BY <1>2, <3>1, Kinds DEF IconTyped, Sensors
             <3> QED BY <1>0, <3>2 DEF Icons!Told, Icons!UpdateProperty
       <2> QED BY <1>0, <2>1 DEF IconInv, Pressed
<1>11. IconTyped'
       <2>1. click' \in Icons!State \union {NoWord}
             BY <1>0, <1>2 DEF IconTyped
       <2>2. refused' \in BOOLEAN
             BY <1>2, <1>5 DEF IconTyped
       <2> QED BY <1>0, <1>2, <1>3, <2>1, <2>2 DEF IconTyped, IsIcon
<1> QED BY <1>6, <1>9, <1>10, <1>11 DEF IconInv

\* Every step keeps the invariant.
LEMMA IconStep ==
  ASSUME IconInv, [Icons!Next]_iconVars
  PROVE  IconInv'
<1>1. CASE UNCHANGED iconVars
      BY <1>1, IconUntold DEF iconVars, IconInv, IconTyped
<1>2. CASE Icons!Next
      BY <1>2, IconChange, IconFetch, IconClick, IconServe, IconHear, IconPress, IconPressTimer
         DEF Icons!Next
<1> QED BY <1>1, <1>2

\* The invariant of an icon holds of what is composed.
LEMMA IconAlways == OverviewSpec => []IconInv
<1>1. OverviewInit => IconInv
      BY IconStarts DEF OverviewInit
<1>2. IconInv /\ [OverviewNext]_overviewVars => IconInv'
      BY IconMoves, IconStep
<1> QED BY <1>1, <1>2, PTL DEF OverviewSpec

\* With nothing under way and the socket open an open page shows the value of the device, for any
\* property, any control and any values, whatever was lost, refused or chosen before, unless the
\* device took another value than the one it was given and has not sent it since; and an icon shows
\* what was heard last of its thing, for any kind of thing (ThingModel.onPropertyStatus,
\* onConnected, setProperty, Thing.updateStatus and the setters of the icons).
THEOREM DeviceIsShown == OverviewSpec => []DeviceShown
<1>1. ControlInv /\ IconInv => DeviceShown
      BY ControlShows, IconRight DEF DeviceShown
<1> QED BY <1>1, ControlAlways, IconAlways, PTL

-----------------------------------------------------------------------------
(* The record of a thing (ThingRecords).                                   *)
\* A step is a step of the record, or leaves it alone.
LEMMA RecordMoves == [OverviewNext]_overviewVars => [Records!Next]_recordVars
BY DEF OverviewNext, overviewVars, recordVars

\* The description of a thing, and the parts of a request.
ThingDescription == [title : Nat \ {0}, types : SUBSET Nat, sel : Nat, spot : Nat, icon : Nat,
    forms : Nat]
GivenPartOf == [what : {"sel", "icon", "spot", "title"}, to : Nat \ {0}]

\* A statement writes the description of an object.
StatementOK(w) ==
  /\ w.kind \in {"insert", "update", "delete"}
  /\ w.kind # "delete"
      => w.n \in DOMAIN objs /\ w.row \in ThingDescription /\ w.row.icon \in 0 .. made
RequestOK(p) == p \in [id : Nat, n : Nat, left : Seq(GivenPartOf)] /\ p.n \in DOMAIN objs
    /\ p.left # <<>>

\* The invariant in parts: what is of which type,
RecordsTyped ==
  /\ objs \in Seq(ThingDescription) /\ made \in Nat /\ wishes \in Nat /\ faults \in Nat
  /\ cut \in BOOLEAN /\ behind \in BOOLEAN
  /\ \A n \in DOMAIN objs : objs[n].icon \in 0 .. made
  /\ row \in ThingDescription \union {Records!Nothing} /\ row.icon \in 0 .. made
  /\ cur \in {0} \union DOMAIN objs /\ (row = Records!Nothing <=> cur = 0)
  /\ \A w \in writes : StatementOK(w)
  /\ \A p \in edits : RequestOK(p)

\* What writes the row alone writes all there is of the thing.
WritesAlone(w) ==
  /\ w.kind = "update" => cur # 0 /\ w.n = cur /\ Records!Plain(w.row) = Records!Plain(objs[cur])
  /\ w.kind = "insert" => cur = 0
RowWritten ==
  ~behind => \/ writes = {}
                 /\ Records!Plain(row) = IF cur = 0 THEN Records!Nothing
                     ELSE Records!Plain(objs[cur])
             \/ \E w \in writes : writes = {w} /\ WritesAlone(w)

\* The objects something may still change have icons of their own, which are there.
MayChange == ({cur} \ {0}) \union {p.n : p \in edits}
    \union {w.n : w \in {x \in writes : x.kind = "insert"}}
IconsApart ==
  ~cut => /\ \A n \in MayChange : objs[n].icon \in files \union {0}
          /\ \A n, m \in MayChange : n # m /\ objs[n].icon = objs[m].icon => objs[n].icon = 0

\* Clients were told, or a statement will tell them when it ends.
WillTell(w) == w.kind = "update" /\ w.n = cur
    /\ (w.tells = "always" \/ (w.tells = "ifOther" /\ w.old # objs[cur]))
ToldOrWill == faults = 0 /\ cur # 0 => seen = objs[cur] \/ \E w \in writes : WillTell(w)

\* The inductive invariant of a record.
RecordsInv == RecordsTyped /\ RowWritten /\ IconsApart /\ ToldOrWill

\* The invariant holds at first.
LEMMA RecordsStart == Records!Init => RecordsInv
<1> SUFFICES ASSUME Records!Init PROVE RecordsInv
    OBVIOUS
<1>1. /\ objs = <<>> /\ cur = 0 /\ row = Records!Nothing /\ made = 0 /\ wishes = 0 /\ writes = {}
      /\ edits = {} /\ behind = FALSE
      /\ cut = FALSE /\ faults = 0
      BY DEF Records!Init
<1>2. objs \in Seq(ThingDescription) /\ DOMAIN objs = {}
      BY <1>1
<1>3. RecordsTyped
      <2>1. row.icon = 0
            BY <1>1 DEF Records!Nothing
      <2>2. behind \in BOOLEAN /\ cut \in BOOLEAN
            BY <1>1
      <2> QED BY <1>1, <1>2, <2>1, <2>2 DEF RecordsTyped
<1>4. RowWritten
      BY <1>1 DEF RowWritten, Records!Plain, Records!Nothing
<1>5. MayChange = {}
      BY <1>1 DEF MayChange
<1>6. IconsApart /\ ToldOrWill
      BY <1>1, <1>5 DEF IconsApart, ToldOrWill
<1> QED BY <1>3, <1>4, <1>6 DEF RecordsInv

\* What the invariant says of the record.
LEMMA RecordsKept == RecordsInv => Records!RecordKept
<1> SUFFICES ASSUME RecordsInv PROVE Records!RecordKept
    OBVIOUS
<1>1. Records!RowIsWhole
      BY DEF RecordsInv, RowWritten, Records!RowIsWhole
<1>2. Records!IconIsThere
      BY DEF RecordsInv, IconsApart, MayChange, Records!IconIsThere
<1>3. Records!ClientsKnow
      BY DEF RecordsInv, ToldOrWill, Records!ClientsKnow
<1> QED BY <1>1, <1>2, <1>3 DEF Records!RecordKept

\* A description of an object is changed, and is being written.
LEMMA ObjectChanged ==
  ASSUME RecordsInv, NEW n \in MayChange, NEW d \in ThingDescription,
         objs' = [objs EXCEPT ![n] = d],
         wishes' \in Nat, cur' = cur, UNCHANGED <<row, seen, faults, cut>>,
         NEW w, StatementOK(w)', w.kind = "update", w.n = n, w.row = d,
         w.tells = "always" \/ (w.tells = "ifOther" /\ w.old = objs[n]),
         writes' = writes \union {w}, behind' = (writes # {} \/ n # cur),
         \/ d.icon = objs[n].icon /\ made' = made /\ files' = files
         \/ made' = made + 1 /\ d.icon = made'
             /\ files' = (files \ {objs[n].icon}) \union {made'},
         \A p \in edits' : RequestOK(p)' /\ \E q \in edits : q.n = p.n
  PROVE  RecordsInv'
<1>0. RecordsTyped
      BY DEF RecordsInv
<1>1. n \in DOMAIN objs /\ objs' \in Seq(ThingDescription) /\ DOMAIN objs' = DOMAIN objs
      /\ objs'[n] = d /\ \A m \in DOMAIN objs : m # n => objs'[m] = objs[m]
      <2>1. n \in DOMAIN objs
            BY <1>0 DEF MayChange, RecordsTyped, StatementOK, RequestOK
      <2> QED BY <1>0, <2>1 DEF RecordsTyped
<1>8. \A m \in DOMAIN objs :
        objs[m] \in ThingDescription /\ objs[m].icon \in Nat /\ objs[m].icon <= made
      <2> SUFFICES ASSUME NEW m \in DOMAIN objs PROVE objs[m] \in ThingDescription
          /\ objs[m].icon \in Nat /\ objs[m].icon <= made
          OBVIOUS
      <2>1. objs[m] \in ThingDescription
            BY <1>0 DEF RecordsTyped
      <2> QED BY <1>0, <2>1 DEF RecordsTyped, ThingDescription
<1>2. made \in Nat /\ made' \in Nat /\ made <= made' /\ d.icon \in Nat /\ objs[n].icon \in Nat
        /\ objs[n].icon <= made
      <2>1. d.icon \in Nat
            BY DEF ThingDescription
      <2>2. made \in Nat
            BY <1>0 DEF RecordsTyped
      <2>3. made' \in Nat /\ made <= made'
            BY <2>2
      <2> QED BY <1>1, <1>8, <2>1, <2>2, <2>3
<1>3. RecordsTyped'
      <2>1. \A m \in DOMAIN objs' : objs'[m].icon \in 0 .. made'
            <3> SUFFICES ASSUME NEW m \in DOMAIN objs PROVE objs'[m].icon \in 0 .. made'
                BY <1>1
            <3>1. objs[m].icon \in Nat /\ objs[m].icon <= made
                  BY <1>8
            <3> QED BY <1>1, <1>2, <3>1
      <2>2. row.icon \in 0 .. made'
            BY <1>0, <1>2 DEF RecordsTyped
      <2>3. \A x \in writes' : StatementOK(x)'
            <3> SUFFICES ASSUME NEW x \in writes PROVE StatementOK(x)'
                OBVIOUS
            <3>1. x.kind # "delete" => x.row.icon \in 0 .. made'
                  BY <1>0, <1>2 DEF RecordsTyped, StatementOK
            <3> QED BY <1>0, <1>1, <1>2, <3>1 DEF RecordsTyped, StatementOK
      <2> QED BY <1>0, <1>1, <1>2, <2>1, <2>2, <2>3 DEF RecordsTyped
<1>4. RowWritten'
      <2> SUFFICES ASSUME writes = {}, n = cur
                   PROVE  \E x \in writes' : writes' = {x} /\ WritesAlone(x)'
          BY DEF RowWritten
      <2>1. cur # 0
            BY <1>1, <1>0 DEF RecordsTyped
      <2>2. WritesAlone(w)'
            BY <1>1, <2>1 DEF WritesAlone, Records!Plain
      <2> QED BY <2>2
<1>5. MayChange' \subseteq MayChange
      BY DEF MayChange
<1>6. IconsApart'
      <2> SUFFICES ASSUME ~cut
                   PROVE  /\ \A m \in MayChange' : objs'[m].icon \in files' \union {0}
                          /\ \A m, k \in MayChange' : m # k /\ objs'[m].icon = objs'[k].icon
                              => objs'[m].icon = 0
          BY DEF IconsApart
      <2>1. /\ \A m \in MayChange : objs[m].icon \in files \union {0}
            /\ \A m, k \in MayChange : m # k /\ objs[m].icon = objs[k].icon => objs[m].icon = 0
            BY DEF RecordsInv, IconsApart
      <2>2. \A m \in MayChange : m \in DOMAIN objs /\ objs[m].icon \in Nat /\ objs[m].icon <= made
            <3>1. MayChange \subseteq DOMAIN objs
                  BY <1>0 DEF MayChange, RecordsTyped, StatementOK, RequestOK
            <3> QED BY <1>8, <3>1
      <2>3. CASE d.icon = objs[n].icon /\ made' = made /\ files' = files
            BY <1>1, <1>5, <2>1, <2>2, <2>3
      <2>4. CASE made' = made + 1 /\ d.icon = made'
                   /\ files' = (files \ {objs[n].icon}) \union {made'}
            <3>1. ASSUME NEW m \in MayChange', m # n
                  PROVE  objs'[m].icon = objs[m].icon /\ objs'[m].icon # made'
                             /\ (objs'[m].icon = objs[n].icon => objs'[m].icon = 0)
                  BY <1>1, <1>2, <1>5, <2>1, <2>2, <2>4, <3>1
            <3> QED BY <1>1, <1>2, <1>5, <2>1, <2>2, <2>4, <3>1
      <2> QED BY <2>3, <2>4
<1>7. ToldOrWill'
      <2> SUFFICES ASSUME faults = 0, cur # 0
                   PROVE  seen = objs'[cur] \/ \E x \in writes' : WillTell(x)'
          BY DEF ToldOrWill
      <2>1. CASE n # cur
            <3>1. objs'[cur] = objs[cur]
                  BY <1>0, <1>1, <2>1 DEF RecordsTyped
            <3> QED BY <3>1 DEF RecordsInv, ToldOrWill, WillTell
      <2>2. CASE n = cur /\ w.tells = "always"
            BY <2>2 DEF WillTell
      <2>3. CASE n = cur /\ w.tells = "ifOther" /\ objs'[cur] # objs[cur]
            BY <2>3 DEF WillTell
      <2>4. CASE objs'[cur] = objs[cur]
            BY <2>4 DEF RecordsInv, ToldOrWill, WillTell
      <2> QED BY <2>1, <2>2, <2>3, <2>4
<1> QED BY <1>3, <1>4, <1>6, <1>7 DEF RecordsInv

\* Objects that may still change are objects.
LEMMA LiveIn == ASSUME RecordsTyped PROVE MayChange \subseteq DOMAIN objs
BY DEF MayChange, RecordsTyped, StatementOK, RequestOK

\* A step that makes objects or icons leaves statements and requests typed.
LEMMA StillOK ==
  ASSUME RecordsTyped, DOMAIN objs \subseteq DOMAIN objs', made' \in Nat, made <= made'
  PROVE  (\A w \in writes : StatementOK(w)') /\ (\A p \in edits : RequestOK(p)')
<1>1. made \in Nat /\ 0 .. made \subseteq 0 .. made'
      BY DEF RecordsTyped
<1>2. ASSUME NEW w \in writes PROVE StatementOK(w)'
      BY <1>1 DEF RecordsTyped, StatementOK
<1>3. ASSUME NEW p \in edits PROVE RequestOK(p)'
      BY DEF RecordsTyped, RequestOK
<1> QED BY <1>2, <1>3

\* A step that only makes requests.
LEMMA AskedKeeps ==
  ASSUME RecordsInv, UNCHANGED <<objs, cur, row, files, made, writes, seen, behind, cut, faults>>,
         wishes' \in Nat,
         \A p \in edits' : RequestOK(p) /\ p.n \in MayChange
  PROVE  RecordsInv'
<1>1. MayChange' \subseteq MayChange
      BY DEF MayChange
<1>2. RecordsTyped'
      BY StillOK DEF RecordsInv, RecordsTyped, RequestOK
<1>3. RowWritten'
      BY DEF RecordsInv, RowWritten, WritesAlone, Records!Plain
<1>4. IconsApart'
      BY <1>1 DEF RecordsInv, IconsApart
<1>5. ToldOrWill'
      BY DEF RecordsInv, ToldOrWill, WillTell
<1> QED BY <1>2, <1>3, <1>4, <1>5 DEF RecordsInv

\* What is given of the parts of a request.
LEMMA GivenPart ==
  ASSUME NEW k \in {"sel", "icon", "spot", "title"}, NEW t \in Nat
  PROVE  Records!Given(k, t) \in Seq(GivenPartOf)
<1>1. CASE t = 0
      BY <1>1 DEF Records!Given
<1>2. CASE t # 0
      <2>1. [what |-> k, to |-> t] \in GivenPartOf
            BY <1>2 DEF GivenPartOf
      <2> QED BY <1>2, <2>1 DEF Records!Given
<1> QED BY <1>1, <1>2

\* A thing is changed by a client.
LEMMA EditKeeps ==
  ASSUME RecordsInv, NEW sel \in {0, 2}, NEW spot \in {0, 2}, NEW img \in {0, 1},
         Records!Put(sel, img, spot, 2)
  PROVE  RecordsInv'
<1> DEFINE parts == Records!Given("sel", sel) \o Records!Given("icon",
    img) \o Records!Given("spot", spot) \o Records!Given("title", 2)
           p == [id |-> wishes', n |-> cur, left |-> parts]
<1>1. /\ UNCHANGED <<objs, cur, row, files, made, writes, seen, behind, cut, faults>>
      /\ cur # 0 /\ edits' = edits \union {p} /\ wishes' = wishes + 1 /\ wishes' \in Nat
      BY DEF Records!Put, Records!History, Records!Counts, RecordsInv, RecordsTyped
<1>2. /\ Records!Given("sel", sel) \in Seq(GivenPartOf)
      /\ Records!Given("icon", img) \in Seq(GivenPartOf)
      /\ Records!Given("spot", spot) \in Seq(GivenPartOf)
      /\ Records!Given("title", 2) \in Seq(GivenPartOf)
      BY GivenPart
<1>3. Records!Given("title", 2) # <<>>
      BY DEF Records!Given
<1>4. parts \in Seq(GivenPartOf) /\ parts # <<>>
      <2> DEFINE a == Records!Given("sel", sel)
                 b == Records!Given("icon", img)
                 c == Records!Given("spot", spot)
                 d == Records!Given("title", 2)
      <2>1. a \in Seq(GivenPartOf) /\ b \in Seq(GivenPartOf) /\ c \in Seq(GivenPartOf)
              /\ d \in Seq(GivenPartOf) /\ d # <<>>
            BY <1>2, <1>3
      <2> HIDE DEF a, b, c, d
      <2>2. a \o b \in Seq(GivenPartOf)
            BY <2>1
      <2>3. (a \o b) \o c \in Seq(GivenPartOf)
            BY <2>1, <2>2
      <2>4. ((a \o b) \o c) \o d \in Seq(GivenPartOf) /\ ((a \o b) \o c) \o d # <<>>
            BY <2>1, <2>3
      <2> QED BY <2>4 DEF a, b, c, d
<1> HIDE DEF parts
<1>5. RequestOK(p) /\ p.n \in MayChange
      BY <1>1, <1>4 DEF RequestOK, RecordsInv, RecordsTyped, MayChange
<1>6. \A q \in edits : RequestOK(q) /\ q.n \in MayChange
      BY DEF RecordsInv, RecordsTyped, MayChange
<1> QED BY <1>1, <1>5, <1>6, AskedKeeps

\* A thing is placed on the floorplan.
LEMMA PatchKeeps ==
  ASSUME RecordsInv, Records!Patch(1)
  PROVE  RecordsInv'
<1> DEFINE parts == <<[what |-> "spot", to |-> 1]>>
           p == [id |-> wishes', n |-> cur, left |-> parts]
<1>1. /\ UNCHANGED <<objs, cur, row, files, made, writes, seen, behind, cut, faults>>
      /\ cur # 0 /\ edits' = edits \union {p} /\ wishes' = wishes + 1 /\ wishes' \in Nat
      BY DEF Records!Patch, Records!History, Records!Counts, RecordsInv, RecordsTyped
<1>2. [what |-> "spot", to |-> 1] \in GivenPartOf
      BY DEF GivenPartOf
<1>3. parts \in Seq(GivenPartOf) /\ parts # <<>>
      BY <1>2
<1> HIDE DEF parts
<1>5. RequestOK(p) /\ p.n \in MayChange
      BY <1>1, <1>3 DEF RequestOK, RecordsInv, RecordsTyped, MayChange
<1>6. \A q \in edits : RequestOK(q) /\ q.n \in MayChange
      BY DEF RecordsInv, RecordsTyped, MayChange
<1> QED BY <1>1, <1>5, <1>6, AskedKeeps

\* What is left of a request.
LEMMA LeftPut ==
  ASSUME NEW p \in [id : Nat, n : Nat, left : Seq(GivenPartOf)], NEW t \in Seq(GivenPartOf)
  PROVE  /\ [p EXCEPT !.left = t].n = p.n /\ [p EXCEPT !.left = t].left = t
         /\ [p EXCEPT !.left = t] \in [id : Nat, n : Nat, left : Seq(GivenPartOf)]
OBVIOUS

\* What is left after the first part.
LEMMA TailLeft ==
  ASSUME NEW S, NEW s \in Seq(S), s # <<>>, Len(s) # 1
  PROVE  Tail(s) \in Seq(S) /\ Tail(s) # <<>>
<1>1. Len(s) \in Nat /\ Len(s) # 0
      OBVIOUS
<1>2. Len(Tail(s)) = Len(s) - 1
      BY <1>1
<1>3. Tail(s) \in Seq(S)
      OBVIOUS
<1>4. Len(Tail(s)) # Len(<<>>)
      BY <1>1, <1>2
<1>5. Tail(s) # <<>>
      BY <1>4, Zenon
<1> QED BY <1>3, <1>5

\* What is left of the requests is what there was.
LEMMA RestOK ==
  ASSUME RecordsTyped, NEW p \in edits, NEW q \in Records!Rest(p)
  PROVE  RequestOK(q) /\ \E r \in edits : r.n = q.n
<1>1. CASE q \in edits
      BY <1>1 DEF RecordsTyped
<1>2. CASE q \notin edits
      <2>0. Len(p.left) # 1
            BY <1>2 DEF Records!Rest
      <2>1. q = [p EXCEPT !.left = Tail(p.left)]
            BY <1>2, Zenon DEF Records!Rest
      <2>2. p.left \in Seq(GivenPartOf) /\ p.left # <<>> /\ p.n \in DOMAIN objs
              /\ p \in [id : Nat, n : Nat, left : Seq(GivenPartOf)]
            BY DEF RecordsTyped, RequestOK
      <2>3. Tail(p.left) \in Seq(GivenPartOf) /\ Tail(p.left) # <<>>
            BY <2>0, <2>2, TailLeft
      <2>4. q.n = p.n /\ q.left = Tail(p.left)
              /\ q \in [id : Nat, n : Nat, left : Seq(GivenPartOf)]
            <3> DEFINE e == [p EXCEPT !.left = Tail(p.left)]
            <3>1. e.n = p.n /\ e.left = Tail(p.left)
                    /\ e \in [id : Nat, n : Nat, left : Seq(GivenPartOf)]
                  BY <2>2, <2>3, LeftPut
            <3> HIDE DEF e
            <3>2. q = e
                  BY <2>1, Zenon DEF e
            <3> QED BY <3>1, <3>2
      <2> QED BY <2>2, <2>3, <2>4 DEF RequestOK
<1> QED BY <1>1, <1>2

\* What is changed of a description.
LEMMA DescriptionPut ==
  ASSUME NEW o \in ThingDescription, NEW t \in Nat
  PROVE  /\ Records!Selected(o, t) \in ThingDescription /\ Records!Selected(o, t).icon = o.icon
         /\ Records!Placed(o, t) \in ThingDescription /\ Records!Placed(o, t).icon = o.icon
         /\ t # 0
             => Records!Titled(o, t) \in ThingDescription /\ Records!Titled(o, t).icon = o.icon
         /\ [o EXCEPT !.icon = t] \in ThingDescription /\ [o EXCEPT !.icon = t].icon = t
         /\ [o EXCEPT !.forms = t] \in ThingDescription /\ [o EXCEPT !.forms = t].icon = o.icon
         /\ Records!Plain([o EXCEPT !.forms = t]) = Records!Plain(o)
         /\ [o EXCEPT !.forms = t].title # 0
BY DEF ThingDescription, Records!Selected, Records!Placed, Records!Titled, Records!Plain

\* What a device describes anew.
LEMMA DescribedPut ==
  ASSUME NEW o \in ThingDescription, NEW types \in Records!Types
  PROVE  Records!Described(o, types) \in ThingDescription
             /\ Records!Described(o, types).icon = o.icon
<1>1. types \in SUBSET Nat
      BY DEF Records!Types
<1> QED BY <1>1 DEF ThingDescription, Records!Described

\* An object has a description, with an icon that was made.
LEMMA ObjectIs ==
  ASSUME RecordsTyped, NEW n \in DOMAIN objs
  PROVE  objs[n] \in ThingDescription /\ objs[n].icon \in 0 .. made /\ made \in Nat
BY DEF RecordsTyped

\* What is counted.
LEMMA RecordNumbers == ASSUME RecordsTyped PROVE wishes \in Nat /\ made \in Nat /\ faults \in Nat
BY DEF RecordsTyped

\* One object is changed.
LEMMA ObjectSet ==
  ASSUME RecordsTyped, NEW n \in DOMAIN objs, NEW d \in ThingDescription,
         objs' = [objs EXCEPT ![n] = d]
  PROVE  objs' \in Seq(ThingDescription) /\ DOMAIN objs' = DOMAIN objs /\ objs'[n] = d
<1>1. objs \in Seq(ThingDescription)
      BY DEF RecordsTyped
<1> QED BY <1>1

\* A statement that is begun.
LEMMA BegunOK ==
  ASSUME NEW w, w.kind \in {"insert", "update"}, w.n \in DOMAIN objs', w.row \in ThingDescription,
         w.row.icon \in 0 .. made'
  PROVE  StatementOK(w)'
BY DEF StatementOK

\* What a statement says.
LEMMA StatementIs ==
  ASSUME NEW what, NEW n, NEW d, NEW tells, NEW by
  PROVE  /\ Records!Statement(what, n, d, tells, by).kind = what
         /\ Records!Statement(what, n, d, tells, by).n = n
         /\ Records!Statement(what, n, d, tells, by).row = d
         /\ Records!Statement(what, n, d, tells, by).tells = tells
BY DEF Records!Statement

\* What is left of the requests, when objects stay.
LEMMA LeftOK ==
  ASSUME RecordsTyped, NEW p \in edits, edits' = Records!Rest(p), DOMAIN objs' = DOMAIN objs
  PROVE  \A q \in edits' : RequestOK(q)' /\ \E r \in edits : r.n = q.n
<1> SUFFICES ASSUME NEW q \in edits' PROVE RequestOK(q)' /\ \E r \in edits : r.n = q.n
    OBVIOUS
<1>1. RequestOK(q) /\ \E r \in edits : r.n = q.n
      BY RestOK
<1> QED BY <1>1 DEF RequestOK

\* A part of a request is set.
LEMMA SetPartKeeps ==
  ASSUME RecordsInv, NEW p \in edits, Records!Set(p)
  PROVE  RecordsInv'
<1> DEFINE s == Head(p.left)
           o == objs[p.n]
           e == CASE s.what = "sel"   -> Records!Selected(o, s.to)
                  [] s.what = "spot"  -> Records!Placed(o, s.to)
                  [] s.what = "title" -> Records!Titled(o, s.to)
           W == Records!Statement("update", p.n, objs'[p.n], "always", p.id)
<1>0. RecordsTyped
      BY DEF RecordsInv
<1> PICK w : w = W
    OBVIOUS
<1>1. /\ s.what # "icon" /\ cur' = cur /\ edits' = Records!Rest(p)
      /\ UNCHANGED <<row, files, made, seen, wishes, faults, cut>>
      BY DEF Records!Set, Records!History
<1>2. objs' = [objs EXCEPT ![p.n] = e]
      BY Zenon DEF Records!Set
<1>3. writes' = writes \union {w} /\ behind' = (writes # {} \/ p.n # cur)
      <2>1. Records!Begin(w, writes)
            BY Zenon DEF Records!Set, Records!Saved
      <2>2. w.kind = "update" /\ w.n = p.n
            BY StatementIs
      <2> HIDE DEF W
      <2> QED BY <1>1, <2>1, <2>2 DEF Records!Begin
<1>4. p.n \in DOMAIN objs /\ p.left \in Seq(GivenPartOf) /\ p.left # <<>>
      BY <1>0 DEF RecordsTyped, RequestOK
<1>5. s \in GivenPartOf
      BY <1>4
<1>6. o \in ThingDescription /\ o.icon \in 0 .. made /\ made \in Nat
      BY <1>0, <1>4, ObjectIs
<1>7. e \in ThingDescription /\ e.icon = o.icon
      <2>1. s.what \in {"sel", "spot", "title"} /\ s.to \in Nat /\ s.to # 0
            BY <1>1, <1>5 DEF GivenPartOf
      <2> HIDE DEF s, o
      <2>2. s.what = "sel" => e = Records!Selected(o, s.to)
            BY Zenon
      <2>3. s.what = "spot" => e = Records!Placed(o, s.to)
            BY Zenon
      <2>4. s.what = "title" => e = Records!Titled(o, s.to)
            BY Zenon
      <2> HIDE DEF e
      <2>5. /\ Records!Selected(o, s.to) \in ThingDescription
            /\ Records!Selected(o, s.to).icon = o.icon
            /\ Records!Placed(o, s.to) \in ThingDescription
            /\ Records!Placed(o, s.to).icon = o.icon
            /\ Records!Titled(o, s.to) \in ThingDescription
            /\ Records!Titled(o, s.to).icon = o.icon
            BY <1>6, <2>1, DescriptionPut
      <2> QED BY <2>1, <2>2, <2>3, <2>4, <2>5, Zenon
<1> HIDE DEF e
<1>8. DOMAIN objs' = DOMAIN objs /\ objs'[p.n] = e
      BY <1>0, <1>2, <1>4, <1>7, ObjectSet
<1>9. w.kind = "update" /\ w.n = p.n /\ w.row = e /\ w.tells = "always"
      BY <1>8, StatementIs
<1> HIDE DEF W, s
<1>10. made' = made
       BY <1>1
<1>11. w.row \in ThingDescription /\ w.row.icon \in 0 .. made'
       BY <1>6, <1>7, <1>9, <1>10
<1>12. StatementOK(w)'
       BY <1>4, <1>8, <1>9, <1>11, BegunOK
<1>13. \A q \in edits' : RequestOK(q)' /\ \E r \in edits : r.n = q.n
       BY <1>0, <1>1, <1>8, LeftOK
<1>14. wishes' \in Nat
       BY <1>0, <1>1, RecordNumbers
<1>15. p.n \in MayChange
       BY DEF MayChange
<1>16. e.icon = objs[p.n].icon /\ e \in ThingDescription
       BY <1>7 DEF o
<1> HIDE DEF o
<1> QED BY <1>1, <1>2, <1>3, <1>9, <1>12, <1>13, <1>14, <1>15, <1>16, ObjectChanged

\* An icon is made anew.
LEMMA SetIconKeeps ==
  ASSUME RecordsInv, NEW p \in edits, Records!SetIcon(p)
  PROVE  RecordsInv'
<1> DEFINE o == objs[p.n]
           e == [o EXCEPT !.icon = made']
           W == Records!Statement("update", p.n, objs'[p.n], "always", p.id)
<1>0. RecordsTyped
      BY DEF RecordsInv
<1> PICK w : w = W
    OBVIOUS
<1>1. /\ cur' = cur /\ edits' = Records!Rest(p) /\ made' = made + 1
      /\ files' = (files \ {objs[p.n].icon}) \union {made'}
      /\ UNCHANGED <<row, seen, wishes, faults, cut>>
      BY DEF Records!SetIcon, Records!History
<1>2. objs' = [objs EXCEPT ![p.n] = e]
      BY Zenon DEF Records!SetIcon
<1>3. writes' = writes \union {w} /\ behind' = (writes # {} \/ p.n # cur)
      <2>1. Records!Begin(w, writes)
            BY Zenon DEF Records!SetIcon, Records!Saved
      <2>2. w.kind = "update" /\ w.n = p.n
            BY StatementIs
      <2> HIDE DEF W
      <2> QED BY <1>1, <2>1, <2>2 DEF Records!Begin
<1>4. p.n \in DOMAIN objs
      BY <1>0 DEF RecordsTyped, RequestOK
<1>6. o \in ThingDescription /\ o.icon \in 0 .. made /\ made \in Nat /\ made' \in Nat
      <2>1. o \in ThingDescription /\ o.icon \in 0 .. made /\ made \in Nat
            BY <1>0, <1>4, ObjectIs
      <2> QED BY <1>1, <2>1
<1>7. e \in ThingDescription /\ e.icon = made'
      <2> HIDE DEF o
      <2> QED BY <1>6, DescriptionPut
<1> HIDE DEF e
<1>8. DOMAIN objs' = DOMAIN objs /\ objs'[p.n] = e
      BY <1>0, <1>2, <1>4, <1>7, ObjectSet
<1>9. w.kind = "update" /\ w.n = p.n /\ w.row = e /\ w.tells = "always"
      BY <1>8, StatementIs
<1> HIDE DEF W, o
<1>11. w.row \in ThingDescription /\ w.row.icon \in 0 .. made'
       BY <1>6, <1>7, <1>9
<1>12. StatementOK(w)'
       BY <1>4, <1>8, <1>9, <1>11, BegunOK
<1>13. \A q \in edits' : RequestOK(q)' /\ \E r \in edits : r.n = q.n
       BY <1>0, <1>1, <1>8, LeftOK
<1>14. wishes' \in Nat
       BY <1>0, <1>1, RecordNumbers
<1>15. p.n \in MayChange
       BY DEF MayChange
<1> QED BY <1>1, <1>2, <1>3, <1>7, <1>9, <1>12, <1>13, <1>14, <1>15, ObjectChanged

\* A device describes itself anew.
LEMMA DescribeKeeps ==
  ASSUME RecordsInv, NEW types \in Records!Types, Records!Describe(types)
  PROVE  RecordsInv'
<1> DEFINE o == objs[cur]
           e == Records!Described(o, types)
           W == [Records!Statement("update", cur, objs'[cur], "ifOther", 0) EXCEPT !.old = o]
<1>0. RecordsTyped
      BY DEF RecordsInv
<1> PICK w : w = W
    OBVIOUS
<1>1. /\ cur # 0 /\ cur' = cur /\ edits' = edits /\ made' = made /\ files' = files
      /\ wishes' = wishes + 1
      /\ UNCHANGED <<row, seen, faults, cut>>
      BY DEF Records!Describe, Records!History, Records!Counts
<1>2. objs' = [objs EXCEPT ![cur] = e]
      BY Zenon DEF Records!Describe
<1>4. cur \in DOMAIN objs /\ cur \in MayChange
      BY <1>0, <1>1 DEF RecordsTyped, MayChange
<1>6. o \in ThingDescription /\ o.icon \in 0 .. made /\ made \in Nat
      BY <1>0, <1>1, <1>4, ObjectIs
<1>7. e \in ThingDescription /\ e.icon = o.icon
      <2> HIDE DEF o
      <2> QED BY <1>6, DescribedPut
<1> HIDE DEF e
<1>8. DOMAIN objs' = DOMAIN objs /\ objs'[cur] = e
      BY <1>0, <1>2, <1>4, <1>7, ObjectSet
<1>9. w.kind = "update" /\ w.n = cur /\ w.row = e /\ w.tells = "ifOther" /\ w.old = o
      BY <1>8 DEF Records!Statement
<1>10. Records!Begin(w, writes)
       BY Zenon DEF Records!Describe, Records!Saved
<1> HIDE DEF W
<1>3. writes' = writes \union {w} /\ behind' = (writes # {} \/ cur # cur)
      BY <1>1, <1>9, <1>10 DEF Records!Begin
<1>11. w.row \in ThingDescription /\ w.row.icon \in 0 .. made'
       <2> HIDE DEF o
       <2> QED BY <1>1, <1>6, <1>7, <1>9
<1>12. StatementOK(w)'
       BY <1>4, <1>8, <1>9, <1>11, BegunOK
<1>13. \A q \in edits' : RequestOK(q)' /\ \E r \in edits : r.n = q.n
       BY <1>0, <1>1, <1>8 DEF RequestOK, RecordsTyped
<1>14. wishes' \in Nat
       BY <1>0, <1>1, RecordNumbers
<1>16. e.icon = objs[cur].icon /\ e \in ThingDescription /\ w.old = objs[cur]
       BY <1>7, <1>9 DEF o
<1> HIDE DEF o
<1> QED BY <1>1, <1>2, <1>3, <1>4, <1>9, <1>12, <1>13, <1>14, <1>16, ObjectChanged

\* No description is no description.
LEMMA NothingIs == Records!Nothing \notin ThingDescription
    /\ Records!Plain(Records!Nothing) = Records!Nothing
BY DEF Records!Nothing, ThingDescription, Records!Plain

\* Statements are begun or end, and the rest is what it was.
LEMMA IconsStay ==
  ASSUME RecordsInv, UNCHANGED <<objs, files, cut>>, MayChange' \subseteq MayChange
  PROVE  IconsApart'
BY DEF RecordsInv, IconsApart

\* A thing is added.
LEMMA PostKeeps ==
  ASSUME RecordsInv, NEW types \in Records!Types, Records!Post(types)
  PROVE  RecordsInv'
<1>0. RecordsTyped
      BY DEF RecordsInv
<1>1. PICK img \in {0, made + 1} :
        /\ made' = IF img = 0 THEN made ELSE img
        /\ files' = files \union ({img} \ {0})
        /\ objs' = Append(objs, Records!New(types, img))
        /\ cur' = cur
        /\ Records!Begin(Records!Statement("insert", Len(objs'), objs'[Len(objs')], "nothing",
            wishes'), writes)
      BY Zenon DEF Records!Post
<1>2. cur = 0 /\ cur' = 0 /\ wishes' \in Nat /\ UNCHANGED <<row, edits, seen, faults, cut>>
      BY <1>0, <1>1, RecordNumbers DEF Records!Post, Records!Counts, Records!History
<1> DEFINE W == Records!Statement("insert", Len(objs'), objs'[Len(objs')], "nothing", wishes')
           k == Len(objs) + 1
           d == Records!New(types, img)
<1> PICK w : w = W
    OBVIOUS
<1>3. objs \in Seq(ThingDescription) /\ made \in Nat /\ img \in Nat
      BY <1>0, <1>1 DEF RecordsTyped
<1>4. d \in ThingDescription /\ d.icon = img
      BY <1>3 DEF Records!New, ThingDescription, Records!Types
<1>5. /\ made' \in Nat /\ made <= made' /\ img <= made' /\ (img = 0 \/ img > made)
      BY <1>1, <1>3
<1> HIDE DEF d
<1>6. /\ objs' \in Seq(ThingDescription) /\ DOMAIN objs' = DOMAIN objs \union {k}
      /\ k \notin DOMAIN objs
      /\ Len(objs') = k /\ objs'[k] = d /\ k # 0
      /\ \A n \in DOMAIN objs : objs'[n] = objs[n]
      <2>1. objs' = Append(objs, d)
            BY <1>1 DEF d
      <2> QED BY <1>3, <1>4, <2>1
<1> HIDE DEF k
<1>7. w.kind = "insert" /\ w.n = k /\ w.row = d
      BY <1>6, StatementIs
<1>8. writes' = writes \union {w} /\ behind' = (writes # {})
      <2>1. Records!Begin(w, writes)
            BY <1>1, Zenon
      <2> HIDE DEF W
      <2> QED BY <1>7, <2>1 DEF Records!Begin
<1> HIDE DEF W
<1>9. StatementOK(w)'
      <2>1. w.row.icon \in 0 .. made'
            BY <1>3, <1>4, <1>5, <1>7
      <2> QED BY <1>4, <1>6, <1>7, <2>1, BegunOK
<1>10. (\A x \in writes : StatementOK(x)') /\ (\A p \in edits : RequestOK(p)')
       BY <1>0, <1>5, <1>6, StillOK
<1>11. RecordsTyped'
       <2>1. \A n \in DOMAIN objs' : objs'[n].icon \in 0 .. made'
             <3> SUFFICES ASSUME NEW n \in DOMAIN objs' PROVE objs'[n].icon \in 0 .. made'
                 OBVIOUS
             <3>1. CASE n = k
                   BY <1>3, <1>4, <1>5, <1>6, <3>1
             <3>2. CASE n # k
                   BY <1>0, <1>3, <1>5, <1>6, <3>2 DEF RecordsTyped
             <3> QED BY <3>1, <3>2
       <2>2. row'.icon \in 0 .. made'
             BY <1>0, <1>2, <1>3, <1>5 DEF RecordsTyped
       <2>3. /\ row' \in ThingDescription \union {Records!Nothing} /\ faults' \in Nat
             /\ cut' \in BOOLEAN
             /\ cur' \in {0} \union DOMAIN objs' /\ (row' = Records!Nothing <=> cur' = 0)
             BY <1>0, <1>2 DEF RecordsTyped
       <2>4. \A x \in writes' : StatementOK(x)'
             BY <1>8, <1>9, <1>10
       <2>5. \A p \in edits' : RequestOK(p)'
             BY <1>2, <1>10
       <2>6. behind' \in BOOLEAN
             BY <1>8
       <2> QED BY <1>2, <1>5, <1>6, <2>1, <2>2, <2>3, <2>4, <2>5, <2>6 DEF RecordsTyped
<1>12. RowWritten'
       BY <1>2, <1>7, <1>8 DEF RowWritten, WritesAlone
<1>13. IconsApart'
       <2> SUFFICES ASSUME ~cut
                    PROVE  /\ \A n \in MayChange' : objs'[n].icon \in files' \union {0}
                           /\ \A n, m \in MayChange' : n # m /\ objs'[n].icon = objs'[m].icon
                               => objs'[n].icon = 0
           BY <1>2 DEF IconsApart
       <2>1. /\ \A m \in MayChange : objs[m].icon \in files \union {0}
             /\ \A m, n \in MayChange : m # n /\ objs[m].icon = objs[n].icon => objs[m].icon = 0
             BY DEF RecordsInv, IconsApart
       <2>2. MayChange' \subseteq MayChange \union {k}
             BY <1>2, <1>7, <1>8 DEF MayChange
       <2>3. \A m \in MayChange :
               m \in DOMAIN objs /\ objs'[m] = objs[m] /\ objs[m].icon \in 0 .. made
             BY <1>0, <1>6, LiveIn, ObjectIs
       <2>4. objs'[k].icon = img /\ img \in files' \union {0} /\ files \subseteq files'
             BY <1>1, <1>4, <1>6
       <2>5. \A m \in MayChange : objs'[m].icon = img => img = 0
             BY <1>3, <1>5, <2>3
       <2> QED BY <2>1, <2>2, <2>3, <2>4, <2>5
<1>14. ToldOrWill'
       BY <1>2 DEF ToldOrWill
<1> QED BY <1>11, <1>12, <1>13, <1>14 DEF RecordsInv

\* A thing is removed.
LEMMA DeleteKeeps ==
  ASSUME RecordsInv, Records!Delete
  PROVE  RecordsInv'
<1>0. RecordsTyped
      BY DEF RecordsInv
<1>1. cur' = cur /\ wishes' \in Nat
        /\ UNCHANGED <<objs, row, files, made, edits, seen, faults, cut>>
      BY <1>0, RecordNumbers DEF Records!Delete, Records!Counts, Records!History
<1> DEFINE W == Records!Statement("delete", 0, Records!Nothing, "nothing", wishes')
<1> PICK w : w = W
    OBVIOUS
<1>2. w.kind = "delete"
      BY StatementIs
<1>3. Records!Begin(w, writes)
      BY Zenon DEF Records!Delete
<1> HIDE DEF W
<1>4. writes' = writes \union {w} /\ behind' = (writes # {})
      BY <1>2, <1>3 DEF Records!Begin
<1>5. RecordsTyped'
      <2>1. made \in Nat /\ made <= made
            BY <1>0, RecordNumbers
      <2>2. (\A x \in writes : StatementOK(x)') /\ (\A p \in edits : RequestOK(p)')
            BY <1>0, <1>1, <2>1, StillOK
      <2>3. StatementOK(w)'
            BY <1>2 DEF StatementOK
      <2>4. behind' \in BOOLEAN
            BY <1>4
      <2> QED BY <1>0, <1>1, <1>4, <2>2, <2>3, <2>4 DEF RecordsTyped
<1>6. RowWritten'
      BY <1>2, <1>4 DEF RowWritten, WritesAlone
<1>7. MayChange' \subseteq MayChange
      BY <1>1, <1>2, <1>4 DEF MayChange
<1>8. IconsApart'
      BY <1>1, <1>7, IconsStay
<1>9. ToldOrWill'
      BY <1>1, <1>4 DEF RecordsInv, ToldOrWill, WillTell
<1> QED BY <1>5, <1>6, <1>8, <1>9 DEF RecordsInv

\* A row is written.
LEMMA UpdatedKeeps ==
  ASSUME RecordsInv, NEW w \in writes, Records!Updated(w)
  PROVE  RecordsInv'
<1>0. RecordsTyped
      BY DEF RecordsInv
<1>1. /\ w.kind = "update" /\ row' = (IF row = Records!Nothing THEN Records!Nothing ELSE w.row)
          /\ writes' = writes \ {w}
      /\ UNCHANGED <<objs, cur, files, made, edits, behind, wishes, faults, cut>>
      /\ Records!Told(w.tells = "always" \/ (w.tells = "ifOther" /\ objs[w.n] # w.old))
      BY DEF Records!Updated, Records!History
<1>2. w.row \in ThingDescription /\ w.row.icon \in 0 .. made
      BY <1>0, <1>1 DEF RecordsTyped, StatementOK
<1>3. RecordsTyped'
      <2>1. row' \in ThingDescription \union {Records!Nothing} /\ row'.icon \in 0 .. made
              /\ (row' = Records!Nothing <=> cur = 0)
            BY <1>0, <1>1, <1>2, NothingIs DEF RecordsTyped
      <2>2. (\A x \in writes : StatementOK(x)') /\ (\A p \in edits : RequestOK(p)')
            BY <1>0, <1>1, StillOK, RecordNumbers
      <2> QED BY <1>0, <1>1, <2>1, <2>2 DEF RecordsTyped
<1>4. RowWritten'
      <2> SUFFICES ASSUME ~behind
                   PROVE  writes' = {}
                              /\ Records!Plain(row') = IF cur = 0 THEN Records!Nothing
                                  ELSE Records!Plain(objs[cur])
          BY <1>1 DEF RowWritten
      <2>1. writes = {w} /\ WritesAlone(w)
            BY DEF RecordsInv, RowWritten
      <2>2. cur # 0 /\ Records!Plain(w.row) = Records!Plain(objs[cur])
            BY <1>1, <2>1 DEF WritesAlone
      <2>3. row # Records!Nothing
            BY <1>0, <2>2 DEF RecordsTyped
      <2>4. row' = w.row
            BY <1>1, <2>3
      <2> QED BY <1>1, <2>1, <2>2, <2>4
<1>5. MayChange' \subseteq MayChange
      BY <1>1 DEF MayChange
<1>6. IconsApart'
      BY <1>1, <1>5, IconsStay
<1>7. ToldOrWill'
      <2> SUFFICES ASSUME faults = 0, cur # 0
                   PROVE  seen' = objs[cur] \/ \E x \in writes' : WillTell(x)'
          BY <1>1 DEF ToldOrWill
      <2>1. seen = objs[cur] \/ \E x \in writes : WillTell(x)
            BY DEF RecordsInv, ToldOrWill
      <2>2. seen' = objs[cur]
              \/ (seen' = seen
                  /\ ~(w.tells = "always" \/ (w.tells = "ifOther" /\ objs[w.n] # w.old)))
            BY <1>1 DEF Records!Told
      <2>3. CASE seen = objs[cur]
            BY <2>2, <2>3
      <2>4. ASSUME NEW x \in writes, WillTell(x)
            PROVE  seen' = objs[cur] \/ \E y \in writes' : WillTell(y)'
            <3>1. CASE x = w
                  BY <2>2, <2>4, <3>1 DEF WillTell
            <3>2. CASE x # w
                  BY <1>1, <2>4, <3>2 DEF WillTell
            <3> QED BY <3>1, <3>2
      <2> QED BY <2>1, <2>3, <2>4
<1> QED BY <1>3, <1>4, <1>6, <1>7 DEF RecordsInv

\* A row is new.
LEMMA InsertedKeeps ==
  ASSUME RecordsInv, NEW w \in writes, Records!Inserted(w)
  PROVE  RecordsInv'
<1>0. RecordsTyped
      BY DEF RecordsInv
<1>1. w.kind = "insert" /\ UNCHANGED <<objs, files, made, edits, seen, wishes, faults, cut>>
      BY DEF Records!Inserted, Records!History
<1>2. w.n \in DOMAIN objs /\ w.row \in ThingDescription /\ w.row.icon \in 0 .. made /\ w.n # 0
      BY <1>0, <1>1 DEF RecordsTyped, StatementOK
<1>3. (\A x \in writes : StatementOK(x)') /\ (\A p \in edits : RequestOK(p)')
      BY <1>0, <1>1, StillOK, RecordNumbers
<1>4. CASE row # Records!Nothing
      <2>1. writes' = writes \ {w} /\ UNCHANGED <<row, cur, behind>>
            BY <1>4 DEF Records!Inserted
      <2>2. cur # 0
            BY <1>0, <1>4 DEF RecordsTyped
      <2>3. RecordsTyped'
            BY <1>0, <1>1, <1>3, <2>1 DEF RecordsTyped
      <2>4. RowWritten'
            BY <1>1, <2>1, <2>2 DEF RecordsInv, RowWritten, WritesAlone
      <2>5. MayChange' \subseteq MayChange
            BY <1>1, <2>1 DEF MayChange
      <2>6. IconsApart'
            BY <1>1, <2>5, IconsStay
      <2>7. ToldOrWill'
            BY <1>1, <2>1 DEF RecordsInv, ToldOrWill, WillTell
      <2> QED BY <2>3, <2>4, <2>6, <2>7 DEF RecordsInv
<1>5. CASE row = Records!Nothing
      <2> DEFINE V == Records!Statement("update", w.n, objs[w.n], "always", w.by)
      <2> PICK v : v = V
          OBVIOUS
      <2>1. row' = w.row /\ cur' = w.n /\ Records!Begin(v, writes \ {w})
            BY <1>5, Zenon DEF Records!Inserted, Records!Saved
      <2>2. v.kind = "update" /\ v.n = w.n /\ v.row = objs[w.n] /\ v.tells = "always"
            BY StatementIs
      <2> HIDE DEF V
      <2>3. writes' = (writes \ {w}) \union {v} /\ behind' = (writes \ {w} # {})
            BY <2>1, <2>2 DEF Records!Begin
      <2>4. objs[w.n] \in ThingDescription /\ objs[w.n].icon \in 0 .. made
            BY <1>0, <1>2, ObjectIs
      <2>5. StatementOK(v)'
            <3>1. v.row.icon \in 0 .. made' /\ v.n \in DOMAIN objs' /\ v.row \in ThingDescription
                  BY <1>1, <1>2, <2>2, <2>4
            <3> QED BY <2>2, <3>1, BegunOK
      <2>6. RecordsTyped'
            <3>1. row' \in ThingDescription /\ row'.icon \in 0 .. made /\ row' # Records!Nothing
                  BY <1>2, <2>1, NothingIs
            <3>2. behind' \in BOOLEAN
                  BY <2>3
            <3> QED BY <1>0, <1>1, <1>2, <1>3, <2>1, <2>3, <2>5, <3>1, <3>2 DEF RecordsTyped
      <2>7. RowWritten'
            <3> SUFFICES ASSUME writes \ {w} = {}
                         PROVE  \E x \in writes' : writes' = {x} /\ WritesAlone(x)'
                BY <2>3 DEF RowWritten
            <3>1. WritesAlone(v)'
                  BY <1>1, <1>2, <2>1, <2>2 DEF WritesAlone
            <3> QED BY <2>3, <3>1
      <2>8. MayChange' \subseteq MayChange
            BY <1>1, <2>1, <2>2, <2>3 DEF MayChange
      <2>9. IconsApart'
            BY <1>1, <2>8, IconsStay
      <2>10. ToldOrWill'
             BY <2>1, <2>2, <2>3 DEF ToldOrWill, WillTell
      <2> QED BY <2>6, <2>7, <2>9, <2>10 DEF RecordsInv
<1> QED BY <1>4, <1>5

\* An icon cannot be written.
LEMMA IconFailsKeeps ==
  ASSUME RecordsInv, NEW p \in edits, Records!IconFails(p)
  PROVE  RecordsInv'
<1>0. RecordsTyped
      BY DEF RecordsInv
<1>1. /\ edits' = edits \ {p} /\ UNCHANGED <<cur, row, made, writes, seen, wishes, cut>>
      /\ faults' \in Nat /\ faults' # 0
      <2>1. faults \in Nat /\ faults' = faults + 1
            BY <1>0, RecordNumbers DEF Records!IconFails, Records!Fault
      <2> QED BY <2>1 DEF Records!IconFails, Records!History
<1>2. MayChange' \subseteq MayChange
      BY <1>1 DEF MayChange
<1>3. ToldOrWill'
      BY <1>1 DEF ToldOrWill
<1>4. made \in Nat /\ made <= made'
      BY <1>0, <1>1, RecordNumbers
<1>5. CASE UNCHANGED <<files, objs, behind>>
      <2>1. (\A x \in writes : StatementOK(x)') /\ (\A q \in edits : RequestOK(q)')
            BY <1>0, <1>1, <1>4, <1>5, StillOK
      <2>2. RecordsTyped'
            BY <1>0, <1>1, <1>5, <2>1 DEF RecordsTyped
      <2>3. RowWritten'
            BY <1>1, <1>5 DEF RecordsInv, RowWritten, WritesAlone
      <2>4. IconsApart'
            BY <1>1, <1>2, <1>5, IconsStay
      <2> QED BY <1>3, <2>2, <2>3, <2>4 DEF RecordsInv
<1>6. CASE /\ files' = files \ {objs[p.n].icon} /\ objs' = [objs EXCEPT ![p.n].icon = 0]
           /\ behind' = TRUE
      <2> DEFINE o == objs[p.n]
                 e == [o EXCEPT !.icon = 0]
      <2>1. p.n \in DOMAIN objs /\ p.n \in MayChange
            BY <1>0 DEF RecordsTyped, RequestOK, MayChange
      <2>2. o \in ThingDescription
            BY <1>0, <2>1, ObjectIs
      <2>3. e \in ThingDescription /\ e.icon = 0
            <3> HIDE DEF o
            <3> QED BY <2>2, DescriptionPut
      <2>4. objs' = [objs EXCEPT ![p.n] = e]
            BY <1>6, Zenon
      <2> HIDE DEF e, o
      <2>5. objs' \in Seq(ThingDescription) /\ DOMAIN objs' = DOMAIN objs /\ objs'[p.n] = e
            BY <1>0, <2>1, <2>3, <2>4, ObjectSet
      <2>6. \A n \in DOMAIN objs : n # p.n => objs'[n] = objs[n]
            <3>1. objs \in Seq(ThingDescription)
                  BY <1>0 DEF RecordsTyped
            <3> QED BY <2>1, <2>4, <3>1
      <2>7. (\A x \in writes : StatementOK(x)') /\ (\A q \in edits : RequestOK(q)')
            BY <1>0, <1>1, <1>4, <2>5, StillOK
      <2>8. \A n \in DOMAIN objs' : objs'[n].icon \in 0 .. made'
            BY <1>0, <1>1, <1>4, <2>3, <2>5, <2>6 DEF RecordsTyped
      <2>9. RecordsTyped'
            BY <1>0, <1>1, <1>6, <2>5, <2>7, <2>8 DEF RecordsTyped
      <2>10. RowWritten'
             BY <1>6 DEF RowWritten
      <2>11. IconsApart'
             <3> SUFFICES ASSUME ~cut
                          PROVE  /\ \A n \in MayChange' : objs'[n].icon \in files' \union {0}
                                 /\ \A n, m \in MayChange' :
                                     n # m /\ objs'[n].icon = objs'[m].icon => objs'[n].icon = 0
                 BY <1>1 DEF IconsApart
             <3>1. /\ \A m \in MayChange : objs[m].icon \in files \union {0}
                   /\ \A m, n \in MayChange : m # n /\ objs[m].icon = objs[n].icon
                       => objs[m].icon = 0
                   BY DEF RecordsInv, IconsApart
             <3>2. MayChange \subseteq DOMAIN objs
                   BY <1>0, LiveIn
             <3> QED BY <1>2, <1>6, <2>1, <2>3, <2>5, <2>6, <3>1, <3>2
      <2> QED BY <1>3, <2>9, <2>10, <2>11 DEF RecordsInv
<1> QED BY <1>5, <1>6, Zenon DEF Records!IconFails

\* A row is deleted.
LEMMA DeletedKeeps ==
  ASSUME RecordsInv, NEW w \in writes, Records!Deleted(w)
  PROVE  RecordsInv'
<1>0. RecordsTyped
      BY DEF RecordsInv
<1>1. /\ w.kind = "delete" /\ row' = Records!Nothing /\ cur' = 0 /\ writes' = writes \ {w}
      /\ UNCHANGED <<made, edits, behind, wishes, faults, cut>>
      BY DEF Records!Deleted, Records!History
<1>2. MayChange' \subseteq MayChange /\ 0 \notin MayChange
      <2>1. MayChange' \subseteq MayChange
            BY <1>1 DEF MayChange
      <2>2. 0 \notin DOMAIN objs
            BY <1>0 DEF RecordsTyped
      <2> QED BY <1>0, <2>1, <2>2, LiveIn
<1>3. made \in Nat /\ made <= made'
      BY <1>0, <1>1, RecordNumbers
<1>4. /\ files' \subseteq files /\ objs' \in Seq(ThingDescription) /\ DOMAIN objs' = DOMAIN objs
      /\ \A n \in DOMAIN objs : objs'[n].icon \in {0, objs[n].icon}
      /\ \A n \in DOMAIN objs : objs'[n].icon # 0 => n # cur
      /\ files \ files' \subseteq (IF cur = 0 THEN {} ELSE {objs[cur].icon})
      <2>1. CASE cur = 0
            <3>1. files' = files /\ objs' = objs
                  BY <2>1 DEF Records!Deleted
            <3>2. 0 \notin DOMAIN objs /\ objs \in Seq(ThingDescription)
                  BY <1>0 DEF RecordsTyped
            <3> QED BY <2>1, <3>1, <3>2
      <2>2. CASE cur # 0
            <3> DEFINE o == objs[cur]
                       e == [o EXCEPT !.icon = 0]
            <3>1. cur \in DOMAIN objs
                  BY <1>0, <2>2 DEF RecordsTyped
            <3>2. o \in ThingDescription
                  BY <1>0, <3>1, ObjectIs
            <3>3. e \in ThingDescription /\ e.icon = 0
                  <4> HIDE DEF o
                  <4> QED BY <3>2, DescriptionPut
            <3>4. files' = files \ {objs[cur].icon} /\ objs' = [objs EXCEPT ![cur].icon = 0]
                  BY <2>2, Zenon DEF Records!Deleted
            <3>5. objs' = [objs EXCEPT ![cur] = e]
                  BY <3>4, Zenon
            <3> HIDE DEF e, o
            <3>6. objs' \in Seq(ThingDescription) /\ DOMAIN objs' = DOMAIN objs /\ objs'[cur] = e
                  BY <1>0, <3>1, <3>3, <3>5, ObjectSet
            <3>7. \A n \in DOMAIN objs : n # cur => objs'[n] = objs[n]
                  <4>1. objs \in Seq(ThingDescription)
                        BY <1>0 DEF RecordsTyped
                  <4> QED BY <3>1, <3>5, <4>1
            <3>8. files' \subseteq files /\ files \ files' \subseteq {objs[cur].icon}
                  BY <3>4
            <3> QED BY <2>2, <3>3, <3>6, <3>7, <3>8
      <2> QED BY <2>1, <2>2
<1>5. RecordsTyped'
      <2>1. (\A x \in writes : StatementOK(x)') /\ (\A q \in edits : RequestOK(q)')
            BY <1>0, <1>1, <1>3, <1>4, StillOK
      <2>2. row'.icon \in 0 .. made'
            BY <1>1, <1>3 DEF Records!Nothing
      <2>3. \A n \in DOMAIN objs' : objs'[n].icon \in 0 .. made'
            BY <1>0, <1>1, <1>3, <1>4 DEF RecordsTyped
      <2> QED BY <1>0, <1>1, <1>4, <2>1, <2>2, <2>3 DEF RecordsTyped
<1>6. RowWritten'
      BY <1>1, NothingIs DEF RecordsInv, RowWritten
<1>7. IconsApart'
      <2> SUFFICES ASSUME ~cut
                   PROVE  /\ \A n \in MayChange' : objs'[n].icon \in files' \union {0}
                          /\ \A n, m \in MayChange' : n # m /\ objs'[n].icon = objs'[m].icon
                              => objs'[n].icon = 0
          BY <1>1 DEF IconsApart
      <2>1. /\ \A m \in MayChange : objs[m].icon \in files \union {0}
            /\ \A m, n \in MayChange : m # n /\ objs[m].icon = objs[n].icon => objs[m].icon = 0
            BY DEF RecordsInv, IconsApart
      <2>2. MayChange \subseteq DOMAIN objs /\ (cur # 0 => cur \in MayChange)
            BY <1>0, LiveIn DEF MayChange
      <2>3. ASSUME NEW n \in MayChange', objs'[n].icon # 0
            PROVE  objs'[n].icon = objs[n].icon /\ n # cur /\ objs'[n].icon \in files'
            <3>1. n \in MayChange /\ n \in DOMAIN objs /\ objs'[n].icon = objs[n].icon /\ n # cur
                  BY <1>2, <1>4, <2>2, <2>3
            <3>2. objs[n].icon \in files
                  BY <2>1, <2>3, <3>1
            <3>3. cur # 0 => objs[n].icon # objs[cur].icon
                  BY <2>1, <2>2, <2>3, <3>1
            <3> QED BY <1>4, <3>1, <3>2, <3>3
      <2> QED BY <1>2, <2>1, <2>3
<1>8. ToldOrWill'
      BY <1>1 DEF ToldOrWill
<1> QED BY <1>5, <1>6, <1>7, <1>8 DEF RecordsInv

\* A statement fails.
LEMMA FailsKeeps ==
  ASSUME RecordsInv, NEW w \in writes, Records!Fails(w)
  PROVE  RecordsInv'
<1>0. RecordsTyped
      BY DEF RecordsInv
<1>1. /\ writes' = writes \ {w} /\ behind' = TRUE /\ edits' \subseteq edits
      /\ UNCHANGED <<objs, cur, row, files, made, seen, wishes, cut>> /\ faults' \in Nat
      /\ faults' # 0
      <2>1. faults \in Nat /\ faults' = faults + 1
            BY <1>0, RecordNumbers DEF Records!Fails, Records!Fault
      <2> QED BY <2>1 DEF Records!Fails, Records!History
<1>2. MayChange' \subseteq MayChange
      BY <1>1 DEF MayChange
<1>3. RecordsTyped'
      <2>1. (\A x \in writes : StatementOK(x)') /\ (\A q \in edits : RequestOK(q)')
            BY <1>0, <1>1, StillOK, RecordNumbers
      <2> QED BY <1>0, <1>1, <2>1 DEF RecordsTyped
<1>4. RowWritten'
      BY <1>1 DEF RowWritten
<1>5. IconsApart'
      BY <1>1, <1>2, IconsStay
<1>6. ToldOrWill'
      BY <1>1 DEF ToldOrWill
<1> QED BY <1>3, <1>4, <1>5, <1>6 DEF RecordsInv

\* The gateway restarts.
LEMMA RestartKeeps ==
  ASSUME RecordsInv, Records!Restart
  PROVE  RecordsInv'
<1>0. RecordsTyped
      BY DEF RecordsInv
<1>1. /\ cut' = (cut \/ writes # {} \/ behind) /\ writes' = {} /\ edits' = {} /\ behind' = FALSE
      /\ UNCHANGED <<row, files, made, wishes, faults>>
      BY DEF Records!Restart
<1>2. MayChange' = {cur'} \ {0}
      BY <1>1 DEF MayChange
<1>3. cut' \in BOOLEAN
      BY <1>1
<1>4. CASE row = Records!Nothing
      <2>1. cur' = 0 /\ objs' = objs
            BY <1>4 DEF Records!Restart
      <2>2. RecordsTyped'
            BY <1>0, <1>1, <1>3, <1>4, <2>1 DEF RecordsTyped
      <2>3. RowWritten'
            BY <1>1, <1>4, <2>1, NothingIs DEF RowWritten
      <2>4. IconsApart' /\ ToldOrWill'
            BY <1>2, <2>1 DEF IconsApart, ToldOrWill
      <2> QED BY <2>2, <2>3, <2>4 DEF RecordsInv
<1>5. CASE row # Records!Nothing
      <2> DEFINE k == Len(objs) + 1
                 d == [row EXCEPT !.forms = row.forms + 1]
      <2>1. cur' = k /\ objs' = Append(objs, d) /\ seen' = objs'[cur']
            BY <1>5, Zenon DEF Records!Restart
      <2>2. row \in ThingDescription /\ row.icon \in 0 .. made /\ made \in Nat
              /\ objs \in Seq(ThingDescription)
            BY <1>0, <1>5 DEF RecordsTyped
      <2>3. row.forms + 1 \in Nat
            BY <2>2 DEF ThingDescription
      <2>4. d \in ThingDescription /\ d.icon = row.icon /\ Records!Plain(d) = Records!Plain(row)
            BY <2>2, <2>3, DescriptionPut
      <2> HIDE DEF d
      <2>5. /\ objs' \in Seq(ThingDescription) /\ DOMAIN objs' = DOMAIN objs \union {k}
            /\ k \notin DOMAIN objs
            /\ objs'[k] = d /\ k # 0 /\ \A n \in DOMAIN objs : objs'[n] = objs[n]
            BY <2>1, <2>2, <2>4
      <2> HIDE DEF k
      <2>6. \A n \in DOMAIN objs' : objs'[n].icon \in 0 .. made'
            BY <1>0, <1>1, <2>2, <2>4, <2>5 DEF RecordsTyped
      <2>7. RecordsTyped'
            BY <1>0, <1>1, <1>3, <1>5, <2>1, <2>5, <2>6 DEF RecordsTyped
      <2>8. RowWritten'
            BY <1>1, <2>1, <2>4, <2>5 DEF RowWritten
      <2>9. IconsApart'
            <3> SUFFICES ASSUME ~cut'
                         PROVE  objs'[k].icon \in files \union {0}
                BY <1>1, <1>2, <2>1 DEF IconsApart
            <3>1. ~cut /\ writes = {} /\ ~behind
                  BY <1>1
            <3>2. cur # 0 /\ cur \in DOMAIN objs /\ Records!Plain(row) = Records!Plain(objs[cur])
                    /\ cur \in MayChange
                  BY <1>0, <1>5, <3>1 DEF RecordsTyped, RecordsInv, RowWritten, MayChange
            <3>3. objs[cur] \in ThingDescription
                  BY <1>0, <3>2, ObjectIs
            <3>4. \A a, b \in ThingDescription : Records!Plain(a) = Records!Plain(b)
                    => a.icon = b.icon
                  BY DEF ThingDescription, Records!Plain
            <3>5. row.icon = objs[cur].icon
                  BY <2>2, <3>2, <3>3, <3>4
            <3>6. objs[cur].icon \in files \union {0}
                  BY <3>1, <3>2 DEF RecordsInv, IconsApart
            <3> QED BY <2>4, <2>5, <3>5, <3>6
      <2>10. ToldOrWill'
             BY <2>1 DEF ToldOrWill
      <2> QED BY <2>7, <2>8, <2>9, <2>10 DEF RecordsInv
<1> QED BY <1>4, <1>5

\* Nothing moves.
LEMMA RecordsRest == ASSUME RecordsInv, UNCHANGED recordVars PROVE RecordsInv'
<1>1. UNCHANGED <<objs, cur, row, files, made, writes, edits, seen, behind, cut, wishes, faults>>
      BY DEF recordVars
<1>2. MayChange' = MayChange
      BY <1>1 DEF MayChange
<1>3. (\A x \in writes : StatementOK(x)') /\ (\A q \in edits : RequestOK(q)')
      BY <1>1, StillOK, RecordNumbers DEF RecordsInv
<1>4. RecordsTyped'
      BY <1>1, <1>3 DEF RecordsInv, RecordsTyped
<1>5. RowWritten'
      BY <1>1 DEF RecordsInv, RowWritten, WritesAlone
<1>6. IconsApart'
      BY <1>1, <1>2, IconsStay
<1>7. ToldOrWill'
      BY <1>1 DEF RecordsInv, ToldOrWill, WillTell
<1> QED BY <1>4, <1>5, <1>6, <1>7 DEF RecordsInv

\* Every step keeps the invariant.
LEMMA RecordsStep == RecordsInv /\ [Records!Next]_recordVars => RecordsInv'
<1> SUFFICES ASSUME RecordsInv, [Records!Next]_recordVars PROVE RecordsInv'
    OBVIOUS
<1>1. CASE Records!Delete
      BY <1>1, DeleteKeeps
<1>2. CASE Records!Restart
      BY <1>2, RestartKeeps
<1>3. ASSUME NEW types \in Records!Types, Records!Post(types) \/ Records!Describe(types)
      PROVE  RecordsInv'
      BY <1>3, PostKeeps, DescribeKeeps
<1>4. ASSUME NEW sel \in {0, 2}, NEW spot \in {0, 2}, NEW img \in {0, 1},
      Records!Put(sel, img, spot, 2)
      PROVE  RecordsInv'
      BY <1>4, EditKeeps
<1>5. CASE Records!Patch(1)
      BY <1>5, PatchKeeps
<1>6. ASSUME NEW p \in edits, Records!Set(p) \/ Records!SetIcon(p) \/ Records!IconFails(p)
      PROVE  RecordsInv'
      BY <1>6, SetPartKeeps, SetIconKeeps, IconFailsKeeps
<1>7. ASSUME NEW w \in writes, Records!Updated(w) \/ Records!Inserted(w) \/ Records!Deleted(w)
        \/ Records!Fails(w)
      PROVE  RecordsInv'
      BY <1>7, UpdatedKeeps, InsertedKeeps, DeletedKeeps, FailsKeeps
<1>8. CASE UNCHANGED recordVars
      BY <1>8, RecordsRest
<1> QED BY <1>1, <1>2, <1>3, <1>4, <1>5, <1>6, <1>7, <1>8, Zenon DEF Records!Next

\* The invariant of a record holds of what is composed.
LEMMA RecordAlways == OverviewSpec => []RecordsInv
<1>1. OverviewInit => RecordsInv
      BY RecordsStart DEF OverviewInit
<1>2. RecordsInv /\ [OverviewNext]_overviewVars => RecordsInv'
      BY RecordMoves, RecordsStep
<1> QED BY <1>1, <1>2, PTL DEF OverviewSpec

\* With no statement under way the row holds all there is of the thing, or there is none when it is
\* gone, unless the last statement was begun beside another; the icon of a thing is there, unless
\* the gateway stopped while it was changed; and clients know the thing as it is once every
\* statement ended and none failed. It holds for any number of requests, faults and restarts, in
\* any order (Thing.setIcon, setTitle, updateFromDescription, Database.updateThing).
THEOREM RecordIsKept == OverviewSpec => []RecordKept
<1>1. RecordsInv => RecordKept
      BY RecordsKept DEF RecordKept
<1> QED BY <1>1, RecordAlways, PTL

-----------------------------------------------------------------------------
(* What the page knows of the gateway (GatewayClient).                     *)
\* A step is a step of the page and the gateway, or leaves them alone.
LEMMA GatewayMoves == [OverviewNext]_overviewVars => [Gateway!Next]_gatewayVars
BY DEF OverviewNext, overviewVars, gatewayVars

\* What is on the line, and what is asked.
GatewayJob == [do : {"all", "get", "remove", "update"}, thing : Thing \union {Gateway!AnyThing}]

\* What is of which type.
GatewayTyped ==
  /\ has \in [Thing -> Nat] /\ shown \in [Thing -> Nat] /\ changes \in Nat /\ layout \in Nat
  /\ news \in Seq(Gateway!News) /\ groupNews \in Nat /\ queue \in Seq(GatewayJob)
  /\ sent \in BOOLEAN
  /\ reply \in [things : [Thing -> Nat], layout : Nat, is : BOOLEAN]
  /\ ws \in {"opening", "open", "down"}
  /\ reply.is => sent
  /\ sent => queue # <<>>
  /\ ws # "open" => news = <<>>
  /\ \A i \in DOMAIN queue : queue[i].do # "all" => queue[i].thing \in Thing

\* The last news of a thing tells whether it is there.
NewsTrue ==
  \A i \in DOMAIN news : (\A k \in DOMAIN news : k > i => news[k].thing # news[i].thing)
                         => (news[i].type = "thingRemoved" <=> has[news[i].thing] = 0)

\* A job that is not served yet brings what there is of a thing.
Brings(j, t) == j.do = "all" \/ (j.do = "get" /\ j.thing = t /\ has[t] # 0)
InNews(t)  == \E i \in DOMAIN news : news[i].thing = t
InQueue(t) == \E i \in DOMAIN queue : (i > 1 \/ ~reply.is) /\ Brings(queue[i], t)
WillCome(t)   == InNews(t) \/ InQueue(t)
\* What the page shows once the answer is there.
Installed(j, t) ==
  IF j.do = "all" \/ (j.do = "get" /\ j.thing = t /\ reply.things[t] # 0) THEN reply.things[t]
  ELSE IF j.do = "remove" /\ j.thing = t THEN 0 ELSE shown[t]
Coming(t) == IF reply.is THEN Installed(Head(queue), t) ELSE shown[t]
ThingsOrWill == ws = "open" => \A t \in Thing : Coming(t) = has[t] \/ WillCome(t)

\* The same of the groups.
GroupsComing == IF reply.is /\ Head(queue).do = "all" THEN reply.layout ELSE groups
AllQueued == \E i \in DOMAIN queue : (i > 1 \/ ~reply.is) /\ queue[i].do = "all"
GroupsLater == groupNews > 0 \/ AllQueued
GroupsOrWill == ws = "open" /\ groupsWs = "open" => GroupsComing = layout \/ GroupsLater

\* What is shown has a model, and the model of a thing that is there has subscribed.
ModelsOf ==
  \A t \in Thing : /\ t \in gone => has[t] = 0
                   /\ shown[t] # 0 \/ reply.things[t] # 0 => has[t] # 0 \/ t \in gone
                   /\ shown[t] # 0 => t \in born
                   /\ ws = "open" /\ shown[t] # 0 /\ has[t] # 0 => t \in heard

\* The inductive invariant of the page and the gateway.
GatewayInv == /\ GatewayTyped /\ NewsTrue
              /\ ~Overtakes => ThingsOrWill /\ GroupsOrWill
              /\ ~Returns => ModelsOf

\* Both end in step.
LEMMA GatewayInStep == GatewayInv /\ ~Overtakes
    => Gateway!CaughtUp /\ (~Returns => Gateway!InStep)
<1> SUFFICES ASSUME GatewayInv, ~Overtakes, Gateway!Quiet
             PROVE  shown = has /\ groups = layout /\ (~Returns => Gateway!Known \subseteq heard)
    BY DEF Gateway!InStep, Gateway!CaughtUp, Gateway!EventsHeard
<1>1. /\ ws = "open" /\ groupsWs = "open" /\ news = <<>> /\ groupNews = 0 /\ queue = <<>>
      BY DEF Gateway!Quiet
<1>2. GatewayTyped /\ ThingsOrWill /\ GroupsOrWill /\ (~Returns => ModelsOf)
      BY DEF GatewayInv
<1>3. ~reply.is
      BY <1>1, <1>2 DEF GatewayTyped
<1>4. \A t \in Thing : ~WillCome(t)
      BY <1>1 DEF WillCome, InNews, InQueue
<1>5. \A t \in Thing : shown[t] = has[t]
      BY <1>1, <1>2, <1>3, <1>4 DEF ThingsOrWill, Coming
<1>6. shown = has
      BY <1>2, <1>5 DEF GatewayTyped
<1>7. groups = layout
      BY <1>1, <1>2, <1>3 DEF GroupsOrWill, GroupsComing, GroupsLater, AllQueued
<1>8. ~Returns => Gateway!Known \subseteq heard
      BY <1>1, <1>2, <1>5 DEF ModelsOf, Gateway!Known
<1> QED BY <1>6, <1>7, <1>8

\* The invariant holds at first.
LEMMA GatewayStart == Gateway!Init => GatewayInv
<1> SUFFICES ASSUME Gateway!Init PROVE GatewayInv
    OBVIOUS
<1>1. /\ has = [t \in Thing |-> 0] /\ shown = has /\ changes = 0 /\ layout = 0 /\ groups = 0
      /\ gone = {}
      /\ news = <<>> /\ queue = <<>> /\ groupNews = 0 /\ sent = FALSE /\ ws = "opening"
      BY DEF Gateway!Init, Gateway!Nothing
<1>2. reply \in [things : [Thing -> Nat], layout : Nat, is : BOOLEAN] /\ ~reply.is
        /\ \A t \in Thing : reply.things[t] = 0
      BY DEF Gateway!Init, Gateway!NoReply
<1>3. GatewayTyped
      <2>1. has \in [Thing -> Nat] /\ shown \in [Thing -> Nat] /\ news \in Seq(Gateway!News)
            /\ queue \in Seq(GatewayJob) /\ DOMAIN queue = {}
            BY <1>1
      <2> QED BY <1>1, <1>2, <2>1 DEF GatewayTyped
<1>4. NewsTrue
      BY <1>1 DEF NewsTrue
<1>5. ThingsOrWill /\ GroupsOrWill
      BY <1>1 DEF ThingsOrWill, GroupsOrWill
<1>6. ModelsOf
      BY <1>1, <1>2 DEF ModelsOf
<1> QED BY <1>3, <1>4, <1>5, <1>6 DEF GatewayInv

\* A sequence with one more.
LEMMA OneMore ==
  ASSUME NEW S, NEW s \in Seq(S), NEW e \in S
  PROVE  /\ Append(s, e) \in Seq(S) /\ Append(s, e) # <<>>
         /\ DOMAIN Append(s, e) = DOMAIN s \union {Len(s) + 1} /\ Len(s) + 1 \notin DOMAIN s
         /\ \A i \in DOMAIN s : Append(s, e)[i] = s[i] /\ i < Len(s) + 1
         /\ Append(s, e)[Len(s) + 1] = e
         /\ s # <<>> => Head(Append(s, e)) = Head(s) /\ Len(s) + 1 > 1
         /\ Len(s) + 1 \in Nat
<1>1. Len(s) \in Nat /\ DOMAIN s = 1 .. Len(s)
      OBVIOUS
<1>2. s # <<>> => Len(s) > 0
      OBVIOUS
<1>3. Append(s, e) # <<>>
      <2>1. Len(Append(s, e)) # Len(<<>>)
            BY <1>1
      <2> QED BY <2>1, Zenon
<1> QED BY <1>1, <1>2, <1>3

\* A sequence without its first.
LEMMA OneLess ==
  ASSUME NEW S, NEW s \in Seq(S), s # <<>>
  PROVE  /\ Tail(s) \in Seq(S) /\ Head(s) = s[1] /\ 1 \in DOMAIN s /\ Head(s) \in S
         /\ \A i \in DOMAIN Tail(s) : i \in Nat /\ i + 1 \in DOMAIN s /\ Tail(s)[i] = s[i + 1]
         /\ \A i \in DOMAIN s : i > 1 => i - 1 \in DOMAIN Tail(s) /\ Tail(s)[i - 1] = s[i]
         /\ DOMAIN s \subseteq Nat
<1>1. Len(s) \in Nat /\ DOMAIN s = 1 .. Len(s) /\ Len(s) > 0
      OBVIOUS
<1> QED BY <1>1

\* A job more.
LEMMA QueueGrows ==
  ASSUME GatewayTyped, NEW j \in GatewayJob, j.do # "all" => j.thing \in Thing,
         queue' = Append(queue, j),
         UNCHANGED <<reply, sent>>
  PROVE  /\ queue' \in Seq(GatewayJob) /\ queue' # <<>>
         /\ \A i \in DOMAIN queue' : queue'[i].do # "all" => queue'[i].thing \in Thing
         /\ reply.is => Head(queue') = Head(queue)
         /\ AllQueued => AllQueued'
         /\ j.do = "all" => AllQueued'
         /\ \A t \in Thing : InQueue(t) /\ has'[t] = has[t] => InQueue(t)'
         /\ \A t \in Thing : j.do = "all" \/ (j.do = "get" /\ j.thing = t /\ has'[t] # 0)
             => InQueue(t)'
<1>1. queue \in Seq(GatewayJob) /\ (reply.is => queue # <<>>)
      BY DEF GatewayTyped
<1> DEFINE k == Len(queue) + 1
<1>2. /\ queue' \in Seq(GatewayJob) /\ queue' # <<>> /\ DOMAIN queue' = DOMAIN queue \union {k}
      /\ \A i \in DOMAIN queue : queue'[i] = queue[i]
      /\ queue'[k] = j /\ (queue # <<>> => Head(queue') = Head(queue) /\ k > 1)
      BY <1>1, OneMore
<1> HIDE DEF k
<1>3. k \in DOMAIN queue' /\ (k > 1 \/ ~reply'.is) /\ queue'[k] = j
      BY <1>1, <1>2
<1>4. \A i \in DOMAIN queue' : queue'[i].do # "all" => queue'[i].thing \in Thing
      BY <1>2 DEF GatewayTyped
<1>5. AllQueued => AllQueued'
      BY <1>2 DEF AllQueued
<1>6. j.do = "all" => AllQueued'
      BY <1>3 DEF AllQueued
<1>7. ASSUME NEW t \in Thing, InQueue(t), has'[t] = has[t] PROVE InQueue(t)'
      BY <1>2, <1>7 DEF InQueue, Brings
<1>8. ASSUME NEW t \in Thing, j.do = "all" \/ (j.do = "get" /\ j.thing = t /\ has'[t] # 0)
      PROVE  InQueue(t)'
      BY <1>3, <1>8 DEF InQueue, Brings
<1> QED BY <1>1, <1>2, <1>4, <1>5, <1>6, <1>7, <1>8

\* News of a change.
LEMMA ThingChanges ==
  ASSUME GatewayTyped, NewsTrue, NEW t \in Thing, NEW to \in Nat,
         NEW type \in {"thingAdded", "thingModified", "thingRemoved"},
         type = "thingRemoved"
             <=> to = 0, has' = [has EXCEPT ![t] = to], Gateway!Told(type, t), ws' = ws
  PROVE  /\ has' \in [Thing -> Nat] /\ has'[t] = to /\ \A u \in Thing : u # t => has'[u] = has[u]
         /\ news' \in Seq(Gateway!News) /\ (ws # "open" => news' = <<>>)
         /\ NewsTrue'
         /\ ws = "open" => InNews(t)' /\ \A u \in Thing : InNews(u) => InNews(u)'
<1>1. has \in [Thing -> Nat] /\ news \in Seq(Gateway!News) /\ (ws # "open" => news = <<>>)
      BY DEF GatewayTyped
<1>2. has' \in [Thing -> Nat] /\ has'[t] = to /\ \A u \in Thing : u # t => has'[u] = has[u]
      BY <1>1
<1>3. CASE ws # "open"
      <2>1. news' = <<>>
            BY <1>1, <1>3 DEF Gateway!Told
      <2> QED BY <1>2, <1>3, <2>1 DEF NewsTrue
<1>4. CASE ws = "open"
      <2> DEFINE m == [type |-> type, thing |-> t]
                 k == Len(news) + 1
      <2>1. m \in Gateway!News /\ m.type = type /\ m.thing = t
            BY DEF Gateway!News
      <2>2. news' = Append(news, m)
            BY <1>4 DEF Gateway!Told
      <2> HIDE DEF m
      <2>3. /\ news' \in Seq(Gateway!News) /\ DOMAIN news' = DOMAIN news \union {k}
            /\ news'[k] = m
            /\ \A i \in DOMAIN news : news'[i] = news[i] /\ i < k
            BY <1>1, <2>1, <2>2, OneMore
      <2> HIDE DEF k
      <2>4. InNews(t)' /\ \A u \in Thing : InNews(u) => InNews(u)'
            BY <2>1, <2>3 DEF InNews
      <2>5. \A i \in DOMAIN news : news[i].thing \in Thing
            <3>1. \A i \in DOMAIN news : news[i] \in Gateway!News
                  BY <1>1
            <3>2. \A n \in Gateway!News : n.thing \in Thing
                  BY DEF Gateway!News
            <3> QED BY <3>1, <3>2
      <2>6. NewsTrue'
            <3> SUFFICES ASSUME NEW i \in DOMAIN news', \A n \in DOMAIN news' : n > i
                => news'[n].thing # news'[i].thing
                         PROVE  news'[i].type = "thingRemoved" <=> has'[news'[i].thing] = 0
                BY DEF NewsTrue
            <3>1. CASE i = k
                  BY <1>2, <2>1, <2>3, <3>1
            <3>2. CASE i # k
                  <4>1. i \in DOMAIN news /\ news'[i] = news[i] /\ k > i
                        BY <2>3, <3>2
                  <4>2. news[i].thing # t
                        BY <2>1, <2>3, <4>1
                  <4>3. \A n \in DOMAIN news : n > i => news[n].thing # news[i].thing
                        BY <2>3, <4>1
                  <4>4. news[i].type = "thingRemoved" <=> has[news[i].thing] = 0
                        BY <4>1, <4>3 DEF NewsTrue
                  <4> QED BY <1>2, <2>5, <4>1, <4>2, <4>4
            <3> QED BY <3>1, <3>2
      <2> QED BY <1>2, <1>4, <2>3, <2>4, <2>6
<1> QED BY <1>3, <1>4

\* A job less.
LEMMA QueueRests ==
  ASSUME GatewayTyped, queue # <<>>, ~reply'.is,
         \/ queue' = Tail(queue)
         \/ \E e \in GatewayJob : e.thing \in Thing /\ queue' = Append(Tail(queue), e)
  PROVE  /\ queue' \in Seq(GatewayJob)
         /\ \A i \in DOMAIN queue' : queue'[i].do # "all" => queue'[i].thing \in Thing
         /\ \A t \in Thing, i \in DOMAIN queue :
              i > 1 /\ Brings(queue[i], t) /\ has'[t] = has[t] => InQueue(t)'
         /\ \A i \in DOMAIN queue : i > 1 /\ queue[i].do = "all" => AllQueued'
<1>1. queue \in Seq(GatewayJob) /\ \A i \in DOMAIN queue : queue[i].do # "all"
        => queue[i].thing \in Thing
      BY DEF GatewayTyped
<1>2. /\ Tail(queue) \in Seq(GatewayJob)
      /\ \A i \in DOMAIN Tail(queue) : i + 1 \in DOMAIN queue /\ Tail(queue)[i] = queue[i + 1]
      /\ \A i \in DOMAIN queue : i > 1
          => i - 1 \in DOMAIN Tail(queue) /\ Tail(queue)[i - 1] = queue[i]
      BY <1>1, OneLess
<1>3. /\ queue' \in Seq(GatewayJob)
      /\ \A i \in DOMAIN queue' : queue'[i].do # "all" => queue'[i].thing \in Thing
      /\ \A i \in DOMAIN Tail(queue) : i \in DOMAIN queue' /\ queue'[i] = Tail(queue)[i]
      <2>1. CASE queue' = Tail(queue)
            BY <1>1, <1>2, <2>1
      <2>2. CASE \E e \in GatewayJob : e.thing \in Thing /\ queue' = Append(Tail(queue), e)
            <3>1. PICK e \in GatewayJob : e.thing \in Thing /\ queue' = Append(Tail(queue), e)
                  BY <2>2
            <3> DEFINE k == Len(Tail(queue)) + 1
            <3>2. /\ queue' \in Seq(GatewayJob) /\ DOMAIN queue' = DOMAIN Tail(queue) \union {k}
                  /\ \A i \in DOMAIN Tail(queue) : queue'[i] = Tail(queue)[i]
                  /\ queue'[k] = e
                  BY <1>2, <3>1, OneMore
            <3> HIDE DEF k
            <3> QED BY <1>1, <1>2, <3>1, <3>2
      <2> QED BY <2>1, <2>2
<1>4. \A i \in DOMAIN queue : i > 1 => i - 1 \in DOMAIN queue' /\ queue'[i - 1] = queue[i]
      BY <1>2, <1>3
<1>5. ASSUME NEW t \in Thing, NEW i \in DOMAIN queue, i > 1, Brings(queue[i], t), has'[t] = has[t]
      PROVE  InQueue(t)'
      <2>1. i - 1 \in DOMAIN queue' /\ queue'[i - 1] = queue[i]
            BY <1>4, <1>5
      <2>2. Brings(queue[i - 1], t)'
            BY <1>5, <2>1 DEF Brings
      <2> QED BY <2>1, <2>2 DEF InQueue
<1>6. ASSUME NEW i \in DOMAIN queue, i > 1, queue[i].do = "all" PROVE AllQueued'
      <2>1. i - 1 \in DOMAIN queue' /\ queue'[i - 1].do = "all"
            BY <1>4, <1>6
      <2> QED BY <2>1 DEF AllQueued
<1> QED BY <1>3, <1>5, <1>6

\* The gateway's own changes.
LEMMA GatewayChanges ==
  ASSUME GatewayInv, NEW t \in Thing, NEW to \in Nat,
         NEW type \in {"thingAdded", "thingModified", "thingRemoved"},
         type = "thingRemoved" <=> to = 0, ~Returns /\ to # 0 => t \notin gone,
         Gateway!Change(t, to, type)
  PROVE  GatewayInv'
<1>1. GatewayTyped /\ NewsTrue /\ (~Overtakes => ThingsOrWill /\ GroupsOrWill)
        /\ (~Returns => ModelsOf)
      BY DEF GatewayInv
<1>2. /\ has' = [has EXCEPT ![t] = to] /\ Gateway!Told(type, t) /\ changes' = changes + 1
      /\ gone' = IF to = 0 THEN gone \union {t} ELSE gone
      /\ UNCHANGED <<layout, groupNews, ws, groupsWs, heard, shown, groups, born, queue, sent,
          reply>>
      BY DEF Gateway!Change, Gateway!Page, Gateway!Jobs
<1>3. /\ has' \in [Thing -> Nat] /\ has'[t] = to /\ \A u \in Thing : u # t => has'[u] = has[u]
      /\ news' \in Seq(Gateway!News) /\ (ws # "open" => news' = <<>>)
      /\ NewsTrue'
      /\ ws = "open" => InNews(t)' /\ \A u \in Thing : InNews(u) => InNews(u)'
      BY <1>1, <1>2, ThingChanges
<1>4. GatewayTyped'
      BY <1>1, <1>2, <1>3 DEF GatewayTyped
<1>5. ASSUME ~Overtakes PROVE ThingsOrWill' /\ GroupsOrWill'
      <2>1. ASSUME NEW u \in Thing, ws = "open" PROVE Coming(u)' = has'[u] \/ WillCome(u)'
            <3>1. CASE u = t
                  BY <1>3, <2>1, <3>1 DEF WillCome
            <3>2. CASE u # t
                  <4>1. has'[u] = has[u] /\ Coming(u)' = Coming(u)
                        BY <1>2, <1>3, <3>2 DEF Coming, Installed
                  <4>2. InQueue(u) => InQueue(u)'
                        BY <1>2, <4>1 DEF InQueue, Brings
                  <4> QED BY <1>1, <1>3, <1>5, <2>1, <4>1, <4>2 DEF ThingsOrWill, WillCome
            <3> QED BY <3>1, <3>2
      <2>2. ThingsOrWill'
            BY <1>2, <2>1 DEF ThingsOrWill
      <2>3. GroupsOrWill'
            BY <1>1, <1>2, <1>5 DEF GroupsOrWill, GroupsComing, GroupsLater, AllQueued
      <2> QED BY <2>2, <2>3
<1>6. ASSUME ~Returns PROVE ModelsOf'
      <2>1. ModelsOf
            BY <1>1, <1>6
      <2> SUFFICES ASSUME NEW u \in Thing
                   PROVE  /\ u \in gone' => has'[u] = 0
                          /\ shown[u] # 0 \/ reply.things[u] # 0 => has'[u] # 0 \/ u \in gone'
                          /\ shown[u] # 0 => u \in born
                          /\ ws = "open" /\ shown[u] # 0 /\ has'[u] # 0 => u \in heard
          BY <1>2 DEF ModelsOf
      <2>2. CASE u = t
            BY <1>2, <1>3, <1>6, <2>1, <2>2 DEF ModelsOf
      <2>3. CASE u # t
            BY <1>2, <1>3, <2>1, <2>3 DEF ModelsOf
      <2> QED BY <2>2, <2>3
<1> QED BY <1>3, <1>4, <1>5, <1>6 DEF GatewayInv

\* Groups or the layout change.
LEMMA GatewayRearranges == GatewayInv /\ Gateway!Rearrange => GatewayInv'
<1> SUFFICES ASSUME GatewayInv, Gateway!Rearrange PROVE GatewayInv'
    OBVIOUS
<1>1. GatewayTyped /\ NewsTrue /\ (~Overtakes => ThingsOrWill /\ GroupsOrWill)
        /\ (~Returns => ModelsOf)
      BY DEF GatewayInv
<1>2. /\ changes' = changes + 1 /\ layout' = changes + 1
      /\ groupNews' = IF groupsWs = "open" THEN groupNews + 1 ELSE groupNews
      /\ UNCHANGED <<has, gone, news, ws, groupsWs, heard, shown, groups, born, queue, sent,
          reply>>
      BY DEF Gateway!Rearrange, Gateway!Page, Gateway!Jobs
<1>3. GatewayTyped'
      BY <1>1, <1>2 DEF GatewayTyped
<1>4. NewsTrue'
      BY <1>1, <1>2 DEF NewsTrue
<1>5. ThingsOrWill => ThingsOrWill'
      BY <1>2 DEF ThingsOrWill, Coming, Installed, WillCome, InNews, InQueue, Brings
<1>6. GroupsOrWill'
      <2>1. groupsWs = "open" => groupNews' > 0
            BY <1>1, <1>2 DEF GatewayTyped
      <2> QED BY <1>2, <2>1 DEF GroupsOrWill, GroupsLater
<1>7. ModelsOf => ModelsOf'
      BY <1>2 DEF ModelsOf
<1> QED BY <1>1, <1>3, <1>4, <1>5, <1>6, <1>7 DEF GatewayInv

\* All is asked for once more.
LEMMA AllAsked ==
  ASSUME GatewayTyped, queue' = Append(queue, Gateway!All), UNCHANGED <<reply, sent>>
  PROVE  /\ queue' \in Seq(GatewayJob) /\ queue' # <<>>
         /\ \A i \in DOMAIN queue' : queue'[i].do # "all" => queue'[i].thing \in Thing
         /\ ThingsOrWill' /\ GroupsOrWill'
<1>1. Gateway!All \in GatewayJob /\ Gateway!All.do = "all"
      BY DEF Gateway!All, GatewayJob
<1>2. /\ queue' \in Seq(GatewayJob) /\ queue' # <<>>
      /\ \A i \in DOMAIN queue' : queue'[i].do # "all" => queue'[i].thing \in Thing
      /\ AllQueued' /\ \A t \in Thing : InQueue(t)'
      BY <1>1, QueueGrows
<1> QED BY <1>2 DEF ThingsOrWill, WillCome, GroupsOrWill, GroupsLater

\* The socket of things opens.
LEMMA GatewayOpens == GatewayInv /\ Gateway!Open => GatewayInv'
<1> SUFFICES ASSUME GatewayInv, Gateway!Open PROVE GatewayInv'
    OBVIOUS
<1>1. GatewayTyped /\ NewsTrue /\ (~Returns => ModelsOf)
      BY DEF GatewayInv
<1>2. /\ ws = "opening" /\ ws' = "open" /\ heard' = {t \in born : has[t] # 0}
      /\ queue' = Append(queue, Gateway!All)
      /\ UNCHANGED <<has, gone, layout, changes, news, groupNews, groupsWs, shown, groups, born,
          sent, reply>>
      BY DEF Gateway!Open, Gateway!Refreshed, Gateway!Page, Gateway!Gateway
<1>3. /\ queue' \in Seq(GatewayJob) /\ queue' # <<>>
      /\ \A i \in DOMAIN queue' : queue'[i].do # "all" => queue'[i].thing \in Thing
      /\ ThingsOrWill' /\ GroupsOrWill'
      BY <1>1, <1>2, AllAsked
<1>4. GatewayTyped'
      BY <1>1, <1>2, <1>3 DEF GatewayTyped
<1>5. NewsTrue'
      BY <1>1, <1>2 DEF NewsTrue
<1>6. ModelsOf => ModelsOf'
      BY <1>2 DEF ModelsOf
<1> QED BY <1>1, <1>3, <1>4, <1>5, <1>6 DEF GatewayInv

\* The socket of groups opens, or brings news.
LEMMA GatewayOpensGroups ==
  ASSUME GatewayInv, queue' = Append(queue, Gateway!All), groupNews' \in Nat,
         UNCHANGED <<has, gone, layout, changes, news, ws, heard, shown, groups, born, sent,
             reply>>
  PROVE  GatewayInv'
<1>1. GatewayTyped /\ NewsTrue /\ (~Returns => ModelsOf)
      BY DEF GatewayInv
<1>3. /\ queue' \in Seq(GatewayJob) /\ queue' # <<>>
      /\ \A i \in DOMAIN queue' : queue'[i].do # "all" => queue'[i].thing \in Thing
      /\ ThingsOrWill' /\ GroupsOrWill'
      BY <1>1, AllAsked
<1>4. GatewayTyped'
      BY <1>1, <1>3 DEF GatewayTyped
<1>5. NewsTrue'
      BY <1>1 DEF NewsTrue
<1>6. ModelsOf => ModelsOf'
      BY DEF ModelsOf
<1> QED BY <1>1, <1>3, <1>4, <1>5, <1>6 DEF GatewayInv

\* The socket of things is lost or opened once more: no news, and nothing is owed yet.
LEMMA GatewayLoses ==
  ASSUME GatewayInv, ws' \in {"opening", "down"}, news' = <<>>,
         UNCHANGED <<has, gone, layout, changes, groupNews, shown, groups, born, queue, sent,
             reply>>
  PROVE  GatewayInv'
<1>1. GatewayTyped /\ (~Returns => ModelsOf)
      BY DEF GatewayInv
<1>2. GatewayTyped'
      <2>1. <<>> \in Seq(Gateway!News)
            OBVIOUS
      <2> QED BY <1>1, <2>1 DEF GatewayTyped
<1>3. NewsTrue'
      BY DEF NewsTrue
<1>4. ThingsOrWill' /\ GroupsOrWill'
      BY DEF ThingsOrWill, GroupsOrWill
<1>5. ModelsOf => ModelsOf'
      BY DEF ModelsOf
<1> QED BY <1>1, <1>2, <1>3, <1>4, <1>5 DEF GatewayInv

\* The same of the socket of groups.
LEMMA GatewayLosesGroups ==
  ASSUME GatewayInv, groupsWs' # "open", groupNews' \in Nat,
         UNCHANGED <<has, gone, layout, changes, news, ws, heard, shown, groups, born, queue,
             sent, reply>>
  PROVE  GatewayInv'
<1>1. GatewayTyped /\ NewsTrue /\ (~Overtakes => ThingsOrWill) /\ (~Returns => ModelsOf)
      BY DEF GatewayInv
<1>2. GatewayTyped'
      BY <1>1 DEF GatewayTyped
<1>3. NewsTrue'
      BY <1>1 DEF NewsTrue
<1>4. ThingsOrWill => ThingsOrWill'
      BY DEF ThingsOrWill, Coming, Installed, WillCome, InNews, InQueue, Brings
<1>5. GroupsOrWill'
      BY DEF GroupsOrWill
<1>6. ModelsOf => ModelsOf'
      BY DEF ModelsOf
<1> QED BY <1>1, <1>2, <1>3, <1>4, <1>5, <1>6 DEF GatewayInv

\* News is heard.
LEMMA GatewayHears == GatewayInv /\ Gateway!Hear => GatewayInv'
<1> SUFFICES ASSUME GatewayInv, Gateway!Hear PROVE GatewayInv'
    OBVIOUS
<1>1. GatewayTyped /\ NewsTrue /\ (~Overtakes => ThingsOrWill /\ GroupsOrWill)
        /\ (~Returns => ModelsOf)
      BY DEF GatewayInv
<1>0. PICK m, ask : m = Head(news) /\ ask = [do |-> "get", thing |-> m.thing]
      OBVIOUS
<1>2. /\ ws = "open" /\ news # <<>> /\ news' = Tail(news) /\ (~Overtakes => ~reply.is)
      /\ queue' = CASE m.type = "thingAdded" -> Append(queue, Gateway!All)
                    [] m.type = "thingModified" -> Append(queue, ask)
                    [] OTHER -> queue
      /\ shown' = IF m.type = "thingRemoved" THEN [shown EXCEPT ![m.thing] = 0] ELSE shown
      /\ UNCHANGED <<has, gone, layout, changes, groupNews, ws, groupsWs, heard, groups, born,
          sent, reply>>
      BY <1>0 DEF Gateway!Hear, Gateway!InOrder, Gateway!Gateway
<1>3. news \in Seq(Gateway!News)
      BY <1>1 DEF GatewayTyped
<1>4. /\ Tail(news) \in Seq(Gateway!News) /\ m = news[1] /\ 1 \in DOMAIN news
      /\ m \in Gateway!News
      /\ \A i \in DOMAIN Tail(news) :
          i \in Nat /\ i + 1 \in DOMAIN news /\ Tail(news)[i] = news[i + 1]
      /\ \A i \in DOMAIN news : i > 1
          => i - 1 \in DOMAIN Tail(news) /\ Tail(news)[i - 1] = news[i]
      /\ DOMAIN news \subseteq Nat /\ \A i \in DOMAIN news : i >= 1
      <2>1. DOMAIN news = 1 .. Len(news) /\ Len(news) \in Nat
            BY <1>3
      <2> QED BY <1>0, <1>2, <1>3, <2>1, OneLess
<1>5. m.thing \in Thing /\ m.type \in {"thingAdded", "thingModified", "thingRemoved"}
      BY <1>4 DEF Gateway!News
<1>6. /\ m.type = "thingAdded" => queue' = Append(queue, Gateway!All)
      /\ m.type = "thingModified" => queue' = Append(queue, ask)
      /\ m.type = "thingRemoved" => queue' = queue
      BY <1>2
<1>7. /\ ask \in GatewayJob /\ ask.do = "get" /\ ask.thing = m.thing
      /\ Gateway!All \in GatewayJob /\ Gateway!All.do = "all"
      BY <1>0, <1>5 DEF Gateway!All, GatewayJob
<1>8. /\ queue' \in Seq(GatewayJob) /\ (sent => queue' # <<>>)
      /\ \A i \in DOMAIN queue' : queue'[i].do # "all" => queue'[i].thing \in Thing
      /\ AllQueued => AllQueued'
      /\ \A t \in Thing : InQueue(t) => InQueue(t)'
      /\ m.type = "thingAdded" => \A t \in Thing : InQueue(t)'
      /\ m.type = "thingModified" /\ has[m.thing] # 0 => InQueue(m.thing)'
      <2>1. CASE m.type = "thingAdded"
            BY <1>1, <1>2, <1>6, <1>7, <2>1, QueueGrows
      <2>2. CASE m.type = "thingModified"
            <3>1. queue' = Append(queue, ask)
                  BY <1>6, <2>2
            <3>2. /\ queue' \in Seq(GatewayJob) /\ queue' # <<>>
                  /\ \A i \in DOMAIN queue' : queue'[i].do # "all" => queue'[i].thing \in Thing
                  /\ AllQueued => AllQueued'
                  /\ \A t \in Thing : InQueue(t) /\ has'[t] = has[t] => InQueue(t)'
                  /\ \A t \in Thing :
                      ask.do = "all" \/ (ask.do = "get" /\ ask.thing = t /\ has'[t] # 0)
                                       => InQueue(t)'
                  BY <1>1, <1>2, <1>5, <1>7, <3>1, QueueGrows
            <3> QED BY <1>2, <1>5, <1>7, <2>2, <3>2
      <2>3. CASE m.type = "thingRemoved"
            BY <1>1, <1>2, <1>6, <2>3 DEF GatewayTyped, AllQueued, InQueue, Brings
      <2> QED BY <1>5, <2>1, <2>2, <2>3
<1>9. /\ shown' \in [Thing -> Nat]
      /\ \A t \in Thing : t # m.thing => shown'[t] = shown[t]
      /\ m.type = "thingRemoved" => shown'[m.thing] = 0
      /\ m.type # "thingRemoved" => shown' = shown
      BY <1>1, <1>2, <1>5 DEF GatewayTyped
<1>10. GatewayTyped'
       BY <1>1, <1>2, <1>4, <1>8, <1>9 DEF GatewayTyped
<1>11. NewsTrue'
       <2> SUFFICES ASSUME NEW i \in DOMAIN news',
                           \A k \in DOMAIN news' : k > i => news'[k].thing # news'[i].thing
                    PROVE  news'[i].type = "thingRemoved" <=> has[news'[i].thing] = 0
           BY <1>2 DEF NewsTrue
       <2>1. i \in Nat /\ i + 1 \in DOMAIN news /\ news'[i] = news[i + 1]
             BY <1>2, <1>4
       <2>2. ASSUME NEW k \in DOMAIN news, k > i + 1 PROVE news[k].thing # news[i + 1].thing
             <3>1. k \in Nat /\ k > 1
                   BY <1>4, <2>1, <2>2
             <3>2. k - 1 \in DOMAIN news' /\ news'[k - 1] = news[k] /\ k - 1 > i
                   BY <1>2, <1>4, <2>1, <2>2, <3>1
             <3> QED BY <2>1, <3>2
       <2> QED BY <1>1, <2>1, <2>2 DEF NewsTrue
<1>12. \A t \in Thing : InNews(t) /\ t # m.thing => InNews(t)'
       <2> SUFFICES ASSUME NEW t \in Thing, t # m.thing, NEW i \in DOMAIN news, news[i].thing = t
                    PROVE  InNews(t)'
           BY DEF InNews
       <2>1. i \in Nat /\ i > 1
             BY <1>4
       <2>2. i - 1 \in DOMAIN news' /\ news'[i - 1].thing = t
             BY <1>2, <1>4, <2>1
       <2> QED BY <2>2 DEF InNews
<1>13. (m.type = "thingRemoved" <=> has[m.thing] = 0) \/ InNews(m.thing)'
       <2> SUFFICES ASSUME ~(m.type = "thingRemoved" <=> has[m.thing] = 0) PROVE InNews(m.thing)'
           OBVIOUS
       <2>1. PICK k \in DOMAIN news : k > 1 /\ news[k].thing = m.thing
             BY <1>1, <1>4 DEF NewsTrue
       <2>2. k - 1 \in DOMAIN news' /\ news'[k - 1].thing = m.thing
             BY <1>2, <1>4, <2>1
       <2> QED BY <2>2 DEF InNews
<1>14. ASSUME ~Overtakes PROVE ThingsOrWill' /\ GroupsOrWill'
       <2>1. ~reply.is /\ reply' = reply
             BY <1>2, <1>14
       <2>2. ASSUME NEW t \in Thing PROVE shown'[t] = has[t] \/ WillCome(t)'
             <3>1. CASE t # m.thing
                   <4>1. shown[t] = has[t] \/ WillCome(t)
                         BY <1>1, <1>2, <1>14, <2>1 DEF ThingsOrWill, Coming
                   <4> QED BY <1>8, <1>9, <1>12, <3>1, <4>1 DEF WillCome
             <3>2. CASE t = m.thing
                   BY <1>5, <1>8, <1>9, <1>13, <3>2 DEF WillCome
             <3> QED BY <3>1, <3>2
       <2>3. ThingsOrWill'
             BY <1>2, <2>1, <2>2 DEF ThingsOrWill, Coming
       <2>4. GroupsOrWill'
             BY <1>1, <1>2, <1>8, <1>14, <2>1 DEF GroupsOrWill, GroupsComing, GroupsLater
       <2> QED BY <2>3, <2>4
<1>15. ASSUME ~Returns PROVE ModelsOf'
       <2>1. \A t \in Thing : shown'[t] # 0 => shown[t] # 0
             BY <1>5, <1>9
       <2> QED BY <1>1, <1>2, <1>15, <2>1 DEF ModelsOf
<1> QED BY <1>10, <1>11, <1>14, <1>15 DEF GatewayInv

\* The user asks.
LEMMA GatewayAsks == ASSUME GatewayInv, NEW t \in Thing, Gateway!Ask(t) PROVE GatewayInv'
<1>1. GatewayTyped /\ NewsTrue /\ (~Overtakes => ThingsOrWill /\ GroupsOrWill)
        /\ (~Returns => ModelsOf)
      BY DEF GatewayInv
<1>2. UNCHANGED <<has, gone, layout, changes, news, groupNews, ws, groupsWs, heard, shown, groups,
        born, sent, reply>>
      BY DEF Gateway!Ask, Gateway!Page, Gateway!Gateway, Gateway!Sockets
<1>3. PICK do \in {"remove", "update", "get"} : queue' = Append(queue, [do |-> do, thing |-> t])
      BY DEF Gateway!Ask
<1>4. [do |-> do, thing |-> t] \in GatewayJob
      BY DEF GatewayJob
<1>5. /\ queue' \in Seq(GatewayJob) /\ queue' # <<>>
      /\ \A i \in DOMAIN queue' : queue'[i].do # "all" => queue'[i].thing \in Thing
      /\ reply.is => Head(queue') = Head(queue)
      /\ AllQueued => AllQueued'
      /\ \A u \in Thing : InQueue(u) => InQueue(u)'
      BY <1>1, <1>2, <1>3, <1>4, QueueGrows
<1>6. GatewayTyped'
      BY <1>1, <1>2, <1>5 DEF GatewayTyped
<1>7. NewsTrue'
      BY <1>1, <1>2 DEF NewsTrue
<1>8. ThingsOrWill => ThingsOrWill'
      BY <1>2, <1>5 DEF ThingsOrWill, Coming, Installed, WillCome, InNews
<1>9. GroupsOrWill => GroupsOrWill'
      BY <1>2, <1>5 DEF GroupsOrWill, GroupsComing, GroupsLater
<1>10. ModelsOf => ModelsOf'
      BY <1>2 DEF ModelsOf
<1> QED BY <1>1, <1>6, <1>7, <1>8, <1>9, <1>10 DEF GatewayInv

\* The head of the queue is run, or left out.
LEMMA GatewayRuns == GatewayInv /\ Gateway!Run => GatewayInv'
<1> SUFFICES ASSUME GatewayInv, Gateway!Run PROVE GatewayInv'
    OBVIOUS
<1>1. GatewayTyped /\ NewsTrue /\ (~Overtakes => ThingsOrWill /\ GroupsOrWill)
        /\ (~Returns => ModelsOf)
      BY DEF GatewayInv
<1>2. /\ queue # <<>> /\ ~sent
      /\ UNCHANGED <<has, gone, layout, changes, news, groupNews, ws, groupsWs, heard, shown,
          groups, born, reply>>
      BY DEF Gateway!Run, Gateway!Page, Gateway!Gateway, Gateway!Sockets
<1>3. ~reply.is /\ ~reply'.is
      BY <1>1, <1>2 DEF GatewayTyped
<1>4. CASE sent' = TRUE /\ queue' = queue
      <2>1. GatewayTyped'
            BY <1>1, <1>2, <1>4 DEF GatewayTyped
      <2>2. NewsTrue'
            BY <1>1, <1>2 DEF NewsTrue
      <2>3. ThingsOrWill => ThingsOrWill'
            BY <1>2, <1>4 DEF ThingsOrWill, Coming, Installed, WillCome, InNews, InQueue, Brings
      <2>4. GroupsOrWill => GroupsOrWill'
            BY <1>2, <1>4 DEF GroupsOrWill, GroupsComing, GroupsLater, AllQueued
      <2>5. ModelsOf => ModelsOf'
            BY <1>2 DEF ModelsOf
      <2> QED BY <1>1, <2>1, <2>2, <2>3, <2>4, <2>5 DEF GatewayInv
<1>5. CASE Head(queue).do \in {"remove", "update"} /\ queue' = Tail(queue) /\ sent' = sent
      <2>1. queue \in Seq(GatewayJob)
            BY <1>1 DEF GatewayTyped
      <2>2. Head(queue) = queue[1] /\ DOMAIN queue \subseteq Nat \ {0}
            <3>1. DOMAIN queue = 1 .. Len(queue) /\ Len(queue) \in Nat
                  BY <2>1
            <3> QED BY <1>2, <2>1, <3>1, OneLess
      <2>3. /\ queue' \in Seq(GatewayJob)
            /\ \A i \in DOMAIN queue' : queue'[i].do # "all" => queue'[i].thing \in Thing
            /\ \A t \in Thing, i \in DOMAIN queue :
                 i > 1 /\ Brings(queue[i], t) /\ has'[t] = has[t] => InQueue(t)'
            /\ \A i \in DOMAIN queue : i > 1 /\ queue[i].do = "all" => AllQueued'
            BY <1>1, <1>2, <1>3, <1>5, QueueRests
      <2>4. AllQueued => AllQueued'
            BY <1>5, <2>2, <2>3 DEF AllQueued
      <2>5. ASSUME NEW t \in Thing, InQueue(t) PROVE InQueue(t)'
            <3>1. PICK i \in DOMAIN queue : Brings(queue[i], t)
                  BY <2>5 DEF InQueue
            <3>2. i > 1
                  BY <1>5, <2>2, <3>1 DEF Brings
            <3> QED BY <1>2, <2>3, <3>1, <3>2
      <2>6. GatewayTyped'
            BY <1>1, <1>2, <1>3, <1>5, <2>3 DEF GatewayTyped
      <2>7. NewsTrue'
            BY <1>1, <1>2 DEF NewsTrue
      <2>8. ThingsOrWill => ThingsOrWill'
            BY <1>2, <1>3, <2>5 DEF ThingsOrWill, Coming, WillCome, InNews
      <2>9. GroupsOrWill => GroupsOrWill'
            BY <1>2, <1>3, <2>4 DEF GroupsOrWill, GroupsComing, GroupsLater
      <2>10. ModelsOf => ModelsOf'
            BY <1>2 DEF ModelsOf
      <2> QED BY <1>1, <2>6, <2>7, <2>8, <2>9, <2>10 DEF GatewayInv
<1> QED BY <1>4, <1>5 DEF Gateway!Run

\* The gateway serves the head.
LEMMA GatewayServes == GatewayInv /\ Gateway!Serve => GatewayInv'
<1> SUFFICES ASSUME GatewayInv, Gateway!Serve PROVE GatewayInv'
    OBVIOUS
<1>1. GatewayTyped /\ NewsTrue /\ (~Overtakes => ThingsOrWill /\ GroupsOrWill)
        /\ (~Returns => ModelsOf)
      BY DEF GatewayInv
<1>0. PICK j : j = Head(queue)
      OBVIOUS
<1>2. /\ sent /\ ~reply.is /\ layout' = layout
      /\ reply' = [things |-> has, layout |-> layout, is |-> TRUE]
      /\ UNCHANGED <<groupNews, ws, groupsWs, heard, shown, groups, born, queue, sent>>
      BY DEF Gateway!Serve, Gateway!Page, Gateway!Gateway
<1>3. /\ reply'.things = has /\ reply'.layout = layout /\ reply'.is
      /\ reply' \in [things : [Thing -> Nat], layout : Nat, is : BOOLEAN]
      BY <1>1, <1>2 DEF GatewayTyped
<1>4. queue \in Seq(GatewayJob) /\ queue # <<>>
      BY <1>1, <1>2 DEF GatewayTyped
<1>5. /\ j = queue[1] /\ 1 \in DOMAIN queue /\ DOMAIN queue \subseteq Nat \ {0}
      /\ j \in GatewayJob /\ (j.do # "all" => j.thing \in Thing)
      <2>1. DOMAIN queue = 1 .. Len(queue) /\ Len(queue) \in Nat
            BY <1>4
      <2> QED BY <1>0, <1>1, <1>4, <2>1, OneLess DEF GatewayTyped
<1>6. j.do \in {"all", "get", "remove", "update"}
      BY <1>5 DEF GatewayJob
<1>7. \A t \in Thing :
        Coming(t)' = IF j.do = "all" \/ (j.do = "get" /\ j.thing = t /\ has[t] # 0) THEN has[t]
                                   ELSE IF j.do = "remove" /\ j.thing = t THEN 0 ELSE shown[t]
      BY <1>0, <1>2, <1>3 DEF Coming, Installed
<1>8. ASSUME NEW t \in Thing, InQueue(t), ~Brings(j, t), has'[t] = has[t] PROVE InQueue(t)'
      <2>1. PICK i \in DOMAIN queue : Brings(queue[i], t)
            BY <1>8 DEF InQueue
      <2>2. i > 1
            BY <1>5, <1>8, <2>1
      <2> QED BY <1>2, <1>8, <2>1, <2>2 DEF InQueue, Brings
<1>9. ~Overtakes => GroupsOrWill'
      <2> SUFFICES ASSUME ~Overtakes, ws = "open", groupsWs = "open" PROVE GroupsComing' = layout
          \/ GroupsLater'
          BY <1>2 DEF GroupsOrWill
      <2>1. groups = layout \/ GroupsLater
            BY <1>1, <1>2 DEF GroupsOrWill, GroupsComing
      <2>2. CASE j.do = "all"
            BY <1>0, <1>2, <1>3, <2>2 DEF GroupsComing
      <2>3. CASE j.do # "all"
            <3>1. GroupsComing' = groups
                  BY <1>0, <1>2, <2>3 DEF GroupsComing
            <3>2. AllQueued => AllQueued'
                  <4> SUFFICES ASSUME NEW i \in DOMAIN queue, queue[i].do = "all" PROVE AllQueued'
                      BY DEF AllQueued
                  <4>1. i > 1
                        BY <1>5, <2>3
                  <4> QED BY <1>2, <4>1 DEF AllQueued
            <3> QED BY <1>2, <2>1, <3>1, <3>2 DEF GroupsLater
      <2> QED BY <2>2, <2>3
<1>10. CASE j.do \in {"remove", "update"} /\ has[j.thing] # 0
       <2> DEFINE to == IF j.do = "remove" THEN 0 ELSE changes + 1
                  type == IF j.do = "remove" THEN "thingRemoved" ELSE "thingModified"
       <2>1. /\ j.thing \in Thing /\ changes' = changes + 1
             /\ has' = [has EXCEPT ![j.thing] = to] /\ Gateway!Told(type, j.thing)
             /\ gone' = IF j.do = "remove" THEN gone \union {j.thing} ELSE gone
             BY <1>0, <1>5, <1>10 DEF Gateway!Serve
       <2>2. to \in Nat /\ type \in {"thingAdded", "thingModified", "thingRemoved"}
             /\ (type = "thingRemoved" <=> to = 0) /\ (to = 0 <=> j.do = "remove")
             BY <1>1 DEF GatewayTyped
       <2> HIDE DEF to, type
       <2>3. /\ has' \in [Thing -> Nat] /\ has'[j.thing] = to
             /\ \A u \in Thing : u # j.thing => has'[u] = has[u]
             /\ news' \in Seq(Gateway!News) /\ (ws # "open" => news' = <<>>)
             /\ NewsTrue'
             /\ ws = "open" => InNews(j.thing)' /\ \A u \in Thing : InNews(u) => InNews(u)'
             BY <1>1, <1>2, <2>1, <2>2, ThingChanges
       <2>4. GatewayTyped'
             BY <1>1, <1>2, <1>3, <2>1, <2>3 DEF GatewayTyped
       <2>5. ASSUME ~Overtakes PROVE ThingsOrWill'
             <3> SUFFICES ASSUME NEW t \in Thing, ws = "open" PROVE Coming(t)' = has'[t]
                 \/ WillCome(t)'
                 BY <1>2 DEF ThingsOrWill
             <3>1. CASE t = j.thing
                   BY <2>3, <3>1 DEF WillCome
             <3>2. CASE t # j.thing
                   <4>1. Coming(t)' = shown[t] /\ has'[t] = has[t]
                         BY <1>7, <1>10, <2>3, <3>2
                   <4>2. shown[t] = has[t] \/ WillCome(t)
                         BY <1>1, <1>2, <2>5 DEF ThingsOrWill, Coming
                   <4>3. InQueue(t) => InQueue(t)'
                         BY <1>8, <1>10, <4>1 DEF Brings
                   <4> QED BY <2>3, <4>1, <4>2, <4>3 DEF WillCome
             <3> QED BY <3>1, <3>2
       <2>6. ASSUME ~Returns PROVE ModelsOf'
             <3>1. ModelsOf
                   BY <1>1, <2>6
             <3> SUFFICES ASSUME NEW u \in Thing
                          PROVE  /\ u \in gone' => has'[u] = 0
                                 /\ shown[u] # 0 \/ has[u] # 0 => has'[u] # 0 \/ u \in gone'
                                 /\ shown[u] # 0 => u \in born
                                 /\ ws = "open" /\ shown[u] # 0 /\ has'[u] # 0 => u \in heard
                 BY <1>2, <1>3 DEF ModelsOf
             <3>2. CASE u = j.thing
                   BY <1>10, <2>1, <2>2, <2>3, <3>1, <3>2 DEF ModelsOf
             <3>3. CASE u # j.thing
                   BY <2>1, <2>3, <3>1, <3>3 DEF ModelsOf
             <3> QED BY <3>2, <3>3
       <2> QED BY <1>9, <2>3, <2>4, <2>5, <2>6 DEF GatewayInv
<1>11. CASE ~(j.do \in {"remove", "update"} /\ has[j.thing] # 0)
       <2>1. UNCHANGED <<has, gone, layout, changes, news>>
             BY <1>0, <1>11 DEF Gateway!Serve, Gateway!Gateway
       <2>2. GatewayTyped'
             BY <1>1, <1>2, <1>3, <2>1 DEF GatewayTyped
       <2>3. NewsTrue'
             BY <1>1, <2>1 DEF NewsTrue
       <2>4. ASSUME ~Overtakes PROVE ThingsOrWill'
             <3> SUFFICES ASSUME NEW t \in Thing, ws = "open" PROVE Coming(t)' = has[t]
                 \/ WillCome(t)'
                 BY <1>2, <2>1 DEF ThingsOrWill
             <3>1. shown[t] = has[t] \/ WillCome(t)
                   BY <1>1, <1>2, <2>4 DEF ThingsOrWill, Coming
             <3>2. CASE Brings(j, t)
                   BY <1>7, <3>2 DEF Brings
             <3>3. CASE ~Brings(j, t)
                   <4>1. Coming(t)' = shown[t] \/ Coming(t)' = has[t]
                         BY <1>7, <1>11, <3>3 DEF Brings
                   <4>2. WillCome(t) => WillCome(t)'
                         BY <1>8, <2>1, <3>3 DEF WillCome, InNews
                   <4> QED BY <3>1, <4>1, <4>2
             <3> QED BY <3>2, <3>3
       <2>5. ASSUME ~Returns PROVE ModelsOf'
             <3>1. ModelsOf
                   BY <1>1, <2>5
             <3> QED BY <1>2, <1>3, <2>1, <3>1 DEF ModelsOf
       <2> QED BY <1>9, <2>2, <2>3, <2>4, <2>5 DEF GatewayInv
<1> QED BY <1>10, <1>11

\* What an answer leaves on the page.
LEMMA AnswerShows ==
  ASSUME GatewayTyped, Gateway!Answer
  PROVE  /\ shown' \in [Thing -> Nat]
         /\ ws = "open" => /\ \A t \in Thing : shown'[t] = Installed(Head(queue), t)
                           /\ groups' = IF Head(queue).do = "all" THEN reply.layout ELSE groups
         /\ \A t \in Thing : shown'[t] # 0 => shown[t] # 0 \/ reply.things[t] # 0
         /\ \A t \in Thing : shown'[t] # 0 => shown[t] # 0 \/ t \in born'
         /\ \A t \in Thing : ws = "open" /\ shown'[t] # 0 /\ has[t] # 0
             => shown[t] # 0 \/ t \in heard'
         /\ born \subseteq born' /\ heard \subseteq heard'
<1>0. PICK j : j = Head(queue)
      OBVIOUS
<1>1. /\ shown \in [Thing -> Nat] /\ queue \in Seq(GatewayJob) /\ queue # <<>>
      /\ reply \in [things : [Thing -> Nat], layout : Nat, is : BOOLEAN]
      BY DEF GatewayTyped, Gateway!Answer
<1>2. j \in GatewayJob /\ (j.do # "all" => j.thing \in Thing)
      BY <1>0, <1>1, OneLess DEF GatewayTyped
<1>3. j.do \in {"all", "get", "remove", "update"}
      BY <1>2 DEF GatewayJob
<1>4. CASE j.do = "all" /\ Gateway!Set(Thing, TRUE)
      <2>1. CASE ws = "down" /\ {t \in Thing : reply.things[t] # 0} \ Gateway!Known # {}
            <3>1. UNCHANGED <<heard, born, groups>>
                  BY <1>4, <2>1 DEF Gateway!Set
            <3>2. PICK done \in SUBSET (Thing \cap Gateway!Known) :
                    shown' = [t \in Thing |-> IF t \in done /\ reply.things[t] # 0
                                              THEN reply.things[t] ELSE shown[t]]
                  BY <1>4, <2>1 DEF Gateway!Set
            <3> QED BY <1>1, <2>1, <3>1, <3>2 DEF Gateway!Known
      <2>2. CASE ~(ws = "down" /\ {t \in Thing : reply.things[t] # 0} \ Gateway!Known # {})
            <3> DEFINE new == {t \in Thing : reply.things[t] # 0} \ Gateway!Known
            <3>1. /\ shown' = [t \in Thing |-> IF t \in Thing THEN reply.things[t] ELSE shown[t]]
                  /\ heard' = heard
                      \union (Gateway!Subscribes(new) \cap {t \in Thing : has[t] # 0})
                  /\ born' = born \union new
                  /\ groups' = reply.layout
                  BY <1>4, <2>2 DEF Gateway!Set
            <3>2. \A t \in Thing : shown'[t] = reply.things[t]
                  BY <3>1
            <3>3. shown' \in [Thing -> Nat]
                  BY <1>1, <3>1
            <3>4. \A t \in Thing : shown'[t] # 0 /\ shown[t] = 0 => t \in new
                  BY <3>2 DEF Gateway!Known
            <3> HIDE DEF new
            <3>5. \A t \in Thing : Installed(Head(queue), t) = reply.things[t]
                  BY <1>0, <1>4 DEF Installed
            <3> QED BY <1>0, <1>4, <3>1, <3>2, <3>3, <3>4, <3>5 DEF Gateway!Subscribes
      <2> QED BY <2>1, <2>2
<1>5. CASE j.do = "get" /\ reply.things[j.thing] # 0 /\ Gateway!Set({j.thing}, FALSE)
      <2>1. CASE ws = "down" /\ {t \in {j.thing} : reply.things[t] # 0} \ Gateway!Known # {}
            <3>1. UNCHANGED <<heard, born, groups>>
                  BY <1>5, <2>1 DEF Gateway!Set
            <3>2. PICK done \in SUBSET ({j.thing} \cap Gateway!Known) :
                    shown' = [t \in Thing |-> IF t \in done /\ reply.things[t] # 0
                                              THEN reply.things[t] ELSE shown[t]]
                  BY <1>5, <2>1 DEF Gateway!Set
            <3> QED BY <1>1, <2>1, <3>1, <3>2 DEF Gateway!Known
      <2>2. CASE ~(ws = "down" /\ {t \in {j.thing} : reply.things[t] # 0} \ Gateway!Known # {})
            <3> DEFINE new == {t \in {j.thing} : reply.things[t] # 0} \ Gateway!Known
            <3>1. /\ shown' = [t \in Thing |-> IF t \in {j.thing} THEN reply.things[t]
                      ELSE shown[t]]
                  /\ heard' = heard
                      \union (Gateway!Subscribes(new) \cap {t \in Thing : has[t] # 0})
                  /\ born' = born \union new
                  /\ groups' = groups
                  BY <1>5, <2>2 DEF Gateway!Set
            <3>2. \A t \in Thing : shown'[t] = IF t = j.thing THEN reply.things[t] ELSE shown[t]
                  BY <3>1
            <3>3. shown' \in [Thing -> Nat]
                  BY <1>1, <3>1
            <3>4. \A t \in Thing : shown'[t] # 0 /\ shown[t] = 0 => t \in new
                  BY <3>2 DEF Gateway!Known
            <3> HIDE DEF new
            <3>5. \A t \in Thing :
                    Installed(Head(queue), t) = IF t = j.thing THEN reply.things[t] ELSE shown[t]
                  BY <1>0, <1>5 DEF Installed
            <3> QED BY <1>0, <1>5, <3>1, <3>2, <3>3, <3>4, <3>5 DEF Gateway!Subscribes
      <2> QED BY <2>1, <2>2
<1>6. CASE j.do = "remove" /\ shown' = [shown EXCEPT ![j.thing] = 0]
             /\ UNCHANGED <<heard, born, groups>>
      <2>1. \A t \in Thing : shown'[t] = IF t = j.thing THEN 0 ELSE shown[t]
            BY <1>1, <1>6
      <2>2. \A t \in Thing : Installed(Head(queue), t) = IF t = j.thing THEN 0 ELSE shown[t]
            BY <1>0, <1>6 DEF Installed
      <2> QED BY <1>0, <1>1, <1>6, <2>1, <2>2
<1>7. CASE /\ j.do = "update" \/ (j.do = "get" /\ reply.things[j.thing] = 0)
           /\ UNCHANGED <<shown, heard, born, groups>>
      <2>1. \A t \in Thing : Installed(Head(queue), t) = shown[t]
            BY <1>0, <1>7 DEF Installed
      <2> QED BY <1>0, <1>1, <1>7, <2>1
<1>8. (CASE j.do = "all" -> Gateway!Set(Thing, TRUE)
         [] j.do = "get" /\ reply.things[j.thing] # 0 -> Gateway!Set({j.thing}, FALSE)
         [] j.do = "remove" -> shown' = [shown EXCEPT ![j.thing] = 0]
             /\ UNCHANGED <<heard, born, groups>>
         [] OTHER -> UNCHANGED <<shown, heard, born, groups>>)
      BY <1>0, Zenon DEF Gateway!Answer
<1> QED BY <1>3, <1>4, <1>5, <1>6, <1>7, <1>8

\* The answer comes.
LEMMA GatewayAnswers == GatewayInv /\ Gateway!Answer => GatewayInv'
<1> SUFFICES ASSUME GatewayInv, Gateway!Answer PROVE GatewayInv'
    OBVIOUS
<1>1. GatewayTyped /\ NewsTrue /\ (~Overtakes => ThingsOrWill /\ GroupsOrWill)
        /\ (~Returns => ModelsOf)
      BY DEF GatewayInv
<1>2. /\ sent /\ reply.is /\ sent' = FALSE /\ reply' = Gateway!NoReply
      /\ UNCHANGED <<has, gone, layout, changes, news, groupNews, ws, groupsWs>>
      BY DEF Gateway!Answer, Gateway!Gateway
<1>3. /\ reply' \in [things : [Thing -> Nat], layout : Nat, is : BOOLEAN]
      /\ ~reply'.is /\ \A t \in Thing : reply'.things[t] = 0
      BY <1>2 DEF Gateway!NoReply
<1>4. queue \in Seq(GatewayJob) /\ queue # <<>>
      BY <1>1, <1>2 DEF GatewayTyped
<1>5. Head(queue) = queue[1] /\ Head(queue) \in GatewayJob
        /\ (Head(queue).do # "all" => Head(queue).thing \in Thing)
      BY <1>1, <1>4, OneLess DEF GatewayTyped
<1>6. \/ queue' = Tail(queue)
      \/ \E e \in GatewayJob : e.thing \in Thing /\ queue' = Append(Tail(queue), e)
      <2>1. CASE Head(queue).do # "update"
            BY <2>1 DEF Gateway!Answer
      <2>2. CASE Head(queue).do = "update"
            <3>1. PICK e : e = [do |-> "get", thing |-> Head(queue).thing]
                  OBVIOUS
            <3>2. queue' = Append(Tail(queue), e)
                  BY <2>2, <3>1 DEF Gateway!Answer
            <3>3. e \in GatewayJob /\ e.thing \in Thing
                  BY <1>5, <2>2, <3>1 DEF GatewayJob
            <3> QED BY <3>2, <3>3
      <2> QED BY <2>1, <2>2
<1>7. /\ queue' \in Seq(GatewayJob)
      /\ \A i \in DOMAIN queue' : queue'[i].do # "all" => queue'[i].thing \in Thing
      /\ \A t \in Thing, i \in DOMAIN queue :
           i > 1 /\ Brings(queue[i], t) /\ has'[t] = has[t] => InQueue(t)'
      /\ \A i \in DOMAIN queue : i > 1 /\ queue[i].do = "all" => AllQueued'
      BY <1>1, <1>3, <1>4, <1>6, QueueRests
<1>8. /\ shown' \in [Thing -> Nat]
      /\ ws = "open" => /\ \A t \in Thing : shown'[t] = Installed(Head(queue), t)
                        /\ groups' = IF Head(queue).do = "all" THEN reply.layout ELSE groups
      /\ \A t \in Thing : shown'[t] # 0 => shown[t] # 0 \/ reply.things[t] # 0
      /\ \A t \in Thing : shown'[t] # 0 => shown[t] # 0 \/ t \in born'
      /\ \A t \in Thing : ws = "open" /\ shown'[t] # 0 /\ has[t] # 0
          => shown[t] # 0 \/ t \in heard'
      /\ born \subseteq born' /\ heard \subseteq heard'
      BY <1>1, AnswerShows
<1>9. GatewayTyped'
      BY <1>1, <1>2, <1>3, <1>7, <1>8 DEF GatewayTyped
<1>10. NewsTrue'
       BY <1>1, <1>2 DEF NewsTrue
<1>11. ASSUME ~Overtakes PROVE ThingsOrWill' /\ GroupsOrWill'
       <2>1. ASSUME ws = "open", NEW t \in Thing PROVE Coming(t)' = has[t] \/ WillCome(t)'
             <3>1. Coming(t)' = Coming(t)
                   BY <1>2, <1>3, <1>8, <2>1 DEF Coming
             <3>2. Coming(t) = has[t] \/ WillCome(t)
                   BY <1>1, <1>11, <2>1 DEF ThingsOrWill
             <3>3. InQueue(t) => InQueue(t)'
                   BY <1>2, <1>7 DEF InQueue
             <3>4. InNews(t) => InNews(t)'
                   BY <1>2 DEF InNews
             <3> QED BY <3>1, <3>2, <3>3, <3>4 DEF WillCome
       <2>2. ThingsOrWill'
             BY <1>2, <2>1 DEF ThingsOrWill
       <2>3. ASSUME ws = "open", groupsWs = "open" PROVE GroupsComing' = layout \/ GroupsLater'
             <3>1. GroupsComing' = GroupsComing
                   BY <1>2, <1>3, <1>8, <2>3 DEF GroupsComing
             <3>2. AllQueued => AllQueued'
                   BY <1>2, <1>7 DEF AllQueued
             <3> QED BY <1>1, <1>2, <1>11, <2>3, <3>1, <3>2 DEF GroupsOrWill, GroupsLater
       <2>4. GroupsOrWill'
             BY <1>2, <2>3 DEF GroupsOrWill
       <2> QED BY <2>2, <2>4
<1>12. ASSUME ~Returns PROVE ModelsOf'
       <2>1. ModelsOf
             BY <1>1, <1>12
       <2> SUFFICES ASSUME NEW u \in Thing
                    PROVE  /\ u \in gone => has[u] = 0
                           /\ shown'[u] # 0 => has[u] # 0 \/ u \in gone
                           /\ shown'[u] # 0 => u \in born'
                           /\ ws = "open" /\ shown'[u] # 0 /\ has[u] # 0 => u \in heard'
           BY <1>2, <1>3 DEF ModelsOf
       <2> QED BY <1>8, <2>1 DEF ModelsOf
<1> QED BY <1>9, <1>10, <1>11, <1>12 DEF GatewayInv

\* The request fails.
LEMMA GatewayFails == GatewayInv /\ Gateway!Fail => GatewayInv'
<1> SUFFICES ASSUME GatewayInv, Gateway!Fail PROVE GatewayInv'
    OBVIOUS
<1>1. GatewayTyped /\ NewsTrue /\ (~Returns => ModelsOf)
      BY DEF GatewayInv
<1>2. /\ sent /\ ws # "open" /\ sent' = FALSE /\ reply' = Gateway!NoReply /\ queue' = Tail(queue)
      /\ UNCHANGED <<has, gone, layout, changes, news, groupNews, ws, groupsWs, heard, shown,
          groups, born>>
      BY DEF Gateway!Fail, Gateway!Gateway, Gateway!Sockets, Gateway!Page
<1>3. /\ reply' \in [things : [Thing -> Nat], layout : Nat, is : BOOLEAN]
      /\ ~reply'.is /\ \A t \in Thing : reply'.things[t] = 0
      BY <1>2 DEF Gateway!NoReply
<1>4. queue # <<>>
      BY <1>1, <1>2 DEF GatewayTyped
<1>5. /\ queue' \in Seq(GatewayJob)
      /\ \A i \in DOMAIN queue' : queue'[i].do # "all" => queue'[i].thing \in Thing
      BY <1>1, <1>2, <1>3, <1>4, QueueRests
<1>6. GatewayTyped'
      BY <1>1, <1>2, <1>3, <1>5 DEF GatewayTyped
<1>7. NewsTrue'
      BY <1>1, <1>2 DEF NewsTrue
<1>8. ThingsOrWill' /\ GroupsOrWill'
      BY <1>2 DEF ThingsOrWill, GroupsOrWill
<1>9. ModelsOf => ModelsOf'
      BY <1>2, <1>3 DEF ModelsOf
<1> QED BY <1>1, <1>6, <1>7, <1>8, <1>9 DEF GatewayInv

\* Nothing moves.
LEMMA GatewayRests == GatewayInv /\ UNCHANGED gatewayVars => GatewayInv'
<1> SUFFICES ASSUME GatewayInv, UNCHANGED gatewayVars PROVE GatewayInv'
    OBVIOUS
<1>1. UNCHANGED <<has, gone, layout, changes, news, groupNews, ws, groupsWs, heard, shown, groups,
        born,
                  queue, sent, reply>>
      BY DEF gatewayVars
<1>2. GatewayTyped /\ NewsTrue /\ (~Overtakes => ThingsOrWill /\ GroupsOrWill)
        /\ (~Returns => ModelsOf)
      BY DEF GatewayInv
<1>3. GatewayTyped'
      BY <1>1, <1>2 DEF GatewayTyped
<1>4. NewsTrue'
      BY <1>1, <1>2 DEF NewsTrue
<1>5. ThingsOrWill => ThingsOrWill'
      BY <1>1 DEF ThingsOrWill, Coming, Installed, WillCome, InNews, InQueue, Brings
<1>6. GroupsOrWill => GroupsOrWill'
      BY <1>1 DEF GroupsOrWill, GroupsComing, GroupsLater, AllQueued
<1>7. ModelsOf => ModelsOf'
      BY <1>1 DEF ModelsOf
<1> QED BY <1>2, <1>3, <1>4, <1>5, <1>6, <1>7 DEF GatewayInv

\* Every step keeps the invariant.
LEMMA GatewaySteps == GatewayInv /\ [Gateway!Next]_gatewayVars => GatewayInv'
<1> SUFFICES ASSUME GatewayInv, Gateway!Next PROVE GatewayInv'
    BY GatewayRests
<1>1. GatewayTyped /\ (~Returns => ModelsOf)
      BY DEF GatewayInv
<1>2. changes + 1 \in Nat /\ changes + 1 # 0
      BY <1>1 DEF GatewayTyped
<1>3. ASSUME NEW t \in Thing, Gateway!Add(t) PROVE GatewayInv'
      BY <1>2, <1>3, GatewayChanges DEF Gateway!Add
<1>4. ASSUME NEW t \in Thing, Gateway!Modify(t) PROVE GatewayInv'
      <2>1. ~Returns => t \notin gone
            BY <1>1, <1>4 DEF Gateway!Modify, ModelsOf
      <2> QED BY <1>2, <1>4, <2>1, GatewayChanges DEF Gateway!Modify
<1>5. ASSUME NEW t \in Thing, Gateway!Remove(t) PROVE GatewayInv'
      BY <1>5, GatewayChanges DEF Gateway!Remove
<1>6. ASSUME NEW t \in Thing, Gateway!Ask(t) PROVE GatewayInv'
      BY <1>6, GatewayAsks
<1>7. CASE Gateway!OpenGroups
      BY <1>1, <1>7, GatewayOpensGroups
         DEF Gateway!OpenGroups, Gateway!Refreshed, Gateway!Page, Gateway!Gateway, GatewayTyped
<1>8. CASE Gateway!HearGroups
      <2>1. groupNews' \in Nat
            BY <1>1, <1>8 DEF Gateway!HearGroups, GatewayTyped
      <2> QED BY <1>8, <2>1, GatewayOpensGroups
         DEF Gateway!HearGroups, Gateway!Page, Gateway!Gateway
<1>9. CASE Gateway!Lose
      BY <1>9, GatewayLoses DEF Gateway!Lose, Gateway!Page, Gateway!Gateway, Gateway!Jobs
<1>10. CASE Gateway!Reopen
       <2>1. news' = <<>> /\ ws' = "opening"
             BY <1>1, <1>10 DEF Gateway!Reopen, GatewayTyped
       <2> QED BY <1>10, <2>1, GatewayLoses
          DEF Gateway!Reopen, Gateway!Page, Gateway!Gateway, Gateway!Jobs
<1>11. CASE Gateway!LoseGroups
       BY <1>11, GatewayLosesGroups
          DEF Gateway!LoseGroups, Gateway!Page, Gateway!Gateway, Gateway!Jobs
<1>12. CASE Gateway!ReopenGroups
       <2>1. groupNews' \in Nat
             BY <1>1, <1>12 DEF Gateway!ReopenGroups, GatewayTyped
       <2> QED BY <1>12, <2>1, GatewayLosesGroups
          DEF Gateway!ReopenGroups, Gateway!Page, Gateway!Gateway, Gateway!Jobs
<1> QED BY <1>3, <1>4, <1>5, <1>6, <1>7, <1>8, <1>9, <1>10, <1>11, <1>12, GatewayRearranges,
           GatewayOpens, GatewayHears, GatewayRuns, GatewayServes, GatewayAnswers,
               GatewayFails DEF Gateway!Next

\* The invariant of the page and the gateway holds of what is composed.
LEMMA GatewayAlways == OverviewSpec => []GatewayInv
<1>1. OverviewInit => GatewayInv
      BY GatewayStart DEF OverviewInit
<1>2. GatewayInv /\ [OverviewNext]_overviewVars => GatewayInv'
      BY GatewayMoves, GatewaySteps
<1> QED BY <1>1, <1>2, PTL DEF OverviewSpec

\* Once no news is on the line and no job is left, the page shows the things and groups of the
\* gateway, if no news overtakes an answer; and if no id is used again the gateway sends it the
\* events of every thing it shows. It holds for any number of things, changes, lost sockets and
\* failed requests, in any order (GatewayModel, ThingModel.initWebSocket, ReopeningWebSocket).
THEOREM PageCatchesUp ==
  OverviewSpec => [](~Overtakes => Gateway!CaughtUp /\ (~Returns => InStep))
<1> DEFINE Caught == ~Overtakes => Gateway!CaughtUp /\ (~Returns => InStep)
<1>1. GatewayInv => Caught
      BY GatewayInStep DEF InStep
<1> HIDE DEF Caught
<1>2. OverviewSpec => []Caught
      BY <1>1, GatewayAlways, PTL
<1> QED BY <1>2 DEF Caught

-----------------------------------------------------------------------------
(* The pages and what is around them.                                      *)
\* The composition is one of the pages, and one of what is around them: what MCPages_proofs says
\* of PagesSpec and MCShell_proofs of ShellSpec holds of OverviewSpec.
THEOREM PartsBehave == OverviewSpec => PagesSpec /\ ShellSpec
<1>1. OverviewInit => PagesInit /\ ShellInit
      BY DEF OverviewInit
<1>2. [OverviewNext]_overviewVars => [PagesNext]_pagesVars /\ [ShellNext]_shellVars
      BY DEF OverviewNext, overviewVars
<1> QED BY <1>1, <1>2, PTL DEF OverviewSpec, PagesSpec, ShellSpec
===============================================================================
