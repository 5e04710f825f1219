-------------------------- MODULE MCServices_proofs --------------------------
(***************************************************************************)
(* What the parts of MCServices keep for every value of the constants: the *)
(* delay of a restart, the packages, the first start, the tunnel, the      *)
(* accounts, what is told of an arrangement, and the name of the host.     *)
(* Each part has an inductive invariant of its own; a step of the services *)
(* is a step of one part and leaves the others alone, so each invariant    *)
(* holds of ServicesSpec.                                                  *)
(***************************************************************************)
EXTENDS MCServices, TLAPS

-----------------------------------------------------------------------------
(* The delay of a restart, for every Window, Cap and Limit (RestartBackoff). *)
\* While the row counts, the delay is the length of the row, and the timer holds
\* no more than the delay.
DelayIsStreak ==
  /\ state # "stopped" /\ streak <= Cap => restartDelay = streak
  /\ left <= restartDelay
  /\ state = "running" => left = 0

\* The inductive invariant of the restart delay.
DelayInv == TypeOK /\ DelayIsStreak /\ Spacing

\* Every variable keeps its type.
LEMMA DelayTyped == TypeOK /\ [Next]_vars => TypeOK'
<1> USE TimesAssumption DEF TimesAssumption
<1> SUFFICES ASSUME TypeOK, [Next]_vars PROVE TypeOK'
    OBVIOUS
<1>1. CASE Die
      BY <1>1 DEF Die, NextDelay, TypeOK
<1>2. CASE Restart
      BY <1>2 DEF Restart, TypeOK
<1>3. CASE Tick
      BY <1>3 DEF Tick, TypeOK
<1>4. CASE UNCHANGED vars
      BY <1>4 DEF vars, TypeOK
<1> QED BY <1>1, <1>2, <1>3, <1>4 DEF Next

\* The variables have their types in every reachable state.
THEOREM DelayTypeCorrect == Spec => []TypeOK
<1>1. Init => TypeOK
      BY TimesAssumption DEF TimesAssumption, Init, TypeOK
<1> QED BY <1>1, DelayTyped, PTL DEF Spec

\* One more death in a row adds one more delay to the time the row takes.
LEMMA RowGrows ==
  ASSUME NEW k \in Nat
  PROVE  (k + 1) * (k + 2) = k * (k + 1) + 2 * (k + 1)
OBVIOUS

\* The link between delay and row, and the spacing, are kept by every step.
LEMMA SpacingPreserved == DelayInv /\ [Next]_vars => (DelayIsStreak /\ Spacing)'
<1> USE TimesAssumption DEF TimesAssumption
<1> SUFFICES ASSUME DelayInv, [Next]_vars PROVE (DelayIsStreak /\ Spacing)'
    OBVIOUS
<1>1. CASE Die
  <2> USE <1>1 DEF DelayInv
  <2>1. CASE sinceRestart > Window
    <3>1. NextDelay = 0 /\ streak' = 0 /\ elapsed' = 0 /\ restartDelay' = 0 /\ left' = 0
          BY <2>1 DEF Die, NextDelay, TypeOK
    <3> QED BY <3>1 DEF DelayIsStreak, Spacing
  <2>2. CASE ~(sinceRestart > Window)
    <3>1. streak' = streak + 1 /\ elapsed' = elapsed /\ restartDelay' = NextDelay
          BY <2>2 DEF Die
    <3>2. CASE streak + 1 <= Cap
      <4>1. restartDelay = streak /\ left = 0
            BY <3>2 DEF Die, DelayIsStreak, TypeOK
      <4>2. NextDelay = streak + 1
            BY <2>2, <3>2, <4>1 DEF NextDelay, TypeOK
      <4>3. DelayIsStreak'
            BY <3>1, <4>2 DEF Die, DelayIsStreak, TypeOK
      <4>4. state' # "stopped" => left' = streak + 1
            BY <4>2 DEF Die
      <4>5. 2 * elapsed >= streak * (streak + 1)
            BY <3>2, <4>1 DEF Die, Spacing, TypeOK
      <4>6. (streak + 1) * (streak + 2) = streak * (streak + 1) + 2 * (streak + 1)
            BY RowGrows DEF TypeOK
      <4>7. state' # "stopped" => 2 * (elapsed' + left') >= streak' * (streak' + 1)
        <5> SUFFICES ASSUME state' # "stopped"
                     PROVE  2 * (elapsed + (streak + 1)) >= (streak + 1) * (streak + 2)
            BY <3>1, <4>4 DEF TypeOK
        <5> DEFINE r == streak * (streak + 1)
        <5>1. r \in Int /\ streak \in Int /\ elapsed \in Int
              BY DEF TypeOK
        <5>2. 2 * elapsed >= r
              BY <4>5
        <5>3. 2 * (elapsed + (streak + 1)) >= r + 2 * (streak + 1)
          <6> HIDE DEF r
          <6> QED BY <5>1, <5>2
        <5> QED BY <4>6, <5>3
      <4> QED BY <4>3, <4>7 DEF Spacing
    <3>3. CASE ~(streak + 1 <= Cap)
      <4>1. streak' > Cap
            BY <3>1, <3>3 DEF TypeOK
      <4>2. left' <= restartDelay' /\ state' # "running"
            BY <3>1 DEF Die, NextDelay, TypeOK
      <4>3. ~(streak' <= Cap)
        <5>1. streak' \in Int
              BY <3>1 DEF TypeOK
        <5> QED BY <4>1, <5>1
      <4> QED BY <4>2, <4>3 DEF DelayIsStreak, Spacing
    <3> QED BY <3>2, <3>3
  <2> QED BY <2>1, <2>2
<1>2. CASE Restart
      BY <1>2 DEF DelayInv, Restart, DelayIsStreak, Spacing, TypeOK
<1>3. CASE Tick
  <2>1. DelayIsStreak'
        BY <1>3 DEF DelayInv, Tick, DelayIsStreak, TypeOK
  <2>2. streak' = streak /\ state' = state
        BY <1>3 DEF Tick
  <2>3. elapsed' + left' >= elapsed + left
        BY <1>3 DEF DelayInv, Tick, TypeOK
  <2>4. elapsed' + left' \in Int /\ elapsed + left \in Int /\ streak * (streak + 1) \in Int
        BY <1>3 DEF DelayInv, Tick, TypeOK
  <2>5. Spacing'
    <3> DEFINE r == streak * (streak + 1)
    <3> SUFFICES ASSUME streak <= Cap, state # "stopped"
                 PROVE  2 * (elapsed' + left') >= r
        BY <2>2 DEF Spacing
    <3>1. 2 * (elapsed + left) >= r
          BY DEF DelayInv, Spacing
    <3>2. r \in Int
          BY <2>4
    <3> HIDE DEF r
    <3> QED BY <2>3, <2>4, <3>1, <3>2
  <2> QED BY <2>1, <2>5
<1>4. CASE UNCHANGED vars
      BY <1>4 DEF vars, DelayInv, DelayIsStreak, Spacing
<1> QED BY <1>1, <1>2, <1>3, <1>4 DEF Next

\* The more often in a row the process of an add-on has died, the rarer it is
\* restarted.
THEOREM Spaced == Spec => []Spacing
<1>1. Init => DelayInv
      BY TimesAssumption DEF TimesAssumption, Init, DelayInv, TypeOK, DelayIsStreak, Spacing
<1>2. DelayInv /\ [Next]_vars => DelayInv'
      BY DelayTyped, SpacingPreserved DEF DelayInv
<1>3. DelayInv => Spacing
      BY DEF DelayInv
<1> QED BY <1>1, <1>2, <1>3, PTL DEF Spec

\* Plugin.start never gives up on a process, because the delay stops growing at the
\* value it would have to exceed: with Cap <= Limit the bail-out is dead code.
THEOREM NeverGivenUp == Spec => [](Cap <= Limit => state # "stopped")
<1> DEFINE Alive == Cap <= Limit => state # "stopped"
<1>1. Init => Alive
      BY DEF Init
<1>2. TypeOK /\ Alive /\ [Next]_vars => Alive'
  <2> SUFFICES ASSUME TypeOK, Alive, [Next]_vars, Cap <= Limit PROVE state' # "stopped"
      OBVIOUS
  <2> USE TimesAssumption DEF TimesAssumption
  <2>1. NextDelay \in Int /\ NextDelay <= Limit
        BY DEF NextDelay, TypeOK
  <2>2. CASE Die
        BY <2>1, <2>2 DEF Die
  <2>3. CASE Restart
        BY <2>3 DEF Restart
  <2>4. CASE Tick
        BY <2>4 DEF Tick
  <2>5. CASE UNCHANGED vars
        BY <2>5 DEF vars
  <2> QED BY <2>2, <2>3, <2>4, <2>5 DEF Next
<1> QED BY <1>1, <1>2, DelayTypeCorrect, PTL DEF Spec

-----------------------------------------------------------------------------
(* The packages of add-ons (AddonPackages).                                *)
\* The bounds are numbers, and the packages that can be loaded are whole ones.
LEMMA PackagesBounds == Packages!PackagesAssumption
BY ServicesAssumption DEF ServicesAssumption

AsServed == ~slipped => IF packageRow.enabled /\ package \in Loadable
                        THEN plugin = package /\ installed = packageRow ELSE plugin = "none"
LoadPlaces == {"loading", "asking", "saving", "starting"}
\* One request at a time
OneAtATime ==
  /\ \A r, q \in Packages!Open : r = q
  /\ \A r \in Packages!Open : (job[r].kind = "script") <=> ~loaded
  /\ leaving => loaded /\ \A r \in Packages!Open : job[r].kind = "uninstall"
  /\ leaving => Packages!Open # {} \/ package \notin Loadable \/ slipped
  /\ ~loaded => plugin = "none"
  /\ \A r \in Packages!Open : job[r].kind \in {"install", "uninstall", "enable", "disable"}
      => choice = "open"
SettingKept ==
  /\ packageRow.enabled => packageRow.there
  /\ choice = "on" => packageRow.there
InHand(r) ==
  LET kind == job[r].kind obj == job[r].obj IN
  CASE kind \in {"install", "enable"} -> obj.enabled
    [] kind \in {"uninstall", "disable"} -> ~obj.enabled
    [] OTHER -> obj.enabled = packageRow.enabled
JobKept(r) ==
  LET kind == job[r].kind at == job[r].at obj == job[r].obj IN
  /\ at = "fetching" => kind \in Packages!Installing /\ (loaded => AsServed)
  /\ at = "unloading" => \/ kind \in Packages!Installing \union {"configure"}
                             /\ (loaded => AsServed)
                         \/ kind = "disable" /\ ~packageRow.enabled
  /\ at \in {"removing", "reading"} => kind \in Packages!Installing \union {"uninstall"}
  /\ at \in {"copying", "moving"} => kind \in Packages!Installing
  /\ at \in {"removing", "copying", "moving", "reading", "writing"}
      /\ kind \in Packages!Installing => plugin = "none"
  /\ at = "removing" /\ kind = "uninstall" => plugin = "none" \/ leaving
  /\ at = "moving" => package = "partial"
  /\ at \in {"reading", "writing"} /\ kind = "uninstall" => package = "none"
  /\ at = "writing" => obj.there /\ InHand(r) /\ kind \notin {"configure", "boot"}
  /\ at \in LoadPlaces
      => /\ kind \notin {"script", "uninstall"}
         /\ plugin = "none" \/ packageRow.enabled \/ slipped
  /\ at \in LoadPlaces \ {"loading"} => package \in Loadable /\ obj.there /\ obj.version = package
  /\ at = "saving" => obj.enabled = packageRow.enabled \/ (slipped /\ choice = "open")
  /\ at = "starting" => packageRow = obj /\ installed = obj
JobsKept == \A r \in Packages!Open : JobKept(r)

PackagesInv == Packages!TypeOK /\ OneAtATime /\ SettingKept /\ JobsKept /\ Packages!RunsAsChosen

JobRecord == [kind : Packages!Kinds, at : Packages!At, version : Version \union {"none"},
    obj : Packages!SomeManifest]
EndedPlaces == {"new", "done", "failed", "lost"}

\* A manifest that is made has the fields it is made of.
LEMMA ManifestMade ==
  ASSUME NEW v \in Version \union {"none"}, NEW e \in BOOLEAN
  PROVE  /\ Packages!Manifest(v, e) \in Packages!SomeManifest
         /\ Packages!Manifest(v, e).version = v /\ (Packages!Manifest(v, e).enabled <=> e)
             /\ Packages!Manifest(v, e).there
BY DEF Packages!Manifest, Packages!SomeManifest

\* No manifest: neither there nor enabled.
LEMMA NoManifestMade ==
  Packages!NoManifest \in Packages!SomeManifest /\ ~Packages!NoManifest.enabled
      /\ ~Packages!NoManifest.there
BY DEF Packages!NoManifest, Packages!SomeManifest

\* A new request has the fields it is made of, and no manifest in hand.
LEMMA JobMade ==
  ASSUME NEW k \in Packages!Kinds, NEW a \in Packages!At, NEW v \in Version \union {"none"}
  PROVE  LET j == Packages!NewJob(k, a, v)
         IN j \in JobRecord /\ j.kind = k /\ j.at = a /\ j.version = v
             /\ j.obj = Packages!NoManifest
BY NoManifestMade DEF Packages!NewJob, JobRecord

\* Another job for r, and the other requests stay as they are.
PutsJob(r, j) == /\ job' \in [0 .. MaxJobs -> JobRecord]
                 /\ job'[r] = j
                 /\ \A q \in 0 .. MaxJobs : q # r => job'[q] = job[q]

\* Another job for a request that is typed.
LEMMA JobPut ==
  ASSUME Packages!TypeOK, NEW r \in 0 .. MaxJobs, NEW j \in JobRecord,
         job' = [job EXCEPT ![r] = j]
  PROVE  PutsJob(r, j)
BY DEF Packages!TypeOK, JobRecord, PutsJob

\* A request that goes on keeps what it has in hand.
LEMMA JobGoes ==
  ASSUME Packages!TypeOK, NEW r \in 0 .. MaxJobs, NEW at \in Packages!At, Packages!Goes(r, at)
  PROVE  \E j \in JobRecord : /\ PutsJob(r, j) /\ j.at = at /\ j.kind = job[r].kind
                              /\ j.at \notin {"done", "failed"}
                                   => j.version = job[r].version /\ j.obj = job[r].obj
<1>1. job[r] \in JobRecord /\ job[r].kind \in Packages!Kinds
      BY DEF Packages!TypeOK, JobRecord
<1>2. CASE at \in {"done", "failed"}
  <2> DEFINE j == Packages!NewJob(job[r].kind, at, "none")
  <2>1. j \in JobRecord /\ j.at = at /\ j.kind = job[r].kind
        BY <1>1, JobMade
  <2>2. job' = [job EXCEPT ![r] = j]
        BY <1>2 DEF Packages!Goes
  <2> HIDE DEF j
  <2> QED BY <1>2, <2>1, <2>2, JobPut
<1>3. CASE at \notin {"done", "failed"}
  <2> DEFINE j == [job[r] EXCEPT !.at = at]
  <2>1. /\ j \in JobRecord /\ j.at = at /\ j.kind = job[r].kind
        /\ j.version = job[r].version /\ j.obj = job[r].obj
        BY <1>1 DEF JobRecord
  <2>2. job' = [job EXCEPT ![r] = j]
        BY <1>3 DEF Packages!Goes
  <2> QED BY <2>1, <2>2, JobPut
<1> QED BY <1>2, <1>3

\* A request that goes on with another manifest in hand.
LEMMA JobHolds ==
  ASSUME Packages!TypeOK, NEW r \in 0 .. MaxJobs, NEW at \in Packages!At,
         NEW obj \in Packages!SomeManifest, Packages!Holds(r, at, obj)
  PROVE  \E j \in JobRecord : /\ PutsJob(r, j) /\ j.at = at /\ j.kind = job[r].kind
                              /\ j.version = job[r].version
                              /\ j.obj = obj
<1> DEFINE j == [job[r] EXCEPT !.at = at, !.obj = obj]
<1>1. job[r] \in JobRecord
      BY DEF Packages!TypeOK, JobRecord
<1>2. j \in JobRecord /\ j.at = at /\ j.kind = job[r].kind /\ j.version = job[r].version
        /\ j.obj = obj
      BY <1>1 DEF JobRecord
<1>3. job' = [job EXCEPT ![r] = j]
      BY DEF Packages!TypeOK, Packages!Holds
<1> QED BY <1>2, <1>3, JobPut

\* A request is open when it has begun and not ended.
LEMMA OpenIs ==
  ASSUME NEW r \in 0 .. MaxJobs
  PROVE  r \in Packages!Open <=> job[r].at \notin EndedPlaces
BY DEF Packages!Open, EndedPlaces

\* The request that moves is the only one that is open, before and after.
LEMMA AloneOpen ==
  ASSUME PackagesInv, NEW r \in Packages!Open, NEW j \in JobRecord, PutsJob(r, j)
  PROVE  /\ r \in 0 .. MaxJobs
         /\ Packages!Open' = IF j.at \in EndedPlaces THEN {} ELSE {r}
         /\ Packages!Open = {r}
<1>1. r \in 0 .. MaxJobs /\ \A q \in Packages!Open : q = r
      BY DEF PackagesInv, OneAtATime, Packages!Open
<1>2. Packages!Open = {r}
      BY <1>1
<1>3. \A q \in 0 .. MaxJobs : q # r => job'[q].at \in EndedPlaces
      BY <1>1, OpenIs DEF PutsJob
<1>4. job'[r].at = j.at
      BY DEF PutsJob
<1>5. Packages!Open' = {q \in 0 .. MaxJobs : job'[q].at \notin EndedPlaces}
      BY DEF Packages!Open, EndedPlaces
<1> QED BY <1>1, <1>2, <1>3, <1>4, <1>5

\* What is left to show of a step of r.
LEMMA JobMoves ==
  ASSUME PackagesInv, NEW r \in Packages!Open, NEW j \in JobRecord, PutsJob(r, j),
         package' \in Version \union {"none", "partial"}, packageRow' \in Packages!SomeManifest,
             installed' \in Packages!SomeManifest,
         plugin' \in Version \union {"none", "partial"}, leaving' \in BOOLEAN,
             loaded' \in BOOLEAN, crashes' \in 0 .. MaxCrashes,
         choice' \in {"on", "off", "open"}, slipped' \in BOOLEAN,
         j.at \notin EndedPlaces =>
            /\ j.kind = "script" <=> ~loaded'
            /\ leaving' => j.kind = "uninstall"
            /\ j.kind \in {"install", "uninstall", "enable", "disable"} => choice' = "open"
            /\ JobKept(r)',
         leaving' => loaded',
         leaving' /\ j.at \in EndedPlaces => package' \notin Loadable \/ slipped',
         ~loaded' => plugin' = "none",
         SettingKept', Packages!RunsWhole',
         choice' # "open" /\ packageRow'.there => (packageRow'.enabled <=> choice' = "on"),
         j.at \in EndedPlaces /\ loaded' /\ ~leaving' => AsServed'
  PROVE  PackagesInv'
<1>1. /\ r \in 0 .. MaxJobs
      /\ Packages!Open' = IF j.at \in EndedPlaces THEN {} ELSE {r}
      BY AloneOpen
<1>2. job'[r] = j
      BY DEF PutsJob
<1>3. Packages!TypeOK'
      BY DEF Packages!TypeOK, PutsJob, JobRecord
<1>4. OneAtATime'
      BY <1>1, <1>2 DEF OneAtATime
<1>5. JobsKept'
      BY <1>1, <1>2 DEF JobsKept
<1>6. choice' # "open" /\ packageRow'.there => packageRow'.enabled = (choice' = "on")
  <2>1. packageRow'.enabled \in BOOLEAN /\ (choice' = "on") \in BOOLEAN
        BY DEF Packages!SomeManifest
  <2> QED BY <2>1, Zenon
<1>7. Packages!RunsAsChosen'
      BY <1>1, <1>6 DEF Packages!RunsAsChosen, Packages!ServedAsChosen, AsServed
<1> QED BY <1>3, <1>4, <1>5, <1>7 DEF PackagesInv

\* What the invariant says while r is the request that is open.
LEMMA HeldBefore ==
  ASSUME PackagesInv, NEW r \in 0 .. MaxJobs, job[r].at \notin EndedPlaces
  PROVE  /\ r \in Packages!Open /\ Packages!TypeOK /\ JobKept(r) /\ SettingKept
         /\ Packages!RunsWhole
         /\ job[r] \in JobRecord
         /\ job[r].kind = "script" <=> ~loaded
         /\ leaving => loaded /\ job[r].kind = "uninstall"
         /\ ~loaded => plugin = "none"
         /\ job[r].kind \in {"install", "uninstall", "enable", "disable"} => choice = "open"
         /\ choice # "open" /\ packageRow.there => (packageRow.enabled <=> choice = "on")
BY OpenIs
   DEF PackagesInv, OneAtATime, JobsKept, Packages!RunsAsChosen, Packages!ServedAsChosen,
       Packages!TypeOK, JobRecord

\* The package is fetched, or is not (installAddonFromUrl).
LEMMA FetchedKeeps ==
  ASSUME PackagesInv, NEW r \in 0 .. MaxJobs, Packages!Fetched(r)
  PROVE  PackagesInv'
<1>1. job[r].at \notin EndedPlaces /\ job[r].at = "fetching"
      BY DEF Packages!Fetched, EndedPlaces
<1>2. PICK j \in JobRecord :
             /\ PutsJob(r, j) /\ j.kind = job[r].kind /\ j.at \in {"unloading", "failed"}
             /\ j.at # "failed" => j.version = job[r].version /\ j.obj = job[r].obj
      BY <1>1, HeldBefore, JobGoes DEF Packages!Fetched, Packages!At
<1>3. job'[r] = j /\ job[r] \in JobRecord /\ j.version \in Version \union {"none"}
      BY <1>1, <1>2, HeldBefore DEF PutsJob, JobRecord
<1>4. UNCHANGED <<package, packageRow, installed, plugin, leaving, loaded, crashes, choice,
                  slipped>>
      BY DEF Packages!Fetched
<1>5. job[r].kind \in Packages!Installing /\ (loaded => AsServed) /\ (leaving => FALSE)
      BY <1>1, HeldBefore DEF JobKept, Packages!Installing
<1>6. JobKept(r)' \/ j.at = "failed"
      BY <1>1, <1>2, <1>3, <1>4, <1>5 DEF JobKept, Packages!Installing, LoadPlaces, AsServed
<1>7. /\ SettingKept' /\ Packages!RunsWhole' /\ AsServed' = AsServed
      BY <1>1, <1>4, HeldBefore DEF SettingKept, Packages!RunsWhole, AsServed
<1> HIDE DEF JobKept
<1> QED BY <1>1, <1>2, <1>3, <1>4, <1>5, <1>6, <1>7, HeldBefore, JobMoves
   DEF Packages!TypeOK, EndedPlaces

\* The add-on is unloaded: to be replaced, disabled or configured.
LEMMA UnloadedKeeps ==
  ASSUME PackagesInv, NEW r \in 0 .. MaxJobs, Packages!Unloaded(r)
  PROVE  PackagesInv'
<1>1. job[r].at \notin EndedPlaces /\ job[r].at = "unloading"
      BY DEF Packages!Unloaded, EndedPlaces
<1>2. PICK j \in JobRecord : /\ PutsJob(r, j) /\ j.kind = job[r].kind
                             /\ j.at \notin {"done", "failed"}
                                  => j.version = job[r].version /\ j.obj = job[r].obj
                             /\ \/ j.kind \in Packages!Installing /\ j.at = "removing"
                                    /\ choice' = choice /\ slipped' = slipped
                                \/ j.kind = "disable" /\ j.at = "done" /\ choice' = "off"
                                    /\ slipped' = FALSE
                                \/ /\ j.kind = "configure" /\ choice' = choice
                                   /\ slipped' = slipped
                                   /\ j.at = IF installed.there
                                       /\ installed.enabled THEN "loading" ELSE "done"
      BY <1>1, HeldBefore, JobGoes DEF Packages!Unloaded, Packages!At
<1>3. job'[r] = j /\ job[r] \in JobRecord /\ j.version \in Version \union {"none"}
      BY <1>1, <1>2, HeldBefore DEF PutsJob, JobRecord
<1>4. UNCHANGED <<package, packageRow, installed, loaded, crashes>>
      BY DEF Packages!Unloaded
<1>8. plugin' = "none" /\ leaving' = FALSE
      BY DEF Packages!Unloaded
<1>5. \/ job[r].kind \in Packages!Installing \union {"configure"} /\ (loaded => AsServed)
      \/ job[r].kind = "disable" /\ ~packageRow.enabled
      BY <1>1, HeldBefore DEF JobKept, Packages!Installing
<1>6. j.at \in EndedPlaces \/ JobKept(r)'
      BY <1>1, <1>2, <1>3, <1>4, <1>5, <1>8
         DEF JobKept, Packages!Installing, LoadPlaces, AsServed, EndedPlaces
<1>9. j.at = "done" => loaded /\ (slipped' \/ ~(packageRow.enabled /\ package \in Loadable))
      BY <1>1, <1>2, <1>5, HeldBefore DEF SettingKept, AsServed, Packages!Installing
<1>7. /\ SettingKept' /\ Packages!RunsWhole'
      /\ j.at \in EndedPlaces /\ loaded' /\ ~leaving' => AsServed'
      BY <1>1, <1>2, <1>3, <1>4, <1>8, <1>9, HeldBefore
         DEF SettingKept, Packages!RunsWhole, AsServed, EndedPlaces
<1>10. choice' # "open" /\ packageRow'.there => (packageRow'.enabled <=> choice' = "on")
      BY <1>1, <1>2, <1>4, <1>5, HeldBefore DEF Packages!Installing
<1> QED BY ZenonT(60), <1>1, <1>2, <1>3, <1>4, <1>5, <1>6, <1>7, <1>8, <1>10, HeldBefore, JobMoves
   DEF Packages!TypeOK, EndedPlaces, Packages!Installing


\* The directory is removed, or half of it is left.
LEMMA RemovedKeeps ==
  ASSUME PackagesInv, NEW r \in 0 .. MaxJobs, Packages!Removed(r)
  PROVE  PackagesInv'
<1>1. job[r].at \notin EndedPlaces /\ job[r].at = "removing"
      BY DEF Packages!Removed, EndedPlaces
<1>2. PICK j \in JobRecord : /\ PutsJob(r, j) /\ j.kind = job[r].kind
                             /\ j.at \notin {"done", "failed"}
                                  => j.version = job[r].version /\ j.obj = job[r].obj
                             /\ LET replaced == j.kind \in Packages!Installing IN
                                \/ /\ package' = "none"
                                       /\ j.at = IF replaced THEN "copying" ELSE "reading"
                                   /\ installed' = IF replaced THEN Packages!NoManifest
                                       ELSE installed
                                   /\ slipped' = slipped
                                \/ j.at = "failed" /\ package' = package /\ installed' = installed
                                    /\ \/ package = "partial" /\ slipped' = slipped
                                       \/ slipped' = TRUE
      BY <1>1, HeldBefore, JobGoes DEF Packages!Removed, Packages!Slips, Packages!At
<1>3. job'[r] = j /\ job[r] \in JobRecord /\ j.version \in Version \union {"none"}
      BY <1>1, <1>2, HeldBefore DEF PutsJob, JobRecord
<1>4. UNCHANGED <<packageRow, plugin, leaving, loaded, crashes, choice>>
      BY DEF Packages!Removed
<1>5. /\ job[r].kind \in Packages!Installing \union {"uninstall"}
      /\ plugin = "none" \/ leaving
      BY <1>1, HeldBefore DEF JobKept, Packages!Installing
<1>8. CASE j.kind \in Packages!Installing /\ j.at = "copying"
  <2>1. package' = "none" /\ installed' = Packages!NoManifest /\ slipped' = slipped
      BY <1>2, <1>8
  <2>2. JobKept(r)'
      BY <1>1, <1>2, <1>3, <1>4, <1>5, <1>8, <2>1, HeldBefore
         DEF JobKept, Packages!Installing, LoadPlaces
  <2> QED BY <1>1, <1>2, <1>3, <1>4, <1>5, <1>8, <2>1, <2>2, HeldBefore, JobMoves, NoManifestMade
      DEF Packages!TypeOK, EndedPlaces, Packages!Installing, SettingKept, Packages!RunsWhole
<1>9. CASE j.kind = "uninstall" /\ j.at = "reading"
  <2>1. package' = "none" /\ installed' = installed /\ slipped' = slipped
      BY <1>2, <1>9 DEF Packages!Installing
  <2>2. JobKept(r)'
      BY <1>1, <1>2, <1>3, <1>4, <1>5, <1>9, <2>1 DEF JobKept, Packages!Installing, LoadPlaces
  <2> QED BY <1>1, <1>2, <1>3, <1>4, <1>5, <1>9, <2>1, <2>2, HeldBefore, JobMoves
      DEF Packages!TypeOK, EndedPlaces, Packages!Installing, SettingKept, Packages!RunsWhole
<1>10. CASE j.at = "failed"
  <2>1. /\ package' = package /\ installed' = installed
        /\ slipped' = TRUE \/ (package = "partial" /\ slipped' = slipped)
      BY <1>2, <1>10
  <2>2. SettingKept' /\ Packages!RunsWhole' /\ (~leaving' => AsServed')
      BY <1>1, <1>4, <1>5, <2>1, HeldBefore, PackagesBounds
         DEF SettingKept, Packages!RunsWhole, AsServed, Packages!PackagesAssumption
  <2> QED BY <1>1, <1>2, <1>3, <1>4, <1>5, <1>10, <2>1, <2>2, HeldBefore, JobMoves, PackagesBounds
      DEF Packages!TypeOK, EndedPlaces, Packages!PackagesAssumption
<1> QED BY <1>2, <1>5, <1>8, <1>9, <1>10


\* The copy begins: half a package is on disk.
LEMMA CopyingKeeps ==
  ASSUME PackagesInv, NEW r \in 0 .. MaxJobs, Packages!Copying(r)
  PROVE  PackagesInv'
<1>1. job[r].at \notin EndedPlaces /\ job[r].at = "copying"
      BY DEF Packages!Copying, EndedPlaces
<1>2. PICK j \in JobRecord : /\ PutsJob(r, j) /\ j.kind = job[r].kind
                             /\ j.at \notin {"done", "failed"}
                                  => j.version = job[r].version /\ j.obj = job[r].obj
                             /\ j.at = "moving"
      BY <1>1, HeldBefore, JobGoes DEF Packages!Copying, Packages!At
<1>3. job'[r] = j /\ job[r] \in JobRecord /\ j.version \in Version \union {"none"}
      BY <1>1, <1>2, HeldBefore DEF PutsJob, JobRecord
<1>4. UNCHANGED <<packageRow, installed, plugin, leaving, loaded, crashes, choice, slipped>>
      BY DEF Packages!Copying
<1>8. package' = "partial"
      BY DEF Packages!Copying
<1>5. job[r].kind \in Packages!Installing /\ plugin = "none"
      BY <1>1, HeldBefore DEF JobKept, Packages!Installing
<1>6. j.at \in EndedPlaces \/ JobKept(r)'
      BY <1>1, <1>2, <1>3, <1>4, <1>5, <1>8
         DEF JobKept, Packages!Installing, LoadPlaces, AsServed, EndedPlaces
<1>7. /\ SettingKept' /\ Packages!RunsWhole'
      /\ j.at \in EndedPlaces /\ loaded' /\ ~leaving' => AsServed'
      BY <1>1, <1>2, <1>4, <1>5, HeldBefore, PackagesBounds, <1>8
      DEF SettingKept, Packages!RunsWhole, AsServed, Packages!PackagesAssumption, EndedPlaces
<1> QED BY <1>1, <1>2, <1>3, <1>4, <1>5, <1>6, <1>7, HeldBefore, JobMoves, <1>8
   DEF Packages!TypeOK, EndedPlaces


\* The copy ends, or fails and leaves half a package.
LEMMA CopiedKeeps ==
  ASSUME PackagesInv, NEW r \in 0 .. MaxJobs, Packages!Copied(r)
  PROVE  PackagesInv'
<1>1. job[r].at \notin EndedPlaces /\ job[r].at = "moving"
      BY DEF Packages!Copied, EndedPlaces
<1>2. PICK j \in JobRecord : /\ PutsJob(r, j) /\ j.kind = job[r].kind
                             /\ j.at \notin {"done", "failed"}
                                  => j.version = job[r].version /\ j.obj = job[r].obj
                             /\ \/ package' = j.version /\ j.at = "reading"
                                \/ package' = package /\ j.at = "failed"
      BY <1>1, HeldBefore, JobGoes DEF Packages!Copied, Packages!At
<1>3. job'[r] = j /\ job[r] \in JobRecord /\ j.version \in Version \union {"none"}
      BY <1>1, <1>2, HeldBefore DEF PutsJob, JobRecord
<1>4. UNCHANGED <<packageRow, installed, plugin, leaving, loaded, crashes, choice, slipped>>
      BY DEF Packages!Copied
<1>5. job[r].kind \in Packages!Installing /\ plugin = "none" /\ package = "partial"
      BY <1>1, HeldBefore DEF JobKept, Packages!Installing
<1>6. j.at \in EndedPlaces \/ JobKept(r)'
      BY <1>1, <1>2, <1>3, <1>4, <1>5
         DEF JobKept, Packages!Installing, LoadPlaces, AsServed, EndedPlaces
<1>7. /\ SettingKept' /\ Packages!RunsWhole'
      /\ j.at \in EndedPlaces /\ loaded' /\ ~leaving' => AsServed'
      BY <1>1, <1>2, <1>4, <1>5, HeldBefore, PackagesBounds
      DEF SettingKept, Packages!RunsWhole, AsServed, Packages!PackagesAssumption, EndedPlaces
<1> QED BY <1>1, <1>2, <1>3, <1>4, <1>5, <1>6, <1>7, HeldBefore, JobMoves
   DEF Packages!TypeOK, EndedPlaces, Packages!Installing

\* The removal begins: half a package is on disk.
LEMMA RemovingKeeps ==
  ASSUME PackagesInv, NEW r \in 0 .. MaxJobs, Packages!Removing(r)
  PROVE  PackagesInv'
<1>1. job[r].at \notin EndedPlaces /\ job[r].at = "removing"
      BY DEF Packages!Removing, EndedPlaces
<1>2. package' = "partial"
        /\ UNCHANGED <<packageRow, installed, plugin, leaving, loaded, job, crashes, choice,
                        slipped>>
      BY DEF Packages!Removing
<1>3. PutsJob(r, job[r]) /\ job[r] \in JobRecord
      BY <1>1, <1>2, HeldBefore DEF PutsJob, Packages!TypeOK, JobRecord
<1>5. job[r].kind \in Packages!Installing \union {"uninstall"} /\ (plugin = "none" \/ leaving)
      BY <1>1, HeldBefore DEF JobKept, Packages!Installing
<1>6. JobKept(r)'
      BY <1>1, <1>2, <1>5, HeldBefore DEF JobKept, Packages!Installing, LoadPlaces
<1>7. SettingKept' /\ Packages!RunsWhole'
      BY <1>1, <1>2, <1>5, HeldBefore DEF SettingKept, Packages!RunsWhole
<1> QED BY <1>1, <1>2, <1>3, <1>6, <1>7, HeldBefore, JobMoves DEF Packages!TypeOK

\* The row of the add-on is read (getSetting).
LEMMA ReadKeeps == ASSUME PackagesInv, NEW r \in 0 .. MaxJobs, Packages!Read(r) PROVE PackagesInv'
<1>1. job[r].at \notin EndedPlaces /\ job[r].at = "reading"
      BY DEF Packages!Read, EndedPlaces
<1>2. UNCHANGED <<package, packageRow, plugin, leaving, loaded, crashes>> /\ job[r] \in JobRecord
      BY <1>1, HeldBefore DEF Packages!Read
<1>3. /\ job[r].kind \in Packages!Installing \union {"uninstall"}
      /\ job[r].kind \in Packages!Installing => plugin = "none"
      /\ job[r].kind = "uninstall" => package = "none"
      BY <1>1, HeldBefore DEF JobKept, Packages!Installing
<1>4. packageRow.version \in Version \union {"none"} /\ packageRow.enabled \in BOOLEAN
      BY <1>1, HeldBefore DEF Packages!TypeOK, Packages!SomeManifest
<1>5. CASE job[r].kind # "uninstall" \/ packageRow.there
  <2> DEFINE e == job[r].kind # "uninstall" /\ Packages!Enables(job[r].kind)
             obj == Packages!Manifest(packageRow.version, e)
  <2>1. /\ e \in BOOLEAN /\ (job[r].kind = "install" => e) /\ (job[r].kind = "uninstall" => ~e)
        /\ job[r].kind \notin {"install", "uninstall"} => (e <=> packageRow.enabled)
      BY <1>4 DEF Packages!Enables
  <2>2. obj \in Packages!SomeManifest /\ (obj.enabled <=> e) /\ obj.there
      BY <1>4, <2>1, ManifestMade
  <2>3. Packages!Holds(r, "writing", obj) /\ UNCHANGED <<installed, choice, slipped>>
      BY <1>5 DEF Packages!Read
  <2> HIDE DEF obj, e
  <2>4. PICK j \in JobRecord :
               PutsJob(r, j) /\ j.at = "writing" /\ j.kind = job[r].kind /\ j.obj = obj
      BY <1>1, <2>2, <2>3, HeldBefore, JobHolds DEF Packages!At
  <2>5. job'[r] = j
      BY <1>1, <2>4, HeldBefore DEF PutsJob
  <2>6. obj.enabled \in BOOLEAN
      BY <2>2 DEF Packages!SomeManifest
  <2>9. job[r].kind \notin {"install", "uninstall"} => obj.enabled = packageRow.enabled
      BY <1>4, <2>1, <2>2, <2>6, Zenon
  <2>7. JobKept(r)'
      BY <1>1, <1>2, <1>3, <2>1, <2>2, <2>3, <2>4, <2>5, <2>9
      DEF JobKept, InHand, Packages!Installing, LoadPlaces
  <2>8. SettingKept' /\ Packages!RunsWhole'
      BY <1>1, <1>2, <2>3, HeldBefore DEF SettingKept, Packages!RunsWhole
  <2> QED BY <1>1, <1>2, <2>3, <2>4, <2>7, <2>8, HeldBefore, JobMoves
     DEF Packages!TypeOK, EndedPlaces
<1>7. CASE job[r].kind = "uninstall" /\ ~packageRow.there
  <2>1. Packages!Goes(r, "done") /\ installed' = Packages!NoManifest /\ choice' = "off"
        /\ slipped' = FALSE
      BY <1>7 DEF Packages!Read
  <2>2. PICK j \in JobRecord : PutsJob(r, j) /\ j.at = "done"
      BY <1>1, <2>1, HeldBefore, JobGoes DEF Packages!At
  <2>3. SettingKept' /\ Packages!RunsWhole' /\ (~leaving' => AsServed')
      BY <1>1, <1>2, <1>3, <1>7, <2>1, HeldBefore, PackagesBounds
      DEF SettingKept, Packages!RunsWhole, AsServed, Packages!PackagesAssumption
  <2> QED BY <1>1, <1>2, <1>7, <2>1, <2>2, <2>3, <1>3, HeldBefore, JobMoves, NoManifestMade,
      PackagesBounds
      DEF Packages!TypeOK, EndedPlaces, Packages!PackagesAssumption
<1> QED BY <1>5, <1>7

\* The row of the add-on is written (setSetting).
LEMMA WrittenKeeps ==
  ASSUME PackagesInv, NEW r \in 0 .. MaxJobs, Packages!Written(r)
  PROVE  PackagesInv'
<1>1. job[r].at \notin EndedPlaces /\ job[r].at = "writing"
      BY DEF Packages!Written, EndedPlaces
<1> DEFINE loads == \/ job[r].kind = "enable"
                    \/ job[r].kind \in {"install", "update"} /\ job[r].obj.enabled
<1>2. PICK j \in JobRecord : /\ PutsJob(r, j) /\ j.kind = job[r].kind
                             /\ j.at # "done" => j.obj = job[r].obj
                             /\ j.at = IF loads THEN "loading"
                                       ELSE IF job[r].kind = "disable" THEN "unloading"
                                           ELSE "done"
      BY <1>1, HeldBefore, JobGoes DEF Packages!Written, Packages!At
<1>3. job'[r] = j /\ job[r] \in JobRecord /\ job[r].obj \in Packages!SomeManifest
      BY <1>1, <1>2, HeldBefore DEF PutsJob, JobRecord
<1>4. /\ packageRow' = job[r].obj
      /\ installed' = IF job[r].kind = "uninstall" THEN Packages!NoManifest ELSE installed
      /\ choice' = IF job[r].kind = "uninstall" THEN "off" ELSE choice
      /\ slipped' = IF job[r].kind = "uninstall" THEN FALSE ELSE slipped
      /\ UNCHANGED <<package, plugin, leaving, loaded, crashes>>
      BY DEF Packages!Written
<1>5. /\ job[r].obj.there
      /\ job[r].kind \in Packages!Installing => plugin = "none"
      /\ job[r].kind = "uninstall" => package = "none"
      /\ job[r].kind \in {"install", "enable"} => job[r].obj.enabled
      /\ job[r].kind \in {"uninstall", "disable"} => ~job[r].obj.enabled
      /\ job[r].kind \in {"update", "script"} => job[r].obj.enabled = packageRow.enabled
      /\ job[r].kind \in {"install", "uninstall", "enable", "disable", "update", "script"}
      BY <1>1, <1>3, HeldBefore
         DEF JobKept, Packages!Installing, InHand, JobRecord, Packages!Kinds
<1>6. j.at \in EndedPlaces \/ JobKept(r)'
      BY <1>1, <1>2, <1>3, <1>4, <1>5, HeldBefore
         DEF JobKept, Packages!Installing, LoadPlaces, EndedPlaces
<1>7. /\ SettingKept' /\ Packages!RunsWhole'
      /\ j.at \in EndedPlaces /\ loaded' /\ ~leaving' => AsServed'
      BY <1>1, <1>2, <1>3, <1>4, <1>5, HeldBefore, PackagesBounds
      DEF SettingKept, Packages!RunsWhole, AsServed, Packages!PackagesAssumption, EndedPlaces,
          Packages!Installing
<1>8. choice' # "open" /\ packageRow'.there => (packageRow'.enabled <=> choice' = "on")
      BY <1>1, <1>4, <1>5, HeldBefore DEF SettingKept
<1> QED BY <1>1, <1>2, <1>3, <1>4, <1>5, <1>6, <1>7, <1>8, HeldBefore, JobMoves, NoManifestMade,
    PackagesBounds
      DEF Packages!TypeOK, EndedPlaces, Packages!PackagesAssumption, Packages!Installing

\* A statement of the settings fails, and with it the request.
LEMMA StatementFailsKeeps ==
  ASSUME PackagesInv, NEW r \in 0 .. MaxJobs, Packages!StatementFails(r)
  PROVE  PackagesInv'
<1>1. job[r].at \notin EndedPlaces
      BY DEF Packages!StatementFails, EndedPlaces
<1>2. /\ UNCHANGED <<package, packageRow, installed, plugin, leaving, loaded, crashes, choice>>
      /\ slipped' = TRUE
      BY DEF Packages!StatementFails, Packages!Slips
<1>3. PICK j \in JobRecord : PutsJob(r, j) /\ j.at = "failed"
      BY <1>1, HeldBefore, JobGoes DEF Packages!StatementFails, Packages!Slips, Packages!At
<1>4. SettingKept' /\ Packages!RunsWhole' /\ AsServed'
      BY <1>1, <1>2, HeldBefore DEF SettingKept, Packages!RunsWhole, AsServed
<1> QED BY <1>1, <1>2, <1>3, <1>4, HeldBefore, JobMoves DEF Packages!TypeOK, EndedPlaces

\* The manifest is read from disk (loadManifest).
LEMMA ReadManifestKeeps ==
  ASSUME PackagesInv, NEW r \in 0 .. MaxJobs, Packages!ReadManifest(r)
  PROVE  PackagesInv'
<1>1. job[r].at \notin EndedPlaces /\ job[r].at = "loading"
      BY DEF Packages!ReadManifest, EndedPlaces
<1>2. UNCHANGED <<package, packageRow, installed, plugin, leaving, loaded, crashes, choice,
                  slipped>>
        /\ job[r] \in JobRecord
      BY <1>1, HeldBefore DEF Packages!ReadManifest
<1>3. /\ job[r].kind \notin {"script", "uninstall"}
      /\ plugin = "none" \/ packageRow.enabled \/ slipped
      BY <1>1, HeldBefore DEF JobKept, LoadPlaces
<1>4. SettingKept' /\ Packages!RunsWhole'
      BY <1>1, <1>2, HeldBefore DEF SettingKept, Packages!RunsWhole
<1>5. CASE package \in Loadable
  <2> DEFINE obj == Packages!Manifest(package, FALSE)
  <2>1. package # "partial" /\ package \in Version
      BY <1>5, PackagesBounds DEF Packages!PackagesAssumption
  <2>2. obj \in Packages!SomeManifest /\ obj.there /\ obj.version = package
      BY <2>1, ManifestMade
  <2>3. Packages!Holds(r, "asking", obj)
      BY <1>5, <2>1 DEF Packages!ReadManifest, Packages!ManifestRight
  <2> HIDE DEF obj
  <2>4. PICK j \in JobRecord :
               PutsJob(r, j) /\ j.at = "asking" /\ j.kind = job[r].kind /\ j.obj = obj
      BY <1>1, <2>2, <2>3, HeldBefore, JobHolds DEF Packages!At
  <2>5. job'[r] = j
      BY <1>1, <2>4, HeldBefore DEF PutsJob
  <2>6. JobKept(r)'
      BY <1>2, <1>3, <1>5, <2>2, <2>4, <2>5 DEF JobKept, Packages!Installing, LoadPlaces
  <2> QED BY <1>1, <1>2, <1>3, <1>4, <2>4, <2>6, HeldBefore, JobMoves
     DEF Packages!TypeOK, EndedPlaces
<1>6. CASE package \notin Loadable
  <2>1. Packages!Goes(r, "failed")
      BY <1>6 DEF Packages!ReadManifest, Packages!ManifestRight
  <2>2. PICK j \in JobRecord : PutsJob(r, j) /\ j.at = "failed"
      BY <1>1, <2>1, HeldBefore, JobGoes DEF Packages!At
  <2>3. AsServed'
      BY <1>1, <1>2, <1>3, <1>6, HeldBefore DEF AsServed, Packages!RunsWhole
  <2> QED BY <1>1, <1>2, <1>4, <1>6, <2>2, <2>3, HeldBefore, JobMoves
     DEF Packages!TypeOK, EndedPlaces
<1> QED BY <1>5, <1>6

\* The saved row decides whether the add-on is enabled.
LEMMA SettingReadKeeps ==
  ASSUME PackagesInv, NEW r \in 0 .. MaxJobs, Packages!SettingRead(r)
  PROVE  PackagesInv'
<1>1. job[r].at \notin EndedPlaces /\ job[r].at = "asking"
      BY DEF Packages!SettingRead, EndedPlaces
<1>2. UNCHANGED <<package, packageRow, installed, plugin, leaving, loaded, crashes>>
        /\ job[r] \in JobRecord
      BY <1>1, HeldBefore DEF Packages!SettingRead
<1>3. /\ job[r].kind \notin {"script", "uninstall"}
      /\ plugin = "none" \/ packageRow.enabled \/ slipped
      /\ package \in Loadable /\ job[r].obj.version = package
      BY <1>1, HeldBefore DEF JobKept, LoadPlaces
<1>5. job[r].obj.version \in Version \union {"none"} /\ packageRow.enabled \in BOOLEAN
      BY <1>1, <1>2, HeldBefore DEF JobRecord, Packages!SomeManifest, Packages!TypeOK
<1>6. PICK e \in BOOLEAN :
             /\ Packages!Holds(r, "saving", Packages!Manifest(job[r].obj.version, e))
             /\ \/ e = packageRow.enabled /\ choice' = choice /\ slipped' = slipped
                \/ choice' = "open" /\ slipped' = TRUE
      BY <1>5 DEF Packages!SettingRead
<1>4. SettingKept' /\ Packages!RunsWhole'
      BY <1>1, <1>2, <1>6, HeldBefore DEF SettingKept, Packages!RunsWhole
<1> DEFINE obj == Packages!Manifest(job[r].obj.version, e)
<1>7. obj \in Packages!SomeManifest /\ obj.there /\ obj.version = package /\ (obj.enabled <=> e)
      BY <1>3, <1>5, ManifestMade
<1>8. obj.enabled = e
  <2>1. obj.enabled \in BOOLEAN
        BY <1>7 DEF Packages!SomeManifest
  <2> QED BY <1>7, <2>1, Zenon
<1> HIDE DEF obj
<1>9. PICK j \in JobRecord :
             PutsJob(r, j) /\ j.at = "saving" /\ j.kind = job[r].kind /\ j.obj = obj
      BY <1>1, <1>6, <1>7, HeldBefore, JobHolds DEF Packages!At, obj
<1>10. job'[r] = j
      BY <1>1, <1>9, HeldBefore DEF PutsJob
<1>11. JobKept(r)'
      BY <1>2, <1>3, <1>6, <1>7, <1>8, <1>9, <1>10 DEF JobKept, Packages!Installing, LoadPlaces
<1> QED BY <1>1, <1>2, <1>3, <1>4, <1>6, <1>9, <1>11, HeldBefore, JobMoves
   DEF Packages!TypeOK, EndedPlaces

\* The manifest is saved, and is the one that is installed.
LEMMA ManifestSavedKeeps ==
  ASSUME PackagesInv, NEW r \in 0 .. MaxJobs, Packages!ManifestSaved(r)
  PROVE  PackagesInv'
<1>1. job[r].at \notin EndedPlaces /\ job[r].at = "saving"
      BY DEF Packages!ManifestSaved, EndedPlaces
<1>2. UNCHANGED <<package, plugin, leaving, loaded, crashes, choice, slipped>>
        /\ job[r] \in JobRecord
      BY <1>1, HeldBefore DEF Packages!ManifestSaved
<1>3. /\ job[r].kind \notin {"script", "uninstall"}
      /\ plugin = "none" \/ packageRow.enabled \/ slipped
      /\ package \in Loadable /\ job[r].obj.version = package /\ job[r].obj.there
      /\ job[r].obj.enabled = packageRow.enabled \/ (slipped /\ choice = "open")
      BY <1>1, HeldBefore DEF JobKept, LoadPlaces
<1>4. packageRow' = job[r].obj /\ installed' = job[r].obj /\ job[r].obj \in Packages!SomeManifest
      BY <1>2 DEF Packages!ManifestSaved, JobRecord
<1>5. SettingKept' /\ Packages!RunsWhole'
      BY <1>1, <1>2, <1>3, <1>4, HeldBefore DEF SettingKept, Packages!RunsWhole
<1>6. choice' # "open" /\ packageRow'.there => (packageRow'.enabled <=> choice' = "on")
      BY <1>1, <1>2, <1>3, <1>4, HeldBefore DEF SettingKept
<1>9. PICK j \in JobRecord :
             PutsJob(r, j) /\ j.at = "starting" /\ j.kind = job[r].kind /\ j.obj = job[r].obj
      BY <1>1, HeldBefore, JobGoes DEF Packages!ManifestSaved, Packages!At
<1>10. job'[r] = j
      BY <1>1, <1>9, HeldBefore DEF PutsJob
<1>11. JobKept(r)'
      BY <1>2, <1>3, <1>4, <1>9, <1>10 DEF JobKept, Packages!Installing, LoadPlaces
<1> QED BY <1>1, <1>2, <1>3, <1>4, <1>5, <1>6, <1>9, <1>11, HeldBefore, JobMoves
   DEF Packages!TypeOK, EndedPlaces

\* The add-on is started, if it is enabled.
LEMMA StartedKeeps ==
  ASSUME PackagesInv, NEW r \in 0 .. MaxJobs, Packages!Started(r)
  PROVE  PackagesInv'
<1>1. job[r].at \notin EndedPlaces /\ job[r].at = "starting"
      BY DEF Packages!Started, EndedPlaces
<1>2. UNCHANGED <<package, packageRow, installed, leaving, loaded, crashes>>
        /\ job[r] \in JobRecord
      BY <1>1, HeldBefore DEF Packages!Started
<1>3. /\ job[r].kind \notin {"script", "uninstall"}
      /\ plugin = "none" \/ packageRow.enabled \/ slipped
      /\ package \in Loadable /\ packageRow = job[r].obj /\ installed = packageRow
      BY <1>1, HeldBefore DEF JobKept, LoadPlaces
<1>4. PICK j \in JobRecord : PutsJob(r, j) /\ j.at \in {"done", "failed"}
      BY <1>1, HeldBefore, JobGoes DEF Packages!Started, Packages!At
<1>5. /\ plugin' = IF packageRow.enabled THEN package ELSE plugin
      /\ choice' = IF job[r].kind \in {"enable", "install"}
          /\ packageRow.enabled THEN "on" ELSE choice
      /\ slipped' = (slipped /\ ~packageRow.enabled /\ plugin # "none")
      BY <1>3 DEF Packages!Started
<1>6. SettingKept' /\ Packages!RunsWhole' /\ AsServed'
      BY <1>1, <1>2, <1>3, <1>5, HeldBefore DEF SettingKept, Packages!RunsWhole, AsServed
<1>7. choice' # "open" /\ packageRow'.there => (packageRow'.enabled <=> choice' = "on")
      BY <1>1, <1>2, <1>5, HeldBefore
<1> QED BY <1>1, <1>2, <1>3, <1>4, <1>5, <1>6, <1>7, HeldBefore, JobMoves
   DEF Packages!TypeOK, EndedPlaces

\* The invariant holds at first: the host has the add-on or not, and has just started.
LEMMA PackagesStart == Packages!Init => PackagesInv
<1> SUFFICES ASSUME Packages!Init PROVE PackagesInv
    OBVIOUS
<1> USE PackagesBounds DEF Packages!PackagesAssumption
<1>1. package \in Version \union {"none"} /\ installed = Packages!NoManifest /\ plugin = "none"
        /\ ~leaving /\ leaving = FALSE
      /\ loaded = TRUE /\ crashes = 0 /\ choice = "open" /\ slipped = FALSE
      BY DEF Packages!Init
<1>2. packageRow \in Packages!SomeManifest /\ (packageRow.enabled => packageRow.there)
  <2>1. CASE package = "none"
        BY <2>1, NoManifestMade DEF Packages!Init
  <2>2. CASE package # "none"
    <3>1. PICK e \in BOOLEAN : packageRow = Packages!Manifest(package, e)
          BY <2>2 DEF Packages!Init
    <3> QED BY <1>1, <3>1, ManifestMade
  <2> QED BY <2>1, <2>2
<1>3. \A r \in 0 .. MaxJobs :
         /\ job[r] \in JobRecord
         /\ r # 0 => job[r].at = "new"
         /\ r = 0
             => job[r].kind = "boot" /\ job[r].at = IF package = "none" THEN "done" ELSE "loading"
  <2> TAKE r \in 0 .. MaxJobs
  <2>1. CASE r = 0
    <3>1. job[r] = Packages!NewJob("boot", IF package = "none" THEN "done" ELSE "loading", "none")
          BY <2>1 DEF Packages!Init
    <3> QED BY <2>1, <3>1, JobMade DEF Packages!Kinds, Packages!At
  <2>2. CASE r # 0
    <3>1. job[r] = Packages!NewJob("update", "new", "none")
          BY <2>2 DEF Packages!Init
    <3> QED BY <2>2, <3>1, JobMade DEF Packages!Kinds, Packages!At
  <2> QED BY <2>1, <2>2
<1>4. job \in [0 .. MaxJobs -> JobRecord]
      BY <1>3 DEF Packages!Init
<1>5. Packages!TypeOK
  <2>1. job \in [0 .. MaxJobs -> [kind : Packages!Kinds, at : Packages!At,
          version : Version \union {"none"}, obj : Packages!SomeManifest]]
        BY <1>4 DEF JobRecord
  <2>2. crashes \in 0 .. MaxCrashes /\ installed \in Packages!SomeManifest
        BY <1>1, NoManifestMade
  <2>3. /\ package \in Version \union {"none", "partial"}
        /\ plugin \in Version \union {"none", "partial"}
        /\ leaving \in BOOLEAN /\ loaded \in BOOLEAN /\ choice \in {"on", "off", "open"}
        /\ slipped \in BOOLEAN
        BY <1>1
  <2> QED BY <1>2, <2>1, <2>2, <2>3 DEF Packages!TypeOK
<1>6. Packages!Open = IF package = "none" THEN {} ELSE {0}
      BY <1>3 DEF Packages!Open
<1>7. OneAtATime /\ SettingKept
      BY <1>1, <1>2, <1>3, <1>6 DEF OneAtATime, SettingKept
<1>8. JobsKept
      BY <1>1, <1>3, <1>6 DEF JobsKept, JobKept, LoadPlaces, Packages!Installing
<1>9. Packages!RunsAsChosen
      BY <1>1, <1>6 DEF Packages!RunsAsChosen, Packages!RunsWhole, Packages!ServedAsChosen
<1> QED BY <1>5, <1>7, <1>8, <1>9 DEF PackagesInv

\* What the invariant says when a request can come, with Settled.
LEMMA AtRest ==
  ASSUME PackagesInv, Packages!Open = {}
  PROVE  /\ Packages!TypeOK /\ SettingKept /\ Packages!RunsWhole
         /\ leaving => loaded
         /\ leaving => package \notin Loadable \/ slipped
         /\ ~loaded => plugin = "none"
         /\ loaded /\ ~leaving => AsServed
         /\ choice # "open" /\ packageRow.there => (packageRow.enabled <=> choice = "on")
BY DEF PackagesInv, OneAtATime, Packages!RunsAsChosen, Packages!ServedAsChosen, AsServed

\* What is left to show of the arrival of r.
LEMMA ArrivalKeeps ==
  ASSUME PackagesInv, Packages!Open = {}, NEW r \in 0 .. MaxJobs, NEW j \in JobRecord,
         PutsJob(r, j), j.at \notin EndedPlaces,
         package' = package, packageRow' = packageRow, installed' \in Packages!SomeManifest,
             plugin' = plugin,
         leaving' \in BOOLEAN, loaded' \in BOOLEAN, crashes' = crashes,
             choice' \in {"on", "off", "open"}, slipped' \in BOOLEAN,
         j.kind = "script" <=> ~loaded',
         leaving' => loaded' /\ j.kind = "uninstall",
         ~loaded' => plugin' = "none",
         j.kind \in {"install", "uninstall", "enable", "disable"} => choice' = "open",
         choice' \in {choice, "open"},
         Packages!RunsWhole', JobKept(r)'
  PROVE  PackagesInv'
<1>1. Packages!Open' = {r}
  <2>1. \A q \in 0 .. MaxJobs : q # r => job'[q].at \in EndedPlaces
        BY OpenIs DEF PutsJob
  <2>2. Packages!Open' = {q \in 0 .. MaxJobs : job'[q].at \notin EndedPlaces}
        BY DEF Packages!Open, EndedPlaces
  <2> QED BY <2>1, <2>2 DEF PutsJob
<1>2. job'[r] = j
      BY DEF PutsJob
<1>3. Packages!TypeOK'
      BY AtRest DEF Packages!TypeOK, PutsJob, JobRecord
<1>4. OneAtATime'
      BY <1>1, <1>2 DEF OneAtATime
<1>5. JobsKept' /\ SettingKept'
      BY <1>1, <1>2, AtRest DEF JobsKept, SettingKept
<1>6. choice' # "open" /\ packageRow'.there => packageRow'.enabled = (choice' = "on")
  <2>1. packageRow.enabled \in BOOLEAN /\ (choice' = "on") \in BOOLEAN
        BY AtRest DEF Packages!SomeManifest, Packages!TypeOK
  <2>2. choice' # "open" /\ packageRow'.there => (packageRow'.enabled <=> choice' = "on")
        BY AtRest
  <2> QED BY <2>1, <2>2, Zenon
<1>7. Packages!RunsAsChosen'
      BY <1>1, <1>6 DEF Packages!RunsAsChosen, Packages!ServedAsChosen, AsServed
<1> QED BY <1>3, <1>4, <1>5, <1>7 DEF PackagesInv

\* With Settled, a request comes only when none is open and nothing leaves.
LEMMA ComesAtRest == ASSUME Settled, NEW r \in Packages!Request, Packages!Comes(r)
                     PROVE  Packages!Open = {} /\ ~leaving /\ r \in 0 .. MaxJobs /\ r # 0
BY PackagesBounds DEF Packages!Comes, Packages!Request, Packages!PackagesAssumption

\* An installation, an update, the script and a new configuration begin.
LEMMA BeginsKeep ==
  ASSUME PackagesInv, Settled, NEW r \in Packages!Request, NEW v \in Version \union {"none"},
         \/ Packages!BeginInstall(r, "install", v) \/ Packages!BeginInstall(r, "update", v)
             \/ Packages!BeginScript(r, v)
         \/ Packages!BeginConfigure(r)
  PROVE  PackagesInv'
<1> USE PackagesBounds DEF Packages!PackagesAssumption
<1>1. Packages!Open = {} /\ ~leaving /\ r \in 0 .. MaxJobs
      BY ComesAtRest DEF Packages!BeginInstall, Packages!BeginScript, Packages!BeginConfigure
<1>2. PICK j \in JobRecord : /\ job' = [job EXCEPT ![r] = j]
                             /\ \/ loaded /\ j.at = "fetching" /\ j.kind \in {"install", "update"}
                                \/ ~loaded /\ j.at = "fetching" /\ j.kind = "script"
                                \/ loaded /\ j.at = "unloading" /\ j.kind = "configure"
                             /\ choice' = IF j.kind = "install" THEN "open" ELSE choice
  <2>1. CASE \E k \in {"install", "update"} : Packages!BeginInstall(r, k, v)
    <3>1. PICK k \in {"install", "update"} : Packages!BeginInstall(r, k, v)
          BY <2>1
    <3> DEFINE n == Packages!NewJob(k, "fetching", v)
    <3>2. n \in JobRecord /\ n.kind = k /\ n.at = "fetching"
          BY JobMade DEF Packages!Kinds, Packages!At
    <3>3. job' = [job EXCEPT ![r] = n] /\ loaded
            /\ choice' = IF k = "install" THEN "open" ELSE choice
          BY <3>1 DEF Packages!BeginInstall
    <3> HIDE DEF n
    <3> QED BY <3>2, <3>3
  <2>2. CASE Packages!BeginScript(r, v)
    <3> DEFINE n == Packages!NewJob("script", "fetching", v)
    <3>2. n \in JobRecord /\ n.kind = "script" /\ n.at = "fetching"
          BY JobMade DEF Packages!Kinds, Packages!At
    <3>3. job' = [job EXCEPT ![r] = n] /\ ~loaded /\ choice' = choice
          BY <2>2 DEF Packages!BeginScript
    <3> HIDE DEF n
    <3> QED BY <3>2, <3>3
  <2>3. CASE Packages!BeginConfigure(r)
    <3> DEFINE n == Packages!NewJob("configure", "unloading", "none")
    <3>2. n \in JobRecord /\ n.kind = "configure" /\ n.at = "unloading"
          BY JobMade DEF Packages!Kinds, Packages!At
    <3>3. job' = [job EXCEPT ![r] = n] /\ loaded /\ choice' = choice
          BY <2>3 DEF Packages!BeginConfigure
    <3> HIDE DEF n
    <3> QED BY <3>2, <3>3
  <2> QED BY <2>1, <2>2, <2>3
<1>3. PutsJob(r, j) /\ job'[r] = j
      BY <1>1, <1>2, AtRest, JobPut DEF PutsJob
<1>4. UNCHANGED <<package, packageRow, installed, plugin, leaving, loaded, crashes, slipped>>
      BY DEF Packages!BeginInstall, Packages!BeginScript, Packages!BeginConfigure
<1>5. Packages!RunsWhole'
      BY <1>1, <1>4, AtRest DEF Packages!RunsWhole
<1>6. JobKept(r)'
      BY <1>1, <1>2, <1>3, <1>4, AtRest DEF JobKept, Packages!Installing, LoadPlaces, AsServed
<1> QED BY <1>1, <1>2, <1>3, <1>4, <1>5, <1>6, AtRest, ArrivalKeeps
   DEF Packages!TypeOK, EndedPlaces

\* An uninstallation begins: the add-on may be leaving while its directory goes.
LEMMA BeginUninstallKeeps ==
  ASSUME PackagesInv, Settled, NEW r \in Packages!Request, Packages!BeginUninstall(r)
  PROVE  PackagesInv'
<1>1. Packages!Open = {} /\ ~leaving /\ r \in 0 .. MaxJobs
      BY ComesAtRest DEF Packages!BeginUninstall
<1> DEFINE j == Packages!NewJob("uninstall", "removing", "none")
<1>2. j \in JobRecord /\ j.kind = "uninstall" /\ j.at = "removing"
      BY JobMade DEF Packages!Kinds, Packages!At
<1>3. job' = [job EXCEPT ![r] = j] /\ loaded /\ leaving' = (plugin # "none") /\ choice' = "open"
      BY DEF Packages!BeginUninstall
<1> HIDE DEF j
<1>4. PutsJob(r, j) /\ job'[r] = j
      BY <1>1, <1>2, <1>3, AtRest, JobPut DEF PutsJob
<1>5. UNCHANGED <<package, packageRow, installed, plugin, loaded, crashes, slipped>>
      BY DEF Packages!BeginUninstall
<1>6. Packages!RunsWhole' /\ leaving' \in BOOLEAN
      BY <1>1, <1>3, <1>5, AtRest DEF Packages!RunsWhole
<1>7. JobKept(r)'
      BY <1>2, <1>3, <1>4, <1>5 DEF JobKept, Packages!Installing, LoadPlaces
<1> QED BY <1>1, <1>2, <1>3, <1>4, <1>5, <1>6, <1>7, AtRest, ArrivalKeeps
   DEF Packages!TypeOK, EndedPlaces

\* Enabling and disabling begin: the installed object changes before the row.
LEMMA BeginToggleKeeps ==
  ASSUME PackagesInv, Settled, NEW r \in Packages!Request, NEW kind \in {"enable", "disable"},
         Packages!BeginToggle(r, kind)
  PROVE  PackagesInv'
<1>1. Packages!Open = {} /\ ~leaving /\ r \in 0 .. MaxJobs
      BY ComesAtRest DEF Packages!BeginToggle
<1>2. /\ installed' = Packages!Manifest(installed.version, kind = "enable") /\ loaded
      /\ choice' = "open"
      /\ job' = [job EXCEPT ![r] = [Packages!NewJob(kind, "writing",
          "none") EXCEPT !.obj = installed']]
      BY Zenon DEF Packages!BeginToggle
<1>3. installed.version \in Version \union {"none"}
      BY <1>1, AtRest DEF Packages!TypeOK, Packages!SomeManifest
<1>4. installed' \in Packages!SomeManifest /\ (installed'.enabled <=> kind = "enable")
        /\ installed'.there
  <2>1. (kind = "enable") \in BOOLEAN
        OBVIOUS
  <2> QED BY <1>2, <1>3, <2>1, ManifestMade, Zenon
<1> DEFINE j == [Packages!NewJob(kind, "writing", "none") EXCEPT !.obj = installed']
<1>5. j \in JobRecord /\ j.kind = kind /\ j.at = "writing" /\ j.obj = installed'
  <2>1. Packages!NewJob(kind, "writing", "none") \in JobRecord
          /\ Packages!NewJob(kind, "writing", "none").kind = kind
        /\ Packages!NewJob(kind, "writing", "none").at = "writing"
        BY JobMade DEF Packages!Kinds, Packages!At
  <2> QED BY <1>4, <2>1 DEF JobRecord
<1>6. job' = [job EXCEPT ![r] = j]
      BY <1>2
<1> HIDE DEF j
<1>7. PutsJob(r, j) /\ job'[r] = j
      BY <1>1, <1>5, <1>6, AtRest, JobPut DEF PutsJob
<1>8. UNCHANGED <<package, packageRow, plugin, leaving, loaded, crashes, slipped>>
      BY DEF Packages!BeginToggle
<1>9. Packages!RunsWhole'
      BY <1>1, <1>8, AtRest DEF Packages!RunsWhole
<1>10. JobKept(r)'
      BY <1>2, <1>4, <1>5, <1>7, <1>8 DEF JobKept, InHand, Packages!Installing, LoadPlaces
<1> QED BY <1>1, <1>2, <1>4, <1>5, <1>7, <1>8, <1>9, <1>10, AtRest, ArrivalKeeps
   DEF Packages!TypeOK, EndedPlaces

\* The add-on that was leaving has left.
LEMMA LeftKeeps == PackagesInv /\ Packages!Left => PackagesInv'
<1> SUFFICES ASSUME PackagesInv, Packages!Left PROVE PackagesInv'
    OBVIOUS
<1>1. /\ leaving /\ leaving' = FALSE /\ plugin' = "none"
      /\ UNCHANGED <<package, packageRow, installed, loaded, job, crashes, choice, slipped>>
      BY DEF Packages!Left
<1>2. Packages!TypeOK' /\ OneAtATime' /\ SettingKept' /\ Packages!Open' = Packages!Open
        /\ Packages!RunsWhole'
      BY <1>1
         DEF PackagesInv, Packages!TypeOK, OneAtATime, SettingKept, Packages!Open,
             Packages!RunsWhole
<1>3. JobsKept'
  <2> SUFFICES ASSUME NEW r \in Packages!Open PROVE JobKept(r)'
      BY <1>2 DEF JobsKept
  <2>1. job[r].kind = "uninstall" /\ JobKept(r)
      BY <1>1 DEF PackagesInv, OneAtATime, JobsKept
  <2> QED BY <1>1, <2>1 DEF JobKept, Packages!Installing, LoadPlaces, InHand
<1> QED BY <1>1, <1>2, <1>3
   DEF PackagesInv, Packages!RunsAsChosen, Packages!ServedAsChosen, OneAtATime

\* The gateway dies: its requests are lost, its memory is gone.
LEMMA CrashKeeps == PackagesInv /\ Packages!Crash => PackagesInv'
<1> SUFFICES ASSUME PackagesInv, Packages!Crash PROVE PackagesInv'
    OBVIOUS
<1> USE PackagesBounds DEF Packages!PackagesAssumption
<1>1. /\ crashes < MaxCrashes /\ crashes' = crashes + 1 /\ loaded' = FALSE
      /\ installed' = Packages!NoManifest /\ plugin' = "none" /\ leaving' = FALSE
      /\ UNCHANGED <<package, packageRow, choice, slipped>>
      BY DEF Packages!Crash
<1>2. job \in [0 .. MaxJobs -> JobRecord]
      BY DEF PackagesInv, Packages!TypeOK, JobRecord
<1>3. \A r \in 0 .. MaxJobs : job'[r] \in JobRecord /\ job'[r].at \in EndedPlaces
  <2> TAKE r \in 0 .. MaxJobs
  <2>1. CASE r \in Packages!Open
    <3>1. job'[r] = Packages!NewJob(job[r].kind, "lost", "none")
          BY <1>2, <2>1 DEF Packages!Crash
    <3>2. job[r].kind \in Packages!Kinds
          BY <1>2 DEF JobRecord
    <3> QED BY <3>1, <3>2, JobMade DEF Packages!At, EndedPlaces
  <2>2. CASE r \notin Packages!Open
        BY <1>2, <2>2, OpenIs DEF Packages!Crash
  <2> QED BY <2>1, <2>2
<1>4. job' \in [0 .. MaxJobs -> JobRecord]
      BY <1>2, <1>3 DEF Packages!Crash
<1>5. Packages!Open' = {}
      BY <1>3 DEF Packages!Open, EndedPlaces
<1>6. Packages!TypeOK'
  <2>1. job' \in [0 .. MaxJobs -> [kind : Packages!Kinds, at : Packages!At,
          version : Version \union {"none"}, obj : Packages!SomeManifest]]
        BY <1>4 DEF JobRecord
  <2>2. crashes' \in 0 .. MaxCrashes
        BY <1>1 DEF PackagesInv, Packages!TypeOK
  <2> QED BY <1>1, <2>1, <2>2, NoManifestMade DEF PackagesInv, Packages!TypeOK
<1> QED BY <1>1, <1>5, <1>6
        DEF PackagesInv, OneAtATime, SettingKept, JobsKept, Packages!RunsAsChosen,
            Packages!RunsWhole, Packages!ServedAsChosen

\* The gateway starts again and loads what is on disk.
LEMMA BootKeeps == PackagesInv /\ Packages!Boot => PackagesInv'
<1> SUFFICES ASSUME PackagesInv, Packages!Boot PROVE PackagesInv'
    OBVIOUS
<1> USE PackagesBounds DEF Packages!PackagesAssumption
<1>1. /\ ~loaded /\ Packages!Open = {} /\ loaded' = TRUE /\ installed' = Packages!NoManifest
      /\ UNCHANGED <<package, packageRow, plugin, leaving, crashes, choice>>
      /\ slipped' = FALSE
      BY DEF Packages!Boot
<1> DEFINE j == Packages!NewJob("boot", IF package = "none" THEN "done" ELSE "loading", "none")
<1>2. j \in JobRecord /\ j.kind = "boot" /\ j.at = IF package = "none" THEN "done" ELSE "loading"
      BY JobMade DEF Packages!Kinds, Packages!At
<1>3. job' = [job EXCEPT ![0] = j]
      BY DEF Packages!Boot
<1> HIDE DEF j
<1>4. PutsJob(0, j) /\ job'[0] = j /\ Packages!TypeOK
  <2>1. Packages!TypeOK /\ 0 \in 0 .. MaxJobs
        BY <1>1, AtRest
  <2>2. PutsJob(0, j)
        BY <1>2, <1>3, <2>1, JobPut
  <2> QED BY <2>1, <2>2 DEF PutsJob
<1>5. plugin = "none" /\ ~leaving /\ leaving = FALSE
      BY <1>1, AtRest DEF Packages!TypeOK
<1>6. Packages!RunsWhole'
      BY <1>1, <1>5 DEF Packages!RunsWhole
<1>7. CASE package = "none"
  <2>1. \A q \in 0 .. MaxJobs : job'[q].at \in EndedPlaces
        BY <1>1, <1>2, <1>4, <1>7, OpenIs DEF PutsJob, EndedPlaces
  <2>2. Packages!Open' = {}
        BY <2>1 DEF Packages!Open, EndedPlaces
  <2>3. Packages!TypeOK'
        BY <1>1, <1>4, NoManifestMade DEF Packages!TypeOK, PutsJob, JobRecord
  <2>4. OneAtATime' /\ SettingKept' /\ JobsKept'
        BY <1>1, <1>5, <2>2 DEF PackagesInv, OneAtATime, SettingKept, JobsKept
  <2>5. ~(packageRow'.enabled /\ package' \in Loadable) /\ plugin' = "none"
        BY <1>1, <1>5, <1>7
  <2>6. choice' # "open" /\ packageRow'.there => packageRow'.enabled = (choice' = "on")
    <3>1. choice # "open" /\ packageRow.there => packageRow.enabled = (choice = "on")
          BY Zenon DEF PackagesInv, Packages!RunsAsChosen, Packages!ServedAsChosen
    <3> QED BY <1>1, <3>1
  <2>7. Packages!ServedAsChosen'
        BY <2>5, <2>6, Zenon DEF Packages!ServedAsChosen
  <2> QED BY <1>6, <2>3, <2>4, <2>7 DEF PackagesInv, Packages!RunsAsChosen
<1>8. CASE package # "none"
  <2>1. JobKept(0)'
        BY <1>1, <1>2, <1>4, <1>5, <1>8 DEF JobKept, Packages!Installing, LoadPlaces
  <2>2. j.at \notin EndedPlaces /\ j.kind = "boot" /\ 0 \in 0 .. MaxJobs
        BY <1>2, <1>8 DEF EndedPlaces
  <2>3. choice' = choice /\ choice \in {"on", "off", "open"}
        BY <1>1, <1>4 DEF Packages!TypeOK
  <2>4. slipped' \in BOOLEAN /\ loaded' \in BOOLEAN
        BY <1>1, Zenon
  <2> QED BY <1>1, <1>2, <1>4, <1>5, <1>6, <2>1, <2>2, <2>3, <2>4, ArrivalKeeps, NoManifestMade
<1> QED BY <1>7, <1>8

\* Every step keeps the invariant.
LEMMA PackagesStep == Settled /\ PackagesInv /\ [Packages!Next]_packageVars => PackagesInv'
<1> SUFFICES ASSUME Settled, PackagesInv, [Packages!Next]_packageVars PROVE PackagesInv'
    OBVIOUS
<1>1. ASSUME NEW r \in Packages!Request, NEW v \in Version,
             Packages!BeginInstall(r, "install", v) \/ Packages!BeginInstall(r, "update", v)
                 \/ Packages!BeginScript(r, v)
      PROVE  PackagesInv'
      BY <1>1, BeginsKeep
<1>2. ASSUME NEW r \in Packages!Request, NEW kind \in {"enable", "disable"},
      Packages!BeginToggle(r, kind)
      PROVE  PackagesInv'
      BY <1>2, BeginToggleKeeps
<1>3. ASSUME NEW r \in Packages!Request, Packages!BeginUninstall(r) PROVE PackagesInv'
      BY <1>3, BeginUninstallKeeps
<1>4. ASSUME NEW r \in Packages!Request, Packages!BeginConfigure(r) PROVE PackagesInv'
      BY <1>4, BeginsKeep
<1>5. ASSUME NEW r \in 0 .. MaxJobs, Packages!Step(r) PROVE PackagesInv'
      BY <1>5, FetchedKeeps, UnloadedKeeps, RemovingKeeps, RemovedKeeps, CopyingKeeps,
          CopiedKeeps,
         ReadKeeps, WrittenKeeps, StatementFailsKeeps, ReadManifestKeeps,
             SettingReadKeeps, ManifestSavedKeeps, StartedKeeps
      DEF Packages!Step
<1>6. CASE UNCHANGED packageVars
      BY <1>6
         DEF packageVars, PackagesInv, Packages!TypeOK, OneAtATime, SettingKept, JobsKept,
             JobKept, InHand, Packages!Open, AsServed,
                  Packages!RunsAsChosen, Packages!RunsWhole, Packages!ServedAsChosen
<1> QED BY <1>1, <1>2, <1>3, <1>4, <1>5, <1>6, LeftKeeps, CrashKeeps, BootKeeps DEF Packages!Next

\* A step of the services is a step of this part, or leaves it alone.
LEMMA PackagesMove == [ServicesNext]_services => [Packages!Next]_packageVars
BY DEF ServicesNext, services, packageVars

\* When one request is served before the next is made, an add-on runs only from a whole
\* package; its row says what was asked last, unless a load could not read it; and once nothing
\* is under way it runs if and only if its row says so, unless a statement of the settings or the
\* whole of a removal has failed since: whatever a failed copy or the death of the gateway cut short
\* (AddonManager.installAddon, uninstallAddon, enableAddon, disableAddon, loadAddon).
THEOREM PackagesSafe == ServicesSpec => [](Settled => RunsAsChosen)
<1> DEFINE Inv == Settled => PackagesInv
<1>1. ServicesInit => Inv
      BY PackagesStart DEF ServicesInit
<1>2. Inv /\ [ServicesNext]_services => Inv'
      BY PackagesMove, PackagesStep
<1>3. Inv => (Settled => RunsAsChosen)
      BY DEF PackagesInv, RunsAsChosen
<1> HIDE DEF Inv
<1> QED BY <1>1, <1>2, <1>3, PTL DEF ServicesSpec

-----------------------------------------------------------------------------
(* The first start (WiFiSetup).                                            *)
\* The bounds of the first start are numbers.
LEMMA WiFiBounds == WiFi!BoundsAssumption
BY ServicesAssumption DEF ServicesAssumption

\* Each request that is on its way was counted when it came.
PostsCounted == posts["storing"] + posts["resting"] + posts["leaving"] <= posted
WiFiInv == WiFi!TypeOK /\ PostsCounted /\ WiFi!GatewayWithoutAp

Net == [listed : BOOLEAN, saved : BOOLEAN, joined : BOOLEAN]

\* A unit that is made of two Booleans is one.
LEMMA UnitMade == ASSUME NEW a \in BOOLEAN, NEW b \in BOOLEAN
                  PROVE  [active |-> a, boot |-> b] \in WiFi!Unit
BY DEF WiFi!Unit

\* A network that is made of three Booleans is one.
LEMMA NetMade == ASSUME NEW a \in BOOLEAN, NEW b \in BOOLEAN, NEW c \in BOOLEAN
                 PROVE  [listed |-> a, saved |-> b, joined |-> c] \in Net
BY DEF Net

\* What is left of the network is a network.
LEMMA NetworksGoneType == 
  ASSUME WiFi!TypeOK, NEW a \in BOOLEAN, NEW k \in BOOLEAN, WiFi!NetworksGone(a, k)
  PROVE  net' \in Net
<1>1. net.listed \in BOOLEAN /\ net.saved \in BOOLEAN /\ net.joined \in BOOLEAN
      BY DEF WiFi!TypeOK
<1>2. PICK stay \in {FALSE, net.listed} : 
        net' = [listed |-> stay \/ a,
                saved |-> IF k THEN stay \/ a ELSE net.saved,
                joined |-> stay /\ net.joined]
      BY DEF WiFi!NetworksGone
<1>3. (stay \/ a) \in BOOLEAN /\ (IF k THEN stay \/ a ELSE net.saved) \in BOOLEAN
        /\ (stay /\ net.joined) \in BOOLEAN
      BY <1>1
<1> QED BY <1>2, <1>3, NetMade, Zenon

\* stopAP, cut after n of its calls: a whole row of calls leaves nothing active.
LEMMA StopRow == 
  ASSUME WiFi!TypeOK, NEW n \in 0 .. 4, WiFi!StopAP(n)
  PROVE  /\ ap' \in WiFi!Unit /\ dhcp' \in WiFi!Unit /\ net' \in Net
         /\ ~(n < 4) => ~ap'.active /\ ~dhcp'.active
<1>1. ap' \in WiFi!Unit /\ dhcp' \in WiFi!Unit
      BY UnitMade, Zenon DEF WiFi!StopAP
<1>2. net' \in Net
      BY NetworksGoneType, Zenon DEF WiFi!StopAP
<1>3. /\ ap'.active => n < 1
      /\ dhcp'.active => n < 3
      BY Zenon DEF WiFi!StopAP
<1>4. ~(n < 4) => ~(n < 1) /\ ~(n < 3)
      OBVIOUS
<1> QED BY <1>1, <1>2, <1>3, <1>4

\* startAP, cut after n of its calls.
LEMMA StartRow == 
  ASSUME WiFi!TypeOK, NEW n \in 0 .. 8, WiFi!StartAP(n)
  PROVE  ap' \in WiFi!Unit /\ dhcp' \in WiFi!Unit /\ net' \in Net
<1>0. ap.active \in BOOLEAN
      BY DEF WiFi!TypeOK, WiFi!Unit
<1>1. (IF n < 1 THEN ap.active ELSE n >= 4) \in BOOLEAN
  <2>1. (n >= 4) \in BOOLEAN
        OBVIOUS
  <2> QED BY <1>0, <2>1, Zenon
<1>2. ap' \in WiFi!Unit /\ dhcp' \in WiFi!Unit
      BY <1>1, UnitMade, Zenon DEF WiFi!StartAP
<1> QED BY <1>2, NetworksGoneType, Zenon DEF WiFi!StartAP

\* defineNetwork, cut after n of its calls: a whole row leaves the access point down.
LEMMA DefineRow == 
  ASSUME WiFi!TypeOK, NEW n \in 0 .. 8, WiFi!DefineNetwork(n)
  PROVE  /\ ap' \in WiFi!Unit /\ dhcp' = dhcp /\ net' \in Net
         /\ ~(n < 8) => ~ap'.active
<1>1. ap' \in WiFi!Unit
      BY UnitMade, Zenon DEF WiFi!DefineNetwork
<1>2. net' \in Net
  <2>1. (n >= 3) \in BOOLEAN /\ (n >= 7) \in BOOLEAN
        OBVIOUS
  <2> QED BY <2>1, NetworksGoneType, Zenon DEF WiFi!DefineNetwork
<1>3. ap'.active => n < 1
      BY Zenon DEF WiFi!DefineNetwork
<1>4. ~(n < 8) => ~(n < 1)
      OBVIOUS
<1> QED BY <1>1, <1>2, <1>3, <1>4 DEF WiFi!DefineNetwork

\* The invariant holds at first.
LEMMA WiFiStarts == WiFi!Init => WiFiInv
<1> SUFFICES ASSUME WiFi!Init PROVE WiFiInv
    OBVIOUS
<1>1. ap \in WiFi!Unit /\ dhcp \in WiFi!Unit
   BY UnitMade, Zenon DEF WiFi!Init, WiFi!Off
<1>2. net \in Net
   BY NetMade, Zenon DEF WiFi!Init
<1>3. posts \in [WiFi!Stage -> 0 .. MaxPosts] /\ starts \in 0 .. MaxStarts
        /\ posted \in 0 .. MaxPosts
   BY WiFiBounds DEF WiFi!Init, WiFi!NoPosts, WiFi!BoundsAssumption
<1>4. skip \in BOOLEAN /\ lan \in BOOLEAN /\ failed \in BOOLEAN /\ phase = "asks"
   BY DEF WiFi!Init
<1>5. WiFi!TypeOK
   BY <1>1, <1>2, <1>3, <1>4 DEF WiFi!TypeOK, Net
<1>6. WiFi!GatewayWithoutAp
   BY <1>4 DEF WiFi!GatewayWithoutAp
<1> QED BY <1>5, <1>6, WiFiBounds
   DEF WiFiInv, PostsCounted, WiFi!Init, WiFi!NoPosts, WiFi!Stage, WiFi!BoundsAssumption

\* A request to connect that comes, ends, leaves or is lost with the gateway keeps the count.
LEMMA PostsMoved ==
  ASSUME WiFi!TypeOK, PostsCounted
  PROVE  /\ \A q \in {"storing", "resting"} :
              posted < MaxPosts /\ posted' = posted + 1 /\ posts' = [posts EXCEPT ![q] = @ + 1]
              => PostsCounted' /\ posts' \in [WiFi!Stage -> 0 .. MaxPosts]
         /\ \A q \in WiFi!Stage :
              posts[q] > 0 /\ posted' = posted /\ posts' = [posts EXCEPT ![q] = @ - 1]
              => PostsCounted' /\ posts' \in [WiFi!Stage -> 0 .. MaxPosts]
         /\ posts["resting"] > 0 /\ posted' = posted 
            /\ posts' = [posts EXCEPT !["resting"] = @ - 1, !["leaving"] = @ + 1]
            => PostsCounted' /\ posts' \in [WiFi!Stage -> 0 .. MaxPosts]
         /\ posted' = posted /\ posts' = WiFi!NoPosts
            => PostsCounted' /\ posts' \in [WiFi!Stage -> 0 .. MaxPosts]
<1> USE WiFiBounds DEF WiFi!BoundsAssumption
<1>1. posts \in [WiFi!Stage -> 0 .. MaxPosts] /\ posted \in 0 .. MaxPosts
      BY DEF WiFi!TypeOK
<1> QED BY <1>1, SMT DEF PostsCounted, WiFi!Stage, WiFi!NoPosts

\* Every step keeps the invariant.
LEMMA WiFiStep == WiFiInv /\ [WiFi!Next]_wifiVars => WiFiInv'
<1> SUFFICES ASSUME WiFiInv, [WiFi!Next]_wifiVars PROVE WiFiInv'
    OBVIOUS
<1> DEFINE Kept == skip' \in BOOLEAN /\ lan' \in BOOLEAN /\ failed' \in BOOLEAN
           Counts == /\ posts' \in [WiFi!Stage -> 0 .. MaxPosts] /\ starts' \in 0 .. MaxStarts
                     /\ posted' \in 0 .. MaxPosts
                     /\ PostsCounted'
           Units == ap' \in WiFi!Unit /\ dhcp' \in WiFi!Unit /\ net' \in Net
           Phases == {"off", "asks", "setup", "gateway"}
<1>0. SUFFICES Kept /\ Counts /\ Units /\ phase' \in Phases /\ WiFi!GatewayWithoutAp'
      BY DEF WiFiInv, WiFi!TypeOK, Net
<1>t. /\ WiFi!TypeOK /\ WiFi!GatewayWithoutAp /\ PostsCounted
      /\ skip \in BOOLEAN /\ lan \in BOOLEAN /\ failed \in BOOLEAN
      /\ posts \in [WiFi!Stage -> 0 .. MaxPosts] /\ starts \in 0 .. MaxStarts
      /\ posted \in 0 .. MaxPosts
      /\ ap \in WiFi!Unit /\ dhcp \in WiFi!Unit /\ net \in Net
      /\ phase \in Phases
      BY DEF WiFiInv, WiFi!TypeOK, Net
<1>1. CASE WiFi!Configured
  BY <1>t, <1>1, StopRow
     DEF WiFi!Configured, WiFi!EnsureAPStopped, WiFi!SeemsAp, WiFi!GetWirelessMode, WiFi!Carried,
         WiFi!GatewayWithoutAp, PostsCounted
<1>2. CASE WiFi!NotConfigured
  BY <1>t, <1>2, StartRow
     DEF WiFi!NotConfigured, WiFi!Carried, WiFi!GatewayWithoutAp, PostsCounted
<1>3. CASE WiFi!Connecting
  <2>1. Counts
    <3>1. PICK q \in {"storing", "resting"} : posts' = [posts EXCEPT ![q] = @ + 1]
      BY <1>3 DEF WiFi!Connecting
    <3>2. posted < MaxPosts /\ posted' = posted + 1 /\ starts' = starts
      BY <1>3 DEF WiFi!Connecting
    <3>3. PostsCounted' /\ posts' \in [WiFi!Stage -> 0 .. MaxPosts]
      BY <1>t, <3>1, <3>2, PostsMoved, Zenon
    <3>4. posted' \in 0 .. MaxPosts
      BY <1>t, <3>2, WiFiBounds DEF WiFi!BoundsAssumption
    <3> QED BY <1>t, <3>2, <3>3, <3>4
  <2> QED BY <1>t, <1>3, <2>1 DEF WiFi!Connecting, WiFi!GatewayWithoutAp
<1>4. CASE WiFi!Skipped
  <2>1. Counts
    BY <1>t, <1>4, PostsMoved DEF WiFi!Skipped, WiFi!Leave, WiFi!Carried, WiFi!Stage
  <2>2. PICK n \in 0 .. 4 : WiFi!StopAP(n) /\ WiFi!Carried(n, 4, "gateway")
    BY <1>4 DEF WiFi!Skipped
  <2>3. Kept
    BY <1>t, <1>4, <2>2 DEF WiFi!Skipped, WiFi!Carried
  <2> QED BY <1>t, <2>1, <2>2, <2>3, StopRow DEF WiFi!Carried, WiFi!GatewayWithoutAp
<1>5. CASE WiFi!LeaveAP
  <2>1. Counts
    BY <1>t, <1>5, PostsMoved DEF WiFi!LeaveAP, WiFi!Leave, WiFi!Carried, WiFi!Stage
  <2>2. PICK n \in 0 .. 4 : WiFi!StopAP(n) /\ WiFi!Carried(n, 4, phase)
    BY <1>5 DEF WiFi!LeaveAP
  <2>3. Kept
    BY <1>t, <1>5, <2>2 DEF WiFi!LeaveAP, WiFi!Carried
  <2> QED BY <1>t, <2>1, <2>2, <2>3, StopRow DEF WiFi!Carried, WiFi!GatewayWithoutAp
<1>6. CASE WiFi!Define
  <2>1. Counts
    BY <1>t, <1>6, PostsMoved DEF WiFi!Define, WiFi!Leave, WiFi!Carried, WiFi!Stage
  <2>2. PICK n \in 0 .. 8 : WiFi!DefineNetwork(n) /\ WiFi!Carried(n, 8, phase)
    BY <1>6 DEF WiFi!Define
  <2>3. Kept
    BY <1>t, <1>6, <2>2 DEF WiFi!Define, WiFi!Carried
  <2> QED BY <1>t, <2>1, <2>2, <2>3, DefineRow DEF WiFi!Carried, WiFi!GatewayWithoutAp
<1>7. CASE WiFi!Join
  BY <1>t, <1>7 DEF WiFi!Join, Net, WiFi!GatewayWithoutAp, PostsCounted
<1>8. CASE WiFi!PowerCut
  BY <1>t, <1>8 DEF WiFi!PowerCut, WiFi!GatewayWithoutAp, PostsCounted
<1>9. ASSUME NEW host \in BOOLEAN, WiFi!Starts(host)
      PROVE  Kept /\ Counts /\ Units /\ phase' = "asks"
  <2>1. Kept /\ phase' = "asks"
    BY <1>t, <1>9 DEF WiFi!Starts
  <2>2. Counts
    <3>1. posts' = WiFi!NoPosts /\ posted' = posted /\ starts < MaxStarts /\ starts' = starts + 1
      BY <1>9 DEF WiFi!Starts
    <3>2. starts' \in 0 .. MaxStarts
      BY <1>t, <3>1, WiFiBounds DEF WiFi!BoundsAssumption
    <3> QED BY <1>t, <3>1, <3>2, PostsMoved
  <2>3. CASE host
    <3>1. ap' = [ap EXCEPT !.active = ap.boot] /\ dhcp' = [dhcp EXCEPT !.active = dhcp.boot]
      BY <1>9, <2>3, Zenon DEF WiFi!Starts
    <3>2. ap' \in WiFi!Unit /\ dhcp' \in WiFi!Unit
      BY <1>t, <3>1, Zenon DEF WiFi!Unit
    <3>3. PICK j \in {FALSE, net.saved /\ ~ap.boot} :
              net' = [listed |-> net.saved, saved |-> net.saved, joined |-> j]
      BY <1>9, <2>3, Zenon DEF WiFi!Starts
    <3>4. j \in BOOLEAN /\ net.saved \in BOOLEAN
      BY <1>t, <3>3, Zenon DEF Net
    <3> QED BY <2>1, <2>2, <3>2, <3>3, <3>4, NetMade, Zenon
  <2>4. CASE ~host
    BY <1>t, <1>9, <2>1, <2>2, <2>4, Zenon DEF WiFi!Starts
  <2> QED BY <2>3, <2>4
<1>10. CASE WiFi!Boot \/ WiFi!Restart
  BY <1>9, <1>10 DEF WiFi!Boot, WiFi!Restart, WiFi!GatewayWithoutAp
<1>11. CASE UNCHANGED wifiVars
  BY <1>t, <1>11 DEF wifiVars, WiFi!GatewayWithoutAp, PostsCounted
<1> QED BY <1>1, <1>2, <1>3, <1>4, <1>5, <1>6, <1>7, <1>8, <1>10, <1>11 DEF WiFi!Next

\* A step of the services is a step of this part, or leaves it alone.
LEMMA WiFiMoves == [ServicesNext]_services => [WiFi!Next]_wifiVars
BY DEF ServicesNext, services, wifiVars

\* When the gateway runs, the access point of its first start is down: whatever was cut, by
\* a failed call or a power cut, and however often it started (isWiFiConfigured).
THEOREM WiFiSafe == ServicesSpec => []GatewayWithoutAp
<1>1. ServicesInit => WiFi!Init
      BY DEF ServicesInit
<1>2. WiFiInv => GatewayWithoutAp
      BY DEF WiFiInv, GatewayWithoutAp
<1> QED BY <1>1, <1>2, WiFiStarts, WiFiMoves, WiFiStep, PTL DEF ServicesSpec

-----------------------------------------------------------------------------
(* The tunnel and its certificates (TunnelCertificates).                   *)
\* The bounds are numbers.
LEMMA TunnelBounds == MaxCerts \in Nat /\ MaxServers \in Nat /\ MaxSubmits \in Nat
BY ServicesAssumption DEF ServicesAssumption, Tunnel!BoundsAssumption

NoCertificateOrdered == \A r \in Tunnel!Submit : submits[r] # "letter"
SubmitsEnded == \A r \in Tunnel!Submit : submits[r] \in {"none", "ok", "lost"}
TunnelQuiet == tunnel = "none" /\ connected = "pending" /\ SubmitsEnded
HandleIsServer ==
  /\ up = "down" => TunnelQuiet
  /\ up = "https" => handle = server \/ TunnelQuiet
  /\ up \in {"opening", "https"} => server # 0
OnDisk ==
  /\ ~NoCertificateOrdered => Tunnel!HasCertificates
  /\ up \in {"opening", "https"}
      => Tunnel!HasCertificates /\ (NoCertificateOrdered => serves = disk.cert)
  /\ up = "http" => ~Tunnel!HasCertificates \/ ~NoCertificateOrdered
DueIsAlone ==
  /\ due => Tunnel!HasCertificates /\ SubmitsEnded
  /\ due /\ up = "opening" => connected = "pending"
  /\ renewal.at = "issuing" => due
  /\ due /\ renewal.at # "idle" => up = "https" /\ renewal.on = server
  /\ renewal.at = "idle" => renewal = Tunnel!Idle
TunnelInv == HandleIsServer /\ OnDisk /\ DueIsAlone /\ Tunnel!TypeOK

\* What is written of the three files is typed.
LEMMA FilesWritten ==
  ASSUME Tunnel!TypeOK, NEW n \in Nat, NEW new \in Tunnel!Cert
  PROVE  Tunnel!Written(n, new) \in [cert : Tunnel!Cert, key : Tunnel!Cert, chain : Tunnel!Cert]
<1>1. disk.cert \in Tunnel!Cert /\ disk.key \in Tunnel!Cert /\ disk.chain \in Tunnel!Cert
      BY DEF Tunnel!TypeOK
<1> QED BY <1>1 DEF Tunnel!Written

\* Certificates that are issued are typed, and so is what is written of them.
LEMMA FilesTyped ==
  ASSUME Tunnel!TypeOK, certs < MaxCerts, certs' = certs + 1, NEW n \in Nat,
         disk' = Tunnel!Written(n, certs + 1)
  PROVE  certs' \in Tunnel!Cert
             /\ disk' \in [cert : Tunnel!Cert, key : Tunnel!Cert, chain : Tunnel!Cert]
<1> USE TunnelBounds
<1>1. certs + 1 \in Tunnel!Cert
      BY DEF Tunnel!TypeOK, Tunnel!Cert
<1> QED BY <1>1, FilesWritten

\* Every variable keeps its type.
LEMMA TunnelTyped == Tunnel!TypeOK /\ [Tunnel!Next]_tunnelVars => Tunnel!TypeOK'
<1> SUFFICES ASSUME Tunnel!TypeOK, [Tunnel!Next]_tunnelVars PROVE Tunnel!TypeOK'
    OBVIOUS
<1> USE TunnelBounds
   DEF Tunnel!TypeOK, Tunnel!Submit, Tunnel!Cert, Tunnel!Place, Tunnel!Idle, Tunnel!Sub,
       Tunnel!Files, Tunnel!Http, Tunnel!Tunnel, Tunnel!Opens, Tunnel!Up, Tunnel!Dies,
       Tunnel!GivenUp, Tunnel!WriteCertificates
<1>1. CASE Tunnel!Skip
  BY <1>1 DEF Tunnel!Skip, Tunnel!Word, Tunnel!Handled
<1>2. CASE Tunnel!Listens
  BY <1>2 DEF Tunnel!Listens, Tunnel!Word, Tunnel!Handled
<1>3. CASE Tunnel!Renew
  BY <1>3 DEF Tunnel!Renew, Tunnel!Word, Tunnel!Handled
<1>4. CASE Tunnel!Renewing
  BY <1>4 DEF Tunnel!Renewing, Tunnel!Word, Tunnel!Handled
<1>5. CASE Tunnel!Renewed
  <2>1. certs' \in Tunnel!Cert
          /\ disk' \in [cert : Tunnel!Cert, key : Tunnel!Cert, chain : Tunnel!Cert]
    BY <1>5, FilesTyped DEF Tunnel!Renewed
  <2>2. serves' \in Tunnel!Cert /\ renewal' = Tunnel!Idle /\ due' = FALSE
    BY <1>5, <2>1 DEF Tunnel!Renewed
  <2>3. UNCHANGED <<up, server, handle, token, notunnel, tunnel, connected, submits>>
    BY <1>5 DEF Tunnel!Renewed
  <2>4. renewal' \in [at : {"idle", "reads", "issuing"}, on : 0 .. MaxServers]
    BY <2>2
  <2> HIDE DEF Tunnel!Cert, Tunnel!Submit, Tunnel!Place, Tunnel!Idle
  <2> QED BY <2>1, <2>2, <2>3, <2>4, Zenon
<1>6. CASE Tunnel!RenewalFails
  BY <1>6 DEF Tunnel!RenewalFails, Tunnel!Word, Tunnel!Handled
<1>7. CASE Tunnel!Age
  BY <1>7 DEF Tunnel!Age, Tunnel!Word, Tunnel!Handled
<1>8. CASE Tunnel!Crash
  BY <1>8 DEF Tunnel!Crash, Tunnel!Word, Tunnel!Handled
<1>9. CASE Tunnel!CrashWriting
  <2>1. certs' \in Tunnel!Cert
          /\ disk' \in [cert : Tunnel!Cert, key : Tunnel!Cert, chain : Tunnel!Cert]
    BY <1>9, FilesTyped DEF Tunnel!CrashWriting
  <2>2. due' = FALSE /\ Tunnel!Dies
    BY <1>9 DEF Tunnel!CrashWriting
  <2>3. serves' \in Tunnel!Cert /\ submits' \in [Tunnel!Submit -> Tunnel!Place]
          /\ handle' \in 0 .. MaxServers
    BY <2>2
  <2> HIDE DEF Tunnel!Cert, Tunnel!Submit, Tunnel!Place, Tunnel!GivenUp
  <2> QED BY <2>1, <2>2, <2>3
<1>10. CASE Tunnel!BootHttp
  BY <1>10 DEF Tunnel!BootHttp, Tunnel!Word, Tunnel!Handled
<1>11. CASE Tunnel!BootHttps
  BY <1>11 DEF Tunnel!BootHttps, Tunnel!Word, Tunnel!Handled
<1>12. CASE \E r \in Tunnel!Submit : Tunnel!Submits(r)
  BY <1>12 DEF Tunnel!Submits
<1>13. CASE \E r \in Tunnel!Submit : Tunnel!Subscribed(r)
  BY <1>13 DEF Tunnel!Subscribed
<1>14. CASE \E r \in Tunnel!Submit : Tunnel!EmailSet(r)
  BY <1>14 DEF Tunnel!EmailSet
<1>15. CASE \E r \in Tunnel!Submit : Tunnel!Refused(r)
  BY <1>15 DEF Tunnel!Refused
<1>16. CASE \E r \in Tunnel!Submit : Tunnel!Issued(r)
  BY <1>16, FilesTyped DEF Tunnel!Issued
<1>17. CASE \E r \in Tunnel!Submit : Tunnel!Switch(r)
  BY <1>17 DEF Tunnel!Switch
<1>18. CASE \E r \in Tunnel!Submit, ok \in BOOLEAN : Tunnel!PagekiteSays(r, ok)
  BY <1>18 DEF Tunnel!PagekiteSays, Tunnel!Word
<1>19. CASE \E ok \in BOOLEAN : Tunnel!TunnelSays(ok)
  BY <1>19 DEF Tunnel!TunnelSays, Tunnel!Word
<1>20. CASE UNCHANGED tunnelVars
  BY <1>20 DEF tunnelVars
<1> QED BY <1>1, <1>2, <1>3, <1>4, <1>5, <1>6, <1>7, <1>8, <1>9, <1>10, <1>11, <1>12, <1>13,
    <1>14, <1>15, <1>16, <1>17, <1>18, <1>19, <1>20
   DEF Tunnel!Next

\* The rest of the invariant is kept by every step.
LEMMA TunnelKept == TunnelInv /\ [Tunnel!Next]_tunnelVars
    => (HandleIsServer /\ OnDisk /\ DueIsAlone)'
<1> SUFFICES ASSUME TunnelInv,
    [Tunnel!Next]_tunnelVars PROVE (HandleIsServer /\ OnDisk /\ DueIsAlone)'
    OBVIOUS
<1> USE TunnelBounds
   DEF TunnelInv, Tunnel!TypeOK, Tunnel!Submit, Tunnel!Cert, Tunnel!Place, Tunnel!Idle,
       Tunnel!Sub, Tunnel!Files, Tunnel!Http, Tunnel!Tunnel, Tunnel!Opens, Tunnel!Up, Tunnel!Dies,
       Tunnel!GivenUp, Tunnel!WriteCertificates, Tunnel!Written, HandleIsServer, OnDisk,
       DueIsAlone, NoCertificateOrdered, SubmitsEnded, TunnelQuiet, Tunnel!HasCertificates
<1>1. CASE Tunnel!Skip
  BY <1>1 DEF Tunnel!Skip, Tunnel!Word, Tunnel!Handled
<1>2. CASE Tunnel!Listens
  BY <1>2 DEF Tunnel!Listens, Tunnel!Word, Tunnel!Handled
<1>3. CASE Tunnel!Renew
  BY <1>3 DEF Tunnel!Renew, Tunnel!Word, Tunnel!Handled
<1>4. CASE Tunnel!Renewing
  BY <1>4 DEF Tunnel!Renewing, Tunnel!Word, Tunnel!Handled
<1>5. CASE Tunnel!Renewed
  BY <1>5 DEF Tunnel!Renewed, Tunnel!Word, Tunnel!Handled
<1>6. CASE Tunnel!RenewalFails
  BY <1>6 DEF Tunnel!RenewalFails, Tunnel!Word, Tunnel!Handled
<1>7. CASE Tunnel!Age
  BY <1>7 DEF Tunnel!Age, Tunnel!Word, Tunnel!Handled
<1>8. CASE Tunnel!Crash
  BY <1>8 DEF Tunnel!Crash, Tunnel!Word, Tunnel!Handled
<1>9. CASE Tunnel!CrashWriting
  BY <1>9 DEF Tunnel!CrashWriting, Tunnel!Word, Tunnel!Handled
<1>10. CASE Tunnel!BootHttp
  BY <1>10 DEF Tunnel!BootHttp, Tunnel!Word, Tunnel!Handled
<1>11. CASE Tunnel!BootHttps
  BY <1>11 DEF Tunnel!BootHttps, Tunnel!Word, Tunnel!Handled
<1>12. CASE \E r \in Tunnel!Submit : Tunnel!Submits(r)
  BY SMTT(40), <1>12 DEF Tunnel!Submits
<1>13. CASE \E r \in Tunnel!Submit : Tunnel!Subscribed(r)
  BY <1>13 DEF Tunnel!Subscribed
<1>14. CASE \E r \in Tunnel!Submit : Tunnel!EmailSet(r)
  BY <1>14 DEF Tunnel!EmailSet
<1>15. CASE \E r \in Tunnel!Submit : Tunnel!Refused(r)
  BY <1>15 DEF Tunnel!Refused
<1>16. CASE \E r \in Tunnel!Submit : Tunnel!Issued(r)
  BY <1>16 DEF Tunnel!Issued
<1>17. CASE \E r \in Tunnel!Submit : Tunnel!Switch(r)
  BY <1>17 DEF Tunnel!Switch
<1>18. CASE \E r \in Tunnel!Submit, ok \in BOOLEAN : Tunnel!PagekiteSays(r, ok)
  BY SMTT(40), <1>18 DEF Tunnel!PagekiteSays, Tunnel!Word
<1>19. CASE \E ok \in BOOLEAN : Tunnel!TunnelSays(ok)
  BY <1>19 DEF Tunnel!TunnelSays, Tunnel!Word
<1>20. CASE UNCHANGED tunnelVars
  BY <1>20 DEF tunnelVars
<1> QED BY <1>1, <1>2, <1>3, <1>4, <1>5, <1>6, <1>7, <1>8, <1>9, <1>10, <1>11, <1>12, <1>13,
    <1>14, <1>15, <1>16, <1>17, <1>18, <1>19, <1>20
   DEF Tunnel!Next

\* The invariant holds at first.
LEMMA TunnelStarts == Tunnel!Init => TunnelInv
<1> SUFFICES ASSUME Tunnel!Init PROVE TunnelInv
    OBVIOUS
<1>1. /\ disk = Tunnel!NoFiles /\ token = FALSE /\ notunnel = FALSE /\ up = "http"
      /\ server = 0 /\ serves = 0 /\ handle = 0 /\ tunnel = "none" /\ connected = "pending"
      /\ \A r \in Tunnel!Submit : submits[r] = "none"
      /\ renewal = Tunnel!Idle /\ due = FALSE /\ certs = 0
      BY DEF Tunnel!Init
<1>2. Tunnel!NoFiles \in [cert : Tunnel!Cert, key : Tunnel!Cert, chain : Tunnel!Cert]
      BY TunnelBounds DEF Tunnel!NoFiles, Tunnel!Cert
<1>3. Tunnel!TypeOK
  <2>1. 0 \in 0 .. MaxServers /\ 0 \in Tunnel!Cert
        BY TunnelBounds DEF Tunnel!Cert
  <2>2. submits \in [Tunnel!Submit -> Tunnel!Place]
        BY DEF Tunnel!Init, Tunnel!Place
  <2>3. renewal \in [at : {"idle", "reads", "issuing"}, on : 0 .. MaxServers]
        BY <1>1, <2>1 DEF Tunnel!Idle
  <2> QED BY <1>1, <1>2, <2>1, <2>2, <2>3 DEF Tunnel!TypeOK
<1>4. ~Tunnel!HasCertificates /\ NoCertificateOrdered /\ SubmitsEnded
      BY <1>1 DEF Tunnel!HasCertificates, Tunnel!NoFiles, NoCertificateOrdered, SubmitsEnded
<1> QED BY <1>1, <1>3, <1>4
        DEF TunnelInv, HandleIsServer, OnDisk, DueIsAlone, TunnelQuiet, Tunnel!Idle

\* A step of the services is a step of this part, or leaves it alone.
LEMMA TunnelMoves == [ServicesNext]_services => [Tunnel!Next]_tunnelVars
BY DEF ServicesNext, services, tunnelVars

\* The HTTPS server that is up serves the certificates that are on disk, unless they were
\* ordered and it has not been told yet: however renewals, submissions, failures and the
\* deaths of the gateway fall (CertificateManager.register and renew, startHttpsGateway).
THEOREM TunnelSafe == ServicesSpec => []ServesWhatIsOnDisk
<1>1. ServicesInit => TunnelInv
      BY TunnelStarts DEF ServicesInit
<1>2. TunnelInv /\ [ServicesNext]_services => TunnelInv'
      BY TunnelMoves, TunnelTyped, TunnelKept DEF TunnelInv
<1>3. TunnelInv => ServesWhatIsOnDisk
      BY DEF TunnelInv, OnDisk, NoCertificateOrdered, ServesWhatIsOnDisk, Tunnel!ServesWhatIsOnDisk
<1> QED BY <1>1, <1>2, <1>3, PTL DEF ServicesSpec

-----------------------------------------------------------------------------
(* The accounts (AccountRecords).                                          *)
\* The bounds are numbers, and there is a user and a value to ask for.
LEMMA AccountsBounds == Accounts!RecordsAssumption
BY ServicesAssumption DEF ServicesAssumption

Asked == [kind : Accounts!Kind, at : Accounts!Place, user : User, for : Client \cup {Session},
          found : SUBSET Accounts!Token, doomed : SUBSET Accounts!Token, value : Value]
RequestsOK == req \in [Accounts!Request -> Asked]
IdsIssued == /\ \A t \in tokens : t.id <= issued
             /\ \A r \in Accounts!Request : \A t \in req[r].doomed : t.id <= issued
KindsInPlace ==
  \A r \in Accounts!Request :
    /\ req[r].at = "row" => req[r].kind \in {"login", "create"}
    /\ req[r].at \in {"count", "jwt", "make"} => req[r].kind = "create"
    /\ req[r].at = "issue" => req[r].kind \in {"login", "create", "allow", "exchange"}
    /\ req[r].at = "auth"
        => req[r].kind \in {"delete", "logout", "allow", "list", "revoke", "set"}
    /\ req[r].at = "auth" => req[r].found # {}
    /\ req[r].at = "update" => setting # Unset
DoomedLeave ==
  \A r \in Accounts!Request :
    /\ req[r].at \in {"none", "auth", "count", "row"} => req[r].doomed = {}
    /\ req[r].doomed # {} => req[r].kind \in {"delete", "revoke", "logout"}
    /\ req[r].kind = "delete" => \A t \in req[r].doomed : t.user = req[r].user
    /\ req[r].kind = "delete" /\ req[r].at = "next" => req[r].doomed \cap tokens = {}
    /\ req[r].kind = "revoke" => \A t \in req[r].doomed :
        t.user = req[r].user /\ t.for = req[r].for
    /\ req[r].kind = "revoke" /\ req[r].at = "next"
        => req[r].doomed \cap tokens \subseteq req[r].found
    /\ req[r].kind = "logout" /\ req[r].at = "tokens" => req[r].doomed \subseteq req[r].found

RowsOK == /\ users \subseteq User /\ tokens \subseteq Accounts!Token /\ issued \in 0 .. MaxTokens
          /\ setting \in Value \cup {Unset} /\ RequestsOK
AccountsInv == RowsOK /\ IdsIssued /\ KindsInPlace /\ DoomedLeave /\ Accounts!RevokedAreGone
    /\ Accounts!StoredWasAccepted

\* What stays of a request that goes to another place.
SameRequest(r) == /\ req'[r].kind = req[r].kind /\ req'[r].user = req[r].user
                  /\ req'[r].for = req[r].for
                  /\ req'[r].found = req[r].found /\ req'[r].doomed = req[r].doomed
                  /\ req'[r].value = req[r].value
OtherRequests(r) == \A q \in Accounts!Request \ {r} : req'[q] = req[q]

\* The invariant holds the types.
LEMMA RowsTyped == RowsOK => Accounts!TypeOK
BY DEF RowsOK, RequestsOK, Accounts!TypeOK, Asked

\* A request that goes to another place keeps the rest.
LEMMA RequestGoes ==
  ASSUME RequestsOK, NEW r \in Accounts!Request, NEW p \in Accounts!Place, Accounts!Goes(r, p)
  PROVE  RequestsOK' /\ req'[r].at = p /\ SameRequest(r) /\ OtherRequests(r)
BY DEF RequestsOK, Accounts!Goes, Asked, SameRequest, OtherRequests

\* Another record for a request.
LEMMA RequestReplaced ==
  ASSUME RequestsOK, NEW r \in Accounts!Request, NEW x \in Asked, req' = [req EXCEPT ![r] = x]
  PROVE  RequestsOK' /\ req'[r] = x /\ OtherRequests(r)
BY DEF RequestsOK, OtherRequests

\* A token that is made has the identifier it is made of.
LEMMA TokenMade ==
  ASSUME NEW i \in 1 .. MaxTokens, NEW u \in User, NEW f \in Client \cup {Session},
         NEW c \in BOOLEAN
  PROVE  LET t == [id |-> i, user |-> u, for |-> f, code |-> c] IN t \in Accounts!Token
             /\ t.id = i
BY DEF Accounts!Token

\* The invariant holds at first.
LEMMA AccountsStart == Accounts!Init => AccountsInv
<1> SUFFICES ASSUME Accounts!Init PROVE AccountsInv
    OBVIOUS
<1> USE AccountsBounds DEF Accounts!RecordsAssumption
<1>1. Accounts!Blank \in Asked
      BY DEF Accounts!Blank, Asked, Accounts!Kind, Accounts!Place
<1>2. RowsOK
      BY <1>1 DEF Accounts!Init, RowsOK, RequestsOK, Accounts!Token
<1>3. \A r \in Accounts!Request : req[r] = Accounts!Blank
      BY DEF Accounts!Init
<1>4. Accounts!Blank.at = "none" /\ Accounts!Blank.doomed = {} /\ Accounts!Blank.kind = "login"
      BY DEF Accounts!Blank
<1>5. IdsIssued
      BY <1>3, <1>4 DEF Accounts!Init, IdsIssued
<1> QED BY <1>2, <1>3, <1>4, <1>5
   DEF AccountsInv, KindsInPlace, DoomedLeave, Accounts!RevokedAreGone,
       Accounts!StoredWasAccepted, Accounts!Is

\* A request goes on to p: no token comes, those it is to remove are gone when it ends, and a
\* setting is what the request that changes it asks for.
MovesOn(r, p) ==
  /\ p \in Accounts!Place \ {"none", "auth", "count"} /\ req[r].at # "ok" /\ Accounts!Goes(r, p)
  /\ users' \subseteq User /\ tokens' \subseteq tokens /\ issued' = issued
  /\ setting' \in Value \cup {Unset} /\ (setting # Unset => setting' # Unset)
  /\ p = "issue" => req[r].kind \in {"login", "create", "allow", "exchange"}
  /\ p \in {"jwt", "row", "make"} => req[r].kind = "create"
  /\ p = "update" => setting' # Unset
  /\ p = "tokens" => req[r].kind = "delete"
  /\ p = "next" => req[r].kind = "delete" /\ req[r].doomed \cap tokens' = {}
  /\ p = "ok" => req[r].doomed \cap tokens' = {}
  /\ setting' = IF req[r].kind = "set" /\ p = "ok" THEN req[r].value ELSE setting

\* A request that goes on keeps the invariant.
LEMMA MoveKeeps ==
  ASSUME AccountsInv, NEW r \in Accounts!Request, NEW p, MovesOn(r, p)
  PROVE  AccountsInv'
<1>1. RequestsOK' /\ req'[r].at = p /\ SameRequest(r) /\ OtherRequests(r)
      BY RequestGoes DEF AccountsInv, RowsOK, MovesOn
<1>2. RowsOK'
      BY <1>1 DEF AccountsInv, RowsOK, MovesOn
<1>3. IdsIssued'
      <2>1. \A q \in Accounts!Request : req'[q].doomed = req[q].doomed
            BY <1>1 DEF SameRequest, OtherRequests
      <2> QED BY <2>1 DEF AccountsInv, IdsIssued, MovesOn
<1>4. KindsInPlace'
      BY <1>1 DEF AccountsInv, KindsInPlace, MovesOn, SameRequest, OtherRequests
<1>5. DoomedLeave'
      BY <1>1 DEF AccountsInv, DoomedLeave, MovesOn, SameRequest, OtherRequests
<1>6. Accounts!RevokedAreGone'
      BY <1>1 DEF AccountsInv, Accounts!RevokedAreGone, MovesOn, SameRequest, OtherRequests
<1>7. Accounts!StoredWasAccepted'
      BY <1>1
         DEF AccountsInv, Accounts!StoredWasAccepted, Accounts!Is, MovesOn, SameRequest,
             OtherRequests
<1> QED BY <1>2, <1>3, <1>4, <1>5, <1>6, <1>7 DEF AccountsInv

\* Every step of a request keeps the invariant.
LEMMA RequestKeeps ==
  ASSUME AccountsInv, NEW r \in Accounts!Request,
         \/ Accounts!Arrive(r) \/ Accounts!ArriveAuth(r) \/ Accounts!Authenticate(r)
             \/ Accounts!NoClient(r)
         \/ Accounts!Count(r) \/ Accounts!Bearer(r) \/ Accounts!Row(r) \/ Accounts!Make(r)
         \/ Accounts!Wrong(r) \/ Accounts!Issue(r)
         \/ Accounts!DeleteRow(r) \/ Accounts!DeleteTokensFirst(r) \/ Accounts!DeleteTokens(r)
             \/ Accounts!DeleteRowLast(r)
         \/ Accounts!LogOut(r) \/ Accounts!Verify(r) \/ Accounts!ReadTokens(r)
             \/ Accounts!DeleteNext(r) \/ Accounts!DeletedAll(r)
         \/ Accounts!SetReads(r) \/ Accounts!SetInserts(r) \/ Accounts!SetUpdates(r)
  PROVE  AccountsInv'
<1> USE AccountsBounds
   DEF Accounts!RecordsAssumption, AccountsInv, RowsOK, IdsIssued, KindsInPlace, SameRequest,
       OtherRequests
<1>r. req[r] \in Asked
      BY DEF RequestsOK
<1>1. CASE Accounts!NoClient(r) \/ Accounts!Wrong(r)
  <2>1. MovesOn(r, "refused")
    BY <1>1, <1>r DEF Accounts!NoClient, Accounts!Wrong, Accounts!Is, Accounts!Place, MovesOn
  <2> QED BY <2>1, MoveKeeps
<1>8. CASE Accounts!Count(r) \/ Accounts!Bearer(r) \/ Accounts!Row(r)
  <2>1. PICK p \in {"row", "jwt", "make", "issue", "refused"} :
          /\ Accounts!Goes(r, p) /\ req[r].at \in {"count", "jwt", "row"}
          /\ p \in {"jwt", "row", "make"} => req[r].kind = "create"
          /\ p = "issue" => req[r].kind = "login"
          /\ UNCHANGED <<users, tokens, issued, setting>>
    <3>1. CASE Accounts!Count(r) \/ Accounts!Bearer(r)
      BY <3>1 DEF Accounts!Count, Accounts!Bearer, Accounts!Is
    <3>2. CASE Accounts!Row(r)
      BY <3>2 DEF Accounts!Row
    <3> QED BY <1>8, <3>1, <3>2
  <2>2. req[r].kind = "set" => p # "ok"
    BY <2>1
  <2>3. MovesOn(r, p)
    BY <2>1, <2>2, <1>r DEF Accounts!Place, MovesOn
  <2> QED BY <2>3, MoveKeeps
<1>18. CASE Accounts!Make(r)
  <2>1. PICK p \in {"issue", "refused"} :
          /\ Accounts!Goes(r, p) /\ Accounts!Is(r, "create", "make")
          /\ users' = users \cup {req[r].user} /\ UNCHANGED <<tokens, issued, setting>>
    BY <1>18 DEF Accounts!Make
  <2>2. MovesOn(r, p)
    BY <2>1, <1>r DEF Accounts!Is, Accounts!Place, Asked, MovesOn
  <2> QED BY <2>2, MoveKeeps
<1>9. CASE Accounts!DeleteRow(r)
  <2>1. MovesOn(r, "tokens")
    BY <1>9, <1>r DEF Accounts!DeleteRow, Accounts!Is, Accounts!Place, MovesOn
  <2> QED BY <2>1, MoveKeeps
<1>10. CASE Accounts!DeleteTokensFirst(r)
  <2>1. req[r].doomed \cap tokens' = {} /\ tokens' \subseteq tokens
    BY <1>10 DEF Accounts!DeleteTokensFirst, Accounts!Is, Accounts!TokensOf, DoomedLeave
  <2>2. MovesOn(r, "next")
    BY <1>10, <1>r, <2>1 DEF Accounts!DeleteTokensFirst, Accounts!Is, Accounts!Place, MovesOn
  <2> QED BY <2>2, MoveKeeps
<1>11. CASE Accounts!DeleteTokens(r)
  <2>1. req[r].doomed \cap tokens' = {} /\ tokens' \subseteq tokens
    BY <1>11 DEF Accounts!DeleteTokens, Accounts!Is, Accounts!TokensOf, DoomedLeave
  <2>2. MovesOn(r, "ok")
    BY <1>11, <1>r, <2>1 DEF Accounts!DeleteTokens, Accounts!Is, Accounts!Place, MovesOn
  <2> QED BY <2>2, MoveKeeps
<1>12. CASE Accounts!DeleteRowLast(r)
  <2>1. req[r].doomed \cap tokens' = {}
    BY <1>12 DEF Accounts!DeleteRowLast, Accounts!Is, DoomedLeave
  <2>2. MovesOn(r, "ok")
    BY <1>12, <1>r, <2>1 DEF Accounts!DeleteRowLast, Accounts!Is, Accounts!Place, MovesOn
  <2> QED BY <2>2, MoveKeeps
<1>13. CASE Accounts!LogOut(r)
  <2>1. req[r].doomed \cap tokens' = {} /\ tokens' \subseteq tokens
    BY <1>13 DEF Accounts!LogOut, Accounts!Is, DoomedLeave
  <2>2. MovesOn(r, "ok")
    BY <1>13, <1>r, <2>1 DEF Accounts!LogOut, Accounts!Is, Accounts!Place, MovesOn
  <2> QED BY <2>2, MoveKeeps
<1>14. CASE Accounts!Verify(r)
  <2>1. PICK p \in {"issue", "refused"} : Accounts!Goes(r, p)
    BY <1>14 DEF Accounts!Verify
  <2>2. MovesOn(r, p)
    BY <1>14, <1>r, <2>1 DEF Accounts!Verify, Accounts!Is, Accounts!Place, MovesOn
  <2> QED BY <2>2, MoveKeeps DEF Accounts!Place
<1>15. CASE Accounts!DeletedAll(r)
  <2>1. req[r].doomed \cap tokens' = {}
    BY <1>15 DEF Accounts!DeletedAll, Accounts!Is, DoomedLeave
  <2>2. MovesOn(r, "ok")
    BY <1>15, <1>r, <2>1 DEF Accounts!DeletedAll, Accounts!Is, Accounts!Place, MovesOn
  <2> QED BY <2>2, MoveKeeps
<1>16. CASE Accounts!SetReads(r)
  <2>1. MovesOn(r, Accounts!Statement)
    BY <1>16, <1>r
       DEF Accounts!SetReads, Accounts!Statement, Accounts!Is, Accounts!Place, MovesOn
  <2> QED BY <2>1, MoveKeeps
<1>17. CASE Accounts!SetInserts(r) \/ Accounts!SetUpdates(r)
  <2>1. req[r].doomed = {} /\ req[r].kind = "set"
    BY <1>17 DEF Accounts!SetInserts, Accounts!SetUpdates, Accounts!Is, DoomedLeave
  <2>2. req[r].value \in Value /\ Unset \notin Value
    BY <1>r DEF Asked
  <2>3. MovesOn(r, "ok") \/ MovesOn(r, "refused")
    BY <1>17, <2>1, <2>2
       DEF Accounts!SetInserts, Accounts!SetUpdates, Accounts!Is, Accounts!Place, MovesOn
  <2> QED BY <2>3, MoveKeeps
<1>2. CASE Accounts!Issue(r)
  <2>1. RequestsOK' /\ SameRequest(r) /\ OtherRequests(r) /\ req'[r].at \in Accounts!Place
    BY <1>2, RequestGoes DEF Accounts!Issue, Accounts!Place, Accounts!Statement, Accounts!Is
  <2>7. PICK new \in Accounts!Token : new.id = issued + 1 /\ tokens' = tokens \cup {new}
    <3>1. issued + 1 \in 1 .. MaxTokens
      BY <1>2 DEF Accounts!Issue
    <3>2. (req[r].kind = "allow") \in BOOLEAN
            /\ (IF req[r].kind \in {"login", "create"} THEN Session ELSE req[r].for) \in Client
                \cup {Session} /\ req[r].user \in User
      BY <1>r DEF Asked
    <3> DEFINE t == [id |-> issued + 1, user |-> req[r].user,
                 for |-> IF req[r].kind \in {"login", "create"} THEN Session ELSE req[r].for,
                 code |-> req[r].kind = "allow"]
    <3>3. t \in Accounts!Token /\ t.id = issued + 1
      BY <3>1, <3>2, TokenMade, Zenon
    <3>4. tokens' = tokens \cup {t}
      BY <1>2, Zenon DEF Accounts!Issue
    <3> HIDE DEF t
    <3> QED BY <3>3, <3>4
  <2>2. users' \subseteq User /\ tokens' \subseteq Accounts!Token /\ issued' \in 0 .. MaxTokens
          /\ setting' \in Value \cup {Unset}
    BY <1>2, <2>7 DEF Accounts!Issue
  <2>3. IdsIssued' /\ KindsInPlace'
    <3>1. issued' = issued + 1 /\ req'[r].at = "ok" /\ setting' = setting
      BY <1>2, RequestGoes DEF Accounts!Issue, Accounts!Place
    <3>2. \A t \in tokens : t.id \in Nat
      BY DEF Accounts!Token
    <3>3. \A q \in Accounts!Request : \A t \in req[q].doomed : t.id \in Nat
      BY DEF Accounts!Token, RequestsOK, Asked
    <3> QED BY <2>1, <2>7, <3>1, <3>2, <3>3
  <2>4. DoomedLeave' /\ Accounts!RevokedAreGone'
    <3>1. \A q \in Accounts!Request : req'[q].doomed = req[q].doomed
      BY <2>1
    <3>2. \A q \in Accounts!Request : new \notin req[q].doomed
      <4>1. \A q \in Accounts!Request : \A t \in req[q].doomed : t.id <= issued
        OBVIOUS
      <4>2. ~(new.id <= issued)
        BY <2>7
      <4> QED BY Zenon, <4>1, <4>2
    <3>3. req[r].doomed = {}
      BY <1>2 DEF Accounts!Issue, DoomedLeave
    <3>4. \A q \in Accounts!Request :
             req[q].doomed \cap tokens' = req[q].doomed \cap tokens
      BY <2>7, <3>2
    <3>5. req'[r].at = "ok"
      BY <1>2, RequestGoes DEF Accounts!Issue, Accounts!Place
    <3>6. DoomedLeave'
      BY <2>1, <3>1, <3>3, <3>4, <3>5 DEF DoomedLeave
    <3>7. Accounts!RevokedAreGone'
      BY <2>1, <3>1, <3>3, <3>4, <3>5 DEF Accounts!RevokedAreGone
    <3> QED BY <3>6, <3>7
  <2>5. Accounts!StoredWasAccepted'
    BY <1>2, <2>1, <1>r, RequestGoes
       DEF Accounts!Issue, Accounts!Is, Accounts!Place, Accounts!StoredWasAccepted,
           Accounts!Statement, Asked
  <2> QED BY <2>1, <2>2, <2>3, <2>4, <2>5
<1>3. CASE Accounts!Arrive(r)
  <2>1. PICK x \in Asked :
               req' = [req EXCEPT ![r] = x] /\ x.doomed = req[r].doomed
                   /\ ((x.at = "row" /\ x.kind = "login") \/ (x.at = "count" /\ x.kind = "create")
                       \/ (x.at = "read" /\ x.kind = "exchange"))
    <3>1. CASE \E u \in User, k \in {"login", "create"} :
                 req' = [req EXCEPT ![r].kind = k, ![r].user = u,
                                    ![r].at = Accounts!Enters[k]]
      <4>1. PICK u \in User, k \in {"login", "create"} :
                 req' = [req EXCEPT ![r].kind = k, ![r].user = u,
                                    ![r].at = Accounts!Enters[k]]
        BY <3>1
      <4> DEFINE p == Accounts!Enters[k]
                 x == [req[r] EXCEPT !.kind = k, !.user = u, !.at = p]
      <4>5. (p = "row" /\ k = "login") \/ (p = "count" /\ k = "create")
        BY DEF Accounts!Enters
      <4> HIDE DEF p
      <4>2. x \in Asked /\ x.doomed = req[r].doomed /\ x.at = p /\ x.kind = k
        BY <1>r, <4>5 DEF Asked, Accounts!Place, Accounts!Kind
      <4>3. req' = [req EXCEPT ![r] = x]
        BY <4>1, <1>r DEF RequestsOK, p
      <4> QED BY <4>2, <4>3, <4>5
    <3>2. CASE \E t \in tokens : t.code /\
                 req' = [req EXCEPT ![r].kind = "exchange", ![r].user = t.user, ![r].for = t.for,
                               ![r].found = {t}, ![r].at = "read"]
      <4>1. PICK t \in tokens :
                 req' = [req EXCEPT ![r].kind = "exchange", ![r].user = t.user, ![r].for = t.for,
                               ![r].found = {t}, ![r].at = "read"]
        BY <3>2
      <4> DEFINE x == [req[r] EXCEPT !.kind = "exchange", !.user = t.user, !.for = t.for,
                                     !.found = {t}, !.at = "read"]
      <4>2. t.user \in User /\ t.for \in Client \cup {Session} /\ t \in Accounts!Token
        BY DEF Accounts!Token
      <4>3. x \in Asked /\ x.doomed = req[r].doomed /\ x.at = "read" /\ x.kind = "exchange"
        BY <1>r, <4>2 DEF Asked, Accounts!Place, Accounts!Kind
      <4>4. req' = [req EXCEPT ![r] = x]
        BY <4>1, <1>r DEF RequestsOK
      <4> QED BY <4>3, <4>4
    <3> QED BY <1>3, <3>1, <3>2 DEF Accounts!Arrive
  <2>2. RequestsOK' /\ req'[r] = x /\ OtherRequests(r)
    BY <2>1, RequestReplaced
  <2>3. users' = users /\ tokens' = tokens /\ issued' = issued /\ setting' = setting
          /\ req[r].at = "none"
    BY <1>3 DEF Accounts!Arrive, Accounts!Comes
  <2> QED BY <2>1, <2>2, <2>3, <1>r
     DEF DoomedLeave, Accounts!RevokedAreGone, Accounts!StoredWasAccepted, Accounts!Is, Asked
<1>4. CASE Accounts!ArriveAuth(r)
  <2>1. PICK x \in Asked :
               req' = [req EXCEPT ![r] = x] /\ x.doomed = {} /\ x.at = "auth" /\ x.found # {}
                   /\ x.kind \in {"delete", "logout", "allow", "list", "revoke", "set"}
    <3> DEFINE Asks == [kind : {"delete", "logout", "list"}, for : {Session},
                        value : {Accounts!Blank.value}]
                         \cup [kind : {"allow", "revoke"}, for : Client,
                             value : {Accounts!Blank.value}]
                         \cup [kind : {"set"}, for : {Session}, value : Value]
    <3>1. PICK t \in tokens, wish \in Asks :
            req' = [req EXCEPT ![r] = [kind |-> wish.kind, at |-> "auth", user |-> t.user,
                        for |-> wish.for, found |-> {t}, doomed |-> {}, value |-> wish.value]]
      BY <1>4, Zenon DEF Accounts!ArriveAuth
    <3>2. Accounts!Blank.value \in Value
      BY DEF Accounts!Blank
    <3>3. wish.kind \in {"delete", "logout", "allow", "list", "revoke", "set"}
            /\ wish.for \in Client \cup {Session} /\ wish.value \in Value
      BY <3>2
    <3>4. t.user \in User /\ t \in Accounts!Token
      BY DEF Accounts!Token
    <3> DEFINE x == [kind |-> wish.kind, at |-> "auth", user |-> t.user,
                        for |-> wish.for, found |-> {t}, doomed |-> {}, value |-> wish.value]
    <3>5. x \in Asked /\ x.doomed = {} /\ x.at = "auth" /\ x.found # {} /\ x.kind = wish.kind
      BY <3>3, <3>4 DEF Asked, Accounts!Place, Accounts!Kind
    <3> QED BY <3>1, <3>3, <3>5
  <2>2. RequestsOK' /\ req'[r] = x /\ OtherRequests(r)
    BY <2>1, RequestReplaced
  <2>3. users' = users /\ tokens' = tokens /\ issued' = issued /\ setting' = setting
          /\ req[r].at = "none"
    BY <1>4 DEF Accounts!ArriveAuth, Accounts!Comes
  <2> QED BY <2>1, <2>2, <2>3, <1>r
     DEF DoomedLeave, Accounts!RevokedAreGone, Accounts!StoredWasAccepted, Accounts!Is, Asked
<1>5. CASE Accounts!Authenticate(r)
  <2>0. users' = users /\ tokens' = tokens /\ issued' = issued /\ setting' = setting
          /\ req[r].at = "auth"
    BY <1>5 DEF Accounts!Authenticate
  <2>1. CASE req[r].found \subseteq tokens
    <3> DEFINE d == Accounts!Doomed(req[r].kind, req[r].user, req[r].for,
        CHOOSE t \in req[r].found : TRUE)
               x == [req[r] EXCEPT !.at = Accounts!Starts[req[r].kind], !.doomed = d]
    <3>1. req' = [req EXCEPT ![r].at = Accounts!Starts[req[r].kind], ![r].doomed = d]
      BY <1>5, <2>1, Zenon DEF Accounts!Authenticate
    <3>2. (CHOOSE t \in req[r].found : TRUE) \in req[r].found
      BY <2>0
    <3>3. d \subseteq tokens /\ (d # {} => req[r].kind \in {"delete", "revoke", "logout"})
      BY <2>0, <2>1, <3>2 DEF Accounts!Doomed, Accounts!TokensOf, Accounts!Grants
    <3>4. Accounts!Starts[req[r].kind] \in {"rows", "tokens", "issue", "read"}
            /\ (Accounts!Starts[req[r].kind] = "issue" => req[r].kind = "allow")
      BY <2>0 DEF Accounts!Starts
    <3>5. /\ req[r].kind = "delete" => \A t \in d : t.user = req[r].user
          /\ req[r].kind = "revoke" => \A t \in d : t.user = req[r].user /\ t.for = req[r].for
          /\ req[r].kind = "logout" => d \subseteq req[r].found
      BY <3>2 DEF Accounts!Doomed, Accounts!TokensOf, Accounts!Grants
    <3> HIDE DEF d
    <3>6. x \in Asked
      BY <1>r, <3>3, <3>4 DEF Asked, Accounts!Place
    <3>7. req' = [req EXCEPT ![r] = x]
      BY <3>1, <1>r DEF RequestsOK
    <3>8. RequestsOK' /\ req'[r] = x /\ OtherRequests(r)
      BY <3>6, <3>7, RequestReplaced
    <3>9. x.at \in {"rows", "tokens", "issue", "read"} /\ x.kind = req[r].kind
            /\ x.user = req[r].user
          /\ x.for = req[r].for /\ x.found = req[r].found /\ x.doomed = d
          /\ x.at = Accounts!Starts[req[r].kind]
      BY <1>r, <3>4 DEF Asked
    <3> HIDE DEF x
    <3> QED BY <2>0, <3>3, <3>4, <3>5, <3>8, <3>9
       DEF DoomedLeave, Accounts!RevokedAreGone, Accounts!StoredWasAccepted, Accounts!Is
  <2>2. CASE ~(req[r].found \subseteq tokens)
    <3>1. Accounts!Goes(r, "refused")
      BY <1>5, <2>2 DEF Accounts!Authenticate
    <3>2. RequestsOK' /\ req'[r].at = "refused" /\ SameRequest(r) /\ OtherRequests(r)
      BY <3>1, RequestGoes DEF Accounts!Place
    <3> QED BY <2>0, <3>2
       DEF DoomedLeave, Accounts!RevokedAreGone, Accounts!StoredWasAccepted, Accounts!Is
  <2> QED BY <2>1, <2>2
<1>6. CASE Accounts!ReadTokens(r)
  <2> DEFINE x == [req[r] EXCEPT !.at = "next", !.found = Accounts!ToGo(r)]
  <2>1. users' = users /\ tokens' = tokens /\ issued' = issued /\ setting' = setting
          /\ req[r].at = "read" /\ req[r].kind \in {"list", "revoke"}
    BY <1>6 DEF Accounts!ReadTokens, Accounts!Is
  <2>2. Accounts!ToGo(r) \subseteq tokens
    BY DEF Accounts!ToGo, Accounts!Grants, Accounts!TokensOf
  <2>3. x \in Asked
    BY <1>r, <2>2 DEF Asked, Accounts!Place
  <2>4. req' = [req EXCEPT ![r] = x]
    BY <1>6, <1>r DEF Accounts!ReadTokens, RequestsOK
  <2>5. RequestsOK' /\ req'[r] = x /\ OtherRequests(r)
    BY <2>3, <2>4, RequestReplaced
  <2>6. x.at = "next" /\ x.kind = req[r].kind /\ x.user = req[r].user
          /\ x.for = req[r].for /\ x.found = Accounts!ToGo(r) /\ x.doomed = req[r].doomed
    BY <1>r DEF Asked
  <2>7. req[r].kind = "revoke" => req[r].doomed \cap tokens \subseteq Accounts!ToGo(r)
    BY DEF DoomedLeave, Accounts!ToGo, Accounts!Grants, Accounts!TokensOf
  <2> HIDE DEF x
  <2> QED BY <2>1, <2>5, <2>6, <2>7
     DEF DoomedLeave, Accounts!RevokedAreGone, Accounts!StoredWasAccepted, Accounts!Is
<1>7. CASE Accounts!DeleteNext(r)
  <2>1. PICK t \in req[r].found :
               tokens' = tokens \ {t} /\ req' = [req EXCEPT ![r].found = @ \ {t}]
    BY <1>7 DEF Accounts!DeleteNext
  <2> DEFINE x == [req[r] EXCEPT !.found = @ \ {t}]
  <2>2. users' = users /\ issued' = issued /\ setting' = setting /\ req[r].at = "next"
          /\ req[r].kind \in {"list", "revoke"}
    BY <1>7 DEF Accounts!DeleteNext, Accounts!Is
  <2>3. x \in Asked
    BY <1>r DEF Asked
  <2>4. req' = [req EXCEPT ![r] = x]
    BY <2>1, <1>r DEF RequestsOK
  <2>5. RequestsOK' /\ req'[r] = x /\ OtherRequests(r)
    BY <2>3, <2>4, RequestReplaced
  <2>6. x.at = "next" /\ x.kind = req[r].kind /\ x.user = req[r].user
          /\ x.for = req[r].for /\ x.found = req[r].found \ {t} /\ x.doomed = req[r].doomed
    BY <1>r, <2>2 DEF Asked
  <2> HIDE DEF x
  <2> QED BY <2>1, <2>2, <2>5, <2>6
     DEF DoomedLeave, Accounts!RevokedAreGone, Accounts!StoredWasAccepted, Accounts!Is
<1> QED BY <1>1, <1>2, <1>3, <1>4, <1>5, <1>6, <1>7, <1>8, <1>9, <1>10, <1>11, <1>12, <1>13, <1>14,
           <1>15, <1>16, <1>17, <1>18

\* Every step keeps the invariant.
LEMMA AccountsStep == AccountsInv /\ [Accounts!Next]_accountVars => AccountsInv'
<1>1. ASSUME AccountsInv, Accounts!Next PROVE AccountsInv'
      BY <1>1, RequestKeeps DEF Accounts!Next
<1>2. ASSUME AccountsInv, UNCHANGED accountVars PROVE AccountsInv'
      BY <1>2
         DEF accountVars, AccountsInv, RowsOK, RequestsOK, IdsIssued, KindsInPlace, DoomedLeave,
             Accounts!RevokedAreGone,
                  Accounts!StoredWasAccepted, Accounts!Is
<1> QED BY <1>1, <1>2

\* A step of the services is a step of this part, or leaves it alone.
LEMMA AccountsMove == [ServicesNext]_services => [Accounts!Next]_accountVars
BY DEF ServicesNext, services, accountVars

\* When a user is deleted, a client is revoked or a session is left, the tokens there were when
\* the request was served are gone, and a setting has only a value that was accepted: however
\* the statements of other requests fall between those of this one (Users.deleteUser,
\* JSONWebToken.revokeToken, Database.setSetting).
THEOREM AccountsSafe == ServicesSpec => []RecordsHold
<1>1. ServicesInit => AccountsInv
      BY AccountsStart DEF ServicesInit
<1>2. AccountsInv /\ [ServicesNext]_services => AccountsInv'
      BY AccountsMove, AccountsStep
<1>3. AccountsInv => RecordsHold
      BY DEF AccountsInv, RecordsHold, Accounts!RecordsHold
<1> QED BY <1>1, <1>2, <1>3, PTL DEF ServicesSpec

-----------------------------------------------------------------------------
(* The arrangement of things and groups (ThingLayout, GroupOrder).         *)
LayoutStages == {"new", "inserting", "deleting", "moving", "placing", "leaving",
                 "left", "joining", "joined", "ungrouping", "done"}
\* What is not told yet will be: a request that moves a thing is on its way.
LayoutTelling == /\ stage \in [Layout!Request -> LayoutStages]
                 /\ tellings \in BOOLEAN
                 /\ tellings \/ \E r \in Layout!Request :
                     stage[r] \in {"moving", "placing", "leaving", "left", "joining", "joined"}

\* The invariant holds at first.
LEMMA LayoutStarts == Layout!Init => LayoutTelling
BY DEF Layout!Init, LayoutTelling, LayoutStages

\* A move takes back what was told.
LEMMA LayoutShift == ASSUME NEW r, NEW t, NEW i, Layout!Shift(r, t, i) PROVE tellings' = FALSE
BY DEF Layout!Shift

\* The next thing leaves its group, or all have left and it is told.
LEMMA NextOfGroupTells ==
  ASSUME LayoutTelling, NEW r \in Layout!Request, NEW g, stage[r] \in {"deleting", "joined"},
         Layout!NextOfGroup(r, g)
  PROVE  LayoutTelling'
<1> DEFINE rest == Layout!SelectSeq(things, LAMBDA t : group[t] = g /\ t \notin passed[r])
<1>1. \/ Layout!Done(r) /\ tellings' = (tellings \/ stage[r] = "joined")
      \/ tellings' = FALSE /\ stage' = [stage EXCEPT ![r] = "leaving"]
  <2> HIDE DEF rest
  <2>1. IF rest = << >> THEN Layout!Done(r) /\ tellings' = (tellings \/ stage[r] = "joined")
        ELSE Layout!Shift(r, Head(rest), Layout!Cardinality(Item))
            /\ stage' = [stage EXCEPT ![r] = "leaving"]
        BY DEF Layout!NextOfGroup, rest
  <2> QED BY <2>1, LayoutShift
<1> QED BY <1>1 DEF Layout!Done, LayoutTelling, LayoutStages

\* Every step keeps the invariant.
LEMMA LayoutStep == LayoutTelling /\ [Layout!Next]_layoutVars => LayoutTelling'
<1> SUFFICES ASSUME LayoutTelling, [Layout!Next]_layoutVars PROVE LayoutTelling'
    OBVIOUS
<1>1. ASSUME NEW r \in Layout!Request, Layout!Place(r) PROVE LayoutTelling'
      BY <1>1 DEF Layout!Place, LayoutTelling, LayoutStages
<1>2. ASSUME NEW r \in Layout!Request, Layout!Moved(r) PROVE LayoutTelling'
      BY <1>2 DEF Layout!Moved, Layout!Done, LayoutTelling, LayoutStages
<1>3. ASSUME NEW r \in Layout!Request, Layout!Join(r) PROVE LayoutTelling'
      BY <1>3 DEF Layout!Join, LayoutTelling, LayoutStages
<1>4. ASSUME NEW r \in Layout!Request, Layout!Rank(r) PROVE LayoutTelling'
      BY <1>4 DEF Layout!Rank, LayoutTelling, LayoutStages
<1>5. ASSUME NEW r \in Layout!Request, Layout!Joined(r) PROVE LayoutTelling'
  <2>0. stage[r] = "joined"
        BY <1>5 DEF Layout!Joined
  <2>1. CASE Layout!Done(r) /\ tellings' = TRUE
        BY <2>1 DEF Layout!Done, LayoutTelling, LayoutStages
  <2>2. CASE Layout!Shift(r, thing[r], ask[r].index) /\ stage' = [stage EXCEPT ![r] = "moving"]
        BY <2>2, LayoutShift DEF LayoutTelling, LayoutStages
  <2>3. CASE Layout!NextOfGroup(r, ask[r].group)
        BY <2>0, <2>3, NextOfGroupTells
  <2> QED BY <1>5, <2>1, <2>2, <2>3 DEF Layout!Joined
<1>6. ASSUME NEW r \in Layout!Request, NEW a \in Layout!Ask,
      Layout!Post(r, a) \/ Layout!Delete(r, a)
      PROVE  LayoutTelling'
      BY <1>6 DEF Layout!Post, Layout!Delete, Layout!Begin, LayoutTelling, LayoutStages
<1>7. ASSUME NEW r \in Layout!Request, NEW a \in Layout!Ask, Layout!Patch(r, a)
      PROVE  LayoutTelling'
  <2>1. stage' = [stage EXCEPT ![r] = "moving"] \/ stage' = [stage EXCEPT ![r] = "leaving"]
        BY <1>7 DEF Layout!Patch
  <2>2. tellings' = FALSE
        BY <1>7, LayoutShift DEF Layout!Patch
  <2> QED BY <2>1, <2>2 DEF LayoutTelling, LayoutStages
<1>8. ASSUME NEW r \in Layout!Request, Layout!Created(r) PROVE LayoutTelling'
      BY <1>8 DEF Layout!Created, LayoutTelling, LayoutStages
<1>9. ASSUME NEW r \in Layout!Request, Layout!Deleted(r) PROVE LayoutTelling'
      BY <1>9 DEF Layout!Deleted, Layout!Done, LayoutTelling, LayoutStages
<1>10. ASSUME NEW r \in Layout!Request, Layout!DeletedGroup(r) PROVE LayoutTelling'
  <2>1. stage[r] = "deleting"
          /\ (Layout!NextOfGroup(r, ask[r].group) \/ (Layout!Done(r) /\ tellings' = tellings))
        BY <1>10 DEF Layout!DeletedGroup
  <2> QED BY <2>1, NextOfGroupTells DEF Layout!Done, LayoutTelling, LayoutStages
<1>11. ASSUME NEW w \in writes, Layout!Written(w) PROVE LayoutTelling'
      BY <1>11 DEF Layout!Written, Layout!requestVars, LayoutTelling
<1>12. CASE UNCHANGED layoutVars
      BY <1>12 DEF layoutVars, Layout!requestVars, LayoutTelling
<1> QED BY <1>1, <1>2, <1>3, <1>4, <1>5, <1>6, <1>7, <1>8, <1>9, <1>10, <1>11, <1>12
        DEF Layout!Next, Layout!ThingStep, Layout!DatabaseStep

\* When nothing is on its way, all is told.
LEMMA LayoutTold == LayoutTelling => Layout!AllTold
BY DEF LayoutTelling, Layout!AllTold, Layout!Idle

GroupsStages == {"new", "reading", "listing", "inserting", "moving", "placing", "renaming",
    "deleting", "done"}
\* What is not told yet will be: a request that moves a group is on its way.
GroupsTelling == /\ step \in [Groups!Request -> GroupsStages]
                 /\ orderTold \in BOOLEAN
                 /\ orderTold \/ \E r \in Groups!Request : step[r] \in {"moving", "placing"}

\* The invariant holds at first.
LEMMA GroupsStarts == Groups!Init => GroupsTelling
BY DEF Groups!Init, GroupsTelling, GroupsStages

\* A move takes back what was told.
LEMMA GroupsShift ==
  ASSUME NEW r \in Groups!Request, NEW g, NEW i, NEW all, GroupsTelling,
         Groups!Shift(r, g, i, all)
  PROVE  GroupsTelling'
BY DEF Groups!Shift, GroupsTelling, GroupsStages

\* Every step keeps the invariant.
LEMMA GroupsStep == GroupsTelling /\ [Groups!Next]_groupVars => GroupsTelling'
<1> SUFFICES ASSUME GroupsTelling, [Groups!Next]_groupVars PROVE GroupsTelling'
    OBVIOUS
<1>1. ASSUME NEW r \in Groups!Request, NEW g \in Bundle,
      Groups!Post(r, g) \/ Groups!Put(r, g) \/ Groups!Delete(r, g)
      PROVE  GroupsTelling'
      BY <1>1
         DEF Groups!Post, Groups!Put, Groups!Delete, Groups!Begin, Groups!Unmoved, GroupsTelling,
             GroupsStages
<1>2. ASSUME NEW r \in Groups!Request, NEW g \in Bundle,
      NEW i \in 0 .. Groups!Cardinality(Bundle), Groups!Patch(r, g, i)
      PROVE  GroupsTelling'
      BY <1>2, GroupsShift DEF Groups!Patch
<1>3. ASSUME NEW r \in Groups!Request, Groups!List(r) PROVE GroupsTelling'
      BY <1>3 DEF Groups!List, Groups!Begin, Groups!Unmoved, GroupsTelling, GroupsStages
<1>4. ASSUME NEW r \in Groups!Request, Groups!Created(r) PROVE GroupsTelling'
      BY <1>4, GroupsShift DEF Groups!Created
<1>5. ASSUME NEW r \in Groups!Request, Groups!Place(r) PROVE GroupsTelling'
      BY <1>5 DEF Groups!Place, GroupsTelling, GroupsStages
<1>6. ASSUME NEW r \in Groups!Request, Groups!Deleted(r) PROVE GroupsTelling'
      BY <1>6 DEF Groups!Deleted, GroupsTelling, GroupsStages
<1>7. ASSUME NEW r \in Groups!Request, Groups!Ends(r) PROVE GroupsTelling'
      BY <1>7 DEF Groups!Ends, GroupsTelling, GroupsStages
<1>8. ASSUME NEW w \in groupWrites, Groups!Stored(w) PROVE GroupsTelling'
      BY <1>8 DEF Groups!Stored, GroupsTelling
<1>9. CASE Groups!GetGroups
      BY <1>9 DEF Groups!GetGroups, GroupsTelling, GroupsStages
<1>10. CASE UNCHANGED groupVars
      BY <1>10 DEF groupVars, GroupsTelling
<1> QED BY <1>1, <1>2, <1>3, <1>4, <1>5, <1>6, <1>7, <1>8, <1>9, <1>10 DEF Groups!Next

\* When nothing is on its way, all is told.
LEMMA GroupsTold == GroupsTelling => Groups!OrderTold
BY DEF GroupsTelling, Groups!OrderTold, Groups!Idle

\* A step of the services is a step of these parts, or leaves them alone.
LEMMA ArrangementMoves ==
  [ServicesNext]_services => [Layout!Next]_layoutVars /\ [Groups!Next]_groupVars
BY DEF ServicesNext, services, layoutVars, groupVars

\* Once nothing is on its way, the last change of the arrangement has been told to those that
\* listen, of things and of groups (Things.setThingLayoutIndex, Groups.setGroupLayoutIndex:
\* LAYOUT_MODIFIED is emitted after the last save of a move).
THEOREM ArrangementTold == ServicesSpec => []AllTold
<1>1. ServicesInit => LayoutTelling /\ GroupsTelling
      BY LayoutStarts, GroupsStarts DEF ServicesInit
<1>2. LayoutTelling /\ GroupsTelling => AllTold
      BY LayoutTold, GroupsTold DEF AllTold
<1> QED BY <1>1, <1>2, ArrangementMoves, LayoutStep, GroupsStep, PTL DEF ServicesSpec

-----------------------------------------------------------------------------
(* The name of the host (HostNetwork).                                     *)
SomeName == [file : Name, live : Name, hosts : Name, manager : Name]
Named == name \in SomeName /\ lapsed \in BOOLEAN /\ Network!NamesAgree
\* The invariant holds at first.
LEMMA NamedStarts == Network!Init => Named
<1> SUFFICES ASSUME Network!Init PROVE Named
    OBVIOUS
<1>1. lapsed \in BOOLEAN
      BY Zenon DEF Network!Init
<1>2. PICK n \in Name : name = [file |-> n, live |-> n, hosts |-> n, manager |-> n]
      BY DEF Network!Init
<1> QED BY <1>1, <1>2 DEF Named, SomeName, Network!NamesAgree
\* setHostname, cut after n of its calls and with some of its put-backs failing, leaves the
\* file, the kernel and the hosts file with one name, or has lapsed.
LEMMA NameAfterAgrees ==
  ASSUME Named, NEW n \in 0 .. 4, NEW works \in SUBSET {"file", "live", "manager"},
         NEW new \in Name, NEW m, m = Network!NameAfter(n, works, name, new)
  PROVE  /\ m \in SomeName
         /\ n = 4 \/ (~lapsed /\ ~Network!Lapses(n, works))
              => m.live = m.file /\ m.hosts = m.file
<1>1. /\ m.file = (IF n = 0 \/ (n < 3 /\ "file" \in works) THEN name.file ELSE new)
      /\ m.live = (IF n < 2 THEN name.live
                   ELSE IF n = 2 /\ "live" \in works THEN name.file ELSE new)
      /\ m.hosts = (IF n < 4 THEN name.hosts ELSE new)
      BY DEF Network!NameAfter
<1>2. m \in SomeName
      BY DEF Network!NameAfter, Network!Told, Named, SomeName
<1>3. n = 4 \/ (~lapsed /\ ~Network!Lapses(n, works)) => m.live = m.file /\ m.hosts = m.file
      BY <1>1 DEF Named, Network!NamesAgree, Network!Lapses
<1> QED BY <1>2, <1>3
\* Every step keeps the invariant.
LEMMA NamedKept == Named /\ [Network!Next]_networkVars => Named'
<1> SUFFICES ASSUME Named, [Network!Next]_networkVars PROVE Named'
    OBVIOUS
<1>1. ASSUME NEW r \in Network!Request, Network!SetHostname(r) PROVE Named'
  <2>1. PICK new \in Name, n \in 0 .. 4, works \in SUBSET {"file", "live", "manager"} :
               /\ name' = Network!NameAfter(n, works, name, new)
               /\ lapsed' = (n # 4 /\ (lapsed \/ Network!Lapses(n, works)))
        BY <1>1 DEF Network!SetHostname
  <2>2. lapsed' \in BOOLEAN
        BY <2>1, Zenon
  <2>3. ~lapsed' => n = 4 \/ (~lapsed /\ ~Network!Lapses(n, works))
        BY <2>1, Zenon
  <2>4. /\ name' \in SomeName
        /\ n = 4 \/ (~lapsed /\ ~Network!Lapses(n, works))
             => name'.live = name'.file /\ name'.hosts = name'.file
        BY <2>1, NameAfterAgrees
  <2> QED BY <2>2, <2>3, <2>4 DEF Named, Network!NamesAgree
<1>2. ASSUME NEW r \in Network!Request, Network!Arrive(r) \/ Network!Scan(r) \/ Network!Chain(r)
      PROVE  name' = name /\ lapsed' = lapsed
      BY <1>2
         DEF Network!Arrive, Network!Scan, Network!Chain, Network!CallRefused, Network!LanRead,
             Network!LanWrite, Network!LanActivate, Network!Look, Network!NotInSight,
                  Network!Connects, Network!Disconnect
<1>3. CASE UNCHANGED networkVars
      BY <1>3 DEF networkVars, Named, Network!NamesAgree
<1> QED BY <1>1, <1>2, <1>3 DEF Network!Next, Named, Network!NamesAgree

\* A step of the services is a step of this part, or leaves it alone.
LEMMA NetworkMoves == [ServicesNext]_services => [Network!Next]_networkVars
BY DEF ServicesNext, services, networkVars

\* The file, the kernel and the hosts file have one name for the host, wherever setHostname stops
\* and as long as it could take back what it wrote; and again once a change goes through
\* (linux-raspbian.ts, setHostname).
THEOREM HostIsNamed == ServicesSpec => []Network!NamesAgree
<1>1. ServicesInit => Named
      BY NamedStarts DEF ServicesInit
<1>2. Named => Network!NamesAgree
      BY DEF Named
<1> QED BY <1>1, <1>2, NetworkMoves, NamedKept, PTL DEF ServicesSpec
=============================================================================
