--------------------------- MODULE RestartBackoff ---------------------------
(***************************************************************************)
(* When Plugin.start restarts the process of an add-on that has died.      *)
(* AddonLifecycle lets the restart come at once or later, as it likes;     *)
(* this module is about how much later.  Time is in seconds.               *)
(***************************************************************************)
EXTENDS Integers

CONSTANTS
  Window,    \* a process that lived longer than this since its restart starts afresh: 60
  Cap,       \* the delay below which it grows: 30
  Limit,     \* the delay above which there is no restart: 30
  MaxStreak  \* bound: deaths in a row that are counted

ASSUME TimesAssumption ==
  Window \in Nat /\ Cap \in Nat /\ Limit \in Nat /\ MaxStreak \in Nat

VARIABLES
  state,         \* "running", "waiting" for the restart timer, or "stopped"
  restartDelay,  \* Plugin.restartDelay
  left,          \* what is left of the restart timer
  sinceRestart,  \* the time since Plugin.lastRestart, which counts up to Window + 1
  streak,        \* history: the deaths in a row that came within Window of a restart
  elapsed        \* history: the time since the first restart of that row

vars == <<state, restartDelay, left, sinceRestart, streak, elapsed>>

\* The delay stays within Cap; the counters within the bounds that are named.
TypeOK ==
  /\ state \in {"running", "waiting", "stopped"}
  /\ restartDelay \in 0 .. Cap
  /\ left \in 0 .. Cap
  /\ sinceRestart \in 0 .. Window + 1
  /\ streak \in 0 .. MaxStreak
  /\ elapsed \in Nat

\* lastRestart is 0, long ago.
Init ==
  /\ state = "running"
  /\ restartDelay = 0
  /\ left = 0
  /\ sinceRestart = Window + 1
  /\ streak = 0
  /\ elapsed = 0

\* Faulty: the delay starts afresh when a process has lived for Window in all.
FaultyNextDelay == IF elapsed > Window THEN 0 ELSE IF restartDelay < Cap THEN restartDelay + 1 ELSE restartDelay

\* The delay that follows a death.
NextDelay ==
  IF sinceRestart > Window THEN 0
  ELSE IF restartDelay < Cap THEN restartDelay + 1 ELSE restartDelay

\* The process ends, and not with the code that asks for no restart.
Die ==
  /\ state = "running"
  /\ streak < MaxStreak
  /\ restartDelay' = NextDelay
  /\ IF NextDelay > Limit
     THEN state' = "stopped" /\ left' = 0
     ELSE state' = "waiting" /\ left' = NextDelay
  /\ IF sinceRestart > Window
     THEN streak' = 0 /\ elapsed' = 0
     ELSE streak' = streak + 1 /\ elapsed' = elapsed
  /\ UNCHANGED sinceRestart

\* doRestart, when the timer has run out.
Restart ==
  /\ state = "waiting"
  /\ left = 0
  /\ state' = "running"
  /\ sinceRestart' = 0
  /\ UNCHANGED <<restartDelay, left, streak, elapsed>>

\* A second goes by; a timer that has run out is served first. The time of a row is
\* counted while a death would still belong to it.
Tick ==
  /\ ~(state = "waiting" /\ left = 0)
  /\ left' = IF state = "waiting" THEN left - 1 ELSE left
  /\ IF sinceRestart > Window
     THEN UNCHANGED sinceRestart
     ELSE sinceRestart' = sinceRestart + 1
  /\ elapsed' = IF state = "waiting" \/ sinceRestart <= Window THEN elapsed + 1 ELSE elapsed
  /\ UNCHANGED <<state, restartDelay, streak>>

Next == Die \/ Restart \/ Tick

Spec == Init /\ [][Next]_vars

-----------------------------------------------------------------------------
(* Properties.                                                             *)

\* A process that keeps dying is restarted ever more rarely: while the delay still
\* grows, k deaths in a row take k * (k + 1) / 2 seconds of waiting, those that are
\* left of the last wait included.
Spacing ==
  streak <= Cap /\ state # "stopped" => 2 * (elapsed + left) >= streak * (streak + 1)

\* The comment where the delay is tested: after 30 restarts in a row, bail out.
GivesUp == streak > Limit => state = "stopped"
=============================================================================
