-------------------------- MODULE ExclusiveSession --------------------------
(***************************************************************************)
(* What AddonManager promises to the callers of addNewThing and of         *)
(* removeThing (for one thing): the promise of a call is settled exactly   *)
(* once, at most one call holds the session at a time, the others are      *)
(* turned away at once, and the session always ends.                       *)
(***************************************************************************)

CONSTANTS
  Caller,   \* the calls that may be made, each at most once
  Nobody    \* no call holds the session

VARIABLES
  holder,   \* the call whose promise is outstanding, or Nobody
  phase     \* per call: "idle", "open" or "closed"

sessionVars == <<holder, phase>>

SessionInit ==
  /\ holder = Nobody
  /\ phase = [c \in Caller |-> "idle"]

\* A call finds the session free and takes it.
Open(c) ==
  /\ phase[c] = "idle"
  /\ holder = Nobody
  /\ holder' = c
  /\ phase' = [phase EXCEPT ![c] = "open"]

\* A call is answered at once without holding the session.
TurnAway(c) ==
  /\ phase[c] = "idle"
  /\ phase' = [phase EXCEPT ![c] = "closed"]
  /\ UNCHANGED holder

\* The session ends and the promise of its holder is settled.
Close ==
  /\ holder # Nobody
  /\ holder' = Nobody
  /\ phase' = [phase EXCEPT ![holder] = "closed"]

SessionNext ==
  \/ \E c \in Caller : Open(c) \/ TurnAway(c)
  \/ Close

SessionSafety == SessionInit /\ [][SessionNext]_sessionVars

\* A session that is open ends.
SessionEnds == WF_sessionVars(Close)

SessionSpec == SessionSafety /\ SessionEnds
=============================================================================
