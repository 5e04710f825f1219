------------------------------ MODULE MessageArea ------------------------------
(***************************************************************************)
(* The message area of the web interface.  Messages come from everywhere   *)
(* and go after some seconds; two persistent ones block the others: the    *)
(* gateway is out of reach, found by a ping every 20 seconds, and the      *)
(* thing whose page is open is disconnected.                               *)
(* Models static/js/app.js (messages, pinger), and what things.js and      *)
(* schema-impl/capability/thing.js do to them.                             *)
(***************************************************************************)
EXTENDS Naturals, FiniteSets

CONSTANTS
  Thing,
  MaxFailures,  \* App.MAX_PING_FAILURES
  MaxEvents     \* bound: addresses opened, messages, and news of connections

VARIABLES
  at,         \* the page that is open: the list, a thing, or another
  connected,  \* whether each thing is
  pages,      \* things of which an expanded Thing still hears whether it is
  area,       \* the message area, its timers and App.blockMessages
  failed,     \* App.failedPings
  status,     \* App.pingerLastStatus
  overlay,    \* whether the connectivity overlay is shown
  events

vars == <<at, connected, pages, area, failed, status, overlay, events>>

\* No thing has the address of the list, or of another page.
MessageAreaAssumption == {"list", "other"} \cap Thing = {}

Unreachable == "unreachable"
Disconnected == "disconnected"
Quiet == 0

\* Messages with a time to live are numbered; `timer` is App.messageTimeout,
\* and `timers` are those that will hide the area.
Empty == [text |-> "", visible |-> FALSE, blocked |-> FALSE, timer |-> Quiet, timers |-> {}]

\* The area, the pinger and who talks.
TypeOK == /\ at \in Thing \cup {"list", "other"} /\ connected \in [Thing -> BOOLEAN]
          /\ pages \subseteq Thing
          /\ area.text \in {"", "message", Unreachable, Disconnected}
          /\ area.visible \in BOOLEAN /\ area.blocked \in BOOLEAN
          /\ area.timer \in 0 .. MaxEvents /\ area.timers \subseteq 1 .. MaxEvents
          /\ failed \in 0 .. MaxFailures /\ status \in {"none", "online", "offline"}
          /\ overlay \in BOOLEAN /\ events \in 0 .. MaxEvents

Init == /\ at = "list" /\ connected \in [Thing -> BOOLEAN] /\ pages = {}
        /\ area = Empty
        /\ failed = 0 /\ status = "none" /\ overlay = FALSE /\ events = 0

-----------------------------------------------------------------------------
(* The area.                                                               *)

\* The timer of the message before is cleared, also when this one is not shown.
Untimed(a, id) == [a EXCEPT !.timer = Quiet, !.timers = @ \ {a.timer}]

\* showMessage, with a time to live if `id` is not 0.
Message(a, text, id) ==
  LET b == Untimed(a, id)
  IN IF a.blocked THEN b
     ELSE [b EXCEPT !.text = text, !.visible = TRUE, !.timer = id,
                    !.timers = IF id = Quiet THEN @ ELSE @ \cup {id}]

Persistent(a, text) == [Message(a, text, Quiet) EXCEPT !.blocked = TRUE]
Hidden(a) == IF a.blocked THEN [a EXCEPT !.visible = FALSE, !.blocked = FALSE] ELSE a
HiddenIf(a, text) == IF a.text = text THEN Hidden(a) ELSE a

Pinger == <<failed, status, overlay>>
Counts == events < MaxEvents /\ events' = events + 1

\* Any message with a duration.
ShowMessage == /\ Counts
               /\ area' = Message(area, "message", events')
               /\ UNCHANGED <<at, connected, pages, Pinger>>

Expire(id) == /\ id \in area.timers
              /\ area' = [area EXCEPT !.timers = @ \ {id}, !.timer = Quiet, !.visible = FALSE]
              /\ UNCHANGED <<at, connected, pages, Pinger, events>>

-----------------------------------------------------------------------------
(* Pages.                                                                  *)

\* The list cleans up the Things that were drawn, and hides their message.
ShowList == /\ Counts
            /\ at' = "list" /\ pages' = {}
            /\ area' = HiddenIf(area, Disconnected)
            /\ UNCHANGED <<connected, Pinger>>

\* The page of a thing draws a Thing, and leaves those that were drawn before.
Drawn(t) == IF connected[t] THEN area ELSE Persistent(area, Disconnected)
ShowThing(t) == /\ Counts
                /\ at' = t /\ pages' = pages \cup {t}
                /\ area' = Drawn(t)
                /\ UNCHANGED <<connected, Pinger>>

ShowOther == /\ Counts
             /\ at' = "other"
             /\ UNCHANGED <<connected, pages, area, Pinger>>

\* A message 'connected': onConnected of those that were drawn.
Connected(t) == /\ Counts
                /\ connected' = [connected EXCEPT ![t] = ~@]
                /\ area' = CASE t \notin pages -> area
                             [] t \in pages /\ ~connected[t] -> Hidden(area)
                             [] t \in pages /\ connected[t] -> Persistent(area, Disconnected)
                /\ UNCHANGED <<at, pages, Pinger>>

-----------------------------------------------------------------------------
(* startPinger: a ping is answered, or fails; the answers of several that  *)
(* are under way come in any order.                                        *)

\* If the gateway was out of reach, the page is loaded again.
Answered ==
  /\ IF status = "offline"
     THEN /\ pages' = (IF at \in Thing THEN {at} ELSE {})
          /\ area' = (IF at \in Thing /\ ~connected[at] THEN Persistent(Empty, Disconnected)
                      ELSE Empty)
          /\ status' = "none"
     ELSE /\ area' = HiddenIf(area, Unreachable)
          /\ status' = "online"
          /\ UNCHANGED pages
  /\ failed' = 0 /\ overlay' = FALSE
  /\ UNCHANGED <<at, connected, events>>

Failed ==
  /\ failed' = IF failed < MaxFailures THEN failed + 1 ELSE failed
  /\ IF failed' = MaxFailures
     THEN /\ overlay' = TRUE /\ status' = "offline"
          /\ area' = Persistent(area, Unreachable)
     ELSE UNCHANGED <<overlay, status, area>>
  /\ UNCHANGED <<at, connected, pages, events>>

Next == \/ ShowMessage \/ ShowList \/ ShowOther \/ Answered \/ Failed
        \/ \E t \in Thing : ShowThing(t) \/ Connected(t)
        \/ \E id \in 1 .. MaxEvents : Expire(id)

Spec == Init /\ [][Next]_vars

-----------------------------------------------------------------------------
\* A persistent message stays until something hides it: no timer of a message before it does
\* (showMessage, showPersistentMessage).  A message with a time to live goes after its own time:
\* it has the only timer.  On the list the only persistent message is that the gateway is out of
\* reach (ThingsScreen.show, Thing.cleanup), and the overlay is shown as long as it is
\* (startPinger).
MessagesKept ==
  /\ area.blocked => area.visible /\ area.timers = {}
  /\ ~area.blocked /\ area.visible => area.timer # Quiet /\ area.timers = {area.timer}
  /\ at = "list" /\ area.blocked => area.text = Unreachable
  /\ overlay <=> status = "offline"
=============================================================================
