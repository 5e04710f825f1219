------------------------------ MODULE NewThings ------------------------------
(***************************************************************************)
(* The screen on which things are added: the visits to it with their       *)
(* sockets, pairing actions and timers, and the cards of the devices found *)
(* and of a web thing that is named by its address.                        *)
(* Models static/js/views/add-thing.js, new-thing.js and new-web-thing.js. *)
(***************************************************************************)
EXTENDS Integers

CONSTANTS
  Device,      \* the devices adapters may find
  NeedsPin,    \* those that ask for a PIN
  NeedsLogin,  \* those that ask for a user name and a password
  Web,         \* the web thing
  MaxShows,    \* bound: visits to the screen
  MaxTries,    \* bound: requests refused, files that cannot be read, cards dropped
  Hasty        \* whether a user leaves while requests are under way

NewThingsAssumption ==
  /\ NeedsPin \subseteq Device /\ NeedsLogin \subseteq Device /\ Web \notin Device
  /\ MaxShows \in Nat /\ MaxTries \in Nat /\ Hasty \in BOOLEAN

VARIABLES
  actions,     \* the pair actions the gateway lists, by the visit that made them
  session,     \* the one that is pending, or 0
  announced,   \* the devices adapters have found
  stored,      \* the things of the gateway
  connecting,  \* sockets that are being opened, by visit
  listening,   \* sockets that are open
  news,        \* <<socket, device>>: messages on their way to the page
  calls,       \* requests of the page: [do, n, thing, state], n the visit
  shown,       \* whether the screen is shown
  visit,       \* the visits so far
  socket,      \* AddThingScreen.socket, or 0
  actionUrl,   \* the visit whose action it names, or 0
  timeout,     \* pairingTimeout: the visit whose timer it is, or 0
  timers,      \* the timers that run
  visible,     \* visibleThings
  cards,       \* what the card of a thing shows
  tries

vars == <<actions, session, announced, stored, connecting, listening, news, calls, shown,
          visit, socket, actionUrl, timeout, timers, visible, cards, tries>>

Offered == Device \cup {Web}
View == {"pin", "login", "pinSent", "loginSent", "form", "reading", "stuck",
         "saving", "saved", "url", "asked"}
NoCards == [t \in {} |-> "form"]
Dealt(t, card) == [u \in DOMAIN cards \cup {t} |-> IF u = t THEN card ELSE cards[u]]

TypeOK ==
  /\ actions \subseteq 1 .. MaxShows /\ session \in 0 .. MaxShows
  /\ announced \subseteq Device /\ stored \subseteq Offered
  /\ connecting \subseteq 1 .. MaxShows /\ listening \subseteq 1 .. MaxShows
  /\ news \subseteq (1 .. MaxShows) \X Device
  /\ calls \subseteq [do : {"pair", "cancel", "save", "pin", "login", "web"}, n : 1 .. MaxShows,
                      thing : Offered \cup {"none"}, state : {"sent", "done", "refused"}]
  /\ shown \in BOOLEAN /\ visit \in 0 .. MaxShows
  /\ {socket, actionUrl, timeout} \subseteq 0 .. MaxShows /\ timers \subseteq 1 .. MaxShows
  /\ visible \subseteq Device
  /\ DOMAIN cards \subseteq Offered /\ \A t \in DOMAIN cards : cards[t] \in View
  /\ tries \in 0 .. MaxTries

Init == /\ actions = {} /\ session = 0 /\ announced = {} /\ stored = {}
        /\ connecting = {} /\ listening = {} /\ news = {} /\ calls = {}
        /\ shown = FALSE /\ visit = 0 /\ socket = 0 /\ actionUrl = 0
        /\ timeout = 0 /\ timers = {} /\ visible = {} /\ cards = NoCards /\ tries = 0

Found == <<actions, session, announced, stored>>
Sockets == <<connecting, listening, news>>
Visit == <<shown, visit, socket, actionUrl, timeout, timers>>
Cards == <<visible, cards>>

Call(do, n, t) == [do |-> do, n |-> n, thing |-> t, state |-> "sent"]
Send(do, t) == calls' = calls \cup {Call(do, visit, t)}

-----------------------------------------------------------------------------
(* Visits.                                                                 *)

\* show and requestPairing: the list is emptied, and a socket and a pair
\* action are asked for; what an earlier visit left is not looked at.
Show == /\ ~shown /\ visit < MaxShows /\ (Hasty \/ calls = {})
        /\ shown' = TRUE /\ visit' = visit + 1
        /\ visible' = {} /\ cards' = NoCards
        /\ socket' = visit + 1 /\ connecting' = connecting \cup {visit + 1}
        /\ calls' = calls \cup {Call("pair", visit + 1, "none")}
        /\ UNCHANGED <<Found, listening, news, actionUrl, timeout, timers, tries>>

\* The answer to the POST: the timer is set, whichever visit it is now.
Started(c) == /\ c \in calls /\ c.do = "pair" /\ c.state # "sent"
              /\ calls' = calls \ {c}
              /\ actionUrl' = c.n
              /\ timeout' = c.n /\ timers' = timers \cup {c.n}
              /\ UNCHANGED <<Found, Sockets, shown, visit, socket, Cards, tries>>

\* requestCancelPairing, when `left` are the timers that run and `handle` is the
\* one it knows of.
\* Faulty: the timer is not cleared.
FaultyRequestCancel(left, handle) ==
  /\ timers' = left /\ timeout' = 0
  /\ connecting' = connecting \ {socket} /\ listening' = listening \ {socket}
  /\ news' = {m \in news : m[1] # socket}
  /\ socket' = 0
  /\ calls' = IF actionUrl = 0 THEN calls ELSE calls \cup {Call("cancel", actionUrl, "none")}
RequestCancel(left, handle) ==
  /\ timers' = left \ {handle} /\ timeout' = 0
  /\ connecting' = connecting \ {socket} /\ listening' = listening \ {socket}
  /\ news' = {m \in news : m[1] # socket}
  /\ socket' = 0
  /\ calls' = IF actionUrl = 0 THEN calls ELSE calls \cup {Call("cancel", actionUrl, "none")}

\* The timer of a visit forgets the handle, whosever it is, and cancels what
\* the screen has now.
Fires(n) == /\ n \in timers
            /\ RequestCancel(timers \ {n}, 0)
            /\ UNCHANGED <<Found, shown, visit, actionUrl, Cards, tries>>

Cancelled(c) == /\ c \in calls /\ c.do = "cancel" /\ c.state # "sent"
                /\ calls' = calls \ {c}
                /\ actionUrl' = IF c.state = "done" THEN 0 ELSE actionUrl
                /\ UNCHANGED <<Found, Sockets, shown, visit, socket, timeout, timers, Cards, tries>>

Hide == /\ shown /\ (Hasty \/ calls = {})
        /\ shown' = FALSE
        /\ RequestCancel(timers, timeout)
        /\ UNCHANGED <<Found, visit, actionUrl, Cards, tries>>

-----------------------------------------------------------------------------
(* The gateway.                                                            *)

\* Only one pairing at a time: the action of another ends in an error at once.
\* The removal of the pending one cancels the session.
Serve(c, s) ==
  /\ c \in calls /\ c.state = "sent"
  /\ calls' = (calls \ {c}) \cup {[c EXCEPT !.state = s]}
  /\ UNCHANGED <<announced, Sockets, Visit, Cards>>
ServePair(c) == /\ c.do = "pair" /\ Serve(c, "done")
                /\ actions' = actions \cup {c.n}
                /\ session' = IF session = 0 THEN c.n ELSE session
                /\ UNCHANGED <<stored, tries>>
ServeCancel(c) == /\ c.do = "cancel" /\ Serve(c, IF c.n \in actions THEN "done" ELSE "refused")
                  /\ actions' = actions \ {c.n}
                  /\ session' = IF session = c.n THEN 0 ELSE session
                  /\ UNCHANGED <<stored, tries>>
ServeSave(c) == /\ c.do = "save" /\ Serve(c, IF c.thing \in stored THEN "refused" ELSE "done")
                /\ stored' = stored \cup {c.thing}
                /\ UNCHANGED <<actions, session, tries>>
ServeDevice(c) == /\ c.do \in {"pin", "login"} /\ Serve(c, "done")
                  /\ UNCHANGED <<actions, session, stored, tries>>
ServeWeb(c) == /\ c.do = "web" /\ Serve(c, "done")
               /\ UNCHANGED <<actions, session, stored, tries>>
Refuse(c) == /\ c.do \in {"save", "pin", "login", "web"} /\ Serve(c, "refused")
             /\ tries < MaxTries /\ tries' = tries + 1
             /\ UNCHANGED <<actions, session, stored>>

EndsItself == /\ session # 0
              /\ session' = 0
              /\ UNCHANGED <<actions, announced, stored, Sockets, calls, Visit, Cards, tries>>

\* The new things there are go to a socket that opens, and those found later
\* to every socket that is open; an adapter may announce a device again.
Opened(n) == /\ n \in connecting
             /\ connecting' = connecting \ {n} /\ listening' = listening \cup {n}
             /\ news' = news \cup ({n} \X (announced \ stored))
             /\ UNCHANGED <<Found, calls, Visit, Cards, tries>>
Announce(d) == /\ d \notin stored
               /\ tries' = IF d \in announced THEN tries + 1 ELSE tries
               /\ tries' <= MaxTries
               /\ announced' = announced \cup {d}
               /\ news' = news \cup (listening \X {d})
               /\ UNCHANGED <<actions, session, stored, connecting, listening, calls, Visit,
                              Cards>>

-----------------------------------------------------------------------------
(* Cards.                                                                  *)

\* buildView: what is still to be asked before the thing can be saved.
Asks(d, given) == IF d \in NeedsPin \ given.pin THEN "pin"
                  ELSE IF d \in NeedsLogin \ given.login THEN "login" ELSE "form"

\* onmessage, showNewThing: once for every device and visit.
Hear(n, d) == /\ <<n, d>> \in news /\ news' = news \ {<<n, d>>}
              /\ visible' = visible \cup {d}
              /\ cards' = IF d \in visible THEN cards
                          ELSE Dealt(d, Asks(d, [pin |-> {}, login |-> {}]))
              /\ UNCHANGED <<Found, connecting, listening, calls, Visit, tries>>

Turn(t, from, to) == /\ shown /\ t \in DOMAIN cards /\ cards[t] = from
                     /\ cards' = [cards EXCEPT ![t] = to]
                     /\ UNCHANGED <<Found, Sockets, Visit, visible>>

\* handleSubmit of a NewThing, with Submit disabled until the answer.
Submit(d) == /\ \/ Turn(d, "pin", "pinSent") /\ Send("pin", d)
                \/ Turn(d, "login", "loginSent") /\ Send("login", d)
             /\ UNCHANGED tries

\* handleSave, and save of a NewWebThing.
Save(t) == Turn(t, "form", "saving") /\ Send("save", t) /\ UNCHANGED tries

\* handleIconUpload: Save is disabled while the file is read.  If a file cannot
\* be read, a web thing's card throws before it enables Save again.
Upload(t) == /\ Turn(t, "form", "reading") \/ Turn(t, "stuck", "reading")
             /\ tries < MaxTries /\ tries' = tries + 1 /\ UNCHANGED calls
Loaded(t) == /\ \/ Turn(t, "reading", "form")
                \/ t = Web /\ Turn(t, "reading", "stuck")
             /\ UNCHANGED <<calls, tries>>

\* handleCancel, and cancel of a NewWebThing: the card goes, its device stays
\* in visibleThings.
Drop(t) == /\ shown /\ t \in DOMAIN cards
           /\ \/ cards[t] \in {"pin", "login", "pinSent", "loginSent", "url", "asked"}
              \/ t = Web /\ cards[t] \in {"form", "reading", "stuck"}
           /\ tries < MaxTries /\ tries' = tries + 1
           /\ cards' = [u \in DOMAIN cards \ {t} |-> cards[u]]
           /\ UNCHANGED <<Found, Sockets, calls, Visit, visible>>

\* showNewWebThing and submit of the address.
NewWeb == /\ shown /\ Web \notin DOMAIN cards
          /\ cards' = Dealt(Web, "url")
          /\ UNCHANGED <<Found, Sockets, calls, Visit, visible, tries>>
Address == Turn(Web, "url", "asked") /\ Send("web", Web) /\ UNCHANGED tries

\* What an answer makes of the card.  A web thing that was refused starts over
\* from its address.
After(c) ==
  CASE c.do = "pin" /\ c.state = "done"      -> Asks(c.thing, [pin |-> Device, login |-> {}])
    [] c.do = "pin" /\ c.state = "refused"   -> "pin"
    [] c.do = "login" /\ c.state = "done"    -> "form"
    [] c.do = "login" /\ c.state = "refused" -> "login"
    [] c.do = "web"                          -> IF c.state = "done" THEN "form" ELSE "url"
    [] c.do = "save" /\ c.state = "done"     -> "saved"
    [] c.do = "save" /\ c.state = "refused"  -> IF c.thing = Web THEN "url" ELSE "form"
Waits(c) == CASE c.do = "pin" -> "pinSent" [] c.do = "login" -> "loginSent"
              [] c.do = "web" -> "asked" [] c.do = "save" -> "saving"

\* The answer reaches the card that asked, which may be gone.
Answer(c) == /\ c \in calls /\ c.state # "sent" /\ c.do \notin {"pair", "cancel"}
             /\ calls' = calls \ {c}
             /\ cards' = IF c.n = visit /\ c.thing \in DOMAIN cards /\ cards[c.thing] = Waits(c)
                         THEN [cards EXCEPT ![c.thing] = After(c)] ELSE cards
             /\ UNCHANGED <<Found, Sockets, Visit, visible, tries>>

-----------------------------------------------------------------------------
Next == \/ Show \/ Hide \/ EndsItself \/ NewWeb \/ Address
        \/ \E c \in calls : \/ Started(c) \/ Cancelled(c) \/ Answer(c) \/ Refuse(c)
                            \/ ServePair(c) \/ ServeCancel(c) \/ ServeSave(c)
                            \/ ServeDevice(c) \/ ServeWeb(c)
        \/ \E n \in 1 .. visit : Fires(n) \/ Opened(n) \/ (\E d \in Device : Hear(n, d))
        \/ \E d \in Device : Announce(d) \/ Submit(d)
        \/ \E t \in Offered : Save(t) \/ Upload(t) \/ Loaded(t) \/ Drop(t)

Spec == Init /\ [][Next]_vars

-----------------------------------------------------------------------------
(* A screen that was left by its own button, with every request answered,  *)
(* has left nothing behind: no socket, no timer, no session of adapters    *)
(* that pair, on a gateway it alone uses.                                  *)
LeavesNothing == ~shown /\ calls = {} => /\ connecting = {} /\ listening = {}
                                         /\ timers = {} /\ session = 0

(* While the screen is shown, the visit's own timer ends it and no other,  *)
(* and as long as its adapters pair the socket is there to hear of what    *)
(* they find.                                                              *)
OwnTimer == shown /\ calls = {} => /\ timers \subseteq {visit} /\ session \in {0, visit}
                                   /\ session # 0 => visit \in connecting \cup listening

(* A card never offers a thing the gateway has, unless the card itself is  *)
(* saving it; and what it calls saved is stored.                           *)
OffersWhatIsNew ==
  \A t \in DOMAIN cards : /\ cards[t] = "saved" => t \in stored
                          /\ shown /\ t \in stored /\ t \in Device
                               => cards[t] \in {"saving", "saved"}

(* The screen keeps these while its visits come and go, timers fire and    *)
(* answers arrive in any order.                                            *)
VisitsKeptApart == LeavesNothing /\ OwnTimer /\ OffersWhatIsNew
=============================================================================
