----------------------------- MODULE SettingsForms -----------------------------
(***************************************************************************)
(* The pages of the settings that are forms: domain, network, time and     *)
(* place, update, developer.  They keep what they were filled with until   *)
(* the next answer, wherever the page is by then.                          *)
(* Models static/js/views/settings.js (these pages), wireless-network.js.  *)
(***************************************************************************)
EXTENDS Integers, Sequences

CONSTANTS
  MaxSteps,   \* bound: pages shown, requests sent, GETs that fail, other clients' changes
  Hasty       \* whether the user asks for a change, edits a form that is being
              \* sent, or leaves, while a change is under way

VARIABLES
  has,        \* what the gateway has
  up,         \* whether it answers
  run,        \* the number of its process
  updating,   \* whether it was asked to update itself
  at,         \* the page shown
  form,       \* what the pages' elements say
  stale,      \* choices changed by another client or by a page that is gone,
              \* refused, or not told, since the gateway last told them
  gets,       \* pages whose GET is under way, in the order they were asked
  puts,       \* changes under way: [what, value, load]
  polls,      \* the loops that wait for an update: whether each has seen the
              \* gateway down
  load,       \* how often the page in the browser was loaded
  from,       \* the process it was loaded from
  steps

vars == <<has, up, run, updating, at, form, stale, gets, puts, polls, load, from, steps>>

\* Choices have the values 1 and 2, for off and on, or for two that can be
\* selected, and 0 as long as the element was not filled; the zone stands for
\* the language and the units.
PageOf == [mdns |-> "domain", ssh |-> "developer", updates |-> "update",
           country |-> "localization", zone |-> "localization"]
Choice == DOMAIN PageOf
On(page) == {c \in Choice : PageOf[c] = page}
Page == {"domain", "developer", "update", "localization", "ethernet", "wifi"}

\* The elements of a page that was just loaded.
Blank == [box |-> [c \in Choice |-> 0], name |-> 0, locked |-> FALSE,
          mode |-> "dhcp", valid |-> FALSE, done |-> TRUE,
          ssid |-> "none", key |-> "empty", connect |-> TRUE, offered |-> FALSE]

Init ==
  /\ \E mdns \in 1 .. 2, lan \in {"dhcp", "static"} :
       has = [mdns |-> mdns, ssh |-> 1, updates |-> 1, country |-> 1, zone |-> 1,
              name |-> 1, lan |-> lan]
  /\ up = TRUE /\ run = 1 /\ updating = FALSE
  /\ at = "menu" /\ form = Blank /\ stale = {} /\ gets = <<>> /\ puts = {}
  /\ polls = {} /\ load = 1 /\ from = 1 /\ steps = 0

Gateway == <<has, up, run, updating>>
Browser == <<polls, load, from>>
Counts == steps < MaxSteps /\ steps' = steps + 1

\* validateEthernet, validateWifi.
Valid(f) == f.mode = "dhcp" \/ f.valid
Lan(f)   == [f EXCEPT !.done = Valid(f)]
Wifi(f)  == [f EXCEPT !.connect = f.key # "short"]

-----------------------------------------------------------------------------
(* Pages.                                                                  *)

\* The show functions.  The netmask of the form of the ethernet is set to one
\* that is valid; the form is validated only after the answer.
Show(page) ==
  /\ Counts /\ (Hasty \/ puts = {})
  /\ at' = page /\ gets' = Append(gets, [page |-> page, load |-> load])
  /\ \E valid \in {form.valid} \cup (IF page = "ethernet" THEN {TRUE} ELSE {}) :
       form' = [form EXCEPT !.valid = valid,
                            !.box = [c \in Choice |->
                                       IF page = "localization" /\ c \in On(page) THEN 0
                                       ELSE form.box[c]]]
  /\ UNCHANGED <<Gateway, stale, puts, Browser>>

\* A click on a WirelessNetwork, and showWifiConfigure.
ShowJoin(ssid) ==
  /\ Counts /\ (Hasty \/ puts = {}) /\ at = "wifi"
  /\ at' = "join" /\ form' = [form EXCEPT !.ssid = ssid, !.key = "empty"]
  /\ UNCHANGED <<Gateway, stale, gets, puts, Browser>>

\* What the answers make of the forms of a page, one operator for each.
Boxes(f, page) == [c \in Choice |-> IF c \in On(page) THEN has[c] ELSE f.box[c]]
DomainFilled(f)    == [f EXCEPT !.box = Boxes(f, "domain"), !.name = has.name,
                                !.locked = @ \/ has.mdns = 1]
EthernetFilled(f)  == Lan([f EXCEPT !.mode = has.lan, !.valid = has.lan = "static"])
WifiFilled(f)      == Wifi(f)
PlaceFilled(f)     == [f EXCEPT !.box = Boxes(f, "localization")]
UpdateFilled(f, offered) == [f EXCEPT !.box = Boxes(f, "update"), !.offered = offered]
DeveloperFilled(f) == [f EXCEPT !.box = Boxes(f, "developer")]
Filled(f, page, offered) ==
  CASE page = "domain"       -> DomainFilled(f)
    [] page = "ethernet"     -> EthernetFilled(f)
    [] page = "wifi"         -> WifiFilled(f)
    [] page = "localization" -> PlaceFilled(f)
    [] page = "update"       -> UpdateFilled(f, offered)
    [] page = "developer"    -> DeveloperFilled(f)
    [] page \notin Page      -> f

\* The GETs of a page are answered together; those of a page that is no longer
\* loaded in the browser are answered to nobody.
Answered ==
  LET g == Head(gets) IN
  /\ gets # <<>> /\ up /\ gets' = Tail(gets)
  /\ \E offered \in BOOLEAN :
       form' = IF g.load = load THEN Filled(form, g.page, offered) ELSE form
  /\ stale' = IF g.load = load THEN stale \ On(g.page) ELSE stale
  /\ UNCHANGED <<Gateway, at, puts, Browser, steps>>
Unanswered ==
  LET g == Head(gets) IN
  /\ gets # <<>> /\ (IF up THEN Counts ELSE UNCHANGED steps) /\ gets' = Tail(gets)
  /\ form' = IF g.load # load THEN form
             ELSE CASE g.page = "ethernet" -> Lan(form) [] g.page = "wifi" -> Wifi(form)
                    [] g.page \notin {"ethernet", "wifi"} -> form
  /\ stale' = IF g.load = load THEN stale \cup On(g.page) ELSE stale
  /\ UNCHANGED <<Gateway, at, puts, Browser>>

-----------------------------------------------------------------------------
(* What the user does on them.                                             *)

Does(page) == at = page /\ UNCHANGED <<Gateway, at, stale, gets, Browser>>
Sends(what, value) == /\ Counts /\ (Hasty \/ puts = {})
                      /\ puts' = puts \cup {[what |-> what, value |-> value, load |-> load]}

\* The listeners of boxes and selects, of which the user waits to see what is
\* chosen.
Choose(c) == /\ Does(PageOf[c]) /\ form.box[c] # 0 /\ (Hasty \/ gets = <<>>)
             /\ Sends(c, 3 - form.box[c])
             /\ form' = [form EXCEPT !.box[c] = 3 - @]

\* onLocalDomainClick.
Rename(name) == /\ Does("domain") /\ ~form.locked
                /\ Sends("name", name) /\ form' = [form EXCEPT !.name = name]

\* The form of the ethernet.
Edits(page) == Does(page) /\ (Hasty \/ puts = {}) /\ UNCHANGED <<puts, steps>>
Mode(m) == /\ Edits("ethernet") /\ form.mode # m /\ form' = Lan([form EXCEPT !.mode = m])
Address(valid) == /\ Edits("ethernet") /\ form.mode = "static"
                  /\ form' = Lan([form EXCEPT !.valid = valid])
Done == /\ Does("ethernet") /\ form.done
        /\ Sends("lan", [mode |-> form.mode, valid |-> Valid(form)])
        /\ form' = [form EXCEPT !.done = FALSE]

\* The form of the Wi-Fi.
Key(k) == /\ Edits("join") /\ form' = Wifi([form EXCEPT !.key = k])
Connect == /\ Does("join") /\ form.connect
           /\ Sends("wlan", [ssid |-> form.ssid, key |-> form.key])
           /\ form' = [form EXCEPT !.connect = FALSE]

\* onUpdateClick; its listener is still there for another click.
Update == /\ Does("update") /\ form.offered
          /\ Sends("update", 0) /\ UNCHANGED form

-----------------------------------------------------------------------------
(* The gateway, and what the page makes of its answers.                    *)

\* The page is loaded anew at its address.
Reloaded == /\ load' = load + 1 /\ from' = run /\ form' = Blank /\ polls' = {}
            /\ gets' = Append(gets, [page |-> at, load |-> load + 1])
            /\ UNCHANGED at
Stays == UNCHANGED <<at, gets, Browser>>

Takes(p) == p \in puts /\ puts' = puts \ {p}
Stored(p) == has' = CASE p.what \in {"wlan", "update"} -> has
                      [] p.what = "lan" -> [has EXCEPT !.lan = p.value.mode]
                      [] p.what \in Choice \cup {"name"} -> [has EXCEPT ![p.what] = p.value]
Accepted(p) ==
  /\ Takes(p) /\ up /\ Stored(p)
  /\ updating' = (updating \/ p.what = "update")
  /\ CASE p.load # load -> Stays /\ UNCHANGED form
       [] p.load = load /\ p.what = "mdns" ->
            form' = [form EXCEPT !.locked = p.value = 1] /\ Stays
       [] p.load = load /\ p.what \in {"lan", "wlan"} ->
            /\ form' = IF p.what = "lan" THEN [form EXCEPT !.done = TRUE]
                       ELSE [form EXCEPT !.connect = TRUE]
            /\ at' = "network" /\ UNCHANGED <<gets, Browser>>
       [] p.load = load /\ p.what = "zone" -> Reloaded
       [] p.load = load /\ p.what = "update" ->
            polls' = polls \cup {FALSE} /\ UNCHANGED <<at, form, gets, load, from>>
       [] p.load = load /\ p.what \in {"ssh", "updates", "country", "name"} ->
            Stays /\ UNCHANGED form
  /\ stale' = IF p.load # load THEN stale \cup (Choice \cap {p.what}) ELSE stale
  /\ UNCHANGED <<up, run, steps>>

\* Of the choices only that of the domain's box is taken back.
\* Faulty: none is.
FaultyRefused(p) ==
  /\ Takes(p) /\ (IF up THEN Counts ELSE UNCHANGED steps)
  /\ stale' = IF p.what \in Choice \ {"mdns"} THEN stale \cup {p.what} ELSE stale
  /\ UNCHANGED form
  /\ Stays /\ UNCHANGED Gateway
Refused(p) ==
  /\ Takes(p) /\ (IF up THEN Counts ELSE UNCHANGED steps)
  /\ stale' = IF p.what \in Choice \ {"mdns"} THEN stale \cup {p.what} ELSE stale
  /\ CASE p.load # load -> UNCHANGED form
       [] p.load = load /\ p.what = "mdns" ->
            form' = [form EXCEPT !.box.mdns = 3 - p.value, !.locked = p.value = 2]
       [] p.load = load /\ p.what = "name" ->
            form' \in {form} \cup (IF up THEN {[form EXCEPT !.name = has.name]} ELSE {})
       [] p.load = load /\ p.what = "lan"  -> form' = [form EXCEPT !.done = TRUE]
       [] p.load = load /\ p.what = "wlan" -> form' = [form EXCEPT !.connect = TRUE]
       [] p.load = load /\ p.what \in (Choice \ {"mdns"}) \cup {"update"} -> UNCHANGED form
  /\ Stays /\ UNCHANGED Gateway

\* checkStatus: when the gateway answers again, the page is loaded anew.
Poll(down) ==
  /\ down \in polls
  /\ \/ /\ up /\ down /\ Reloaded
     \/ /\ ~up /\ ~down /\ polls' = (polls \ {down}) \cup {TRUE}
        /\ UNCHANGED <<at, form, gets, load, from>>
  /\ UNCHANGED <<Gateway, stale, puts, steps>>

Stops  == /\ up /\ updating /\ up' = FALSE
          /\ UNCHANGED <<has, run, updating, at, form, stale, gets, puts, Browser, steps>>
Starts == /\ ~up /\ up' = TRUE /\ run' = run + 1 /\ updating' = FALSE
          /\ UNCHANGED <<has, at, form, stale, gets, puts, Browser, steps>>
OtherClient(c) == /\ Counts /\ up /\ has' = [has EXCEPT ![c] = 3 - @]
                  /\ stale' = stale \cup {c}
                  /\ UNCHANGED <<up, run, updating, at, form, gets, puts, Browser>>

Next == \/ Answered \/ Unanswered \/ Done \/ Connect \/ Update \/ Stops \/ Starts
        \/ \E page \in Page : Show(page)
        \/ \E ssid \in {"s1", "s2"} : ShowJoin(ssid)
        \/ \E c \in Choice : Choose(c) \/ OtherClient(c)
        \/ \E name \in 1 .. 2 : Rename(name)
        \/ \E m \in {"dhcp", "static"} : Mode(m)
        \/ \E b \in BOOLEAN : Address(b) \/ Poll(b)
        \/ \E k \in {"empty", "short", "long"} : Key(k)
        \/ \E p \in puts : Accepted(p) \/ Refused(p)

Spec == Init /\ [][Next]_vars

-----------------------------------------------------------------------------
(* With nothing under way, a choice that is shown is the gateway's, as far *)
(* as it is not known to be stale; and a host name that is not announced   *)
(* cannot be changed.                                                      *)
ChoicesTell ==
  puts = {} /\ gets = <<>> =>
    /\ \A c \in Choice \ stale : at = PageOf[c] /\ form.box[c] # 0 => form.box[c] = has[c]
    /\ form.box.mdns = 1 => form.locked

(* What is sent about the network is valid, whenever its forms were filled *)
(* and edited; and what can be sent is what was validated.                 *)
SentIsValid ==
  /\ \A p \in puts : p.what = "lan" => p.value.valid
  /\ \A p \in puts : p.what = "wlan" => p.value.key # "short"
  /\ \A p \in puts : p.what = "wlan" /\ p.load = load => p.value.ssid = form.ssid
  /\ form.done => Valid(form)
  /\ form.connect => form.key # "short"

(* A page that waits for an update to end is loaded from another process   *)
(* of the gateway than it was.                                             *)
ReloadsTheNew == TRUE \in polls => ~up \/ run > from

SettingsTell == ChoicesTell /\ SentIsValid /\ ReloadsTheNew
=============================================================================
