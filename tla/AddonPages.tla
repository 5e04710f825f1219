------------------------------ MODULE AddonPages ------------------------------
(***************************************************************************)
(* The pages of the add-ons: those installed, those to be discovered and   *)
(* the form of one add-on's configuration, with the two maps and the       *)
(* cached promise they share.                                              *)
(* Models static/js/views/settings.js (add-ons), installed-addon.js,       *)
(* discovered-addon.js and addon-config.js.                                *)
(***************************************************************************)
EXTENDS Integers, Sequences, FiniteSets

CONSTANTS
  Addon,
  Lists,      \* the lists of add-ons on offer: each maps add-ons to versions
  First,      \* what is installed at first: add-ons and their versions
  MaxVisits,  \* bound: pages shown, and lists drawn anew by a search
  MaxClicks,  \* bound: requests of the user
  MaxFails,   \* bound: requests that fail
  Hasty       \* whether the user leaves a page, searches, or clicks twice for
              \* one add-on while requests are under way, or updates an add-on
              \* that is disabled

AddonPagesAssumption ==
  /\ IsFiniteSet(Lists)
  /\ \A l \in Lists \cup {First} :
       DOMAIN l \subseteq Addon /\ \A a \in DOMAIN l : l[a] \in Seq(Nat)
  /\ {MaxVisits, MaxClicks, MaxFails} \subseteq Nat /\ Hasty \in BOOLEAN

VARIABLES
  has,        \* the gateway's add-ons: version, enabled, and whether they are listed
  installed,  \* installedAddons: version, enabled
  available,  \* availableAddons: version, installed
  deferred,   \* fetchInstalledAddonsDeferred: the GET it is of (0: null) and its state
  at,         \* the page shown
  visit,      \* pages and lists drawn so far
  drawn,      \* whether this visit has drawn its list
  waits,      \* visits whose list is not drawn yet: [n, at, of, get, step]
  reads,      \* GETs under way: [n, kind, state, body]
  cards,      \* the cards of the installed add-ons
  cardsOf,    \* the visit that drew them
  found,      \* what the cards of the add-ons on offer say
  foundOf,
  forms,      \* the add-ons whose forms are in the page of the configuration
  title,      \* the add-on that page names
  calls,      \* other requests under way: [do, addon, n, value, state]
  clicks, fails,
  half        \* history: whether a request that was refused had been done in part

vars == <<has, installed, available, deferred, at, visit, drawn, waits, reads, cards, cardsOf,
          found, foundOf, forms, title, calls, clicks, fails, half>>

No == <<>>
Without(f, a) == [x \in DOMAIN f \ {a} |-> f[x]]
With(f, a, e) == [x \in DOMAIN f \cup {a} |-> IF x = a THEN e ELSE f[x]]
Quiet == reads = {} /\ calls = {}

\* compareSemver: part by part, over the parts of the first.
Older(a, b) == \E i \in DOMAIN a : /\ i \in DOMAIN b /\ a[i] < b[i]
                                   /\ \A j \in 1 .. i - 1 : a[j] = b[j]

Init ==
  /\ has = [a \in DOMAIN First |-> [version |-> First[a], enabled |-> TRUE, listed |-> TRUE]]
  /\ installed = No /\ available = No /\ deferred = [get |-> 0, state |-> "none"]
  /\ at = "menu" /\ visit = 0 /\ drawn = FALSE /\ waits = {} /\ reads = {}
  /\ cards = No /\ cardsOf = 0 /\ found = No /\ foundOf = 0 /\ forms = {} /\ title = "none"
  /\ calls = {} /\ clicks = 0 /\ fails = 0 /\ half = FALSE

Maps == <<installed, available, deferred>>
Shown == <<cards, cardsOf, found, foundOf, forms>>

-----------------------------------------------------------------------------
(* Pages: showAddonSettings, showAddonConfigScreen and                     *)
(* showDiscoveredAddonsScreen.                                             *)

Read(n, kind, of) == [n |-> n, kind |-> kind, of |-> of, state |-> "sent", body |-> No]
Waiting(to, of, get, step) == [n |-> visit + 1, at |-> to, of |-> of, get |-> get, step |-> step]

Visits(to) == /\ visit < MaxVisits /\ (Hasty \/ Quiet)
              /\ at' = to /\ visit' = visit + 1 /\ drawn' = FALSE
              /\ UNCHANGED <<has, installed, available, Shown, calls, clicks, fails, half>>

\* fetchInstalledAddonList(true): a new GET, whatever is under way.
Forced(to, of) == /\ Visits(to)
                  /\ deferred' = [get |-> visit + 1, state |-> "pending"]
                  /\ reads' = reads \cup {Read(visit + 1, "installed", "none")}
                  /\ waits' = waits \cup {Waiting(to, of, visit + 1, "installed")}
ShowMain == Forced("main", "none") /\ UNCHANGED title
ShowConfig(a) == at = "main" /\ a \in DOMAIN cards /\ Forced("config", a) /\ title' = a

\* fetchInstalledAddonList(false): the promise there is, or a new GET.
\* fetchAvailableAddonList asks anew each time: availableAddonsLastFetched is
\* never set.
ShowDiscover ==
  /\ at = "main" /\ Visits("discover") /\ UNCHANGED title
  /\ LET n == visit + 1 IN
     CASE deferred.state \in {"none", "failed"} ->
            /\ deferred' = [get |-> n, state |-> "pending"]
            /\ reads' = reads \cup {Read(n, "installed", "none")}
            /\ waits' = waits \cup {Waiting("discover", "none", n, "installed")}
       [] deferred.state = "pending" ->
            /\ waits' = waits \cup {Waiting("discover", "none", deferred.get, "installed")}
            /\ UNCHANGED <<deferred, reads>>
       [] deferred.state = "ok" ->
            /\ waits' = waits \cup {Waiting("discover", "none", n, "available")}
            /\ reads' = reads \cup {Read(n, "available", "none")}
            /\ UNCHANGED deferred

\* The GETs are served in any order, and answered in any order.
Serve(r) == /\ r \in reads /\ r.state = "sent"
            /\ reads' = (reads \ {r}) \cup
                 {[r EXCEPT !.state = "done",
                            !.body = IF r.kind # "installed" THEN No
                                     ELSE [a \in {b \in DOMAIN has : has[b].listed} |->
                                             [version |-> has[a].version,
                                              enabled |-> has[a].enabled]]]}
            /\ UNCHANGED <<has, Maps, at, visit, drawn, waits, Shown, title, calls, clicks, fails,
                           half>>

Card(entry) == [version |-> entry.version, enabled |-> entry.enabled, says |-> entry.enabled,
                update |-> No, busy |-> {}]

\* The answer to a GET of the add-ons replaces the map.  Every visit that waited
\* for it goes on: the cards are drawn anew, the form's old one is taken away.
Installed(r) ==
  LET on == {w \in waits : w.step = "installed" /\ w.get = r.n}
      to(page) == {w \in on : w.at = page}
      next == to("main") \cup to("discover") IN
  /\ r \in reads /\ r.kind = "installed" /\ r.state = "done"
  /\ installed' = r.body
  /\ deferred' = IF deferred.get = r.n THEN [deferred EXCEPT !.state = "ok"] ELSE deferred
  /\ waits' = (waits \ on) \cup {[w EXCEPT !.step = "available"] : w \in next}
  /\ reads' = (reads \ {r}) \cup {Read(w.n, "available", "none") : w \in next}
                            \cup {Read(w.n, "config", w.of) : w \in {v \in to("config") :
                                                                 v.of \in DOMAIN r.body}}
  /\ IF to("main") # {}
     THEN /\ cards' = [a \in DOMAIN r.body |-> Card(r.body[a])]
          /\ cardsOf' = r.n
          /\ drawn' = (drawn \/ at = "main")
     ELSE UNCHANGED <<cards, cardsOf, drawn>>
  /\ forms' = IF to("config") # {} THEN {} ELSE forms
  /\ UNCHANGED <<has, available, at, visit, found, foundOf, title, calls, clicks, fails, half>>

\* The form of AddonConfig is added to the page.
Configured(r) == /\ r \in reads /\ r.kind = "config" /\ r.state = "done"
                 /\ reads' = reads \ {r}
                 /\ forms' = forms \cup {r.of} /\ drawn' = (drawn \/ at = "config")
                 /\ UNCHANGED <<has, Maps, at, visit, waits, cards, cardsOf, found,
                                foundOf, title, calls, clicks, fails, half>>

\* Of several lists the newest version of an add-on counts.
Offered == [a \in UNION {DOMAIN l : l \in Lists} |->
              CHOOSE v \in {l[a] : l \in {k \in Lists : a \in DOMAIN k}} :
                \A l \in Lists : a \in DOMAIN l => ~Older(v, l[a])]
Says(a) == IF available'[a].installed THEN "added" ELSE "add"

\* The lists on offer: the page of the installed add-ons offers updates, the
\* other page is drawn.
Available(r) ==
  LET on == {w \in waits : w.step = "available" /\ w.n = r.n}
      main == \E w \in on : w.at = "main" IN
  /\ r \in reads /\ r.kind = "available" /\ r.state = "done"
  /\ reads' = reads \ {r} /\ waits' = waits \ on
  /\ available' = [a \in DOMAIN Offered |->
                     [version |-> Offered[a], installed |-> a \in DOMAIN installed]]
  /\ cards' = IF ~main \/ cardsOf # r.n THEN cards
              ELSE [a \in DOMAIN cards |->
                      IF a \in DOMAIN installed \cap DOMAIN Offered
                         /\ Older(installed[a].version, Offered[a])
                      THEN [cards[a] EXCEPT !.update = Offered[a]] ELSE cards[a]]
  /\ IF main THEN UNCHANGED <<found, foundOf, drawn>>
     ELSE /\ found' = [a \in DOMAIN Offered |-> Says(a)]
          /\ foundOf' = r.n /\ drawn' = (drawn \/ at = "discover")
  /\ UNCHANGED <<has, installed, deferred, at, visit, cardsOf, forms, title, calls, clicks,
                 fails, half>>

\* A failed GET: the visit that asked gives up, one that found the promise
\* there asks itself.
Failed(r) ==
  LET on == {w \in waits : w.n = r.n}
      others == {w \in waits : w.step = "installed" /\ w.get = r.n /\ w.n # r.n} IN
  /\ r \in reads /\ fails < MaxFails /\ fails' = fails + 1
  /\ waits' = (waits \ (on \cup others)) \cup {[w EXCEPT !.get = w.n] : w \in others}
  /\ reads' = (reads \ {r}) \cup {Read(w.n, "installed", "none") : w \in others}
  /\ deferred' = IF r.kind # "installed" THEN deferred
                 ELSE IF others # {}
                   THEN [get |-> CHOOSE n \in {w.n : w \in others} :
                                   \A w \in others : w.n <= n, state |-> "pending"]
                 ELSE IF deferred.get = r.n THEN [deferred EXCEPT !.state = "failed"] ELSE deferred
  /\ UNCHANGED <<has, installed, available, at, visit, drawn, Shown, title, calls, clicks, half>>

\* updateDiscoveredAddonsList on input of a search: the list is drawn anew.
Search(s) == /\ at = "discover" /\ visit < MaxVisits /\ (Hasty \/ Quiet)
             /\ s \subseteq DOMAIN available
             /\ visit' = visit + 1 /\ foundOf' = visit + 1
             /\ found' = [a \in s |-> IF available[a].installed THEN "added" ELSE "add"]
             /\ UNCHANGED <<has, Maps, at, drawn, waits, reads, cards, cardsOf, forms, title,
                            calls, clicks, fails, half>>

-----------------------------------------------------------------------------
(* What the user asks for.                                                 *)

Free(a) == Hasty \/ (reads = {} /\ \A c \in calls : c.addon # a)
Ask(do, a, value) ==
  /\ Free(a) /\ clicks < MaxClicks /\ clicks' = clicks + 1
  /\ calls' = calls \cup {[do |-> do, addon |-> a, n |-> visit, value |-> value, state |-> "sent"]}
  /\ UNCHANGED <<has, Maps, at, visit, drawn, waits, reads, cardsOf, foundOf, forms, title,
                 fails, half>>
Press(do, a, value) ==
  /\ at = "main" /\ a \in DOMAIN cards /\ do \notin cards[a].busy
  /\ Ask(do, a, value) /\ UNCHANGED found

\* handleToggle, handleRemove and handleUpdate of an InstalledAddon.
Toggle(a) == /\ Press("toggle", a, IF cards[a].enabled THEN <<0>> ELSE <<1>>)
             /\ cards' = [cards EXCEPT ![a].busy = @ \cup {"toggle"}]
Remove(a) == /\ Press("remove", a, No)
             /\ cards' = [cards EXCEPT ![a].busy = @ \cup {"remove"}]
Update(a) == /\ Press("update", a, cards[a].update)
             /\ cards[a].update # No /\ (Hasty \/ cards[a].enabled)
             /\ cards' = [cards EXCEPT ![a].update = No]

\* handleInstall of a DiscoveredAddon.
Install(a) == /\ at = "discover" /\ a \in DOMAIN found /\ found[a] = "add"
              /\ Ask("install", a, available[a].version)
              /\ found' = [found EXCEPT ![a] = "installing"]
              /\ UNCHANGED cards

\* handleApply of an AddonConfig.
Apply(a) == /\ at = "config" /\ a \in forms
            /\ Ask("config", a, No) /\ UNCHANGED <<cards, found>>

\* What the gateway makes of it.  An update of an add-on that is disabled takes
\* it from the list; an add-on that is not listed cannot be toggled.
Barred(c) == c.do = "toggle" /\ ~(c.addon \in DOMAIN has /\ has[c.addon].listed)
Made(c) ==
  LET a == c.addon
      kept == a \in DOMAIN has /\ has[a].enabled
      entry(v, on) == With(has, a, [version |-> v, enabled |-> on, listed |-> on]) IN
  CASE c.do = "install" -> entry(c.value, TRUE)
    [] c.do = "update"  -> entry(c.value, kept)
    [] c.do = "remove"  -> Without(has, a)
    [] c.do = "toggle"  -> IF Barred(c) THEN has
                           ELSE [has EXCEPT ![a].enabled = (c.value = <<1>>)]
    [] c.do = "config"  -> has
Gone(c, state) == /\ c \in calls /\ c.state = "sent"
                  /\ calls' = (calls \ {c}) \cup {[c EXCEPT !.state = state]}
                  /\ UNCHANGED <<Maps, at, visit, drawn, waits, reads, Shown, title, clicks>>
ServeCall(c) == /\ Gone(c, IF Barred(c) THEN "refused" ELSE "done")
                /\ has' = Made(c) /\ UNCHANGED <<fails, half>>

\* A request may fail after it was done in part: the setting is stored before
\* the add-on is loaded, the package there before it is.
RefuseCall(c) == /\ Gone(c, "refused") /\ fails < MaxFails /\ fails' = fails + 1
                 /\ has' \in {has, Made(c)} /\ half' = (half \/ has' # has)

-----------------------------------------------------------------------------
(* What the page makes of the answers.                                     *)

Mark(a, is) == IF a \in DOMAIN available THEN [available EXCEPT ![a].installed = is] ELSE available
Own(c) == c.n >= cardsOf /\ c.addon \in DOMAIN cards
Takes(c, do) == /\ c \in calls /\ c.do = do /\ c.state # "sent" /\ calls' = calls \ {c}
                /\ UNCHANGED <<has, deferred, forms, title, cardsOf, foundOf, clicks, fails, half>>
Stays == UNCHANGED <<at, visit, drawn, waits, reads>>

\* The card flips, and its entry in the map; without an entry its button is
\* left as it was.
Toggled(c) ==
  LET a == c.addon
      on == c.value = <<1>>
      ok == c.state = "done" IN
  /\ Takes(c, "toggle") /\ Stays /\ UNCHANGED <<available, found>>
  /\ installed' = IF ok /\ a \in DOMAIN installed
                  THEN [installed EXCEPT ![a].enabled = on] ELSE installed
  /\ cards' = IF ~Own(c) THEN cards
              ELSE [cards EXCEPT ![a].busy = @ \ {"toggle"},
                                 ![a].enabled = IF ok THEN on ELSE @,
                                 ![a].says = IF ok /\ a \in DOMAIN installed THEN on ELSE @]

\* The element is looked up by its name: without one, nothing more is done.
\* Faulty: its entry stays in the map.
FaultyRemoved(c) ==
  LET a == c.addon IN
  /\ Takes(c, "remove") /\ Stays /\ UNCHANGED <<found, installed>>
  /\ IF c.state = "done" /\ a \in DOMAIN cards
     THEN cards' = Without(cards, a) /\ available' = Mark(a, FALSE)
     ELSE UNCHANGED <<cards, available>>
Removed(c) ==
  LET a == c.addon IN
  /\ Takes(c, "remove") /\ Stays /\ UNCHANGED found
  /\ IF c.state = "done" /\ a \in DOMAIN cards
     THEN /\ cards' = Without(cards, a) /\ installed' = Without(installed, a)
          /\ available' = Mark(a, FALSE)
     ELSE /\ cards' = IF Own(c) THEN [cards EXCEPT ![a].busy = @ \ {"remove"}] ELSE cards
          /\ UNCHANGED <<installed, available>>

Updated(c) ==
  LET a == c.addon
      ok == c.state = "done" /\ a \in DOMAIN installed IN
  /\ Takes(c, "update") /\ Stays /\ UNCHANGED <<available, found>>
  /\ installed' = IF ok THEN [installed EXCEPT ![a].version = c.value] ELSE installed
  /\ cards' = IF ok /\ Own(c) THEN [cards EXCEPT ![a].version = c.value] ELSE cards

InstallEnds(c) ==
  LET a == c.addon
      ok == c.state = "done" IN
  /\ Takes(c, "install") /\ Stays /\ UNCHANGED cards
  /\ found' = IF c.n < foundOf \/ a \notin DOMAIN found THEN found
              ELSE [found EXCEPT ![a] = IF ok THEN "added" ELSE "failed"]
  /\ available' = IF ok THEN Mark(a, TRUE) ELSE available
  /\ installed' = IF ok THEN With(installed, a, [version |-> c.value, enabled |-> TRUE])
                  ELSE installed

\* The list of add-ons is shown once a configuration is stored, wherever the
\* user is by then.
Applied(c) ==
  /\ c \in calls /\ c.do = "config" /\ c.state # "sent"
  /\ calls' = calls \ {c}
  /\ IF c.state = "done" /\ visit < MaxVisits
     THEN /\ at' = "main" /\ visit' = visit + 1 /\ drawn' = FALSE
          /\ deferred' = [get |-> visit + 1, state |-> "pending"]
          /\ reads' = reads \cup {Read(visit + 1, "installed", "none")}
          /\ waits' = waits \cup {Waiting("main", "none", visit + 1, "installed")}
     ELSE UNCHANGED <<deferred, reads, waits>> /\ Stays
  /\ UNCHANGED <<has, installed, available, Shown, title, clicks, fails, half>>

Next == \/ ShowMain \/ ShowDiscover
        \/ \E r \in reads : \/ Serve(r) \/ Installed(r) \/ Available(r) \/ Configured(r)
                            \/ Failed(r)
        \/ \E s \in SUBSET Addon : Search(s)
        \/ \E a \in Addon : \/ ShowConfig(a) \/ Toggle(a) \/ Remove(a) \/ Update(a)
                            \/ Install(a) \/ Apply(a)
        \/ \E c \in calls : \/ ServeCall(c) \/ RefuseCall(c) \/ Toggled(c) \/ Removed(c)
                            \/ Updated(c) \/ InstallEnds(c) \/ Applied(c)

Spec == Init /\ [][Next]_vars

-----------------------------------------------------------------------------
(* A page whose list was drawn, with nothing under way, shows the          *)
(* gateway's add-ons: a card for each with its version and what its button *)
(* does, "added" for what is installed and for nothing else, an update     *)
(* only to a version that is newer.                                        *)
MainTells ==
  at = "main" /\ drawn =>
    /\ DOMAIN cards = DOMAIN has
    /\ \A a \in DOMAIN cards :
         /\ cards[a].version = has[a].version
         /\ cards[a].enabled = has[a].enabled /\ cards[a].says = has[a].enabled
         /\ cards[a].update # No => /\ cards[a].update # has[a].version
                                    /\ ~Older(cards[a].update, has[a].version)
DiscoverTells ==
  at = "discover" /\ drawn => \A a \in DOMAIN found : (found[a] = "added") <=> (a \in DOMAIN has)
ConfigTells == at = "config" /\ drawn => forms \subseteq {title}
PagesTell == Quiet /\ ~half => MainTells /\ DiscoverTells /\ ConfigTells
=============================================================================
