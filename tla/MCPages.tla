------------------------------- MODULE MCPages -------------------------------
(***************************************************************************)
(* The pages on which things are added, add-ons, users and settings are    *)
(* seen to.  One page is shown at a time, and they share no state but the  *)
(* gateway's, of which each has another part: `part` says which is looked  *)
(* at.                                                                     *)
(***************************************************************************)
EXTENDS Integers, Sequences, FiniteSets

CONSTANTS
  Device, NeedsPin, NeedsLogin, Web, MaxShows, MaxTries,          \* NewThings
  Addon, MaxPages, MaxCalls, MaxFails,                            \* AddonPages
  User, Me, Newcomer, MaxForms,                                   \* UserForms
  MaxSteps,                                                       \* SettingsForms
  Overtakes, Hasty,
  Reduced            \* bound: whether some initial states are left out, see PagesBegin, ShellBegins

VARIABLES
  part,
  actions, session, announced, stored, connecting, listening, finds, posts, adding, entry,
  socket, actionUrl, timeout, timers, visible, offers, tries,
  store, installed, available, deferred, screen, turn, drawn, waits, reads, cards, cardsOf,
  wares, waresOf, forms, title, calls, taps, fails, half,
  accounts, factor, clients, where, listed, id, fields, filled, blocked, checked, asking,
  renews, codes, items, gets, call, out, steps,
  settings, up, run, updating, at, form, stale, fetches, puts, polls, load, from, moves

\* Two lists on offer: one has a newer version of what is installed, and of
\* the other add-on a version that is newer only if it is read as numbers.
OnOffer == {[a \in {"a1", "a2"} |-> IF a = "a1" THEN <<1, 2>> ELSE <<1, 10>>],
            [a \in {"a2"} |-> <<1, 9>>]}
AtFirst == [a \in {"a1"} |-> <<1, 1>>]

\* The clients the user has authorized.
Allowed == <<"c1", "c2">>

Adding   == INSTANCE NewThings
  WITH news <- finds, calls <- posts, shown <- adding, visit <- entry, cards <- offers
Addons   == INSTANCE AddonPages
  WITH Lists <- OnOffer, First <- AtFirst, MaxVisits <- MaxPages, MaxClicks <- MaxCalls,
       has <- store, at <- screen, visit <- turn, found <- wares, foundOf <- waresOf, clicks <- taps
Users    == INSTANCE UserForms
  WITH New <- Newcomer, Client <- Allowed, MaxSteps <- MaxForms, rows <- accounts, at <- where
Settings == INSTANCE SettingsForms
  WITH has <- settings, gets <- fetches, steps <- moves

ASSUME PagesAssumption ==
  Adding!NewThingsAssumption /\ Addons!AddonPagesAssumption /\ Users!UserFormsAssumption

addingVars   == <<actions, session, announced, stored, connecting, listening, finds, posts, adding,
                  entry, socket, actionUrl, timeout, timers, visible, offers, tries>>
addonsVars   == <<store, installed, available, deferred, screen, turn, drawn, waits, reads, cards,
                  cardsOf, wares, waresOf, forms, title, calls, taps, fails, half>>
usersVars    == <<accounts, factor, clients, where, listed, id, fields, filled, blocked, checked,
                  asking, renews, codes, items, gets, call, out, steps>>
settingsVars == <<settings, up, run, updating, at, form, stale, fetches, puts, polls, load, from,
                  moves>>
pagesVars    == <<addingVars, addonsVars, usersVars, settingsVars>>

Is(p) == part = p
PageParts == {"adding", "addons", "users", "settings"}

\* With Reduced: two of the four states of these settings, which are on pages of their own.
PagesBegin == settings.mdns = 1 <=> settings.lan = "dhcp"

PagesInit ==
  /\ Adding!Init /\ Addons!Init /\ Users!Init /\ Settings!Init
  /\ Is("settings") \/ (settings.mdns = 1 /\ settings.lan = "dhcp")
  /\ Reduced => PagesBegin

PagesNext ==
  \/ Is("adding") /\ UNCHANGED <<addonsVars, usersVars, settingsVars>> /\ Adding!Next
  \/ Is("addons") /\ UNCHANGED <<addingVars, usersVars, settingsVars>> /\ Addons!Next
  \/ Is("users") /\ UNCHANGED <<addingVars, addonsVars, settingsVars>> /\ Users!Next
  \/ Is("settings") /\ UNCHANGED <<addingVars, addonsVars, usersVars>> /\ Settings!Next

\* The pages by themselves, whichever of them moves at a time.
PagesSpec == PagesInit /\ [][PagesNext]_pagesVars

-----------------------------------------------------------------------------
(* The properties, stated and explained in the modules they come from.     *)

\* A visit to the screen of new things leaves nothing behind, and is not disturbed by another
\* (AddThingScreen.requestCancelPairing).
VisitsKeptApart == Adding!VisitsKeptApart
\* The pages of the add-ons show what the gateway has (SettingsScreen.installedAddons).
PagesTell == Addons!PagesTell
\* No user is given what was meant for another (SettingsScreen.showEditUserScreen); what settings
\* show is the gateway's, what they send is valid (SettingsScreen).
FormsTell == Users!UsersKeptApart /\ Settings!SettingsTell
=============================================================================
