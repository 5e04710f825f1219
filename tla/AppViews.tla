------------------------------- MODULE AppViews -------------------------------
(***************************************************************************)
(* The views of the web interface, and the extensions among them.  An      *)
(* extension of an add-on registers when its script has run, and is shown  *)
(* when its load() has ended, which may be long after its address was      *)
(* opened, and after others were.                                          *)
(* Models static/js/app.js (views), router.js, extension.js, views/menu.js.*)
(***************************************************************************)
EXTENDS Naturals, FiniteSets

CONSTANTS
  Extension,  \* the extensions the gateway has
  Listed,     \* those that add an entry to the menu
  Missing,    \* another id, which an address may name
  View,       \* the other views
  First,      \* the one of them that is shown at first
  MaxOpens    \* bound: addresses opened

VARIABLES
  views,      \* the views that are not hidden
  current,    \* App.currentView
  displayed,  \* App.displayedExtension
  active,     \* extensions told to show themselves, and not to hide since
  item,       \* Menu.currentItem
  extensions, \* App.extensions
  context,    \* App.requestedContext
  loading,    \* promises of load() under way: how many of each extension
  checks,     \* getExtensions that ask whether there is such an extension
  opens

vars == <<views, current, displayed, active, item, extensions, context, loading, checks, opens>>

Nothing == "none"
Id == Extension \cup {Missing}
AppViewsAssumption == /\ First \in View /\ Listed \subseteq Extension
                      /\ Missing \notin Extension /\ Nothing \notin Id \cup View
                      /\ View \cap Id = {}

\* Views, extensions and what is waited for.
TypeOK == /\ views \subseteq View \cup Extension /\ current \in View \cup Extension
          /\ displayed \in Extension \cup {Nothing} /\ active \subseteq Extension
          /\ item \in View \cup Listed /\ extensions \subseteq Extension
          /\ context \in Extension \cup {Nothing}
          /\ loading \in [Extension -> Nat] /\ checks \in [Id -> Nat]
          /\ opens \in 0 .. MaxOpens

Init == /\ views = {First} /\ current = First /\ item = First
        /\ displayed = Nothing /\ active = {} /\ extensions = {} /\ context = Nothing
        /\ loading = [x \in Extension |-> 0] /\ checks = [x \in Id |-> 0]
        /\ opens = 0

-----------------------------------------------------------------------------
\* The extension that was displayed is told to hide, whichever is to be shown.
\* Faulty: only when the next view is none of an extension.
FaultyHidden(v, on) == IF v \in Extension THEN on ELSE on \ {displayed}
Hidden(v, on) == on \ {displayed}

\* An extension that adds no entry leaves the menu as it is.
SelectItem(v) == item' = IF v \in View \cup Listed THEN v ELSE item

\* App.selectView; `on` are the active extensions.
SelectView(v, on) ==
  /\ views' = (views \ {current}) \cup {v}
  /\ current' = v
  /\ active' = Hidden(v, on)
  /\ displayed' = IF v \in Extension THEN v ELSE Nothing
  /\ SelectItem(v)

\* The address of a view is opened: showThings, showSettings, ...
Show(v) == /\ opens < MaxOpens /\ opens' = opens + 1
           /\ SelectView(v, active)
           /\ UNCHANGED <<extensions, context, loading, checks>>

\* App.showExtension: if the extension is there it is loaded first; if it is
\* not, the gateway is asked whether there is one.
ShowExtension(x, known) ==
  IF x \in known THEN loading' = [loading EXCEPT ![x] = @ + 1] /\ UNCHANGED checks
  ELSE checks' = [checks EXCEPT ![x] = @ + 1] /\ UNCHANGED loading

Open(x) == /\ opens < MaxOpens /\ opens' = opens + 1
           /\ ShowExtension(x, extensions)
           /\ UNCHANGED <<views, current, displayed, active, item, extensions, context>>

\* load() has ended: the extension is shown wherever the user is by now.
Loaded(x) == /\ loading[x] > 0
             /\ loading' = [loading EXCEPT ![x] = @ - 1]
             /\ SelectView(x, active \cup {x})
             /\ UNCHANGED <<extensions, context, checks, opens>>
\* It fails: nobody hears of it.
LoadFails(x) == /\ loading[x] > 0
                /\ loading' = [loading EXCEPT ![x] = @ - 1]
                /\ UNCHANGED <<views, current, displayed, active, item, extensions, context,
                               checks, opens>>

\* The gateway's answer: the address waits for the extension's script, or the
\* things are shown; they are too if the request fails.
Checked(x) == /\ checks[x] > 0
              /\ checks' = [checks EXCEPT ![x] = @ - 1]
              /\ \/ /\ x \in Extension
                    /\ context' = x
                    /\ UNCHANGED <<views, current, displayed, active, item>>
                 \/ SelectView(First, active) /\ UNCHANGED context
              /\ UNCHANGED <<extensions, loading, opens>>

\* The script of an extension has run, and its constructor registers it.
RegisterExtension(x) ==
  /\ x \notin extensions
  /\ extensions' = extensions \cup {x}
  /\ IF context = x THEN context' = Nothing /\ ShowExtension(x, extensions')
     ELSE UNCHANGED <<context, loading, checks>>
  /\ UNCHANGED <<views, current, displayed, active, item, opens>>

Next == \/ \E v \in View : Show(v)
        \/ \E x \in Id : Open(x) \/ Checked(x)
        \/ \E x \in Extension : Loaded(x) \/ LoadFails(x) \/ RegisterExtension(x)

Spec == Init /\ [][Next]_vars

-----------------------------------------------------------------------------
\* However loads and addresses overtake one another, one view is to be seen, the menu marks it
\* unless it has no entry, and no extension goes on working behind another view: whichever was
\* shown last has been told to hide (selectView, showExtension).
OneViewIsShown ==
  /\ views = {current}
  /\ item = current \/ current \in Extension \ Listed
  /\ displayed = (IF current \in Extension THEN current ELSE Nothing)
  /\ active \subseteq {displayed}
=============================================================================
