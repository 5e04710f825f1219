------------------------------- MODULE MCShell -------------------------------
(***************************************************************************)
(* What is around the pages of MCPages: the views and extensions the web   *)
(* interface switches between, its message area, the overview of the       *)
(* things, whose tiles are dragged, the page of it that is shown, and the  *)
(* floorplan.  As in MCPages, `part` says which of them is looked at.      *)
(***************************************************************************)
EXTENDS MCPages

CONSTANTS
  Tile, Group, NoGroup, MaxMoves, MaxFailures,                    \* ThingsPage
  Extension, Listed, Missing, Views, Home, MaxOpens,               \* AppViews
  Thing, MaxEvents,                                               \* MessageArea
  MaxAddresses, MaxNews,                                          \* ThingsScreen
  Point, MaxDrops, MaxTouches, MaxUpsets                          \* Floorplan

VARIABLES
  kept, listens, drags, notices, job, read, groupOf, indices, dom, dropped, adrift, failures,
  views, current, displayed, active, item, extensions, context, loading, checks, opens,
  place, connected, pages, area, pings, status, overlay, events,
  exists, learned, jobs, stuck, follows, shows, address, strange, addresses, tidings,
  stands, placed, listing, spots, plan, editing, grabbed, armed, ticking, shifts, word, upsets,
  touches, adrifting, fetched, lost, clicked

Dragging == INSTANCE ThingsPage
  WITH Thing <- Tile, calls <- drags, news <- notices, model <- groupOf, drawn <- indices
Shell    == INSTANCE AppViews WITH View <- Views, First <- Home
Messages == INSTANCE MessageArea
  WITH MaxFailures <- 3, at <- place, failed <- pings
Screen   == INSTANCE ThingsScreen
  WITH MaxVisits <- MaxAddresses, known <- learned, queue <- jobs, drawn <- shows, at <- address,
       visits <- addresses, news <- tidings
Plan     == INSTANCE Floorplan
  WITH MaxPresses <- MaxTouches, MaxEvents <- MaxUpsets, exists <- stands, kept <- placed,
       order <- listing, nodes <- plan, edit <- editing, selected <- grabbed, timers <- ticking,
       calls <- shifts, news <- word, events <- upsets, presses <- touches, adrift <- adrifting,
       alone <- fetched, gone <- lost

ASSUME AroundAssumption ==
  /\ Dragging!ThingsPageAssumption /\ Shell!AppViewsAssumption
  /\ Plan!FloorplanAssumption /\ Messages!MessageAreaAssumption

draggingVars == <<kept, listens, drags, notices, job, read, groupOf, indices, dom, dropped, adrift,
                  failures>>
viewsVars    == <<views, current, displayed, active, item, extensions, context, loading, checks,
                  opens>>
messagesVars == <<place, connected, pages, area, pings, status, overlay, events>>
screenVars   == <<exists, learned, jobs, stuck, follows, shows, address, strange, addresses,
                  tidings>>
planVars     == <<stands, placed, listing, spots, plan, editing, grabbed, armed, ticking, shifts,
                  word, upsets, touches, adrifting, fetched, lost, clicked>>
shellVars    == <<draggingVars, viewsVars, messagesVars, screenVars, planVars>>

ShellParts == {"views", "dragging", "messages", "screen", "plan"}

First(S) == CHOOSE x \in S : TRUE

\* With Reduced: some tile is in no group, and all are where a page is not told of changes; of two
\* things, which are alike, the first is there if any is; and the things on the plan are at one point,
\* or were never placed.
ShellBegins == /\ kept.of[NoGroup] # <<>>
               /\ listens \/ Len(kept.of[NoGroup]) = Cardinality(Tile)
               /\ exists = {} \/ First(Thing) \in exists
               /\ stands = {} \/ First(Thing) \in stands
               /\ \A t \in stands : placed[t] \in {Plan!Unplaced, First(Point)}

ShellInit ==
  /\ Shell!Init
  /\ Dragging!Init
  /\ Is("dragging") \/ (listens /\ Len(kept.of[NoGroup]) = Cardinality(Tile))
  /\ Messages!Init
  /\ Is("messages") \/ \A t \in Thing : connected[t]
  /\ Screen!Init
  /\ Is("screen") \/ exists = {}
  /\ Plan!Init
  /\ Is("plan") \/ stands = {}
  /\ Reduced => ShellBegins

ShellNext ==
  \/ /\ UNCHANGED planVars
     /\ \/ Is("views") /\ UNCHANGED <<draggingVars, messagesVars, screenVars>> /\ Shell!Next
        \/ Is("dragging") /\ UNCHANGED <<viewsVars, messagesVars, screenVars>> /\ Dragging!Next
        \/ Is("messages") /\ UNCHANGED <<draggingVars, viewsVars, screenVars>> /\ Messages!Next
        \/ Is("screen") /\ UNCHANGED <<draggingVars, viewsVars, messagesVars>> /\ Screen!Next
  \/ Is("plan") /\ UNCHANGED <<draggingVars, viewsVars, messagesVars, screenVars>> /\ Plan!Next

\* What is around the pages by itself, whichever part of it moves at a time.
ShellSpec == ShellInit /\ [][ShellNext]_shellVars

-----------------------------------------------------------------------------
(* The properties, stated and explained in the modules they come from.     *)

\* What is dragged goes where the page shows it (ThingsScreen.handleDrop), the page shows the
\* thing or the list whose address is open (ThingsScreen.showThing), and the plan shows things
\* where they are (FloorplanScreen.refreshThings, onPointerUp).
InPlace == Dragging!InPlace /\ Screen!ShowsWhatIsOpen /\ Plan!PlanHolds
\* One view is seen and no other goes on working (App.selectView), and messages are seen as long
\* as they should be (App.showMessage).
ShellTells == Shell!OneViewIsShown /\ Messages!MessagesKept
=============================================================================
