------------------------------ MODULE MCOverview -----------------------------
(***************************************************************************)
(* A thing as the gateway keeps it, and what the page in the browser knows *)
(* and shows: the gateway's things, one control of one property, the icon  *)
(* of one thing, the pages of MCPages, and what is around them (MCShell).  *)
(* The initial state picks one of these parts, and only that one moves.    *)
(***************************************************************************)
EXTENDS MCShell

CONSTANTS
  Returns, MaxChanges, MaxAsks, MaxLosses,      \* GatewayClient
  Least, Most, Multiple, None, MaxChoices, MaxVisits,             \* PropertyControls
  NoWord, MaxClicks, MaxPresses,                                  \* ThingIcons
  MaxTurns, MaxFaults, MaxRestarts                                \* ThingRecords

VARIABLES
  has, gone, layout, news, groupNews, ws, groupsWs, heard, shown, groups, born,
  queue, sent, reply, changes, asks, losses,
  detail, device, open, line, requests, known, page, control, timer, left, failed, strayed,
  choices, drifts, drops, visits,
  kind, found, value, told, model, icon, click, refused, press, turns, clicks, presses,
  objs, cur, row, files, made, writes, edits, seen, behind, cut, wishes, faults, restarts

Gateway  == INSTANCE GatewayClient
Controls == INSTANCE PropertyControls
  WITH ws <- open, open <- page, shown <- control, changes <- drifts, losses <- drops,
       MaxChanges <- 1, MaxLosses <- 1
Icons    == INSTANCE ThingIcons
  WITH line <- told, heard <- model, sent <- click, failed <- refused, changes <- turns,
       None <- NoWord
Records  == INSTANCE ThingRecords WITH MaxAsks <- MaxTurns, puts <- edits, asks <- wishes

ASSUME ShownAssumption == Controls!ControlsAssumption /\ Icons!IconsAssumption

gatewayVars == <<has, gone, layout, news, groupNews, ws, groupsWs, heard, shown, groups, born,
                 queue, sent, reply, changes, asks, losses>>
controlVars == <<detail, device, open, line, requests, known, page, control, timer, left, failed,
                 strayed, choices, drifts, drops, visits>>
iconVars    == <<kind, found, value, told, model, icon, click, refused, press, turns, clicks, presses>>
recordVars  == <<objs, cur, row, files, made, writes, edits, seen, behind, cut, wishes, faults,
                 restarts>>
overviewVars == <<part, gatewayVars, controlVars, iconVars, recordVars, pagesVars,
                 shellVars>>

OverviewInit ==
  /\ part \in {"gateway", "control", "icon", "record"} \cup PageParts \cup ShellParts
  /\ PagesInit /\ ShellInit
  /\ Gateway!Init
  /\ Controls!Init /\ (Reduced => device # Most)
  /\ Is("control") \/ (detail = First(Controls!Details) /\ device = First(Controls!Possible))
  /\ Icons!Init
  /\ Is("icon") \/ (kind = First(Icons!Classes) /\ found = {}
                    /\ value = [s \in Icons!Slot |-> IF s = "on" THEN "on" ELSE First(Icons!Number)])
  /\ Records!Init

OverviewNext ==
  /\ UNCHANGED part
  /\ \/ /\ part \notin PageParts \cup ShellParts /\ UNCHANGED <<pagesVars, shellVars>>
        /\ \/ Is("gateway") /\ UNCHANGED <<controlVars, iconVars, recordVars>> /\ Gateway!Next
           \/ Is("control") /\ UNCHANGED <<gatewayVars, iconVars, recordVars>> /\ Controls!Next
           \/ Is("icon") /\ UNCHANGED <<gatewayVars, controlVars, recordVars>> /\ Icons!Next
           \/ Is("record") /\ UNCHANGED <<gatewayVars, controlVars, iconVars>> /\ Records!Next
     \/ /\ part \in PageParts
        /\ UNCHANGED <<gatewayVars, controlVars, iconVars, recordVars, shellVars>> /\ PagesNext
     \/ /\ part \in ShellParts
        /\ UNCHANGED <<gatewayVars, controlVars, iconVars, recordVars, pagesVars>> /\ ShellNext

OverviewSpec == OverviewInit /\ [][OverviewNext]_overviewVars

-----------------------------------------------------------------------------
(* The properties, stated and explained in the modules they come from.     *)

\* The page shows the gateway's things and groups, and is sent their events (GatewayModel,
\* ThingModel.initWebSocket).
InStep == Gateway!InStep
\* A control shows the device's value (ThingModel.onPropertyStatus), and an icon what was heard
\* last (components/capability).
DeviceShown == Controls!ShowsDevice /\ Icons!IconFollows
\* A thing's row, its icon and what clients know of it follow its object (Thing, Database.updateThing).
RecordKept == Records!RecordKept
=============================================================================
