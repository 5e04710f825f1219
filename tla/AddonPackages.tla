--------------------------- MODULE AddonPackages ---------------------------
(***************************************************************************)
(* The package of one add-on: how requests install, update and remove it,  *)
(* enable, disable and configure it, each in a row of awaits of which any  *)
(* may fail: the download, the files and the statements of the settings;   *)
(* what a crash of the server leaves behind; and the script that updates   *)
(* the packages while the server is down.                                  *)
(*                                                                         *)
(* What a process does between loading and unloading is AddonLifecycle's   *)
(* subject; here it runs, and what it was started from matters.            *)
(***************************************************************************)
EXTENDS Naturals, FiniteSets

CONSTANTS
  Version,      \* packages that can be downloaded
  Loadable,     \* those whose manifest is right
  MaxRequests,  \* bound: requests
  MaxCrashes,   \* bound: crashes of the server, or of the script
  Settled       \* whether a request waits for the answer to the one before

\* What the constants must be.
PackagesAssumption ==
  /\ MaxRequests \in Nat /\ MaxCrashes \in Nat
  /\ Loadable \subseteq Version /\ Version \cap {"none", "partial"} = {}

Request == 1 .. MaxRequests
Kinds == {"install", "update", "uninstall", "enable", "disable", "configure", "boot", "script"}
Installing == {"install", "update", "script"}

\* A manifest as far as it matters: NoManifest is no row or no entry, and "none" the version
\* of a row that is written before its manifest was read.
NoManifest == [version |-> "none", enabled |-> FALSE, there |-> FALSE]
Manifest(v, e) == [version |-> v, enabled |-> e, there |-> TRUE]

VARIABLES
  disk,       \* the directory of the package: a version, "none", or "partial"
  setting,    \* the row addons.<id> of the settings
  installed,  \* the entry in AddonManager.installedAddons
  plugin,     \* what the process was started from, or "none"
  leaving,    \* the process is asked to leave, and nobody waits for it
  up,         \* the server is up, that is AddonManager.addonsLoaded
  job,        \* per request [kind, at, version, obj]: the await it is in, the package it
              \* installs, the manifest in its hands
  crashes,    \* the number of crashes
  choice,     \* history: "on" or "off" as the last request about it was answered, or "open"
              \* while none is, and once a load could not read the setting
  slipped     \* history: a statement of the settings has failed, or nothing could be removed,
              \* and nothing has been loaded, disabled or uninstalled to the end since

vars == <<disk, setting, installed, plugin, leaving, up, job, crashes, choice, slipped>>

At == {"new", "fetching", "unloading", "removing", "copying", "moving", "reading", "writing",
       "loading", "asking", "saving", "starting", "done", "failed", "lost"}
SomeManifest == [version : Version \union {"none"}, enabled : BOOLEAN, there : BOOLEAN]

\* What the server, the disk and the settings hold, and its range.
TypeOK ==
  /\ disk \in Version \union {"none", "partial"}
  /\ setting \in SomeManifest
  /\ installed \in SomeManifest
  /\ plugin \in Version \union {"none", "partial"}
  /\ leaving \in BOOLEAN
  /\ up \in BOOLEAN
  /\ job \in [0 .. MaxRequests -> [kind : Kinds, at : At, version : Version \union {"none"},
                                   obj : SomeManifest]]
  /\ crashes \in 0 .. MaxCrashes
  /\ choice \in {"on", "off", "open"}
  /\ slipped \in BOOLEAN

NewJob(kind, at, v) == [kind |-> kind, at |-> at, version |-> v, obj |-> NoManifest]

\* The server starts, with the package or without. Job 0 is what start-up does itself.
Init ==
  /\ disk \in {"none"} \union Loadable
  /\ setting \in IF disk = "none" THEN {NoManifest} ELSE {Manifest(disk, e) : e \in BOOLEAN}
  /\ installed = NoManifest
  /\ plugin = "none"
  /\ leaving = FALSE
  /\ up = TRUE
  /\ job = [r \in 0 .. MaxRequests |->
             IF r = 0 THEN NewJob("boot", IF disk = "none" THEN "done" ELSE "loading", "none")
             ELSE NewJob("update", "new", "none")]
  /\ crashes = 0
  /\ choice = "open"
  /\ slipped = FALSE

-----------------------------------------------------------------------------
(* Requests.                                                               *)

Open == {r \in 0 .. MaxRequests : job[r].at \notin {"new", "done", "failed", "lost"}}

Comes(r) ==
  /\ job[r].at = "new" /\ \A q \in Request : q < r => job[q].at # "new"
  /\ Settled => Open = {} /\ ~leaving

\* A request goes on, or ends and has nothing in hand any more.
Goes(r, at) ==
  job' = [job EXCEPT ![r] = IF at \in {"done", "failed"} THEN NewJob(job[r].kind, at, "none")
                            ELSE [job[r] EXCEPT !.at = at]]
Holds(r, at, obj) == job' = [job EXCEPT ![r].at = at, ![r].obj = obj]
Slips(r) == Goes(r, "failed") /\ slipped' = TRUE

\* POST installs a package and enables it, PATCH updates it.
BeginInstall(r, kind, v) ==
  /\ Comes(r) /\ up
  /\ kind = "install" \/ disk # "none"
  /\ job' = [job EXCEPT ![r] = NewJob(kind, "fetching", v)]
  /\ choice' = IF kind = "install" THEN "open" ELSE choice
  /\ UNCHANGED <<disk, setting, installed, plugin, leaving, up, crashes, slipped>>

\* updateAddons, which a script calls before the server is started, installs what has a newer
\* version, and neither enables nor loads it.
BeginScript(r, v) ==
  /\ Comes(r) /\ ~up
  /\ disk # "none"
  /\ job' = [job EXCEPT ![r] = NewJob("script", "fetching", v)]
  /\ UNCHANGED <<disk, setting, installed, plugin, leaving, up, crashes, choice, slipped>>

\* DELETE does not wait for the process.
BeginUninstall(r) ==
  /\ Comes(r) /\ up
  /\ job' = [job EXCEPT ![r] = NewJob("uninstall", "removing", "none")]
  /\ leaving' = (plugin # "none")
  /\ choice' = "open"
  /\ UNCHANGED <<disk, setting, installed, plugin, up, crashes, slipped>>

\* PUT enables or disables what is installed, and is refused otherwise. The entry is changed
\* before the setting is written.
BeginToggle(r, kind) ==
  /\ Comes(r) /\ up
  /\ installed.there
  /\ installed' = Manifest(installed.version, kind = "enable")
  /\ job' = [job EXCEPT ![r] = [NewJob(kind, "writing", "none") EXCEPT !.obj = installed']]
  /\ choice' = "open"
  /\ UNCHANGED <<disk, setting, plugin, leaving, up, crashes, slipped>>

\* PUT of a configuration, which is written first; when that fails, nothing else is done.
BeginConfigure(r) ==
  /\ Comes(r) /\ up
  /\ job' = [job EXCEPT ![r] = NewJob("configure", "unloading", "none")]
  /\ UNCHANGED <<disk, setting, installed, plugin, leaving, up, crashes, choice, slipped>>

-----------------------------------------------------------------------------
(* The awaits of a request, in the order they come.                        *)

\* The package is downloaded, its checksum is right and it is unpacked, or it is not.
Fetched(r) ==
  /\ job[r].at = "fetching"
  /\ Goes(r, "unloading") \/ Goes(r, "failed")
  /\ UNCHANGED <<disk, setting, installed, plugin, leaving, up, crashes, choice, slipped>>

\* unloadAddon with wait has let the process end, or has killed it.
Unloaded(r) ==
  LET kind == job[r].kind IN
  /\ job[r].at = "unloading"
  /\ plugin' = "none"
  /\ leaving' = FALSE
  /\ \/ kind \in Installing /\ Goes(r, "removing") /\ UNCHANGED <<choice, slipped>>
     \/ kind = "disable" /\ Goes(r, "done") /\ choice' = "off" /\ slipped' = FALSE
     \/ kind = "configure" /\ UNCHANGED <<choice, slipped>>
        /\ Goes(r, IF installed.there /\ installed.enabled THEN "loading" ELSE "done")
  /\ UNCHANGED <<disk, setting, installed, up, crashes>>

\* The process of a package that was deleted ends, or is killed.
Left ==
  /\ leaving
  /\ leaving' = FALSE
  /\ plugin' = "none"
  /\ UNCHANGED <<disk, setting, installed, up, job, crashes, choice, slipped>>

\* rimraf is at it.
Removing(r) ==
  /\ job[r].at = "removing" /\ disk \notin {"none", "partial"}
  /\ disk' = "partial"
  /\ UNCHANGED <<setting, installed, plugin, leaving, up, job, crashes, choice, slipped>>

\* rimraf is done, or it failed, with a part of the files removed or with none.
Removed(r) ==
  LET replaced == job[r].kind \in Installing IN
  /\ job[r].at = "removing"
  /\ \/ /\ disk \in {"none", "partial"}
        /\ disk' = "none"
        /\ Goes(r, IF replaced THEN "copying" ELSE "reading")
        /\ installed' = IF replaced THEN NoManifest ELSE installed
        /\ slipped' = slipped
     \/ disk = "partial" /\ Goes(r, "failed") /\ UNCHANGED <<disk, installed, slipped>>
     \/ disk \notin {"none", "partial"} /\ Slips(r) /\ UNCHANGED <<disk, installed>>
  /\ UNCHANGED <<setting, plugin, leaving, up, crashes, choice>>

\* ncp puts the first files in place.
Copying(r) ==
  /\ job[r].at = "copying"
  /\ disk' = "partial"
  /\ Goes(r, "moving")
  /\ UNCHANGED <<setting, installed, plugin, leaving, up, crashes, choice, slipped>>

\* It has put them all there, or stopped with an error.
Copied(r) ==
  /\ job[r].at = "moving"
  /\ \/ disk' = job[r].version /\ Goes(r, "reading")
     \/ disk' = disk /\ Goes(r, "failed")
  /\ UNCHANGED <<setting, installed, plugin, leaving, up, crashes, choice, slipped>>

\* What installAddon makes of the setting: "only enable if we're supposed to".
Enables(kind) == kind = "install" \/ setting.enabled

\* The setting is read. Of a package that is deleted and has none, nothing is to be written.
Read(r) ==
  LET kind == job[r].kind IN
  /\ job[r].at = "reading"
  /\ IF kind = "uninstall" /\ ~setting.there
     THEN Goes(r, "done") /\ installed' = NoManifest /\ choice' = "off" /\ slipped' = FALSE
     ELSE /\ Holds(r, "writing", Manifest(setting.version, kind # "uninstall" /\ Enables(kind)))
          /\ UNCHANGED <<installed, choice, slipped>>
  /\ UNCHANGED <<disk, setting, plugin, leaving, up, crashes>>

\* The setting is written.
Written(r) ==
  LET kind == job[r].kind
      loads == kind = "enable" \/ (kind \in {"install", "update"} /\ job[r].obj.enabled) IN
  /\ job[r].at = "writing"
  /\ setting' = job[r].obj
  /\ Goes(r, IF loads THEN "loading" ELSE IF kind = "disable" THEN "unloading" ELSE "done")
  /\ IF kind = "uninstall"
     THEN installed' = NoManifest /\ choice' = "off" /\ slipped' = FALSE
     ELSE UNCHANGED <<installed, choice, slipped>>
  /\ UNCHANGED <<disk, plugin, leaving, up, crashes>>

\* A statement of the settings fails, and with it the request: what it did before stays done.
\* (The one that asks a load whether the add-on is enabled is SettingRead's.)
StatementFails(r) ==
  /\ job[r].at \in {"reading", "writing", "saving", "starting"}
  /\ Slips(r)
  /\ UNCHANGED <<disk, setting, installed, plugin, leaving, up, crashes, choice>>

-----------------------------------------------------------------------------
(* loadAddon.                                                              *)

\* loadManifest: manifest.json is there and right, and no file that SHA256SUMS names is
\* missing or different.
ManifestRight == disk \in Loadable

ReadManifest(r) ==
  /\ job[r].at = "loading"
  /\ IF ManifestRight
     THEN Holds(r, "asking", Manifest(IF disk = "partial" THEN "none" ELSE disk, FALSE))
     ELSE Goes(r, "failed")
  /\ UNCHANGED <<disk, setting, installed, plugin, leaving, up, crashes, choice, slipped>>

\* The saved setting decides whether it is enabled. When there is none, or it cannot be read,
\* the error is dropped and it is as the package itself says, and saved like that.
SettingRead(r) ==
  /\ job[r].at = "asking"
  /\ \/ /\ setting.there
        /\ Holds(r, "saving", Manifest(job[r].obj.version, setting.enabled))
        /\ UNCHANGED <<choice, slipped>>
     \/ /\ \E e \in BOOLEAN : Holds(r, "saving", Manifest(job[r].obj.version, e))
        /\ choice' = "open" /\ slipped' = TRUE
  /\ UNCHANGED <<disk, setting, installed, plugin, leaving, up, crashes>>

ManifestSaved(r) ==
  /\ job[r].at = "saving"
  /\ setting' = job[r].obj
  /\ installed' = job[r].obj
  /\ Goes(r, "starting")
  /\ UNCHANGED <<disk, plugin, leaving, up, crashes, choice, slipped>>

\* Faulty: whether it is enabled is not looked at.
FaultyStarted(r) ==
  /\ job[r].at = "starting"
  /\ plugin' = disk /\ Goes(r, "done")
  /\ UNCHANGED <<disk, setting, installed, leaving, up, crashes, choice, slipped>>

\* The configuration is read, and written when there was none; then the process is started.
Started(r) ==
  /\ job[r].at = "starting"
  /\ IF job[r].obj.enabled
     THEN plugin' = disk /\ Goes(r, "done")
     ELSE plugin' = plugin /\ Goes(r, "failed")
  /\ choice' = IF job[r].kind \in {"enable", "install"} /\ job[r].obj.enabled THEN "on" ELSE choice
  /\ slipped' = (slipped /\ ~job[r].obj.enabled /\ plugin # "none")
  /\ UNCHANGED <<disk, setting, installed, leaving, up, crashes>>

-----------------------------------------------------------------------------
(* Crash and restart.                                                      *)

\* The server, or the script, is gone, and its requests and processes with it.
Crash ==
  /\ crashes < MaxCrashes
  /\ crashes' = crashes + 1
  /\ up' = FALSE
  /\ job' = [r \in DOMAIN job |-> IF r \in Open THEN NewJob(job[r].kind, "lost", "none") ELSE job[r]]
  /\ installed' = NoManifest /\ plugin' = "none" /\ leaving' = FALSE
  /\ UNCHANGED <<disk, setting, choice, slipped>>

\* loadAddons loads what has a directory. The script has ended by then.
Boot ==
  /\ ~up /\ Open = {}
  /\ up' = TRUE
  /\ job' = [job EXCEPT ![0] = NewJob("boot", IF disk = "none" THEN "done" ELSE "loading", "none")]
  /\ installed' = NoManifest
  /\ slipped' = FALSE
  /\ UNCHANGED <<disk, setting, plugin, leaving, crashes, choice>>

Step(r) ==
  \/ Fetched(r) \/ Unloaded(r) \/ Removing(r) \/ Removed(r) \/ Copying(r) \/ Copied(r)
  \/ Read(r) \/ Written(r) \/ StatementFails(r)
  \/ ReadManifest(r) \/ SettingRead(r) \/ ManifestSaved(r) \/ Started(r)

Next ==
  \/ \E r \in Request, v \in Version :
       BeginInstall(r, "install", v) \/ BeginInstall(r, "update", v) \/ BeginScript(r, v)
  \/ \E r \in Request, kind \in {"enable", "disable"} : BeginToggle(r, kind)
  \/ \E r \in Request : BeginUninstall(r) \/ BeginConfigure(r)
  \/ \E r \in 0 .. MaxRequests : Step(r)
  \/ Left \/ Crash \/ Boot

Spec == Init /\ [][Next]_vars

-----------------------------------------------------------------------------
(* Properties.                                                             *)

\* What runs was started from a whole package, and the package is still there, whatever step
\* of an installation failed and wherever the server was stopped (addon-utils.ts 158-217).
RunsWhole == plugin # "none" => plugin \in Loadable /\ (leaving \/ disk = plugin)

\* An add-on stays enabled or disabled as it was last answered, through updates, failures and
\* restarts, unless a load could not read the setting and saved another. And when all is quiet,
\* it runs if and only if it is enabled and can be loaded, unless a statement of the settings or
\* the removal of the whole directory has failed and no step since has put that right
\* (addon-manager.ts 583-640, 1100-1123, 1154-1170).
ServedAsChosen ==
  /\ choice # "open" /\ setting.there => setting.enabled = (choice = "on")
  /\ up /\ Open = {} /\ ~leaving /\ ~slipped =>
       IF setting.enabled /\ disk \in Loadable
       THEN plugin = disk /\ installed = setting
       ELSE plugin = "none"

\* An add-on runs from a whole package, and as it was asked to.
RunsAsChosen == RunsWhole /\ ServedAsChosen
=============================================================================
