------------------------------ MODULE MCServices ------------------------------
(***************************************************************************)
(* Eight parts of the gateway that share no state, checked in one run: the *)
(* restart of an add-on's process, the packages of add-ons, the first      *)
(* start, the network, the tunnel, the accounts, the arrangement of        *)
(* things and that of groups.  The initial state picks a part, and only    *)
(* that part moves.                                                        *)
(***************************************************************************)
EXTENDS RestartBackoff, SequencesExt

CONSTANTS
  Version, Loadable, MaxJobs, MaxCrashes, Settled,            \* AddonPackages
  MaxStarts, MaxPosts,                                        \* WiFiSetup
  LanSetting, BadSetting, Ssid, Hidden, Name, MaxQuality, MaxSeen, MaxChanges,
  MaxCerts, MaxServers, MaxSubmits,                           \* TunnelCertificates
  User, Client, Registered, Value, Unset, Session, MaxTokens, MaxRequests,
                                                              \* AccountRecords
  Item, Group, NoGroup, Undefined, MaxMoves,                  \* ThingLayout
  Bundle, MaxOrders,                                          \* GroupOrder
  Reduced            \* bound: whether the initial states are those of Begins only

VARIABLES
  part,
  package, packageRow, installed, plugin, leaving, loaded, job, crashes, choice, slipped,
  ap, dhcp, net, skip, lan, phase, failed, posts, starts, posted,
  stored, active, air, name, lapsed, listed, change,
  disk, token, notunnel, up, server, serves, handle, tunnel, connected, submits,
  renewal, due, certs,
  users, tokens, issued, setting, req,
  things, index, group, groupTable, rows, writes, ask, stage, thing, place, passed, tellings,
  expected, overlapped,
  known, rank, groupRows, groupWrites, reading, step, bundle, spot, detached, orderTold, wanted,
  crossed

Packages == INSTANCE AddonPackages
  WITH disk <- package, setting <- packageRow, up <- loaded, MaxRequests <- MaxJobs
WiFi     == INSTANCE WiFiSetup WITH state <- phase
Network  == INSTANCE HostNetwork WITH req <- change, MaxRequests <- MaxChanges
Tunnel   == INSTANCE TunnelCertificates WITH issued <- certs
Accounts == INSTANCE AccountRecords
Layout   == INSTANCE ThingLayout
  WITH Thing <- Item, MaxRequests <- MaxMoves, groups <- groupTable, told <- tellings
Groups   == INSTANCE GroupOrder
  WITH Group <- Bundle, MaxRequests <- MaxOrders, index <- rank, rows <- groupRows,
       writes <- groupWrites, stage <- step, group <- bundle, place <- spot, told <- orderTold,
       expected <- wanted, overlapped <- crossed

ASSUME ServicesAssumption ==
  /\ Packages!PackagesAssumption /\ WiFi!BoundsAssumption /\ Tunnel!BoundsAssumption
  /\ Accounts!RecordsAssumption /\ Layout!NoGroupAssumption /\ Layout!FiniteAssumption

restartVars == vars
packageVars == <<package, packageRow, installed, plugin, leaving, loaded, job, crashes, choice,
                 slipped>>
wifiVars    == <<ap, dhcp, net, skip, lan, phase, failed, posts, starts, posted>>
networkVars == <<stored, active, air, name, lapsed, listed, change>>
tunnelVars  == <<disk, token, notunnel, up, server, serves, handle, tunnel, connected, submits,
                 renewal, due, certs>>
accountVars == <<users, tokens, issued, setting, req>>
layoutVars  == <<things, index, group, groupTable, rows, writes, ask, stage, thing, place, passed,
                 tellings, expected, overlapped>>
groupVars   == <<known, rank, groupRows, groupWrites, reading, step, bundle, spot, detached,
                 orderTold, wanted, crossed>>
services    == <<part, restartVars, packageVars, wifiVars, networkVars, tunnelVars, accountVars,
                 layoutVars, groupVars>>

Is(p) == part = p
First(S) == CHOOSE x \in S : TRUE

\* With Reduced, names are alike, and so are the things that are arranged: it is enough to look at
\* those that come first; and of the arrangements of all things, or all but one, at those that have
\* one thing, or none or two, in no group.
Order == SetToSeq(Item)
Sorted == LET Outside == Cardinality(Layout!Members(NoGroup))
          IN /\ IsPrefix(things, Order)
             /\ Len(things) = Len(Order)     => Outside = 1
             /\ Len(things) = Len(Order) - 1 => Outside \in {0, 2}
Begins == name.file = First(Name) /\ Sorted

ServicesInit ==
  /\ part \in {"restart", "packages", "wifi", "network", "tunnel", "accounts", "layout", "groups"}
  /\ Init
  /\ Packages!Init /\ (Is("packages") \/ package = "none")
  /\ WiFi!Init     /\ (Is("wifi") \/ (~lan /\ ~net.listed))
  /\ Network!Init  /\ (Is("network") \/ (stored = First(LanSetting) /\ air = Hidden
                                       /\ name.file = First(Name)))
  /\ Tunnel!Init
  /\ Accounts!Init /\ (Is("accounts") \/ (users = {} /\ setting = Unset))
  /\ Layout!Init   /\ (things = <<>> \/ Is("layout"))
  /\ Groups!Init   /\ (Is("groups") \/ known = {})
  /\ Reduced => Begins

ServicesNext ==
  \/ /\ Is("restart") /\ Next
     /\ UNCHANGED <<part, packageVars, wifiVars, networkVars, tunnelVars, accountVars,
                    layoutVars, groupVars>>
  \/ /\ Is("packages") /\ Packages!Next
     /\ UNCHANGED <<part, restartVars, wifiVars, networkVars, tunnelVars, accountVars,
                    layoutVars, groupVars>>
  \/ /\ Is("wifi") /\ WiFi!Next
     /\ UNCHANGED <<part, restartVars, packageVars, networkVars, tunnelVars, accountVars,
                    layoutVars, groupVars>>
  \/ /\ Is("network") /\ Network!Next
     /\ UNCHANGED <<part, restartVars, packageVars, wifiVars, tunnelVars, accountVars,
                    layoutVars, groupVars>>
  \/ /\ Is("tunnel") /\ Tunnel!Next
     /\ UNCHANGED <<part, restartVars, packageVars, wifiVars, networkVars, accountVars,
                    layoutVars, groupVars>>
  \/ /\ Is("accounts") /\ Accounts!Next
     /\ UNCHANGED <<part, restartVars, packageVars, wifiVars, networkVars, tunnelVars,
                    layoutVars, groupVars>>
  \/ /\ Is("layout") /\ Layout!Next
     /\ UNCHANGED <<part, restartVars, packageVars, wifiVars, networkVars, tunnelVars, accountVars,
                    groupVars>>
  \/ /\ Is("groups") /\ Groups!Next
     /\ UNCHANGED <<part, restartVars, packageVars, wifiVars, networkVars, tunnelVars, accountVars,
                    layoutVars>>

ServicesSpec == ServicesInit /\ [][ServicesNext]_services

-----------------------------------------------------------------------------
(* The properties, stated and explained in the modules they come from.     *)

\* An add-on runs from a whole package, as it was last asked to (AddonManager.installAddon,
\* enableAddon, disableAddon).
RunsAsChosen == Packages!RunsAsChosen
\* The gateway does not run beside its access point (isWiFiConfigured).
GatewayWithoutAp == WiFi!GatewayWithoutAp
\* The host has one name in its file, in the kernel and in the hosts file, and a network is listed
\* with its strongest access point (setHostname, scanWirelessNetworksAsync).
NetworkIsTold == Network!NetworkIsTold
\* The HTTPS server that runs has the certificates on disk (CertificateManager.renew).
ServesWhatIsOnDisk == Tunnel!ServesWhatIsOnDisk
\* A token that was revoked is gone, and a setting has a value that was accepted (deleteUser,
\* revokeClientAuthorization, Database.setSetting).
RecordsHold == Accounts!RecordsHold
\* Things and groups are where they were asked to be, and a restart keeps them
\* (Things.setThingLayoutIndex, Groups.setGroupLayoutIndex).
Arranged == Layout!Arranged /\ Groups!Ordered
\* The last change of the arrangement is told (LAYOUT_MODIFIED).
AllTold == Layout!AllTold /\ Groups!OrderTold
=============================================================================
