------------------------------ MODULE WiFiSetup ------------------------------
(***************************************************************************)
(* The first start of a Raspberry Pi: wifi-setup.ts, the wireless half of  *)
(* linux-raspbian.ts that it calls, and the part of app.ts that waits for  *)
(* it.  The controller asks whether the host has a connection; if not it   *)
(* turns the host into an access point (hostapd and dnsmasq) and serves    *)
(* the page on which a network is chosen, or skipped; then it starts the   *)
(* gateway.  Every function of the platform is a row of commands run one   *)
(* after the other: one may fail, and the power may go between two.        *)
(* A step stands for a whole row, with the number n of its commands that   *)
(* were carried out.                                                       *)
(***************************************************************************)
EXTENDS Naturals

CONSTANTS MaxStarts,     \* bound: starts of the controller
          MaxPosts       \* bound: POSTs to /connecting

\* What the constants must be.
BoundsAssumption == MaxStarts \in Nat \ {0} /\ MaxPosts \in Nat

VARIABLES ap,            \* hostapd: [active, boot], boot: enabled in systemd
          dhcp,          \* dnsmasq: the same
          net,           \* wpa_supplicant: [listed, saved, joined]
          skip,          \* the setting wifiskip
          lan,           \* an address on eth0, or candle_island.txt
          state,         \* "off", "asks", "setup" or "gateway"
          failed,        \* a command failed since the controller started
          posts,         \* handlers of /connecting under way
          starts, posted

vars == <<ap, dhcp, net, skip, lan, state, failed, posts, starts, posted>>

Unit == [active : BOOLEAN, boot : BOOLEAN]
Stage == {"storing", "resting", "leaving"}

\* systemd units on and off, wpa_supplicant's list, and the handlers.
TypeOK == /\ ap \in Unit /\ dhcp \in Unit
          /\ net \in [listed : BOOLEAN, saved : BOOLEAN, joined : BOOLEAN]
          /\ skip \in BOOLEAN /\ lan \in BOOLEAN /\ failed \in BOOLEAN
          /\ state \in {"off", "asks", "setup", "gateway"}
          /\ posts \in [Stage -> 0 .. MaxPosts]
          /\ starts \in 0 .. MaxStarts /\ posted \in 0 .. MaxPosts

Off == [active |-> FALSE, boot |-> FALSE]
NoPosts == [s \in Stage |-> 0]

Init == /\ ap = Off /\ dhcp = Off
        /\ net \in {[listed |-> s, saved |-> s, joined |-> FALSE] : s \in BOOLEAN}
        /\ skip = FALSE /\ lan \in BOOLEAN /\ state = "asks"
        /\ failed = FALSE /\ posts = NoPosts /\ starts = 1 /\ posted = 0

-----------------------------------------------------------------------------
(* The rows of commands.                                                   *)

\* n of `all` commands were carried out: if not all, one failed and the
\* caller goes on to `next`, or the power went.
Carried(n, all, next) ==
    \/ /\ state' = next
       /\ failed' = (failed \/ n < all)
       /\ UNCHANGED starts
    \/ /\ n < all
       /\ state' = "off"
       /\ UNCHANGED <<failed, starts>>

\* setWirelessMode always removes the networks first; each may stay.
NetworksGone(added, kept) ==
    \E stay \in {FALSE, net.listed} :
        net' = [listed |-> stay \/ added,
                saved |-> IF kept THEN stay \/ added ELSE net.saved,
                joined |-> stay /\ net.joined]

\* stopAP: stop and disable hostapd, stop and disable dnsmasq.
StopAP(n) == /\ ap' = [active |-> ap.active /\ n < 1, boot |-> ap.boot /\ n < 2]
             /\ dhcp' = [active |-> dhcp.active /\ n < 3, boot |-> dhcp.boot /\ n < 4]
             /\ NetworksGone(FALSE, FALSE)

\* startAP: stop hostapd, clear the address, write its configuration, start
\* it, enable it, give the address; start dnsmasq, enable it.
StartAP(n) == /\ ap' = [active |-> IF n < 1 THEN ap.active ELSE n >= 4,
                        boot |-> ap.boot \/ n >= 5]
              /\ dhcp' = [active |-> dhcp.active \/ n >= 7,
                          boot |-> dhcp.boot \/ n >= 8]
              /\ NetworksGone(FALSE, FALSE)

\* defineNetwork: stop hostapd, clear the address, add the network, its
\* name, its key, enable it, save the list, disable hostapd.
DefineNetwork(n) == /\ ap' = [active |-> ap.active /\ n < 1, boot |-> ap.boot /\ n < 8]
                    /\ UNCHANGED dhcp
                    /\ NetworksGone(n >= 3, n >= 7)

\* getWirelessMode: while hostapd does not run it returns before it looks at
\* what wpa_cli said, for the status it tests is that of `is-active hostapd`.
GetWirelessMode == [mode |-> IF ap.active THEN "ap" ELSE "sta",
                    enabled |-> ap.active,
                    networks |-> FALSE]

\* ensureAPStopped acts if the host seems to be an access point.
\* Faulty: it asks for the DHCP server alone.
FaultySeemsAp == dhcp.active
SeemsAp == dhcp.active \/ GetWirelessMode.mode = "ap"

EnsureAPStopped(n) == IF SeemsAp THEN StopAP(n) ELSE n = 4 /\ UNCHANGED <<ap, dhcp, net>>

-----------------------------------------------------------------------------
\* isWiFiConfigured, once the setting is read: skipped, or a cable: go on.
Configured == /\ state = "asks"
              /\ skip \/ lan
              /\ \E n \in 0 .. 4 : EnsureAPStopped(n) /\ Carried(n, 4, "gateway")
              /\ UNCHANGED <<skip, lan, posts, posted>>

\* waitForWiFi rejects at once when it is shown no network, as here it always
\* is: the host becomes an access point and startWiFiSetup listens.
NotConfigured == /\ state = "asks" /\ ~skip /\ ~lan
                 /\ ~GetWirelessMode.networks
                 /\ \E n \in 0 .. 8 : StartAP(n) /\ Carried(n, 8, "setup")
                 /\ UNCHANGED <<skip, lan, posts, posted>>

\* POST /connecting: to skip, or with a network.
Connecting == /\ state = "setup" /\ posted < MaxPosts
              /\ posted' = posted + 1
              /\ \E s \in {"storing", "resting"} : posts' = [posts EXCEPT ![s] = @ + 1]
              /\ UNCHANGED <<ap, dhcp, net, skip, lan, state, failed, starts>>

Up == state \in {"setup", "gateway"}
Leave(s) == posts[s] > 0 /\ Up

\* The setting is stored, or could not be: stopAP, and onConnection starts
\* the gateway.
Skipped == /\ Leave("storing")
           /\ posts' = [posts EXCEPT !["storing"] = @ - 1]
           /\ skip' \in {skip, TRUE}
           /\ \E n \in 0 .. 4 : StopAP(n) /\ Carried(n, 4, "gateway")
           /\ UNCHANGED <<lan, posted>>

\* Two seconds after the answer the access point is stopped.
LeaveAP == /\ Leave("resting")
           /\ posts' = [posts EXCEPT !["resting"] = @ - 1, !["leaving"] = @ + 1]
           /\ \E n \in 0 .. 4 : StopAP(n) /\ Carried(n, 4, state)
           /\ UNCHANGED <<skip, lan, posted>>

\* Five seconds later the network is defined; waitForWiFi then rejects, for
\* getWirelessMode shows it no network, and only a line is logged.
Define == /\ Leave("leaving")
          /\ posts' = [posts EXCEPT !["leaving"] = @ - 1]
          /\ \E n \in 0 .. 8 : DefineNetwork(n) /\ Carried(n, 8, state)
          /\ UNCHANGED <<skip, lan, posted>>

-----------------------------------------------------------------------------
\* wpa_supplicant joins a network of its list, while hostapd is away.
Join == /\ state # "off" /\ net.listed /\ ~ap.active /\ ~net.joined
        /\ net' = [net EXCEPT !.joined = TRUE]
        /\ UNCHANGED <<ap, dhcp, skip, lan, state, failed, posts, starts, posted>>

\* The power goes, or the controller dies and systemd starts it again.
PowerCut == /\ state # "off"
            /\ state' = "off"
            /\ UNCHANGED <<ap, dhcp, net, skip, lan, failed, posts, starts, posted>>

Starts(host) == /\ starts < MaxStarts /\ starts' = starts + 1
                /\ state' = "asks" /\ failed' = FALSE /\ posts' = NoPosts
                /\ IF host THEN /\ ap' = [ap EXCEPT !.active = ap.boot]
                                /\ dhcp' = [dhcp EXCEPT !.active = dhcp.boot]
                                /\ \E j \in {FALSE, net.saved /\ ~ap.boot} :
                                     net' = [listed |-> net.saved, saved |-> net.saved, joined |-> j]
                                /\ lan' \in BOOLEAN
                   ELSE UNCHANGED <<ap, dhcp, net, lan>>
                /\ UNCHANGED <<skip, posted>>

Boot == state = "off" /\ Starts(TRUE)
Restart == state \in {"asks", "setup", "gateway"} /\ Starts(FALSE)

Next == \/ Configured \/ NotConfigured
        \/ Connecting \/ Skipped \/ LeaveAP \/ Define
        \/ Join \/ PowerCut \/ Boot \/ Restart

Spec == Init /\ [][Next]_vars

-----------------------------------------------------------------------------
\* Once the gateway is started the host is no access point and serves no
\* addresses, whatever an earlier start that was cut short left running or
\* enabled, unless a command failed (ensureAPStopped, stopAP).
GatewayWithoutAp == state = "gateway" /\ ~failed => ~ap.active /\ ~dhcp.active

\* "Promise which resolves to true/false, indicating whether or not we have
\* a connection": a host that has joined its network is not made an access
\* point (isWiFiConfigured).
JoinedIsConfigured == [][NotConfigured => ~net.joined]_vars
=============================================================================
