----------------------------- MODULE HostNetwork -----------------------------
(***************************************************************************)
(* The network of the host, as the settings page changes it: the routes    *)
(* /network/lan, /network/wireless and /domain of settings_controller.ts,  *)
(* the functions of linux-raspbian.ts behind them, and the conversations   *)
(* with NetworkManager over D-Bus that network-manager.ts holds for them.  *)
(* A conversation is a chain of calls, each of which may fail; two         *)
(* requests' chains interleave between calls.  The name of the host is     *)
(* changed by commands run in one go.                                      *)
(***************************************************************************)
EXTENDS Naturals, Sequences, SequencesExt

CONSTANTS LanSetting,    \* ways to configure the cable: dhcp, a static address
          BadSetting,    \* a static address whose fields do not parse
          Ssid,          \* names of networks
          Hidden,        \* the empty name of a hidden network
          Name,          \* names for the host
          MaxQuality,    \* bound: signal strengths 1 .. MaxQuality
          MaxSeen,       \* bound: access points in sight
          MaxRequests    \* bound: requests

VARIABLES stored,        \* the cable's settings that NetworkManager keeps
          active,        \* those the device runs with
          air,           \* the network the radio is connected to, or Hidden
          name,          \* the host's name: its file, the kernel, the hosts file, and the
                         \* one NetworkManager was given
          lapsed,        \* history: a command that should set or put back a name of the first
                         \* three has failed since the last change that went through
          listed,        \* the last list of networks that was answered
          req            \* requests, by number

vars == <<stored, active, air, name, lapsed, listed, req>>

Request == 1 .. MaxRequests
AccessPoint == [ssid : Ssid \cup {Hidden}, quality : 1 .. MaxQuality]
Sight == BoundedSeq(AccessPoint, MaxSeen)
Kind == {"lan", "join", "off", "scan", "name"}
Place == {"none", "read", "write", "activate", "look", "connect", "disconnect",
          "ok", "refused", "unanswered"}

\* Settings, names, the list last sent and the place of every request.
TypeOK == /\ stored \in LanSetting /\ active \in LanSetting
          /\ air \in Ssid \cup {Hidden}
          /\ name \in [file : Name, live : Name, hosts : Name, manager : Name]
          /\ lapsed \in BOOLEAN
          /\ listed.sight \in Sight /\ listed.answer \in Sight
          /\ \A r \in Request :
               /\ req[r].at \in Place /\ req[r].kind \in Kind
               /\ req[r].want \in LanSetting \cup {BadSetting} \cup Ssid
               /\ req[r].wrote \in BOOLEAN

Init == /\ stored \in LanSetting /\ active = stored
        /\ air \in Ssid \cup {Hidden}
        /\ \E n \in Name : name = [file |-> n, live |-> n, hosts |-> n, manager |-> n]
        /\ lapsed = FALSE
        /\ listed = [sight |-> <<>>, answer |-> <<>>]
        /\ req = [r \in Request |-> [kind |-> "lan", want |-> BadSetting,
                                     at |-> "none", wrote |-> FALSE]]

-----------------------------------------------------------------------------
(* Requests arrive in order.                                               *)

Comes(r) == req[r].at = "none" /\ (r > 1 => req[r - 1].at # "none")
Is(r, kind, place) == req[r].kind = kind /\ req[r].at = place
Goes(r, place) == req' = [req EXCEPT ![r].at = place]

\* PUT /network/lan, PUT /network/wireless, GET /network/wireless/networks.
Arrive(r) ==
    /\ Comes(r)
    /\ \/ \E w \in LanSetting \cup {BadSetting} :
            req' = [req EXCEPT ![r].kind = "lan", ![r].want = w, ![r].at = "read"]
       \/ \E s \in Ssid :
            req' = [req EXCEPT ![r].kind = "join", ![r].want = s, ![r].at = "look"]
       \/ req' = [req EXCEPT ![r].kind = "off", ![r].at = "disconnect"]
       \/ req' = [req EXCEPT ![r].kind = "scan", ![r].at = "look"]
    /\ UNCHANGED <<stored, active, air, name, lapsed, listed>>

\* A call of a chain is refused.  setLanModeAsync catches it and resolves
\* false, the route of the wireless mode catches it; nothing catches it for
\* the list of networks, whose request is never answered.
OnRefusal(kind) == IF kind = "scan" THEN "unanswered" ELSE "refused"

CallRefused(r) ==
    /\ req[r].at \in {"read", "write", "activate", "look", "disconnect"}
    /\ Goes(r, OnRefusal(req[r].kind))
    /\ UNCHANGED <<stored, active, air, name, lapsed, listed>>

-----------------------------------------------------------------------------
(* The cable: setLanModeAsync.                                             *)

\* The first ethernet device, its connection and that one's settings.
LanRead(r) == /\ Is(r, "lan", "read")
              /\ Goes(r, "write")
              /\ UNCHANGED <<stored, active, air, name, lapsed, listed>>

\* Update of the connection.  Fields that do not parse return false, and the
\* chain goes on with the next `then`.
LanWrite(r) == /\ Is(r, "lan", "write")
               /\ req' = [req EXCEPT ![r].at = "activate",
                                     ![r].wrote = req[r].want # BadSetting]
               /\ stored' = IF req[r].want = BadSetting THEN stored ELSE req[r].want
               /\ UNCHANGED <<active, air, name, lapsed, listed>>

\* ActivateConnection: the device takes what is stored by now.
LanActivate(r) == /\ Is(r, "lan", "activate")
                  /\ active' = stored
                  /\ Goes(r, "ok")
                  /\ UNCHANGED <<stored, air, name, lapsed, listed>>

-----------------------------------------------------------------------------
(* The radio: scanWirelessNetworksAsync and setWirelessModeAsync.          *)

Visible(aps) == SelectSeq(aps, LAMBDA p : p.ssid # Hidden)
Insert(p, s) == LET i == Len(SelectSeq(s, LAMBDA q : q.quality >= p.quality))
                IN SubSeq(s, 1, i) \o <<p>> \o SubSeq(s, i + 1, Len(s))
ByQuality(aps) == FoldLeft(LAMBDA s, p : Insert(p, s), <<>>, aps)

\* The loop that drops repeated names: a name met before is spliced out, and
\* the next turn passes over the entry that slid into its place.
Take(acc, p) ==
    IF acc.over THEN [acc EXCEPT !.out = Append(@, p), !.over = FALSE]
    ELSE IF p.ssid \in acc.seen THEN [acc EXCEPT !.over = TRUE]
         ELSE [acc EXCEPT !.out = Append(@, p), !.seen = @ \cup {p.ssid}]
Listing(aps) ==
    FoldLeft(Take, [out |-> <<>>, seen |-> {}, over |-> FALSE], ByQuality(Visible(aps))).out

\* No radio is left, or the access points of the first that sees one.
Scan(r) == /\ Is(r, "scan", "look")
           /\ \E aps \in Sight : listed' = [sight |-> aps, answer |-> Listing(aps)]
           /\ Goes(r, "ok")
           /\ UNCHANGED <<stored, active, air, name, lapsed>>

\* The network to join is in sight: the connection is asked for, not awaited,
\* and the request answered.  It is asked for again when the radio is
\* connected to it already: the details that would tell are not awaited.
Look(r) == /\ Is(r, "join", "look")
           /\ Goes(r, "connect")
           /\ UNCHANGED <<stored, active, air, name, lapsed, listed>>

NotInSight(r) == /\ Is(r, "join", "look")
                 /\ Goes(r, "refused")
                 /\ UNCHANGED <<stored, active, air, name, lapsed, listed>>

\* AddAndActivateConnection, answered to nobody.
Connects(r) == /\ Is(r, "join", "connect")
               /\ air' \in {air, req[r].want, Hidden}
               /\ Goes(r, "ok")
               /\ UNCHANGED <<stored, active, name, lapsed, listed>>

Disconnect(r) == /\ Is(r, "off", "disconnect")
                 /\ air' = Hidden
                 /\ Goes(r, "ok")
                 /\ UNCHANGED <<stored, active, name, lapsed, listed>>

-----------------------------------------------------------------------------
(* The name: PUT /domain and setHostname.  Of its commands (write the file, *)
(* `hostname`, restart avahi, edit the hosts file) the first n work.  When  *)
(* the second or the third fails it writes the old name back, and of these  *)
(* commands, whose outcome nobody looks at, those in `works` work.  The     *)
(* copy of the name on the boot partition is left out.                      *)

\* NetworkManager is told of a change that failed only: of the new name, when it was
\* `hostname` that failed, and of the old one, when it was avahi.
Told(n, works, old, new) ==
    IF "manager" \notin works THEN old.manager
    ELSE IF n = 1 THEN new ELSE IF n = 2 THEN old.file ELSE old.manager

\* Faulty: when avahi does not restart, the running name is not put back.
FaultyNameAfter(n, works, old, new) ==
    [file |-> IF n = 0 \/ (n < 3 /\ "file" \in works) THEN old.file ELSE new,
     live |-> IF n < 2 THEN old.live ELSE new,
     hosts |-> IF n < 4 THEN old.hosts ELSE new,
     manager |-> Told(n, works, old, new)]
NameAfter(n, works, old, new) ==
    [file |-> IF n = 0 \/ (n < 3 /\ "file" \in works) THEN old.file ELSE new,
     live |-> IF n < 2 THEN old.live
              ELSE IF n = 2 /\ "live" \in works THEN old.file ELSE new,
     hosts |-> IF n < 4 THEN old.hosts ELSE new,
     manager |-> Told(n, works, old, new)]

\* Whether it left a name behind that it should have set, or put back.
Lapses(n, works) == \/ n \in {1, 2} /\ "file" \notin works
                    \/ n = 2 /\ "live" \notin works
                    \/ n = 3

SetHostname(r) ==
    /\ Comes(r)
    /\ \E new \in Name, n \in 0 .. 4, works \in SUBSET {"file", "live", "manager"} :
         /\ name' = NameAfter(n, works, name, new)
         /\ lapsed' = (n # 4 /\ (lapsed \/ Lapses(n, works)))
         /\ req' = [req EXCEPT ![r].kind = "name",
                               ![r].at = IF n = 4 THEN "ok" ELSE "refused"]
    /\ UNCHANGED <<stored, active, air, listed>>

-----------------------------------------------------------------------------
\* NetworkManager and the chains of the routes that change something go on by
\* themselves.
Chain(r) == \/ CallRefused(r)
            \/ LanRead(r) \/ LanWrite(r) \/ LanActivate(r)
            \/ Look(r) \/ NotInSight(r) \/ Connects(r) \/ Disconnect(r)

Next == \E r \in Request : Arrive(r) \/ SetHostname(r) \/ Scan(r) \/ Chain(r)

Spec == Init /\ [][Next]_vars

-----------------------------------------------------------------------------
\* The host answers to the name in its file, and its hosts file says the same,
\* whichever command of a change failed, as long as those that put the old name
\* back worked; and a change that goes through mends what an earlier one left
\* behind (setHostname).  What NetworkManager was told is not among them: it is
\* told of the new name when `hostname` has refused it, and not when it was taken.
NamesAgree == ~lapsed => name.live = name.file /\ name.hosts = name.file

\* Every network in sight that has a name is on the list, and its first entry
\* is the strongest of that name, although the loop that drops repeated names
\* passes over an entry after each it drops (scanWirelessNetworksAsync).
First(s, id) == CHOOSE i \in DOMAIN s : s[i].ssid = id /\ \A j \in 1 .. i - 1 : s[j].ssid # id
StrongestListed ==
    \A p \in ToSet(Visible(listed.sight)) :
        \E q \in ToSet(listed.answer) :
            /\ q = listed.answer[First(listed.answer, p.ssid)]
            /\ q.quality >= p.quality

\* The host has one name, unless one could not be set or put back, and the list of
\* networks is right about each.
NetworkIsTold == NamesAgree /\ StrongestListed
=============================================================================
