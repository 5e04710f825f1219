------------------------- MODULE TunnelCertificates -------------------------
(***************************************************************************)
(* The tunnel and its certificates: certificate-manager.ts (register,      *)
(* renew, the three files), tunnel-service.ts (pagekite, the one promise   *)
(* of being connected, the timer of the renewals), the HTTPS server of     *)
(* app.ts that serves the certificate, and the page of setup-subdomain.js  *)
(* from which a subdomain is asked for or skipped.  Certificates are       *)
(* numbered in order of issue, 0 is none; so are the servers created.      *)
(***************************************************************************)
EXTENDS Naturals

CONSTANTS MaxCerts,      \* bound: certificates issued
          MaxServers,    \* bound: HTTPS servers created
          MaxSubmits     \* bound: submits of the page

\* What the constants must be.
BoundsAssumption == {MaxCerts, MaxServers, MaxSubmits} \subseteq Nat

VARIABLES disk,          \* [cert, key, chain]: the issue each file is from
          token,         \* the setting tunneltoken is there
          notunnel,      \* the setting notunnel
          up,            \* "down", "http", "opening" or "https"
          server,        \* number of the current HTTPS server
          serves,        \* the issue in its context
          handle,        \* TunnelService.server
          tunnel,        \* pagekite of the start at boot: "none", "waits", "over"
          connected,     \* the promise: "pending", "yes" or "no"
          submits,       \* handlers of POST /subscribe, by number
          renewal,       \* [at, on]: the renewal under way and its server
          due,           \* the certificate on disk ends within a week
          issued         \* certificates issued so far

vars == <<disk, token, notunnel, up, server, serves, handle, tunnel, connected,
          submits, renewal, due, issued>>

Submit == 1 .. MaxSubmits
Cert == 0 .. MaxCerts
Place == {"none", "subscribing", "emailing", "issuing", "letter", "waits",
          "ok", "refused", "lost"}
Idle == [at |-> "idle", on |-> 0]

\* Issues, servers, the places of handlers and of the renewal.
TypeOK == /\ disk \in [cert : Cert, key : Cert, chain : Cert]
          /\ token \in BOOLEAN /\ notunnel \in BOOLEAN /\ due \in BOOLEAN
          /\ up \in {"down", "http", "opening", "https"}
          /\ server \in 0 .. MaxServers /\ handle \in 0 .. MaxServers
          /\ serves \in Cert /\ issued \in Cert
          /\ tunnel \in {"none", "waits", "over"}
          /\ connected \in {"pending", "yes", "no"}
          /\ submits \in [Submit -> Place]
          /\ renewal \in [at : {"idle", "reads", "issuing"}, on : 0 .. MaxServers]

NoFiles == [cert |-> 0, key |-> 0, chain |-> 0]

Init == /\ disk = NoFiles /\ token = FALSE /\ notunnel = FALSE /\ up = "http"
        /\ server = 0 /\ serves = 0 /\ handle = 0
        /\ tunnel = "none" /\ connected = "pending"
        /\ submits = [r \in Submit |-> "none"]
        /\ renewal = Idle /\ due = FALSE /\ issued = 0

Up == up # "down"
HasCertificates == disk.cert # 0 /\ disk.key # 0
Sub(r, place) == submits' = [submits EXCEPT ![r] = place]
Files == <<disk, issued, due>>
Http == <<up, server, serves, handle>>
Tunnel == <<tunnel, connected, renewal>>

-----------------------------------------------------------------------------
(* POST /subscribe: register.                                              *)

\* The page is served while isTunnelSet finds neither certificates nor
\* notunnel; it stays open, and can be submitted again, after a refusal.
Submits(r) == /\ Up /\ submits[r] = "none"
              /\ r > 1 => submits[r - 1] # "none"
              /\ \/ ~HasCertificates /\ ~notunnel
                 \/ \E q \in Submit : submits[q] = "refused"
              /\ Sub(r, "subscribing")
              /\ UNCHANGED <<Files, Http, Tunnel, token, notunnel>>

\* POST /skiptunnel.
Skip == /\ Up /\ ~HasCertificates /\ ~notunnel
        /\ notunnel' = TRUE
        /\ UNCHANGED <<Files, Http, Tunnel, token, submits>>

\* The registration server gives the token, which is stored.
Subscribed(r) == /\ Up /\ submits[r] = "subscribing"
                 /\ token' = TRUE
                 /\ Sub(r, "emailing")
                 /\ UNCHANGED <<Files, Http, Tunnel, notunnel>>

EmailSet(r) == /\ Up /\ submits[r] = "emailing"
               /\ Sub(r, "issuing")
               /\ UNCHANGED <<Files, Http, Tunnel, token, notunnel>>

\* The server of the domain or of the certificates refuses.
Refused(r) == /\ Up /\ submits[r] \in {"subscribing", "emailing", "issuing"}
              /\ Sub(r, "refused")
              /\ UNCHANGED <<Files, Http, Tunnel, token, notunnel>>

\* writeCertificates: n of the three files were written before the power
\* went, or all.
Written(n, new) == [cert |-> IF n >= 1 THEN new ELSE disk.cert,
                    key |-> IF n >= 2 THEN new ELSE disk.key,
                    chain |-> IF n >= 3 THEN new ELSE disk.chain]
WriteCertificates == /\ issued < MaxCerts
                     /\ issued' = issued + 1
                     /\ disk' = Written(3, issued + 1)
                     /\ due' = FALSE

Issued(r) == /\ Up /\ submits[r] = "issuing"
             /\ WriteCertificates
             /\ Sub(r, "letter")
             /\ UNCHANGED <<Http, Tunnel, token, notunnel>>

\* createHttpsServer reads the files; it throws if they do not match.
Opens(next) == /\ server < MaxServers
               /\ server' = server + 1
               /\ serves' = disk.cert
               /\ up' = next

\* The newsletter is asked for; then the callback starts pagekite for this
\* request and switches to HTTPS: both servers are closed, one is created.
Switch(r) == /\ Up /\ submits[r] = "letter"
             /\ Opens("opening")
             /\ Sub(r, "waits")
             /\ UNCHANGED <<Files, Tunnel, token, notunnel, handle>>

\* The server listens, and the tunnel service gets it.
\* Faulty: it keeps the server it was given first.
FaultyHandled == IF handle = 0 THEN server ELSE handle
Handled == server
Listens == /\ up = "opening"
           /\ up' = "https"
           /\ handle' = Handled
           /\ UNCHANGED <<Files, Tunnel, token, notunnel, server, serves, submits>>

-----------------------------------------------------------------------------
(* pagekite and the renewals.                                              *)

\* pagekite says whether it is connected: the promise takes the first word
\* of the first process only; the request that waits is answered.
Word(ok) == connected' = IF connected = "pending" THEN IF ok THEN "yes" ELSE "no"
                         ELSE connected
PagekiteSays(r, ok) == /\ Up /\ submits[r] = "waits"
                       /\ Word(ok)
                       /\ Sub(r, IF ok THEN "ok" ELSE "refused")
                       /\ UNCHANGED <<Files, Http, token, notunnel, tunnel, renewal>>
TunnelSays(ok) == /\ up = "https" /\ tunnel = "waits"
                  /\ Word(ok)
                  /\ tunnel' = "over"
                  /\ UNCHANGED <<Files, Http, token, notunnel, submits, renewal>>

\* Once connected, and then daily: renew, on the server there is by now.
Renew == /\ Up /\ connected = "yes" /\ renewal = Idle
         /\ renewal' = [at |-> "reads", on |-> handle]
         /\ UNCHANGED <<Files, Http, token, notunnel, tunnel, connected, submits>>

\* The certificate is read: it is not due, or a new one is asked for.
Renewing == /\ Up /\ renewal.at = "reads"
            /\ renewal' = IF due THEN [renewal EXCEPT !.at = "issuing"] ELSE Idle
            /\ UNCHANGED <<Files, Http, token, notunnel, tunnel, connected, submits>>

\* The new one is written, and put into the context of that server.
Renewed == /\ Up /\ renewal.at = "issuing"
           /\ WriteCertificates
           /\ serves' = IF renewal.on # 0 /\ renewal.on = server THEN issued + 1 ELSE serves
           /\ renewal' = Idle
           /\ UNCHANGED <<up, server, handle, token, notunnel, tunnel, connected, submits>>

RenewalFails == /\ Up /\ renewal.at = "issuing"
                /\ renewal' = Idle
                /\ UNCHANGED <<Files, Http, token, notunnel, tunnel, connected, submits>>

-----------------------------------------------------------------------------
\* Weeks pass: no registration lasts that long, nor does a start, and a page
\* that was refused is given up.
GivenUp == [r \in Submit |-> IF submits[r] \in {"none", "ok"} THEN submits[r] ELSE "lost"]
Age == /\ HasCertificates /\ ~due
       /\ \A r \in Submit : submits[r] \in {"none", "ok", "refused", "lost"}
       /\ up # "opening" /\ renewal = Idle
       /\ due' = TRUE
       /\ submits' = GivenUp
       /\ UNCHANGED <<disk, issued, Http, Tunnel, token, notunnel>>

\* The controller dies; while it writes the files, only some are written.
Dies == /\ up' = "down" /\ server' = server /\ serves' = 0 /\ handle' = 0
        /\ tunnel' = "none" /\ connected' = "pending" /\ renewal' = Idle
        /\ submits' = GivenUp
        /\ UNCHANGED <<token, notunnel>>

Crash == Up /\ Dies /\ UNCHANGED Files

CrashWriting == /\ Up /\ issued < MaxCerts
                /\ renewal.at = "issuing" \/ \E r \in Submit : submits[r] = "issuing"
                /\ issued' = issued + 1
                /\ \E n \in 1 .. 2 : disk' = Written(n, issued + 1)
                /\ due' = FALSE
                /\ Dies

\* A start without certificates is over HTTP.  With them, a key that is not
\* the certificate's ends the start.
BootHttp == /\ up = "down" /\ ~HasCertificates
            /\ up' = "http"
            /\ UNCHANGED <<Files, Tunnel, token, notunnel, submits, server, serves, handle>>

BootHttps == /\ up = "down" /\ HasCertificates /\ disk.cert = disk.key
             /\ IF notunnel THEN Opens("https") /\ tunnel' = tunnel
                ELSE Opens("opening") /\ tunnel' = IF token THEN "waits" ELSE "none"
             /\ UNCHANGED <<Files, token, notunnel, submits, handle, connected, renewal>>

Next == \/ Skip \/ Listens \/ Renew \/ Renewing \/ Renewed \/ RenewalFails
        \/ Age \/ Crash \/ CrashWriting \/ BootHttp \/ BootHttps
        \/ \E r \in Submit : \/ Submits(r) \/ Subscribed(r) \/ EmailSet(r) \/ Refused(r)
                             \/ Issued(r) \/ Switch(r)
                             \/ \E ok \in BOOLEAN : PagekiteSays(r, ok)
        \/ \E ok \in BOOLEAN : TunnelSays(ok)

Spec == Init /\ [][Next]_vars

-----------------------------------------------------------------------------
\* The HTTPS server presents the certificate that is on disk, except from the
\* time a registration has written one to its switch: a renewal reaches the
\* server that is in use by then (renew, setServerHandle, switchToHttps).
ServesWhatIsOnDisk ==
    up = "https" /\ (\A r \in Submit : submits[r] # "letter") => serves = disk.cert

=============================================================================
