--------------------------- MODULE AccountRecords ---------------------------
(***************************************************************************)
(* The tables of users, tokens and settings of db.ts, and the routes that  *)
(* write them: log in, log out, make and delete a user, allow a client and *)
(* exchange its code, list and revoke clients, change a setting.  Every    *)
(* handler is a chain of awaited statements, and the chains of several     *)
(* requests interleave between them.  A route behind the middleware first  *)
(* looks its own token up.  What a row says of a user (address, password,  *)
(* codes) is left out; ids of users are not used again.                    *)
(***************************************************************************)
EXTENDS Naturals, FiniteSets

CONSTANTS User,          \* users
          Client,        \* OAuth clients
          Registered,    \* those of them that this start registers
          Value,         \* values of a setting
          Unset,         \* no row for the setting
          Session,       \* what a token is for when it is a session's
          MaxTokens,     \* bound: tokens issued
          MaxRequests    \* bound: requests

\* What the constants must be.
RecordsAssumption == /\ MaxTokens \in Nat \ {0} /\ MaxRequests \in Nat
                     /\ User # {} /\ Value # {} /\ Unset \notin Value

VARIABLES users,         \* rows of users
          tokens,        \* rows of tokens: [id, user, for, code]
          issued,        \* tokens issued so far
          setting,       \* the value in the row of one setting, or Unset
          req            \* requests, by number

vars == <<users, tokens, issued, setting, req>>

Request == 1 .. MaxRequests
Token == [id : 1 .. MaxTokens, user : User, for : Client \cup {Session}, code : BOOLEAN]
Kind == {"login", "create", "delete", "logout", "allow", "exchange",
         "list", "revoke", "set"}

Place == {"none", "auth", "count", "jwt", "row", "make", "issue", "rows", "tokens", "next",
          "read", "insert", "update", "ok", "refused"}

\* Rows, and for every request its place, its user and client, the tokens it
\* found, those that were there when it began, and its value.
TypeOK == /\ users \subseteq User /\ tokens \subseteq Token
          /\ issued \in 0 .. MaxTokens /\ setting \in Value \cup {Unset}
          /\ \A r \in Request :
               /\ req[r].kind \in Kind /\ req[r].at \in Place
               /\ req[r].user \in User /\ req[r].for \in Client \cup {Session}
               /\ req[r].found \subseteq Token /\ req[r].doomed \subseteq Token
               /\ req[r].value \in Value

Blank == [kind |-> "login", at |-> "none", user |-> CHOOSE u \in User : TRUE,
          for |-> Session, found |-> {}, doomed |-> {}, value |-> CHOOSE v \in Value : TRUE]

\* A profile of an earlier start: its users, and a token some client got.
Init == /\ users \in SUBSET User
        /\ \E t \in SUBSET {x \in Token : x.id = 1 /\ x.user \in users /\ ~x.code} :
              Cardinality(t) <= 1 /\ tokens = t
        /\ issued = 1
        /\ setting \in Value \cup {Unset}
        /\ req = [r \in Request |-> Blank]

-----------------------------------------------------------------------------
Comes(r) == req[r].at = "none" /\ (r > 1 => req[r - 1].at # "none")
Is(r, kind, place) == req[r].kind = kind /\ req[r].at = place
Goes(r, place) == req' = [req EXCEPT ![r].at = place]
TokensOf(u) == {t \in tokens : t.user = u}
Grants(u, c) == {t \in TokensOf(u) : t.for = c}

\* The tokens a request is to remove.
Doomed(kind, u, c, own) == CASE kind = "delete" -> TokensOf(u)
                             [] kind = "revoke" -> Grants(u, c)
                             [] kind = "logout" -> {own}
                             [] OTHER -> {}

\* POST /login and /oauth/token ask for no token, POST /users not at once.
Enters == [login |-> "row", create |-> "count"]
Arrive(r) ==
    /\ Comes(r)
    /\ \/ \E u \in User, k \in {"login", "create"} :
            req' = [req EXCEPT ![r].kind = k, ![r].user = u, ![r].at = Enters[k]]
       \/ \E t \in tokens : t.code /\
            req' = [req EXCEPT ![r].kind = "exchange", ![r].user = t.user, ![r].for = t.for,
                               ![r].found = {t}, ![r].at = "read"]
    /\ UNCHANGED <<users, tokens, issued, setting>>

\* The other routes: the middleware looks for the row of the request's token.
ArriveAuth(r) ==
    /\ Comes(r)
    /\ \E t \in tokens :
         /\ t.for = Session
         /\ \E ask \in ([kind : {"delete", "logout", "list"}, for : {Session},
                          value : {Blank.value}]
                         \cup [kind : {"allow", "revoke"}, for : Client, value : {Blank.value}]
                         \cup [kind : {"set"}, for : {Session}, value : Value]) :
              req' = [req EXCEPT ![r] = [kind |-> ask.kind, at |-> "auth", user |-> t.user,
                        for |-> ask.for, found |-> {t}, doomed |-> {}, value |-> ask.value]]
    /\ UNCHANGED <<users, tokens, issued, setting>>

Starts == [delete |-> "rows", logout |-> "tokens", allow |-> "issue",
           list |-> "read", revoke |-> "read", set |-> "read"]
Authenticate(r) ==
    /\ req[r].at = "auth"
    /\ IF req[r].found \subseteq tokens
       THEN /\ req[r].kind = "revoke" => req[r].for \in Registered
            /\ req' = [req EXCEPT ![r].at = Starts[req[r].kind],
                 ![r].doomed = Doomed(req[r].kind, req[r].user, req[r].for,
                                      CHOOSE t \in req[r].found : TRUE)]
       ELSE Goes(r, "refused")
    /\ UNCHANGED <<users, tokens, issued, setting>>

\* No such client: 404.
NoClient(r) == /\ Is(r, "revoke", "auth") /\ req[r].for \notin Registered
               /\ Goes(r, "refused")
               /\ UNCHANGED <<users, tokens, issued, setting>>

-----------------------------------------------------------------------------
(* Users and sessions.                                                     *)

\* POST /users counts the rows, and asks for a token if there are any.
Count(r) == /\ Is(r, "create", "count")
            /\ Goes(r, IF users = {} THEN "row" ELSE "jwt")
            /\ UNCHANGED <<users, tokens, issued, setting>>
Bearer(r) == /\ Is(r, "create", "jwt")
             /\ Goes(r, "refused") \/ (Goes(r, "row") /\ \E t \in tokens : ~t.code)
             /\ UNCHANGED <<users, tokens, issued, setting>>

\* POST /login finds the row and compares the password; POST /users finds
\* none, hashes the password and inserts it, unless another has by then: the
\* address is UNIQUE.
Row(r) == /\ req[r].at = "row"
          /\ Goes(r, CASE req[r].kind = "login" /\ req[r].user \in users     -> "issue"
                       [] req[r].kind = "create" /\ req[r].user \notin users -> "make"
                       [] OTHER                                             -> "refused")
          /\ UNCHANGED <<users, tokens, issued, setting>>
Make(r) == /\ Is(r, "create", "make")
           /\ Goes(r, IF req[r].user \in users THEN "refused" ELSE "issue")
           /\ users' = users \cup {req[r].user}
           /\ UNCHANGED <<tokens, issued, setting>>

Wrong(r) == /\ Is(r, "login", "row")
            /\ Goes(r, "refused")
            /\ UNCHANGED <<users, tokens, issued, setting>>

\* issueToken and issueOAuthToken: after the domain is read, one INSERT.
Issue(r) == /\ req[r].at = "issue" /\ issued < MaxTokens
            /\ issued' = issued + 1
            /\ tokens' = tokens \cup {[id |-> issued + 1, user |-> req[r].user,
                 for |-> IF req[r].kind \in {"login", "create"} THEN Session ELSE req[r].for,
                 code |-> req[r].kind = "allow"]}
            /\ Goes(r, "ok")
            /\ UNCHANGED <<users, setting>>

\* DELETE /users/:id: two statements, sent together, done in either order.
DeleteRow(r) == /\ Is(r, "delete", "rows")
                /\ users' = users \ {req[r].user}
                /\ Goes(r, "tokens")
                /\ UNCHANGED <<tokens, issued, setting>>
DeleteTokensFirst(r) == /\ Is(r, "delete", "rows")
                        /\ tokens' = tokens \ TokensOf(req[r].user)
                        /\ Goes(r, "next")
                        /\ UNCHANGED <<users, issued, setting>>
DeleteTokens(r) == /\ Is(r, "delete", "tokens")
                   /\ tokens' = tokens \ TokensOf(req[r].user)
                   /\ Goes(r, "ok")
                   /\ UNCHANGED <<users, issued, setting>>
DeleteRowLast(r) == /\ Is(r, "delete", "next")
                    /\ users' = users \ {req[r].user}
                    /\ Goes(r, "ok")
                    /\ UNCHANGED <<tokens, issued, setting>>

\* POST /log-out deletes the token of the request.
LogOut(r) == /\ Is(r, "logout", "tokens")
             /\ tokens' = tokens \ req[r].found
             /\ Goes(r, "ok")
             /\ UNCHANGED <<users, issued, setting>>

-----------------------------------------------------------------------------
(* Clients.                                                                *)

\* POST /oauth/token: the code's row is read; it stays and can be used again.
Verify(r) == /\ Is(r, "exchange", "read")
             /\ Goes(r, IF req[r].found \subseteq tokens /\ req[r].for \in Registered
                        THEN "issue" ELSE "refused")
             /\ UNCHANGED <<users, tokens, issued, setting>>

\* getAuthorized and revokeClientAuthorization read the user's tokens, and
\* delete those that are to go one by one: those of clients nobody registers,
\* those of the client.
\* Faulty: access tokens alone are looked for, not the client's codes.
FaultyToGo(r) == {t \in TokensOf(req[r].user) : t.for = req[r].for /\ ~t.code}
ToGo(r) == IF req[r].kind = "revoke" THEN Grants(req[r].user, req[r].for)
           ELSE {t \in TokensOf(req[r].user) :
                   t.for # Session /\ t.for \notin Registered /\ ~t.code}
ReadTokens(r) == /\ Is(r, "list", "read") \/ Is(r, "revoke", "read")
                 /\ req' = [req EXCEPT ![r].at = "next", ![r].found = ToGo(r)]
                 /\ UNCHANGED <<users, tokens, issued, setting>>

DeleteNext(r) == /\ Is(r, "list", "next") \/ Is(r, "revoke", "next")
                 /\ \E t \in req[r].found :
                      /\ tokens' = tokens \ {t}
                      /\ req' = [req EXCEPT ![r].found = @ \ {t}]
                 /\ UNCHANGED <<users, issued, setting>>
DeletedAll(r) == /\ Is(r, "list", "next") \/ Is(r, "revoke", "next")
                 /\ req[r].found = {}
                 /\ Goes(r, "ok")
                 /\ UNCHANGED <<users, tokens, issued, setting>>

-----------------------------------------------------------------------------
(* Settings.                                                               *)

\* setSetting reads the value, and inserts the row if there is none.
Statement == IF setting = Unset THEN "insert" ELSE "update"
SetReads(r) == /\ Is(r, "set", "read")
               /\ Goes(r, Statement)
               /\ UNCHANGED <<users, tokens, issued, setting>>

\* Two INSERTs of one key: the second is refused, and the request with it.
SetInserts(r) == /\ Is(r, "set", "insert")
                 /\ IF setting = Unset THEN setting' = req[r].value /\ Goes(r, "ok")
                    ELSE UNCHANGED setting /\ Goes(r, "refused")
                 /\ UNCHANGED <<users, tokens, issued>>
SetUpdates(r) == /\ Is(r, "set", "update")
                 /\ setting' = IF setting = Unset THEN Unset ELSE req[r].value
                 /\ Goes(r, "ok")
                 /\ UNCHANGED <<users, tokens, issued>>

Next == \E r \in Request :
          \/ Arrive(r) \/ ArriveAuth(r) \/ Authenticate(r) \/ NoClient(r)
          \/ Count(r) \/ Bearer(r) \/ Row(r) \/ Make(r) \/ Wrong(r) \/ Issue(r)
          \/ DeleteRow(r) \/ DeleteTokensFirst(r) \/ DeleteTokens(r) \/ DeleteRowLast(r)
          \/ LogOut(r) \/ Verify(r) \/ ReadTokens(r) \/ DeleteNext(r) \/ DeletedAll(r)
          \/ SetReads(r) \/ SetInserts(r) \/ SetUpdates(r)

Spec == Init /\ [][Next]_vars

-----------------------------------------------------------------------------
\* When a user is deleted, a client revoked or a session closed, the tokens
\* that were there when it began are gone for good, whatever was issued,
\* exchanged or deleted in between (deleteUser, revokeClientAuthorization).
RevokedAreGone == \A r \in Request : req[r].at = "ok" => req[r].doomed \cap tokens = {}

\* Once a change of the setting is answered as done, the row is there and
\* holds the value of a change answered as done, or of the start's when all
\* were refused (setSetting: a read, then an INSERT or an UPDATE).
StoredWasAccepted ==
    LET done == {r \in Request : Is(r, "set", "ok")}
    IN done # {} => \E r \in done : setting = req[r].value

\* Both, whichever requests overlap: what is answered is in the database.
RecordsHold == RevokedAreGone /\ StoredWasAccepted
=============================================================================
