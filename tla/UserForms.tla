------------------------------ MODULE UserForms ------------------------------
(***************************************************************************)
(* The pages of the users: the list, the form of one user with his second  *)
(* factor, the form of a new one; and the clients a user has authorized.   *)
(* Models static/js/views/settings.js (users, authorizations) and user.js. *)
(***************************************************************************)
EXTENDS Integers, Sequences, FiniteSets

CONSTANTS
  User,       \* the users at first
  Me,         \* the one who is logged in
  New,        \* the user the form of a new one makes
  Client,     \* the clients, in the order they are listed: a sequence
  MaxSteps,   \* bound: pages shown and requests sent
  Overtakes,  \* whether a GET may be answered before an earlier one
  Hasty       \* whether the user asks for the next change, or leaves, while one
              \* is under way

UserFormsAssumption ==
  /\ Me \in User /\ New \notin User /\ MaxSteps \in Nat /\ {Overtakes, Hasty} \subseteq BOOLEAN
  /\ Client \in Seq({Client[i] : i \in DOMAIN Client})

VARIABLES
  rows,       \* what the gateway has of its users: whose name and address, or "typed"
  factor,     \* and of their second factor: whether it is on, the codes' number
  clients,    \* the clients that are authorized
  at,         \* the page shown
  listed,     \* the users the list shows, and whether their button is disabled
  id,         \* the user the form is for
  fields,     \* whose name and address it shows, or "typed"
  filled,     \* whether the form has had its answer since it was opened
  blocked,    \* the forms whose Save is disabled
  checked,    \* the box of the second factor
  asking,     \* whether the form for its first code is shown
  renews,     \* whether new codes can be asked for
  codes,      \* the sets of codes shown
  items,      \* the clients the page lists, in order
  gets,       \* GETs under way, in the order they were asked: [get, id]
  call,       \* the changes under way: [do, id, with]
  out,        \* whether the browser has gone to the page of the login
  steps

vars == <<rows, factor, clients, at, listed, id, fields, filled, blocked, checked, asking,
          renews, codes, items, gets, call, out, steps>>

Everyone == User \cup {New}
Kept == <<rows, factor, clients>>
Form == <<id, fields, filled, checked, asking, renews, codes>>
Quiet == gets = <<>> /\ call = {}
Counts == ~out /\ steps < MaxSteps /\ steps' = steps + 1

Init ==
  /\ rows = [u \in User |-> u] /\ factor = [u \in Everyone |-> [on |-> FALSE, codes |-> 0]]
  /\ clients = {Client[i] : i \in DOMAIN Client}
  /\ at = "menu" /\ listed = [u \in {} |-> FALSE] /\ id = Me /\ fields = "typed" /\ filled = FALSE
  /\ blocked = {} /\ checked = FALSE /\ asking = FALSE /\ renews = FALSE /\ codes = <<>>
  /\ items = <<>> /\ gets = <<>> /\ call = {} /\ out = FALSE /\ steps = 0

-----------------------------------------------------------------------------
(* Pages.                                                                  *)

Goes(to) == Counts /\ (Hasty \/ call = {}) /\ at' = to
            /\ UNCHANGED <<Kept, blocked, items, call, out>>
Asks(get, u) == gets' = Append(gets, [get |-> get, id |-> u])

\* showUserSettings.
ShowUsers == Goes("users") /\ Asks("users", Me) /\ UNCHANGED <<listed, Form>>

\* showEditUserScreen: what was shown of another user's codes goes, his name
\* stays until the answer.
ShowEdit(u) ==
  /\ at = "users" /\ u \in DOMAIN listed /\ Goes("edit") /\ Asks("user", u)
  /\ id' = u /\ asking' = FALSE /\ codes' = <<>> /\ renews' = FALSE /\ filled' = FALSE
  /\ UNCHANGED <<listed, fields, checked>>

ShowAdd == /\ at = "users" /\ Goes("add") /\ UNCHANGED <<gets, listed, Form>>

\* showAuthorizationSettings.
ShowClients == Goes("clients") /\ Asks("clients", Me) /\ UNCHANGED <<listed, Form>>

\* The children are removed while the list of them is walked: every second one
\* stays, before those that are added.
Walked(s) == [i \in 1 .. Len(s) \div 2 |-> s[2 * i]]
Authorized ==
  LET still == {i \in DOMAIN Client : Client[i] \in clients}
      nth(k) == CHOOSE i \in still : Cardinality({j \in still : j <= i}) = k
  IN  [k \in 1 .. Cardinality(still) |-> Client[nth(k)]]

Got(g) ==
  CASE g.get = "users"   -> /\ listed' = [u \in DOMAIN rows |-> FALSE]
                            /\ UNCHANGED <<items, Form>>
    [] g.get = "clients" -> /\ items' = Walked(items) \o Authorized
                            /\ UNCHANGED <<listed, Form>>
    [] g.get = "user" /\ g.id \in DOMAIN rows ->
         /\ fields' = rows[g.id] /\ checked' = factor[g.id].on /\ filled' = TRUE
         /\ renews' = (renews \/ factor[g.id].on)
         /\ UNCHANGED <<listed, items, id, asking, codes>>
    [] g.get = "user" /\ g.id \notin DOMAIN rows -> UNCHANGED <<listed, items, Form>>
Answered ==
  \E i \in DOMAIN gets :
    /\ i = 1 \/ Overtakes
    /\ gets' = SubSeq(gets, 1, i - 1) \o SubSeq(gets, i + 1, Len(gets))
    /\ Got(gets[i])
    /\ UNCHANGED <<Kept, at, blocked, call, out, steps>>

-----------------------------------------------------------------------------
(* What the user does on them.                                             *)

Asked(do, u, with) == call' = call \cup {[do |-> do, id |-> u, with |-> with]}
Does(page) == /\ Counts /\ at = page /\ (Hasty \/ Quiet)
              /\ UNCHANGED <<Kept, at, id, filled, renews, gets, out>>

Type == /\ Does("edit") /\ fields' = "typed"
        /\ UNCHANGED <<listed, blocked, checked, asking, codes, items, call>>

\* Submit of either form.  A password that is not the one repeated is not
\* sent, and Save stays disabled.
Submit(page, repeated) ==
  /\ Does(page) /\ page \notin blocked
  /\ blocked' = blocked \cup {page}
  /\ IF repeated THEN Asked(page, id, fields) ELSE UNCHANGED call
  /\ UNCHANGED <<listed, fields, checked, asking, codes, items>>

\* handleRemove of a User.
Remove(u) == /\ Does("users") /\ u \in DOMAIN listed /\ ~listed[u]
             /\ listed' = [listed EXCEPT ![u] = TRUE]
             /\ Asked("remove", u, "none")
             /\ UNCHANGED <<fields, blocked, checked, asking, codes, items>>

\* The box of the second factor, its first code, and new codes for later.
Switch == /\ Does("edit") /\ checked' = ~checked
          /\ Asked(IF checked THEN "disable" ELSE "enable", id, "none")
          /\ UNCHANGED <<listed, fields, blocked, asking, codes, items>>
Verify(code) == /\ Does("edit") /\ asking
                /\ Asked("verify", id, code)
                /\ UNCHANGED <<listed, fields, blocked, checked, asking, codes, items>>
Renew == /\ Does("edit") /\ renews
         /\ Asked("renew", id, "none")
         /\ UNCHANGED <<listed, fields, blocked, checked, asking, codes, items>>

\* revokeAuthorization.
Revoke(i) == /\ Does("clients") /\ i \in DOMAIN items
             /\ Asked("revoke", items[i], i)
             /\ UNCHANGED <<listed, fields, blocked, checked, asking, codes, items>>

-----------------------------------------------------------------------------
(* The gateway's answers; the changes are made in any order.  A refused    *)
(* change is told, or logged, and the form can be sent again.              *)

Answer(c) == c \in call /\ call' = call \ {c} /\ UNCHANGED <<filled, steps>>
Open(page) == blocked' = blocked \ {page}

\* The list of users is shown, wherever the page is by then.
Stored(c, u, what) ==
  /\ rows' = [v \in DOMAIN rows \cup {u} |-> IF v = u THEN what ELSE rows[v]]
  /\ at' = "users" /\ Asks("users", Me)
  /\ UNCHANGED <<factor, clients, listed, id, fields, checked, asking, renews, codes, items, out>>
Refused == /\ UNCHANGED <<Kept, at, listed, id, fields, checked, asking, renews, codes, items,
                          gets, out>>
SaveEdit(c) == /\ c.do = "edit" /\ Answer(c) /\ Open("edit")
               /\ \/ c.id \in DOMAIN rows /\ Stored(c, c.id, c.with)
                  \/ Refused
SaveNew(c) == /\ c.do = "add" /\ Answer(c) /\ Open("add")
              /\ \/ New \notin DOMAIN rows /\ Stored(c, New, "typed")
                 \/ Refused

\* Who removes himself is logged out.
Removed(c) == /\ c.do = "remove" /\ Answer(c)
              /\ rows' = [u \in DOMAIN rows \ {c.id} |-> rows[u]]
              /\ listed' = [u \in DOMAIN listed \ {c.id} |-> listed[u]]
              /\ out' = (c.id = Me)
              /\ UNCHANGED <<factor, clients, at, id, fields, blocked, checked, asking, renews,
                             codes, items, gets>>

Factor(c, on, n) == factor' = [factor EXCEPT ![c.id] = [on |-> on, codes |-> n]]
Rest == UNCHANGED <<rows, clients, at, listed, id, fields, blocked, checked, items, gets, out>>
Enabled(c) == /\ c.do = "enable" /\ Answer(c) /\ asking' = TRUE
              /\ UNCHANGED <<factor, renews, codes>> /\ Rest
Disabled(c) == /\ c.do = "disable" /\ Answer(c) /\ asking' = FALSE /\ renews' = FALSE
               /\ Factor(c, FALSE, factor[c.id].codes)
               /\ UNCHANGED codes /\ Rest
\* The codes are added to those shown.
Verified(c) == /\ c.do = "verify" /\ Answer(c) /\ UNCHANGED renews /\ Rest
               /\ IF c.with = "right"
                  THEN /\ Factor(c, TRUE, factor[c.id].codes + 1) /\ asking' = FALSE
                       /\ codes' = Append(codes, factor[c.id].codes + 1)
                  ELSE UNCHANGED <<factor, asking, codes>>
Renewed(c) == /\ c.do = "renew" /\ Answer(c) /\ UNCHANGED <<asking, renews>> /\ Rest
              /\ Factor(c, factor[c.id].on, factor[c.id].codes + 1)
              /\ codes' = <<factor[c.id].codes + 1>>

Revoked(c) == /\ c.do = "revoke" /\ Answer(c)
              /\ clients' = clients \ {c.id}
              /\ items' = IF c.id \notin clients \/ c.with \notin DOMAIN items THEN items
                          ELSE SubSeq(items, 1, c.with - 1) \o SubSeq(items, c.with + 1, Len(items))
              /\ UNCHANGED <<rows, factor, at, listed, id, fields, blocked, checked, asking,
                             renews, codes, gets, out>>

Next == \/ ShowUsers \/ ShowAdd \/ ShowClients \/ Answered \/ Type \/ Switch \/ Renew
        \/ \E u \in Everyone : ShowEdit(u) \/ Remove(u)
        \/ \E page \in {"edit", "add"}, repeated \in BOOLEAN : Submit(page, repeated)
        \/ \E code \in {"right", "wrong"} : Verify(code)
        \/ \E i \in DOMAIN items : Revoke(i)
        \/ \E c \in call : \/ SaveEdit(c) \/ SaveNew(c) \/ Removed(c) \/ Enabled(c) \/ Disabled(c)
                           \/ Verified(c) \/ Renewed(c) \/ Revoked(c)

Spec == Init /\ [][Next]_vars

-----------------------------------------------------------------------------
(* A user's name and address are his own, or were typed in: the form never *)
(* gives one user those of another.                                        *)
NotMixed == \A u \in DOMAIN rows : rows[u] \in {u, "typed"}

(* With nothing under way, the form shows the user it is for; and the last *)
(* codes it shows are those that work for him.                             *)
FormIsHis ==
  at = "edit" /\ Quiet /\ id \in DOMAIN rows =>
    /\ filled => fields \in {id, "typed"}
    /\ codes # <<>> => codes[Len(codes)] = factor[id].codes

(* Every client that is authorized can be revoked on the page that lists   *)
(* them, whatever it lists besides.                                        *)
AllCanBeRevoked ==
  at = "clients" /\ Quiet => clients \subseteq {items[i] : i \in DOMAIN items}

UsersKeptApart == NotMixed /\ FormIsHis /\ AllCanBeRevoked
=============================================================================
