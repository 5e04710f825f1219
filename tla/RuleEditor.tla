------------------------------ MODULE RuleEditor -----------------------------
(***************************************************************************)
(* The page that edits a rule (rule-screen.js, rules/Rule.js and the       *)
(* blocks a rule is put together from) and the page that lists the rules   *)
(* (rules-screen.js, RuleCard.js).  There is no button to save: every      *)
(* change of a block sends the whole rule, made anew from the blocks, and  *)
(* so does the end of show.  A rule that has no id yet is POSTed, and gets *)
(* its id from the answer.  A description keeps the set of its parts; all  *)
(* its effects on devices are SetEffects, or all PulseEffects, as the page *)
(* makes them.                                                             *)
(***************************************************************************)
EXTENDS Integers, SequencesExt, FiniteSets

CONSTANTS Device,        \* things with properties and actions: strings
          Sensor,        \* those with read-only properties and no actions
          Outlet,        \* outlets of notifiers: strings
          Stored,        \* the rules at the start, by id
          Hasty,         \* the user does not wait for answers
          MaxId,         \* bound: ids of rules
          MaxEdits,      \* bound: changes of the user, things that go, and a failure
          MaxShows,      \* bound: pages opened
          MaxBlocks      \* bound: blocks on the page

VARIABLES rules,         \* the engine's rules, by id
          things,        \* the devices and outlets the gateway has
          at,            \* the page shown: "list" or "rule"
          cards,         \* RuleCards of the list
          reading,       \* the list waits for getRules
          loads,         \* calls of RuleScreen.show under way
          known,         \* RuleScreen.gateway.things and .notifiers
          rule,          \* RuleScreen.rule; n = 0 when it is null
          blocks,        \* RuleScreen.partBlocks
          wish,          \* RuleScreen.ruleEffectType
          line,          \* requests that change a rule, in the order sent
          made,          \* what the user has made of each rule; 0 is the one without an id
          edits, shows,
          lost           \* history: whether a request has failed

vars == <<rules, things, at, cards, reading, loads, known, rule, blocks, wish, line, made,
          edits, shows, lost>>

Block == Device \cup Outlet \cup {"clock", "note"}
Role == {"trigger", "effect"}
Type == {"Set", "Pulse"}
Part == [as : Role, of : Block, value : 1 .. 2]
Description == [on : BOOLEAN, named : BOOLEAN, op : {"none", "AND", "OR"}, type : Type,
                parts : SUBSET Part]
EditorAssumption ==
  /\ IsFiniteSet(Device) /\ IsFiniteSet(Outlet) /\ MaxId \in Nat \ {0}
  /\ Device \cap (Outlet \cup {"clock", "note"}) = {}
  /\ DOMAIN Stored \subseteq 1 .. MaxId /\ Stored \in [DOMAIN Stored -> Description]

New == [on |-> TRUE, named |-> FALSE, op |-> "AND", type |-> "Set", parts |-> {}]
NoRule == [n |-> 0, id |-> 0, d |-> New]

Init == /\ rules = Stored /\ made = Stored /\ things = Device \cup Outlet
        /\ at = "list" /\ cards = {} /\ reading = TRUE /\ loads = {} /\ known = {}
        /\ rule = NoRule /\ blocks = <<>> /\ wish = "Set" /\ line = <<>>
        /\ edits = 0 /\ shows = 0 /\ lost = FALSE

\* A table with a row for i, and without it.
With(f, i, d) == [j \in DOMAIN f \cup {i} |-> IF j = i THEN d ELSE f[j]]
Without(f, i) == [j \in DOMAIN f \ {i} |-> f[j]]

Page == <<at, cards, reading, loads, known>>
Editor == <<rule, blocks, wish>>

-----------------------------------------------------------------------------
(* The description on the page.                                            *)

There(p, seen) == p.of \in seen \cup {"clock", "note"}
HasRole(d, role) == \E p \in d.parts : p.as = role

\* SetEffects and PulseEffects; the others are actions and notifications.
Typed(d) == \E p \in d.parts : p.as = "effect" /\ p.of \in Device /\ p.value = 1

\* A single trigger, op "none", becomes a MultiTrigger.
Wrapped(d) == [d EXCEPT !.op = IF @ = "none" THEN "AND" ELSE @]

\* What a card shows as "invalid", and an editor by the colour of its title bar.
SaysTrigger(d, seen) == /\ HasRole(d, "trigger")
                        /\ \A p \in d.parts : p.as = "trigger" => There(p, seen)
SaysEffect(d, seen) == /\ HasRole(d, "effect")
                       /\ \A p \in d.parts : p.as = "effect" => There(p, seen)
Valid(d, seen) == SaysTrigger(d, seen) /\ SaysEffect(d, seen)

\* "If" or "While": the type of the first effect that has one, "If" without.
Predicate(d) == IF Typed(d) THEN d.type ELSE "Set"

\* Faulty: the menu keeps the last choice, whatever the rule's effects are.
FaultyShown(d, w) == w

\* What the drop-down menu shows: the last choice as long as there is no effect.
Shown(d, w) == IF HasRole(d, "effect") THEN Predicate(d) ELSE w

\* The blocks that were not removed, in their order.
Left(bs) ==
  LET K == {i \in DOMAIN bs : bs[i].role # "removed"}
  IN [k \in 1 .. Cardinality(K) |-> bs[CHOOSE i \in K : Cardinality({j \in K : j <= i}) = k]]

\* The rule as onRuleChange makes it from the blocks.
FromBlocks(d, bs, type) == [d EXCEPT !.parts = UNION {b.part : b \in ToSet(bs)}, !.type = type]

\* The blocks that show makes: none for a part whose device or outlet is not there.
BlockOf(p) == [of |-> p.of, role |-> p.as, part |-> {p}, dom |-> TRUE]
BlocksOf(d, seen) ==
  LET ps == SetToSeq({p \in d.parts : There(p, seen)}) IN [i \in DOMAIN ps |-> BlockOf(ps[i])]

\* rule.update: a PUT, or a POST for a rule without an id.  A handler that
\* saves twice or three times sends the last description last.
Send(r) == line' = Append(line, [do |-> IF r.id = 0 THEN "post" ELSE "put",
                                 n |-> r.n, id |-> r.id, d |-> r.d])
Save(d, bs) == /\ rule' = [rule EXCEPT !.d = d] /\ blocks' = bs
               /\ Send(rule')

-----------------------------------------------------------------------------
(* The pages.                                                              *)

Quiet == line = <<>> /\ loads = {} /\ ~reading
Goes == shows < MaxShows /\ shows' = shows + 1 /\ (Hasty \/ Quiet)

ShowList == /\ Goes /\ at = "rule" /\ at' = "list" /\ reading' = TRUE
            /\ UNCHANGED <<rules, things, cards, loads, known, Editor, line, made, edits, lost>>

\* The box of a rule that is not valid is not checked, enabled or not.
CardOf(i) == [id |-> i, d |-> rules[i], checked |-> rules[i].on /\ Valid(rules[i], things)]

ReadRules == /\ reading /\ reading' = FALSE
             /\ cards' = {CardOf(i) : i \in DOMAIN rules}
             /\ UNCHANGED <<rules, things, at, loads, known, Editor, line, made, edits, shows,
                            lost>>

\* show takes the old blocks away; removeChild throws at the first that is not
\* on the page any more, and the call ends there.
Show(id) ==
  /\ Goes /\ at' = "rule" /\ rule' = NoRule /\ wish' = "Set"
  /\ LET stale == {i \in DOMAIN blocks : ~blocks[i].dom}
         upTo  == IF stale = {} THEN Len(blocks) ELSE Min(stale) - 1
     IN /\ blocks' = [i \in DOMAIN blocks |->
                        IF i <= upTo THEN [blocks[i] EXCEPT !.role = "removed", !.part = {},
                                                            !.dom = FALSE]
                                     ELSE blocks[i]]
        /\ loads' = IF stale = {}
                    THEN loads \cup {[n |-> shows', id |-> id, d |-> New,
                                      waits |-> IF id = 0 THEN {"things"} ELSE {"things", "rule"}]}
                    ELSE loads
  /\ UNCHANGED <<rules, things, cards, reading, known, line, made, edits, lost>>

Open == at = "list" /\ \E c \in cards : Show(c.id)
OpenNew == at = "list" /\ Show(0)

ReadThings(l) == /\ "things" \in l.waits /\ known' = things
                 /\ loads' = (loads \ {l}) \cup {[l EXCEPT !.waits = @ \ {"things"}]}
                 /\ UNCHANGED <<rules, things, at, cards, reading, Editor, line, made, edits, shows,
                                lost>>

\* The rule is asked for first and awaited last; without it show ends.
ReadRule(l) == /\ "rule" \in l.waits
               /\ loads' = (loads \ {l}) \cup
                           (IF l.id \in DOMAIN rules
                            THEN {[l EXCEPT !.waits = @ \ {"rule"}, !.d = Wrapped(rules[l.id])]}
                            ELSE {})
               /\ UNCHANGED <<rules, things, at, cards, reading, known, Editor, line, made,
                              edits, shows, lost>>

ShowEnds(l) ==
  /\ l.waits = {} /\ loads' = loads \ {l}
  /\ LET bs == Left([i \in DOMAIN blocks |-> [blocks[i] EXCEPT !.dom = FALSE]])
                  \o BlocksOf(l.d, known)
     IN /\ blocks' = bs
        /\ rule' = [n |-> l.n, id |-> l.id, d |-> FromBlocks(l.d, bs, Shown(l.d, wish))]
  /\ Send(rule')
  /\ made' = IF l.id = 0 THEN With(made, 0, New) ELSE made
  /\ UNCHANGED <<rules, things, at, cards, reading, known, wish, edits, shows, lost>>

Load == \E l \in loads : ReadThings(l) \/ ReadRule(l) \/ ShowEnds(l)

-----------------------------------------------------------------------------
(* The blocks.                                                             *)

Edits == /\ at = "rule" /\ rule.n # 0 /\ edits < MaxEdits /\ edits' = edits + 1
         /\ Hasty \/ \A i \in DOMAIN line : line[i].do # "post"
         /\ UNCHANGED <<rules, things, shows, lost, Page>>

Mine == IF rule.id \in DOMAIN made THEN made[rule.id] ELSE New
Makes(d) == made' = IF rule.id \in DOMAIN made THEN [made EXCEPT ![rule.id] = d] ELSE made

\* onUp: what a drag to the other side, or from the palette, makes of a block.
Takes(of, role) == CASE of = "clock" -> role = "trigger"
                     [] of = "note"  -> role = "effect"
                     [] OTHER        -> TRUE
First(of, role) ==
  CASE of \in Device -> {}
    [] of = "clock"  -> {[as |-> "trigger", of |-> of, value |-> 1]}
    [] OTHER         -> {[as |-> "effect", of |-> of, value |-> 1]}
Dropped(b, role) ==
  [b EXCEPT !.role = role,
            !.part = IF b.part # {} /\ (b.of \notin Device \/ role = b.role) THEN @
                     ELSE First(b.of, role)]

Changed(bs) == Save(FromBlocks(Wrapped(rule.d), bs, Shown(rule.d, wish)), bs)

\* The type of the effects is the one shown when the first of them is chosen.
Adds(d, ps) == [d EXCEPT !.parts = @ \cup ps,
                         !.type = IF Typed(rule.d) THEN @ ELSE Shown(rule.d, wish)]
Alike(b) == \E i \in DOMAIN blocks : b.part # {} /\ blocks[i].part = b.part

\* What there is to drag into the rule.
Palette == known \cup {"clock", "note"}

Drop(of, role) ==
  LET b == Dropped([of |-> of, role |-> "none", part |-> {}, dom |-> TRUE], role)
  IN /\ of \in Palette /\ Takes(of, role)
     /\ Len(blocks) < MaxBlocks /\ ~Alike(b)
     /\ Edits /\ Changed(Append(blocks, b)) /\ Makes(Adds(Mine, b.part))
     /\ UNCHANGED wish

Move(i, role) ==
  LET b == Dropped(blocks[i], role)
  IN /\ blocks[i].dom /\ role # blocks[i].role /\ Edits
     /\ Changed(IF Takes(b.of, role) THEN [blocks EXCEPT ![i] = b] ELSE RemoveAt(blocks, i))
     /\ Makes([Mine EXCEPT !.parts = IF Takes(b.of, role) /\ b.of \notin Device THEN @
                                     ELSE @ \ blocks[i].part])
     /\ UNCHANGED wish

Discard(i) == /\ blocks[i].dom /\ Edits /\ Changed(RemoveAt(blocks, i))
              /\ Makes([Mine EXCEPT !.parts = @ \ blocks[i].part])
              /\ UNCHANGED wish

Fills(i, b) == /\ blocks[i].dom /\ ~Alike(b) /\ Edits
               /\ Changed([blocks EXCEPT ![i] = b])
               /\ Makes(Adds([Mine EXCEPT !.parts = @ \ blocks[i].part], b.part))
               /\ UNCHANGED wish

\* What a device can be chosen for on each side: a property, or an event (2) on
\* the side of triggers, a property that is not read-only, or an action (2).
Options(of, role) == IF role = "effect" /\ of \in Sensor THEN {} ELSE 1 .. 2

Choose(i, value) ==
  /\ blocks[i].of \in Device /\ value \in Options(blocks[i].of, blocks[i].role)
  /\ Fills(i, [blocks[i] EXCEPT !.part = {[as |-> blocks[i].role, of |-> blocks[i].of,
                                          value |-> value]}])

\* The time of the clock, and the text of a notification.
Enter(i, value) ==
  LET as == IF blocks[i].of = "clock" THEN "trigger" ELSE "effect"
  IN /\ blocks[i].of \notin Device
     /\ Fills(i, [blocks[i] EXCEPT !.part = {[as |-> as, of |-> blocks[i].of, value |-> value]},
                                   !.role = as])

ChooseOp(op) == /\ op # rule.d.op /\ Edits
                /\ Save([FromBlocks(rule.d, blocks, Shown(rule.d, wish)) EXCEPT !.op = op], blocks)
                /\ Makes([Mine EXCEPT !.op = op])
                /\ UNCHANGED wish

ChooseType(type) == /\ type # Shown(rule.d, wish) /\ Edits
                    /\ wish' = type /\ Save(FromBlocks(rule.d, blocks, type), blocks)
                    /\ Makes([Mine EXCEPT !.type = type])

Rename == /\ ~rule.d.named /\ Edits /\ Save([rule.d EXCEPT !.named = TRUE], blocks)
          /\ Makes([Mine EXCEPT !.named = TRUE])
          /\ UNCHANGED wish

Edit == \/ \E of \in Block, role \in Role : Drop(of, role)
        \/ \E i \in DOMAIN blocks, role \in Role : Move(i, role)
        \/ \E i \in DOMAIN blocks : Discard(i)
        \/ \E i \in DOMAIN blocks, value \in 1 .. 2 : Choose(i, value) \/ Enter(i, value)
        \/ \E op \in {"AND", "OR"} : ChooseOp(op)
        \/ \E type \in Type : ChooseType(type)
        \/ Rename

-----------------------------------------------------------------------------
(* Delete, and the cards of the list.                                      *)

SendFor(do, id, d) == line' = Append(line, [do |-> do, n |-> 0, id |-> id, d |-> d])
Counts == /\ edits < MaxEdits /\ edits' = edits + 1
          /\ UNCHANGED <<rules, things, at, reading, loads, known, Editor, shows, lost>>

\* A rule without an id cannot be deleted: delete answers no promise, and nothing is sent.
DeleteShown == /\ at = "rule" /\ rule.id # 0 /\ rule.id \in DOMAIN made /\ Counts
               /\ SendFor("delete", rule.id, New) /\ made' = Without(made, rule.id)
               /\ UNCHANGED cards

DeleteCard(c) == /\ at = "list" /\ (Hasty \/ ~reading) /\ Counts
                 /\ SendFor("delete", c.id, New) /\ made' = Without(made, c.id)
                 /\ cards' = cards \ {c}

Toggle(c) == LET on == ~c.checked
                 d  == [c.d EXCEPT !.on = on]
             IN /\ at = "list" /\ (Hasty \/ ~reading) /\ Counts
                /\ SendFor("put", c.id, d)
                /\ made' = IF c.id \in DOMAIN made THEN [made EXCEPT ![c.id].on = on] ELSE made
                /\ cards' = (cards \ {c}) \cup {[c EXCEPT !.d = d, !.checked = on]}

-----------------------------------------------------------------------------
(* The gateway.                                                            *)

Fresh == CHOOSE i \in 1 .. MaxId : i \notin DOMAIN rules /\ \A j \in DOMAIN rules : j < i

\* The answer to a POST gives the rule on the page its id; PUT and DELETE of a
\* rule that is gone are refused, and the page is not told.  After a DELETE the
\* list is shown.
Serve ==
  LET q == Head(line) IN
  /\ line # <<>> /\ line' = Tail(line)
  /\ \/ /\ q.do = "post"
        /\ MaxId \notin DOMAIN rules
        /\ rules' = With(rules, Fresh, q.d)
        /\ rule' = IF rule.n = q.n THEN [rule EXCEPT !.id = Fresh] ELSE rule
        /\ made' = IF 0 \in DOMAIN made THEN Without(With(made, Fresh, made[0]), 0) ELSE made
        /\ UNCHANGED <<at, reading>>
     \/ /\ q.do = "put"
        /\ rules' = IF q.id \in DOMAIN rules THEN [rules EXCEPT ![q.id] = q.d] ELSE rules
        /\ UNCHANGED <<rule, made, at, reading>>
     \/ /\ q.do = "delete"
        /\ rules' = Without(rules, q.id)
        /\ at' = "list" /\ reading' = (reading \/ at = "rule")
        /\ UNCHANGED <<rule, made>>
  /\ UNCHANGED <<things, cards, loads, known, blocks, wish, edits, shows, lost>>

\* One request at most fails: the page is not told, and keeps what it has.
Fail == /\ line # <<>> /\ ~lost /\ line' = Tail(line) /\ lost' = TRUE
        /\ edits < MaxEdits /\ edits' = edits + 1
        /\ UNCHANGED <<rules, things, Page, Editor, made, shows>>

\* A device, or an outlet, goes for good.
Lose(t) == /\ t \in things /\ edits < MaxEdits /\ edits' = edits + 1
           /\ things' = things \ {t}
           /\ UNCHANGED <<rules, Page, Editor, line, made, shows, lost>>

Next == \/ ShowList \/ ReadRules \/ Open \/ OpenNew \/ Load
        \/ Edit \/ DeleteShown \/ (\E c \in cards : DeleteCard(c) \/ Toggle(c))
        \/ Serve \/ Fail \/ (\E t \in things : Lose(t))

Spec == Init /\ [][Next]_vars

-----------------------------------------------------------------------------
\* Once nothing is under way, and unless a request has failed, each rule of the
\* gateway is what its user has made of it, over all the changes of its blocks, its menus and its card:
\* opening a rule, which sends it again, changes nothing but the parts of
\* devices that are gone, and what is not on the page is not touched
\* (RuleScreen.onRuleChange, show, Rule.update, RuleCard).
Now(d) == LET ps == {p \in d.parts : There(p, things)}
          IN [Wrapped(d) EXCEPT !.parts = ps,
                                !.type = IF Typed([d EXCEPT !.parts = ps]) THEN @ ELSE "Set"]
SavedAsMade ==
  Quiet /\ ~lost => [i \in DOMAIN rules |-> Now(rules[i])] = [i \in DOMAIN made |-> Now(made[i])]
=============================================================================
