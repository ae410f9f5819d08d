-------------------------- MODULE ContactsDirectory -------------------------
(***************************************************************************)
(* What a set of contact operations of one directory means                 *)
(* (src/src/lib/contacts-v2-reducer.ts).                                   *)
(*                                                                         *)
(* An operation names the device that built it and its number there, which *)
(* stand for its random id, a Lamport clock, and what it does:             *)
(*   add, link, unlink    a contact to and off a persona's list            *)
(*   add-identity         gives the contact a key, under an item id        *)
(*   remove-item          takes an item off the contact                    *)
(*   remove, archive      delete the contact                               *)
(*   block, unblock       the second names the first                       *)
(*   origin               history of an add: changes nothing kept here.    *)
(* A contact and an item are named by the operation that created them.     *)
(* Names, tiers, roles, notes, pictures, methods, checks, vouches and      *)
(* ceilings are left out, and what only an app or another family may do.   *)
(***************************************************************************)
EXTENDS Naturals, FiniteSets, Folds, TLC

CONSTANTS Actor,    \* the actor of each device, ordered as the public keys are
          Tie       \* and the order that random ids give to devices of one actor

Nobody == <<"none", 0>>

Id(op) == <<op.dev, op.num>>

\* sortOperations: clock, then actor, then id.
Before(a, b) ==
    \/ a.clock < b.clock
    \/ a.clock = b.clock /\ Actor[a.dev] < Actor[b.dev]
    \/ a.clock = b.clock /\ Actor[a.dev] = Actor[b.dev] /\ Tie[a.dev] < Tie[b.dev]
    \/ a.clock = b.clock /\ a.dev = b.dev /\ a.num < b.num

Earliest(S) == CHOOSE op \in S : \A other \in S \ {op} : Before(op, other)
Latest(S)  == CHOOSE op \in S : \A other \in S \ {op} : Before(other, op)

-----------------------------------------------------------------------------
(* One operation on one record.                                            *)

NoRecord == [life |-> "none", lists |-> {}, items |-> {}, blocks |-> {}]

Gone == {"removed", "archived"}

\* Mutant of Applies: a tombstone takes no safety facts.
AppliesAlive(record, op) ==
    \/ op.act = "add" \/ record.life = "active"
    \/ record.life = "archived" /\ op.act = "remove"

\* A tombstone takes an add, the hardening of an archive and the safety facts.
Applies(record, op) ==
    \/ op.act = "add" \/ record.life = "active"
    \/ record.life = "archived" /\ op.act = "remove"
    \/ record.life \in Gone /\ op.act \in {"block", "unblock"}

\* linkContactList, for an operation that names a list.
Linked(record, list) ==
    [record EXCEPT !.lists = IF list = "none" THEN @ ELSE @ \cup {list}]

\* unlinkContactList: off the last list is off the directory.
Unlinked(record, list) ==
    IF list \notin record.lists THEN record
    ELSE [record EXCEPT !.lists = @ \ {list},
                        !.life = IF record.lists = {list} THEN "removed" ELSE @]

\* add-identity: a key the record already holds keeps its item.
WithKey(record, op) ==
    [record EXCEPT !.items = IF \E i \in @ : i.key = op.key THEN @
                             ELSE @ \cup {[item |-> op.item, key |-> op.key]}]

\* Only the actor that blocked may lift a block, once.
Lifted(record, op) ==
    [record EXCEPT !.blocks =
        {IF b.id = op.target /\ b.by = Actor[op.dev] THEN [id |-> b.id, by |-> b.by, lifted |-> TRUE]
         ELSE b : b \in @}]

Effect(record, op) ==
    CASE op.act = "add"          -> [Linked(record, op.list) EXCEPT !.life = "active"]
      [] op.act = "link"         -> Linked(record, op.list)
      [] op.act = "unlink"       -> Unlinked(record, op.list)
      [] op.act = "add-identity" -> WithKey(record, op)
      [] op.act = "remove-item"  -> [record EXCEPT !.items = {i \in @ : i.item # op.item}]
      [] op.act = "remove"       -> [record EXCEPT !.life = "removed", !.lists = {}]
      [] op.act = "archive"      -> [record EXCEPT !.life = "archived", !.lists = {}]
      [] op.act = "block"        -> [record EXCEPT !.blocks =
                                        @ \cup {[id |-> Id(op), by |-> Actor[op.dev], lifted |-> FALSE]}]
      [] op.act = "unblock"      -> Lifted(record, op)
      [] op.act = "origin"       -> record

ApplyOne(record, op) == IF Applies(record, op) THEN Effect(record, op) ELSE record

\* What validateOperation lets through: an operation with all its fields.
Acts == {"add", "link", "unlink", "add-identity", "remove-item", "remove", "archive", "block",
         "unblock", "origin"}

WellFormed(op) ==
    /\ op = [dev |-> op.dev, num |-> op.num, clock |-> op.clock, act |-> op.act, contact |-> op.contact,
             item |-> op.item, key |-> op.key, list |-> op.list, target |-> op.target]
    /\ op.act \in Acts
    /\ op.act = "add-identity" => op.key # "none" /\ op.item = Id(op)

AddedBefore(S, op) ==
    \E add \in S : add.act = "add" /\ add.contact = op.contact /\ (add = op \/ Before(add, op))

-----------------------------------------------------------------------------
(* The first replay finds the contacts that are one: a contact that gains  *)
(* a key joins every contact that holds it then.                           *)

Named(S) == {op.contact : op \in S}
KeysOf(S) == {op.key : op \in S} \ {"none"}

Apart(S) == [record |-> [c \in Named(S) |-> NoRecord], kin |-> [c \in Named(S) |-> {c}],
             holders |-> [k \in KeysOf(S) |-> {}], items |-> {}]

Gains(state, op) ==
    LET all == state.kin[op.contact] \cup UNION {state.kin[h] : h \in state.holders[op.key]} IN
    [state EXCEPT !.kin = [c \in DOMAIN @ |-> IF c \in all THEN all ELSE @[c]],
                  !.holders[op.key] = @ \cup {op.contact},
                  !.items = @ \cup {[item |-> op.item, key |-> op.key, contact |-> op.contact]}]

\* Mutant of Loses: the key that is taken off also splits the group.
LosesKin(state, op) == [state EXCEPT !.kin = [c \in DOMAIN @ |-> @[c] \ (@[op.contact] \ {c})]]

\* A key taken off a contact stops counting for the whole group.
Loses(state, op) ==
    LET kin == state.kin[op.contact]
        keys == {i.key : i \in {i \in state.items : i.item = op.item /\ i.contact \in kin}} IN
    [state EXCEPT !.holders = [k \in DOMAIN @ |-> IF k \in keys THEN @[k] \ kin ELSE @[k]]]

Meets(op, state) ==
    IF ~Applies(state.record[op.contact], op) THEN state
    ELSE LET next == [state EXCEPT !.record[op.contact] = Effect(@, op)] IN
         CASE op.act = "add-identity" -> Gains(next, op)
           [] op.act = "remove-item"  -> Loses(next, op)
           [] OTHER                   -> next

-----------------------------------------------------------------------------
(* The second replays a group under the id of its oldest contact, with one *)
(* item per key.                                                           *)

AddsOf(S, c) == {op \in S : op.act = "add" /\ op.contact = c}

Oldest(S, kin) == Earliest(UNION {AddsOf(S, c) : c \in kin}).contact

\* The item an identity of this contact became.
ItemOf(S, kin, c, item) ==
    LET named == {op \in S : op.act = "add-identity" /\ op.contact = c /\ op.item = item} IN
    IF named = {} THEN item
    ELSE Earliest({op \in S : /\ op.act = "add-identity" /\ op.contact \in kin[c]
                           /\ op.key \in {n.key : n \in named}}).item

\* Mutant of Join: the first add of a duplicate is an add like any other.
JoinAsAdd(record, op) == Effect(record, op)

\* The first add of a duplicate never revives the contact: it only links.
Join(record, op) == IF record.life \in Gone THEN record ELSE Linked(record, op.list)

GroupStep(S, kin, canon, records, op) ==
    LET c == canon[op.contact] IN
    [records EXCEPT ![c] =
        IF c # op.contact /\ op = Earliest(AddsOf(S, op.contact)) THEN Join(@, op)
        ELSE ApplyOne(@, [op EXCEPT !.contact = c, !.item = ItemOf(S, kin, op.contact, @)])]

Grouped(S, kin, canon) ==
    MapThenFoldSet(LAMBDA op, records : GroupStep(S, kin, canon, records, op),
                   [c \in {canon[d] : d \in DOMAIN canon} |-> NoRecord],
                   LAMBDA op : op, Latest, {op \in S : op.contact \in DOMAIN canon})

\* applyOperations: the record of every contact that was ever added, and the
\* id each id of it goes by.
Merged(S, met, canon) ==
    [record |-> IF \A c \in DOMAIN canon : canon[c] = c
                THEN [c \in DOMAIN canon |-> met.record[c]] ELSE Grouped(S, met.kin, canon),
     canon  |-> canon]

Resolve(S, met) ==
    Merged(S, met, [c \in {c \in Named(S) : met.record[c].life # "none"} |-> Oldest(S, met.kin[c])])

View(S) == Resolve(S, MapThenFoldSet(Meets, Apart(S), LAMBDA op : op, Latest, S))

\* The record an id leads to.
RecordOf(view, c) == view.record[view.canon[c]]
Group(view, c) == {d \in DOMAIN view.canon : view.canon[d] = view.canon[c]}

\* confirmMergeRefusal lets it through: the operations pull no contact into
\* the group of this one, nor it into another's.
Same(before, after, c) ==
    c \in DOMAIN before.canon => /\ after.canon[c] = before.canon[c]
                                 /\ Group(after, c) = Group(before, c)

StaysApart(S, planned, c) == Same(View(S), View(S \cup planned), c)

-----------------------------------------------------------------------------
(* What properties say of views.                                           *)

Alive(view, c) == RecordOf(view, c).life = "active"
KeysHeld(record) == {i.key : i \in record.items}

\* What the user asked for, on the record their contact has become.
Granted(t, old, new) ==
    CASE t.kind = "remove"       -> new.life \in Gone
      [] t.kind = "archive"      -> new.life \in Gone
      [] t.kind = "block"        -> \E b \in new.blocks : ~b.lifted /\ b \notin old.blocks
      [] t.kind = "unblock"      -> \A b \in new.blocks : b.id = t.target => b.lifted
      [] t.kind = "link"         -> old.life = "active" => t.list \in new.lists
      [] t.kind = "unlink"       -> t.list \notin new.lists
      [] t.kind = "add-identity" -> old.life = "active" => t.key \in KeysHeld(new)
      [] t.kind = "remove-item"  -> old.life = "active" => \A i \in new.items : i.item # t.item
      [] t.kind \in {"add", "clear"} -> TRUE

Recognises(t, record) ==
    record.life = "active" /\ t.key \in KeysHeld(record) /\ t.list \in record.lists

\* The call made contacts one that were not.
Joined(before, after) == \E c \in DOMAIN before.canon : Group(after, c) # Group(before, c)

Shows(t, before, after) ==
    \/ Joined(before, after)
    \/ IF t.kind = "recognise" THEN \E c \in DOMAIN after.record : Recognises(t, after.record[c])
       ELSE t.contact # Nobody => Granted(t, RecordOf(before, t.contact), RecordOf(after, t.contact))

Takes == {"remove-item", "remove", "archive", "unlink"}

\* What arrives took a key, or a contact, away before another contact gained a
\* key, in the order; or it comes before a key or a list was taken off.
Straggles(old, new) ==
    \E late \in new \ old, op \in old :
        /\ Before(late, op)
        /\ \/ op.act \in {"remove-item", "unlink"}
           \/ op.act = "add-identity" /\ late.act \in Takes

GroupsKept(before, after) ==
    \A c \in DOMAIN before.canon : Group(before, c) \subseteq Group(after, c)

Blocked(S, record, op) ==
    \E b \in record.blocks :
        /\ b.id = Id(op) /\ b.by = Actor[op.dev]
        /\ b.lifted => \E lift \in S : /\ lift.act = "unblock" /\ lift.target = Id(op)
                                       /\ Actor[lift.dev] = b.by /\ Before(op, lift)

BlocksHold(S, view) ==
    \A op \in {op \in S : op.act = "block"} : Blocked(S, RecordOf(view, op.contact), op)

Revived(S, group, r) ==
    \E c \in group : \E again \in AddsOf(S, c) : Before(r, again) /\ again # Earliest(AddsOf(S, c))

DeletionsHold(S, view) ==
    \A r \in {op \in S : op.act \in {"remove", "archive"}} :
        Alive(view, r.contact) => Revived(S, Group(view, r.contact), r)
=============================================================================
