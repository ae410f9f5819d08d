--------------------------- MODULE ContactsWriters --------------------------
(***************************************************************************)
(* The devices of one directory: what each shows, what its user asks for,  *)
(* and the operations it writes (useContactsV2, useFamilyContactsV2).      *)
(*                                                                         *)
(* Every call goes through the one queue of its device                     *)
(* (contacts-v2-queue.ts).  A task reads the log, stamps what it plans     *)
(* with the next Lamport clock, and saves: a contacts call all at once, a  *)
(* family call one operation after the other.  The rail merges operations  *)
(* of other devices into the log at any moment, past the queue, and queues *)
(* a reload.  ContactsRail says how operations travel; here another        *)
(* device's log arrives whole.                                             *)
(***************************************************************************)
EXTENDS ContactsDirectory, SequencesExt

CONSTANTS
    Devices, Keys, Lists,
    Start,             \* the operations every device has at the beginning
    FamilyOpen,        \* the devices with the family screen loaded
    Kinds,             \* what the user of each device asks for
    MaxCalls           \* bound: calls on each device

ASSUME WritersAssumption ==
    /\ Kinds \in [Devices -> SUBSET STRING]
    /\ MaxCalls \in [Devices -> Nat]
    /\ "none" \notin Keys \cup Lists
    /\ IsFiniteSet(Start)
    /\ \A op \in Start : op.clock \in Nat /\ op.dev \notin Devices
    /\ \A a, b \in Start : a.dev = b.dev /\ a.clock = b.clock => a = b

\* Ids decide between devices of one actor.
Authors == Devices \cup {op.dev : op \in Start}
ASSUME OrderAssumption ==
    /\ \A x \in Authors : Actor[x] \in Nat /\ Tie[x] \in Nat
    /\ \A x, y \in Authors : x # y => Actor[x] # Actor[y] \/ Tie[x] # Tie[y]

\* The initial operations are such as devices write: complete, each about a
\* contact that was added before and is named by one of them, and none named
\* like another.
ASSUME StartAssumption ==
    /\ \A op \in Start :
        WellFormed(op) /\ AddedBefore(Start, op) /\ op.contact \in {Id(o) : o \in Start}
    /\ \A a, b \in Start : Id(a) = Id(b) => a = b
    /\ "none" \notin Authors

VARIABLES
    log,               \* the operations stored on each device
    shown,             \* those its contact screen was made from (opsRef)
    clockRef,          \* the clock each of its two hooks remembers
    tasks,             \* its queue, the task under way first
    job,               \* what the task under way has planned: the operations
                       \* still to save, and the log it read
    calls              \* calls made, for the bound

vars == <<log, shown, clockRef, tasks, job, calls>>

NoJob == [pc |-> "idle", batch |-> <<>>, base |-> {}]
Idle(d) == job[d] = NoJob

Frontier(S) == IF S = {} THEN 0 ELSE CHOOSE n \in {op.clock : op \in S} : \A op \in S : op.clock <= n

Init ==
    /\ log = [d \in Devices |-> Start]
    /\ shown = [d \in Devices |-> Start]
    /\ clockRef = [d \in Devices |-> [contacts |-> Frontier(Start), family |-> Frontier(Start)]]
    /\ tasks = [d \in Devices |-> <<>>]
    /\ job = [d \in Devices |-> NoJob]
    /\ calls = [d \in Devices |-> 0]

-----------------------------------------------------------------------------
(* Calls: what the screen offers.                                          *)

Task(kind) == [kind |-> kind, contact |-> Nobody, item |-> Nobody, key |-> "none",
               list |-> "none", target |-> Nobody, confirm |-> FALSE, ids |-> {}]

\* One contact on the screen, and what is on it.
OnContact(view, d, c) ==
    LET record == view.record[c]
        On(kind) == [Task(kind) EXCEPT !.contact = c] IN
       {On("remove"), On("archive"), On("block")}
  \cup {[On("add-identity") EXCEPT !.key = k, !.confirm = b] : k \in Keys, b \in BOOLEAN}
  \cup {[On("remove-item") EXCEPT !.item = i.item] : i \in record.items}
  \cup {[On("link") EXCEPT !.list = l] : l \in Lists \ record.lists}
  \cup {[On("unlink") EXCEPT !.list = l] : l \in record.lists}
  \cup {[On("unblock") EXCEPT !.target = b.id] :
            b \in {b \in record.blocks : ~b.lifted /\ b.by = Actor[d]}}

OnList(view, l) ==
    {c \in DOMAIN view.canon : /\ view.canon[c] = c
                              /\ view.record[c].life = "active" /\ l \in view.record[c].lists}

\* Scanned contacts, and those that the family screen shares.
ByKey(d) ==
    {[Task(kind) EXCEPT !.key = k, !.list = l] :
        kind \in {"recognise"} \cup IF d \in FamilyOpen THEN {"share"} ELSE {}, k \in Keys, l \in Lists}

OnScreen(view, d) ==
       (UNION {OnContact(view, d, c) : c \in {c \in DOMAIN view.record : view.record[c].life = "active"}})
  \cup {[Task("add") EXCEPT !.list = l] : l \in Lists} \cup ByKey(d)
  \cup {[Task("clear") EXCEPT !.list = l, !.ids = OnList(view, l)] : l \in {l \in Lists : OnList(view, l) # {}}}

Offered(d) == {t \in OnScreen(View(shown[d]), d) : t.kind \in Kinds[d]}

Call(d) ==
    /\ calls[d] < MaxCalls[d]
    /\ \E t \in Offered(d) : tasks' = [tasks EXCEPT ![d] = Append(@, t)]
    /\ calls' = [calls EXCEPT ![d] = @ + 1]
    /\ UNCHANGED <<log, shown, clockRef, job>>

-----------------------------------------------------------------------------
(* Plans.                                                                  *)

\* Mutant of nextClock: what other devices wrote is not observed.
nextClockLocal(local, observed) == local + 1

nextClock(local, observed) == (IF local > observed THEN local ELSE observed) + 1

\* The n-th operation of a plan (buildOperation).
Built(d, n, clock, act, t) ==
    [dev |-> d, num |-> Cardinality({op \in log[d] : op.dev = d}) + n, clock |-> clock + n - 1,
     act |-> act, contact |-> t.contact, item |-> t.item, key |-> t.key, list |-> t.list,
     target |-> t.target]

OwnId(d, n) == <<d, Cardinality({op \in log[d] : op.dev = d}) + n>>
NewContact(d, t) == [t EXCEPT !.contact = OwnId(d, 1)]

\* Mutant of ContactsClock: the clock of what the screen shows.
ContactsClockShown(d) == nextClock(clockRef[d].contacts, Frontier(shown[d]))

ContactsClock(d) == nextClock(clockRef[d].contacts, Frontier(log[d]))

\* mutate: one operation; a new contact has its history with it.
Mutation(d, t) ==
    LET clock == ContactsClock(d) IN
    CASE t.kind = "add" ->
            <<Built(d, 1, clock, "add", NewContact(d, t)), Built(d, 2, clock, "origin", NewContact(d, t))>>
      [] t.kind = "add-identity" ->
            <<Built(d, 1, clock, "add-identity", [t EXCEPT !.item = OwnId(d, 1)])>>
      [] OTHER -> <<Built(d, 1, clock, t.kind, t)>>

\* A new contact on a list, and its key.
NewWithKey(d, clock, t) ==
    <<Built(d, 1, clock, "add", [NewContact(d, t) EXCEPT !.key = "none"]),
      Built(d, 2, clock, "add-identity", [NewContact(d, t) EXCEPT !.item = OwnId(d, 2), !.list = "none"])>>

\* recogniseContact: the contact that has the key is linked, or revived, or made.
Recognised(d, t, clock, view, having) ==
    IF having = {} THEN NewWithKey(d, clock, t)
    ELSE LET c == CHOOSE c \in having : TRUE IN
         <<Built(d, 1, clock, IF view.record[c].life \in Gone THEN "add" ELSE "link",
                 [t EXCEPT !.contact = c, !.key = "none"])>>

Having(view, key) == {c \in DOMAIN view.record : \E i \in view.record[c].items : i.key = key}

RecognisedIn(d, t, view) == Recognised(d, t, nextClock(0, Frontier(log[d])), view, Having(view, t.key))
Recognition(d, t) == RecognisedIn(d, t, View(log[d]))

\* unlinkContactsFromList: ids that are no longer canonical are passed over, and
\* a contact on no other list is left alone.
Clearable(view, t) == {c \in t.ids \cap OnList(view, t.list) : view.record[c].lists # {t.list}}

Clearing(d, t) ==
    LET order == SetToSeq(Clearable(View(log[d]), t)) clock == ContactsClock(d) IN
    [n \in DOMAIN order |-> Built(d, n, clock, "unlink", [t EXCEPT !.contact = order[n]])]

\* A share of the family screen to somebody this directory does not have.
Share(d, t) == NewWithKey(d, nextClock(clockRef[d].family, Frontier(log[d])), t)

PlanOf(d, t) ==
    CASE t.kind = "recognise" -> Recognition(d, t)
      [] t.kind = "clear"     -> Clearing(d, t)
      [] t.kind = "share"     -> Share(d, t)
      [] OTHER                -> Mutation(d, t)

HookOf(t) == IF t.kind = "share" THEN "family" ELSE "contacts"

\* confirmMergeRefusal, and a list that needs nothing taken off it.
Refused(d, t, batch) ==
    \/ batch = <<>>
    \/ t.confirm /\ ~StaysApart(log[d], {batch[1]}, t.contact)

\* mutate remembers its clock before anything is saved; the family hook the
\* clock of the operation it saves next; the two batch calls only what they saved.
Stamped(d, t, batch) ==
    IF batch = <<>> \/ t.kind \in {"recognise", "clear"} THEN clockRef[d]
    ELSE [clockRef[d] EXCEPT ![HookOf(t)] = batch[1].clock]

Decide(d, t, batch) ==
    /\ clockRef' = [clockRef EXCEPT ![d] = Stamped(d, t, batch)]
    /\ IF Refused(d, t, batch)
       THEN tasks' = [tasks EXCEPT ![d] = Tail(@)] /\ UNCHANGED job
       ELSE /\ job' = [job EXCEPT ![d] = [pc |-> HookOf(t), batch |-> batch, base |-> log[d]]]
            /\ UNCHANGED tasks

Plan(d) ==
    /\ Idle(d) /\ tasks[d] # <<>> /\ Head(tasks[d]).kind \notin {"reload", "reload-family"}
    /\ Decide(d, Head(tasks[d]), PlanOf(d, Head(tasks[d])))
    /\ UNCHANGED <<log, shown, calls>>

-----------------------------------------------------------------------------
(* Saves, merges and reloads.                                              *)

Written(batch) == {batch[i] : i \in DOMAIN batch}

EndTask(d) ==
    /\ tasks' = [tasks EXCEPT ![d] = Tail(@)]
    /\ job' = [job EXCEPT ![d] = NoJob]

\* One transaction; the screen is made from what was read and what was saved.
Save(d) ==
    /\ job[d].pc = "contacts"
    /\ log' = [log EXCEPT ![d] = @ \cup Written(job[d].batch)]
    /\ shown' = [shown EXCEPT ![d] = job[d].base \cup Written(job[d].batch)]
    /\ clockRef' = [clockRef EXCEPT ![d].contacts = job[d].batch[Len(job[d].batch)].clock]
    /\ EndTask(d)
    /\ UNCHANGED calls

\* applyOps saves one operation, stamps the next; the contact screen hears nothing.
SaveOne(d) ==
    /\ job[d].pc = "family"
    /\ LET batch == job[d].batch IN
        /\ log' = [log EXCEPT ![d] = @ \cup {Head(batch)}]
        /\ IF Len(batch) = 1 THEN EndTask(d) /\ UNCHANGED clockRef
           ELSE /\ job' = [job EXCEPT ![d].batch = Tail(@)]
                /\ clockRef' = [clockRef EXCEPT ![d].family = batch[2].clock]
                /\ UNCHANGED tasks
    /\ UNCHANGED <<shown, calls>>

\* Mutant of SaveFails: the screen keeps what was to be saved.
SaveFailsShown(d) ==
    /\ ~Idle(d)
    /\ EndTask(d)
    /\ shown' = [shown EXCEPT ![d] = job[d].base \cup Written(job[d].batch)]
    /\ UNCHANGED <<log, clockRef, calls>>

\* The store refuses: the call rejects, what an applyOps has saved stays.
SaveFails(d) ==
    /\ ~Idle(d)
    /\ EndTask(d)
    /\ UNCHANGED <<log, shown, clockRef, calls>>

Reloads(d) == <<Task("reload")>> \o IF d \in FamilyOpen THEN <<Task("reload-family")>> ELSE <<>>

\* Mutant of Merge: nothing is read anew.
MergeUnheard(d, e) ==
    /\ log[e] \ log[d] # {}
    /\ log' = [log EXCEPT ![d] = @ \cup log[e]]
    /\ UNCHANGED <<shown, clockRef, tasks, job, calls>>

\* The rail saves what it fetched, between any two steps of the queue, and has
\* the contacts read anew, and the family screen if it is open.
Merge(d, e) ==
    /\ log[e] \ log[d] # {}
    /\ log' = [log EXCEPT ![d] = @ \cup log[e]]
    /\ tasks' = [tasks EXCEPT ![d] = @ \o Reloads(d)]
    /\ UNCHANGED <<shown, clockRef, job, calls>>

Reload(d) ==
    /\ Idle(d) /\ tasks[d] # <<>> /\ Head(tasks[d]).kind = "reload"
    /\ shown' = [shown EXCEPT ![d] = log[d]]
    /\ clockRef' = [clockRef EXCEPT ![d].contacts = Frontier(log[d])]
    /\ tasks' = [tasks EXCEPT ![d] = Tail(@)]
    /\ UNCHANGED <<log, job, calls>>

ReloadFamily(d) ==
    /\ Idle(d) /\ tasks[d] # <<>> /\ Head(tasks[d]).kind = "reload-family"
    /\ clockRef' = [clockRef EXCEPT ![d].family = Frontier(log[d])]
    /\ tasks' = [tasks EXCEPT ![d] = Tail(@)]
    /\ UNCHANGED <<log, shown, job, calls>>

Next ==
    \E d \in Devices :
        \/ Call(d) \/ Plan(d) \/ Save(d) \/ SaveOne(d) \/ SaveFails(d) \/ Reload(d) \/ ReloadFamily(d)
        \/ \E e \in Devices : Merge(d, e)

Spec == Init /\ [][Next]_vars

-----------------------------------------------------------------------------
(* Properties.                                                             *)

Held == UNION {log[d] : d \in Devices}

TypeOK ==
    /\ \A d \in Devices : /\ Start \subseteq log[d] /\ shown[d] \subseteq log[d]
                          /\ job[d].base \subseteq log[d]
                          /\ job[d].pc \in {"idle", "contacts", "family"}
                          /\ calls[d] \in 0..MaxCalls[d]
    /\ \A op \in Held : op.clock \in Nat /\ op.dev \in Authors

(* An operation comes after everything the user saw when they asked for it, *)
(* in the order in which every device replays: whichever hook wrote it, and *)
(* whatever the rail merged in the meantime.                                *)
EffectFollowsCause ==
    [][\A d \in Devices : \A op \in log'[d] \ Held : \A seen \in shown[d] : Before(seen, op)]_vars

(* A device never stamps two operations alike, so that their order is never *)
(* left to their random ids: the queue keeps the two hooks apart.           *)
StampsDistinct ==
    \A a, b \in Held : a.dev = b.dev /\ a.clock = b.clock => a = b

(* With nothing queued, the screen shows the log, but for what the family   *)
(* hook of this device wrote.                                               *)
ScreenCatchesUp ==
    \A d \in Devices :
        tasks[d] = <<>> => \A op \in log[d] \ shown[d] : op.dev = d /\ op.act \in {"add", "add-identity"}

-----------------------------------------------------------------------------
(* What a call does to the screen, and what a merge does to contacts.      *)

(* A call that is saved does what the user asked for, on the screen it      *)
(* leaves: no operation the task had read outranks it, and the contact the  *)
(* user pointed at is found even if it has been merged into another since.  *)
(* A call that makes contacts one may do otherwise: what joins a deleted    *)
(* contact is deleted (contacts-v2-key-holders.ts says so).                 *)
CallShows ==
    [][\A d \in Devices :
        job[d].pc = "contacts" /\ log'[d] # log[d] /\ job'[d] = NoJob =>
            Shows(Head(tasks[d]), View(job[d].base), View(shown'[d]))]_vars

Learns(d) == log'[d] # log[d]

(* Contacts that are one stay one, unless what arrives had taken the key,   *)
(* or one of them, away before they became one, or makes more contacts one  *)
(* before a key is taken off, which is then taken off all of them.          *)
AliasKept ==
    [][\A d \in Devices : Learns(d) /\ ~Straggles(log[d], log'[d]) =>
        GroupsKept(View(log[d]), View(log'[d]))]_vars

(* A block stands on the contact it was put on, and on those that are one   *)
(* with it, until its author lifts it: whatever the contact is merged with, *)
(* removed or revived, and in whatever order that arrives.                  *)
BlockStands == \A d \in Devices : BlocksHold(log[d], View(log[d]))

(* A deleted contact comes back only by an add that somebody makes of it    *)
(* again: no edit, and no younger contact it turns out to be one with,      *)
(* undoes the deletion, in whatever order the operations arrived.           *)
RemovalStands == \A d \in Devices : DeletionsHold(log[d], View(log[d]))
=============================================================================
