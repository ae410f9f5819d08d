----------------------------- MODULE ContactsRail ---------------------------
(***************************************************************************)
(* The contacts sync rail: hooks/useContactsV2Sync.ts over                 *)
(* lib/contacts-v2-sync.ts.  Every device of one person keeps an           *)
(* append-only log of contact operations.  The relays keep, per tag, the   *)
(* newest event: one checkpoint shared by all devices, which folds a whole *)
(* log and lists the devices whose outboxes a reader must also fetch, and  *)
(* one outbox per device.                                                  *)
(*                                                                         *)
(* An operation is a member of Ops: its body never matters here, only      *)
(* whose log holds it.  A checkpoint fits one envelope (CheckpointChunks   *)
(* has the chunked form).  Whether a checkpoint is over a day old is a     *)
(* free choice at each decision.                                           *)
(***************************************************************************)
EXTENDS Integers, Sequences, FiniteSets

CONSTANTS
    Devices,           \* installs signed in as the same person
    Relays,            \* the pool, read and written by every device
    Ops,               \* bound: the operations the devices may author
    MaxIds,            \* MAX_DEVICE_IDS
    Threshold,         \* OUTBOX_CHECKPOINT_THRESHOLD
    MaxOutbox,         \* MAX_OPS_PER_PAYLOAD
    MaxLog,            \* MAX_CHECKPOINT_OPS
    MaxStamp,          \* bound: events signed
    Disturbances,      \* what may go wrong, see below
    CheckpointTag      \* the shared tag; an outbox's tag is its device

(* "partial"  some relays do not answer a read                              *)
(* "opaque"   the checkpoint cannot be opened                               *)
(* "silent"   the signer refuses, or no relay confirms in time              *)
(* "merge"    the fetched operations cannot be saved                        *)
(* "refetch"  the relay list is edited, or the app locked and unlocked,     *)
(*            while the page lives on                                       *)
(* "close"    the page goes away                                            *)
DisturbanceKinds == {"partial", "opaque", "silent", "merge", "refetch", "close"}

ASSUME RailAssumption ==
    /\ Relays # {}
    /\ CheckpointTag \notin Devices
    /\ MaxIds \in Nat \ {0}
    /\ Threshold \in Nat
    /\ MaxOutbox \in Nat
    /\ MaxLog \in Nat
    /\ MaxStamp \in Nat
    /\ Disturbances \subseteq DisturbanceKinds

VARIABLES
    held,              \* the newest event each relay holds per tag
    wire,              \* signed events on their way to a relay
    now,               \* the created_at of the last event signed
    log,               \* IndexedDB: the operations a device holds
    seen,              \* IndexedDB: syncSeen, the last checkpoint adopted from a read
    app,               \* whether the page lives
    ref,               \* checkpointRef and checkpointStateRef
    high,              \* persistedSeqRef; 0 for null
    remote,            \* remoteState, as far as the publish gate reads it
    hydrated,
    fetch,             \* the running fetch
    timer,             \* publishes scheduled: by the effect, by a re-arm
    pending,           \* pendingRef
    cycle,             \* the publish cycle in flight
    lastSent           \* lastPublishedHashRef, as the set it identifies

relayVars  == <<held, wire, now>>
storeVars  == <<log, seen>>
memoryVars == <<ref, high, remote, hydrated, lastSent>>
cycleVars  == <<timer, pending, cycle>>
vars == <<relayVars, storeVars, app, memoryVars, fetch, cycleVars>>

-----------------------------------------------------------------------------
Tags    == Devices \cup {CheckpointTag}
\* base, the operations of the checkpoint the author had adopted, is not sent.
Events  == [tag : Tags, seq : Nat, ids : Seq(Devices), ops : SUBSET Ops,
            base : SUBSET Ops, stamp : Nat]
Mails   == [to : Relays, from : Devices, event : Events]
Nothing(t) == [tag |-> t, seq |-> 0, ids |-> <<>>, ops |-> {}, base |-> {}, stamp |-> 0]

CheckpointStates == {"absent", "present", "unusable"}
Refs    == [state : CheckpointStates, seq : Nat, ids : Seq(Devices), ops : SUBSET Ops]
Marks   == [seq : Nat, stamp : Nat]
Fetches == [pc : {"none", "probe", "outboxes", "merge"}, mark : Marks, found : Events,
            state : CheckpointStates, todo : Seq(Devices), got : SUBSET Ops]
Cycles  == [pc : {"idle", "read", "sent"}, ops : SUBSET Ops, event : Events, landed : BOOLEAN]

NoRef   == [state |-> "absent", seq |-> 0, ids |-> <<>>, ops |-> {}]
NoMark  == [seq |-> 0, stamp |-> 0]
NoFetch == [pc |-> "none", mark |-> NoMark, found |-> Nothing(CheckpointTag),
            state |-> "absent", todo |-> <<>>, got |-> {}]
Idle    == [pc |-> "idle", ops |-> {}, event |-> Nothing(CheckpointTag), landed |-> FALSE]

MaxOf(a, b)  == IF a >= b THEN a ELSE b
Listed(ids)  == {ids[i] : i \in DOMAIN ids}

\* The last MaxIds of the list with d on it.
MergeIds(ids, d) ==
    LET all == IF d \in Listed(ids) THEN ids ELSE Append(ids, d)
        n   == Len(all)
    IN  IF n <= MaxIds THEN all ELSE SubSeq(all, n - MaxIds + 1, n)

\* Any event of tag t with the greatest created_at among the relays of R.
Newest(R, t) ==
    {held[r][t] : r \in {q \in R : \A p \in R : held[p][t].stamp <= held[q][t].stamp}}

\* The relays that answer a read.
Answering == IF "partial" \in Disturbances THEN SUBSET Relays ELSE {Relays}

TypeOK ==
    /\ held \in [Relays -> [Tags -> Events]]
    /\ wire \subseteq Mails
    /\ now \in Nat
    /\ log \in [Devices -> SUBSET Ops]
    /\ seen \in [Devices -> Marks]
    /\ app \in [Devices -> {"closed", "open"}]
    /\ ref \in [Devices -> Refs]
    /\ high \in [Devices -> Nat]
    /\ remote \in [Devices -> {"unknown", "unreachable", "answered"}]
    /\ hydrated \in [Devices -> BOOLEAN]
    /\ fetch \in [Devices -> Fetches]
    /\ timer \in [Devices -> SUBSET {"effect", "rearm"}]
    /\ pending \in [Devices -> BOOLEAN]
    /\ cycle \in [Devices -> Cycles]
    /\ lastSent \in [Devices -> SUBSET Ops]

Init ==
    /\ held = [r \in Relays |-> [t \in Tags |-> Nothing(t)]]
    /\ wire = {}
    /\ now = 0
    /\ log = [d \in Devices |-> {}]
    /\ seen = [d \in Devices |-> NoMark]
    /\ app = [d \in Devices |-> "closed"]
    /\ ref = [d \in Devices |-> NoRef]
    /\ high = [d \in Devices |-> 0]
    /\ remote = [d \in Devices |-> "unknown"]
    /\ hydrated = [d \in Devices |-> FALSE]
    /\ fetch = [d \in Devices |-> NoFetch]
    /\ timer = [d \in Devices |-> {}]
    /\ pending = [d \in Devices |-> FALSE]
    /\ cycle = [d \in Devices |-> Idle]
    /\ lastSent = [d \in Devices |-> {}]

-----------------------------------------------------------------------------
(* The app and its log.                                                    *)

\* Past this gate the publish effect arms its timer each time it re-runs.  It
\* clears the timer it armed before, never one that a cycle re-armed.
Gate(d) == hydrated[d] /\ remote[d] # "unreachable"

\* A mutation saves an operation nobody has authored before.
Edit(d) ==
    /\ app[d] = "open"
    /\ \E op \in Ops \ UNION {log[e] : e \in Devices} :
           log' = [log EXCEPT ![d] = @ \cup {op}]
    /\ timer' = [timer EXCEPT ![d] = (@ \ {"effect"}) \cup (IF Gate(d) THEN {"effect"} ELSE {})]
    /\ UNCHANGED <<relayVars, seen, app, memoryVars, fetch, pending, cycle>>

\* The fetch effect starts over; publishing waits for it.
StartFetch(d) ==
    /\ high' = [high EXCEPT ![d] = MaxOf(@, seen[d].seq)]
    /\ hydrated' = [hydrated EXCEPT ![d] = FALSE]
    /\ timer' = [timer EXCEPT ![d] = @ \ {"effect"}]
    /\ fetch' = [fetch EXCEPT ![d] = [NoFetch EXCEPT !.pc = "probe", !.mark = seen[d]]]
    /\ UNCHANGED <<relayVars, seen, ref, remote, lastSent, pending, cycle>>

Open(d) ==
    /\ app[d] = "closed"
    /\ app' = [app EXCEPT ![d] = "open"]
    /\ StartFetch(d)
    /\ UNCHANGED log

\* An unreachable pool is read again after a while, or once back online.  The
\* timer may also fire during a fetch, which is then begun anew: left out.
Retry(d) ==
    /\ app[d] = "open" /\ remote[d] = "unreachable" /\ fetch[d].pc = "none"
    /\ StartFetch(d)
    /\ UNCHANGED <<app, log>>

\* The fetch under way is dropped, but a save it has begun completes.
Refetch(d) ==
    /\ "refetch" \in Disturbances
    /\ app[d] = "open"
    /\ StartFetch(d)
    /\ \/ UNCHANGED log
       \/ fetch[d].pc = "merge" /\ log' = [log EXCEPT ![d] = @ \cup fetch[d].got]
    /\ UNCHANGED app

\* Everything not in IndexedDB is lost; events already sent may still arrive.
Close(d) ==
    /\ "close" \in Disturbances
    /\ app[d] = "open"
    /\ app' = [app EXCEPT ![d] = "closed"]
    /\ ref' = [ref EXCEPT ![d] = NoRef]
    /\ high' = [high EXCEPT ![d] = 0]
    /\ remote' = [remote EXCEPT ![d] = "unknown"]
    /\ hydrated' = [hydrated EXCEPT ![d] = FALSE]
    /\ lastSent' = [lastSent EXCEPT ![d] = {}]
    /\ fetch' = [fetch EXCEPT ![d] = NoFetch]
    /\ timer' = [timer EXCEPT ![d] = {}]
    /\ pending' = [pending EXCEPT ![d] = FALSE]
    /\ cycle' = [cycle EXCEPT ![d] = Idle]
    /\ UNCHANGED <<relayVars, storeVars>>

-----------------------------------------------------------------------------
(* Fetching: the checkpoint, then one outbox after another, then the       *)
(* verdict on the checkpoint, then the merge.                              *)

Unreachable(d) ==
    /\ fetch[d].pc = "probe"
    /\ {} \in Answering
    /\ remote' = [remote EXCEPT ![d] = "unreachable"]
    /\ hydrated' = [hydrated EXCEPT ![d] = TRUE]
    /\ fetch' = [fetch EXCEPT ![d] = NoFetch]
    /\ UNCHANGED <<relayVars, storeVars, app, ref, high, lastSent, cycleVars>>

\* Older than the checkpoint this device has recorded.
RolledBack(c, mark) == c.seq < mark.seq \/ c.stamp < mark.stamp

\* Mutant of Verdict: no comparison with the recorded checkpoint.
VerdictTrusting(c, opened, mark) ==
    IF c.stamp = 0 THEN "absent" ELSE IF opened THEN "present" ELSE "unusable"

Verdict(c, opened, mark) ==
    IF c.stamp = 0 THEN "absent"
    ELSE IF opened /\ ~RolledBack(c, mark) THEN "present"
    ELSE "unusable"

\* The outboxes to read: those of the devices listed, and this device's own.
ProbeResult(d, c, opened) ==
    [pc    |-> "outboxes",
     mark  |-> fetch[d].mark,
     found |-> IF opened THEN c ELSE Nothing(CheckpointTag),
     state |-> Verdict(c, opened, fetch[d].mark),
     todo  |-> MergeIds(IF opened THEN c.ids ELSE <<>>, d),
     got   |-> IF opened THEN c.ops ELSE {}]

Probe(d) ==
    /\ fetch[d].pc = "probe"
    /\ \E R \in Answering \ {{}} : \E c \in Newest(R, CheckpointTag), opened \in BOOLEAN :
        /\ opened \/ ("opaque" \in Disturbances /\ c.stamp > 0)
        /\ fetch' = [fetch EXCEPT ![d] = ProbeResult(d, c, opened)]
    /\ UNCHANGED <<relayVars, storeVars, app, memoryVars, cycleVars>>

\* An outbox that cannot be read is skipped.
ReadOutbox(d) ==
    /\ fetch[d].pc = "outboxes" /\ fetch[d].todo # <<>>
    /\ \E R \in Answering :
       \E add \in {e.ops : e \in Newest(R, Head(fetch[d].todo))}
                      \cup (IF R = {} \/ "opaque" \in Disturbances THEN {{}} ELSE {}) :
           fetch' = [fetch EXCEPT ![d].todo = Tail(@), ![d].got = @ \cup add]
    /\ UNCHANGED <<relayVars, storeVars, app, memoryVars, cycleVars>>

\* Mutant of Learn: the high-water mark follows whatever was found.
LearnUnguarded(d) ==
    LET f == fetch[d]
        c == f.found
        adopted == f.state = "present"
    IN  /\ f.pc = "outboxes" /\ f.todo = <<>>
        /\ ref' = [ref EXCEPT ![d] = IF adopted
               THEN [state |-> "present", seq |-> c.seq, ids |-> c.ids, ops |-> c.ops]
               ELSE [NoRef EXCEPT !.state = f.state]]
        /\ seen' = [seen EXCEPT ![d] = IF adopted THEN [seq |-> c.seq, stamp |-> c.stamp] ELSE @]
        /\ high' = [high EXCEPT ![d] = c.seq]
        /\ remote' = [remote EXCEPT ![d] = "answered"]
        /\ fetch' = [fetch EXCEPT ![d].pc = "merge"]
        /\ UNCHANGED <<relayVars, log, app, hydrated, lastSent, cycleVars>>

\* Only a checkpoint this device may compact over is recorded.
Learn(d) ==
    LET f == fetch[d]
        c == f.found
        adopted == f.state = "present"
    IN  /\ f.pc = "outboxes" /\ f.todo = <<>>
        /\ ref' = [ref EXCEPT ![d] = IF adopted
               THEN [state |-> "present", seq |-> c.seq, ids |-> c.ids, ops |-> c.ops]
               ELSE [NoRef EXCEPT !.state = f.state]]
        /\ seen' = [seen EXCEPT ![d] = IF adopted THEN [seq |-> c.seq, stamp |-> c.stamp] ELSE @]
        /\ high' = [high EXCEPT ![d] = IF adopted THEN MaxOf(@, c.seq) ELSE @]
        /\ remote' = [remote EXCEPT ![d] = "answered"]
        /\ fetch' = [fetch EXCEPT ![d].pc = "merge"]
        /\ UNCHANGED <<relayVars, log, app, hydrated, lastSent, cycleVars>>

\* Mutants of Merge: the fetched log takes the place of the device's own; the
\* fetch counts as done before anything is saved.
MergeInto(d, newLog) ==
    /\ fetch[d].pc = "merge"
    /\ log' = [log EXCEPT ![d] = newLog]
    /\ hydrated' = [hydrated EXCEPT ![d] = TRUE]
    /\ timer' = [timer EXCEPT ![d] = @ \cup {"effect"}]
    /\ fetch' = [fetch EXCEPT ![d] = NoFetch]
    /\ UNCHANGED <<relayVars, seen, app, ref, high, remote, lastSent, pending, cycle>>
MergeReplaces(d) == MergeInto(d, fetch[d].got)
MergeForgets(d)  == MergeInto(d, log[d])

\* A failed save is swallowed: the fetch counts as done all the same.
Merge(d) ==
    /\ fetch[d].pc = "merge"
    /\ \E saved \in BOOLEAN :
        /\ saved \/ ("merge" \in Disturbances /\ ~(fetch[d].got \subseteq log[d]))
        /\ log' = [log EXCEPT ![d] = IF saved THEN @ \cup fetch[d].got ELSE @]
    /\ hydrated' = [hydrated EXCEPT ![d] = TRUE]
    /\ timer' = [timer EXCEPT ![d] = @ \cup {"effect"}]
    /\ fetch' = [fetch EXCEPT ![d] = NoFetch]
    /\ UNCHANGED <<relayVars, seen, app, ref, high, remote, lastSent, pending, cycle>>

-----------------------------------------------------------------------------
(* Publishing: one cycle at a time.                                        *)

\* The timer fires: read the log, or leave a note for the cycle in flight.  The
\* code reads it without publishExcludedDirectories; the log here is that of
\* the directories that are published.
Fire(d) ==
    /\ \E t \in timer[d] : timer' = [timer EXCEPT ![d] = @ \ {t}]
    /\ \/ /\ cycle[d].pc = "idle"
          /\ cycle' = [cycle EXCEPT ![d] = [Idle EXCEPT !.pc = "read", !.ops = log[d]]]
          /\ UNCHANGED pending
       \/ /\ cycle[d].pc # "idle"
          /\ pending' = [pending EXCEPT ![d] = TRUE]
          /\ UNCHANGED cycle
    /\ UNCHANGED <<relayVars, storeVars, app, memoryVars, fetch>>

\* Mutant of EndCycle: the collision is forgotten.
EndCycleForgets(d) ==
    /\ cycle' = [cycle EXCEPT ![d] = Idle]
    /\ pending' = [pending EXCEPT ![d] = FALSE]
    /\ UNCHANGED timer

\* The end of a cycle re-arms once if another one collided with it.
EndCycle(d) ==
    /\ cycle' = [cycle EXCEPT ![d] = Idle]
    /\ timer' = [timer EXCEPT ![d] = @ \cup (IF pending[d] THEN {"rearm"} ELSE {})]
    /\ pending' = [pending EXCEPT ![d] = FALSE]

\* The operations the adopted checkpoint does not carry.
Outbox(d) == cycle[d].ops \ ref[d].ops

\* Mutant of CheckpointDue: a device that is not listed does not mind.
CheckpointDueUnlisted(d, aged) ==
    /\ ref[d].state # "unusable"
    /\ \/ ref[d].state = "absent"
       \/ Cardinality(Outbox(d)) > Threshold
       \/ Outbox(d) # {} /\ aged

\* shouldPublishCheckpoint
CheckpointDue(d, aged) ==
    /\ ref[d].state # "unusable"
    /\ \/ ref[d].state = "absent"
       \/ Cardinality(Outbox(d)) > Threshold
       \/ Outbox(d) # {} /\ aged
       \/ d \notin Listed(ref[d].ids)

TooLarge(d) == Cardinality(cycle[d].ops) > MaxLog

\* Mutants of NextSeq: counted down; not counted; without the high-water mark.
NextSeqDown(d)    == MaxOf(ref[d].seq, high[d]) - 1
NextSeqRepeats(d) == MaxOf(ref[d].seq, high[d])
NextSeqForgets(d) == ref[d].seq + 1

NextSeq(d) == MaxOf(ref[d].seq, high[d]) + 1

\* Seal, sign and send one event to every relay of the pool.
Send(d, event) ==
    /\ now < MaxStamp
    /\ now' = now + 1
    /\ wire' = wire \cup {[to |-> r, from |-> d, event |-> event] : r \in Relays}
    /\ cycle' = [cycle EXCEPT ![d].pc = "sent", ![d].event = event]
    /\ UNCHANGED <<held, storeVars, app, memoryVars, fetch, timer, pending>>

\* Mutant of Compact: the outbox is folded in, not the whole log.
CompactsOutbox(d) ==
    /\ cycle[d].pc = "read"
    /\ \E aged \in BOOLEAN : CheckpointDue(d, aged)
    /\ ~TooLarge(d)
    /\ cycle[d].ops # {}
    /\ Send(d, [tag |-> CheckpointTag, seq |-> NextSeq(d), ids |-> MergeIds(ref[d].ids, d),
                ops |-> Outbox(d), base |-> ref[d].ops, stamp |-> now + 1])

Compact(d) ==
    /\ cycle[d].pc = "read"
    /\ \E aged \in BOOLEAN : CheckpointDue(d, aged)
    /\ ~TooLarge(d)
    /\ cycle[d].ops # {}
    /\ Send(d, [tag |-> CheckpointTag, seq |-> NextSeq(d), ids |-> MergeIds(ref[d].ids, d),
                ops |-> cycle[d].ops, base |-> ref[d].ops, stamp |-> now + 1])

\* The outbox leg runs when no checkpoint is due, or the log is too large for one.
OutboxLeg(d) == (\E aged \in BOOLEAN : ~CheckpointDue(d, aged)) \/ TooLarge(d)

OutboxSendable(d) ==
    /\ Outbox(d) # {}
    /\ Outbox(d) # lastSent[d]
    /\ Cardinality(Outbox(d)) <= MaxOutbox

SendOutbox(d) ==
    /\ cycle[d].pc = "read"
    /\ OutboxLeg(d)
    /\ OutboxSendable(d)
    /\ Send(d, [tag |-> d, seq |-> 0, ids |-> <<>>, ops |-> Outbox(d), base |-> {},
                stamp |-> now + 1])

\* Nothing to send: an empty log, or an outbox that is empty, too big or sent before.
NothingToSend(d) ==
    /\ cycle[d].pc = "read"
    /\ \/ (\E aged \in BOOLEAN : CheckpointDue(d, aged)) /\ ~TooLarge(d) /\ cycle[d].ops = {}
       \/ OutboxLeg(d) /\ ~OutboxSendable(d)
    /\ EndCycle(d)
    /\ UNCHANGED <<relayVars, storeVars, app, memoryVars, fetch>>

\* The signer refuses, or no relay confirms in time.  Sent events stay on the wire.
SendFails(d) ==
    /\ "silent" \in Disturbances
    /\ cycle[d].pc \in {"read", "sent"}
    /\ EndCycle(d)
    /\ UNCHANGED <<relayVars, storeVars, app, memoryVars, fetch>>

\* A relay keeps the newer of two events with one tag.
Arrive(m) ==
    /\ m \in wire
    /\ wire' = wire \ {m}
    /\ held' = IF m.event.stamp > held[m.to][m.event.tag].stamp
                 THEN [held EXCEPT ![m.to][m.event.tag] = m.event] ELSE held
    /\ cycle' = IF cycle[m.from].pc = "sent" /\ cycle[m.from].event = m.event
                 THEN [cycle EXCEPT ![m.from].landed = TRUE] ELSE cycle
    /\ UNCHANGED <<now, storeVars, app, memoryVars, fetch, timer, pending>>

\* The first relay to confirm ends the wait; what was sent is adopted.
Confirmed(d) ==
    LET e == cycle[d].event
    IN  /\ cycle[d].pc = "sent" /\ cycle[d].landed
        /\ \/ /\ e.tag = CheckpointTag
              /\ ref' = [ref EXCEPT ![d] =
                     [state |-> "present", seq |-> e.seq, ids |-> e.ids, ops |-> e.ops]]
              /\ high' = [high EXCEPT ![d] = e.seq]
              /\ UNCHANGED lastSent
           \/ /\ e.tag # CheckpointTag
              /\ lastSent' = [lastSent EXCEPT ![d] = e.ops]
              /\ UNCHANGED <<ref, high>>
        /\ EndCycle(d)
        /\ UNCHANGED <<relayVars, storeVars, app, remote, hydrated, fetch>>

-----------------------------------------------------------------------------
Fetching(d)   == Unreachable(d) \/ Probe(d) \/ ReadOutbox(d) \/ Learn(d) \/ Merge(d)
Publishing(d) == Fire(d) \/ Compact(d) \/ SendOutbox(d) \/ NothingToSend(d) \/ Confirmed(d)

Next ==
    \/ \E d \in Devices : \/ Edit(d) \/ Open(d) \/ Retry(d) \/ Refetch(d) \/ Close(d)
                          \/ Fetching(d) \/ Publishing(d) \/ SendFails(d)
    \/ \E m \in wire : Arrive(m)

Spec == Init /\ [][Next]_vars

(* What a step of the app itself, a relay's answer or a relay's delivery    *)
(* waits for comes.  Edits and opening the app are up to the user.          *)
FairSpec ==
    /\ Spec
    /\ \A d \in Devices : WF_vars(Retry(d)) /\ WF_vars(Fetching(d)) /\ WF_vars(Publishing(d))
    /\ WF_vars(\E m \in wire : Arrive(m))

-----------------------------------------------------------------------------
(* Properties.                                                             *)

SentEvents ==
    {m.event : m \in wire} \cup {held[r][t] : r \in Relays, t \in Tags}

(* A checkpoint folds in every operation of the checkpoint its author had   *)
(* adopted, so replacing that one drops nothing.  The publish cycle reads   *)
(* the log and the adopted checkpoint at different times, after a fetch     *)
(* that sets the second before it merges into the first.  It is not said of *)
(* directories excluded from publishing, whose writers have moved to keys   *)
(* of their own: a compaction leaves them out.                              *)
FoldsBase == \A e \in SentEvents : e.base \subseteq e.ops

(* A checkpoint on its way carries a sequence above every one its author    *)
(* has adopted from a read: nextCheckpointSeq only ever goes up, across     *)
(* restarts too.                                                            *)
SequenceRises ==
    \A d \in Devices :
        cycle[d].pc = "sent" /\ cycle[d].event.tag = CheckpointTag
            => cycle[d].event.seq > seen[d].seq /\ cycle[d].event.seq > ref[d].seq

(* The in-memory high-water mark of a live page never walks backwards.      *)
HighWaterKept ==
    [][\A d \in Devices : app[d] = "open" /\ app'[d] = "open" => high'[d] >= high[d]]_vars

(* No sequence of calls makes a device adopt a checkpoint older than one it *)
(* has adopted before, whatever the relays serve.                           *)
SeenOnlyAdvances ==
    [][\A d \in Devices : /\ seen'[d].seq >= seen[d].seq
                          /\ seen'[d].stamp >= seen[d].stamp]_vars

(* An edit made in an open app reaches the rail without a further edit or a *)
(* restart, also when it is made while a publish is in flight or a refetch  *)
(* starts over what the page had learnt: unless refetches never end, or the *)
(* log has outgrown a checkpoint.                                           *)
EditPublished ==
    (<>[][\A d \in Devices : ~Refetch(d)]_vars) =>
        \A d \in Devices, op \in Ops :
            (app[d] = "open" /\ op \in log[d])
                ~> (op \in ref[d].ops \cup lastSent[d] \/ Cardinality(log[d]) > MaxLog)

(* The logs form a grow-only replicated set.                                *)
Logs == INSTANCE GrowOnlyLogs
ImplementsLogs == Logs!Spec

-----------------------------------------------------------------------------
(* The inductive invariants behind them.                                   *)

Authored == UNION {log[d] : d \in Devices}

(* Whatever is on a relay, on its way, just read or about to be sent is     *)
(* still in some device's log.                                              *)
Provenance ==
    /\ \A m \in wire : m.event.ops \subseteq Authored
    /\ \A r \in Relays, t \in Tags : held[r][t].ops \subseteq Authored
    /\ \A d \in Devices : /\ fetch[d].got \subseteq Authored
                          /\ cycle[d].ops \subseteq Authored

(* A running fetch holds the mark it was started with against the           *)
(* checkpoint it is about to adopt.                                         *)
MarkInv ==
    \A d \in Devices :
        /\ fetch[d].pc \in {"probe", "outboxes"} => fetch[d].mark = seen[d]
        /\ fetch[d].pc = "outboxes" /\ fetch[d].state = "present"
               => ~RolledBack(fetch[d].found, fetch[d].mark)

\* A page that is gone has nothing under way and nothing in memory.
ClosedInv(d) ==
    app[d] = "closed" =>
        /\ fetch[d].pc = "none" /\ cycle[d].pc = "idle" /\ timer[d] = {}
        /\ ~hydrated[d] /\ ref[d] = NoRef

\* Fetching and publishing exclude each other.
TurnInv(d) ==
    /\ hydrated[d] => fetch[d].pc = "none" /\ remote[d] # "unknown"
    /\ fetch[d].pc = "merge" => remote[d] = "answered"
    /\ timer[d] # {} \/ cycle[d].pc # "idle" => hydrated[d] /\ remote[d] = "answered"

\* A device holds what it adopted, at the latest once the fetch has merged.
HoldsInv(d) ==
    /\ ref[d].ops \subseteq log[d] \cup (IF fetch[d].pc = "merge" THEN fetch[d].got ELSE {})
    /\ fetch[d].pc = "outboxes" /\ fetch[d].state = "present"
           => fetch[d].found.ops \subseteq fetch[d].got
    /\ cycle[d].pc # "idle" => ref[d].ops \subseteq cycle[d].ops /\ cycle[d].ops \subseteq log[d]
    /\ cycle[d].pc = "sent" => cycle[d].event.ops \subseteq log[d]

\* The high-water mark covers what was adopted, and is below what is sent.
HighInv(d) ==
    /\ app[d] = "open" => seen[d].seq <= high[d] /\ ref[d].seq <= high[d]
    /\ cycle[d].pc = "sent" /\ cycle[d].event.tag = CheckpointTag
           => cycle[d].event.seq > high[d]

(* While saves succeed and no fetch starts over in a live page that has     *)
(* read the checkpoint, a device only compacts what it holds, under a       *)
(* sequence it has never seen.                                              *)
DeviceInv(d) == ClosedInv(d) /\ TurnInv(d) /\ HoldsInv(d) /\ HighInv(d)
PublishInv == \A d \in Devices : DeviceInv(d)

\* The histories PublishInv holds in.
Steady == "merge" \notin Disturbances /\ "refetch" \notin Disturbances
=============================================================================
