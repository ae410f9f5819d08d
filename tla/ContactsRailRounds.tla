-------------------------- MODULE ContactsRailRounds ------------------------
(***************************************************************************)
(* Does the contacts rail heal?  After any disturbed history of            *)
(* ContactsRail the edits stop, every page closes, and the devices are     *)
(* opened one at a time, each until it has nothing left to do, in the      *)
(* order the schedule gives.  The actions are those of ContactsRail.       *)
(***************************************************************************)
EXTENDS ContactsRail

CONSTANTS
    Schedules,         \* the orders in which the devices are opened
    StormStamps        \* bound: events signed before the calm

ASSUME ScheduleAssumption ==
    /\ \A s \in Schedules : s \in Seq(Devices)
    /\ StormStamps \in Nat

VARIABLES
    calm,              \* whether the calm has begun
    left,              \* the sessions still to come, the current one first
    cut                \* the devices cut off when the calm began

roundVars == <<vars, calm, left, cut>>

RoundsInit == Init /\ calm = FALSE /\ left = <<>> /\ cut = {}

(* The newest checkpoint is older than one the device has recorded, so the  *)
(* device may not compact over it, and does not list the device, so nobody  *)
(* reads its outbox.                                                        *)
CutOff(d) ==
    \E c \in Newest(Relays, CheckpointTag) :
        c.stamp > 0 /\ RolledBack(c, seen[d]) /\ d \notin Listed(c.ids)

Storm ==
    /\ ~calm
    /\ Next /\ now' <= StormStamps
    /\ UNCHANGED <<calm, left, cut>>

\* What was on its way to a relay when the pages closed is lost.
CalmDown ==
    /\ ~calm
    /\ calm' = TRUE
    /\ left' \in Schedules
    /\ cut' = {d \in Devices : CutOff(d)}
    /\ app' = [d \in Devices |-> "closed"]
    /\ ref' = [d \in Devices |-> NoRef]
    /\ high' = [d \in Devices |-> 0]
    /\ remote' = [d \in Devices |-> "unknown"]
    /\ hydrated' = [d \in Devices |-> FALSE]
    /\ lastSent' = [d \in Devices |-> {}]
    /\ fetch' = [d \in Devices |-> NoFetch]
    /\ timer' = [d \in Devices |-> {}]
    /\ pending' = [d \in Devices |-> FALSE]
    /\ cycle' = [d \in Devices |-> Idle]
    /\ wire' = {}
    /\ UNCHANGED <<held, now, storeVars>>

SessionStep(d) ==
    Open(d) \/ Fetching(d) \/ Publishing(d) \/ \E m \in wire : Arrive(m)

Session ==
    /\ calm /\ left # <<>>
    /\ SessionStep(Head(left))
    /\ UNCHANGED <<calm, left, cut>>

AtRest(d) ==
    /\ app[d] = "open" /\ hydrated[d]
    /\ timer[d] = {} /\ cycle[d].pc = "idle" /\ wire = {}

NextSession ==
    /\ calm /\ left # <<>>
    /\ AtRest(Head(left))
    /\ Close(Head(left))
    /\ left' = Tail(left)
    /\ UNCHANGED <<calm, cut>>

RoundsNext == Storm \/ CalmDown \/ Session \/ NextSession
RoundsSpec == RoundsInit /\ [][RoundsNext]_roundVars

-----------------------------------------------------------------------------
(* Properties.                                                             *)

Healed == \A d, e \in Devices : log[d] = log[e]
Settled == calm /\ left = <<>>

(* Whatever happened before, once every device has been opened in turn      *)
(* undisturbed, all logs are equal: operations lost from the relays come    *)
(* back from the log of a device that still holds them, a dropped device    *)
(* lists itself again.  Unless a device was cut off: then trigger (d) of     *)
(* shouldPublishCheckpoint, meant for the unlisted device, never fires.     *)
HealsUnlessCutOff == Settled /\ cut = {} => Healed

-----------------------------------------------------------------------------
(* The inductive invariant behind it.                                      *)

(* The instances in which a calm heals: no cap is met, every relay answers, *)
(* every event opens and every save succeeds, and each device is opened     *)
(* again after all have been opened.                                        *)
Healable ==
    /\ IsFiniteSet(Devices) /\ Cardinality(Devices) <= MaxIds
    /\ IsFiniteSet(Ops) /\ Cardinality(Ops) <= MaxLog /\ Cardinality(Ops) <= MaxOutbox
    /\ Disturbances \cap {"partial", "opaque", "merge"} = {}
    /\ \A s \in Schedules, d \in Devices :
           \E i \in DOMAIN s : s[i] = d /\ Devices \subseteq {s[j] : j \in 1..(i - 1)}

Once(ids) == \A i, j \in DOMAIN ids : ids[i] = ids[j] => i = j

\* No relay has lost what was seen.
Below(stamp) == \E r \in Relays : stamp <= held[r][CheckpointTag].stamp

\* Every event has its own stamp, and lists a device once.
EventsInv ==
    /\ \A e \in SentEvents : e.stamp <= now /\ Once(e.ids)
    /\ \A a, b \in SentEvents : a.stamp = b.stamp /\ a.stamp > 0 => a = b
    /\ \A m \in wire : m.event.stamp > 0
    /\ \A r \in Relays, t \in Tags :
           held[r][t].tag = t /\ (held[r][t].stamp = 0 => held[r][t] = Nothing(t))

\* What a device has read or recorded is no newer than what the relays hold.
ReadInv(d) ==
    /\ Once(ref[d].ids) /\ Once(fetch[d].found.ids) /\ Once(cycle[d].event.ids)
    /\ Below(seen[d].stamp) /\ Below(fetch[d].found.stamp)
    /\ seen[d].stamp = 0 => seen[d].seq = 0
    /\ fetch[d].pc = "outboxes" /\ fetch[d].state = "present" => fetch[d].found.stamp > 0

StampInv == EventsInv /\ \A d \in Devices : ReadInv(d)

\* What a device that reads the relays, all of them, learns.
Reach ==
    UNION {c.ops \cup UNION {UNION {e.ops : e \in Newest(Relays, x)} : x \in Listed(c.ids)} :
              c \in Newest(Relays, CheckpointTag)}

OwnOutbox(d) == UNION {e.ops : e \in Newest(Relays, d)}

Blank(d) ==
    /\ app[d] = "closed" /\ ref[d] = NoRef /\ high[d] = 0 /\ remote[d] = "unknown"
    /\ ~hydrated[d] /\ lastSent[d] = {} /\ fetch[d] = NoFetch
    /\ timer[d] = {} /\ ~pending[d] /\ cycle[d] = Idle

\* What the device adopted of the checkpoint the relays hold.
Adopted(d) ==
    \E c \in Newest(Relays, CheckpointTag) :
        \/ ref[d].state = "absent" /\ ref[d].ops = {} /\ ref[d].ids = <<>> /\ c.stamp = 0
        \/ ref[d].state = "present" /\ ref[d].ops = c.ops /\ ref[d].ids = c.ids /\ ref[d].seq = c.seq
        \/ ref[d].state = "unusable" /\ ref[d].ops = {} /\ d \in Listed(c.ids)

Knows(d, ops) == Reach \cup OwnOutbox(d) \subseteq ops

\* The event of the session is on every relay, or on its way there.
Under(d, e) ==
    /\ e.stamp = now /\ now > 0
    /\ \A m \in wire : m.from = d /\ m.event = e
    /\ \A r \in Relays : held[r][e.tag] = e \/ (\E m \in wire : m.to = r)

\* A checkpoint with the whole log, that lists the device.
Folds(d, e) ==
    /\ e.tag = CheckpointTag /\ e.ops = log[d] /\ d \in Listed(e.ids)
    /\ \A c \in Newest(Relays, CheckpointTag) : Listed(c.ids) \subseteq Listed(e.ids) /\ c.seq <= e.seq
    /\ \A x \in Listed(e.ids) : \A o \in Newest(Relays, x) : o.ops \subseteq log[d]

\* Or an outbox with what the checkpoint lacks, which lists the device.
Posts(d, e) ==
    /\ e.tag = d /\ e.ops \subseteq log[d]
    /\ \E c \in Newest(Relays, CheckpointTag) : d \in Listed(c.ids) /\ log[d] \subseteq c.ops \cup e.ops

Sending(d, e) == Under(d, e) /\ (Folds(d, e) \/ Posts(d, e)) /\ Knows(d, log[d])

(* The phases of one session.                                               *)

Untouched(d) == timer[d] = {} /\ cycle[d].pc = "idle" /\ ~hydrated[d] /\ ~pending[d] /\ lastSent[d] = {}

Probing(d) == app[d] = "open" /\ fetch[d].pc = "probe" /\ fetch[d].mark = seen[d] /\ Untouched(d) /\ wire = {}

Reading(d) ==
    LET f == fetch[d] IN
    /\ app[d] = "open" /\ f.pc = "outboxes" /\ Untouched(d) /\ wire = {}
    /\ f.found \in Newest(Relays, CheckpointTag) /\ f.state = Verdict(f.found, TRUE, seen[d])
    /\ f.found.ops \subseteq f.got
    /\ \A x \in Listed(f.found.ids) \cup {d} :
           x \in Listed(f.todo) \/ \A e \in Newest(Relays, x) : e.ops \subseteq f.got

Learnt(d) ==
    /\ app[d] = "open" /\ fetch[d].pc = "merge" /\ Untouched(d) /\ wire = {}
    /\ Adopted(d) /\ Knows(d, fetch[d].got)

Live(d) == app[d] = "open" /\ fetch[d].pc = "none" /\ hydrated[d] /\ ~pending[d]

Merged(d) ==
    /\ Live(d) /\ timer[d] = {"effect"} /\ cycle[d].pc = "idle" /\ lastSent[d] = {} /\ wire = {}
    /\ Adopted(d) /\ Knows(d, log[d])

Started(d) ==
    /\ Live(d) /\ timer[d] = {} /\ cycle[d].pc = "read" /\ cycle[d].ops = log[d]
    /\ lastSent[d] = {} /\ wire = {}
    /\ Adopted(d) /\ Knows(d, log[d])

Sent(d) ==
    /\ Live(d) /\ timer[d] = {} /\ cycle[d].pc = "sent"
    /\ \E e \in SentEvents : cycle[d].event = e /\ Sending(d, e)

Done(d) ==
    /\ Live(d) /\ timer[d] = {} /\ cycle[d].pc = "idle"
    /\ \/ \E e \in SentEvents : Sending(d, e)
       \/ wire = {} /\ Knows(d, log[d]) /\ log[d] \subseteq Reach

Turn(d) ==
    \/ Blank(d) /\ wire = {}
    \/ Probing(d) \/ Reading(d) \/ Learnt(d) \/ Merged(d) \/ Started(d) \/ Sent(d) \/ Done(d)

\* Where the calm has come to: n sessions of the schedule s have ended.
Progress(s, n) ==
    /\ left \in Seq(Devices) /\ Len(s) = n + Len(left)
    /\ \A i \in 1..Len(left) : left[i] = s[n + i]
    /\ \A i \in 1..n : /\ left = <<>> \/ s[i] # s[n + 1] => log[s[i]] \subseteq Reach
                       /\ Devices \subseteq {s[j] : j \in 1..(i - 1)} => Authored \subseteq log[s[i]]

CalmInv ==
    calm /\ cut = {} =>
        /\ \A d \in Devices : ~CutOff(d)
        /\ \A d \in Devices : IF left # <<>> /\ d = Head(left) THEN Turn(d) ELSE Blank(d)
        /\ left = <<>> => wire = {}
        /\ \E s \in Schedules : \E n \in 0..Len(s) : Progress(s, n)
=============================================================================
