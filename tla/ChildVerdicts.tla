--------------------------- MODULE ChildVerdicts ---------------------------
(***************************************************************************)
(* A guardian's phone answering the asks of one child whose own phone is   *)
(* paired straight to a Heartwood signer (hooks/useChildAsks.ts), and the  *)
(* pushes of the child's ceiling to that device (lib/policy-push.ts,       *)
(* hooks/usePolicyPush.ts) under the operator lock.                        *)
(*                                                                         *)
(* An answer is a choice that is saved, then a rule or approved-once       *)
(* entries that widen the ceiling, then a push that the device confirms,   *)
(* then a verdict published to the relay; each step can fail.  What was    *)
(* widened for a verdict that did not go out is given back.                *)
(*                                                                         *)
(* The other phones of the family are the environment: they answer asks    *)
(* with the same rail key and write the same slot of the device.  The      *)
(* stage and the pause of the child are fixed, its asks are signatures,    *)
(* and the asks of one kind name one app, so a rule is known by its kind.  *)
(***************************************************************************)
EXTENDS Naturals, FiniteSets, SequencesExt

CONSTANTS
    Asks,
    KindOf,            \* the kind of event an ask wants signed
    Sealed,            \* asks whose answer the child seals as well
    Seal,              \* SEAL_KIND
    CeilingMax,        \* what CHILD_CEILING_MAX leaves for rules and entries
    Allowed,           \* kinds with an allow rule at the start, newest first
    Answers,           \* the choices the guardian makes
    OthersSay,         \* the verdicts the other phones give
    Foreign,           \* the ceilings other managers write
    Futures,           \* bound: what may happen around the phone, how often
    MaxCalls           \* bound: calls of decide()

(* "expire"   an ask expires                                                *)
(* "answer"   another phone of the family answers an ask                    *)
(* "write"    another manager writes the slot                               *)
(* "end"      the windows of the open approved-once entries end             *)
(* "restart"  the page goes away and comes back                             *)
EventKinds == {"expire", "answer", "write", "end", "restart"}

Kinds == {KindOf[a] : a \in Asks} \cup {Seal} \cup ToSet(Allowed)

ASSUME VerdictsAssumption ==
    /\ IsFiniteSet(Asks) /\ Sealed \subseteq Asks /\ {"regular", "nobody"} \cap Asks = {}
    /\ CeilingMax \in Nat
    /\ Allowed \in Seq(Kinds) /\ IsInjective(Allowed)
    /\ Answers \in [Asks -> SUBSET {"once", "always", "deny"}]
    /\ OthersSay \subseteq {"once", "always", "deny"}
    /\ Foreign \subseteq SUBSET Kinds
    /\ Futures \subseteq [EventKinds -> Nat]
    /\ MaxCalls \in Nat

VARIABLES
    ask,               \* asksRef and seenRef
    expired,           \* asks past their expiresAt
    call,              \* the decide() under way for an ask
    replied,           \* repliedRef: what the rail key has published
    hist,              \* historyRef
    disk,              \* the stored history row
    saves,             \* writes of that row under way, oldest first
    once,              \* approvedOnceRef: entries whose window is open
    allowed,           \* kinds with an allow rule, newest first
    queue,             \* the operator lock: who holds it, then who waits
    job,               \* the push of its holder
    push,              \* the timer and the refs of usePolicyPush
    ceiling,           \* the kinds the device lists
    touched,           \* whether another manager wrote since the last list
    relay,             \* the verdicts published for an ask, and by whom
    epoch, restarts, calls,
    left,              \* the events that may still happen
    first,             \* history: the first choice that was saved
    promised,          \* history: the entries and the rule a verdict rests on
    crossed,           \* history: an older history row landed over a newer
    agreed             \* history: the last push was confirmed, and stands

askVars    == <<ask, expired, replied, relay>>
savedVars  == <<hist, disk, saves, crossed>>
storeVars  == <<once, allowed>>
deviceVars == <<ceiling, touched, agreed>>
lockVars   == <<queue, job, push>>
bounds     == <<epoch, restarts, calls, left>>
vars == <<askVars, call, savedVars, storeVars, lockVars, deviceVars, bounds, first, promised>>

Verdicts == {"once", "always", "deny"}

(* A row of the history: the choice, and whether its verdict was published. *)
(* The converted verdict it also holds is for display: what is sent again   *)
(* is always the choice.                                                    *)
None == [chosen |-> "none", sent |-> FALSE]
Entry(v, sent) == [chosen |-> v, sent |-> sent]
Entries == {None} \cup [chosen : Verdicts, sent : BOOLEAN]

\* A call: where it is, its verdict so far, and the entries it has added.
NoCall == [pc |-> "none", verdict |-> "none", added |-> <<>>, epoch |-> 0, seen |-> <<>>]
Denied == [NoCall EXCEPT !.pc = "outcome", !.verdict = "deny"]
Pcs == {"none", "saving", "weigh", "rule", "store", "push", "outcome",
        "recording", "check", "publish", "wire", "closing"}

NoPromise == [added |-> <<>>, epoch |-> 0, rule |-> FALSE]
NoJob == [pc |-> "idle", want |-> {}, again |-> FALSE]

-----------------------------------------------------------------------------
(* Operators *)

\* compileChildDirectPolicy: the first CeilingMax kinds, entries before rules.
Listed(s) == {s[i] : i \in {j \in DOMAIN s : Cardinality({s[x] : x \in 1..j}) <= CeilingMax}}
Ceiling == Listed(once \o allowed)

\* Mutant of Without: every equal entry is taken out.
WithoutEqual(s, es) == SelectSeq(s, LAMBDA k : k \notin ToSet(es))
\* removeOnceEntry, for each of es that is still open: an answer adds one or two.
Without(s, es) ==
    LET r == RemoveFirst(s, es[1]) IN IF Len(es) = 1 THEN r ELSE RemoveFirst(r, es[2])

Opens(a, v) ==
    IF v = "once" THEN <<KindOf[a]>> \o (IF a \in Sealed THEN <<Seal>> ELSE <<>>)
    ELSE IF a \in Sealed THEN <<Seal>> ELSE <<>>

\* Mutant of RulesAfter: the rule is added beside the one it replaces.
RulesBeside(a, v) == IF v = "always" THEN <<KindOf[a]>> \o allowed ELSE allowed
\* saveChildRule replaces the rule of the same kind; there is one at most.
RulesAfter(a, v) == IF v = "always" THEN <<KindOf[a]>> \o RemoveFirst(allowed, KindOf[a]) ELSE allowed

\* fits: the ceiling holds what the answer opens and all it lists now.
Fits(a) ==
    LET v == call[a].verdict
        widened == Listed(call[a].seen \o Opens(a, v) \o RulesAfter(a, v))
    IN  ToSet(Opens(a, v)) \cup {KindOf[a]} \cup Listed(call[a].seen \o allowed) \subseteq widened

\* Something happens around the phone.
Event(e) == left[e] > 0 /\ left' = [left EXCEPT ![e] = @ - 1]

Deciding(a) == call[a].pc # "none"

\* Nothing reads the stored rows any more: they are not told apart then.
LastPage == left["restart"] = 0
Save(row, a) ==
    IF LastPage /\ a = "nobody" THEN saves
    ELSE Append(saves, [row |-> IF LastPage THEN disk ELSE row, for |-> a, late |-> FALSE])

\* The entries a call has added are taken out again; a change arms the push.
GiveBack(a) ==
    IF call[a].added = <<>> \/ call[a].epoch # epoch THEN UNCHANGED <<once, push>>
    ELSE /\ once' = Without(once, call[a].added)
         /\ push' = [push EXCEPT !.armed = TRUE]

-----------------------------------------------------------------------------
TypeOK ==
    /\ ask \in [Asks -> {"unseen", "listed", "gone"}]
    /\ expired \subseteq Asks
    /\ \A a \in Asks :
        /\ call[a].pc \in Pcs
        /\ call[a].verdict \in Verdicts \cup {"none"}
        /\ call[a].added \in Seq(Kinds) /\ call[a].seen \in Seq(Kinds)
        /\ call[a].epoch <= epoch
    /\ replied \in [Asks -> Verdicts \cup {"none"}]
    /\ hist \in [Asks -> Entries] /\ disk \in [Asks -> Entries]
    /\ \A i \in DOMAIN saves : saves[i].row \in [Asks -> Entries]
    /\ once \in Seq(Kinds) /\ allowed \in Seq(Kinds)
    /\ IsInjective(allowed)
    /\ \A i \in DOMAIN queue : queue[i] \in Asks \cup {"regular"}
    /\ job \in [pc : {"idle", "list", "update"}, want : SUBSET Kinds, again : BOOLEAN]
    /\ push \in [armed : BOOLEAN, running : BOOLEAN, queued : BOOLEAN]
    /\ ceiling \in SUBSET Kinds /\ touched \in BOOLEAN /\ agreed \in BOOLEAN
    /\ relay \in [Asks -> SUBSET ({"us", "other"} \X Verdicts)]
    /\ first \in [Asks -> Verdicts \cup {"none"}]

\* The phone has unlocked, and the device lists what the rules say.
Init ==
    /\ ask = [a \in Asks |-> "unseen"] /\ expired = {}
    /\ replied = [a \in Asks |-> "none"] /\ relay = [a \in Asks |-> {}]
    /\ call = [a \in Asks |-> NoCall]
    /\ hist = [a \in Asks |-> None] /\ disk = hist /\ saves = <<>> /\ crossed = FALSE
    /\ once = <<>> /\ allowed = Allowed
    /\ queue = <<>> /\ job = NoJob
    /\ push = [armed |-> FALSE, running |-> FALSE, queued |-> FALSE]
    /\ ceiling = Ceiling /\ touched = FALSE /\ agreed = TRUE
    /\ epoch = 0 /\ restarts = 0 /\ calls = 0 /\ left \in Futures
    /\ first = [a \in Asks |-> "none"]
    /\ promised = [a \in Asks |-> NoPromise]

-----------------------------------------------------------------------------
(* The inbox *)

\* markAnswered: the ask is settled with the verdict somebody published.
MarkAnswered(a, v) ==
    /\ ask' = [ask EXCEPT ![a] = "gone"]
    /\ IF ask[a] = "listed" \/ hist[a] # None
       THEN /\ hist' = [hist EXCEPT ![a] = Entry(v, TRUE)]
            /\ saves' = Save(hist', "nobody")
       ELSE UNCHANGED <<hist, saves>>

AskArrives(a) ==
    /\ ask[a] = "unseen" /\ a \notin expired
    /\ IF replied[a] # "none"
       THEN /\ ask' = [ask EXCEPT ![a] = "gone"]
            /\ hist' = [hist EXCEPT ![a] = Entry(replied[a], TRUE)]
            /\ saves' = Save(hist', "nobody")
       ELSE ask' = [ask EXCEPT ![a] = "listed"] /\ UNCHANGED <<hist, saves>>
    /\ UNCHANGED <<expired, replied, relay, disk, crossed, call, storeVars, lockVars, deviceVars, bounds, first, promised>>

\* The ask leaves the list; a decide() under way goes on.
AskExpires(a) ==
    /\ Event("expire")
    /\ a \notin expired /\ (ask[a] # "gone" \/ Deciding(a))
    /\ expired' = expired \cup {a}
    /\ ask' = [ask EXCEPT ![a] = IF @ = "listed" THEN "gone" ELSE @]
    /\ UNCHANGED <<replied, relay, savedVars, call, storeVars, lockVars, deviceVars, epoch, restarts, calls, first, promised>>

\* Mutant of ReplyArrives: the ask is settled while a decide() is under way.
ReplySettles(a, v) ==
    /\ \E by \in {"us", "other"} : <<by, v>> \in relay[a]
    /\ ~hist[a].sent /\ replied[a] # v
    /\ replied' = [replied EXCEPT ![a] = v]
    /\ MarkAnswered(a, v)
    /\ UNCHANGED <<expired, relay, disk, crossed, call, storeVars, lockVars, deviceVars, bounds, first, promised>>

\* onReplyEvent: a verdict of the rail key, our own echo included.
ReplyArrives(a, v) ==
    /\ \E by \in {"us", "other"} : <<by, v>> \in relay[a]
    /\ ~hist[a].sent /\ replied[a] # v
    /\ replied' = [replied EXCEPT ![a] = v]
    /\ IF Deciding(a) THEN UNCHANGED <<ask, hist, saves>> ELSE MarkAnswered(a, v)
    /\ UNCHANGED <<expired, relay, disk, crossed, call, storeVars, lockVars, deviceVars, bounds, first, promised>>

-----------------------------------------------------------------------------
(* decide(): the choice *)

\* Mutant of SameChoice: a saved choice may be changed.
AnyChoice(a, v) == TRUE
\* A choice that was saved can only be sent again.
SameChoice(a, v) == hist[a] # None => hist[a].chosen = v

FirstNow(a, v) == first' = [first EXCEPT ![a] = IF @ = "none" THEN v ELSE @]

(* What is sent again is the choice, whatever verdict it was converted to;  *)
(* a new choice is saved before anything else happens.                      *)
Choose(a, v) ==
    /\ ask[a] = "listed" /\ a \notin expired /\ ~Deciding(a) /\ replied[a] = "none"
    /\ SameChoice(a, v)
    /\ calls < MaxCalls /\ calls' = calls + 1
    /\ call' = [call EXCEPT ![a] = [NoCall EXCEPT !.pc = IF hist[a] = None THEN "saving" ELSE "weigh",
                                                  !.verdict = v, !.epoch = epoch, !.seen = once]]
    /\ IF hist[a] = None
       THEN /\ hist' = [hist EXCEPT ![a] = Entry(v, FALSE)]
            /\ saves' = Save(hist', a)
            /\ UNCHANGED first
       ELSE FirstNow(a, v) /\ UNCHANGED <<hist, saves>>
    /\ UNCHANGED <<askVars, disk, crossed, storeVars, lockVars, deviceVars, epoch, restarts, left, promised>>

\* The ask was answered elsewhere while an earlier call ran.
ChooseAnswered(a) ==
    /\ ask[a] = "listed" /\ ~Deciding(a) /\ replied[a] # "none"
    /\ MarkAnswered(a, replied[a])
    /\ UNCHANGED <<expired, replied, relay, disk, crossed, call, storeVars, lockVars, deviceVars, bounds, first, promised>>

\* recordHistory: the writes of the row are not queued and may land in any order.
Following == [saving |-> "weigh", recording |-> "check", closing |-> "none"]
Continue(a) ==
    call' = IF a = "nobody" THEN call
            ELSE [call EXCEPT ![a] = IF @.pc = "closing" THEN NoCall ELSE [@ EXCEPT !.pc = Following[call[a].pc]]]

SaveLands(i) ==
    /\ i \in DOMAIN saves
    /\ disk' = saves[i].row
    /\ crossed' = (crossed \/ saves[i].late)
    /\ saves' = [j \in 1..Len(saves) - 1 |-> IF j < i THEN [saves[j] EXCEPT !.late = ~LastPage] ELSE saves[j + 1]]
    /\ Continue(saves[i].for)
    /\ LET a == saves[i].for IN
       IF a # "nobody" /\ a \in {b \in Asks : call[b].pc = "saving"} THEN FirstNow(a, call[a].verdict) ELSE UNCHANGED first
    /\ UNCHANGED <<askVars, hist, storeVars, lockVars, deviceVars, bounds, promised>>

\* Mutant of SaveFails: nobody is told.
SaveFailsUnnoticed(i) ==
    /\ i \in DOMAIN saves
    /\ saves' = RemoveAt(saves, i)
    /\ UNCHANGED <<askVars, call, hist, disk, crossed, storeVars, lockVars, deviceVars, bounds, first, promised>>

\* A choice that could not be saved is dropped; a later row is kept in memory.
SaveFails(i) ==
    /\ i \in DOMAIN saves
    /\ saves' = RemoveAt(saves, i)
    /\ LET a == saves[i].for IN
       IF a \in {b \in Asks : call[b].pc = "saving"}
       THEN /\ hist' = [hist EXCEPT ![a] = None]
            /\ call' = [call EXCEPT ![a] = NoCall]
       ELSE Continue(a) /\ UNCHANGED hist
    /\ UNCHANGED <<askVars, disk, crossed, storeVars, lockVars, deviceVars, bounds, first, promised>>

-----------------------------------------------------------------------------
(* decide(): rules and entries *)

At(a, pc) == call[a].pc = pc
Goto(a, pc) == call' = [call EXCEPT ![a].pc = pc]

\* A deny may leave a deny rule, which takes the place of an allow rule.
Deny(a) ==
    /\ At(a, "weigh") /\ call[a].verdict = "deny"
    /\ \/ UNCHANGED <<allowed, push, promised>>
       \/ /\ allowed' = RemoveFirst(allowed, KindOf[a])
          /\ push' = [push EXCEPT !.armed = TRUE]
          /\ promised' = [b \in Asks |-> [promised[b] EXCEPT !.rule = @ /\ KindOf[b] # KindOf[a]]]
    /\ call' = [call EXCEPT ![a] = Denied]
    /\ UNCHANGED <<askVars, savedVars, once, queue, job, deviceVars, bounds, first>>

\* The ceiling cannot hold what the answer needs.
Refuse(a) ==
    /\ At(a, "weigh") /\ call[a].verdict # "deny" /\ ~Fits(a)
    /\ call' = [call EXCEPT ![a] = Denied]
    /\ UNCHANGED <<askVars, savedVars, storeVars, lockVars, deviceVars, bounds, first, promised>>

\* addOnceEntry: the entries are in the store before their push asks for the lock.
Widen(a) ==
    /\ once' = once \o Opens(a, call[a].verdict)
    /\ call' = [call EXCEPT ![a] = [@ EXCEPT !.pc = "store", !.added = Opens(a, call[a].verdict),
                                             !.epoch = epoch, !.seen = <<>>]]

Once(a) ==
    /\ At(a, "weigh") /\ call[a].verdict = "once" /\ Fits(a)
    /\ Widen(a)
    /\ push' = [push EXCEPT !.armed = TRUE]
    /\ UNCHANGED <<askVars, savedVars, allowed, queue, job, deviceVars, bounds, first, promised>>

Always(a) ==
    /\ At(a, "weigh") /\ call[a].verdict = "always" /\ Fits(a)
    /\ Goto(a, "rule")
    /\ UNCHANGED <<askVars, savedVars, storeVars, lockVars, deviceVars, bounds, first, promised>>

RuleSaved(a) ==
    /\ At(a, "rule")
    /\ allowed' = RulesAfter(a, "always")
    /\ Widen(a)
    /\ push' = [push EXCEPT !.armed = TRUE]
    /\ promised' = [promised EXCEPT ![a].rule = TRUE]
    /\ UNCHANGED <<askVars, savedVars, queue, job, deviceVars, bounds, first>>

\* The rules cannot be read, or the rule not be saved: the answer stays unsent.
GiveUp(a) ==
    /\ At(a, "rule") \/ (At(a, "weigh") /\ call[a].verdict # "deny")
    /\ call' = [call EXCEPT ![a] = NoCall]
    /\ UNCHANGED <<askVars, savedVars, storeVars, lockVars, deviceVars, bounds, first, promised>>

\* The store's own write has ended, well or not: wait for the operator lock.
AskForLock(a) ==
    /\ At(a, "store")
    /\ Goto(a, "push")
    /\ queue' = Append(queue, a)
    /\ UNCHANGED <<askVars, savedVars, storeVars, job, push, deviceVars, bounds, first, promised>>

-----------------------------------------------------------------------------
(* Pushes, one at a time under the operator lock *)

\* Mutant of RunPush: a run asked for during another is dropped.
RunPushOnce ==
    /\ push.armed
    /\ IF push.running
       THEN push' = [push EXCEPT !.armed = FALSE] /\ UNCHANGED queue
       ELSE push' = [push EXCEPT !.armed = FALSE, !.running = TRUE] /\ queue' = Append(queue, "regular")
    /\ UNCHANGED <<askVars, call, savedVars, storeVars, job, deviceVars, bounds, first, promised>>

\* runOnce of usePolicyPush: a run asked for during another follows it.
RunPush ==
    /\ push.armed
    /\ IF push.running
       THEN push' = [push EXCEPT !.armed = FALSE, !.queued = TRUE] /\ UNCHANGED queue
       ELSE push' = [push EXCEPT !.armed = FALSE, !.running = TRUE] /\ queue' = Append(queue, "regular")
    /\ UNCHANGED <<askVars, call, savedVars, storeVars, job, deviceVars, bounds, first, promised>>

\* The holder reads rules and entries afresh and compiles the ceiling.
TakeLock ==
    /\ queue # <<>> /\ job.pc = "idle"
    /\ job' = [pc |-> "list", want |-> Ceiling, again |-> FALSE]
    /\ UNCHANGED <<askVars, call, savedVars, storeVars, queue, push, deviceVars, bounds, first, promised>>

(* The push ends and the next one gets the lock.  A failed answer takes out *)
(* its own entries and no others.                                           *)
PushEnds(ok) ==
    /\ job' = NoJob /\ agreed' = ok /\ touched' = FALSE
    /\ LET a == Head(queue) IN
       IF a = "regular"
       THEN /\ push' = [push EXCEPT !.running = push.queued, !.queued = FALSE]
            /\ queue' = IF push.queued THEN Append(Tail(queue), "regular") ELSE Tail(queue)
            /\ UNCHANGED <<call, once>>
       ELSE /\ queue' = Tail(queue)
            /\ call' = [call EXCEPT ![a] =
                    IF ok THEN [@ EXCEPT !.pc = "outcome"] ELSE Denied]
            /\ IF ok THEN UNCHANGED <<once, push>> ELSE GiveBack(a)
    /\ UNCHANGED <<askVars, savedVars, allowed, bounds, first, promised>>

AlreadyRight == job.pc = "list" /\ ceiling = job.want /\ PushEnds(TRUE) /\ UNCHANGED ceiling

MustChange ==
    /\ job.pc = "list" /\ ceiling # job.want
    /\ job' = [job EXCEPT !.pc = "update"]
    /\ touched' = FALSE
    /\ UNCHANGED <<askVars, call, savedVars, storeVars, queue, push, ceiling, agreed, bounds, first, promised>>

Updated == job.pc = "update" /\ ceiling' = job.want /\ PushEnds(TRUE)

\* The device applied the update and its confirmation was lost.
Unconfirmed == job.pc = "update" /\ ceiling' = job.want /\ PushEnds(FALSE)

\* The device cannot be reached, refuses, or no longer lists the slot.
PushFails == job.pc \in {"list", "update"} /\ PushEnds(FALSE) /\ UNCHANGED ceiling

\* Another manager wrote first: list and compile again, once, from the same reads.
Stale ==
    /\ job.pc = "update" /\ touched /\ ~job.again
    /\ job' = [job EXCEPT !.pc = "list", !.again = TRUE]
    /\ UNCHANGED <<askVars, call, savedVars, storeVars, queue, push, deviceVars, bounds, first, promised>>

-----------------------------------------------------------------------------
(* decide(): the verdict *)

Record(a) ==
    /\ At(a, "outcome")
    /\ saves' = Save(hist, a)
    /\ Goto(a, "recording")
    /\ UNCHANGED <<askVars, hist, disk, crossed, storeVars, lockVars, deviceVars, bounds, first, promised>>

\* Another phone has answered meanwhile: what was widened is given back.
Overtaken(a) ==
    /\ At(a, "check") /\ replied[a] # "none"
    /\ GiveBack(a)
    /\ MarkAnswered(a, replied[a])
    /\ call' = [call EXCEPT ![a] = NoCall]
    /\ UNCHANGED <<expired, replied, relay, disk, crossed, allowed, queue, job, deviceVars, bounds, first, promised>>

Unanswered(a) ==
    /\ At(a, "check") /\ replied[a] = "none"
    /\ Goto(a, "publish")
    /\ UNCHANGED <<askVars, savedVars, storeVars, lockVars, deviceVars, bounds, first, promised>>

\* The verdict goes out, and the relay stores it or not.
Publish(a) ==
    /\ At(a, "publish")
    /\ Goto(a, "wire")
    /\ relay' \in {relay, [relay EXCEPT ![a] = @ \cup {<<"us", call[a].verdict>>}]}
    /\ UNCHANGED <<ask, expired, replied, savedVars, storeVars, lockVars, deviceVars, bounds, first, promised>>

Sent(a) ==
    /\ At(a, "wire") /\ <<"us", call[a].verdict>> \in relay[a]
    /\ ask' = [ask EXCEPT ![a] = "gone"]
    /\ hist' = [hist EXCEPT ![a].sent = TRUE]
    /\ saves' = Save(hist', a)
    /\ Goto(a, "closing")
    /\ promised' = [promised EXCEPT ![a].added = call[a].added, ![a].epoch = call[a].epoch]
    /\ UNCHANGED <<expired, replied, relay, disk, crossed, storeVars, lockVars, deviceVars, bounds, first>>

\* Not stored, or stored and not confirmed: the answer stays to be sent again.
NotSent(a) ==
    /\ At(a, "wire")
    /\ GiveBack(a)
    /\ call' = [call EXCEPT ![a] = NoCall]
    /\ UNCHANGED <<askVars, savedVars, allowed, queue, job, deviceVars, bounds, first, promised>>

-----------------------------------------------------------------------------
(* The rest of the family, the clock and the page *)

OtherAnswers(a, v) ==
    /\ Event("answer") /\ ~hist[a].sent
    /\ relay' = [relay EXCEPT ![a] = @ \cup {<<"other", v>>}]
    /\ UNCHANGED <<ask, expired, replied, call, savedVars, storeVars, lockVars, deviceVars, epoch, restarts, calls, first, promised>>

OtherWrites(c) ==
    /\ Event("write")
    /\ c # ceiling
    /\ ceiling' = c /\ agreed' = FALSE
    /\ touched' = (job.pc = "update")
    /\ UNCHANGED <<askVars, call, savedVars, storeVars, lockVars, epoch, restarts, calls, first, promised>>

\* The windows of the open entries end; a timer then compiles the ceiling anew.
WindowsEnd ==
    /\ Event("end")
    /\ once # <<>>
    /\ epoch' = epoch + 1
    /\ once' = <<>>
    /\ push' = [push EXCEPT !.armed = TRUE]
    /\ UNCHANGED <<askVars, call, savedVars, allowed, queue, job, deviceVars, restarts, calls, first, promised>>

(* The page goes away and the phone unlocks anew: what is in memory is      *)
(* lost, the latest entries may not have been saved, an update on its way   *)
(* may still be applied, and the usual push runs.                           *)
Restart ==
    /\ Event("restart")
    /\ restarts' = restarts + 1
    /\ hist' = disk /\ saves' = <<>>
    /\ once' \in {SubSeq(once, 1, n) : n \in 0..Len(once)}
    /\ ask' = [a \in Asks |-> IF disk[a] # None /\ (disk[a].sent \/ a \in expired) THEN "gone" ELSE "unseen"]
    /\ replied' = [a \in Asks |-> "none"]
    /\ call' = [a \in Asks |-> NoCall]
    /\ queue' = <<>> /\ job' = NoJob
    /\ push' = [armed |-> TRUE, running |-> FALSE, queued |-> FALSE]
    /\ ceiling' \in {ceiling} \cup (IF job.pc = "update" THEN {job.want} ELSE {})
    /\ touched' = FALSE /\ agreed' = FALSE
    /\ promised' = [a \in Asks |-> NoPromise]
    /\ UNCHANGED <<expired, relay, disk, crossed, allowed, epoch, calls, first>>

-----------------------------------------------------------------------------
Decides(a) ==
    \/ Deny(a) \/ Refuse(a) \/ Once(a) \/ Always(a) \/ RuleSaved(a) \/ GiveUp(a)
    \/ AskForLock(a) \/ Record(a) \/ Overtaken(a) \/ Unanswered(a)
    \/ Publish(a) \/ Sent(a) \/ NotSent(a)

Pushes ==
    \/ RunPush \/ TakeLock \/ AlreadyRight \/ MustChange
    \/ Updated \/ Unconfirmed \/ PushFails \/ Stale

Saving(i) == SaveLands(i) \/ SaveFails(i)

Next ==
    \/ \E a \in Asks :
        \/ AskArrives(a) \/ AskExpires(a) \/ ChooseAnswered(a) \/ Decides(a)
        \/ \E v \in Verdicts : ReplyArrives(a, v)
        \/ \E v \in Answers[a] : Choose(a, v)
        \/ \E v \in OthersSay : OtherAnswers(a, v)
    \/ \E i \in DOMAIN saves : Saving(i)
    \/ Pushes
    \/ \E c \in Foreign : OtherWrites(c)
    \/ WindowsEnd \/ Restart

Spec == Init /\ [][Next]_vars

-----------------------------------------------------------------------------
(* Properties *)

Occurrences(s, k) == Cardinality({i \in DOMAIN s : s[i] = k})
Added(a) == IF call[a].epoch = epoch THEN call[a].added ELSE <<>>
Promised(a) == IF promised[a].epoch = epoch THEN promised[a].added ELSE <<>>

\* The entries an answer accounts for: on its way, or confirmed.
Counted(a) == (IF At(a, "closing") THEN <<>> ELSE Added(a)) \o Promised(a)
\* Their places, over all asks, that hold one kind.
Places(c, A, k) == UNION {{<<a, i>> : i \in {j \in DOMAIN c[a] : c[a][j] = k}} : a \in A}

(* The open approved-once entries are those of the answers on their way and *)
(* of the verdicts that were confirmed, entry by entry, however failures    *)
(* and concurrent answers interleave: none loses its entry to another, and  *)
(* nothing is left open for an answer that did not go out                   *)
(* (pushChildCeilingLocked, dropOnce; entries of before a restart excepted).*)
OnceAccounted ==
    \A k \in Kinds :
        LET places == Cardinality(Places([a \in Asks |-> Counted(a)], Asks, k))
        IN  Occurrences(once, k) >= places /\ (restarts = 0 => Occurrences(once, k) = places)

(* What a confirmed verdict rests on is listed by the device for as long as *)
(* its window or rule is there, unless a push failed, another manager wrote *)
(* the slot, or the device is full and lists something else: no push of     *)
(* this phone compiled from older reads lands over it (withOperatorLock,    *)
(* fresh reads inside).                                                     *)
OpenWhenAllowed ==
    agreed /\ (Cardinality(ceiling) < CeilingMax \/ ceiling = ToSet(once \o allowed)) =>
        \A a \in Asks :
            ToSet(Promised(a)) \cup (IF promised[a].rule /\ hist[a].sent THEN {KindOf[a]} ELSE {})
                \subseteq ceiling

(* Whenever no push is armed, queued or running and the last one was        *)
(* confirmed, the device lists exactly what rules and open entries say:     *)
(* what was given back is narrowed, also when it changed during a push      *)
(* (usePolicyPush's queued follow-up).                                      *)
SettledRight ==
    ~push.armed /\ ~push.running /\ queue = <<>> /\ agreed => ceiling = Ceiling

(* What this phone publishes for an ask is the first choice that was saved, *)
(* or the deny it was converted to, across restarts and answers that are    *)
(* sent again (A34 of useChildAsks.ts).  The exception: the writes of the   *)
(* history row are not queued, and an older row that lands over a newer one *)
(* takes a choice back.                                                     *)
ChoiceKept ==
    crossed \/ \A a \in Asks, v \in Verdicts : <<"us", v>> \in relay[a] => v \in {first[a], "deny"}

(* Once the history says an ask was answered, by whomever, this phone       *)
(* publishes no further verdict for it and the entry does not change        *)
(* (onReplyEvent, markAnswered and the guard of decidingRef).               *)
Ours(a) == relay[a] \cap ({"us"} \X Verdicts)
SentIsFinal ==
    [][restarts' = restarts =>
        \A a \in Asks : hist[a].sent => hist'[a] = hist[a] /\ Ours(a)' = Ours(a)]_vars

(* Nobody waits for what will not come: a call of decide() that waits for   *)
(* its save or its push is in line for it, once, a running push is in line  *)
(* for the operator lock, and the lock is never held for nobody.            *)
NobodyStuck ==
    /\ \A a \in Asks :
        /\ At(a, "push") <=> a \in ToSet(queue)
        /\ call[a].pc \in {"saving", "recording", "closing"} =>
              \E i \in DOMAIN saves :
                  \A j \in DOMAIN saves : saves[j].for = a <=> j = i
    /\ push.running <=> "regular" \in ToSet(queue)
    /\ IsInjective(queue)
    /\ job.pc # "idle" => queue # <<>>
=============================================================================
