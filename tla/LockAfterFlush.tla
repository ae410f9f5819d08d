--------------------------- MODULE LockAfterFlush ---------------------------
(***************************************************************************)
(* The registry of pending publishes (lib/pending-publish.ts), the locks   *)
(* that flush it first (lib/lock-after-flush.ts, the requester of          *)
(* App.tsx), and the publish effects of the sync rails that arm it.        *)
(*                                                                         *)
(* A rail's effect arms one entry of the registry; its timer or a flush    *)
(* starts the entry's run, which reads what is to be backed up, encrypts   *)
(* and signs, and sends.  An edit re-runs the effect: the entry it armed   *)
(* is cancelled unless it has started.  Losing the key does the same.      *)
(*                                                                         *)
(* The effect arms nothing until the rail has read its relays since the    *)
(* unlock, nor, on most rails, when none of them could be reached: Gate is *)
(*   "none"    it does not wait (useContactProjections)                    *)
(*   "any"     until the fetch has ended, whatever it found (useKensSync)  *)
(*   "reach"   until a relay has answered a fetch; one that reached none   *)
(*             is repeated (useContactsV2Sync, usePersonasSync, others)    *)
(*                                                                         *)
(* The rails come in three kinds, by what a run does that finds another    *)
(* run of its rail under way:                                              *)
(*   "own"     it goes ahead; the other one's signer has been withdrawn    *)
(*             (useKensSync, usePersonasSync and most others)              *)
(*   "rearm"   it is skipped, and the other one arms a new entry when it   *)
(*             ends (useContactsV2Sync)                                    *)
(*   "queue"   it is skipped, and the other one runs again when it ends    *)
(*             (useContactProjections)                                     *)
(***************************************************************************)
EXTENDS Integers, FiniteSets

CONSTANTS
    Rails,
    Kind,              \* the kind of each rail
    Gate,              \* what it waits for before it is armed
    Refetching,        \* rails whose edits replace the identity object
    Seeding,           \* rails that take what a fetch merged for published
    Forgetting,        \* rails that forget at a lock what they published
    Faults,            \* what goes wrong on a rail: "fail", "hang"
    Slots,             \* bound: names for the runs of a rail
    ExtraPasses,       \* MAX_EXTRA_FLUSH_PASSES
    MaxEdits,          \* bound: edits of a rail
    MaxUnlocks         \* bound: unlocks

ASSUME LockAssumption ==
    /\ Kind \in [Rails -> {"own", "rearm", "queue"}]
    /\ Gate \in [Rails -> {"none", "any", "reach"}]
    /\ Faults \in [Rails -> SUBSET {"fail", "hang"}]
    /\ ExtraPasses \in Nat
    /\ MaxEdits \in [Rails -> Nat]
    /\ MaxUnlocks \in Nat

VARIABLES
    key,               \* whether encryptionKey is in memory
    unlocks,
    edits,             \* edits of a rail whose effect has run
    sent,              \* how many of them a relay has confirmed
    hashed,            \* lastPublishedHashRef: the edits it stands for
    fetch,             \* what the rail's fetch since the unlock has come to
    armed,             \* entries whose timer has not fired
    run,               \* the runs under way, by slot
    again,             \* pendingRef, queuedRef: a skipped run is owed
    flush,             \* the flush in flight: its pass and whom it waits for
    owed,              \* the edits a flush was begun for, while the rail is open
    during             \* how many effects have armed an entry under the flush,
                       \* counted up to one more than the extra passes

railVars  == <<edits, sent, hashed, fetch, armed, run, again>>
flushVars == <<flush, owed, during>>
vars == <<key, unlocks, railVars, flushVars>>

-----------------------------------------------------------------------------
(* An entry is the one armed by the effect that is mounted, or an orphan: a *)
(* re-arm by the run of an earlier effect, which no cleanup cancels any     *)
(* more.  Two orphans of one rail count as one.                             *)
Entries == {"mounted", "orphan"}

(* A run: what it will send, whether the effect that armed it is still      *)
(* mounted, and whether the registry knows it.                              *)
Runs == [pc : {"free", "read", "sign", "wire", "hung"}, version : Nat,
         mounted : BOOLEAN, registered : BOOLEAN]
Free == [pc |-> "free", version |-> 0, mounted |-> FALSE, registered |-> FALSE]
NewRun(entry, registered) ==
    [pc |-> "read", version |-> 0, mounted |-> entry = "mounted", registered |-> registered]

\* lastPublishedHashRef is '': whatever there is differs from it.
NoHash == -1

\* No fetch has ended.  A rail without a gate has nothing to wait for.
Unread == [r \in Rails |-> IF Gate[r] = "none" THEN "reached" ELSE "unread"]

\* hydrated, and remoteState where the rail looks at it.
OpenWith(r, came) == came = "reached" \/ (Gate[r] = "any" /\ came = "unreached")
Open(r) == OpenWith(r, fetch[r])

NoneOwed == [r \in Rails |-> 0]
NoFlush == [on |-> FALSE, extra |-> 0, waits |-> {}]

TypeOK ==
    /\ key \in BOOLEAN
    /\ unlocks \in 0..MaxUnlocks
    /\ edits \in [Rails -> Nat]
    /\ sent \in [Rails -> Nat]
    /\ \A r \in Rails : sent[r] <= edits[r]
    /\ hashed \in [Rails -> Nat \cup {NoHash}]
    /\ fetch \in [Rails -> {"unread", "reached", "unreached"}]
    /\ armed \in [Rails -> SUBSET Entries]
    /\ run \in [Rails -> [Slots -> Runs]]
    /\ \A r \in Rails, i \in Slots : run[r][i].version <= edits[r]
    /\ again \in [Rails -> BOOLEAN]
    /\ flush \in [on : BOOLEAN, extra : 0..ExtraPasses, waits : SUBSET (Rails \X Slots)]
    /\ owed \in [Rails -> Nat]
    /\ during \in 0..(ExtraPasses + 1)

\* The app is unlocked and has read its relays; what was there is backed up.
Init ==
    /\ key = TRUE
    /\ unlocks = 0
    /\ edits = [r \in Rails |-> 0]
    /\ sent = [r \in Rails |-> 0]
    /\ hashed = [r \in Rails |-> 0]
    /\ fetch = [r \in Rails |-> "reached"]
    /\ armed = [r \in Rails |-> {}]
    /\ run = [r \in Rails |-> [i \in Slots |-> Free]]
    /\ again = [r \in Rails |-> FALSE]
    /\ flush = NoFlush
    /\ owed = NoneOwed
    /\ during = 0

Registered(r) == armed[r] # {} \/ \E i \in Slots : run[r][i].registered
HasPending == \E r \in Rails : Registered(r)

Busy(r) == \E i \in Slots : run[r][i].pc # "free"
HasSlot(r) == \E i \in Slots : run[r][i].pc = "free"
FreeSlot(r) == CHOOSE i \in Slots : run[r][i].pc = "free"

\* The cleanup of a rail's effect: what has started loses its effect.
Withdrawn(r) ==
    [i \in Slots |-> IF run[r][i].pc = "free" THEN Free
                     ELSE [run[r][i] EXCEPT !.mounted = FALSE]]

(* Whether a run may go on: "rearm" compares the identity and the key,      *)
(* which are the same again after an unlock; the others their own effect.   *)
Current(r, i) == key /\ (Kind[r] = "rearm" \/ run[r][i].mounted)

-----------------------------------------------------------------------------
(* Starting entries: by the timer, or all of them by a flush.               *)

\* The runs of r once the entries S have been started, first before the rest.
RunsAfter(r, S, first) ==
    IF S = {} \/ ~key \/ (Kind[r] # "own" /\ Busy(r)) THEN run[r]
    ELSE [run[r] EXCEPT ![FreeSlot(r)] = NewRun(first, TRUE)]

AgainAfter(r, S) ==
    \/ again[r]
    \/ Kind[r] # "own" /\ key /\ S # {} /\ (Busy(r) \/ S = Entries)

\* The timer of an entry fires.
Fire(r, entry) ==
    /\ entry \in armed[r]
    /\ HasSlot(r)
    /\ armed' = [armed EXCEPT ![r] = @ \ {entry}]
    /\ run' = [run EXCEPT ![r] = RunsAfter(r, {entry}, entry)]
    /\ again' = [again EXCEPT ![r] = AgainAfter(r, {entry})]
    /\ UNCHANGED <<key, unlocks, edits, sent, hashed, fetch, flushVars>>

\* flushPendingPublishes: start every entry, wait for every registered run.
FlushPass(extra) ==
    \E first \in [Rails -> Entries] :
        /\ \A r \in Rails : armed[r] # {} => first[r] \in armed[r] /\ HasSlot(r)
        /\ armed' = [r \in Rails |-> {}]
        /\ run' = [r \in Rails |-> RunsAfter(r, armed[r], first[r])]
        /\ again' = [r \in Rails |-> AgainAfter(r, armed[r])]
        /\ flush' = [on |-> TRUE, extra |-> extra,
                     waits |-> {w \in Rails \X Slots : run'[w[1]][w[2]].registered}]

-----------------------------------------------------------------------------
(* A run, from await to await.                                              *)

(* The run is over.  In its finally it makes good a run that was skipped,   *)
(* if the key is still there: "rearm" arms an entry, "queue" starts the run *)
(* at once, outside the registry.                                           *)
End(r, i) ==
    /\ run' = [run EXCEPT ![r][i] =
           IF Kind[r] = "queue" /\ again[r] /\ key THEN NewRun("mounted", FALSE) ELSE Free]
    /\ armed' = [armed EXCEPT ![r] =
           IF Kind[r] = "rearm" /\ again[r] /\ key
           THEN @ \cup {IF run[r][i].mounted THEN "mounted" ELSE "orphan"} ELSE @]
    /\ again' = [again EXCEPT ![r] = FALSE]
    /\ flush' = [flush EXCEPT !.waits = @ \ {<<r, i>>}]

At(r, i, pc) == run[r][i].pc = pc
Goto(r, i, pc) == run' = [run EXCEPT ![r][i].pc = pc]

\* What is to be backed up is read, unless the run is out of date.  If it is
\* what was published last, that was all.
Read(r, i) ==
    /\ At(r, i, "read")
    /\ IF Current(r, i) /\ hashed[r] # edits[r]
       THEN /\ run' = [run EXCEPT ![r][i] = [@ EXCEPT !.pc = "sign", !.version = edits[r]]]
            /\ UNCHANGED <<armed, again, flush>>
       ELSE End(r, i)
    /\ UNCHANGED <<key, unlocks, edits, sent, hashed, fetch, owed, during>>

\* guardedSigningBackend: no event of a run that is out of date.
Sign(r, i) ==
    /\ At(r, i, "sign")
    /\ IF Current(r, i) THEN Goto(r, i, "wire") /\ UNCHANGED <<armed, again, flush>>
                        ELSE End(r, i)
    /\ UNCHANGED <<key, unlocks, edits, sent, hashed, fetch, owed, during>>

\* A relay confirms the event.  The hash is the run's, also of an older one.
Confirmed(r, i) ==
    /\ At(r, i, "wire")
    /\ sent' = [sent EXCEPT ![r] = IF @ < run[r][i].version THEN run[r][i].version ELSE @]
    /\ hashed' = IF r \in Forgetting /\ ~key THEN hashed
                 ELSE [hashed EXCEPT ![r] = run[r][i].version]
    /\ End(r, i)
    /\ UNCHANGED <<key, unlocks, edits, fetch, owed, during>>

\* The signer refuses, or no relay confirms: the run ends, nothing is retried.
Fails(r, i) ==
    /\ "fail" \in Faults[r]
    /\ At(r, i, "sign") \/ At(r, i, "wire")
    /\ End(r, i)
    /\ UNCHANGED <<key, unlocks, edits, sent, hashed, fetch, owed, during>>

\* The signer or the relay never answers: nothing comes of the run any more.
Hangs(r, i) ==
    /\ "hang" \in Faults[r]
    /\ At(r, i, "sign") \/ At(r, i, "wire")
    /\ run' = [run EXCEPT ![r][i] = [@ EXCEPT !.pc = "hung", !.version = 0, !.mounted = FALSE]]
    /\ UNCHANGED <<key, unlocks, edits, sent, hashed, fetch, armed, again, flushVars>>

\* IN_FLIGHT_REGISTRY_CAP_MS after its start the registry forgets such a run.
Forget(r, i) ==
    /\ At(r, i, "hung")
    /\ run[r][i].registered
    /\ run' = [run EXCEPT ![r][i].registered = FALSE]
    /\ UNCHANGED <<key, unlocks, edits, sent, hashed, fetch, armed, again, flushVars>>

-----------------------------------------------------------------------------
(* The user's edits, and what the rails read.                               *)

(* The effects of the rails R run again, their fetches having come to now:  *)
(* the cleanup cancels the entry and withdraws the runs, and the effect     *)
(* arms an entry if the gate is open.                                       *)
Remount(R, now) ==
    /\ fetch' = [r \in Rails |-> IF r \in R THEN now[r] ELSE fetch[r]]
    /\ armed' = [r \in Rails |->
           IF r \notin R THEN armed[r]
           ELSE IF OpenWith(r, now[r]) THEN armed[r] \cup {"mounted"}
           ELSE armed[r] \ {"mounted"}]
    /\ run' = [r \in Rails |-> IF r \in R THEN Withdrawn(r) ELSE run[r]]
    /\ owed' = [r \in Rails |-> IF r \in R /\ ~OpenWith(r, now[r]) THEN 0 ELSE owed[r]]
    /\ during' = IF flush.on /\ during <= ExtraPasses /\ \E r \in R : OpenWith(r, now[r])
                 THEN during + 1 ELSE during

(* An edit is stored and the rail's effect runs again.  One that replaces   *)
(* the identity is a new target to all: every rail reads its relays again   *)
(* first, this one included.                                                *)
Edit(r) ==
    /\ key
    /\ edits[r] < MaxEdits[r]
    /\ edits' = [edits EXCEPT ![r] = @ + 1]
    /\ IF r \in Refetching THEN Remount(Rails, Unread) ELSE Remount({r}, fetch)
    /\ UNCHANGED <<key, unlocks, sent, hashed, again, flush>>

\* The fetch of r ends with what came.
FetchEnds(r, came) ==
    /\ key
    /\ fetch[r] = "unread"
    /\ Remount({r}, [fetch EXCEPT ![r] = came])
    /\ UNCHANGED <<key, unlocks, edits, sent, again, flush>>

\* Mutants of Fetched: every rail takes what it merged for published; the
\* publish effect does not run again (remoteState is not among its deps).
FetchedSeeds(r) ==
    /\ FetchEnds(r, "reached")
    /\ hashed' \in {hashed, [hashed EXCEPT ![r] = edits[r]]}

FetchedUnarmed(r) ==
    /\ key
    /\ fetch[r] = "unread"
    /\ fetch' = [fetch EXCEPT ![r] = "reached"]
    /\ UNCHANGED <<key, unlocks, edits, sent, hashed, armed, run, again, flushVars>>

(* A relay has answered.  If it had a record, a seeding rail takes the      *)
(* merge of it with what is on the device for published.                    *)
Fetched(r) ==
    /\ FetchEnds(r, "reached")
    /\ \/ UNCHANGED hashed
       \/ r \in Seeding /\ hashed' = [hashed EXCEPT ![r] = edits[r]]

\* No relay could be reached.
FetchFails(r) == FetchEnds(r, "unreached") /\ UNCHANGED hashed

\* useSyncReadRetry: thirty seconds later, or online again, once more.
Retry(r) ==
    /\ key
    /\ Gate[r] = "reach"
    /\ fetch[r] = "unreached"
    /\ fetch' = [fetch EXCEPT ![r] = "unread"]
    /\ UNCHANGED <<key, unlocks, edits, sent, hashed, armed, run, again, flushVars>>

-----------------------------------------------------------------------------
(* The locks.                                                               *)

(* setEncryptionKey(null): the effects are cleaned up, the fetches          *)
(* abandoned; orphans stay armed.                                           *)
DropKey ==
    /\ key' = FALSE
    /\ fetch' = Unread
    /\ hashed' = [r \in Rails |-> IF r \in Forgetting THEN NoHash ELSE hashed[r]]
    /\ armed' = [r \in Rails |-> armed[r] \ {"mounted"}]
    /\ run' = [r \in Rails |-> Withdrawn(r)]
    /\ owed' = NoneOwed
    /\ during' = 0
    /\ UNCHANGED <<unlocks, edits, sent, again>>

(* requestLock by the idle timer, a hidden page, the end of a stay-awake    *)
(* window.  A request while a flush is in flight shares it.                 *)
LockAtOnce ==
    /\ key
    /\ ~flush.on
    /\ ~HasPending
    /\ DropKey
    /\ UNCHANGED flush

StartFlush ==
    /\ key
    /\ ~flush.on
    /\ HasPending
    /\ FlushPass(0)
    /\ owed' = [r \in Rails |-> IF Open(r) THEN edits[r] ELSE 0]
    /\ during' = 0
    /\ UNCHANGED <<key, unlocks, edits, sent, hashed, fetch>>

\* Mutant of FlushAgain: one pass more than MAX_EXTRA_FLUSH_PASSES allows.
FlushOnceMore ==
    /\ flush.on
    /\ flush.waits = {}
    /\ HasPending
    /\ flush.extra <= ExtraPasses
    /\ FlushPass(flush.extra + 1)
    /\ UNCHANGED <<key, unlocks, edits, sent, hashed, fetch, owed, during>>

\* A pass has settled and left something pending: once more, up to a limit.
FlushAgain ==
    /\ flush.on
    /\ flush.waits = {}
    /\ HasPending
    /\ flush.extra < ExtraPasses
    /\ FlushPass(flush.extra + 1)
    /\ UNCHANGED <<key, unlocks, edits, sent, hashed, fetch, owed, during>>

\* Mutant of LockFlushed: one pass, whatever it left pending.
LockAfterOnePass ==
    /\ flush.on
    /\ flush.waits = {}
    /\ flush' = NoFlush
    /\ DropKey

\* The flush is over: the lock.
LockFlushed ==
    /\ flush.on
    /\ flush.waits = {}
    /\ HasPending => flush.extra = ExtraPasses
    /\ flush' = NoFlush
    /\ DropKey

\* Mutant of LockAtCap: the cap only ends the passes.
CapWaits ==
    /\ flush.on
    /\ flush.waits = {}
    /\ flush' = NoFlush
    /\ DropKey

\* FLUSH_LOCK_CAP_MS have gone by: the lock, under whatever still runs.
LockAtCap ==
    /\ flush.on
    /\ flush' = NoFlush
    /\ DropKey

\* lockExpiredPhoneAppsKey: no flush first.  One in flight goes on.
LockExpired ==
    /\ key
    /\ DropKey
    /\ UNCHANGED flush

(* The key is back.  Every fetch starts; only a rail without a gate is      *)
(* armed at once.                                                           *)
Unlock ==
    /\ ~key
    /\ unlocks < MaxUnlocks
    /\ key' = TRUE
    /\ unlocks' = unlocks + 1
    /\ armed' = [r \in Rails |-> IF Open(r) THEN armed[r] \cup {"mounted"} ELSE armed[r]]
    /\ UNCHANGED <<edits, sent, hashed, fetch, run, again, flushVars>>

-----------------------------------------------------------------------------
Step(r, i) == Read(r, i) \/ Sign(r, i) \/ Confirmed(r, i)
Timers(r) == \E entry \in Entries : Fire(r, entry)
Reading(r) == Fetched(r) \/ FetchFails(r) \/ Retry(r)
Locking == LockFlushed \/ LockAtCap

Next ==
    \/ \E r \in Rails : Edit(r) \/ Timers(r) \/ Reading(r)
    \/ \E r \in Rails, i \in Slots : Step(r, i) \/ Fails(r, i) \/ Hangs(r, i) \/ Forget(r, i)
    \/ LockAtOnce \/ StartFlush \/ FlushAgain \/ Locking \/ LockExpired \/ Unlock

Spec == Init /\ [][Next]_vars

(* Of the rails without faults: timers fire, what a run waits for comes, and *)
(* a relay answers in the end if it is asked over and over, which is strong *)
(* fairness as a fetch may fail in between.  Of the others nothing is       *)
(* assumed.  The user owes neither edits nor locks nor an unlock.           *)
FairSpec ==
    /\ Spec
    /\ \A r \in Rails : Faults[r] = {} =>
           /\ WF_vars(Timers(r)) /\ WF_vars(\E i \in Slots : Step(r, i))
           /\ WF_vars(Retry(r)) /\ SF_vars(Fetched(r))
    /\ WF_vars(Locking)

-----------------------------------------------------------------------------
(* Properties.                                                             *)

\* Rails whose publishes succeed, whose runs are all in the registry, and
\* that take for published only what a relay has confirmed.
Reliable == {r \in Rails : Faults[r] = {} /\ Kind[r] # "queue" /\ r \notin Seeding}

(* What a lock goes by: a rail that has read its relays and has nothing in  *)
(* the registry has nothing left to publish, whatever edits, fetches,       *)
(* timers, flushes, locks and unlocks came before, and also while a run of  *)
(* an earlier effect is still on the wire.  Of a rail that has not, the     *)
(* registry tells nothing.                                                  *)
RegistryTells ==
    \A r \in Reliable : key /\ Open(r) /\ ~Registered(r) => sent[r] = edits[r]

(* The inductive invariant behind it: the registry knows every run, the     *)
(* hash stands for nothing that is not backed up, and on an open rail an    *)
(* edit that is not is covered by an entry, by a skipped run that the one   *)
(* under way makes good, or by a run that will send it.                     *)
Covers(r, i) ==
    /\ At(r, i, "read") \/ (run[r][i].pc \in {"sign", "wire"} /\ run[r][i].version = edits[r])
    /\ Kind[r] = "rearm" \/ run[r][i].mounted

Covered(r) ==
    \/ armed[r] # {}
    \/ Kind[r] = "rearm" /\ again[r] /\ Busy(r)
    \/ \E i \in Slots : Covers(r, i)

Accounted(r) ==
    /\ \A i \in Slots : ~At(r, i, "free") => run[r][i].registered /\ ~At(r, i, "hung")
    /\ Kind[r] = "own" => armed[r] \subseteq {"mounted"}
    /\ hashed[r] <= sent[r]
    /\ key /\ Open(r) /\ sent[r] < edits[r] => Covered(r)

RegistryInv == \A r \in Reliable : Accounted(r)

(* A lock that waited for its flush leaves nothing behind that was there    *)
(* when it was asked for, of a rail that was open then and did not start to *)
(* read again, unless the cap ended the wait, or more edits and fetches     *)
(* armed an entry under the flush than there are extra passes.              *)
OwedBeforeLock ==
    [][LockFlushed /\ key /\ during <= ExtraPasses
           => \A r \in Reliable : sent[r] >= owed[r]]_vars

(* The same for every rail there is: an edit made just before the app hides *)
(* reaches the relay.                                                       *)
FlushedBeforeLock ==
    [][LockFlushed /\ key /\ during = 0
           => \A r \in Rails : Faults[r] = {} => sent[r] >= owed[r]]_vars

(* An edit left behind, by the cap, by a lock that does not wait, or        *)
(* because its rail was not open, is published after the next unlock: a     *)
(* rail that is behind catches up while the app stays unlocked, through     *)
(* fetches that fail, start over and bring it up again.  A seeding rail     *)
(* promises less: a fetch can make it take the edit for published.          *)
EditsReachRelay ==
    \A r \in Rails \ Seeding : Faults[r] = {} =>
        (key /\ sent[r] < edits[r]) ~> (~key \/ sent[r] = edits[r])

(* A lock that was asked for comes, whatever hangs, and what a relay has    *)
(* confirmed stays confirmed (FLUSH_LOCK_CAP_MS of lock-after-flush.ts).    *)
Promise == INSTANCE FlushThenLock
    WITH key <- key, asked <- flush.on, made <- edits, kept <- sent, Rails <- Rails
LockPromised == Promise!Spec
=============================================================================
