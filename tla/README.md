# A TLA+ verification of My Signet

My Signet is a wallet for Nostr identities: a React single-page application,
also packaged for Android, that keeps a person's (and their family's) keys and
contacts, answers sign-in and pairing requests, serves as a NIP-46 "bunker"
for paired apps, and synchronises its data between a person's devices through
relays that store signed, encrypted events. There is no server of its own:
every protocol is a set of asynchronous handlers over IndexedDB, relays that
may lose or withhold anything, and hardware or remote signers.

That is what this project models. All the paths below are relative to the
repository; `App.tsx`, `lib/` and `hooks/` are under `src/`.

## 1. Inventory

`PROJECT.json` lists every component with its files. In short:

| Component | State | Operations | What is hard | What makes it correct |
|---|---|---|---|---|
| Connect approval (`lib/connect-delivery.ts`, `auth-request-settlement.ts`, `connect-route-cancel.ts`, handlers in `App.tsx`) | request on screen, settlement ledger, serving route, pairing records | open, approve, cancel/deny, deliver over relays in turn, roll back | some ten awaits per relay, and Cancel, expiry, revocation between any two | one answer per request; a cancelled request is not served; a failed approval leaves pairings as they were |
| Contacts sync rail (`hooks/useContactsV2Sync.ts`, `lib/contacts-v2-sync.ts`, `sync-relays.ts`, `sync-seen.ts`) | per device: log, seen mark, adopted checkpoint, high-water mark, publish cycle; per relay: one event per tag | fetch, merge, publish an outbox, compact into the shared checkpoint | several devices replace one shared event; reads are partial; any await may be the last | no device's operations are lost; sequences rise; logs converge |
| Chunked checkpoints (same file) | chunk events and a manifest | split, publish chunk by chunk, resolve | a write of several events is not atomic, and neither is the read | whole or nothing; the checkpoint in place stays readable |
| Contacts reducer (`lib/contacts-v2-reducer.ts`, `-effective`, `-rights`) | none (a fold of the log) | validate, sort, apply | arrival order, removal and re-adding | the view depends on the set of operations only |
| Mutation queue and clock (`contacts-v2-queue.ts`, `-clock.ts`, `hooks/useContactsV2.ts`) | queue tail, Lamport clock | plan, stamp, persist | clock read before an await, several writers, several tabs | stamps strictly rise |
| Pending publishes and lock (`pending-publish.ts`, `lock-after-flush.ts`) | registry of debounced publishes, flush in flight | register, cancel, flush, lock | re-arming during the flush, cancel against a started run, cap | what was pending is sent before the lock, and the lock comes |
| Child asks and operator lock (`hooks/useChildAsks.ts`, `usePolicyPush.ts`, `lib/policy-push.ts`, `operator-lock.ts`) | asks, history, approved-once entries, device slot policies | decide, push, publish verdict, give back | two guardians, stale challenges, failed publish after a push | one verdict; the device never wider than the verdicts and rules |
| Sign-in approval (`App.tsx`, `auth-relay-delivery.ts`) | request on screen, settlement ledger | approve, deny, deliver | outlives a lock and unlock | one answer per request |
| Bunker server (`hooks/useBunkerServer.ts`, `nip46-server.ts`, `bunker-router.ts`) | client records, subscriptions | serve requests, update records | read-modify-write of records others change | a revoked app stays revoked |
| Private vault and rotation (`private-vault*.ts`) | encrypted snapshots, rotation intent | merge, publish, rotate, forward | crash between phases, other devices | resumable, no data behind a forwarded key |
| Keep, invites, handshake, Heartwood, child pairing, older rails, grants, pictures | various | various | mostly request/answer with an external party | not modelled, see section 7 |

Interactions: the UI handlers in `App.tsx` call into `lib/`; hooks run effects
on state changes; the contacts rail and the vault read and write the same
operation log in IndexedDB (`lib/db.ts`), which is the only state that
survives a page; connect and sign-in requests share one settlement ledger; the
bunker server and the connect approval write the same pairing records.

The hazards in `PROJECT.json` name the lines where the order of steps, a
stale read, a crash or a limit can make these go wrong; each has the
properties that would catch it, or a note.

## 2. Modules

| Module | Models | Proofs in |
|---|---|---|
| `AuthSettlement` | the ledger of `auth-request-settlement.ts`: open, in flight, settled, delivering, cancel requested | |
| `AnswerOnce` | abstract: one answer per request, never replaced | |
| `ConnectDelivery` | the approval of a connect request, extends `AuthSettlement` | `ConnectDelivery_proofs` |
| `GrowOnlyLogs` | abstract: logs of devices grow, by new operations and by what other devices hold | |
| `ContactsRail` | the contacts rail, unchunked | `ContactsRail_proofs` |
| `ContactsRailRounds` | a storm of `ContactsRail` steps, then one device at a time | |
| `CheckpointChunks` | chunked publication and reading | `CheckpointChunks_proofs` |
| `FlushThenLock` | abstract: a lock that was asked for comes, what was confirmed stays confirmed | |
| `LockAfterFlush` | the registry of pending publishes, the rails that arm it, the locks that flush it | `LockAfterFlush_proofs` |
| `ChildVerdicts` | a guardian's phone answering a child's asks, the pushes of the child's ceiling, other phones | `ChildVerdicts_proofs`, `ChildCeiling_proofs` |
| `ContactsDirectory` | what a set of contact operations means: the pure replay of `contacts-v2-reducer.ts` | `ContactsDirectory_proofs` |
| `ContactsWriters` | the devices that write them: queue, clocks, hooks, merges; extends `ContactsDirectory` | `ContactsWriters_proofs` |
| `MC*` | constants for TLC | |

### 2.1 ConnectDelivery

An action is the code between two awaits. `pc[r]` is the await an approval of
request `r` stands at: `resolve` (waiting for a signer in
`approveConnectUnguarded`), `load` and `loaded` (the earlier pairing record),
`arm` (the listener on a relay), `save`/`saved` (the pairing), `send`
(encrypting, signing and connecting, up to `beforePublish`), `publish`, `undo`
and `rewrite` (`undoSave`: read the record, then restore or delete it). The
guards are the code's `stillOpen()` and `stillPending()`; `settle`,
`delivering` and `cancelRequested` are the ledger's three collections, changed
only through the operations of `AuthSettlement`.

`<<r, n>>`, the n-th approval of `r`, is both its pairing nonce and its route
token, as the code draws both afresh per approval. `store` says which approval
saved the record of a client; `Earlier` is the record from before.
`tracked` is `ConnectRouteTracker`: which token a Cancel must take down. Around
an approval happen: a new request takes the screen (`Arrive`), Cancel before
and during the delivery, Dismiss, the expiry of the route, revocation of the
app, and the bunker server reading a record and writing it back. `Disturbances`
chooses among them.

Abstracted: what an answer contains, the signer, and relay URLs (a candidate is
a position in the list). Timeouts are failures that may happen at their await.
The approval of a direct-paired child (`childDirect`, `App.tsx` 7769-7821) is left
out: `deliverChildNostrConnect` is the same walk, `deliverConnectApproval`, with no
route to install and no pairing record to save, restore or delete, so there is nothing in
it for `CancelledNotServed` and `PairingSettled` to say.

### 2.2 ContactsRail

Each device has `log` and `seen` (IndexedDB, survive `Close`) and everything
else in memory. `ref` is `checkpointRef` with `checkpointStateRef`, `high` is
`persistedSeqRef`, `hydrated` and `remote` gate publishing as the effect does,
`timer`, `pending` and `cycle` are the debounce, `pendingRef` and the cycle in
flight. A timer is the one the effect armed or one a cycle re-armed: the effect
clears only the former. `held[r][t]` is the event relay `r` has for tag `t`, and
`wire` the signed events that have not arrived at a relay.

A fetch is `Probe` (the checkpoint and the verdict on it), `ReadOutbox` once per
listed device, `Learn` (adopt, record, raise the high-water mark), `Merge`. The
code awaits between each. `Learn` is one step because `setSyncSeen` follows
`getSyncSeen` in one serial store and the refs are assigned without an await.
A publish is `Fire` (read the log), `Compact` or `SendOutbox` or
`NothingToSend`, `Arrive` per relay, and `Confirmed` on the first.

Abstractions, by name:
- An operation is an identifier. Its body matters to the reducer only.
- Stamps (`created_at`) strictly increase over all devices: no clock skew and no
  two events in one second.
- Whether a checkpoint is more than a day old is a free choice per decision.
- A checkpoint fits one envelope here; `CheckpointChunks` has the other case.
- The set of operations stands for its hash in `lastPublishedHashRef`.
- Directories excluded from publishing (`publishExcludedDirectories`: their writers have
  moved to keys of their own) appear only as one effect: a batch that holds one of
  their operations cannot be saved (disturbance `merge`). The filter of the log at
  `useContactsV2Sync.ts:517` is not modelled: a compaction leaves out the operations of such
  a directory that the adopted checkpoint folded. The log, the events and `FoldsBase` are about
  the directories that are published.
- `Retry` waits for the fetch to end. In the code its timer, and coming online, may also
  begin the fetch anew in the middle (`useSyncReadRetry.ts` 6-12). That is what `Refetch`
  does, in `rail_edits` and in the theorems on the rounds.
- Editing the relay list, and lock with unlock, are one action, `Refetch`, which
  starts the fetch over in a live page. `Relays` stays the same pool.
- Encryption and the derivation of device tags are opaque: an event opens or
  does not (`opaque`).

`base` in an event is a history variable: the operations of the checkpoint its
author had adopted. It is not sent and nothing reads it but `FoldsBase`.

### 2.3 ContactsRailRounds

"In the end all logs are equal" is not true of a system whose pages may close
for good, and under plain fairness it would say little. So the question is put
as a schedule: after any prefix of `ContactsRail` steps that signs at most
`StormStamps` events, all pages close and messages in flight are lost; then each device is
opened, left to finish and closed, in a given order, twice. All steps are those of
`ContactsRail`. `Healable` names the instances in which that heals: no cap is met
(`MaxIds`, `MaxLog`, `MaxOutbox`), every relay answers, every event opens, every save
succeeds, and each device is opened again after all have been opened.
The module ends with the invariant that the proof of section 5 uses.

### 2.4 CheckpointChunks

`splitCheckpoint` lays the operations out in log order, which is that of their
identifiers since `db.ts` lists them by primary key (871-875), and cuts by envelope
size; here by a number of operations, `ChunkOps`. Chunk tags are `<<seq, index>>`,
exactly as in `publishContactsV2Checkpoint`, so a second publication at the same
sequence reuses them. A chunk's digest stands for its operations, and a manifest
for the digests of all. `SendChunk` and `SendTop` may store without confirming,
confirm, or fail; `Restart` may fall anywhere.

One relay that serves the last event stored is used; the rest of the rail is left
out: `Learn` stands for edits and for outboxes, and a fetch does not start while
the same device publishes. The test on `created_at` in `RolledBack` is left out
because stamps follow the order of storing here. `attempts` is a history variable:
the checkpoints whose publication began.

### 2.5 LockAfterFlush

A rail's effect arms one entry of the registry (`armed`); its timer (`Fire`) or a
flush (`FlushPass`) starts the entry's run, which stands at `read`, `sign` or `wire`:
what it waits for. An edit re-runs the effect, whose cleanup cancels the entry
unless it has started and withdraws the signer of a run that has. `Kind` tells
the rails apart by what a run does that finds another one of its rail under way: it
goes ahead (most rails), the other re-arms (`useContactsV2Sync`), or the other
runs again outside the registry (`useContactProjections`). `StartFlush`,
`FlushAgain`, `LockFlushed` and `LockAtCap` are `lockAfterFlush` with its cap and its
extra passes, `LockAtOnce` the request with nothing pending, and `LockExpired` the lock
of the Phone apps key, which waits for nothing.

The publish effect arms nothing until its rail has read its relays. `fetch[r]` is what
has come of that since the unlock, and `Gate[r]` what the rail asks for: an answer
(`hydrated` and a `remoteState` that is not unreachable: `useContactsV2Sync.ts` 463-464,
`usePersonasSync.ts` 404-405), the end of the fetch, whatever it found (`useKensSync.ts:165`),
or nothing (`useContactProjections`). A lock abandons the fetches (`DropKey`), `Unlock`
starts them, `Fetched` and `FetchFails` end them and re-run the effect (`Remount`), and
`Retry` repeats one that reached no relay. So with the key present, an empty
registry and unsent edits is an ordinary state, namely that of a rail that is not `Open`;
what the properties say of a rail, they say of it while it is open, and `owed`
holds only what was owed on open rails. An edit of the identity itself is
a new target to every rail: all fetches start over (`Refetching`).

`hashed[r]` is `lastPublishedHashRef`, the edits it stands for; a run that finds nothing
else to publish ends (`Read`), and a confirmed run sets it, also to less than what a later
run has published (`Confirmed`). Some rails set it from what their fetch merged
(`Seeding`: `useKensSync.ts` 146-148 and others, see section 6), some empty it at a lock
(`Forgetting`).

Abstracted: an edit is one step from the change to the effect that it re-runs, and
what a fetch brings to the device is an edit like any other; the end of a fetch is one step, and
so is the change of identity with the reset of `hydrated` that follows it; what is
published is a number, the edits it contains; two orphaned entries of one
rail count as one. The child rules' rule that an unusable record on the relay blocks publishing is
left out. `LockRequest.cancel` is not an action: nothing calls it.
`owed` and `during` are history variables.

### 2.6 ChildVerdicts

`call[a]` is the `decide()` under way for an ask: `saving` (the first
`recordHistory`), `weigh` and `rule` (the rules are read, a rule is saved), `store`
(the write behind `addOnceEntry`), `push` (waiting in `withOperatorLock` or holding it),
`outcome`, `recording` and `check` (the row is saved again, and the replies looked
at), `publish`, `wire`, `closing`. `queue` and `job` are the operator lock and the
push of its holder (`runPolicyPushLocked`: list, compare, update, once more when
stale); `push` is the timer and the queued follow-up of `usePolicyPush`. `saves` are
the writes of the history row under way. They land in any order, because
`saveChildAskHistory` is not queued and each write derives its key anew
(`saveEncryptedJsonRow`, `db.ts:3654`), unlike the approved-once store, whose saves
`App.tsx` puts in a queue.

The environment: other phones of the family answer with the same rail key and write the
same slot; an ask expires; the windows of approved-once entries end; the page
restarts, keeping a prefix of the entries because their last writes may be lost.
`Futures` bounds how often each may happen.

Abstracted: an ask is a signature of one kind of event, so a rule is known by its
kind; a ceiling is the set of kinds the device lists; the stage and the pause
of the child do not change; expiry is looked at where the code looks at it, when a
`decide()` starts. `first`,
`promised` (the entries and the rule a verdict rests on), `crossed` and `agreed` are
history variables.

### 2.7 ContactsDirectory and ContactsWriters

`View(S)` is `applyOperations`: the first replay (`Meets`) finds which contacts are one,
as a contact that gains a key joins every contact that holds it then; if any
are, the second (`Grouped`) replays each group under the id of its oldest member, with one
item per key and the first adds of the younger members reduced to links. `Before` is the
order of `sortOperations`. `Applies` is what a tombstone still takes.

In `ContactsWriters` a call of the screen becomes a task of the one queue of the page.
`Plan` is the task up to its save: it reads the log, stamps with `nextClock` of the clock
its hook remembers and of the log, and may be refused (`confirmMergeRefusal`). `Save` is
one transaction and makes the screen from what was read and saved; `SaveOne` is one
operation of the family hook's `applyOps`; `SaveFails` rejects the call.
`Merge` is the rail's save of what it fetched, past the queue, which then queues the
reloads of `onRemoteMerged`. `shown` is `opsRef`, what the contact screen was made from: a
user only points at what it shows.

Abstracted: names, tiers, roles, notes, pictures, contact methods, vouches, ceilings,
checks, key links and app introductions; what differs between owner and guardian; random
ids are a device and a number, with an arbitrary order (`Tie`); another device's log
arrives whole, since `ContactsRail` covers how it travels; a share
of the family screen is of somebody this directory does not have.

## 3. Runs

All runs terminate; the numbers are distinct states.

| Run | States | Question |
|---|---|---|
| `connect` | 504k | one app paired before with two relay candidates, one whose record is revoked, rewritten and not saved, two approvals each: all safety, the refinement, both liveness properties |
| `connect_revoked` | violated | does a rollback bring back a revoked pairing |
| `rail_safety` | 1.88M | two devices, two relays, a cap of one listed device (`MaxIds`), partial reads, unopenable checkpoints, unconfirmed publishes, crashes: folding, sequences, marks, refinement |
| `rail_edits` | 87k | one device with three edits, refetches in a live page, a log that outgrows a checkpoint (`MaxLog` 2): liveness, every edit is published |
| `rail_heals` | 1.30M | after a storm of three events, two rounds: logs equal unless a device is cut off |
| `rail_merge_fails` | violated | may a device compact over what it failed to save |
| `chunks_intact` | 4.83M | two devices, up to three chunks, two sequences, three different checkpoints |
| `chunks_dangling` | violated | can the checkpoint in place become unreadable |
| `lock` | 467k | a rail that guards its hash, with two edits, and a re-arming one that seeds, restarts the fetches, fails and hangs, with one; every lock, one unlock: what an empty registry means, what a lock leaves behind, that the lock comes, that what was left behind is published |
| `lock_misses` | violated | does a flush wait for a run that was queued behind another |
| `asks` | 3.08M | two sealed asks, a ceiling of three kinds with one taken, two calls, one event around the phone per behaviour: entries, ceiling, choice, verdict |
| `contacts` | 106k | one contact with a key on two lists; two calls on one device, one on the other: order and uniqueness of stamps, what a call shows, aliases, blocks and deletions |

Why the bounds suffice. *Connect*: two requests are what it takes for one to
replace the other on screen and for a late route to belong to another request;
two relays for a failure to go on to the next; two approvals for a retry. The
disturbances of the pairing record are put on one of the two apps, so that the other
shows what an undisturbed approval leaves.
*Rail*: the disputes are between a device and the checkpoint of another, so two
devices; two operations tell one's own from the other's; with `Threshold` 1 and
three operations a compaction by size occurs, with 0 it occurs at the first; three stamps
allow compaction, compaction over it, and a stale third. `rail_heals` has seven
so that the two rounds are never short of one. *Chunks*: three operations with
one per chunk give manifests of two and three chunks at one sequence, which is
what reuse needs; two sequences tell old and new. *Lock*: of the two rails, `childRules` goes ahead
over its own runs, has no faults and does not seed, so everything the properties promise is
promised to it; `mixed` is what happens around it: it re-arms, fails, hangs, seeds, and its edit makes
both rails read again. With one extra pass, two edits and that restart are one more arming
than there are extra passes, so the exception in `OwedBeforeLock` occurs; two slots
hold a run on the wire and the one that follows it. The re-arming rail is fault-free, and its
liveness checked, in `rail_edits`; its safety here is in the theorems, as are the gate
`any`, rails that forget (`Forgetting`), any number of slots and passes. `lock_misses` has a rail without a gate. *Asks*: two calls are two asks at
the same time or one ask answered again; a ceiling of three kinds with one taken
holds one sealed answer and not two. One event per behaviour keeps the instance
small; each event meets every interleaving of the two calls, their saves and pushes.
*Contacts*: with two calls on one device and one on
the other there are both orders of a key taken off and a key gained, a block and a deletion
that do not know of each other, a revival, and a share half saved; the devices have one
author, so that equal clocks are told apart by ids.
The proofs in section 5 remove the bounds for most of the safety part.

Symmetry is used in safety runs only (operations, devices, relays are
interchangeable; for chunks only devices, because operations are ordered).
`CHECK_DEADLOCK FALSE` throughout: an app with nothing to do may stop, and the
bounded models do.

## 4. Fairness

- `ConnectDelivery`: weak fairness of the steps of each request's approval (`Delivery`), but
  not of those that end a wait for the signer (`Signer`). Opening a relay and publishing have timeouts
  that reject, and IndexedDB requests settle. At `resolve` the code may stand at
  `requestFreshAuth` or `requestAuth` (`App.tsx` 600-620, 7760, 7911), at `send` in the call of a
  browser extension, and neither has a timeout. So nothing is required of the user, nor of the
  route's expiry or of other code; `ApprovalEnds` says that an approval ends or waits there for ever.
  From the claim on there is no such wait, so `LateCancelUndone` has no exception.
- `ContactsRail`: weak fairness of fetching and of publishing per device, of the
  retry after an unreachable pool (`useSyncReadRetry.ts` has a timer), and of
  messages arriving. In `rail_edits` relays confirm: with relays that never
  do, an edit is not published, and the code does not claim otherwise.
- `LockAfterFlush`: for a rail without faults, weak fairness of its timers, of the step a
  run waits for and of the retry of its fetch, and strong fairness of a fetch that a relay
  answers: it may fail any number of times, but a relay that is asked over and over answers in the end.
  Weak fairness of the lock a flush was begun for (the cap is a timer). Of a rail with faults nothing
  is assumed. The user owes neither edits nor locks nor an unlock, so `EditsReachRelay` ends at a lock.
- The chunk module, the rounds, `ChildVerdicts` and `ContactsWriters` have no fairness:
  `HealsUnlessCutOff` is an invariant over the states in which the schedule is used
  up (that it gets there is the schedule's assumption); what a call of `decide()` waits for is stated as a safety property,
  `NobodyStuck`: it is in line for it.

## 5. Proofs

Everything is checked by TLAPS, for all values of the constants that satisfy the
named assumptions (relays non-empty, limits natural numbers, and the like).

**Connect.** `Invariance` proves `IndInv = TypeOK /\ Counted /\ AnswerInv /\
ServeInv`. `OneAnswer` alone is not inductive: a step that appends an answer
must know there was none. `AnswerInv` supplies it: an unsettled request has no
answer, and an approval at `publish` holds the claim on a request without one.
`ServeInv` says the tracker knows every route that a request still waiting for
its answer has up, so a Cancel takes down the right one, and that no route of a
cancelled request is up. From these follow `OneAnswerHolds`,
`CancelledNotServedHolds` and `Refinement` (`Spec` implements `AnswerOnce`).

`PairingSettledHolds` needs more: `PairInv` follows the record of an undisturbed app
through a running approval. From the save to the publication or the rollback the record is
the approval's own; before and after it is right, that is, one that connected or the one
of the start; and what the approval read before it began, which a rollback restores, is
right as well. `Busy` says a request whose approval runs cannot be approved again. The
condition is `[]OneAtATime`: no two approvals of one app run at once. Without it the
statement is false (section 6). `PairingSettledOwnApps` is the case of one request per
app, which is the one `connect` checks and which needs no condition on the behaviour.

**Rail.** Without conditions: `TypeCorrect`, `ProvenanceHolds` (an operation
anywhere is in some device's log), hence `LogsImplemented` (the rail implements
`GrowOnlyLogs`), and `SeenAdvances` by `MarkInv` (a fetch compares with the mark
that is still recorded). Under `Steady` (no failed merge, no refetch in a live page):
`PublishHolds` with one invariant per device, `ClosedInv`, `TurnInv` (fetching
and publishing exclude each other), `HoldsInv` (what was adopted is in the log,
at the latest after the merge) and `HighInv` (the high-water mark bounds what was
adopted and is below what is sent); from it `FoldsBaseHolds`, `SequenceRisesHolds`
and `HighWaterHolds`. `Steady` is an assumption of those theorems because without
it they are false: see `rail_merge_fails` and the notes in section 6.

**Rounds.** `HealsHolds` proves `HealsUnlessCutOff` for every instance in which
`Healable` holds, with any number of devices and relays, after a storm of any edits, crashes,
refetches and unconfirmed publishes. Two things have to be known of the storm, and
they are all the calm needs: `EventsInv`, every event has its own stamp, so that all readers
take the same checkpoint for the newest (`NewestOne`), and lists a device once, so that no list
is cut short (`MergeIdsAll`, by the pigeonhole principle); and `ReadInv`, the relays
never fall behind what a device read or recorded. `CalmInv` then follows the one open
device through its session (`Turn`, one phase per state of the fetch and the cycle): it
ends with a log equal to `Reach`, what a reader of the relays learns (`RestIs`). The
argument is in three lemmas. `LearnPhase`: a device that may not adopt the newest checkpoint
is listed by it, or it were cut off. `FoldsArrives` and `PostsArrives`: the event of the session,
a checkpoint with the whole log or an outbox with the rest of it, leaves `Reach` no smaller
than it was although it replaces an event on the relays, and cuts nobody off,
because it lists whom the last one listed under no lower sequence. `NextProgress`:
after a first round `Reach` holds everything, so a device of the second round leaves with all
that was ever authored. The theorem needs the exception: a device that is cut off when the calm
begins is found by nobody, and neither `Learn` nor trigger (d) helps. `MCContactsRailRounds`
assumes `Healable` of its own instance, so TLC evaluates the hypothesis; the two
parts of the invariant, `StampInv` and `CalmInv`, hold in all states of that run too.

**Chunks.** `ChunkInvariant` proves `ChunkInv`: what is on the relay or under way
was begun (`Sourced`), and of a checkpoint alone at its sequence every chunk up
to the writer's position is in place (`Backed`). The arithmetic it rests on is
that the number of chunks grows with the set (`ChunksBounded`), so a writer's
position is always a chunk tag. `AdoptedWhole` and `IntactHolds` follow.

**Lock.** `RegistryTells` (an open rail with nothing in the registry has nothing left to
publish) is not inductive: an edit that is not backed up may rest on an armed
entry, on a run that was skipped and will be made good, or on a run under way that
has read it or will read it. `RegistryInv` is that case distinction, for the rails that are
open, together with "the registry knows every run" and "the hash stands for nothing that is not
backed up" (`hashed[r] <= sent[r]`), which is why a run may end that finds its hash. A
rail that is not open rests on its fetch: that arms an entry when it ends (`RemountAccounted`).
`RegistrySound` proves the invariant and `NothingPendingNothingLost` follows.
The statements are about `Reliable` rails: not those that fail or hang, not the
projections, whose second run the registry does not know, and not the seeding ones, of
which they are false (section 6). `LockStepsPromised` is the safety half of the
refinement of `FlushThenLock`; that the lock comes is fairness, hence TLC's.

`OwedBeforeLockHolds` counts passes. `OwedInv` says that what a flush owes is on the
relay, or the pass under way waits for a run that will send it (`OnItsWay`), or that pass
has an excuse (`Delayed`). A rail that re-arms has one in the first pass only, when an older
run is in the way; every run that starts later reads what is owed, so the second pass finds
nothing else. On any other rail an effect that runs again withdraws the runs, which spoils one
pass: the edits and ends of fetches that arm an entry under the flush are at least as many
as the passes that ended without sending. A rail that closes under the flush, because an edit of the
identity makes it read again, is owed nothing any more. Hence
the assumption `ExtraPasses > 0` (the code has two): with no extra pass TLC finds the lock
leaving a re-armed entry behind. The theorems are for every assignment of kinds, gates and
seeding, refetching and forgetting rails.

**Asks.** `Invariance` proves a conjunction about who is in line for what: the
queue of the operator lock against the calls at `push` and the running push, the
writes under way against the calls that wait for one, the job against the head of the
queue, and `SettleInv`, that the push under way wants what rules and entries say
unless a further push is armed or queued. `NobodyStuckHolds` and
`SettledRightHolds` follow; `SentIsFinalHolds` adds that an ask whose history says
"sent" has no call left that could publish. The entries are opaque in these
proofs.

`ChildCeiling_proofs` is about the entries. A kind may stand in the list several times,
once per answer that opened it, so its first part counts: how often a kind occurs in a
list that grows at its end (`OccursJoined`) or loses the first entry equal to one
(`FirstFound`, `RemovedFirst`, with the least-number principle of
`WellFoundedInduction` in place of an induction), and how many places it has over all
answers (`PlacesSplit`). `Exchanged` is the one thing a step may do: what the list gains
and loses of each kind is what one answer gains and loses (`Reckoned`). `EntryInv` is
`OnceAccounted` with what makes it inductive: only a call that has opened entries has
any, a promise is of a verdict that was sent and not of a later window than the present one,
a promised rule is there. `GivenBack` is the step a test would hardly reach: a failed push takes
its entries out of a list that others have changed since, and finds every one of them,
because `OnceAccounted` counts the others' beside its own.

`CoverInv` says of the device what `SettleInv` says of all rules and entries, but answer
by answer: if the last push was confirmed, everything that the answers past their own push
rest on is listed, and the push under way, once it has read the stores, wants everything that
those answers and its own rest on. It holds because an answer opens its entries before
its push asks for the lock, and what an answer rests on later only shrinks
(`Yields`); a push that was compiled earlier ends before that answer's own push
begins. A device that is full lists a prefix, which may leave out what an earlier answer
rests on when newer rules come to stand before it; `OpenWhenAllowed` therefore asks for room, or for a
ceiling that lists everything there is. `TypeInv`, for `TypeCorrect`, adds to these that the
history has an entry for every ask with a call under way: what is stored and published is then
never the empty entry's "none". The assumptions of these theorems are finitely many asks
and at most one rule per kind at the start. From a restart on, the entries of answers
that the page forgot are still open and accounted for by nobody: `OnceAccounted` then has an
inequality, and equality before.

`ChoiceKeptHolds` has its own invariant, `ChoiceInv`. It says where a choice has to be
found to survive whatever happens to the page: in the history in memory, in the stored
row, and in every write of the row that may still land last (`Kept`); while the choice
is being saved, in its own write and in all later ones (`Ahead`). A choice becomes the
first when its write lands; a call that goes on carries it or the deny it was converted
to; and what is on the relay is one of the two. The proof needs `SentInv`, because
what is sent again is the entry's choice only as long as the entry is not one of somebody
else's answers, and the exception for rows that crossed is exactly what `Kept` leaves out.

**Writers.** `StampsDistinct` is not inductive: a save must know that what it saves is
new, and a merge that what arrives of the device's own operations is already there.
`IndInv` therefore says of each device that it holds whatever it wrote (`Home`), and of a task
under way that its screen is part of what the task read, and that what is still to be saved
comes, with rising clocks, after what was read and after everything the device wrote (`Later`);
`Fresh` says that a screen that lags is due for a reload. `PlanStamps` shows that every
plan starts so: each of the four kinds of call stamps past the highest clock of the log. From it follow
`StampsDistinctHolds`, `EffectFollowsCauseHolds`, `ScreenCatchesUpHolds` and `TypeCorrect`;
`SortedHolds` adds that `Before` orders a log totally, so that `Earliest` and `Latest`, which
the replay is made of, are what their names say. The assumptions: finitely many initial operations,
by authors that are not modelled, stamped apart and such as devices write; actors and ids that
tell devices apart.

**Directory.** `View(S)` is two folds, and what a fold returns has to be found by induction
over the set it takes. The library's induction theorems cannot be used for that, but its
least-element theorem (`WFMin`) can: `ReplayExists` shows once, for any step, that the fold
satisfies its recursion on every history (`Histories(S)`: the sets that with an operation have
all before it), as a history without such a replay would have a least one.
`HistoryInduction` is the induction itself, over a set of good histories instead of a
predicate. Two invariants are carried along the two replays. `MetInv`, of the first:
kin is a partition, and each of a group's contacts holds blocks and deletions as
its operations left them. `GroupInv`, of the second, says the same of the record of a
group, where the deletion of one member is the deletion of all, and the first add of a
younger member revives nothing (`JoinIs`). `CanonIs` connects the two: each id leads to
the oldest member of its own group. `DirectoryDeletions` and `DirectoryBlocks` say what
follows for any directory: a finite set of complete operations, in the order of
`sortOperations`, in which every contact is added before it is edited (`Directory`).
`DirectoryAliases` compares two directories, the one a part of the other, by replaying the
larger and with it, at the operations they share, the smaller: kin is always at
least as wide in the larger, and until an arrival takes something away, so are the holders
of each key and the contacts that are active (`Widened`); up to the first arrival the two
are alike (`Alike`). That needs no more than that the arrivals do not straggle.

That each log is one is an invariant of the writers, `DirectoriesInv`: what
is queued points at contacts that the log knows (`Proper`), what is planned is about contacts
that were read, written, or are added by the plan itself (`Founded`), so that a
save by halves, a refused one and a merge leave a directory. Hence
`RemovalStandsHolds` and `BlockStandsHolds`, and, as logs only grow, `AliasKeptHolds`.

`CallShowsHolds` is about one save: the screen after it shows what was asked for. That an
operation which comes after a whole directory gets its way is shown for any directory, kind
by kind of edit: `DirectoryGrants` for an edit, `DirectoryRecognises` and `DirectoryMakes` for
the two plans of `recogniseContact`. Both replays of the larger directory go through the
smaller one alike (`MetAlike`, `RegroupAlike`), so that what remains is the step of the last
operation (`LastTold`). An edit names an item or a block that the screen showed; that a shown
item is what an identity of the group became, so that the replay tells it by the same name
(`ItemShown`), and that a block bears the name of its operation and its author, are two further
invariants of the replays (`GroupItems`, `Tidy`). What is left is that the saved operations are
new to what they were planned on, in clock and in name. The clocks are `IndInv`'s. The names are
`PlansInv`: the operations of a device have numbers of their own, none greater than how many there
are (`Numbered`), the batch goes on from there (`Numbers`), a contact bears the name of an operation
(`Adopted`), hence a new contact is not a known one, and the batch is what `Plan` makes of the call
at the head of the queue (`Planned`), which no merge disturbs. That the initial operations name
contacts likewise is the last clause about each of them in `StartAssumption`. The exception of the
property, a save that makes contacts one (`Joined`), is needed: section 6 says what happens then.

Only model-checked elsewhere: the liveness properties (`ApprovalEnds`,
`LateCancelUndone`, `EditPublished`, `EditsReachRelay`, and that of
`LockPromised`), because fairness and `ENABLED` are outside what TLAPS proves.

## 6. What the checks show of the code

The four violated runs are disagreements between code and its own comments; the
quotations are in `PROJECT.json`, `findings`.

1. **A revoked app comes back** (`connect_revoked`). The approval reads the
   earlier record once at the start; if the app is revoked after that and the
   delivery then fails, the rollback finds its own nonce and restores it.
2. **Compaction over operations that were not saved** (`rail_merge_fails`). The
   checkpoint is adopted before the merge, and a failed merge counts as done.
3. **A dangling manifest** (`chunks_dangling`). An unconfirmed publication is
   repeated at the same sequence with other chunks and fails half way.
4. **A projection the lock does not wait for** (`lock_misses`). A projections run
   that was skipped is started again outside the registry of pending publishes; a lock
   that flushed ends without it.

Seen while modelling, without a run of their own:

- A device can be cut off: a stale session replaces the checkpoint by one with a lower
  sequence; a device that recorded the higher one regards it as unusable, and if it
  is not on its list nobody reads its outbox. `HealsUnlessCutOff` excepts exactly
  the devices in that state when the calm begins (`CutOff`); without the exception it
  is violated.
- Two approvals of the same app at the same time can each roll back to what the
  other had saved, so that a pairing without an answer may stay. `PairingSettled` is
  therefore checked with one request per app, and proved for as long as they do not overlap.
- Two devices that compact at the same time replace each other's checkpoint
  (`contacts-v2-sync.ts:15-16` says "two devices never overwrite each other", of
  outboxes). Operations only the loser folded are absent from the relays until a
  device that holds them is opened again; `rail_heals` shows that then they return.
- `useContactsV2Sync.ts:297-304` takes the maximum for the high-water mark "never
  overwrite", line 576 assigns the published sequence. The two agree unless a
  refetch in a live page raises the mark during a publish; `Steady` excludes it.
- The history rows of `useChildAsks` are saved without a queue. When two writes cross
  and the page then restarts, the choice in the older row is what can be sent
  again, so a different verdict may follow one that was published. `ChoiceKept` excepts
  the histories where rows crossed (`crossed`).
- An alias of two contacts is not always permanent (`contacts-v2-reducer.ts:843`): when a
  device learns that a key was taken off, or a contact deleted, earlier in the order than a
  gain of a key it knows, the two fall apart; and when it learns of a gain before a
  key is taken off, that key is taken off more contacts than before. `Straggles` excepts exactly those
  arrivals in `AliasKept`; without it TLC finds it violated. Blocks stand nevertheless
  (`BlockStands`, without exception).
- A call that makes contacts one does to the screen what the oldest of them says, not what was
  asked for: a key added to an active contact that a deleted, older contact has held makes it
  deleted. `contacts-v2-key-holders.ts:5-9` says so, and `confirmMergeRefusal` exists for it,
  but guards only the confirm flow. `CallShows` excepts calls that join contacts.
- `unlinkContactsFromList` leaves a contact on its only list alone, but two devices that
  unlink different lists at once do remove the contact.
- The merge check of `addIdentity` is made when the task reads the log; operations that the
  rail merges between that and the save can still make two contacts one.
- A batch of the family hook does not reload the contact screen of the same device; it
  shows the operations at the next reload or call (`ScreenCatchesUp`).
- The registry knows nothing of a rail that has not read its relays since the unlock, or could
  reach none: a lock at that time does not wait for its edits, which go out after the next unlock
  (`EditsReachRelay`). An edit of a persona makes all rails read again, because it replaces the
  identity object their fetches depend on; an app that hides before they have done so locks without having
  published that edit, though `App.tsx:517-519` and `lock-after-flush.ts:4-7` mean just such
  an edit to reach the relay.
- Five rails take what their fetch merged for published when it had anything to merge with:
  `useKensSync.ts` 146-148, `useDependantsSync.ts` 181-184, `useContactsSync.ts` 195-198,
  `useCredentialsSync.ts` 140-142, `useGrantsSync.ts` 154-162. An edit that a lock left behind is in
  that merge, so its publish finds the hash and ends (`useKensSync.ts:183`): the relay gets it with the
  next edit. `usePersonasSync.ts` 312-317 and `useChildRulesSync.ts` 123-126 compare with the remote
  record first. `Seeding` models it; `Reliable` and `EditsReachRelay` except those rails.
- `LockRequest.cancel` has no caller, so a page that becomes visible again during a
  flush is locked all the same.

## 7. Not modelled

- Cryptography (NIP-44, key derivation, the handshake's binding, PIN and vault
  encryption): assumed to do what it promises.
- Presentation, wording, navigation beyond the request on screen.
- External parties whose rules are not in the repository: the Heartwood device,
  the Keep, media servers, `@forgesworn/signet-contacts`.
- The Android shell and its NIP-55 queue, service worker and updates.
- Of the child's asks: connection requests and contact asks, the stage and the pause
  as they change, several children on one device, and what the child's own phone does
  with a verdict.
- Of the connect approvals: that of a direct-paired child (section 2.1).
- Of the contacts rail: directories excluded from publishing (section 2.2).
- Of the locks: the contents of what is published (a run whose event is on the wire
  when an edit returns to an earlier state may leave its hash behind; listed as a hazard).
- What `PROJECT.json` lists as planned.

## 8. Plan

In order of importance; each with its module, the runs it needs and what is to be
proved.

1. `VaultRotation`: the intent's phases with crashes and a second device.
   Property: a forwarding head points only at a verified destination; a resumed
   rotation never signs a second copy at one sequence.
2. `SignInApproval` over `AuthSettlement`: several consumer relays, lock and unlock in
   the middle; again as an implementation of `AnswerOnce`.
3. More about the present modules: the reducer's left-out actions (section 2.7); `Provenance` and the chunk invariant over several relays; the refetch case with
   a weaker `HighInv`.
