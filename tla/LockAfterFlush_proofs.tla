------------------------ MODULE LockAfterFlush_proofs -----------------------
(***************************************************************************)
(* Proofs about LockAfterFlush: type correctness, that an empty registry   *)
(* means everything is backed up, that a lock that waited leaves nothing   *)
(* owed, and that every step is one the promise of FlushThenLock allows,   *)
(* for any rails, faults and bounds.                                       *)
(***************************************************************************)
EXTENDS LockAfterFlush, TLAPS

-----------------------------------------------------------------------------
(* Type correctness, one part per group of variables.                      *)

Fetches == {"unread", "reached", "unreached"}

\* A started entry takes a free slot.
LEMMA FreeIsFree ==
    ASSUME NEW r \in Rails, HasSlot(r)
    PROVE  FreeSlot(r) \in Slots /\ run[r][FreeSlot(r)].pc = "free"
  BY DEF FreeSlot, HasSlot

\* Starting entries keeps the types of the runs (schedulePublish).
LEMMA StartTyped ==
    ASSUME TypeOK, NEW r \in Rails, NEW S \in SUBSET Entries, NEW first \in Entries, HasSlot(r)
    PROVE  /\ RunsAfter(r, S, first) \in [Slots -> Runs]
           /\ \A i \in Slots : RunsAfter(r, S, first)[i].version <= edits[r]
           /\ AgainAfter(r, S) \in BOOLEAN
  <1>1. run[r] \in [Slots -> Runs] /\ edits[r] \in Nat
    BY DEF TypeOK
  <1>2. \A i \in Slots : run[r][i].version <= edits[r]
    BY DEF TypeOK
  <1>3. NewRun(first, TRUE) \in Runs /\ NewRun(first, TRUE).version <= edits[r]
    BY <1>1 DEF NewRun, Runs
  <1>4. AgainAfter(r, S) \in BOOLEAN
    BY DEF AgainAfter, TypeOK
  <1>5. CASE RunsAfter(r, S, first) = run[r]
    BY <1>1, <1>2, <1>4, <1>5
  <1>6. CASE RunsAfter(r, S, first) = [run[r] EXCEPT ![FreeSlot(r)] = NewRun(first, TRUE)]
    <2>1. RunsAfter(r, S, first) \in [Slots -> Runs]
      BY <1>1, <1>3, <1>6
    <2>2. ASSUME NEW j \in Slots
          PROVE  RunsAfter(r, S, first)[j].version <= edits[r]
      <3>1. CASE j = FreeSlot(r)
        BY <1>1, <1>3, <1>6, <3>1
      <3>2. CASE j # FreeSlot(r)
        <4>1. RunsAfter(r, S, first)[j] = run[r][j]
          BY <1>1, <1>6, <3>2
        <4> QED
          BY <1>2, <4>1
      <3> QED
        BY <3>1, <3>2
    <2> QED
      BY <1>4, <2>1, <2>2
  <1> QED
    BY <1>5, <1>6 DEF RunsAfter

\* Ending a run keeps the types (the finally blocks).
LEMMA EndTyped ==
    ASSUME TypeOK, NEW r \in Rails, NEW i \in Slots, End(r, i)
    PROVE  /\ run' \in [Rails -> [Slots -> Runs]]
           /\ \A q \in Rails, j \in Slots : run'[q][j].version <= edits[q]
           /\ armed' \in [Rails -> SUBSET Entries]
           /\ again' \in [Rails -> BOOLEAN]
           /\ flush' \in [on : BOOLEAN, extra : 0..ExtraPasses, waits : SUBSET (Rails \X Slots)]
  <1> DEFINE new == IF Kind[r] = "queue" /\ again[r] /\ key THEN NewRun("mounted", FALSE) ELSE Free
  <1>1. new \in Runs /\ new.version = 0
    BY DEF NewRun, Free, Runs
  <1>2. run' = [run EXCEPT ![r][i] = new]
    BY DEF End
  <1>3. run' \in [Rails -> [Slots -> Runs]]
    BY <1>1, <1>2 DEF TypeOK
  <1>4. \A q \in Rails, j \in Slots : run'[q][j] = IF q = r /\ j = i THEN new ELSE run[q][j]
    BY <1>2 DEF TypeOK
  <1>5. \A q \in Rails, j \in Slots : run'[q][j].version <= edits[q]
    <2>1. \A q \in Rails : edits[q] \in Nat
      BY DEF TypeOK
    <2>2. \A q \in Rails, j \in Slots : run[q][j].version <= edits[q]
      BY DEF TypeOK
    <2> HIDE DEF new
    <2> QED
      BY <1>1, <1>4, <2>1, <2>2
  <1>6. armed' \in [Rails -> SUBSET Entries]
    BY DEF End, TypeOK, Entries
  <1>7. again' \in [Rails -> BOOLEAN]
    BY DEF End, TypeOK
  <1>8. flush' \in [on : BOOLEAN, extra : 0..ExtraPasses, waits : SUBSET (Rails \X Slots)]
    BY DEF End, TypeOK
  <1> QED
    BY <1>3, <1>5, <1>6, <1>7, <1>8

\* Changing one run of one rail, its version staying below the edits.
LEMMA GotoTyped ==
    ASSUME TypeOK, NEW r \in Rails, NEW i \in Slots, NEW new \in Runs,
           new.version <= edits[r], run' = [run EXCEPT ![r][i] = new]
    PROVE  /\ run' \in [Rails -> [Slots -> Runs]]
           /\ \A q \in Rails, j \in Slots : run'[q][j].version <= edits[q]
  <1>1. run' \in [Rails -> [Slots -> Runs]]
    BY DEF TypeOK
  <1>2. \A q \in Rails, j \in Slots : run'[q][j] = IF q = r /\ j = i THEN new ELSE run[q][j]
    BY DEF TypeOK
  <1>3. \A q \in Rails, j \in Slots : run[q][j].version <= edits[q]
    BY DEF TypeOK
  <1> QED
    BY <1>1, <1>2, <1>3

\* Withdrawing the runs of a rail keeps their types and versions.
LEMMA WithdrawnTyped ==
    ASSUME TypeOK, NEW r \in Rails
    PROVE  /\ Withdrawn(r) \in [Slots -> Runs]
           /\ \A i \in Slots : Withdrawn(r)[i].version <= edits[r]
  <1>1. \A i \in Slots : run[r][i] \in Runs /\ run[r][i].version <= edits[r]
    BY DEF TypeOK
  <1>2. Free \in Runs /\ Free.version = 0 /\ edits[r] \in Nat
    BY DEF Free, Runs, TypeOK
  <1>3. \A i \in Slots : Withdrawn(r)[i] =
            IF run[r][i].pc = "free" THEN Free ELSE [run[r][i] EXCEPT !.mounted = FALSE]
    BY DEF Withdrawn
  <1>4. ASSUME NEW i \in Slots
        PROVE  /\ [run[r][i] EXCEPT !.mounted = FALSE] \in Runs
               /\ [run[r][i] EXCEPT !.mounted = FALSE].version = run[r][i].version
    <2>1. PICK one \in Runs : one = run[r][i]
      BY <1>1
    <2>2. [one EXCEPT !.mounted = FALSE] \in Runs /\ [one EXCEPT !.mounted = FALSE].version = one.version
      BY DEF Runs
    <2> QED
      BY <2>1, <2>2
  <1>5. ASSUME NEW i \in Slots
        PROVE  Withdrawn(r)[i] \in Runs /\ Withdrawn(r)[i].version <= edits[r]
    <2>1. CASE run[r][i].pc = "free"
      <3>1. Withdrawn(r)[i] = Free
        BY <1>3, <2>1
      <3> QED
        BY <1>2, <3>1
    <2>2. CASE run[r][i].pc # "free"
      <3>1. Withdrawn(r)[i] = [run[r][i] EXCEPT !.mounted = FALSE]
        BY <1>3, <2>2
      <3> QED
        BY <1>1, <1>4, <3>1
    <2> QED
      BY <2>1, <2>2
  <1>6. Withdrawn(r) \in [Slots -> Runs]
    BY <1>5 DEF Withdrawn
  <1> QED
    BY <1>5, <1>6

\* A pass of the flush keeps the types.
LEMMA PassTyped ==
    ASSUME TypeOK, NEW extra \in 0..ExtraPasses, FlushPass(extra)
    PROVE  /\ run' \in [Rails -> [Slots -> Runs]]
           /\ \A r \in Rails, i \in Slots : run'[r][i].version <= edits[r]
           /\ armed' \in [Rails -> SUBSET Entries]
           /\ again' \in [Rails -> BOOLEAN]
           /\ flush' \in [on : BOOLEAN, extra : 0..ExtraPasses, waits : SUBSET (Rails \X Slots)]
  <1>1. PICK first \in [Rails -> Entries] :
            /\ \A r \in Rails : armed[r] # {} => first[r] \in armed[r] /\ HasSlot(r)
            /\ armed' = [r \in Rails |-> {}]
            /\ run' = [r \in Rails |-> RunsAfter(r, armed[r], first[r])]
            /\ again' = [r \in Rails |-> AgainAfter(r, armed[r])]
            /\ flush' = [on |-> TRUE, extra |-> extra,
                         waits |-> {w \in Rails \X Slots : run'[w[1]][w[2]].registered}]
    BY DEF FlushPass
  <1>2. ASSUME NEW r \in Rails
        PROVE  /\ RunsAfter(r, armed[r], first[r]) \in [Slots -> Runs]
               /\ \A i \in Slots : RunsAfter(r, armed[r], first[r])[i].version <= edits[r]
               /\ AgainAfter(r, armed[r]) \in BOOLEAN
    <2>1. armed[r] \in SUBSET Entries /\ first[r] \in Entries
      BY DEF TypeOK
    <2>2. CASE armed[r] # {}
      BY <1>1, <2>1, <2>2, StartTyped
    <2>3. CASE armed[r] = {}
      <3>1. RunsAfter(r, armed[r], first[r]) = run[r]
        BY <2>3 DEF RunsAfter
      <3> QED
        BY <3>1 DEF TypeOK, AgainAfter
    <2> QED
      BY <2>2, <2>3
  <1>3. run' \in [Rails -> [Slots -> Runs]]
    BY <1>1, <1>2
  <1>4. \A r \in Rails, i \in Slots : run'[r][i].version <= edits[r]
    BY <1>1, <1>2
  <1>5. flush' \in [on : BOOLEAN, extra : 0..ExtraPasses, waits : SUBSET (Rails \X Slots)]
    BY <1>1
  <1> QED
    BY <1>1, <1>2, <1>3, <1>4, <1>5

\* Running effects again keeps the types (their cleanups, and what they arm).
LEMMA RemountTyped ==
    ASSUME TypeOK, NEW R \in SUBSET Rails, NEW now \in [Rails -> Fetches], Remount(R, now)
    PROVE  /\ fetch' \in [Rails -> Fetches]
           /\ run' \in [Rails -> [Slots -> Runs]]
           /\ \A r \in Rails, i \in Slots : run'[r][i].version <= edits[r]
           /\ armed' \in [Rails -> SUBSET Entries]
           /\ owed' \in [Rails -> Nat]
           /\ during' \in 0..(ExtraPasses + 1)
  <1>1. ASSUME NEW r \in Rails
        PROVE  run'[r] \in [Slots -> Runs] /\ \A i \in Slots : run'[r][i].version <= edits[r]
    <2>1. CASE r \in R
      <3>1. run'[r] = Withdrawn(r)
        BY <2>1 DEF Remount
      <3> QED
        BY <3>1, WithdrawnTyped
    <2>2. CASE r \notin R
      BY <2>2 DEF Remount, TypeOK
    <2> QED
      BY <2>1, <2>2
  <1>2. run' \in [Rails -> [Slots -> Runs]]
    BY <1>1 DEF Remount
  <1>3. fetch' \in [Rails -> Fetches]
    BY DEF Remount, TypeOK, Fetches
  <1>4. armed' \in [Rails -> SUBSET Entries]
    BY DEF Remount, TypeOK, Entries
  <1>5. owed' \in [Rails -> Nat]
    BY DEF Remount, TypeOK
  <1>6. during' \in 0..(ExtraPasses + 1)
    BY LockAssumption DEF Remount, TypeOK
  <1> QED
    BY <1>1, <1>2, <1>3, <1>4, <1>5, <1>6

LEMMA UnreadTyped == Unread \in [Rails -> Fetches]
  BY DEF Unread, Fetches

\* Losing the key keeps the types (the cleanups of the effects).
LEMMA DropTyped ==
    ASSUME TypeOK, DropKey
    PROVE  /\ key' \in BOOLEAN
           /\ run' \in [Rails -> [Slots -> Runs]]
           /\ \A r \in Rails, i \in Slots : run'[r][i].version <= edits[r]
           /\ armed' \in [Rails -> SUBSET Entries]
           /\ fetch' \in [Rails -> Fetches]
           /\ hashed' \in [Rails -> Nat \cup {NoHash}]
           /\ owed' \in [Rails -> Nat]
           /\ during' \in 0..(ExtraPasses + 1)
           /\ UNCHANGED <<unlocks, edits, sent, again>>
  <1>1. run' = [r \in Rails |-> Withdrawn(r)]
    BY DEF DropKey
  <1>2. run' \in [Rails -> [Slots -> Runs]]
    BY <1>1, WithdrawnTyped
  <1>3. \A r \in Rails, i \in Slots : run'[r][i].version <= edits[r]
    BY <1>1, WithdrawnTyped
  <1>4. fetch' \in [Rails -> Fetches] /\ hashed' \in [Rails -> Nat \cup {NoHash}]
    BY UnreadTyped DEF DropKey, TypeOK
  <1>5. armed' \in [Rails -> SUBSET Entries]
    BY DEF DropKey, TypeOK
  <1>6. owed' \in [Rails -> Nat] /\ during' \in 0..(ExtraPasses + 1)
    BY LockAssumption DEF DropKey, NoneOwed
  <1> QED
    BY <1>2, <1>3, <1>4, <1>5, <1>6 DEF DropKey

LEMMA TypeInit == Init => TypeOK
  <1> SUFFICES ASSUME Init PROVE TypeOK
    OBVIOUS
  <1>1. Free \in Runs /\ Free.version = 0
    BY DEF Free, Runs
  <1>2. run \in [Rails -> [Slots -> Runs]] /\ \A r \in Rails, i \in Slots : run[r][i].version <= edits[r]
    BY <1>1 DEF Init
  <1>3. flush \in [on : BOOLEAN, extra : 0..ExtraPasses, waits : SUBSET (Rails \X Slots)]
    BY LockAssumption DEF Init, NoFlush
  <1> QED
    BY <1>2, <1>3, LockAssumption DEF Init, NoneOwed, TypeOK, Entries

\* The part of TypeOK that a step of a run can disturb.
LEMMA RunStepTyped ==
    ASSUME TypeOK, NEW r \in Rails, NEW i \in Slots,
           Step(r, i) \/ Fails(r, i) \/ Hangs(r, i) \/ Forget(r, i)
    PROVE  TypeOK'
  <1> USE DEF At
  <1>1. \A q \in Rails : edits[q] \in Nat /\ sent[q] \in Nat
    BY DEF TypeOK
  <1>2. PICK one \in Runs : one = run[r][i] /\ one.version <= edits[r]
    BY DEF TypeOK
  <1>3. CASE Read(r, i)
    <2>1. CASE Current(r, i) /\ hashed[r] # edits[r]
      <3> DEFINE new == [one EXCEPT !.pc = "sign", !.version = edits[r]]
      <3>1. edits[r] \in Nat /\ edits[r] <= edits[r]
        BY <1>1
      <3>2. new \in Runs
        BY <3>1 DEF Runs
      <3>3. new.version = edits[r]
        BY DEF Runs
      <3>4. new.version <= edits[r]
        BY <3>1, <3>3
      <3>5. run' = [run EXCEPT ![r][i] = new]
        BY <1>2, <1>3, <2>1 DEF Read
      <3> HIDE DEF new
      <3>6. run' \in [Rails -> [Slots -> Runs]] /\ \A q \in Rails, j \in Slots : run'[q][j].version <= edits[q]
        BY <3>2, <3>4, <3>5, GotoTyped
      <3> QED
        BY <1>3, <2>1, <3>6 DEF Read, TypeOK
    <2>2. CASE End(r, i)
      BY <1>3, <2>2, EndTyped DEF Read, TypeOK
    <2> QED
      BY <1>3, <2>1, <2>2 DEF Read
  <1>4. ASSUME NEW new \in Runs, new.version <= edits[r], run' = [run EXCEPT ![r][i] = new],
               UNCHANGED <<key, unlocks, edits, sent, hashed, fetch, armed, again, flush, owed, during>>
        PROVE  TypeOK'
    <2>1. run' \in [Rails -> [Slots -> Runs]] /\ \A q \in Rails, j \in Slots : run'[q][j].version <= edits[q]
      BY <1>4, GotoTyped
    <2> QED
      BY <1>4, <2>1 DEF TypeOK
  <1>5. CASE Sign(r, i)
    <2>1. CASE Current(r, i)
      <3> DEFINE new == [one EXCEPT !.pc = "wire"]
      <3>1. new \in Runs /\ new.version <= edits[r]
        BY <1>2 DEF Runs
      <3>2. run' = [run EXCEPT ![r][i] = new]
        BY <1>2, <1>5, <2>1 DEF Sign, Goto
      <3> HIDE DEF new
      <3> QED
        BY <1>4, <1>5, <2>1, <3>1, <3>2 DEF Sign
    <2>2. CASE End(r, i)
      BY <1>5, <2>2, EndTyped DEF Sign, TypeOK
    <2> QED
      BY <1>5, <2>1, <2>2 DEF Sign
  <1>6. CASE Confirmed(r, i)
    <2>1. sent' \in [Rails -> Nat]
      BY <1>1, <1>2, <1>6 DEF Confirmed, TypeOK, Runs
    <2>2. \A q \in Rails : sent'[q] <= edits[q]
      BY <1>1, <1>2, <1>6 DEF Confirmed, TypeOK
    <2>3. hashed' \in [Rails -> Nat \cup {NoHash}]
      BY <1>2, <1>6 DEF Confirmed, TypeOK, Runs
    <2> QED
      BY <1>6, <2>1, <2>2, <2>3, EndTyped DEF Confirmed, TypeOK
  <1>7. CASE Fails(r, i)
    BY <1>7, EndTyped DEF Fails, TypeOK
  <1>8. CASE Hangs(r, i)
    <2> DEFINE new == [one EXCEPT !.pc = "hung", !.version = 0, !.mounted = FALSE]
    <2>1. new \in Runs /\ new.version = 0
      BY DEF Runs
    <2>2. run' = [run EXCEPT ![r][i] = new]
      BY <1>2, <1>8 DEF Hangs
    <2>3. new.version <= edits[r]
      BY <1>1, <2>1
    <2> HIDE DEF new
    <2> QED
      BY <1>4, <1>8, <2>1, <2>2, <2>3 DEF Hangs, flushVars
  <1>9. CASE Forget(r, i)
    <2> DEFINE new == [one EXCEPT !.registered = FALSE]
    <2>1. new \in Runs /\ new.version <= edits[r]
      BY <1>2 DEF Runs
    <2>2. run' = [run EXCEPT ![r][i] = new]
      BY <1>2, <1>9 DEF Forget
    <2> HIDE DEF new
    <2> QED
      BY <1>4, <1>9, <2>1, <2>2 DEF Forget, flushVars
  <1> QED
    BY <1>3, <1>5, <1>6, <1>7, <1>8, <1>9 DEF Step

\* An edit runs its own rail's effect again, and it may run every other.
LEMMA EditRemounts ==
    ASSUME TypeOK, NEW q \in Rails, Edit(q)
    PROVE  \E R \in SUBSET Rails, now \in [Rails -> Fetches] : q \in R /\ Remount(R, now)
  <1>1. fetch \in [Rails -> Fetches] /\ {q} \in SUBSET Rails /\ q \in {q}
    BY DEF TypeOK, Fetches
  <1>2. CASE Remount(Rails, Unread)
    BY <1>2, UnreadTyped
  <1>3. CASE Remount({q}, fetch)
    BY <1>1, <1>3
  <1> QED
    BY <1>2, <1>3 DEF Edit

LEMMA TypeNext == TypeOK /\ [Next]_vars => TypeOK'
  <1> SUFFICES ASSUME TypeOK, [Next]_vars PROVE TypeOK'
    OBVIOUS
  <1>1. \A q \in Rails : edits[q] \in Nat /\ sent[q] \in Nat
    BY DEF TypeOK
  <1>2. ASSUME NEW r \in Rails, Edit(r) PROVE TypeOK'
    <2>1. edits' \in [Rails -> Nat] /\ \A q \in Rails : edits[q] <= edits'[q]
      BY <1>1, <1>2 DEF Edit, TypeOK
    <2>2. PICK R \in SUBSET Rails, now \in [Rails -> Fetches] : Remount(R, now)
      BY <1>2, EditRemounts
    <2>3. ASSUME NEW q \in Rails, NEW i \in Slots PROVE run'[q][i].version <= edits'[q]
      <3>1. run'[q][i] \in Runs
        BY <2>2, RemountTyped
      <3>2. run'[q][i].version <= edits[q]
        BY <2>2, RemountTyped
      <3>3. run'[q][i].version \in Nat /\ edits[q] \in Nat /\ edits'[q] \in Nat /\ edits[q] <= edits'[q]
        BY <1>1, <2>1, <3>1 DEF Runs
      <3> QED
        BY <3>2, <3>3
    <2>4. \A q \in Rails : sent[q] <= edits'[q]
      BY <1>1, <2>1 DEF TypeOK
    <2> QED
      BY <1>2, <2>1, <2>2, <2>3, <2>4, RemountTyped DEF Edit, TypeOK, Fetches
  <1>3. ASSUME NEW r \in Rails, NEW entry \in Entries, Fire(r, entry) PROVE TypeOK'
    <2>1. /\ RunsAfter(r, {entry}, entry) \in [Slots -> Runs]
          /\ \A i \in Slots : RunsAfter(r, {entry}, entry)[i].version <= edits[r]
          /\ AgainAfter(r, {entry}) \in BOOLEAN
      BY <1>3, StartTyped DEF Fire
    <2>2. run' \in [Rails -> [Slots -> Runs]] /\ \A q \in Rails, i \in Slots : run'[q][i].version <= edits[q]
      BY <1>3, <2>1 DEF Fire, TypeOK
    <2>3. armed' \in [Rails -> SUBSET Entries] /\ again' \in [Rails -> BOOLEAN]
      BY <1>3, <2>1 DEF Fire, TypeOK
    <2> QED
      BY <1>3, <2>2, <2>3 DEF Fire, flushVars, TypeOK
  <1>4. ASSUME NEW r \in Rails, NEW i \in Slots,
               Step(r, i) \/ Fails(r, i) \/ Hangs(r, i) \/ Forget(r, i)
        PROVE  TypeOK'
    BY <1>4, RunStepTyped
  <1>5. CASE LockAtOnce
    BY <1>5, DropTyped DEF LockAtOnce, TypeOK, Fetches
  <1>6. CASE StartFlush
    <2>1. 0 \in 0..ExtraPasses
      BY LockAssumption
    <2>2. owed' \in [Rails -> Nat] /\ during' \in 0..(ExtraPasses + 1)
      BY <1>1, <1>6, LockAssumption DEF StartFlush
    <2> QED
      BY <1>6, <2>1, <2>2, PassTyped DEF StartFlush, TypeOK
  <1>7. CASE FlushAgain
    <2>1. flush.extra \in 0..ExtraPasses
      BY DEF TypeOK
    <2>2. flush.extra + 1 \in 0..ExtraPasses
      BY <1>7, <2>1, LockAssumption DEF FlushAgain
    <2> QED
      BY <1>7, <2>2, PassTyped DEF FlushAgain, TypeOK
  <1>8. CASE Locking
    <2>1. NoFlush \in [on : BOOLEAN, extra : 0..ExtraPasses, waits : SUBSET (Rails \X Slots)]
      BY LockAssumption DEF NoFlush
    <2> QED
      BY <1>8, <2>1, DropTyped DEF Locking, LockFlushed, LockAtCap, TypeOK, Fetches
  <1>9. CASE LockExpired
    BY <1>9, DropTyped DEF LockExpired, TypeOK, Fetches
  <1>10. CASE Unlock
    <2>1. unlocks' \in 0..MaxUnlocks
      BY <1>10, LockAssumption DEF Unlock, TypeOK
    <2>2. armed' \in [Rails -> SUBSET Entries]
      BY <1>10 DEF Unlock, Entries, TypeOK
    <2> QED
      BY <1>10, <2>1, <2>2 DEF Unlock, flushVars, TypeOK
  <1>11. CASE UNCHANGED vars
    BY <1>11 DEF vars, railVars, flushVars, TypeOK
  <1>12. ASSUME NEW r \in Rails, Fetched(r) \/ FetchFails(r) PROVE TypeOK'
    <2>1. PICK came \in {"reached", "unreached"} : FetchEnds(r, came)
      BY <1>12 DEF Fetched, FetchFails
    <2>2. Remount({r}, [fetch EXCEPT ![r] = came]) /\ [fetch EXCEPT ![r] = came] \in [Rails -> Fetches]
      BY <2>1 DEF FetchEnds, TypeOK, Fetches
    <2>3. hashed' \in [Rails -> Nat \cup {NoHash}]
      BY <1>1, <1>12 DEF Fetched, FetchFails, TypeOK
    <2>4. {r} \in SUBSET Rails
      OBVIOUS
    <2> QED
      BY <2>1, <2>2, <2>3, <2>4, RemountTyped DEF FetchEnds, TypeOK, Fetches
  <1>13. ASSUME NEW r \in Rails, Retry(r) PROVE TypeOK'
    BY <1>13 DEF Retry, flushVars, TypeOK
  <1> QED
    BY <1>2, <1>3, <1>4, <1>5, <1>6, <1>7, <1>8, <1>9, <1>10, <1>11, <1>12, <1>13
    DEF Next, Timers, Reading, Locking

(* Every state of the registry, the rails and the locks has the declared    *)
(* types; in particular a relay never has more edits than were made.        *)
THEOREM LockTypeCorrect == Spec => []TypeOK
  <1>1. Init => TypeOK
    BY TypeInit
  <1>2. TypeOK /\ [Next]_vars => TypeOK'
    BY TypeNext
  <1> QED
    BY <1>1, <1>2, PTL DEF Spec

-----------------------------------------------------------------------------
(* The registry accounts for every edit that is not backed up.             *)

\* A step of another rail, or of a flush that has nothing to start.
LEMMA Untouched ==
    ASSUME NEW r, Accounted(r), key' = key, edits'[r] = edits[r], sent'[r] = sent[r],
           hashed'[r] = hashed[r], fetch'[r] = fetch[r],
           run'[r] = run[r], armed'[r] = armed[r], again'[r] = again[r]
    PROVE  Accounted(r)'
  BY DEF Accounted, Covered, Covers, Busy, At, Open

\* What the cleanup of an effect leaves of a run.
LEMMA WithdrawnShape ==
    ASSUME TypeOK, NEW r \in Rails, NEW i \in Slots
    PROVE  /\ Withdrawn(r)[i].pc = run[r][i].pc
           /\ run[r][i].pc # "free" => Withdrawn(r)[i].registered = run[r][i].registered
  <1>1. PICK one \in Runs : one = run[r][i]
    BY DEF TypeOK
  <1>2. [one EXCEPT !.mounted = FALSE].pc = one.pc
        /\ [one EXCEPT !.mounted = FALSE].registered = one.registered
    BY DEF Runs
  <1>3. Withdrawn(r)[i] = IF one.pc = "free" THEN Free ELSE [one EXCEPT !.mounted = FALSE]
    BY <1>1 DEF Withdrawn
  <1>4. Free.pc = "free"
    BY DEF Free
  <1> QED
    BY <1>1, <1>2, <1>3, <1>4

\* An effect that runs again arms an entry, or its rail is not open.
LEMMA RemountAccounted ==
    ASSUME TypeOK, NEW r \in Reliable, Accounted(r),
           NEW R \in SUBSET Rails, NEW now \in [Rails -> Fetches], Remount(R, now),
           key' = key, r \notin R => edits'[r] = edits[r],
           sent'[r] = sent[r], hashed'[r] = hashed[r], again'[r] = again[r]
    PROVE  Accounted(r)'
  <1>1. r \in Rails
    BY DEF Reliable
  <1>2. CASE r \notin R
    BY <1>1, <1>2, Untouched DEF Remount
  <1>3. CASE r \in R
    <2>1. run'[r] = Withdrawn(r) /\ fetch'[r] = now[r]
      BY <1>1, <1>3 DEF Remount
    <2>2. \A i \in Slots : ~At(r, i, "free")' => run'[r][i].registered /\ ~At(r, i, "hung")'
      BY <1>1, <2>1, WithdrawnShape DEF Accounted, At
    <2>3. armed[r] \subseteq {"mounted"} => armed'[r] \subseteq {"mounted"}
      BY <1>1, <1>3 DEF Remount
    <2>4. Open(r)' => armed'[r] # {}
      BY <1>1, <1>3, <2>1 DEF Remount, Open
    <2> QED
      BY <2>2, <2>3, <2>4 DEF Accounted, Covered
  <1> QED
    BY <1>2, <1>3

\* A run that ends without having covered the rail leaves it covered.
LEMMA EndAccounted ==
    ASSUME TypeOK, NEW r \in Reliable, NEW i \in Slots, Accounted(r), End(r, i), ~At(r, i, "free"),
           key' = key, edits'[r] = edits[r], fetch' = fetch, hashed'[r] <= sent'[r],
           key /\ sent'[r] < edits[r] => sent[r] < edits[r] /\ ~Covers(r, i)
    PROVE  Accounted(r)'
  <1>1. r \in Rails /\ Kind[r] \in {"own", "rearm"}
    BY LockAssumption DEF Reliable
  <1>2. run'[r] = [run[r] EXCEPT ![i] = Free]
    BY <1>1 DEF End, TypeOK
  <1>3. Free.pc = "free"
    BY DEF Free
  <1>4. \A j \in Slots : run'[r][j] = IF j = i THEN Free ELSE run[r][j]
    BY <1>1, <1>2 DEF TypeOK
  <1>5. \A j \in Slots : ~At(r, j, "free")' => run'[r][j].registered /\ ~At(r, j, "hung")'
    BY <1>3, <1>4 DEF Accounted, At
  <1>6. Kind[r] = "rearm" /\ again[r] /\ key => armed'[r] # {}
    BY <1>1 DEF End, TypeOK
  <1>7. armed[r] # {} => armed'[r] # {}
    BY <1>1 DEF End, TypeOK
  <1>8. Kind[r] = "own" => armed'[r] = armed[r]
    BY <1>1 DEF End, TypeOK
  <1>9. ASSUME key, Open(r), sent'[r] < edits[r] PROVE Covered(r)'
    <2>1. sent[r] < edits[r] /\ ~Covers(r, i) /\ Covered(r)
      BY <1>9 DEF Accounted
    <2>2. CASE armed[r] # {} \/ (Kind[r] = "rearm" /\ again[r] /\ Busy(r))
      BY <1>6, <1>7, <1>9, <2>2 DEF Covered
    <2>3. ASSUME NEW j \in Slots, Covers(r, j) PROVE Covered(r)'
      <3>1. j # i
        BY <2>1, <2>3
      <3>2. run'[r][j] = run[r][j]
        BY <1>4, <3>1
      <3> QED
        BY <2>3, <3>2 DEF Covered, Covers, At
    <2> QED
      BY <2>1, <2>2, <2>3 DEF Covered
  <1> QED
    BY <1>5, <1>8, <1>9 DEF Accounted, Open

\* Starting entries, by their timer or by a flush (schedulePublish).
LEMMA StartAccounted ==
    ASSUME TypeOK, NEW r \in Reliable, Accounted(r), NEW S \in SUBSET armed[r], NEW first \in S,
           HasSlot(r), UNCHANGED <<key, edits, sent, hashed, fetch>>,
           armed'[r] = armed[r] \ S, run'[r] = RunsAfter(r, S, first), again'[r] = AgainAfter(r, S)
    PROVE  Accounted(r)'
  <1>1. r \in Rails /\ Kind[r] \in {"own", "rearm"} /\ S # {}
    BY LockAssumption DEF Reliable
  <1>2. Kind[r] = "own" => first = "mounted" /\ armed'[r] \subseteq {"mounted"}
    BY DEF Accounted
  <1>3. CASE ~key \/ (Kind[r] # "own" /\ Busy(r))
    <2>1. run'[r] = run[r]
      BY <1>3 DEF RunsAfter
    <2>2. key => Kind[r] = "rearm" /\ again'[r] /\ Busy(r)
      BY <1>1, <1>3 DEF AgainAfter
    <2>3. Busy(r)' = Busy(r)
      BY <2>1 DEF Busy
    <2> QED
      BY <1>2, <2>1, <2>2, <2>3 DEF Accounted, Covered, At
  <1>4. CASE key /\ (Kind[r] = "own" \/ ~Busy(r))
    <2>1. PICK slot \in Slots : slot = FreeSlot(r)
      BY <1>1, FreeIsFree
    <2>2. run'[r] = [run[r] EXCEPT ![slot] = NewRun(first, TRUE)]
      BY <1>1, <1>4, <2>1 DEF RunsAfter
    <2>3. \A j \in Slots : run'[r][j] = IF j = slot THEN NewRun(first, TRUE) ELSE run[r][j]
      BY <1>1, <2>2 DEF TypeOK
    <2>4. /\ NewRun(first, TRUE).pc = "read" /\ NewRun(first, TRUE).registered
          /\ NewRun(first, TRUE).mounted = (first = "mounted")
      BY DEF NewRun
    <2>5. Covers(r, slot)'
      BY <1>1, <1>2, <2>3, <2>4 DEF Covers, At
    <2>6. ASSUME NEW j \in Slots, run'[r][j].pc # "free"
          PROVE  run'[r][j].registered /\ run'[r][j].pc # "hung"
      <3>1. CASE j = slot
        BY <2>3, <2>4, <3>1
      <3>2. CASE j # slot
        <4>1. run'[r][j] = run[r][j]
          BY <2>3, <3>2
        <4> QED
          BY <2>6, <4>1 DEF Accounted, At
      <3> QED
        BY <3>1, <3>2
    <2>7. \A j \in Slots : ~At(r, j, "free")' => run'[r][j].registered /\ ~At(r, j, "hung")'
      BY <2>6 DEF At
    <2> QED
      BY <1>2, <2>5, <2>7 DEF Accounted, Covered
  <1> QED
    BY <1>1, <1>3, <1>4

\* Every pass of the flush.
LEMMA PassAccounted ==
    ASSUME TypeOK, NEW r \in Reliable, Accounted(r), NEW extra, FlushPass(extra),
           UNCHANGED <<key, edits, sent, hashed, fetch>>
    PROVE  Accounted(r)'
  <1>1. PICK first \in [Rails -> Entries] :
            /\ \A q \in Rails : armed[q] # {} => first[q] \in armed[q] /\ HasSlot(q)
            /\ armed' = [q \in Rails |-> {}]
            /\ run' = [q \in Rails |-> RunsAfter(q, armed[q], first[q])]
            /\ again' = [q \in Rails |-> AgainAfter(q, armed[q])]
    BY DEF FlushPass
  <1>2. r \in Rails
    BY DEF Reliable
  <1>3. armed'[r] = {} /\ run'[r] = RunsAfter(r, armed[r], first[r]) /\ again'[r] = AgainAfter(r, armed[r])
    BY <1>1, <1>2
  <1>4. CASE armed[r] = {}
    <2>1. run'[r] = run[r] /\ again'[r] = again[r]
      BY <1>2, <1>3, <1>4 DEF RunsAfter, AgainAfter, Entries, TypeOK
    <2> QED
      BY <1>3, <1>4, <2>1, Untouched
  <1>5. CASE armed[r] # {}
    <2>1. first[r] \in armed[r] /\ HasSlot(r) /\ armed'[r] = armed[r] \ armed[r]
      BY <1>1, <1>2, <1>3, <1>5
    <2> QED
      BY <1>3, <2>1, StartAccounted
  <1> QED
    BY <1>4, <1>5

\* A step of a run of the rail itself.
LEMMA RunStepAccounted ==
    ASSUME TypeOK, NEW r \in Reliable, Accounted(r), NEW i \in Slots,
           Step(r, i) \/ Fails(r, i) \/ Hangs(r, i) \/ Forget(r, i)
    PROVE  Accounted(r)'
  <1>1. r \in Rails /\ Kind[r] \in {"own", "rearm"} /\ Faults[r] = {}
    BY LockAssumption DEF Reliable
  <1>2. PICK one \in Runs : one = run[r][i] /\ one.version <= edits[r]
    BY <1>1 DEF TypeOK
  <1>3. edits[r] \in Nat /\ sent[r] \in Nat /\ sent[r] <= edits[r] /\ one.version \in Nat
    BY <1>1 DEF TypeOK, Runs
  <1>4. key /\ ~Current(r, i) => ~Covers(r, i)
    BY <1>1 DEF Current, Covers
  <1>5. CASE Read(r, i)
    <2>1. CASE Current(r, i) /\ hashed[r] # edits[r]
      <3> DEFINE new == [one EXCEPT !.pc = "sign", !.version = edits[r]]
      <3>1. new.pc = "sign" /\ new.version = edits[r] /\ new.mounted = one.mounted
            /\ new.registered = one.registered
        BY DEF Runs
      <3>2. run' = [run EXCEPT ![r][i] = new]
        BY <1>2, <1>5, <2>1 DEF Read
      <3> HIDE DEF new
      <3>3. \A j \in Slots : run'[r][j] = IF j = i THEN new ELSE run[r][j]
        BY <1>1, <3>2 DEF TypeOK
      <3>4. Kind[r] = "rearm" \/ one.mounted
        BY <1>2, <2>1 DEF Current
      <3>5. Covers(r, i)'
        BY <1>5, <3>1, <3>3, <3>4 DEF Covers, At, Read
      <3>6. \A j \in Slots : ~At(r, j, "free")' => run'[r][j].registered /\ ~At(r, j, "hung")'
        BY <1>2, <1>5, <3>1, <3>3 DEF Accounted, At, Read
      <3>7. UNCHANGED <<armed, sent, hashed>>
        BY <1>5, <2>1 DEF Read
      <3> QED
        BY <3>5, <3>6, <3>7 DEF Accounted, Covered
    <2>2. CASE End(r, i) /\ ~(Current(r, i) /\ hashed[r] # edits[r])
      <3>1. UNCHANGED <<key, edits, sent, hashed, fetch>> /\ ~At(r, i, "free")
        BY <1>5 DEF Read, At
      <3>2. hashed'[r] <= sent'[r]
        BY <3>1 DEF Accounted
      <3>3. key /\ sent'[r] < edits[r] => sent[r] < edits[r] /\ ~Covers(r, i)
        BY <1>3, <1>4, <2>2, <3>1, <3>2
      <3> QED
        BY <2>2, <3>1, <3>2, <3>3, EndAccounted
    <2> QED
      BY <1>5, <2>1, <2>2 DEF Read
  <1>6. CASE Sign(r, i)
    <2>1. CASE Current(r, i)
      <3> DEFINE new == [one EXCEPT !.pc = "wire"]
      <3>1. new.pc = "wire" /\ new.version = one.version /\ new.mounted = one.mounted
            /\ new.registered = one.registered
        BY DEF Runs
      <3>2. run' = [run EXCEPT ![r][i] = new]
        BY <1>2, <1>6, <2>1 DEF Sign, Goto
      <3> HIDE DEF new
      <3>3. \A j \in Slots : run'[r][j] = IF j = i THEN new ELSE run[r][j]
        BY <1>1, <3>2 DEF TypeOK
      <3>4. \A j \in Slots : ~At(r, j, "free")' => run'[r][j].registered /\ ~At(r, j, "hung")'
        BY <1>2, <1>6, <3>1, <3>3 DEF Accounted, At, Sign
      <3>5. \A j \in Slots : Covers(r, j) => Covers(r, j)'
        BY <1>2, <1>6, <3>1, <3>3 DEF Covers, At, Sign
      <3>6. Busy(r) => Busy(r)'
        BY <3>1, <3>3 DEF Busy
      <3>7. UNCHANGED <<key, edits, sent, hashed, fetch, armed, again>>
        BY <1>6, <2>1 DEF Sign
      <3> QED
        BY <3>4, <3>5, <3>6, <3>7 DEF Accounted, Covered, Open
    <2>2. CASE End(r, i) /\ ~Current(r, i)
      <3>1. UNCHANGED <<key, edits, sent, hashed, fetch>> /\ ~At(r, i, "free")
        BY <1>6 DEF Sign, At
      <3>2. hashed'[r] <= sent'[r]
        BY <3>1 DEF Accounted
      <3>3. key /\ sent'[r] < edits[r] => sent[r] < edits[r] /\ ~Covers(r, i)
        BY <1>4, <2>2, <3>1
      <3> QED
        BY <2>2, <3>1, <3>2, <3>3, EndAccounted
    <2> QED
      BY <1>6, <2>1, <2>2 DEF Sign
  <1>7. CASE Confirmed(r, i)
    <2>1. /\ UNCHANGED <<key, edits, fetch>> /\ End(r, i)
          /\ ~At(r, i, "free") /\ At(r, i, "wire")
      BY <1>7 DEF Confirmed, At
    <2>2. sent'[r] = IF sent[r] < one.version THEN one.version ELSE sent[r]
      BY <1>1, <1>2, <1>7 DEF Confirmed, TypeOK
    <2>3. sent'[r] < edits[r] => sent[r] < edits[r] /\ one.version # edits[r]
      BY <1>2, <1>3, <2>2
    <2>4. one.version # edits[r] => ~Covers(r, i)
      BY <1>2, <2>1 DEF Covers, At
    <2>5. hashed'[r] \in {hashed[r], one.version}
      BY <1>1, <1>2, <1>7 DEF Confirmed, TypeOK
    <2>6. hashed[r] <= sent[r] /\ hashed[r] \in Nat \cup {NoHash}
      BY <1>1 DEF Accounted, TypeOK
    <2>7. hashed'[r] <= sent'[r]
      BY <1>3, <2>2, <2>5, <2>6 DEF NoHash
    <2> QED
      BY <2>1, <2>3, <2>4, <2>7, EndAccounted
  <1>8. CASE Fails(r, i) \/ Hangs(r, i)
    BY <1>1, <1>8 DEF Fails, Hangs
  <1>9. CASE Forget(r, i)
    BY <1>9 DEF Forget, Accounted, At
  <1> QED
    BY <1>5, <1>6, <1>7, <1>8, <1>9 DEF Step

\* A step of a run of another rail, and what it leaves of this one.
LEMMA OtherRun ==
    ASSUME TypeOK, NEW r \in Reliable, Accounted(r), NEW q \in Rails, q # r, NEW i \in Slots,
           Step(q, i) \/ Fails(q, i) \/ Hangs(q, i) \/ Forget(q, i)
    PROVE  Accounted(r)'
  <1>1. r \in Rails
    BY DEF Reliable
  <1>2. End(q, i) => run'[r] = run[r] /\ armed'[r] = armed[r] /\ again'[r] = again[r]
    BY <1>1 DEF End, TypeOK
  <1>3. \A pc : Goto(q, i, pc) => run'[r] = run[r]
    BY <1>1 DEF Goto, TypeOK
  <1>4. /\ key' = key /\ edits' = edits /\ sent'[r] = sent[r]
        /\ hashed'[r] = hashed[r] /\ fetch'[r] = fetch[r]
        /\ run'[r] = run[r] /\ armed'[r] = armed[r] /\ again'[r] = again[r]
    <2>1. CASE Read(q, i)
      BY <1>1, <1>2, <2>1 DEF Read, TypeOK
    <2>2. CASE Sign(q, i)
      BY <1>2, <1>3, <2>2 DEF Sign
    <2>3. CASE Confirmed(q, i)
      BY <1>1, <1>2, <2>3 DEF Confirmed, TypeOK
    <2>4. CASE Fails(q, i)
      BY <1>2, <2>4 DEF Fails
    <2>5. CASE Hangs(q, i)
      BY <1>1, <2>5 DEF Hangs, TypeOK
    <2>6. CASE Forget(q, i)
      BY <1>1, <2>6 DEF Forget, TypeOK
    <2> QED
      BY <2>1, <2>2, <2>3, <2>4, <2>5, <2>6 DEF Step
  <1> QED
    BY <1>4, Untouched

\* The effects' cleanup when the key goes (setEncryptionKey).
LEMMA DropAccounted ==
    ASSUME TypeOK, NEW r \in Reliable, Accounted(r), DropKey
    PROVE  Accounted(r)'
  <1>1. r \in Rails
    BY DEF Reliable
  <1>2. ~key' /\ armed'[r] \subseteq armed[r] /\ run'[r] = Withdrawn(r)
    BY <1>1 DEF DropKey
  <1>3. \A i \in Slots : ~At(r, i, "free")' => run'[r][i].registered /\ ~At(r, i, "hung")'
    BY <1>1, <1>2, WithdrawnShape DEF Accounted, At
  <1>4. hashed'[r] <= sent'[r]
    <2>1. sent'[r] = sent[r] /\ hashed'[r] \in {hashed[r], NoHash} /\ sent[r] \in Nat
      BY <1>1 DEF DropKey, TypeOK
    <2> QED
      BY <2>1 DEF Accounted, NoHash
  <1> QED
    BY <1>2, <1>3, <1>4 DEF Accounted

LEMMA RegistryNext == TypeOK /\ RegistryInv /\ [Next]_vars => RegistryInv'
  <1> SUFFICES ASSUME TypeOK, RegistryInv, [Next]_vars, NEW r \in Reliable PROVE Accounted(r)'
    BY DEF RegistryInv, Reliable
  <1>1. r \in Rails /\ Accounted(r)
    BY DEF RegistryInv, Reliable
  <1>2. ASSUME NEW q \in Rails, Edit(q) PROVE Accounted(r)'
    <2>1. PICK R \in SUBSET Rails, now \in [Rails -> Fetches] : q \in R /\ Remount(R, now)
      BY <1>2, EditRemounts
    <2>2. r # q => edits'[r] = edits[r]
      BY <1>1, <1>2 DEF Edit, TypeOK
    <2>3. UNCHANGED <<key, sent, hashed, again>>
      BY <1>2 DEF Edit
    <2> QED
      BY <1>1, <2>1, <2>2, <2>3, RemountAccounted
  <1>3. ASSUME NEW q \in Rails, NEW entry \in Entries, Fire(q, entry) PROVE Accounted(r)'
    <2>1. CASE q = r
      <3>1. /\ UNCHANGED <<key, edits, sent, hashed, fetch>> /\ HasSlot(r)
            /\ {entry} \in SUBSET armed[r] /\ entry \in {entry}
            /\ armed'[r] = armed[r] \ {entry} /\ run'[r] = RunsAfter(r, {entry}, entry)
            /\ again'[r] = AgainAfter(r, {entry})
        BY <1>1, <1>3, <2>1 DEF Fire, TypeOK
      <3> QED
        BY <1>1, <3>1, StartAccounted
    <2>2. CASE q # r
      <3>1. /\ UNCHANGED <<key, edits, sent, hashed, fetch>>
            /\ run'[r] = run[r] /\ armed'[r] = armed[r] /\ again'[r] = again[r]
        BY <1>1, <1>3, <2>2 DEF Fire, TypeOK
      <3> QED
        BY <1>1, <3>1, Untouched
    <2> QED
      BY <2>1, <2>2
  <1>4. ASSUME NEW q \in Rails, NEW i \in Slots,
               Step(q, i) \/ Fails(q, i) \/ Hangs(q, i) \/ Forget(q, i)
        PROVE  Accounted(r)'
    <2>1. CASE q = r
      BY <1>1, <1>4, <2>1, RunStepAccounted
    <2>2. CASE q # r
      BY <1>1, <1>4, <2>2, OtherRun
    <2> QED
      BY <2>1, <2>2
  <1>5. CASE LockAtOnce \/ Locking \/ LockExpired
    BY <1>1, <1>5, DropAccounted DEF LockAtOnce, Locking, LockFlushed, LockAtCap, LockExpired
  <1>6. CASE StartFlush \/ FlushAgain
    BY <1>1, <1>6, PassAccounted DEF StartFlush, FlushAgain
  <1>7. CASE Unlock
    <2>1. armed'[r] = (IF Open(r) THEN armed[r] \cup {"mounted"} ELSE armed[r])
      BY <1>1, <1>7 DEF Unlock
    <2>2. UNCHANGED <<edits, sent, hashed, fetch, run, again>>
      BY <1>7 DEF Unlock
    <2>3. Open(r) => armed'[r] # {}
      BY <2>1
    <2>4. armed[r] \subseteq {"mounted"} => armed'[r] \subseteq {"mounted"}
      BY <2>1
    <2> QED
      BY <1>1, <2>2, <2>3, <2>4 DEF Accounted, Covered, At, Open
  <1>8. CASE UNCHANGED vars
    BY <1>1, <1>8, Untouched DEF vars, railVars
  <1>9. ASSUME NEW q \in Rails, Fetched(q) \/ FetchFails(q) PROVE Accounted(r)'
    <2>1. PICK came \in {"reached", "unreached"} : FetchEnds(q, came)
      BY <1>9 DEF Fetched, FetchFails
    <2>2. Remount({q}, [fetch EXCEPT ![q] = came]) /\ [fetch EXCEPT ![q] = came] \in [Rails -> Fetches]
      BY <2>1 DEF FetchEnds, TypeOK, Fetches
    <2>3. UNCHANGED <<key, edits, sent, again>>
      BY <2>1 DEF FetchEnds
    <2>4. hashed'[r] = hashed[r]
      BY <1>1, <1>9 DEF Fetched, FetchFails, TypeOK, Reliable
    <2>5. {q} \in SUBSET Rails
      OBVIOUS
    <2> QED
      BY <1>1, <2>2, <2>3, <2>4, <2>5, RemountAccounted
  <1>10. ASSUME NEW q \in Rails, Retry(q) PROVE Accounted(r)'
    <2>1. CASE q = r
      <3>1. ~Open(r)' /\ UNCHANGED <<key, edits, sent, hashed, run, armed, again>>
        BY <1>1, <1>10, <2>1 DEF Retry, Open, OpenWith, TypeOK
      <3> QED
        BY <1>1, <3>1 DEF Accounted, At
    <2>2. CASE q # r
      <3>1. fetch'[r] = fetch[r]
        BY <1>1, <1>10, <2>2 DEF Retry, TypeOK
      <3> QED
        BY <1>1, <1>10, <3>1, Untouched DEF Retry
    <2> QED
      BY <2>1, <2>2
  <1> QED
    BY <1>2, <1>3, <1>4, <1>5, <1>6, <1>7, <1>8, <1>9, <1>10 DEF Next, Timers, Reading

LEMMA RegistryInit == Init => RegistryInv
  <1> SUFFICES ASSUME Init, NEW r \in Rails PROVE Accounted(r)
    BY DEF RegistryInv, Reliable
  <1>1. Free.pc = "free"
    BY DEF Free
  <1>2. \A i \in Slots : run[r][i].pc = "free"
    BY <1>1 DEF Init
  <1>3. sent[r] = 0 /\ edits[r] = 0 /\ hashed[r] = 0 /\ armed[r] = {}
    BY DEF Init
  <1> QED
    BY <1>2, <1>3 DEF Accounted, At

(* The registry knows every run of a reliable rail, its hash stands for     *)
(* nothing that is not backed up, and once its fetch has opened it, an edit *)
(* that is not backed up is covered by something that will send it.         *)
THEOREM RegistrySound == Spec => []RegistryInv
  <1>1. Init => RegistryInv
    BY RegistryInit
  <1>2. TypeOK /\ RegistryInv /\ [Next]_vars => RegistryInv'
    BY RegistryNext
  <1> QED
    BY <1>1, <1>2, LockTypeCorrect, PTL DEF Spec

(* An open rail with nothing in the registry has nothing left to publish:   *)
(* of such rails the requester of a lock may go by HasPending.              *)
THEOREM NothingPendingNothingLost == Spec => []RegistryTells
  <1>1. TypeOK /\ RegistryInv => RegistryTells
    <2> SUFFICES ASSUME TypeOK, RegistryInv, NEW r \in Reliable, key, Open(r), ~Registered(r)
                 PROVE  sent[r] = edits[r]
      BY DEF RegistryTells
    <2>1. r \in Rails /\ Accounted(r)
      BY DEF RegistryInv, Reliable
    <2>2. armed[r] = {} /\ \A i \in Slots : At(r, i, "free")
      BY <2>1 DEF Registered, Accounted
    <2>3. ~Covered(r)
      BY <2>2 DEF Covered, Covers, Busy, At
    <2>4. ~(sent[r] < edits[r])
      BY <2>1, <2>3 DEF Accounted
    <2>5. sent[r] \in Nat /\ edits[r] \in Nat /\ sent[r] <= edits[r]
      BY <2>1 DEF TypeOK
    <2> QED
      BY <2>4, <2>5
  <1> QED
    BY <1>1, LockTypeCorrect, RegistrySound, PTL

-----------------------------------------------------------------------------
(* Every step is one that the promise allows.                              *)

LEMMA PromiseStep == TypeOK /\ [Next]_vars => [Promise!Next]_(Promise!promiseVars)
  <1> USE DEF Promise!promiseVars
  <1> SUFFICES ASSUME TypeOK, [Next]_vars PROVE Promise!Next \/ UNCHANGED <<key, flush.on, edits, sent>>
    OBVIOUS
  <1>1. CASE \E r \in Rails : Edit(r)
    BY <1>1 DEF Edit, Promise!Next, Promise!Edit
  <1>2. CASE \E r \in Rails : Timers(r) \/ Reading(r)
    BY <1>2 DEF Timers, Fire, Reading, Fetched, FetchFails, FetchEnds, Retry, flushVars
  <1>3. ASSUME NEW r \in Rails, NEW i \in Slots, End(r, i) PROVE flush'.on = flush.on
    BY <1>3 DEF End, TypeOK
  <1>4. ASSUME NEW r \in Rails, NEW i \in Slots, Confirmed(r, i)
        PROVE  Promise!Next \/ UNCHANGED <<key, flush.on, edits, sent>>
    <2>1. flush'.on = flush.on /\ key' = key /\ edits' = edits
      BY <1>3, <1>4 DEF Confirmed
    <2>2. PICK n \in Nat : n = run[r][i].version /\ n <= edits[r]
      BY DEF TypeOK, Runs
    <2>3. CASE sent[r] < n
      <3>1. sent' = [sent EXCEPT ![r] = n]
        BY <1>4, <2>2, <2>3 DEF Confirmed
      <3>2. n \in (sent[r] + 1)..edits[r]
        BY <2>2, <2>3 DEF TypeOK
      <3> QED
        BY <2>1, <3>1, <3>2 DEF Promise!Next, Promise!BackUp
    <2>4. CASE ~(sent[r] < n)
      <3>1. sent' = sent
        BY <1>4, <2>2, <2>4 DEF Confirmed, TypeOK
      <3> QED
        BY <2>1, <3>1
    <2> QED
      BY <2>3, <2>4
  <1>5. ASSUME NEW r \in Rails, NEW i \in Slots,
               Read(r, i) \/ Sign(r, i) \/ Fails(r, i) \/ Hangs(r, i) \/ Forget(r, i)
        PROVE  UNCHANGED <<key, flush.on, edits, sent>>
    BY <1>3, <1>5 DEF Read, Sign, Fails, Hangs, Forget, flushVars
  <1>6. CASE StartFlush \/ FlushAgain
    <2>1. key' = key /\ edits' = edits /\ sent' = sent /\ flush'.on = TRUE
      BY <1>6 DEF StartFlush, FlushAgain, FlushPass
    <2>2. CASE StartFlush
      <3>1. Promise!Ask
        BY <2>1, <2>2 DEF StartFlush, Promise!Ask
      <3> QED
        BY <3>1 DEF Promise!Next
    <2>3. CASE FlushAgain
      <3>1. flush.on = TRUE
        BY <2>3 DEF FlushAgain, TypeOK
      <3> QED
        BY <2>1, <3>1
    <2> QED
      BY <1>6, <2>2, <2>3
  <1>7. CASE LockAtOnce \/ LockExpired
    BY <1>7 DEF LockAtOnce, LockExpired, DropKey, Promise!Next, Promise!LockAtOnce
  <1>8. CASE Locking
    <2>1. flush.on /\ key' = FALSE /\ edits' = edits /\ sent' = sent /\ flush' = NoFlush
      BY <1>8 DEF Locking, LockFlushed, LockAtCap, DropKey
    <2>2. flush'.on = FALSE
      BY <2>1 DEF NoFlush
    <2>3. Promise!Lock
      BY <2>1, <2>2 DEF Promise!Lock
    <2> QED
      BY <2>3 DEF Promise!Next
  <1>9. CASE Unlock
    BY <1>9 DEF Unlock, flushVars, Promise!Next, Promise!Unlock
  <1>10. CASE UNCHANGED vars
    BY <1>10 DEF vars, railVars, flushVars
  <1> QED
    BY <1>1, <1>2, <1>4, <1>5, <1>6, <1>7, <1>8, <1>9, <1>10 DEF Next, Step

(* Whatever the rails and the locks do, they do what FlushThenLock allows:  *)
(* the key goes only by a lock, nothing is edited without it, and a backed  *)
(* up edit stays backed up.                                                 *)
THEOREM LockStepsPromised == Spec => Promise!Init /\ [][Promise!Next]_(Promise!promiseVars)
  <1>1. Init => Promise!Init
    BY DEF Init, NoFlush, Promise!Init
  <1>2. TypeOK /\ [Next]_vars => [Promise!Next]_(Promise!promiseVars)
    BY PromiseStep
  <1> QED
    BY <1>1, <1>2, LockTypeCorrect, PTL DEF Spec

-----------------------------------------------------------------------------
(* What a lock that waited leaves behind.                                  *)

(* A run that will bring the relay up to what the flush owes: it is still   *)
(* to read, or has read enough, and it is not out of date.                  *)
Sends(r, i) ==
    /\ At(r, i, "read") \/ (run[r][i].pc \in {"sign", "wire"} /\ run[r][i].version >= owed[r])
    /\ Kind[r] = "rearm" \/ run[r][i].mounted

(* The pass under way waits for such a run.                                 *)
OnItsWay(r) == \E i \in Slots : <<r, i>> \in flush.waits /\ Sends(r, i)

(* What excuses a pass that ends with edits still owed: the first one may   *)
(* wait for an older run of a rail that re-arms; and an effect that runs    *)
(* again, for an edit or a fetch, withdraws the runs of any other rail, one *)
(* pass each time.                                                          *)
Delayed(r) == IF Kind[r] = "rearm" THEN flush.extra = 0 ELSE during > flush.extra

OwedOf(r) ==
    /\ Kind[r] = "rearm" =>
           \A i \in Slots : ~At(r, i, "free") /\ <<r, i>> \notin flush.waits => Sends(r, i)
    /\ sent[r] < owed[r] => Delayed(r) \/ OnItsWay(r)
    /\ sent[r] < owed[r] /\ Kind[r] = "own" => during >= flush.extra

OwedKnown ==
    \A r \in Rails : owed[r] <= edits[r] /\ (owed[r] > 0 => key /\ flush.on /\ Open(r))

OwedInv == OwedKnown /\ \A r \in Reliable : OwedOf(r)

\* A step that leaves the rail and what is waited for of it alone.
LEMMA OwedUntouched ==
    ASSUME TypeOK, NEW r \in Rails, OwedOf(r), run'[r] = run[r], sent'[r] = sent[r],
           owed'[r] = owed[r], during' \in Nat, during' >= during, flush'.extra = flush.extra,
           \A i \in Slots : <<r, i>> \in flush'.waits <=> <<r, i>> \in flush.waits
    PROVE  OwedOf(r)'
<1>1. during \in Nat /\ flush.extra \in Nat
  BY LockAssumption DEF TypeOK
<1>2. \A i \in Slots : /\ (Sends(r, i)' <=> Sends(r, i))
                        /\ (At(r, i, "free")' <=> At(r, i, "free"))
  BY DEF Sends, At
<1>3. OnItsWay(r) => OnItsWay(r)'
  BY <1>2 DEF OnItsWay
<1>4. Delayed(r) => Delayed(r)'
  BY <1>1 DEF Delayed
<1>5. during >= flush.extra => during' >= flush'.extra
  BY <1>1
<1> QED
  BY <1>2, <1>3, <1>4, <1>5 DEF OwedOf

\* What the end of a run does to what is waited for.
LEMMA EndWaits ==
    ASSUME TypeOK, NEW q \in Rails, NEW i \in Slots, End(q, i)
    PROVE  /\ flush'.on = flush.on /\ flush'.extra = flush.extra
           /\ flush'.waits = flush.waits \ {<<q, i>>}
  BY DEF End, TypeOK

LEMMA OwedKnownKept ==
    ASSUME TypeOK, OwedKnown, [Next]_vars
    PROVE  OwedKnown'
<1> USE DEF OwedKnown
<1>1. \A r \in Rails : edits[r] \in Nat /\ owed[r] \in Nat
  BY DEF TypeOK
<1>2. CASE UNCHANGED <<key, edits, owed, fetch>> /\ flush'.on = flush.on
  BY <1>2 DEF Open
<1>3. ASSUME NEW R \in SUBSET Rails, NEW now \in [Rails -> Fetches], Remount(R, now),
             UNCHANGED <<key, flush>>, \A q \in Rails : edits[q] <= edits'[q] /\ edits'[q] \in Nat
      PROVE  OwedKnown'
  <2> SUFFICES ASSUME NEW q \in Rails
               PROVE  owed'[q] <= edits'[q] /\ (owed'[q] > 0 => key /\ flush.on /\ Open(q)')
    BY <1>3
  <2>1. \/ owed'[q] = 0
        \/ owed'[q] = owed[q] /\ (Open(q) => Open(q)')
    BY <1>3 DEF Remount, Open
  <2> QED
    BY <1>1, <1>3, <2>1
<1>4. ASSUME NEW r \in Rails, Edit(r) PROVE OwedKnown'
  <2>1. UNCHANGED <<key, flush>> /\ \A q \in Rails : edits[q] <= edits'[q] /\ edits'[q] \in Nat
    BY <1>1, <1>4 DEF Edit, TypeOK
  <2> QED
    BY <1>3, <1>4, <2>1, EditRemounts
<1>5. ASSUME NEW r \in Rails, Fetched(r) \/ FetchFails(r) PROVE OwedKnown'
  <2>1. PICK came \in {"reached", "unreached"} : FetchEnds(r, came)
    BY <1>5 DEF Fetched, FetchFails
  <2>2. Remount({r}, [fetch EXCEPT ![r] = came]) /\ [fetch EXCEPT ![r] = came] \in [Rails -> Fetches]
    BY <2>1 DEF FetchEnds, TypeOK, Fetches
  <2>3. UNCHANGED <<key, edits, flush>> /\ {r} \in SUBSET Rails
    BY <2>1 DEF FetchEnds
  <2>4. \A q \in Rails : edits[q] <= edits'[q] /\ edits'[q] \in Nat
    BY <1>1, <2>3
  <2> QED
    BY <1>3, <2>2, <2>3, <2>4
<1>6. ASSUME NEW r \in Rails, Retry(r) PROVE OwedKnown'
  <2>1. UNCHANGED <<key, edits, owed, flush>>
    BY <1>6 DEF Retry, flushVars
  <2>2. ASSUME NEW q \in Rails, Open(q) PROVE Open(q)'
    BY <1>6, <2>2 DEF Retry, Open, OpenWith, TypeOK
  <2> QED
    BY <2>1, <2>2
<1>7. CASE DropKey
  BY <1>1, <1>7 DEF DropKey, NoneOwed
<1>8. CASE StartFlush
  BY <1>1, <1>8 DEF StartFlush, FlushPass, Open
<1>9. CASE FlushAgain
  BY <1>9 DEF FlushAgain, FlushPass, Open
<1>10. CASE Unlock
  BY <1>10 DEF Unlock, flushVars, Open
<1>11. ASSUME NEW r \in Rails, NEW i \in Slots,
              Step(r, i) \/ Fails(r, i) \/ Hangs(r, i) \/ Forget(r, i)
       PROVE  UNCHANGED <<key, edits, owed, fetch>> /\ flush'.on = flush.on
  BY <1>11, EndWaits DEF Step, Read, Sign, Confirmed, Fails, Hangs, Forget, flushVars
<1>12. CASE (\E r \in Rails : Timers(r)) \/ UNCHANGED vars
  BY <1>2, <1>12 DEF Timers, Fire, vars, railVars, flushVars
<1> QED
  BY <1>2, <1>4, <1>5, <1>6, <1>7, <1>8, <1>9, <1>10, <1>11, <1>12
  DEF Next, Reading, LockAtOnce, Locking, LockFlushed, LockAtCap, LockExpired

\* With nothing owed, as after every lock, there is nothing to wait for.
LEMMA NothingOwed ==
    TypeOK /\ RegistryInv => \A r \in Reliable : owed[r] = 0 => OwedOf(r)
<1> SUFFICES ASSUME TypeOK, RegistryInv, NEW r \in Reliable, owed[r] = 0 PROVE OwedOf(r)
  OBVIOUS
<1>0. Accounted(r)
  BY DEF RegistryInv
<1>1. r \in Rails /\ sent[r] \in Nat /\ \A i \in Slots : run[r][i] \in Runs
  BY DEF Reliable, TypeOK
<1>2. ASSUME NEW i \in Slots, ~At(r, i, "free"), Kind[r] = "rearm" PROVE Sends(r, i)
  <2>1. run[r][i].pc \in {"read", "sign", "wire"} /\ run[r][i].version >= 0
    BY <1>0, <1>1, <1>2 DEF Accounted, At, Runs
  <2> QED
    BY <1>2, <2>1 DEF Sends, At
<1> QED
  BY <1>1, <1>2 DEF OwedOf

LEMMA NothingOwedNext ==
    (TypeOK /\ RegistryInv => \A r \in Reliable : owed[r] = 0 => OwedOf(r))'
  BY NothingOwed, PTL

\* A run ends that was not to send what is owed, or has sent it.
LEMMA EndOwed ==
    ASSUME TypeOK, NEW r \in Reliable, OwedOf(r), NEW i \in Slots, End(r, i),
           UNCHANGED <<owed, during>>, sent'[r] < owed[r] => sent[r] < owed[r] /\ ~Sends(r, i)
    PROVE  OwedOf(r)'
<1>1. r \in Rails /\ Kind[r] \in {"own", "rearm"}
  BY LockAssumption DEF Reliable
<1>2. /\ \A j \in Slots : run'[r][j] = IF j = i THEN Free ELSE run[r][j]
      /\ Free.pc = "free"
  BY <1>1 DEF End, TypeOK, Free
<1>3. flush'.extra = flush.extra /\ flush'.waits = flush.waits \ {<<r, i>>}
  BY <1>1, EndWaits
<1>4. ASSUME NEW j \in Slots, j # i
      PROVE  /\ Sends(r, j)' <=> Sends(r, j)
             /\ At(r, j, "free")' <=> At(r, j, "free")
             /\ <<r, j>> \in flush'.waits <=> <<r, j>> \in flush.waits
  BY <1>2, <1>3, <1>4 DEF Sends, At
<1>5. At(r, i, "free")'
  BY <1>2 DEF At
<1>6. ASSUME sent'[r] < owed[r] PROVE (Delayed(r) \/ OnItsWay(r))'
  <2>1. Delayed(r) \/ OnItsWay(r)
    BY <1>6 DEF OwedOf
  <2>2. CASE OnItsWay(r)
    <3>1. PICK j \in Slots : <<r, j>> \in flush.waits /\ Sends(r, j)
      BY <2>2 DEF OnItsWay
    <3>2. j # i
      BY <1>6, <3>1
    <3> QED
      BY <1>4, <3>1, <3>2 DEF OnItsWay
  <2> QED
    BY <1>3, <2>1, <2>2 DEF Delayed
<1>7. sent'[r] < owed[r] /\ Kind[r] = "own" => during >= flush.extra
  BY DEF OwedOf
<1>8. Kind[r] = "rearm" => \A j \in Slots : ~At(r, j, "free")' /\ <<r, j>> \notin flush'.waits => Sends(r, j)'
  BY <1>4, <1>5 DEF OwedOf
<1> QED
  BY <1>3, <1>6, <1>7, <1>8 DEF OwedOf

\* A run of the rail goes on: what was to be sent by it still is.
LEMMA GoOwed ==
    ASSUME TypeOK, NEW r \in Rails, OwedOf(r), NEW i \in Slots, ~At(r, i, "free"), NEW new,
           run' = [run EXCEPT ![r][i] = new], new.mounted = run[r][i].mounted,
           new.pc \in {"sign", "wire"},
           Sends(r, i) => new.version >= owed[r],
           UNCHANGED <<sent, flush, owed, during>>
    PROVE  OwedOf(r)'
<1>1. \A j \in Slots : run'[r][j] = IF j = i THEN new ELSE run[r][j]
  BY DEF TypeOK
<1>2. ASSUME NEW j \in Slots, Sends(r, j) PROVE Sends(r, j)'
  BY <1>1, <1>2 DEF Sends, At
<1>3. \A j \in Slots : ~At(r, j, "free")' => ~At(r, j, "free")
  BY <1>1 DEF At
<1> QED
  BY <1>2, <1>3 DEF OwedOf, OnItsWay, Delayed

LEMMA RunStepOwed ==
    ASSUME TypeOK, OwedKnown, NEW r \in Reliable, OwedOf(r), Accounted(r), NEW i \in Slots,
           Step(r, i) \/ Fails(r, i) \/ Hangs(r, i) \/ Forget(r, i)
    PROVE  OwedOf(r)'
<1>1. r \in Rails /\ Faults[r] = {} /\ Kind[r] \in {"own", "rearm"}
  BY LockAssumption DEF Reliable
<1>2. PICK one \in Runs : one = run[r][i] /\ one.version <= edits[r]
  BY <1>1 DEF TypeOK
<1>3. /\ edits[r] \in Nat /\ sent[r] \in Nat /\ owed[r] \in Nat /\ one.version \in Nat
      /\ owed[r] <= edits[r] /\ (owed[r] > 0 => key)
  BY <1>1 DEF TypeOK, Runs, OwedKnown
<1>4. sent[r] < owed[r] /\ Sends(r, i) => Current(r, i) /\ hashed[r] # edits[r]
  <2>1. sent[r] < owed[r] /\ Sends(r, i) => Current(r, i) /\ sent[r] < edits[r]
    BY <1>1, <1>3 DEF Sends, Current
  <2>2. hashed[r] <= sent[r] /\ hashed[r] \in Nat \cup {NoHash}
    BY <1>1 DEF Accounted, TypeOK
  <2>3. sent[r] < edits[r] => hashed[r] # edits[r]
    BY <1>3, <2>2
  <2> QED
    BY <2>1, <2>3
<1>5. CASE Read(r, i)
  <2>1. ~At(r, i, "free")
    BY <1>5 DEF Read, At
  <2>2. CASE Current(r, i) /\ hashed[r] # edits[r]
    <3> DEFINE new == [one EXCEPT !.pc = "sign", !.version = edits[r]]
    <3>1. new.pc = "sign" /\ new.version = edits[r] /\ new.mounted = one.mounted
      BY DEF Runs
    <3>2. run' = [run EXCEPT ![r][i] = new] /\ UNCHANGED <<sent, flush, owed, during>>
      BY <1>2, <1>5, <2>2 DEF Read
    <3> HIDE DEF new
    <3> QED
      BY <1>1, <1>2, <1>3, <2>1, <3>1, <3>2, GoOwed
  <2>3. CASE End(r, i) /\ ~(Current(r, i) /\ hashed[r] # edits[r])
    <3>1. UNCHANGED <<sent, owed, during>>
      BY <1>5 DEF Read
    <3> QED
      BY <1>4, <2>3, <3>1, EndOwed
  <2> QED
    BY <1>5, <2>2, <2>3 DEF Read
<1>6. CASE Sign(r, i)
  <2>1. ~At(r, i, "free") /\ UNCHANGED <<sent, owed, during>>
    BY <1>6 DEF Sign, At
  <2>2. CASE Current(r, i)
    <3> DEFINE new == [one EXCEPT !.pc = "wire"]
    <3>1. new.pc = "wire" /\ new.version = one.version /\ new.mounted = one.mounted
      BY DEF Runs
    <3>2. run' = [run EXCEPT ![r][i] = new] /\ flush' = flush
      BY <1>2, <1>6, <2>2 DEF Sign, Goto
    <3>3. Sends(r, i) => one.version >= owed[r]
      BY <1>2, <1>6 DEF Sends, Sign, At
    <3> HIDE DEF new
    <3> QED
      BY <1>1, <1>2, <2>1, <3>1, <3>2, <3>3, GoOwed
  <2>3. CASE End(r, i) /\ ~Current(r, i)
    BY <1>4, <2>1, <2>3, EndOwed
  <2> QED
    BY <1>6, <2>2, <2>3 DEF Sign
<1>7. CASE Confirmed(r, i)
  <2>1. sent'[r] = IF sent[r] < one.version THEN one.version ELSE sent[r]
    BY <1>1, <1>2, <1>7 DEF Confirmed, TypeOK
  <2>2. Sends(r, i) => one.version >= owed[r]
    BY <1>2, <1>7 DEF Sends, Confirmed, At
  <2>3. sent'[r] < owed[r] => sent[r] < owed[r] /\ ~Sends(r, i)
    BY <1>3, <2>1, <2>2
  <2>4. End(r, i) /\ UNCHANGED <<owed, during>>
    BY <1>7 DEF Confirmed
  <2> QED
    BY <2>3, <2>4, EndOwed
<1>8. CASE Fails(r, i) \/ Hangs(r, i)
  BY <1>1, <1>8 DEF Fails, Hangs
<1>9. CASE Forget(r, i)
  BY <1>9 DEF Forget, Accounted, At
<1> QED
  BY <1>5, <1>6, <1>7, <1>8, <1>9 DEF Step

\* A step of a run of another rail.
LEMMA OtherRunOwed ==
    ASSUME TypeOK, NEW r \in Rails, OwedOf(r), NEW q \in Rails, q # r, NEW i \in Slots,
           Step(q, i) \/ Fails(q, i) \/ Hangs(q, i) \/ Forget(q, i)
    PROVE  OwedOf(r)'
<1>1. End(q, i) => run'[r] = run[r]
  BY DEF End, TypeOK
<1>2. End(q, i) => /\ flush'.extra = flush.extra
                   /\ \A j \in Slots : <<r, j>> \in flush'.waits <=> <<r, j>> \in flush.waits
  BY EndWaits
<1>3. (\A pc : Goto(q, i, pc) => run'[r] = run[r]) /\ during \in Nat
  BY LockAssumption DEF Goto, TypeOK
<1>4. UNCHANGED <<owed, during>> /\ sent'[r] = sent[r]
  BY DEF Step, Read, Sign, Confirmed, Fails, Hangs, Forget, flushVars, TypeOK
<1>5. End(q, i) \/ (run'[r] = run[r] /\ flush' = flush)
  BY <1>3 DEF Step, Read, Sign, Confirmed, Fails, Hangs, Forget, flushVars, TypeOK
<1> QED
  BY <1>1, <1>2, <1>3, <1>4, <1>5, OwedUntouched

\* An edit, or a fetch that ends, of the rail or of another one: the effects
\* of the rails R run again.
LEMMA RemountOwed ==
    ASSUME TypeOK, TypeOK', RegistryInv', OwedKnown, NEW r \in Reliable, OwedOf(r),
           NEW R \in SUBSET Rails, NEW now \in [Rails -> Fetches], Remount(R, now),
           UNCHANGED <<sent, flush>>
    PROVE  OwedOf(r)'
<1>1. r \in Rails /\ Kind[r] \in {"own", "rearm"}
  BY LockAssumption DEF Reliable
<1>2. /\ during \in 0..(ExtraPasses + 1) /\ during' \in 0..(ExtraPasses + 1)
      /\ flush.extra \in 0..ExtraPasses /\ ExtraPasses \in Nat
      /\ sent[r] \in Nat /\ owed[r] \in Nat
  BY <1>1, LockAssumption DEF TypeOK
<1>3. during' >= during
  BY <1>2 DEF Remount
<1>4. CASE r \notin R
  BY <1>1, <1>2, <1>3, <1>4, OwedUntouched DEF Remount
<1>5. CASE r \in R /\ ~OpenWith(r, now[r])
  <2>1. owed'[r] = 0
    BY <1>1, <1>5 DEF Remount
  <2> QED
    BY <2>1, NothingOwedNext
<1>6. CASE r \in R /\ OpenWith(r, now[r])
  <2>1. owed'[r] = owed[r] /\ run'[r] = Withdrawn(r)
    BY <1>1, <1>6 DEF Remount
  <2>2. ASSUME sent[r] < owed[r], Kind[r] = "own" PROVE during' > flush.extra
    <3>1. owed[r] > 0
      BY <1>2, <2>2
    <3>2. flush.on
      BY <1>1, <3>1 DEF OwedKnown
    <3>3. during' = IF during <= ExtraPasses THEN during + 1 ELSE during
      BY <1>6, <3>2 DEF Remount
    <3>4. during >= flush.extra
      BY <2>2 DEF OwedOf
    <3> QED
      BY <1>2, <3>3, <3>4
  <2>3. CASE Kind[r] = "own"
    <3>1. sent[r] < owed[r] => during' >= flush.extra
      BY <1>2, <2>2, <2>3
    <3> QED
      BY <2>1, <2>2, <2>3, <3>1 DEF OwedOf, Delayed
  <2>4. CASE Kind[r] = "rearm"
    <3>1. ASSUME NEW i \in Slots
          PROVE  /\ run'[r][i].pc = run[r][i].pc
                 /\ run[r][i].pc # "free" => run'[r][i].version = run[r][i].version
      <4>1. PICK one \in Runs : one = run[r][i]
        BY <1>1 DEF TypeOK
      <4>2. [one EXCEPT !.mounted = FALSE].version = one.version
        BY DEF Runs
      <4>3. one.pc # "free" => Withdrawn(r)[i] = [one EXCEPT !.mounted = FALSE]
        BY <4>1 DEF Withdrawn
      <4>4. Withdrawn(r)[i].pc = run[r][i].pc
        BY <1>1, WithdrawnShape
      <4>5. one.pc # "free" => Withdrawn(r)[i].version = one.version
        BY <4>2, <4>3
      <4> QED
        BY <2>1, <4>1, <4>4, <4>5
    <3>2. \A i \in Slots : Sends(r, i)' <=> Sends(r, i)
      BY <2>1, <2>4, <3>1 DEF Sends, At
    <3> QED
      BY <2>1, <2>4, <3>1, <3>2 DEF OwedOf, OnItsWay, Delayed, At
  <2> QED
    BY <1>1, <2>3, <2>4
<1> QED
  BY <1>4, <1>5, <1>6

\* What starting entries does to the runs of a rail: it adds one that is to
\* read, in the effect that armed it, or leaves them as they are.
LEMMA StartShape ==
    ASSUME TypeOK, NEW r \in Rails, NEW S, NEW first, S # {} => HasSlot(r)
    PROVE  \A i \in Slots :
              \/ RunsAfter(r, S, first)[i] = run[r][i]
              \/ /\ At(r, i, "free")
                 /\ RunsAfter(r, S, first)[i].pc = "read"
                 /\ RunsAfter(r, S, first)[i].mounted = (first = "mounted")
<1>1. CASE RunsAfter(r, S, first) = run[r]
  BY <1>1
<1>2. CASE S # {} /\ RunsAfter(r, S, first) = [run[r] EXCEPT ![FreeSlot(r)] = NewRun(first, TRUE)]
  <2>1. FreeSlot(r) \in Slots /\ run[r][FreeSlot(r)].pc = "free"
    BY <1>2, FreeIsFree
  <2>2. \A i \in Slots : RunsAfter(r, S, first)[i] =
            IF i = FreeSlot(r) THEN NewRun(first, TRUE) ELSE run[r][i]
    BY <1>2 DEF TypeOK
  <2>3. NewRun(first, TRUE).pc = "read" /\ NewRun(first, TRUE).mounted = (first = "mounted")
    BY DEF NewRun
  <2> QED
    BY <2>1, <2>2, <2>3 DEF At
<1> QED
  BY <1>1, <1>2 DEF RunsAfter

\* A timer fires.
LEMMA FireOwed ==
    ASSUME TypeOK, NEW r \in Reliable, OwedOf(r), NEW q \in Rails, NEW entry \in Entries,
           Fire(q, entry)
    PROVE  OwedOf(r)'
<1>1. r \in Rails
  BY DEF Reliable
<1>2. UNCHANGED <<sent, flush, owed, during>>
  BY DEF Fire, flushVars
<1>3. CASE q # r
  <2>1. during \in Nat /\ run'[r] = run[r]
    BY <1>1, <1>3, LockAssumption DEF Fire, TypeOK
  <2> QED
    BY <1>1, <1>2, <2>1, OwedUntouched
<1>4. CASE q = r
  <2>1. \A i \in Slots : \/ run'[r][i] = run[r][i]
                         \/ At(r, i, "free") /\ run'[r][i].pc = "read"
    <3>1. run'[r] = RunsAfter(r, {entry}, entry) /\ HasSlot(r)
      BY <1>1, <1>4 DEF Fire, TypeOK
    <3> QED
      BY <1>1, <3>1, StartShape
  <2>2. ASSUME NEW i \in Slots, Sends(r, i) PROVE Sends(r, i)'
    BY <1>2, <2>1, <2>2 DEF Sends, At
  <2>3. ASSUME NEW i \in Slots, ~At(r, i, "free")', Kind[r] = "rearm"
        PROVE  Sends(r, i)' \/ (~At(r, i, "free") /\ run'[r][i] = run[r][i])
    BY <2>1, <2>3 DEF Sends, At
  <2> QED
    BY <1>2, <2>2, <2>3 DEF OwedOf, OnItsWay, Delayed
<1> QED
  BY <1>3, <1>4

\* A pass of the flush: it waits for every run there then is, and what is
\* owed is sent by one of them, unless an older run of a rail that re-arms is
\* in the way, which only the first pass can find.
LEMMA PassOwed ==
    ASSUME TypeOK, NEW r \in Reliable, Accounted(r)', NEW extra \in 0..ExtraPasses,
           FlushPass(extra), key, key' = key, edits' = edits, sent' = sent,
           owed'[r] \in Nat, owed'[r] <= edits[r], owed'[r] > 0 => Open(r)',
           Kind[r] = "rearm" => extra = 0 \/ (owed' = owed /\ flush.waits = {} /\ OwedOf(r)),
           sent[r] < owed'[r] /\ Kind[r] = "own" => during' >= extra
    PROVE  OwedOf(r)'
<1>1. r \in Rails /\ Kind[r] \in {"own", "rearm"}
  BY LockAssumption DEF Reliable
<1>2. edits[r] \in Nat /\ sent[r] \in Nat
  BY <1>1 DEF TypeOK
<1>3. PICK first \in [Rails -> Entries] :
          /\ \A q \in Rails : armed[q] # {} => first[q] \in armed[q] /\ HasSlot(q)
          /\ armed' = [q \in Rails |-> {}]
          /\ run' = [q \in Rails |-> RunsAfter(q, armed[q], first[q])]
          /\ flush' = [on |-> TRUE, extra |-> extra,
                       waits |-> {w \in Rails \X Slots : run'[w[1]][w[2]].registered}]
  BY DEF FlushPass
<1>4. flush'.extra = extra
  BY <1>3
<1>5. \A i \in Slots : ~At(r, i, "free")' => <<r, i>> \in flush'.waits
  BY <1>1, <1>3 DEF Accounted, At
<1>6. ASSUME sent[r] < owed'[r] PROVE (Delayed(r) \/ OnItsWay(r))'
  <2>1. Covered(r)'
    <3>1. owed'[r] > 0 /\ sent'[r] < edits'[r]
      BY <1>2, <1>6
    <3> QED
      BY <3>1 DEF Accounted
  <2>2. armed'[r] = {}
    BY <1>1, <1>3
  <2>3. CASE Kind[r] = "own"
    <3>1. PICK i \in Slots : Covers(r, i)'
      BY <2>1, <2>2, <2>3 DEF Covered
    <3>2. Sends(r, i)' /\ ~At(r, i, "free")'
      BY <1>2, <3>1 DEF Covers, Sends, At
    <3> QED
      BY <1>5, <3>2 DEF OnItsWay
  <2>4. CASE Kind[r] = "rearm" /\ extra # 0
    <3>1. PICK i \in Slots : ~At(r, i, "free")'
      BY <2>1, <2>2, <2>4 DEF Covered, Busy, Covers, At
    <3>2. \/ run'[r][i] = run[r][i]
          \/ run'[r][i].pc = "read"
      <4>1. run'[r] = RunsAfter(r, armed[r], first[r]) /\ (armed[r] # {} => HasSlot(r))
        BY <1>1, <1>3
      <4> QED
        BY <1>1, <4>1, StartShape
    <3>3. Sends(r, i)'
      <4>1. CASE run'[r][i].pc = "read"
        BY <2>4, <4>1 DEF Sends, At
      <4>2. CASE run'[r][i] = run[r][i]
        <5>1. ~At(r, i, "free") /\ <<r, i>> \notin flush.waits /\ owed' = owed /\ OwedOf(r)
          BY <2>4, <3>1, <4>2 DEF At
        <5>2. Sends(r, i)
          BY <2>4, <5>1 DEF OwedOf
        <5> QED
          BY <4>2, <5>1, <5>2 DEF Sends, At
      <4> QED
        BY <3>2, <4>1, <4>2
    <3> QED
      BY <1>5, <3>1, <3>3 DEF OnItsWay
  <2>5. CASE Kind[r] = "rearm" /\ extra = 0
    BY <1>4, <2>5 DEF Delayed
  <2> QED
    BY <1>1, <2>3, <2>4, <2>5
<1> QED
  BY <1>4, <1>5, <1>6 DEF OwedOf

LEMMA OwedNext ==
    ASSUME TypeOK, RegistryInv, RegistryInv', OwedInv, [Next]_vars, TypeOK'
    PROVE  OwedInv'
<1>1. OwedKnown /\ OwedKnown'
  BY OwedKnownKept DEF OwedInv
<1> SUFFICES ASSUME NEW r \in Reliable PROVE OwedOf(r)'
  BY <1>1 DEF OwedInv, Reliable
<1>2. /\ r \in Rails /\ OwedOf(r) /\ Accounted(r) /\ Accounted(r)'
      /\ edits[r] \in Nat /\ owed[r] \in Nat /\ sent[r] \in Nat /\ sent[r] <= edits[r]
  BY DEF OwedInv, RegistryInv, Reliable, TypeOK
<1>3. ASSUME NEW q \in Rails, Edit(q) PROVE OwedOf(r)'
  <2>1. PICK R \in SUBSET Rails, now \in [Rails -> Fetches] : Remount(R, now)
    BY <1>3, EditRemounts
  <2>2. UNCHANGED <<sent, flush>>
    BY <1>3 DEF Edit
  <2> QED
    BY <1>1, <1>2, <2>1, <2>2, RemountOwed
<1>4. ASSUME NEW q \in Rails, NEW entry \in Entries, Fire(q, entry) PROVE OwedOf(r)'
  BY <1>2, <1>4, FireOwed
<1>5. ASSUME NEW q \in Rails, NEW i \in Slots,
             Step(q, i) \/ Fails(q, i) \/ Hangs(q, i) \/ Forget(q, i)
      PROVE  OwedOf(r)'
  <2>1. CASE q = r
    BY <1>1, <1>2, <1>5, <2>1, RunStepOwed
  <2>2. CASE q # r
    BY <1>2, <1>5, <2>2, OtherRunOwed
  <2> QED
    BY <2>1, <2>2
<1>6. CASE DropKey
  <2>1. owed'[r] = 0
    BY <1>2, <1>6 DEF DropKey, NoneOwed
  <2> QED
    BY <2>1, NothingOwedNext DEF Reliable
<1>7. CASE StartFlush
  <2>1. /\ 0 \in 0..ExtraPasses /\ FlushPass(0) /\ during' = 0 /\ UNCHANGED fetch
        /\ owed'[r] = IF Open(r) THEN edits[r] ELSE 0
    BY <1>2, <1>7, LockAssumption DEF StartFlush
  <2>2. key /\ UNCHANGED <<key, edits, sent>>
    BY <1>7 DEF StartFlush
  <2>3. owed'[r] \in Nat /\ owed'[r] <= edits[r] /\ (owed'[r] > 0 => Open(r)')
    BY <1>2, <2>1 DEF Open
  <2> QED
    BY <1>2, <2>1, <2>2, <2>3, PassOwed
<1>8. CASE FlushAgain
  <2>1. /\ FlushPass(flush.extra + 1) /\ flush.waits = {} /\ flush.extra < ExtraPasses
        /\ UNCHANGED <<key, edits, sent, owed, during, fetch>>
    BY <1>8 DEF FlushAgain
  <2>2. flush.extra \in 0..ExtraPasses /\ during \in Nat
    BY DEF TypeOK
  <2>3. flush.extra + 1 \in 0..ExtraPasses
    BY <2>1, <2>2, LockAssumption
  <2>4. owed[r] <= edits[r] /\ (owed'[r] > 0 => Open(r)')
    BY <1>1, <1>2, <2>1 DEF OwedKnown, Open
  <2>5. ASSUME sent[r] < owed[r] PROVE key
    BY <1>1, <1>2, <2>5 DEF OwedKnown
  <2>6. sent[r] < owed[r] /\ Kind[r] = "own" => during >= flush.extra + 1
    <3>1. ~OnItsWay(r)
      BY <2>1 DEF OnItsWay
    <3> QED
      BY <1>2, <2>2, <3>1 DEF OwedOf, Delayed
  <2>7. CASE key
    BY <1>2, <2>1, <2>3, <2>4, <2>6, <2>7, PassOwed
  <2>8. CASE ~key
    <3>1. owed'[r] = 0
      BY <1>1, <1>2, <2>1, <2>8 DEF OwedKnown
    <3> QED
      BY <3>1, NothingOwedNext DEF Reliable
  <2> QED
    BY <2>7, <2>8
<1>9. CASE Unlock \/ (\E q \in Rails : Retry(q)) \/ UNCHANGED vars
  <2>1. UNCHANGED <<sent, run, flush, owed, during>> /\ during \in Nat
    BY <1>9, LockAssumption DEF Unlock, Retry, vars, railVars, flushVars, TypeOK
  <2> QED
    BY <1>2, <2>1, OwedUntouched
<1>10. ASSUME NEW q \in Rails, Fetched(q) \/ FetchFails(q) PROVE OwedOf(r)'
  <2>1. PICK came \in {"reached", "unreached"} : FetchEnds(q, came)
    BY <1>10 DEF Fetched, FetchFails
  <2>2. Remount({q}, [fetch EXCEPT ![q] = came]) /\ [fetch EXCEPT ![q] = came] \in [Rails -> Fetches]
    BY <2>1 DEF FetchEnds, TypeOK, Fetches
  <2>3. UNCHANGED <<sent, flush>> /\ {q} \in SUBSET Rails
    BY <2>1 DEF FetchEnds
  <2> QED
    BY <1>1, <1>2, <2>2, <2>3, RemountOwed
<1> QED
  BY <1>3, <1>4, <1>5, <1>6, <1>7, <1>8, <1>9, <1>10
  DEF Next, Timers, Reading, LockAtOnce, Locking, LockFlushed, LockAtCap, LockExpired

(* What a flush owes is known while it lasts, and each pass that does not   *)
(* bring it to a relay has an excuse.                                       *)
THEOREM OwedAccounted == Spec => []OwedInv
<1>1. Init => OwedInv
  <2> SUFFICES ASSUME Init PROVE OwedInv
    OBVIOUS
  <2>1. TypeOK /\ RegistryInv /\ \A r \in Rails : owed[r] = 0 /\ edits[r] = 0
    BY TypeInit, RegistryInit DEF Init, NoneOwed
  <2>2. \A r \in Reliable : OwedOf(r)
    BY <2>1, NothingOwed DEF RegistryInv, Reliable
  <2> QED
    BY <2>1, <2>2 DEF OwedInv, OwedKnown
<1>2. TypeOK /\ TypeOK' /\ RegistryInv /\ RegistryInv' /\ OwedInv /\ [Next]_vars => OwedInv'
  BY OwedNext
<1> QED
  BY <1>1, <1>2, LockTypeCorrect, RegistrySound, PTL DEF Spec

(* A lock that waited for its flush has on a relay what was owed when it    *)
(* was asked for by the rails then open and since left open, if no more     *)
(* edits and fetches came under it than there are extra passes: requestLock *)
(* of lock-after-flush.ts, which has two of them.                           *)
THEOREM OwedBeforeLockHolds ==
    ASSUME ExtraPasses > 0
    PROVE  Spec => OwedBeforeLock
<1>1. ASSUME TypeOK, RegistryInv, OwedInv, LockFlushed, key, during <= ExtraPasses,
             NEW r \in Reliable
      PROVE  sent[r] >= owed[r]
  <2>1. /\ r \in Rails /\ Kind[r] \in {"own", "rearm"} /\ OwedOf(r) /\ Accounted(r)
        /\ owed[r] <= edits[r] /\ (owed[r] > 0 => Open(r))
    BY <1>1, LockAssumption DEF OwedInv, OwedKnown, RegistryInv, Reliable
  <2>2. /\ sent[r] \in Nat /\ owed[r] \in Nat /\ edits[r] \in Nat /\ during \in Nat
        /\ flush.extra \in Nat /\ sent[r] <= edits[r]
    BY <1>1, <2>1 DEF TypeOK
  <2>3. CASE HasPending
    <3>1. flush.extra = ExtraPasses /\ flush.waits = {}
      BY <1>1, <2>3 DEF LockFlushed
    <3>2. ~OnItsWay(r)
      BY <3>1 DEF OnItsWay
    <3>3. ~Delayed(r)
      BY <1>1, <2>1, <2>2, <3>1, LockAssumption DEF Delayed
    <3>4. ~(sent[r] < owed[r])
      BY <2>1, <3>2, <3>3 DEF OwedOf
    <3> QED
      BY <2>2, <3>4
  <2>4. CASE ~HasPending
    <3>1. ~Registered(r)
      BY <2>1, <2>4 DEF HasPending
    <3>2. armed[r] = {} /\ \A i \in Slots : At(r, i, "free")
      BY <2>1, <3>1 DEF Registered, Accounted
    <3>3. ~Covered(r)
      BY <3>2 DEF Covered, Covers, Busy, At
    <3>4. owed[r] > 0 => ~(sent[r] < edits[r])
      BY <1>1, <2>1, <3>3 DEF Accounted
    <3> QED
      BY <2>1, <2>2, <3>4
  <2> QED
    BY <2>3, <2>4
<1>2. TypeOK /\ RegistryInv /\ OwedInv =>
          [LockFlushed /\ key /\ during <= ExtraPasses =>
              \A r \in Reliable : sent[r] >= owed[r]]_vars
  BY <1>1
<1> QED
  BY <1>2, LockTypeCorrect, RegistrySound, OwedAccounted, PTL DEF OwedBeforeLock
=============================================================================
