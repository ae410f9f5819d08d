------------------------ MODULE CheckpointChunks_proofs ---------------------
(***************************************************************************)
(* Proofs about CheckpointChunks: types, and that readers take a checkpoint *)
(* whole, for any devices, operations, chunk size and bounds.              *)
(***************************************************************************)
EXTENDS CheckpointChunks, FiniteSetTheorems, TLAPS

-----------------------------------------------------------------------------
(* Arithmetic: a larger set needs at least as many chunks.                 *)

\* What the quotient of a division is.
LEMMA DivBounds ==
    ASSUME NEW x \in Nat, NEW k \in Nat \ {0}
    PROVE  x \div k \in Nat /\ k * (x \div k) <= x /\ x < k * (x \div k) + k
BY SMT

\* Multiplying keeps a gap of one factor.
LEMMA TimesGap ==
    ASSUME NEW k \in Nat \ {0}, NEW p \in Nat, NEW q \in Nat, p > q
    PROVE  k * p >= k * q + k
BY SMT

\* Division by the chunk size is monotone.
LEMMA DivMonotone ==
    ASSUME NEW x \in Nat, NEW y \in Nat, NEW k \in Nat \ {0}, x <= y
    PROVE  x \div k <= y \div k
<1> DEFINE p == x \div k
           q == y \div k
<1>1. p \in Nat /\ q \in Nat /\ k * p <= x /\ y < k * q + k
  BY DivBounds
<1>2. p > q => k * p >= k * q + k
  BY <1>1, TimesGap
<1>3. k * p \in Nat /\ k * q \in Nat
  BY <1>1
<1> HIDE DEF p, q
<1>4. p <= q
  BY <1>1, <1>2, <1>3
<1> QED
  BY <1>4 DEF p, q

\* No checkpoint has more chunks than all operations together would need.
LEMMA ChunksBounded ==
    ASSUME NEW S \in SUBSET Ops
    PROVE  NumChunks(S) \in Nat /\ NumChunks(S) <= NumChunks(Ops)
<1>1. IsFiniteSet(S) /\ Cardinality(S) <= Cardinality(Ops)
  BY ChunksAssumption, FS_Subset
<1>2. Cardinality(S) \in Nat /\ Cardinality(Ops) \in Nat
  BY <1>1, ChunksAssumption, FS_CardinalityType
<1> DEFINE x == Cardinality(S) + ChunkOps - 1
           y == Cardinality(Ops) + ChunkOps - 1
<1>3. x \in Nat /\ y \in Nat /\ x <= y
  BY <1>1, <1>2, ChunksAssumption
<1> HIDE DEF x, y
<1>4. x \div ChunkOps \in Nat /\ x \div ChunkOps <= y \div ChunkOps
  BY <1>3, ChunksAssumption, DivBounds, DivMonotone
<1> QED
  BY <1>4 DEF x, y, NumChunks

\* The empty set fits one envelope.
LEMMA NothingFits == ~Chunked({})
BY ChunksAssumption, FS_EmptySet DEF Chunked

\* A chunk holds operations of its checkpoint.
LEMMA ChunkTyped == ASSUME NEW S \in SUBSET Ops, NEW i PROVE ChunkOf(S, i) \in SUBSET Ops
BY DEF ChunkOf

-----------------------------------------------------------------------------
(* Types.                                                                  *)

\* What a device records when it adopts or refuses a checkpoint is well typed.
LEMMA AdoptTyped ==
    ASSUME TypeOK, NEW d \in Devices, NEW c \in Checkpoints \cup {Nothing}, Adopt(d, c)
    PROVE  /\ log' \in [Devices -> SUBSET Ops] /\ seen' \in [Devices -> 0..MaxSeq]
           /\ ref' \in [Devices -> Refs] /\ high' \in [Devices -> 0..MaxSeq]
           /\ job' \in [Devices -> Jobs]
<1> USE DEF TypeOK, Checkpoints, Nothing
<1>1. c.ops \in SUBSET Ops /\ c.seq \in 0..MaxSeq
  BY ChunksAssumption
<1>2. log' \in [Devices -> SUBSET Ops] /\ seen' \in [Devices -> 0..MaxSeq]
  BY <1>1 DEF Adopt
<1>3. ref' \in [Devices -> Refs]
  BY <1>1, ChunksAssumption DEF Adopt, Refs, NoRef
<1>4. high' \in [Devices -> 0..MaxSeq]
  BY <1>1 DEF Adopt, MaxOf
<1>5. Job("ready") \in Jobs
  BY ChunksBounded, ChunksAssumption DEF Job, Jobs
<1>6. job' \in [Devices -> Jobs]
  BY <1>5 DEF Adopt
<1> QED
  BY <1>2, <1>3, <1>4, <1>6

LEMMA RefuseTyped ==
    ASSUME TypeOK, NEW d \in Devices, NEW state \in {"absent", "unusable"}, Refuse(d, state)
    PROVE  /\ log' \in [Devices -> SUBSET Ops] /\ seen' \in [Devices -> 0..MaxSeq]
           /\ ref' \in [Devices -> Refs] /\ high' \in [Devices -> 0..MaxSeq]
           /\ job' \in [Devices -> Jobs]
<1> USE DEF TypeOK
<1>1. ref' \in [Devices -> Refs]
  BY ChunksAssumption DEF Refuse, Refs, NoRef
<1>2. Job("ready") \in Jobs
  BY ChunksBounded, ChunksAssumption DEF Job, Jobs, Nothing
<1>3. job' \in [Devices -> Jobs]
  BY <1>2 DEF Refuse
<1> QED
  BY <1>1, <1>3 DEF Refuse, MaxOf

\* The next sequence is in the bounds, and the number of chunks of a job is.
LEMMA JobTyped ==
    ASSUME TypeOK, NEW d \in Devices
    PROVE  /\ job[d].pc \in {"closed", "ready", "reading", "writing"}
           /\ job[d].checkpoint \in Checkpoints \cup {Nothing}
           /\ job[d].checkpoint.ops \in SUBSET Ops
           /\ job[d].next \in Nat
           /\ NumChunks(job[d].checkpoint.ops) \in Nat
           /\ NumChunks(job[d].checkpoint.ops) <= NumChunks(Ops)
           /\ NumChunks(Ops) \in Nat
<1>1. job[d] \in Jobs
  BY DEF TypeOK
<1>2. job[d].checkpoint.ops \in SUBSET Ops
  BY <1>1 DEF Jobs, Checkpoints, Nothing
<1> QED
  BY <1>1, <1>2, ChunksBounded DEF Jobs

LEMMA TypeInvariant == (Init => TypeOK) /\ (TypeOK /\ [Next]_vars => TypeOK')
<1>1. Init => TypeOK
  <2> SUFFICES ASSUME Init PROVE TypeOK
    OBVIOUS
  <2>1. Job("closed") \in Jobs
    BY ChunksBounded DEF Job, Jobs, Nothing
  <2>2. NoRef \in Refs
    BY ChunksAssumption DEF NoRef, Refs
  <2> QED
    BY <2>1, <2>2, ChunksAssumption DEF Init, TypeOK
<1>2. TypeOK /\ [Next]_vars => TypeOK'
  <2> SUFFICES ASSUME TypeOK, [Next]_vars PROVE TypeOK'
    OBVIOUS
  <2>1. CASE UNCHANGED vars
    BY <2>1 DEF vars, TypeOK
  <2>2. ASSUME NEW d \in Devices, Learn(d) PROVE TypeOK'
    BY <2>2 DEF Learn, TypeOK
  <2>3. ASSUME NEW d \in Devices, Fetch(d) PROVE TypeOK'
    <3>1. CASE Refuse(d, "absent")
      BY <3>1, <2>3, RefuseTyped DEF Fetch, TypeOK
    <3>2. CASE Adopt(d, top)
      BY <3>2, <2>3, AdoptTyped DEF Fetch, TypeOK
    <3>3. CASE job' = [job EXCEPT ![d] = [pc |-> "reading", checkpoint |-> top, next |-> 0]]
                  /\ UNCHANGED <<log, seen, ref, high>>
      <4>1. [pc |-> "reading", checkpoint |-> top, next |-> 0] \in Jobs
        BY ChunksBounded DEF TypeOK, Jobs
      <4> QED
        BY <4>1, <3>3, <2>3 DEF Fetch, TypeOK
    <3> QED
      BY <2>3, <3>1, <3>2, <3>3 DEF Fetch
  <2>4. ASSUME NEW d \in Devices, ReadChunk(d) PROVE TypeOK'
    <3>1. CASE Refuse(d, "unusable")
      BY <3>1, <2>4, RefuseTyped DEF ReadChunk, TypeOK
    <3>2. CASE Adopt(d, job[d].checkpoint)
      BY <3>2, <2>4, AdoptTyped, JobTyped DEF ReadChunk, TypeOK
    <3>3. CASE /\ job[d].next + 1 < NumChunks(job[d].checkpoint.ops)
               /\ job' = [job EXCEPT ![d].next = job[d].next + 1]
               /\ UNCHANGED <<log, seen, ref, high>>
      <4>1. job[d].next + 1 \in 0..NumChunks(Ops)
        BY <3>3, JobTyped
      <4>2. job' \in [Devices -> Jobs]
        BY <4>1, <3>3 DEF TypeOK, Jobs
      <4> QED
        BY <4>2, <3>3, <2>4 DEF ReadChunk, TypeOK
    <3> QED
      BY <2>4, <3>1, <3>2, <3>3 DEF ReadChunk
  <2>5. ASSUME NEW d \in Devices, Begin(d) PROVE TypeOK'
    <3> DEFINE c == [seq |-> MaxOf(ref[d].seq, high[d]) + 1, ops |-> log[d]]
    <3>1. MaxOf(ref[d].seq, high[d]) \in Nat
      BY DEF TypeOK, Refs, MaxOf
    <3>2. c \in Checkpoints
      BY <3>1, <2>5 DEF Begin, TypeOK, Checkpoints
    <3>3. [pc |-> "writing", checkpoint |-> c, next |-> 0] \in Jobs
      BY <3>2, ChunksBounded DEF Jobs
    <3>4. job' \in [Devices -> Jobs] /\ attempts' \subseteq Devices \X Checkpoints
      BY <3>2, <3>3, <2>5 DEF Begin, TypeOK
    <3> QED
      BY <3>4, <2>5 DEF Begin, TypeOK
  <2>6. ASSUME NEW d \in Devices, SendChunk(d) PROVE TypeOK'
    <3> DEFINE c == job[d].checkpoint
               i == job[d].next
    <3>1. i + 1 \in 0..NumChunks(Ops)
      BY <2>6, JobTyped DEF SendChunk, ChunksLeft
    <3>2. chunk' \in [ChunkTags -> SUBSET Ops]
      <4>1. ChunkOf(c.ops, i) \in SUBSET Ops
        BY JobTyped, ChunkTyped
      <4> QED
        BY <4>1, <2>6 DEF SendChunk, TypeOK
    <3>3. Job("ready") \in Jobs /\ [job[d] EXCEPT !.next = i + 1] \in Jobs
      BY <3>1, JobTyped DEF TypeOK, Jobs, Job
    <3>4. job' \in [Devices -> Jobs]
      BY <3>3, <2>6 DEF SendChunk, TypeOK
    <3> QED
      BY <3>2, <3>4, <2>6 DEF SendChunk, TypeOK
  <2>7. ASSUME NEW d \in Devices, SendTop(d) PROVE TypeOK'
    <3> DEFINE c == job[d].checkpoint
    <3>1. c \in Checkpoints \cup {Nothing} /\ c.seq \in 0..MaxSeq /\ c.ops \in SUBSET Ops
      BY JobTyped, ChunksAssumption DEF Checkpoints, Nothing
    <3>2. Job("ready") \in Jobs
      BY ChunksBounded DEF Job, Jobs
    <3>3. ref' \in [Devices -> Refs]
      BY <3>1, <2>7 DEF SendTop, TypeOK, Refs
    <3>4. top' \in Checkpoints \cup {Nothing} /\ high' \in [Devices -> 0..MaxSeq]
          /\ job' \in [Devices -> Jobs]
      BY <3>1, <3>2, <2>7 DEF SendTop, TypeOK
    <3> QED
      BY <3>3, <3>4, <2>7 DEF SendTop, TypeOK
  <2>8. ASSUME NEW d \in Devices, Restart(d) PROVE TypeOK'
    <3>1. Job("closed") \in Jobs
      BY ChunksBounded DEF Job, Jobs
    <3>2. NoRef \in Refs
      BY ChunksAssumption DEF NoRef, Refs
    <3> QED
      BY <3>1, <3>2, <2>8, ChunksAssumption DEF Restart, TypeOK
  <2> QED
    BY <2>1, <2>2, <2>3, <2>4, <2>5, <2>6, <2>7, <2>8 DEF Next
<1> QED
  BY <1>1, <1>2

\* Every reachable state is well typed, for any devices, operations and bounds.
THEOREM TypeCorrect == Spec => []TypeOK
BY TypeInvariant, PTL DEF Spec

-----------------------------------------------------------------------------
(* A checkpoint that was begun stays begun, and its chunks stay in place    *)
(* while no other checkpoint is begun at its sequence.                      *)

LEMMA BegunKept ==
    ASSUME [Next]_vars
    PROVE  attempts \subseteq attempts'
BY DEF Next, vars, Learn, Fetch, ReadChunk, Begin, SendChunk, SendTop, Restart

LEMMA SoleEarlier ==
    ASSUME [Next]_vars, NEW c
    PROVE  Sole(c)' => Sole(c)
BY BegunKept DEF Sole

\* Chunks change only when one is sent, and a chunk sent at the sequence of a
\* sole checkpoint is a chunk of that checkpoint.
LEMMA WrittenKept ==
    ASSUME TypeOK, Sourced, [Next]_vars,
           NEW c \in Checkpoints, Begun(c), Sole(c)',
           NEW n \in Nat, n <= NumChunks(c.ops), Written(c, n)
    PROVE  Written(c, n)'
<1>1. CASE UNCHANGED chunk
  BY <1>1 DEF Written
<1>2. ASSUME NEW d \in Devices, SendChunk(d) PROVE Written(c, n)'
  <2> DEFINE b == job[d].checkpoint
             i == job[d].next
  <2>1. b \in Checkpoints /\ Begun(b)
    BY <1>2 DEF SendChunk, Sourced, Begun, TypeOK
  <2>2. Sole(c)
    BY SoleEarlier
  <2>3. b.seq = c.seq => b = c
    BY <2>1, <2>2 DEF Sole, Begun
  <2>4. \/ chunk' = chunk
        \/ chunk' = [chunk EXCEPT ![<<b.seq, i>>] = ChunkOf(b.ops, i)]
    BY <1>2 DEF SendChunk
  <2>5. ASSUME NEW j \in 0..(n - 1) PROVE chunk'[<<c.seq, j>>] = ChunkOf(c.ops, j)
    <3>0. <<c.seq, j>> \in ChunkTags
      BY ChunksBounded DEF Checkpoints, ChunkTags, Indices
    <3>1. chunk[<<c.seq, j>>] = ChunkOf(c.ops, j)
      BY DEF Written
    <3>2. CASE chunk' = chunk
      BY <3>1, <3>2
    <3>3. CASE chunk' = [chunk EXCEPT ![<<b.seq, i>>] = ChunkOf(b.ops, i)]
      <4>1. CASE <<b.seq, i>> = <<c.seq, j>>
        <5>1. ChunkOf(b.ops, i) = ChunkOf(c.ops, j)
          BY <4>1, <2>3
        <5>2. chunk'[<<c.seq, j>>] = chunk[<<c.seq, j>>] \/ chunk'[<<c.seq, j>>] = ChunkOf(b.ops, i)
          BY <3>0, <3>3, <4>1 DEF TypeOK
        <5> QED
          BY <5>1, <5>2, <3>1
      <4>2. CASE <<b.seq, i>> # <<c.seq, j>>
        <5>1. chunk'[<<c.seq, j>>] = chunk[<<c.seq, j>>]
          BY <3>3, <4>2, <3>0 DEF TypeOK
        <5> QED
          BY <5>1, <3>1
      <4> QED
        BY <4>1, <4>2
    <3> QED
      BY <2>4, <3>2, <3>3
  <2> QED
    BY <2>5 DEF Written
<1>3. UNCHANGED chunk \/ \E d \in Devices : SendChunk(d)
  BY DEF Next, vars, Learn, Fetch, ReadChunk, Begin, SendTop, Restart
<1> QED
  BY <1>1, <1>2, <1>3

\* The same for every device's publish: what it has sent so far stays.
LEMMA BackedKept ==
    ASSUME TypeOK, Sourced, Backed, [Next]_vars,
           NEW e \in Devices, job[e].pc = "writing", job'[e] = job[e]
    PROVE  /\ job'[e].next <= NumChunks(job'[e].checkpoint.ops)
           /\ Sole(job[e].checkpoint)' => Written(job[e].checkpoint, job[e].next)'
<1>1. PICK c \in Checkpoints : c = job[e].checkpoint /\ Begun(c)
  BY DEF Sourced, Begun, TypeOK
<1>2. PICK n \in Nat : n = job[e].next /\ n <= NumChunks(c.ops)
  BY <1>1, JobTyped DEF Backed
<1>3. Sole(c)' => Written(c, n)'
  <2> SUFFICES ASSUME Sole(c)' PROVE Written(c, n)'
    OBVIOUS
  <2>1. Sole(c)
    BY SoleEarlier
  <2>2. Written(c, n)
    BY <2>1, <1>1, <1>2 DEF Backed
  <2> QED
    BY <2>2, <1>1, <1>2, WrittenKept
<1>4. job'[e].checkpoint = c /\ job'[e].next = n
  BY <1>1, <1>2
<1> QED
  BY <1>2, <1>3, <1>4

-----------------------------------------------------------------------------
(* The invariant.                                                          *)

\* Adopting a checkpoint that was begun keeps what is adopted whole.
LEMMA AdoptWhole ==
    ASSUME TypeOK, WholeOrNothing, attempts \subseteq attempts', NEW d \in Devices,
           NEW c \in Checkpoints, Begun(c), Adopt(d, c)
    PROVE  WholeOrNothing'
<1>1. c = [seq |-> c.seq, ops |-> c.ops]
  BY DEF Checkpoints
<1>2. \E e \in Devices : <<e, c>> \in attempts'
  BY DEF Begun
<1>3. ASSUME NEW e \in Devices, ref'[e].state = "present"
      PROVE  \E f \in Devices : <<f, [seq |-> ref'[e].seq, ops |-> ref'[e].ops]>> \in attempts'
  <2>1. CASE e = d /\ ref' = [ref EXCEPT ![d] = [state |-> "present", seq |-> c.seq, ops |-> c.ops]]
    <3>1. ref'[e].seq = c.seq /\ ref'[e].ops = c.ops
      BY <2>1 DEF TypeOK
    <3> QED
      BY <3>1, <1>1, <1>2
  <2>2. CASE e # d
    <3>1. ref'[e] = ref[e]
      BY <2>2 DEF Adopt, TypeOK
    <3> QED
      BY <3>1, <1>3 DEF WholeOrNothing, Begun
  <2>3. CASE e = d /\ ref' = [ref EXCEPT ![d] = [NoRef EXCEPT !.state = "unusable"]]
    BY <2>3, <1>3 DEF NoRef, TypeOK
  <2> QED
    BY <2>1, <2>2, <2>3 DEF Adopt
<1> QED
  BY <1>3 DEF WholeOrNothing, Begun

LEMMA RefuseWhole ==
    ASSUME TypeOK, WholeOrNothing, attempts \subseteq attempts', NEW d \in Devices,
           NEW state \in {"absent", "unusable"}, Refuse(d, state)
    PROVE  WholeOrNothing'
BY DEF Refuse, NoRef, TypeOK, WholeOrNothing, Begun

\* A step of one device's job keeps Sourced, if that job was begun.
LEMMA JobSourced ==
    ASSUME Sourced, attempts \subseteq attempts', top' = top, NEW d \in Devices,
           \A e \in Devices : e # d => job'[e] = job[e],
           \/ job'[d].pc \in {"ready", "closed"}
           \/ \E e \in Devices : <<e, job'[d].checkpoint>> \in attempts'
    PROVE  Sourced'
<1>1. ASSUME NEW e \in Devices, job'[e].pc \in {"reading", "writing"}
      PROVE  \E f \in Devices : <<f, job'[e].checkpoint>> \in attempts'
  <2>1. CASE e = d
    BY <2>1, <1>1
  <2>2. CASE e # d
    <3>1. job'[e] = job[e]
      BY <2>2
    <3> QED
      BY <3>1, <1>1 DEF Sourced, Begun
  <2> QED
    BY <2>1, <2>2
<1>2. top' = Nothing \/ \E f \in Devices : <<f, top'>> \in attempts'
  BY DEF Sourced, Begun
<1> QED
  BY <1>1, <1>2 DEF Sourced, Begun

\* What is on the relay, under way or adopted was begun by some device.
LEMMA SourcedNext ==
    ASSUME TypeOK, Sourced, WholeOrNothing, [Next]_vars
    PROVE  Sourced' /\ WholeOrNothing'
<1>0. attempts \subseteq attempts'
  BY BegunKept
<1>1. CASE UNCHANGED vars
  BY <1>1 DEF vars, Sourced, WholeOrNothing, Begun
<1>2. ASSUME NEW d \in Devices, Learn(d) PROVE Sourced' /\ WholeOrNothing'
  BY <1>2 DEF Learn, Sourced, WholeOrNothing, Begun
<1>3. ASSUME NEW d \in Devices, Fetch(d) PROVE Sourced' /\ WholeOrNothing'
  <2>1. Sourced'
    <3>1. \A e \in Devices : e # d => job'[e] = job[e]
      BY <1>3 DEF Fetch, Adopt, Refuse, TypeOK
    <3>2. \/ job'[d].pc \in {"ready", "closed"}
          \/ \E e \in Devices : <<e, job'[d].checkpoint>> \in attempts'
      <4>1. CASE \E c : Adopt(d, c) \/ \E state : Refuse(d, state)
        BY <4>1 DEF Adopt, Refuse, Job, TypeOK
      <4>2. CASE top # Nothing /\ job' = [job EXCEPT ![d] = [pc |-> "reading", checkpoint |-> top, next |-> 0]]
        <5>1. job'[d].checkpoint = top /\ Begun(top)
          BY <4>2 DEF TypeOK, Sourced
        <5> QED
          BY <5>1, <1>0 DEF Begun
      <4> QED
        BY <1>3, <4>1, <4>2 DEF Fetch
    <3>3. top' = top
      BY <1>3 DEF Fetch
    <3> QED
      BY <3>1, <3>2, <3>3, <1>0, JobSourced
  <2>2. CASE Refuse(d, "absent")
    BY <2>1, <2>2, <1>0, RefuseWhole
  <2>3. CASE top # Nothing /\ Adopt(d, top)
    <3>1. top \in Checkpoints /\ Begun(top)
      BY <2>3 DEF TypeOK, Sourced
    <3> QED
      BY <3>1, <2>1, <2>3, <1>0, AdoptWhole
  <2>4. CASE UNCHANGED ref
    BY <2>1, <2>4, <1>0 DEF WholeOrNothing, Begun
  <2> QED
    BY <1>3, <2>2, <2>3, <2>4 DEF Fetch
<1>4. ASSUME NEW d \in Devices, ReadChunk(d) PROVE Sourced' /\ WholeOrNothing'
  <2>1. Sourced'
    <3>1. \A e \in Devices : e # d => job'[e] = job[e]
      BY <1>4 DEF ReadChunk, Adopt, Refuse, TypeOK
    <3>2. \/ job'[d].pc \in {"ready", "closed"}
          \/ \E e \in Devices : <<e, job'[d].checkpoint>> \in attempts'
      <4>1. CASE \E c : Adopt(d, c) \/ \E state : Refuse(d, state)
        BY <4>1 DEF Adopt, Refuse, Job, TypeOK
      <4>2. CASE job' = [job EXCEPT ![d].next = job[d].next + 1]
        <5>1. job'[d].checkpoint = job[d].checkpoint /\ Begun(job[d].checkpoint)
          BY <4>2, <1>4 DEF ReadChunk, TypeOK, Jobs, Sourced
        <5> QED
          BY <5>1, <1>0 DEF Begun
      <4> QED
        BY <1>4, <4>1, <4>2 DEF ReadChunk
    <3>3. top' = top
      BY <1>4 DEF ReadChunk
    <3> QED
      BY <3>1, <3>2, <3>3, <1>0, JobSourced
  <2>2. CASE Refuse(d, "unusable")
    BY <2>1, <2>2, <1>0, RefuseWhole
  <2>3. CASE Adopt(d, job[d].checkpoint)
    <3>1. job[d].checkpoint \in Checkpoints /\ Begun(job[d].checkpoint)
      BY <1>4 DEF ReadChunk, TypeOK, Sourced, Begun
    <3> QED
      BY <3>1, <2>1, <2>3, <1>0, AdoptWhole
  <2>4. CASE UNCHANGED ref
    BY <2>1, <2>4, <1>0 DEF WholeOrNothing, Begun
  <2> QED
    BY <1>4, <2>2, <2>3, <2>4 DEF ReadChunk
<1>5. ASSUME NEW d \in Devices, Begin(d) PROVE Sourced' /\ WholeOrNothing'
  <2>1. \A e \in Devices : job'[e].pc \in {"reading", "writing"} => Begun(job[e].checkpoint)'
    BY <1>5 DEF Begin, Sourced, Begun, TypeOK
  <2> QED
    BY <2>1, <1>5, <1>0 DEF Begin, Sourced, WholeOrNothing, Begun
<1>6. ASSUME NEW d \in Devices, SendChunk(d) PROVE Sourced' /\ WholeOrNothing'
  <2>1. \A e \in Devices : e # d => job'[e] = job[e]
    BY <1>6 DEF SendChunk, TypeOK
  <2>2. job[d].pc = "writing" /\ Begun(job[d].checkpoint)
    BY <1>6 DEF SendChunk, Sourced
  <2>3. job'[d].pc = "ready" \/ job'[d].checkpoint = job[d].checkpoint
    BY <1>6 DEF SendChunk, Job, TypeOK, Jobs
  <2>4. Sourced'
    BY <2>1, <2>2, <2>3, <1>6, JobSourced DEF SendChunk, Begun
  <2> QED
    BY <2>4, <1>6 DEF SendChunk, WholeOrNothing, Begun
<1>7. ASSUME NEW d \in Devices, SendTop(d) PROVE Sourced' /\ WholeOrNothing'
  <2> DEFINE c == job[d].checkpoint
  <2>1. c \in Checkpoints /\ Begun(c) /\ c = [seq |-> c.seq, ops |-> c.ops]
    BY <1>7 DEF SendTop, Sourced, Begun, TypeOK, Checkpoints
  <2>2. Sourced'
    BY <2>1, <1>7 DEF SendTop, Job, Sourced, Begun, TypeOK
  <2>3. WholeOrNothing'
    <3>1. \E e \in Devices : <<e, [seq |-> c.seq, ops |-> c.ops]>> \in attempts
      BY <2>1 DEF Begun
    <3>2. UNCHANGED attempts
      BY <1>7 DEF SendTop
    <3>3. \/ ref' = ref
          \/ ref' = [ref EXCEPT ![d] = [state |-> "present", seq |-> c.seq, ops |-> c.ops]]
      BY <1>7 DEF SendTop
    <3>4. ASSUME NEW e \in Devices, ref'[e].state = "present"
          PROVE  \E f \in Devices : <<f, [seq |-> ref'[e].seq, ops |-> ref'[e].ops]>> \in attempts
      <4>1. CASE ref'[e] = ref[e]
        BY <4>1, <3>4 DEF WholeOrNothing, Begun
      <4>2. CASE ref'[e] = [state |-> "present", seq |-> c.seq, ops |-> c.ops]
        BY <4>2, <3>1
      <4>3. ref'[e] = ref[e] \/ ref'[e] = [state |-> "present", seq |-> c.seq, ops |-> c.ops]
        BY <3>3 DEF TypeOK
      <4> QED
        BY <4>1, <4>2, <4>3
    <3> QED
      BY <3>2, <3>4 DEF WholeOrNothing, Begun
  <2> QED
    BY <2>2, <2>3
<1>8. ASSUME NEW d \in Devices, Restart(d) PROVE Sourced' /\ WholeOrNothing'
  BY <1>8 DEF Restart, Job, NoRef, Sourced, WholeOrNothing, Begun, TypeOK
<1> QED
  BY <1>1, <1>2, <1>3, <1>4, <1>5, <1>6, <1>7, <1>8 DEF Next

\* One device takes a step, the others' publishes stay as they are: it is
\* enough to look at that device.
LEMMA JobBacked ==
    ASSUME TypeOK, Sourced, Backed, [Next]_vars, NEW d \in Devices,
           \A e \in Devices : e # d => job'[e] = job[e],
           job'[d].pc = "writing" =>
               /\ job'[d].next <= NumChunks(job'[d].checkpoint.ops)
               /\ Sole(job[d].checkpoint)' => Written(job[d].checkpoint, job[d].next)'
    PROVE  Backed'
<1>1. ASSUME NEW e \in Devices, e # d, job'[e].pc = "writing"
      PROVE  /\ job'[e].next <= NumChunks(job'[e].checkpoint.ops)
             /\ Sole(job[e].checkpoint)' => Written(job[e].checkpoint, job[e].next)'
  <2>1. job'[e] = job[e]
    BY <1>1
  <2> QED
    BY <2>1, <1>1, BackedKept
<1> QED
  BY <1>1 DEF Backed

\* The checkpoint on the relay stays intact while it stays there.
LEMMA IntactKept ==
    ASSUME TypeOK, Sourced, IntactUnlessReused, [Next]_vars, UNCHANGED top
    PROVE  IntactUnlessReused'
<1> SUFFICES ASSUME Sole(top)', Chunked(top.ops)
             PROVE  Written(top, NumChunks(top.ops))'
  BY DEF IntactUnlessReused, Intact
<1>0. top # Nothing
  <2>1. ~Chunked(Nothing.ops)
    BY NothingFits DEF Nothing
  <2> QED
    BY <2>1
<1>1. PICK c \in Checkpoints : c = top /\ Begun(c)
  BY <1>0 DEF Sourced, TypeOK
<1>2. Sole(c)' /\ Sole(c)
  BY <1>1, SoleEarlier
<1>3. Written(c, NumChunks(c.ops))
  BY <1>1, <1>2 DEF IntactUnlessReused, Intact
<1>4. NumChunks(c.ops) \in Nat /\ NumChunks(c.ops) <= NumChunks(c.ops)
  BY ChunksBounded DEF Checkpoints
<1>5. Written(c, NumChunks(c.ops))'
  BY <1>1, <1>2, <1>3, <1>4, WrittenKept
<1> QED
  BY <1>1, <1>5

\* Chunks first, the manifest last: what is sent so far is in place, and with
\* the manifest all of it is.
LEMMA BackedNext ==
    ASSUME TypeOK, Sourced, Backed, IntactUnlessReused, [Next]_vars
    PROVE  Backed' /\ IntactUnlessReused'
<1>1. CASE UNCHANGED vars
  BY <1>1 DEF vars, Backed, IntactUnlessReused, Intact, Sole, Written
<1>2. ASSUME NEW d \in Devices,
             Learn(d) \/ Fetch(d) \/ ReadChunk(d) \/ Restart(d)
      PROVE  Backed' /\ IntactUnlessReused'
  <2>1. UNCHANGED top
    BY <1>2 DEF Learn, Fetch, ReadChunk, Restart
  <2>2. CASE UNCHANGED job
    <3>1. \A e \in Devices : job'[e] = job[e]
      BY <2>2
    <3> QED
      BY <2>1, <3>1, IntactKept, BackedKept DEF Backed
  <2>3. CASE ~(UNCHANGED job)
    <3>1. \A e \in Devices : e # d => job'[e] = job[e]
      BY <2>3, <1>2 DEF Learn, Fetch, ReadChunk, Restart, Adopt, Refuse, TypeOK
    <3>2. job'[d].pc # "writing"
      BY <2>3, <1>2 DEF Learn, Fetch, ReadChunk, Restart, Adopt, Refuse, Job, TypeOK, Jobs
    <3> QED
      BY <2>1, <3>1, <3>2, JobBacked, IntactKept
  <2> QED
    BY <2>2, <2>3
<1>3. ASSUME NEW d \in Devices, Begin(d) PROVE Backed' /\ IntactUnlessReused'
  <2> DEFINE c == [seq |-> MaxOf(ref[d].seq, high[d]) + 1, ops |-> log[d]]
  <2>1. \A e \in Devices : e # d => job'[e] = job[e]
    BY <1>3 DEF Begin, TypeOK
  <2>2. job'[d].next = 0 /\ job'[d].checkpoint.ops = log[d] /\ log[d] \in SUBSET Ops
    BY <1>3 DEF Begin, TypeOK
  <2>3. job'[d].next <= NumChunks(job'[d].checkpoint.ops)
    BY <2>2, ChunksBounded
  <2>4. Written(job[d].checkpoint, job[d].next)'
    BY <2>2 DEF Written
  <2> QED
    BY <2>1, <2>3, <2>4, <1>3, JobBacked, IntactKept DEF Begin
<1>4. ASSUME NEW d \in Devices, SendChunk(d) PROVE Backed' /\ IntactUnlessReused'
  <2>1. PICK c \in Checkpoints : c = job[d].checkpoint /\ Begun(c)
    BY <1>4 DEF SendChunk, Sourced, Begun, TypeOK
  <2>2. PICK n \in Nat : n = job[d].next /\ n < NumChunks(c.ops)
    BY <2>1, <1>4, JobTyped DEF SendChunk, ChunksLeft
  <2>3. \A e \in Devices : e # d => job'[e] = job[e]
    BY <1>4 DEF SendChunk, TypeOK
  <2>4. ASSUME job'[d].pc = "writing"
        PROVE  /\ job'[d].next <= NumChunks(job'[d].checkpoint.ops)
               /\ Sole(job[d].checkpoint)' => Written(job[d].checkpoint, job[d].next)'
    <3>1. /\ chunk' = [chunk EXCEPT ![<<c.seq, n>>] = ChunkOf(c.ops, n)]
          /\ job' = [job EXCEPT ![d] = [job[d] EXCEPT !.next = n + 1]]
      <4>1. PICK stored \in BOOLEAN, confirmed \in BOOLEAN :
              /\ confirmed => stored
              /\ chunk' = IF stored THEN [chunk EXCEPT ![<<c.seq, n>>] = ChunkOf(c.ops, n)] ELSE chunk
              /\ job' = [job EXCEPT ![d] = IF confirmed THEN [job[d] EXCEPT !.next = n + 1]
                                                       ELSE Job("ready")]
        BY <2>1, <2>2, <1>4 DEF SendChunk
      <4>2. confirmed
        BY <4>1, <2>4 DEF Job, TypeOK
      <4> QED
        BY <4>1, <4>2
    <3>2. job'[d].next = n + 1 /\ job'[d].checkpoint = c
      BY <3>1, <2>1 DEF TypeOK, Jobs
    <3>3. NumChunks(c.ops) \in Nat /\ NumChunks(c.ops) <= NumChunks(Ops) /\ NumChunks(Ops) \in Nat
      BY ChunksBounded DEF Checkpoints
    <3>4. Sole(c)' => Written(c, n + 1)'
      <4> SUFFICES ASSUME Sole(c)', NEW i \in 0..n
                   PROVE  chunk'[<<c.seq, i>>] = ChunkOf(c.ops, i)
        BY DEF Written
      <4>1. CASE i = n
        <5>1. <<c.seq, n>> \in ChunkTags
          BY <2>2, <3>3 DEF Checkpoints, ChunkTags, Indices
        <5> QED
          BY <4>1, <5>1, <3>1 DEF TypeOK
      <4>2. CASE i # n
        <5>1. Sole(c)
          BY SoleEarlier
        <5>2. Written(c, n)
          BY <5>1, <2>1, <2>2, <1>4 DEF SendChunk, Backed
        <5>3. Written(c, n)'
          BY <5>2, <2>1, <2>2, <3>3, WrittenKept
        <5> QED
          BY <5>3, <4>2, <2>2 DEF Written
      <4> QED
        BY <4>1, <4>2
    <3>5. n + 1 <= NumChunks(c.ops)
      BY <2>2, <3>3
    <3> QED
      BY <3>2, <3>4, <3>5
  <2> QED
    BY <2>3, <2>4, <1>4, JobBacked, IntactKept DEF SendChunk
<1>5. ASSUME NEW d \in Devices, SendTop(d) PROVE Backed' /\ IntactUnlessReused'
  <2>1. PICK c \in Checkpoints : c = job[d].checkpoint /\ Begun(c)
    BY <1>5 DEF SendTop, Sourced, Begun, TypeOK
  <2>2. PICK n \in Nat : n = job[d].next
    BY JobTyped
  <2>3. Backed'
    <3>1. \A e \in Devices : e # d => job'[e] = job[e]
      BY <1>5 DEF SendTop, TypeOK
    <3>2. job'[d].pc # "writing"
      BY <1>5 DEF SendTop, Job, TypeOK
    <3> QED
      BY <3>1, <3>2, JobBacked
  <2>4. CASE top' = top
    BY <2>3, <2>4, IntactKept
  <2>5. CASE top' = c
    <3> SUFFICES ASSUME Sole(c)', Chunked(c.ops) PROVE Written(c, NumChunks(c.ops))'
      BY <2>3, <2>5 DEF IntactUnlessReused, Intact
    <3>1. n = NumChunks(c.ops)
      BY <2>1, <2>2, <1>5, JobTyped DEF SendTop, ChunksLeft, Backed
    <3>2. Sole(c)
      BY SoleEarlier
    <3>3. Written(c, n)
      BY <3>2, <2>1, <2>2, <1>5 DEF SendTop, Backed
    <3>4. Written(c, n)'
      BY <3>1, <3>3, <2>1, <2>2, WrittenKept
    <3> QED
      BY <3>1, <3>4
  <2> QED
    BY <2>1, <2>4, <2>5, <1>5 DEF SendTop
<1> QED
  BY <1>1, <1>2, <1>3, <1>4, <1>5 DEF Next

\* The invariant holds: whatever the relay fails to store or to confirm, and
\* however devices restart, overwrite chunks and read them one at a time.
THEOREM ChunkInvariant == Spec => []ChunkInv
<1>1. Init => ChunkInv
  <2> SUFFICES ASSUME Init PROVE ChunkInv
    OBVIOUS
  <2>1. Sourced /\ WholeOrNothing /\ Backed
    BY DEF Init, Job, NoRef, Sourced, WholeOrNothing, Backed
  <2>2. IntactUnlessReused
    BY NothingFits DEF Init, Nothing, IntactUnlessReused, Intact
  <2> QED
    BY <2>1, <2>2, TypeInvariant DEF ChunkInv
<1>2. ChunkInv /\ [Next]_vars => ChunkInv'
  BY TypeInvariant, SourcedNext, BackedNext DEF ChunkInv
<1> QED
  BY <1>1, <1>2, PTL DEF Spec

\* No device ever adopts a mixture of two checkpoints: what it takes for the
\* checkpoint is one that some device set out to publish.
THEOREM AdoptedWhole == Spec => []WholeOrNothing
<1>1. ChunkInv => WholeOrNothing
  BY DEF ChunkInv
<1> QED
  BY <1>1, ChunkInvariant, PTL

\* The checkpoint on the relay can be read back whole at every moment, also in
\* the middle of the next publish, if it is the only one begun at its sequence.
THEOREM IntactHolds == Spec => []IntactUnlessReused
<1>1. ChunkInv => IntactUnlessReused
  BY DEF ChunkInv
<1> QED
  BY <1>1, ChunkInvariant, PTL
=============================================================================
