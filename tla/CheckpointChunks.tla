--------------------------- MODULE CheckpointChunks -------------------------
(***************************************************************************)
(* Chunked checkpoints of the contacts rail (lib/contacts-v2-sync.ts).  A  *)
(* checkpoint that does not fit one envelope is split into chunks; the     *)
(* event under the checkpoint tag is then a manifest that names them by    *)
(* sequence and index and carries their digests.  Chunks go out first, the *)
(* manifest last; a reader takes all of it or nothing.                     *)
(*                                                                         *)
(* ContactsRail has the rest of the rail.  Here one relay serves the last  *)
(* event stored per tag, and an operation that a device authors or reads   *)
(* from an outbox is just learned.                                         *)
(***************************************************************************)
EXTENDS Integers, FiniteSets

CONSTANTS
    Devices,           \* installs signed in as the same person
    Ops,               \* operation ids, in the order the log lists them
    ChunkOps,          \* operations that fit one envelope
    MaxSeq,            \* bound: sequences a checkpoint may get
    MaxAttempts        \* bound: different checkpoints begun

ASSUME ChunksAssumption ==
    /\ Ops \subseteq Int /\ IsFiniteSet(Ops)
    /\ ChunkOps \in Nat \ {0}
    /\ MaxSeq \in Nat
    /\ MaxAttempts \in Nat

VARIABLES
    top,               \* the event under the checkpoint tag
    chunk,             \* the operations of the event under each chunk tag, {} for none
    log,               \* IndexedDB: the operations a device holds
    seen,              \* IndexedDB: the sequence last adopted from a read
    ref,               \* checkpointRef and checkpointStateRef
    high,              \* persistedSeqRef
    job,               \* the fetch or publish under way
    attempts           \* history: the checkpoints whose publishing began

vars == <<top, chunk, log, seen, ref, high, job, attempts>>

-----------------------------------------------------------------------------
\* splitCheckpoint: operations in log order, as many to a chunk as fit.
Place(S, op)  == Cardinality({x \in S : x < op})
ChunkOf(S, i) == {op \in S : Place(S, op) \div ChunkOps = i}
NumChunks(S)  == (Cardinality(S) + ChunkOps - 1) \div ChunkOps
Chunked(S)    == Cardinality(S) > ChunkOps

Indices   == 0..(NumChunks(Ops) - 1)
ChunkTags == (1..MaxSeq) \X Indices

\* A checkpoint event; with ops chunked it is a manifest, and stands for their
\* digests.
Checkpoints == [seq : 1..MaxSeq, ops : SUBSET Ops]
Nothing     == [seq |-> 0, ops |-> {}]
Refs == [state : {"absent", "present", "unusable"}, seq : 0..MaxSeq, ops : SUBSET Ops]
Jobs == [pc : {"closed", "ready", "reading", "writing"}, checkpoint : Checkpoints \cup {Nothing},
         next : 0..NumChunks(Ops)]

NoRef    == [state |-> "absent", seq |-> 0, ops |-> {}]
Job(pc)  == [pc |-> pc, checkpoint |-> Nothing, next |-> 0]
MaxOf(a, b) == IF a >= b THEN a ELSE b

TypeOK ==
    /\ top \in Checkpoints \cup {Nothing}
    /\ chunk \in [ChunkTags -> SUBSET Ops]
    /\ log \in [Devices -> SUBSET Ops]
    /\ seen \in [Devices -> 0..MaxSeq]
    /\ ref \in [Devices -> Refs]
    /\ high \in [Devices -> 0..MaxSeq]
    /\ job \in [Devices -> Jobs]
    /\ attempts \subseteq Devices \X Checkpoints

Init ==
    /\ top = Nothing
    /\ chunk = [t \in ChunkTags |-> {}]
    /\ log = [d \in Devices |-> {}]
    /\ seen = [d \in Devices |-> 0]
    /\ ref = [d \in Devices |-> NoRef]
    /\ high = [d \in Devices |-> 0]
    /\ job = [d \in Devices |-> Job("closed")]
    /\ attempts = {}

-----------------------------------------------------------------------------
Learn(d) ==
    /\ \E op \in Ops \ log[d] : log' = [log EXCEPT ![d] = @ \cup {op}]
    /\ UNCHANGED <<top, chunk, seen, ref, high, job, attempts>>

\* What was read is merged; it is adopted unless it is older than what this
\* device has recorded.
Adopt(d, c) ==
    /\ log' = [log EXCEPT ![d] = @ \cup c.ops]
    /\ IF c.seq < seen[d]
         THEN /\ ref' = [ref EXCEPT ![d] = [NoRef EXCEPT !.state = "unusable"]]
              /\ high' = [high EXCEPT ![d] = MaxOf(@, seen[d])]
              /\ UNCHANGED seen
         ELSE /\ ref' = [ref EXCEPT ![d] = [state |-> "present", seq |-> c.seq, ops |-> c.ops]]
              /\ high' = [high EXCEPT ![d] = MaxOf(@, c.seq)]
              /\ seen' = [seen EXCEPT ![d] = c.seq]
    /\ job' = [job EXCEPT ![d] = Job("ready")]

\* The checkpoint cannot be used, or there is none.
Refuse(d, state) ==
    /\ ref' = [ref EXCEPT ![d] = [NoRef EXCEPT !.state = state]]
    /\ high' = [high EXCEPT ![d] = MaxOf(@, seen[d])]
    /\ job' = [job EXCEPT ![d] = Job("ready")]
    /\ UNCHANGED <<log, seen>>

Fetch(d) ==
    /\ job[d].pc \in {"closed", "ready"}
    /\ \/ top = Nothing /\ Refuse(d, "absent")
       \/ top # Nothing /\ ~Chunked(top.ops) /\ Adopt(d, top)
       \/ /\ top # Nothing /\ Chunked(top.ops)
          /\ job' = [job EXCEPT ![d] = [pc |-> "reading", checkpoint |-> top, next |-> 0]]
          /\ UNCHANGED <<log, seen, ref, high>>
    /\ UNCHANGED <<top, chunk, attempts>>

\* Mutant of ReadChunk: the digest is not checked.
ReadChunkTrusting(d) ==
    LET c == job[d].checkpoint
        i == job[d].next
        found == chunk[<<c.seq, i>>]
    IN  /\ job[d].pc = "reading"
        /\ IF i + 1 < NumChunks(c.ops)
             THEN /\ job' = [job EXCEPT ![d].next = i + 1,
                                        ![d].checkpoint.ops = (@ \ ChunkOf(c.ops, i)) \cup found]
                  /\ UNCHANGED <<log, seen, ref, high>>
             ELSE Adopt(d, [c EXCEPT !.ops = (@ \ ChunkOf(c.ops, i)) \cup found])
        /\ UNCHANGED <<top, chunk, attempts>>

\* One chunk after another; a chunk that is missing, or is not the one the
\* manifest's digest describes, spoils the whole.
ReadChunk(d) ==
    LET c == job[d].checkpoint
        i == job[d].next
    IN  /\ job[d].pc = "reading"
        /\ \/ chunk[<<c.seq, i>>] # ChunkOf(c.ops, i) /\ Refuse(d, "unusable")
           \/ /\ chunk[<<c.seq, i>>] = ChunkOf(c.ops, i)
              /\ i + 1 < NumChunks(c.ops)
              /\ job' = [job EXCEPT ![d].next = i + 1]
              /\ UNCHANGED <<log, seen, ref, high>>
           \/ /\ chunk[<<c.seq, i>>] = ChunkOf(c.ops, i)
              /\ i + 1 = NumChunks(c.ops)
              /\ Adopt(d, c)
        /\ UNCHANGED <<top, chunk, attempts>>

\* A checkpoint is due; whether the outbox has grown enough is left open.
Begin(d) ==
    LET c == [seq |-> MaxOf(ref[d].seq, high[d]) + 1, ops |-> log[d]]
    IN  /\ job[d].pc = "ready"
        /\ ref[d].state # "unusable"
        /\ log[d] # {}
        /\ c.seq <= MaxSeq
        /\ job' = [job EXCEPT ![d] = [pc |-> "writing", checkpoint |-> c, next |-> 0]]
        /\ attempts' = attempts \cup {<<d, c>>}
        /\ Cardinality(attempts') <= MaxAttempts
        /\ UNCHANGED <<top, chunk, log, seen, ref, high>>

\* Mutants of ChunksLeft: the manifest goes out before the last chunk; one
\* chunk too many.
ChunksLeftFewer(d) ==
    Chunked(job[d].checkpoint.ops) /\ job[d].next + 1 < NumChunks(job[d].checkpoint.ops)

ChunksLeftMore(d) ==
    Chunked(job[d].checkpoint.ops) /\ job[d].next <= NumChunks(job[d].checkpoint.ops)

ChunksLeft(d) ==
    Chunked(job[d].checkpoint.ops) /\ job[d].next < NumChunks(job[d].checkpoint.ops)

\* The relay stores a chunk and confirms it, or one of the two fails and the
\* publish is abandoned.
SendChunk(d) ==
    LET c == job[d].checkpoint
        i == job[d].next
    IN  /\ job[d].pc = "writing" /\ ChunksLeft(d)
        /\ \E stored, confirmed \in BOOLEAN :
            /\ confirmed => stored
            /\ chunk' = IF stored THEN [chunk EXCEPT ![<<c.seq, i>>] = ChunkOf(c.ops, i)] ELSE chunk
            /\ job' = [job EXCEPT ![d] = IF confirmed THEN [@ EXCEPT !.next = i + 1] ELSE Job("ready")]
        /\ UNCHANGED <<top, log, seen, ref, high, attempts>>

\* The manifest, or the whole checkpoint; adopted once confirmed.
SendTop(d) ==
    LET c == job[d].checkpoint
    IN  /\ job[d].pc = "writing" /\ ~ChunksLeft(d)
        /\ \E stored, confirmed \in BOOLEAN :
            /\ confirmed => stored
            /\ top' = IF stored THEN c ELSE top
            /\ ref' = IF confirmed
                 THEN [ref EXCEPT ![d] = [state |-> "present", seq |-> c.seq, ops |-> c.ops]] ELSE ref
            /\ high' = IF confirmed THEN [high EXCEPT ![d] = c.seq] ELSE high
        /\ job' = [job EXCEPT ![d] = Job("ready")]
        /\ UNCHANGED <<chunk, log, seen, attempts>>

\* The page goes away between two steps.
Restart(d) ==
    /\ job[d].pc # "closed"
    /\ job' = [job EXCEPT ![d] = Job("closed")]
    /\ ref' = [ref EXCEPT ![d] = NoRef]
    /\ high' = [high EXCEPT ![d] = 0]
    /\ UNCHANGED <<top, chunk, log, seen, attempts>>

Next ==
    \E d \in Devices :
        \/ Learn(d) \/ Fetch(d) \/ ReadChunk(d)
        \/ Begin(d) \/ SendChunk(d) \/ SendTop(d) \/ Restart(d)

Spec == Init /\ [][Next]_vars

-----------------------------------------------------------------------------
(* Properties.                                                             *)

Begun(c) == \E d \in Devices : <<d, c>> \in attempts

\* The only checkpoint ever begun at its sequence.
Sole(c) == \A a, b \in attempts : a[2].seq = c.seq /\ b[2].seq = c.seq => a[2] = b[2]

\* The first n chunks of c are on the relay as its manifest describes them.
Written(c, n) == \A i \in 0..(n - 1) : chunk[<<c.seq, i>>] = ChunkOf(c.ops, i)

\* A device never adopts a mixture: what it takes for the checkpoint is one
\* that some device set out to publish, whole, however many writers overwrite
\* chunks while it reads them one after another (reassembleChunks).
WholeOrNothing ==
    \A d \in Devices : ref[d].state = "present" => Begun([seq |-> ref[d].seq, ops |-> ref[d].ops])

\* A manifest never lands before its chunks, and an abandoned publish or a
\* crash leaves the checkpoint in place readable, unless one sequence is used
\* for two different checkpoints (the order of publishContactsV2Checkpoint).
Intact == Chunked(top.ops) => Written(top, NumChunks(top.ops))
IntactUnlessReused == Sole(top) => Intact

\* The inductive strengthening of the two: whatever is on the relay or under
\* way was begun, and of a checkpoint alone at its sequence every chunk up to
\* the one the publish has come to is in place.
Sourced ==
    /\ top = Nothing \/ Begun(top)
    /\ \A d \in Devices : job[d].pc \in {"reading", "writing"} => Begun(job[d].checkpoint)

Backed ==
    \A d \in Devices : job[d].pc = "writing" =>
        /\ job[d].next <= NumChunks(job[d].checkpoint.ops)
        /\ Sole(job[d].checkpoint) => Written(job[d].checkpoint, job[d].next)

ChunkInv == TypeOK /\ Sourced /\ WholeOrNothing /\ Backed /\ IntactUnlessReused

\* "A reader never finds a manifest pointing at a chunk that is not on the
\* relay" (contacts-v2-sync.ts:756): while no publish is under way the
\* checkpoint can be read.
IntactAtRest == (\A d \in Devices : job[d].pc # "writing") => Intact
=============================================================================
