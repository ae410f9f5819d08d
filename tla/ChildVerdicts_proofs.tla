------------------------ MODULE ChildVerdicts_proofs ------------------------
(***************************************************************************)
(* Proofs about ChildVerdicts, for any asks, kinds, rules and bounds: that *)
(* nobody waits for what will not come, that the device is left with what  *)
(* rules and entries say, that a verdict that was sent is the last, and    *)
(* that what is published is the choice that was saved.                    *)
(* The entries themselves are opaque here: nothing depends on what         *)
(* removeOnceEntry returns.  ChildCeiling_proofs is about them.            *)
(***************************************************************************)
EXTENDS ChildVerdicts, TLAPS

-----------------------------------------------------------------------------
(* Shapes: as much of TypeOK as does not look into the entries.            *)

Rows == [chosen : Verdicts \cup {"none"}, sent : BOOLEAN]
SaveRecs == [row : [Asks -> Rows], for : Asks \cup {"nobody"}, late : BOOLEAN]
IsCall(c) == c \in [pc : Pcs, verdict : Verdicts \cup {"none"}, added : {c.added}, epoch : {c.epoch}, seen : {c.seen}]

InboxShape ==
    /\ ask \in [Asks -> {"unseen", "listed", "gone"}]
    /\ replied \in [Asks -> Verdicts \cup {"none"}]
    /\ relay \in [Asks -> SUBSET ({"us", "other"} \X (Verdicts \cup {"none"}))]
    /\ restarts \in Nat
Waiting == {"saving", "recording", "closing"}
RowsShape ==
    /\ hist \in [Asks -> Rows] /\ disk \in [Asks -> Rows]
    /\ saves \in Seq(SaveRecs)
CallShape == call = [a \in Asks |-> call[a]] /\ \A a \in Asks : IsCall(call[a])

-----------------------------------------------------------------------------
(* Calls: what an action does to the step of each.                         *)

\* The call of one ask is replaced.
Replaced(a, c) == call' = [call EXCEPT ![a] = c]
LEMMA CallReplaced ==
    ASSUME CallShape, NEW a \in Asks, NEW c, IsCall(c), Replaced(a, c)
    PROVE  /\ CallShape'
           /\ \A b \in Asks : call'[b].pc = (IF b = a THEN c.pc ELSE call[b].pc)
  <1>1. call' = [b \in Asks |-> IF b = a THEN c ELSE call[b]]
    BY DEF CallShape, Replaced
  <1>2. \A b \in Asks : IsCall(call'[b])
    BY <1>1 DEF CallShape
  <1>3. call' = [b \in Asks |-> call'[b]]
    BY <1>1
  <1> QED
    BY <1>1, <1>2, <1>3 DEF CallShape, IsCall

\* The call of one ask moves on.
LEMMA StepMoves ==
    ASSUME CallShape, NEW a \in Asks, NEW p \in Pcs, call' = [call EXCEPT ![a] = [@ EXCEPT !.pc = p]]
    PROVE  /\ CallShape'
           /\ \A b \in Asks : call'[b].pc = (IF b = a THEN p ELSE call[b].pc)
  <1> DEFINE c == [call[a] EXCEPT !.pc = p]
  <1>1. IsCall(c) /\ c.pc = p
    BY DEF CallShape, IsCall
  <1>2. Replaced(a, c)
    BY DEF Replaced
  <1> HIDE DEF c
  <1> QED
    BY <1>1, <1>2, CallReplaced

LEMMA GotoMoves ==
    ASSUME CallShape, NEW a \in Asks, NEW p \in Pcs, Goto(a, p)
    PROVE  /\ CallShape'
           /\ \A b \in Asks : call'[b].pc = (IF b = a THEN p ELSE call[b].pc)
  <1>1. call' = [call EXCEPT ![a] = [@ EXCEPT !.pc = p]]
    BY DEF Goto
  <1> QED
    BY <1>1, StepMoves

\* A call ends.
LEMMA CallEnds ==
    ASSUME CallShape, NEW a \in Asks, call' = [call EXCEPT ![a] = NoCall]
    PROVE  /\ CallShape'
           /\ \A b \in Asks : call'[b].pc = (IF b = a THEN "none" ELSE call[b].pc)
  <1>1. IsCall(NoCall) /\ NoCall.pc = "none"
    BY DEF IsCall, NoCall, Pcs
  <1>2. Replaced(a, NoCall)
    BY DEF Replaced
  <1> QED
    BY <1>1, <1>2, CallReplaced

\* A guardian chooses (the start of decide).
LEMMA ChooseMoves ==
    ASSUME CallShape, NEW a \in Asks, NEW v \in Verdicts, Choose(a, v)
    PROVE  /\ CallShape'
           /\ \A b \in Asks : call'[b].pc = (IF b = a THEN IF hist[a] = None THEN "saving" ELSE "weigh"
                                             ELSE call[b].pc)
  <1> DEFINE p == IF hist[a] = None THEN "saving" ELSE "weigh"
             c == [NoCall EXCEPT !.pc = p, !.verdict = v, !.epoch = epoch, !.seen = once]
  <1>1. p \in Pcs
    BY DEF Pcs
  <1>2. Replaced(a, c)
    BY DEF Choose, Replaced
  <1> HIDE DEF p
  <1>3. IsCall(c) /\ c.pc = p
    BY <1>1 DEF IsCall, NoCall
  <1> HIDE DEF c
  <1>4. CallShape' /\ \A b \in Asks : call'[b].pc = (IF b = a THEN p ELSE call[b].pc)
    BY <1>2, <1>3, CallReplaced
  <1> QED
    BY <1>4 DEF p

\* A call is denied, by the guardian, the ceiling or a push that failed.
LEMMA DeniedMoves ==
    ASSUME CallShape, NEW a \in Asks, call' = [call EXCEPT ![a] = Denied]
    PROVE  /\ CallShape'
           /\ \A b \in Asks : call'[b].pc = (IF b = a THEN "outcome" ELSE call[b].pc)
  <1>1. IsCall(Denied) /\ Denied.pc = "outcome"
    BY DEF IsCall, Denied, NoCall, Pcs, Verdicts
  <1>2. Replaced(a, Denied)
    BY DEF Replaced
  <1> QED
    BY <1>1, <1>2, CallReplaced

\* A call has widened the ceiling.
LEMMA WidenMoves ==
    ASSUME CallShape, NEW a \in Asks, Widen(a)
    PROVE  /\ CallShape'
           /\ \A b \in Asks : call'[b].pc = (IF b = a THEN "store" ELSE call[b].pc)
  <1> DEFINE es == Opens(a, call[a].verdict)
             c == [call[a] EXCEPT !.pc = "store", !.added = es, !.epoch = epoch, !.seen = <<>>]
  <1>1. Replaced(a, c)
    BY DEF Widen, Replaced
  <1> HIDE DEF es
  <1>2. IsCall(c) /\ c.pc = "store"
    BY DEF IsCall, CallShape, Pcs
  <1> HIDE DEF c
  <1> QED
    BY <1>1, <1>2, CallReplaced

\* A save that a call waits for lets it go on.
LEMMA ContinueMoves ==
    ASSUME CallShape, NEW a \in Asks, call[a].pc \in Waiting, Continue(a),
           VerdictsAssumption
    PROVE  /\ CallShape'
           /\ Following[call[a].pc] \in {"weigh", "check", "none"}
           /\ \A b \in Asks : call'[b].pc = (IF b = a THEN Following[call[a].pc] ELSE call[b].pc)
  <1>1. a # "nobody"
    BY DEF VerdictsAssumption
  <1>0. Following[call[a].pc] \in {"weigh", "check", "none"}
    BY DEF Following, Waiting
  <1>2. CASE call[a].pc = "closing"
    <2>1. call' = [call EXCEPT ![a] = NoCall]
      BY <1>1, <1>2 DEF Continue
    <2>2. CallShape' /\ \A b \in Asks : call'[b].pc = (IF b = a THEN "none" ELSE call[b].pc)
      BY <2>1, CallEnds
    <2> QED
      BY <1>0, <1>2, <2>2 DEF Following
  <1>3. CASE call[a].pc # "closing"
    <2>1. Following[call[a].pc] \in Pcs
      BY <1>0 DEF Pcs
    <2>2. call' = [call EXCEPT ![a] = [@ EXCEPT !.pc = Following[call[a].pc]]]
      BY <1>1, <1>3 DEF Continue
    <2> QED
      BY <1>0, <2>1, <2>2, StepMoves
  <1> QED
    BY <1>2, <1>3

\* The call of one ask is replaced, and that of no other.
LEMMA CallOf ==
    ASSUME CallShape, NEW a \in Asks, NEW c, call' = [call EXCEPT ![a] = c]
    PROVE  call'[a] = c /\ \A b \in Asks \ {a} : call'[b] = call[b]
  <1>1. call = [b \in Asks |-> call[b]]
    BY DEF CallShape
  <1> QED
    BY <1>1

LEMMA GotoOf ==
    ASSUME CallShape, NEW a \in Asks, NEW p \in Pcs, Goto(a, p)
    PROVE  /\ call'[a].pc = p /\ call'[a].verdict = call[a].verdict
           /\ call'[a].added = call[a].added /\ call'[a].epoch = call[a].epoch /\ call'[a].seen = call[a].seen
           /\ \A b \in Asks \ {a} : call'[b] = call[b]
  <1> DEFINE c == [call[a] EXCEPT !.pc = p]
  <1>1. /\ c.pc = p /\ c.verdict = call[a].verdict
        /\ c.added = call[a].added /\ c.epoch = call[a].epoch /\ c.seen = call[a].seen
    BY DEF CallShape, IsCall
  <1>2. call' = [call EXCEPT ![a] = c]
    BY DEF Goto
  <1> HIDE DEF c
  <1> QED
    BY <1>1, <1>2, CallOf

-----------------------------------------------------------------------------
(* Saves: each call that waits has its own write of the history row.       *)

SavesInv ==
    /\ \A i \in DOMAIN saves : saves[i].for \in Asks => call[saves[i].for].pc \in Waiting
    /\ \A i, j \in DOMAIN saves : saves[i].for = saves[j].for /\ saves[i].for \in Asks => i = j
    /\ \A a \in Asks : call[a].pc \in Waiting => \E i \in DOMAIN saves : saves[i].for = a

\* A write that ends is taken out, and the others keep their order.
LEMMA OneLess ==
    ASSUME NEW S, NEW s \in Seq(S), NEW i \in DOMAIN s
    PROVE  /\ RemoveAt(s, i) \in Seq(S)
           /\ DOMAIN RemoveAt(s, i) = 1..Len(s) - 1
           /\ \A j \in 1..Len(s) - 1 : RemoveAt(s, i)[j] = IF j < i THEN s[j] ELSE s[j + 1]
  <1>1. i \in 1..Len(s) /\ Len(s) \in Nat
    OBVIOUS
  <1> DEFINE u == SubSeq(s, 1, i - 1)
             v == SubSeq(s, i + 1, Len(s))
  <1>2. u \in Seq(S) /\ Len(u) = i - 1 /\ \A j \in 1..i - 1 : u[j] = s[j]
    BY <1>1
  <1>3. v \in Seq(S) /\ Len(v) = Len(s) - i /\ \A j \in 1..Len(s) - i : v[j] = s[i + j]
    BY <1>1
  <1> HIDE DEF u, v
  <1>4. u \o v \in Seq(S) /\ Len(u \o v) = Len(s) - 1
    BY <1>1, <1>2, <1>3
  <1>5. ASSUME NEW j \in 1..Len(s) - 1
        PROVE  (u \o v)[j] = IF j < i THEN s[j] ELSE s[j + 1]
    <2>1. CASE j < i
      BY <1>1, <1>2, <1>3, <2>1
    <2>2. CASE ~(j < i)
      <3>1. j - (i - 1) \in 1..Len(s) - i /\ i + (j - (i - 1)) = j + 1
        BY <1>1, <2>2
      <3>2. (u \o v)[j] = v[j - (i - 1)]
        BY <1>1, <1>2, <1>3, <2>2
      <3> QED
        BY <1>3, <2>2, <3>1, <3>2
    <2> QED
      BY <2>1, <2>2
  <1>6. RemoveAt(s, i) = u \o v
    BY DEF RemoveAt, u, v
  <1>7. DOMAIN (u \o v) = 1..Len(s) - 1
    BY <1>4
  <1> QED
    BY <1>4, <1>5, <1>6, <1>7

\* Nothing is written, and nobody starts or stops waiting.
LEMMA SavesSame ==
    ASSUME SavesInv, saves' = saves,
           \A b \in Asks : call'[b].pc \in Waiting <=> call[b].pc \in Waiting
    PROVE  SavesInv'
  BY DEF SavesInv

\* A write is added, for a call that starts to wait or for nobody.
LEMMA SavesAdded ==
    ASSUME saves \in Seq(SaveRecs), SavesInv, NEW rec \in SaveRecs, saves' = Append(saves, rec),
           rec.for \in Asks => call[rec.for].pc \notin Waiting,
           \A b \in Asks : call'[b].pc \in Waiting <=> (call[b].pc \in Waiting \/ b = rec.for)
    PROVE  SavesInv'
  <1>1. DOMAIN saves' = 1..Len(saves) + 1 /\ DOMAIN saves = 1..Len(saves) /\ Len(saves) \in Nat
    OBVIOUS
  <1>2. saves'[Len(saves) + 1] = rec /\ \A i \in DOMAIN saves : saves'[i] = saves[i]
    OBVIOUS
  <1>3. \A i \in DOMAIN saves : saves[i].for # rec.for \/ rec.for \notin Asks
    BY DEF SavesInv
  <1>4. \A i \in DOMAIN saves' : saves'[i].for \in Asks => call'[saves'[i].for].pc \in Waiting
    BY <1>1, <1>2 DEF SavesInv
  <1>5. \A i, j \in DOMAIN saves' : saves'[i].for = saves'[j].for /\ saves'[i].for \in Asks => i = j
    BY <1>1, <1>2, <1>3 DEF SavesInv
  <1>6. \A a \in Asks : call'[a].pc \in Waiting => \E i \in DOMAIN saves' : saves'[i].for = a
    BY <1>1, <1>2 DEF SavesInv
  <1> QED
    BY <1>4, <1>5, <1>6 DEF SavesInv

\* A write ends, and whoever waited for it waits no longer.
LEMMA SavesEnded ==
    ASSUME saves \in Seq(SaveRecs), SavesInv, NEW i \in DOMAIN saves,
           DOMAIN saves' = 1..Len(saves) - 1,
           \A j \in 1..Len(saves) - 1 : saves'[j].for = (IF j < i THEN saves[j].for ELSE saves[j + 1].for),
           \A b \in Asks : call'[b].pc \in Waiting <=> (call[b].pc \in Waiting /\ b # saves[i].for)
    PROVE  SavesInv'
  <1>1. DOMAIN saves = 1..Len(saves) /\ Len(saves) \in Nat /\ i \in 1..Len(saves)
    OBVIOUS
  <1> DEFINE old(j) == IF j < i THEN j ELSE j + 1
  <1>2. ASSUME NEW j \in DOMAIN saves'
        PROVE  old(j) \in DOMAIN saves /\ old(j) # i /\ saves'[j].for = saves[old(j)].for
    BY <1>1
  <1>3. \A j, k \in DOMAIN saves' : old(j) = old(k) => j = k
    BY <1>1
  <1>4. ASSUME NEW j \in DOMAIN saves, j # i
        PROVE  \E k \in DOMAIN saves' : old(k) = j
    <2>1. CASE j < i
      BY <1>1, <2>1
    <2>2. CASE ~(j < i)
      <3>1. j - 1 \in DOMAIN saves' /\ ~(j - 1 < i)
        BY <1>1, <1>4, <2>2
      <3>2. old(j - 1) = j
        BY <1>1, <3>1
      <3> QED
        BY <3>1, <3>2
    <2> QED
      BY <2>1, <2>2
  <1> HIDE DEF old
  <1>5. \A j \in DOMAIN saves' : saves'[j].for \in Asks => call'[saves'[j].for].pc \in Waiting
    BY <1>2 DEF SavesInv
  <1>6. \A j, k \in DOMAIN saves' : saves'[j].for = saves'[k].for /\ saves'[j].for \in Asks => j = k
    BY <1>2, <1>3 DEF SavesInv
  <1>7. ASSUME NEW a \in Asks, call'[a].pc \in Waiting
        PROVE  \E k \in DOMAIN saves' : saves'[k].for = a
    <2>1. PICK j \in DOMAIN saves : saves[j].for = a
      BY <1>7 DEF SavesInv
    <2>2. j # i
      BY <1>7, <2>1
    <2> QED
      BY <1>2, <1>4, <2>1, <2>2
  <1> QED
    BY <1>5, <1>6, <1>7 DEF SavesInv

-----------------------------------------------------------------------------
(* Rows and saves, action by action.                                       *)

Base == InboxShape /\ RowsShape /\ CallShape /\ SavesInv

\* Nobody starts or stops waiting for a write.
SameWaits == \A b \in Asks : call'[b].pc \in Waiting <=> call[b].pc \in Waiting

\* The history is written for nobody in particular (markAnswered).
LEMMA WrittenForNobody ==
    ASSUME VerdictsAssumption, RowsShape, SavesInv, SameWaits,
           hist' \in [Asks -> Rows], disk' = disk, saves' = Save(hist', "nobody")
    PROVE  RowsShape' /\ SavesInv'
  <1>1. CASE saves' = saves
    BY <1>1, SavesSame DEF RowsShape, SameWaits
  <1>2. CASE saves' # saves
    <2> DEFINE rec == [row |-> IF LastPage THEN disk ELSE hist', for |-> "nobody", late |-> FALSE]
    <2>1. saves' = Append(saves, rec)
      BY <1>2 DEF Save
    <2>2. rec \in SaveRecs /\ rec.for = "nobody"
      BY DEF SaveRecs, RowsShape
    <2> HIDE DEF rec
    <2>3. "nobody" \notin Asks
      BY DEF VerdictsAssumption
    <2>4. SavesInv'
      BY <2>1, <2>2, <2>3, SavesAdded DEF RowsShape, SameWaits
    <2>5. saves \in Seq(SaveRecs)
      BY DEF RowsShape
    <2>6. Append(saves, rec) \in Seq(SaveRecs)
      BY <2>2, <2>5
    <2> QED
      BY <2>1, <2>4, <2>6 DEF RowsShape
  <1> QED
    BY <1>1, <1>2

\* The history is written, and a call waits for it.
LEMMA WrittenFor ==
    ASSUME VerdictsAssumption, RowsShape, SavesInv, NEW a \in Asks,
           hist' \in [Asks -> Rows], disk' = disk, saves' = Save(hist', a),
           call[a].pc \notin Waiting,
           \A b \in Asks : call'[b].pc \in Waiting <=> (call[b].pc \in Waiting \/ b = a)
    PROVE  RowsShape' /\ SavesInv'
  <1> DEFINE rec == [row |-> IF LastPage THEN disk ELSE hist', for |-> a, late |-> FALSE]
  <1>1. a # "nobody"
    BY DEF VerdictsAssumption
  <1>2. saves' = Append(saves, rec)
    BY <1>1 DEF Save
  <1>3. rec \in SaveRecs /\ rec.for = a
    BY DEF SaveRecs, RowsShape
  <1> HIDE DEF rec
  <1>4. SavesInv'
    BY <1>2, <1>3, SavesAdded DEF RowsShape
  <1>5. saves' \in Seq(SaveRecs)
    BY <1>2, <1>3 DEF RowsShape
  <1> QED
    BY <1>4, <1>5 DEF RowsShape

\* An ask is settled with a verdict (markAnswered).
LEMMA MarkedBase ==
    ASSUME VerdictsAssumption, InboxShape, RowsShape, SavesInv, SameWaits,
           NEW a \in Asks, NEW v \in Verdicts, MarkAnswered(a, v), disk' = disk
    PROVE  RowsShape' /\ SavesInv' /\ ask' \in [Asks -> {"unseen", "listed", "gone"}]
  <1>1. ask' \in [Asks -> {"unseen", "listed", "gone"}]
    BY DEF MarkAnswered, InboxShape
  <1>2. Entry(v, TRUE) \in Rows
    BY DEF Entry, Rows
  <1>3. CASE hist' = [hist EXCEPT ![a] = Entry(v, TRUE)] /\ saves' = Save(hist', "nobody")
    <2>1. hist' \in [Asks -> Rows]
      BY <1>2, <1>3 DEF RowsShape
    <2> QED
      BY <1>1, <1>3, <2>1, WrittenForNobody
  <1>4. CASE UNCHANGED <<hist, saves>>
    BY <1>1, <1>4, SavesSame DEF RowsShape, SameWaits
  <1> QED
    BY <1>3, <1>4 DEF MarkAnswered

\* Nothing of the rows and nobody's wait changes.
LEMMA RowsSame ==
    ASSUME RowsShape, SavesInv, SameWaits, UNCHANGED <<hist, disk, saves>>
    PROVE  RowsShape' /\ SavesInv'
  BY SavesSame DEF RowsShape, SameWaits

LEMMA BaseInit == ASSUME VerdictsAssumption, Init PROVE Base
  <1>1. InboxShape
    BY DEF Init, InboxShape
  <1>2. None \in Rows
    BY DEF None, Rows
  <1>3. RowsShape
    BY <1>2 DEF Init, RowsShape
  <1>4. IsCall(NoCall) /\ NoCall.pc = "none"
    BY DEF IsCall, NoCall, Pcs
  <1>5. \A a \in Asks : call[a] = NoCall
    BY DEF Init
  <1>6. CallShape
    BY <1>4, <1>5 DEF Init, CallShape
  <1>7. \A a \in Asks : call[a].pc \notin Waiting
    BY <1>4, <1>5 DEF Waiting
  <1>8. SavesInv
    BY <1>7 DEF Init, SavesInv
  <1> QED
    BY <1>1, <1>3, <1>6, <1>8 DEF Base

\* What happens to the inbox keeps the rows and the saves.
LEMMA InboxBase ==
    ASSUME VerdictsAssumption, Base, NEW a \in Asks,
           \/ AskArrives(a) \/ AskExpires(a) \/ ChooseAnswered(a)
           \/ \E v \in Verdicts : ReplyArrives(a, v) \/ OtherAnswers(a, v)
    PROVE  Base' /\ call' = call
  <1>1. call' = call
    BY DEF AskArrives, AskExpires, ChooseAnswered, ReplyArrives, OtherAnswers
  <1>2. CallShape' /\ SameWaits
    BY <1>1 DEF Base, CallShape, SameWaits
  <1>3. CASE AskArrives(a)
    <2>1. InboxShape'
      BY <1>3 DEF AskArrives, InboxShape, Base, bounds
    <2>2. disk' = disk
      BY <1>3 DEF AskArrives
    <2>3. CASE replied[a] # "none"
      <3>1. Entry(replied[a], TRUE) \in Rows
        BY DEF Entry, Rows, Base, InboxShape
      <3>2. hist' = [hist EXCEPT ![a] = Entry(replied[a], TRUE)] /\ saves' = Save(hist', "nobody")
        BY <1>3, <2>3 DEF AskArrives
      <3>3. hist' \in [Asks -> Rows]
        BY <3>1, <3>2 DEF Base, RowsShape
      <3> QED
        BY <1>1, <1>2, <2>1, <2>2, <3>2, <3>3, WrittenForNobody DEF Base
    <2>4. CASE replied[a] = "none"
      <3>1. UNCHANGED <<hist, disk, saves>>
        BY <1>3, <2>2, <2>4 DEF AskArrives
      <3> QED
        BY <1>1, <1>2, <2>1, <3>1, RowsSame DEF Base
    <2> QED
      BY <2>3, <2>4
  <1>4. CASE AskExpires(a)
    <2>1. InboxShape'
      BY <1>4 DEF AskExpires, InboxShape, Base
    <2>2. UNCHANGED <<hist, disk, saves>>
      BY <1>4 DEF AskExpires, savedVars
    <2> QED
      BY <1>1, <1>2, <2>1, <2>2, RowsSame DEF Base
  <1>5. CASE ChooseAnswered(a)
    <2>1. MarkAnswered(a, replied[a]) /\ replied[a] \in Verdicts /\ disk' = disk
      BY <1>5 DEF ChooseAnswered, Base, InboxShape
    <2>2. RowsShape' /\ SavesInv' /\ ask' \in [Asks -> {"unseen", "listed", "gone"}]
      BY <1>2, <2>1, MarkedBase DEF Base
    <2>3. UNCHANGED <<replied, relay, restarts>>
      BY <1>5 DEF ChooseAnswered, bounds
    <2> QED
      BY <1>1, <1>2, <2>2, <2>3 DEF Base, InboxShape
  <1>6. ASSUME NEW v \in Verdicts, ReplyArrives(a, v) PROVE Base'
    <2>1. disk' = disk /\ UNCHANGED <<relay, restarts>> /\ replied' \in [Asks -> Verdicts \cup {"none"}]
      BY <1>6 DEF ReplyArrives, bounds, Base, InboxShape
    <2>2. CASE MarkAnswered(a, v)
      <3>1. RowsShape' /\ SavesInv' /\ ask' \in [Asks -> {"unseen", "listed", "gone"}]
        BY <1>2, <2>1, <2>2, MarkedBase DEF Base
      <3> QED
        BY <1>2, <2>1, <3>1 DEF Base, InboxShape
    <2>3. CASE UNCHANGED <<ask, hist, saves>>
      <3>1. RowsShape' /\ SavesInv'
        BY <1>2, <2>1, <2>3, RowsSame DEF Base
      <3> QED
        BY <1>2, <2>1, <2>3, <3>1 DEF Base, InboxShape
    <2> QED
      BY <1>6, <2>2, <2>3 DEF ReplyArrives
  <1>7. ASSUME NEW v \in Verdicts, OtherAnswers(a, v) PROVE Base'
    <2>1. InboxShape'
      BY <1>7 DEF OtherAnswers, Base, InboxShape
    <2>2. UNCHANGED <<hist, disk, saves>>
      BY <1>7 DEF OtherAnswers, savedVars
    <2> QED
      BY <1>2, <2>1, <2>2, RowsSame DEF Base
  <1> QED
    BY <1>1, <1>3, <1>4, <1>5, <1>6, <1>7

\* No call starts or stops waiting for the operator lock.
SamePush == \A b \in Asks : call'[b].pc = "push" <=> call[b].pc = "push"

\* A step of a call outside its saves and its push.
LEMMA PlainStep ==
    ASSUME Base, InboxShape', CallShape', UNCHANGED <<hist, disk, saves>>,
           NEW a \in Asks, NEW p \in Pcs,
           call[a].pc \notin Waiting \cup {"push"}, p \notin Waiting \cup {"push"},
           \A b \in Asks : call'[b].pc = (IF b = a THEN p ELSE call[b].pc)
    PROVE  Base' /\ SamePush
  <1>1. SameWaits /\ SamePush
    BY DEF SameWaits, SamePush
  <1> QED
    BY <1>1, RowsSame DEF Base

LEMMA DecideBase ==
    ASSUME VerdictsAssumption, Base, NEW a \in Asks,
           \/ Deny(a) \/ Refuse(a) \/ Once(a) \/ Always(a) \/ RuleSaved(a)
           \/ GiveUp(a) \/ Unanswered(a) \/ Publish(a) \/ NotSent(a)
    PROVE  Base' /\ SamePush
  <1>1. CallShape /\ call[a].verdict \in Verdicts \cup {"none"}
    BY DEF Base, CallShape, IsCall
  <1>2. CASE Deny(a) \/ Refuse(a)
    <2>1. InboxShape' /\ UNCHANGED <<hist, disk, saves>> /\ call[a].pc = "weigh"
      BY <1>2 DEF Deny, Refuse, At, Base, InboxShape, askVars, savedVars, bounds
    <2>2. call' = [call EXCEPT ![a] = Denied]
      BY <1>2 DEF Deny, Refuse
    <2>3. CallShape' /\ \A b \in Asks : call'[b].pc = (IF b = a THEN "outcome" ELSE call[b].pc)
      BY <1>1, <2>2, DeniedMoves
    <2> QED
      BY <2>1, <2>3, PlainStep DEF Waiting, Pcs
  <1>3. CASE Once(a) \/ RuleSaved(a)
    <2>1. InboxShape' /\ UNCHANGED <<hist, disk, saves>> /\ call[a].pc \in {"weigh", "rule"} /\ Widen(a)
      BY <1>3 DEF Once, RuleSaved, At, Base, InboxShape, askVars, savedVars, bounds
    <2>2. CallShape' /\ \A b \in Asks : call'[b].pc = (IF b = a THEN "store" ELSE call[b].pc)
      BY <1>1, <2>1, WidenMoves
    <2> QED
      BY <2>1, <2>2, PlainStep DEF Waiting, Pcs
  <1>4. CASE Always(a) \/ Unanswered(a)
    <2>1. InboxShape' /\ UNCHANGED <<hist, disk, saves>> /\ call[a].pc \in {"weigh", "check"}
      BY <1>4 DEF Always, Unanswered, At, Base, InboxShape, askVars, savedVars, bounds
    <2>2. PICK p \in {"rule", "publish"} : Goto(a, p)
      BY <1>4 DEF Always, Unanswered
    <2>3. p \in Pcs
      BY DEF Pcs
    <2>4. CallShape' /\ \A b \in Asks : call'[b].pc = (IF b = a THEN p ELSE call[b].pc)
      BY <1>1, <2>2, <2>3, GotoMoves
    <2> QED
      BY <2>1, <2>3, <2>4, PlainStep DEF Waiting
  <1>5. CASE GiveUp(a) \/ NotSent(a)
    <2>1. InboxShape' /\ UNCHANGED <<hist, disk, saves>> /\ call[a].pc \in {"weigh", "rule", "wire"}
      BY <1>5 DEF GiveUp, NotSent, At, Base, InboxShape, askVars, savedVars, bounds
    <2>2. call' = [call EXCEPT ![a] = NoCall]
      BY <1>5 DEF GiveUp, NotSent
    <2>3. CallShape' /\ \A b \in Asks : call'[b].pc = (IF b = a THEN "none" ELSE call[b].pc)
      BY <1>1, <2>2, CallEnds
    <2> QED
      BY <2>1, <2>3, PlainStep DEF Waiting, Pcs
  <1>6. CASE Publish(a)
    <2>1. UNCHANGED <<ask, replied, restarts, hist, disk, saves>> /\ call[a].pc = "publish"
      BY <1>6 DEF Publish, At, savedVars, bounds
    <2>2. relay' \in [Asks -> SUBSET ({"us", "other"} \X (Verdicts \cup {"none"}))]
      BY <1>1, <1>6 DEF Publish, Base, InboxShape
    <2>3. InboxShape'
      BY <2>1, <2>2 DEF Base, InboxShape
    <2>4. Goto(a, "wire") /\ "wire" \in Pcs
      BY <1>6 DEF Publish, Pcs
    <2>5. CallShape' /\ \A b \in Asks : call'[b].pc = (IF b = a THEN "wire" ELSE call[b].pc)
      BY <1>1, <2>4, GotoMoves
    <2> QED
      BY <2>1, <2>3, <2>4, <2>5, PlainStep DEF Waiting
  <1> QED
    BY <1>2, <1>3, <1>4, <1>5, <1>6

\* A call starts with its save, or again with what was saved.
LEMMA ChooseBase ==
    ASSUME VerdictsAssumption, Base, NEW a \in Asks, NEW v \in Verdicts, Choose(a, v)
    PROVE  Base' /\ SamePush
  <1>1. CallShape'
        /\ \A b \in Asks : call'[b].pc = (IF b = a THEN IF hist[a] = None THEN "saving" ELSE "weigh"
                                          ELSE call[b].pc)
    BY ChooseMoves DEF Base
  <1>2. call[a].pc = "none" /\ disk' = disk
    BY DEF Choose, Deciding
  <1>3. InboxShape' /\ SamePush
    BY <1>1, <1>2 DEF Choose, Base, InboxShape, askVars, SamePush
  <1>4. CASE hist[a] = None
    <2>1. Entry(v, FALSE) \in Rows
      BY DEF Entry, Rows
    <2>2. hist' \in [Asks -> Rows] /\ saves' = Save(hist', a)
      BY <1>4, <2>1 DEF Choose, Base, RowsShape
    <2>3. \A b \in Asks : call'[b].pc \in Waiting <=> (call[b].pc \in Waiting \/ b = a)
      BY <1>1, <1>4 DEF Waiting
    <2>4. call[a].pc \notin Waiting
      BY <1>2 DEF Waiting
    <2>5. RowsShape' /\ SavesInv'
      BY <1>2, <2>2, <2>3, <2>4, WrittenFor DEF Base
    <2> QED
      BY <1>1, <1>3, <2>5 DEF Base
  <1>5. CASE hist[a] # None
    <2>1. UNCHANGED <<hist, disk, saves>>
      BY <1>2, <1>5 DEF Choose
    <2>2. SameWaits
      BY <1>1, <1>2, <1>5 DEF SameWaits, Waiting
    <2> QED
      BY <1>1, <1>3, <2>1, <2>2, RowsSame DEF Base
  <1> QED
    BY <1>4, <1>5

\* The outcome is recorded, or the answer recorded as sent.
LEMMA RecordBase ==
    ASSUME VerdictsAssumption, Base, NEW a \in Asks, Record(a) \/ Sent(a)
    PROVE  Base' /\ SamePush
  <1>1. PICK p \in {"recording", "closing"} : Goto(a, p)
    BY DEF Record, Sent
  <1>2. p \in Pcs /\ p \in Waiting /\ p # "push"
    BY DEF Pcs, Waiting
  <1>3. CallShape' /\ \A b \in Asks : call'[b].pc = (IF b = a THEN p ELSE call[b].pc)
    BY <1>1, <1>2, GotoMoves DEF Base
  <1>4. call[a].pc \in {"outcome", "wire"}
    BY DEF Record, Sent, At
  <1>5. hist' \in [Asks -> Rows]
    <2>1. hist \in [Asks -> Rows]
      BY DEF Base, RowsShape
    <2>2. [hist[a] EXCEPT !.sent = TRUE] \in Rows
      BY <2>1 DEF Rows
    <2>3. hist' = hist \/ hist' = [hist EXCEPT ![a] = [hist[a] EXCEPT !.sent = TRUE]]
      BY DEF Record, Sent
    <2> QED
      BY <2>1, <2>2, <2>3
  <1>6. InboxShape' /\ disk' = disk
    BY DEF Record, Sent, Base, InboxShape, askVars, bounds
  <1>7. saves' = Save(hist', a)
    BY DEF Record, Sent, Save
  <1>8. \A b \in Asks : call'[b].pc \in Waiting <=> (call[b].pc \in Waiting \/ b = a)
    BY <1>2, <1>3
  <1>9. call[a].pc \notin Waiting /\ SamePush
    BY <1>2, <1>3, <1>4 DEF Waiting, SamePush
  <1>10. RowsShape' /\ SavesInv'
    BY <1>5, <1>6, <1>7, <1>8, <1>9, WrittenFor DEF Base
  <1> QED
    BY <1>3, <1>6, <1>9, <1>10 DEF Base

\* Another phone has answered meanwhile.
LEMMA OvertakenBase ==
    ASSUME VerdictsAssumption, Base, NEW a \in Asks, Overtaken(a)
    PROVE  Base' /\ SamePush
  <1>1. CallShape' /\ \A b \in Asks : call'[b].pc = (IF b = a THEN "none" ELSE call[b].pc)
    BY CallEnds DEF Overtaken, Base
  <1>2. call[a].pc = "check" /\ disk' = disk /\ MarkAnswered(a, replied[a]) /\ replied[a] \in Verdicts
    BY DEF Overtaken, At, Base, InboxShape
  <1>3. SameWaits /\ SamePush
    BY <1>1, <1>2 DEF SameWaits, SamePush, Waiting
  <1>4. RowsShape' /\ SavesInv' /\ ask' \in [Asks -> {"unseen", "listed", "gone"}]
    BY <1>2, <1>3, MarkedBase DEF Base
  <1>5. UNCHANGED <<replied, relay, restarts>>
    BY DEF Overtaken, bounds
  <1> QED
    BY <1>1, <1>3, <1>4, <1>5 DEF Base, InboxShape

\* A write ends: whoever waited for it goes on, or has failed.
LEMMA SavingBase ==
    ASSUME VerdictsAssumption, Base, NEW i \in DOMAIN saves, Saving(i)
    PROVE  Base' /\ SamePush
  <1> DEFINE a == saves[i].for
             n == Len(saves) - 1
  <1>1. saves \in Seq(SaveRecs) /\ saves[i] \in SaveRecs /\ DOMAIN saves = 1..Len(saves) /\ Len(saves) \in Nat
    BY DEF Base, RowsShape
  <1>2. a \in Asks \cup {"nobody"} /\ saves[i].row \in [Asks -> Rows]
    BY <1>1 DEF SaveRecs
  <1>3. InboxShape'
    BY DEF Saving, SaveLands, SaveFails, Base, InboxShape, askVars, bounds
  <1>4. hist' \in [Asks -> Rows] /\ disk' \in [Asks -> Rows]
    <2>1. None \in Rows
      BY DEF None, Rows
    <2>2. hist \in [Asks -> Rows] /\ disk \in [Asks -> Rows]
      BY DEF Base, RowsShape
    <2>3. CASE SaveLands(i)
      BY <1>2, <2>2, <2>3 DEF SaveLands
    <2>4. CASE SaveFails(i)
      <3>1. disk' = disk /\ (hist' = hist \/ hist' = [hist EXCEPT ![a] = None])
        BY <2>4 DEF SaveFails
      <3> QED
        BY <2>1, <2>2, <3>1
    <2> QED
      BY <2>3, <2>4 DEF Saving
  <1>5. /\ saves' \in Seq(SaveRecs) /\ DOMAIN saves' = 1..n
        /\ \A j \in 1..n : saves'[j].for = (IF j < i THEN saves[j].for ELSE saves[j + 1].for)
    <2>1. CASE SaveLands(i)
      <3> DEFINE w(j) == IF j < i THEN [saves[j] EXCEPT !.late = ~LastPage] ELSE saves[j + 1]
      <3>1. saves' = [j \in 1..n |-> w(j)]
        BY <2>1 DEF SaveLands
      <3>2. ASSUME NEW j \in 1..n
            PROVE  w(j) \in SaveRecs /\ w(j).for = (IF j < i THEN saves[j].for ELSE saves[j + 1].for)
        <4>1. saves[j] \in SaveRecs /\ saves[j + 1] \in SaveRecs
          BY <1>1
        <4>2. (~LastPage) \in BOOLEAN
          BY DEF LastPage
        <4> QED
          BY <4>1, <4>2 DEF SaveRecs
      <3> HIDE DEF w
      <3>3. n \in Nat
        BY <1>1
      <3>4. saves' \in [1..n -> SaveRecs]
        BY <3>1, <3>2
      <3> QED
        BY <3>1, <3>2, <3>3, <3>4
    <2>2. CASE SaveFails(i)
      <3>1. saves' = RemoveAt(saves, i)
        BY <2>2 DEF SaveFails
      <3> QED
        BY <1>1, <3>1, OneLess
    <2> QED
      BY <2>1, <2>2 DEF Saving
  <1>6. CASE a \notin Asks
    <2>1. a = "nobody"
      BY <1>2, <1>6
    <2>2. call' = call
      BY <1>6, <2>1 DEF Saving, SaveLands, SaveFails, Continue
    <2>3. CallShape' /\ SamePush
      BY <2>2 DEF Base, CallShape, SamePush
    <2>4. \A b \in Asks : call'[b].pc \in Waiting <=> (call[b].pc \in Waiting /\ b # a)
      BY <1>6, <2>2
    <2>5. SavesInv'
      BY <1>1, <1>5, <2>4, SavesEnded DEF Base
    <2> QED
      BY <1>3, <1>4, <1>5, <2>3, <2>5 DEF Base, RowsShape
  <1>7. CASE a \in Asks
    <2>1. call[a].pc \in Waiting
      BY <1>7 DEF Base, SavesInv
    <2>2. Continue(a) \/ call' = [call EXCEPT ![a] = NoCall]
      BY DEF Saving, SaveLands, SaveFails
    <2>3. PICK p : /\ p \in {"weigh", "check", "none"}
                   /\ CallShape' /\ \A b \in Asks : call'[b].pc = (IF b = a THEN p ELSE call[b].pc)
      <3>1. CASE Continue(a)
        <4>1. CallShape' /\ Following[call[a].pc] \in {"weigh", "check", "none"}
              /\ \A b \in Asks : call'[b].pc = (IF b = a THEN Following[call[a].pc] ELSE call[b].pc)
          BY <1>7, <2>1, <3>1, ContinueMoves DEF Base
        <4> QED
          BY <4>1
      <3>2. CASE call' = [call EXCEPT ![a] = NoCall]
        <4>1. CallShape' /\ \A b \in Asks : call'[b].pc = (IF b = a THEN "none" ELSE call[b].pc)
          BY <1>7, <3>2, CallEnds DEF Base
        <4> QED
          BY <4>1
      <3> QED
        BY <2>2, <3>1, <3>2
    <2>4. \A b \in Asks : call'[b].pc \in Waiting <=> (call[b].pc \in Waiting /\ b # a)
      BY <2>3 DEF Waiting
    <2>5. SamePush
      BY <2>1, <2>3 DEF SamePush, Waiting
    <2>6. SavesInv'
      BY <1>1, <1>5, <2>4, SavesEnded DEF Base
    <2> QED
      BY <1>3, <1>4, <1>5, <2>3, <2>5, <2>6 DEF Base, RowsShape
  <1> QED
    BY <1>6, <1>7

-----------------------------------------------------------------------------
(* The operator lock: who waits for it, and for whom it is held.           *)

IsJob(j) == j \in [pc : {"idle", "list", "update"}, want : {j.want}, again : BOOLEAN]
QueueInv ==
    /\ queue \in Seq(Asks \cup {"regular"}) /\ IsInjective(queue)
    /\ push \in [armed : BOOLEAN, running : BOOLEAN, queued : BOOLEAN]
    /\ IsJob(job)
    /\ job.pc # "idle" => queue # <<>>
    /\ push.running <=> "regular" \in ToSet(queue)
    /\ push.queued => push.running
    /\ \A a \in Asks : call[a].pc = "push" <=> a \in ToSet(queue)

(* A push that has read the rules and entries compiles what they say now,  *)
(* or another push is on its way that will; and so is one when the device  *)
(* was left with something else.                                           *)
SettleInv ==
    /\ job.pc # "idle" =>
          \/ job.want = Ceiling \/ push.armed \/ push.queued
          \/ push.running /\ Head(queue) # "regular"
    /\ agreed /\ ceiling # Ceiling => push.armed \/ push.queued \/ push.running

\* Somebody joins the line.
LEMMA Joins ==
    ASSUME NEW S, NEW q \in Seq(S), IsInjective(q), NEW x \in S, x \notin ToSet(q)
    PROVE  /\ Append(q, x) \in Seq(S) /\ IsInjective(Append(q, x))
           /\ \A y : y \in ToSet(Append(q, x)) <=> (y \in ToSet(q) \/ y = x)
           /\ Append(q, x) # <<>> /\ (q # <<>> => Head(Append(q, x)) = Head(q))
  <1> DEFINE p == Append(q, x)
  <1>1. /\ p \in Seq(S) /\ DOMAIN p = 1..Len(q) + 1 /\ DOMAIN q = 1..Len(q) /\ Len(q) \in Nat
        /\ p[Len(q) + 1] = x /\ \A i \in 1..Len(q) : p[i] = q[i]
    OBVIOUS
  <1>2. p # <<>> /\ (q # <<>> => Head(p) = Head(q))
    OBVIOUS
  <1> HIDE DEF p
  <1>3. IsInjective(p)
    BY <1>1 DEF IsInjective, ToSet
  <1>4. \A y : y \in ToSet(p) <=> (y \in ToSet(q) \/ y = x)
    BY <1>1 DEF ToSet
  <1> QED
    BY <1>1, <1>2, <1>3, <1>4 DEF p

\* The first leaves it.
LEMMA Leaves ==
    ASSUME NEW S, NEW q \in Seq(S), IsInjective(q), q # <<>>
    PROVE  /\ Tail(q) \in Seq(S) /\ IsInjective(Tail(q))
           /\ \A y : y \in ToSet(Tail(q)) <=> (y \in ToSet(q) /\ y # Head(q))
           /\ Head(q) \in ToSet(q) /\ Head(q) \in S
  <1> DEFINE p == Tail(q)
  <1>1. /\ p \in Seq(S) /\ DOMAIN p = 1..Len(q) - 1 /\ DOMAIN q = 1..Len(q) /\ Len(q) \in Nat /\ Len(q) > 0
        /\ q[1] = Head(q) /\ \A i \in 1..Len(q) - 1 : p[i] = q[i + 1]
    OBVIOUS
  <1>2. Head(q) \in S
    OBVIOUS
  <1> HIDE DEF p
  <1>3. IsInjective(p)
    BY <1>1 DEF IsInjective
  <1>4. \A y : y \in ToSet(p) => y \in ToSet(q) /\ y # Head(q)
    BY <1>1 DEF ToSet, IsInjective
  <1>5. ASSUME NEW y \in ToSet(q), y # Head(q)
        PROVE  y \in ToSet(p)
    <2>1. PICK i \in 1..Len(q) : q[i] = y
      BY <1>1 DEF ToSet
    <2>2. i - 1 \in 1..Len(q) - 1 /\ p[i - 1] = q[i]
      BY <1>1, <1>5, <2>1
    <2> QED
      BY <1>1, <2>1, <2>2 DEF ToSet
  <1>6. Head(q) \in ToSet(q)
    BY <1>1 DEF ToSet
  <1> QED
    BY <1>1, <1>2, <1>3, <1>4, <1>5, <1>6 DEF p

\* Nothing happens to the line; the timer of a push may be armed.
LEMMA LineSame ==
    ASSUME QueueInv, SamePush, UNCHANGED <<queue, job>>,
           push' = push \/ push' = [push EXCEPT !.armed = TRUE]
    PROVE  /\ QueueInv'
           /\ push'.running = push.running /\ push'.queued = push.queued
           /\ push.armed => push'.armed
           /\ push' # push => push'.armed
  BY DEF QueueInv, SamePush

\* The stores change, and then the timer is armed.
LEMMA SettleKept ==
    ASSUME QueueInv, SettleInv, SamePush, UNCHANGED <<queue, job, ceiling, agreed>>,
           \/ push' = push /\ UNCHANGED <<once, allowed>>
           \/ push' = [push EXCEPT !.armed = TRUE]
    PROVE  QueueInv' /\ SettleInv'
  <1>1. /\ QueueInv'
        /\ push'.running = push.running /\ push'.queued = push.queued
        /\ push.armed => push'.armed
        /\ push' # push => push'.armed
    BY LineSame
  <1>2. CASE UNCHANGED <<push, once, allowed>>
    <2>1. Ceiling' = Ceiling
      BY <1>2 DEF Ceiling
    <2> QED
      BY <1>1, <1>2, <2>1 DEF SettleInv
  <1>3. CASE push' = [push EXCEPT !.armed = TRUE]
    <2>1. push'.armed
      BY <1>3 DEF QueueInv
    <2> QED
      BY <1>1, <2>1 DEF SettleInv
  <1> QED
    BY <1>2, <1>3

\* What a call adds to the stores, or takes out, arms the push.
LEMMA StoresArm ==
    ASSUME NEW a \in Asks,
           \/ Deny(a) \/ Refuse(a) \/ Once(a) \/ Always(a) \/ RuleSaved(a) \/ GiveUp(a)
           \/ Record(a) \/ Overtaken(a) \/ Unanswered(a) \/ Publish(a) \/ Sent(a) \/ NotSent(a)
    PROVE  /\ UNCHANGED <<queue, job, ceiling, agreed>>
           /\ \/ push' = push /\ UNCHANGED <<once, allowed>>
              \/ push' = [push EXCEPT !.armed = TRUE]
  <1>1. CASE Deny(a) \/ Refuse(a) \/ Once(a) \/ Always(a) \/ RuleSaved(a) \/ GiveUp(a)
    BY <1>1 DEF Deny, Refuse, Once, Always, RuleSaved, GiveUp, storeVars, lockVars, deviceVars
  <1>2. CASE Record(a) \/ Unanswered(a) \/ Publish(a) \/ Sent(a)
    BY <1>2 DEF Record, Unanswered, Publish, Sent, storeVars, lockVars, deviceVars
  <1>3. CASE Overtaken(a) \/ NotSent(a)
    BY <1>3 DEF Overtaken, NotSent, GiveBack, deviceVars
  <1> QED
    BY <1>1, <1>2, <1>3

Inv == Base /\ QueueInv /\ SettleInv

\* Base over the steps that touch only the stores, the lock and the device.
LEMMA BaseSame ==
    ASSUME Base, CallShape', SameWaits, UNCHANGED <<ask, replied, relay, restarts, hist, disk, saves>>
    PROVE  Base'
  <1>1. RowsShape' /\ SavesInv'
    BY RowsSame DEF Base
  <1>2. InboxShape'
    BY DEF Base, InboxShape
  <1> QED
    BY <1>1, <1>2 DEF Base

LEMMA AskForLockInv ==
    ASSUME VerdictsAssumption, Inv, NEW a \in Asks, AskForLock(a)
    PROVE  Inv'
  <1>1. "push" \in Pcs /\ Goto(a, "push") /\ call[a].pc = "store"
    BY DEF AskForLock, At, Pcs
  <1>2. CallShape' /\ \A b \in Asks : call'[b].pc = (IF b = a THEN "push" ELSE call[b].pc)
    BY <1>1, GotoMoves DEF Inv, Base
  <1>3. UNCHANGED <<ask, replied, relay, restarts, hist, disk, saves, once, allowed, job, push, ceiling, agreed>>
    BY DEF AskForLock, askVars, savedVars, storeVars, deviceVars, bounds
  <1>4. SameWaits
    BY <1>1, <1>2 DEF SameWaits, Waiting
  <1>5. Base'
    BY <1>2, <1>3, <1>4, BaseSame DEF Inv
  <1>6. a # "regular" /\ a \notin ToSet(queue) /\ queue \in Seq(Asks \cup {"regular"}) /\ IsInjective(queue)
    BY <1>1 DEF VerdictsAssumption, Inv, QueueInv
  <1>7. /\ queue' \in Seq(Asks \cup {"regular"}) /\ IsInjective(queue')
        /\ \A y : y \in ToSet(queue') <=> (y \in ToSet(queue) \/ y = a)
        /\ queue' # <<>> /\ (queue # <<>> => Head(queue') = Head(queue))
    BY <1>6, Joins DEF AskForLock
  <1>8. QueueInv'
    BY <1>2, <1>3, <1>6, <1>7 DEF Inv, QueueInv, IsJob
  <1>9. Ceiling' = Ceiling
    BY <1>3 DEF Ceiling
  <1>10. SettleInv'
    BY <1>3, <1>7, <1>9 DEF Inv, QueueInv, SettleInv
  <1> QED
    BY <1>5, <1>8, <1>10 DEF Inv

LEMMA RunPushInv ==
    ASSUME VerdictsAssumption, Inv, RunPush
    PROVE  Inv'
  <1>1. UNCHANGED <<call, ask, replied, relay, restarts, hist, disk, saves, once, allowed, job, ceiling, agreed>>
    BY DEF RunPush, askVars, savedVars, storeVars, deviceVars, bounds
  <1>2. Base'
    BY <1>1, BaseSame DEF Inv, Base, CallShape, SameWaits
  <1>3. Ceiling' = Ceiling
    BY <1>1 DEF Ceiling
  <1>4. CASE push.running
    <2>1. queue' = queue /\ push' = [push EXCEPT !.armed = FALSE, !.queued = TRUE]
      BY <1>4 DEF RunPush
    <2>2. push'.queued /\ push'.running
      BY <1>4, <2>1 DEF Inv, QueueInv
    <2>3. QueueInv'
      BY <1>1, <1>4, <2>1, <2>2 DEF Inv, QueueInv, IsJob
    <2>4. SettleInv'
      BY <2>2 DEF SettleInv
    <2> QED
      BY <1>2, <2>3, <2>4 DEF Inv
  <1>5. CASE ~push.running
    <2>1. queue' = Append(queue, "regular") /\ push' = [push EXCEPT !.armed = FALSE, !.running = TRUE]
      BY <1>5 DEF RunPush
    <2>2. push'.running /\ push' \in [armed : BOOLEAN, running : BOOLEAN, queued : BOOLEAN]
      BY <2>1 DEF Inv, QueueInv
    <2>3. "regular" \notin ToSet(queue) /\ queue \in Seq(Asks \cup {"regular"}) /\ IsInjective(queue)
      BY <1>5 DEF Inv, QueueInv
    <2>4. /\ queue' \in Seq(Asks \cup {"regular"}) /\ IsInjective(queue')
          /\ \A y : y \in ToSet(queue') <=> (y \in ToSet(queue) \/ y = "regular")
          /\ queue' # <<>> /\ (queue # <<>> => Head(queue') = Head(queue))
      BY <2>1, <2>3, Joins
    <2>5. "regular" \notin Asks
      BY DEF VerdictsAssumption
    <2>6. QueueInv'
      BY <1>1, <2>2, <2>3, <2>4, <2>5 DEF Inv, QueueInv, IsJob
    <2>7. job.pc # "idle" => Head(queue') # "regular"
      BY <2>3, <2>4, Leaves DEF Inv, QueueInv
    <2>8. SettleInv'
      BY <1>1, <2>2, <2>7 DEF SettleInv
    <2> QED
      BY <1>2, <2>6, <2>8 DEF Inv
  <1> QED
    BY <1>4, <1>5

LEMMA HolderReads ==
    ASSUME Inv, TakeLock \/ MustChange \/ Stale
    PROVE  Inv'
  <1>1. UNCHANGED <<call, ask, replied, relay, restarts, hist, disk, saves, once, allowed, queue, push, ceiling, agreed>>
    BY DEF TakeLock, MustChange, Stale, askVars, savedVars, storeVars, deviceVars, bounds
  <1>2. Base'
    BY <1>1, BaseSame DEF Inv, Base, CallShape, SameWaits
  <1>3. Ceiling' = Ceiling
    BY <1>1 DEF Ceiling
  <1>4. queue # <<>>
    BY DEF TakeLock, MustChange, Stale, Inv, QueueInv
  <1>5. IsJob(job') /\ (job'.want = Ceiling \/ (job.pc # "idle" /\ job'.want = job.want))
    <2>1. CASE TakeLock
      <3>1. job' = [pc |-> "list", want |-> Ceiling, again |-> FALSE]
        BY <2>1 DEF TakeLock
      <3>2. job'.want = Ceiling
        BY <3>1
      <3>3. job' \in [pc : {"idle", "list", "update"}, want : {job'.want}, again : BOOLEAN]
        BY <3>1, <3>2
      <3> QED
        BY <3>2, <3>3 DEF IsJob
    <2>2. CASE MustChange
      BY <2>2 DEF MustChange, Inv, QueueInv, IsJob
    <2>3. CASE Stale
      BY <2>3 DEF Stale, Inv, QueueInv, IsJob
    <2> QED
      BY <2>1, <2>2, <2>3
  <1>6. QueueInv'
    BY <1>1, <1>4, <1>5 DEF Inv, QueueInv, IsJob
  <1>7. SettleInv'
    BY <1>1, <1>3, <1>5 DEF Inv, SettleInv
  <1> QED
    BY <1>2, <1>6, <1>7 DEF Inv

\* The timer may be armed when a failed answer gives its entries back.
LEMMA GiveBackArms ==
    ASSUME NEW a, GiveBack(a)
    PROVE  (push' = push /\ once' = once) \/ push' = [push EXCEPT !.armed = TRUE]
  BY DEF GiveBack

\* The line after a push: the next in line, or the run that was asked for.
LEMMA PushEndsQueue ==
    ASSUME VerdictsAssumption, Inv, NEW ok \in BOOLEAN, job.pc # "idle", PushEnds(ok)
    PROVE  /\ Base' /\ QueueInv'
           /\ push.armed => push'.armed
           /\ push.queued => push'.queued \/ push'.running
           /\ push.running /\ Head(queue) # "regular" => push'.running
           /\ ok => UNCHANGED <<once, allowed>>
  <1> DEFINE h == Head(queue)
  <1>1. /\ queue \in Seq(Asks \cup {"regular"}) /\ IsInjective(queue) /\ queue # <<>>
        /\ push \in [armed : BOOLEAN, running : BOOLEAN, queued : BOOLEAN]
    BY DEF Inv, QueueInv
  <1>2. /\ Tail(queue) \in Seq(Asks \cup {"regular"}) /\ IsInjective(Tail(queue))
        /\ \A y : y \in ToSet(Tail(queue)) <=> (y \in ToSet(queue) /\ y # h)
        /\ h \in ToSet(queue) /\ h \in Asks \cup {"regular"}
    BY <1>1, Leaves
  <1>3. UNCHANGED <<ask, replied, relay, restarts, hist, disk, saves, allowed>> /\ job' = NoJob
    BY DEF PushEnds, askVars, savedVars, bounds
  <1>4. IsJob(job') /\ job'.pc = "idle"
    BY <1>3 DEF IsJob, NoJob
  <1>5. "regular" \notin Asks
    BY DEF VerdictsAssumption
  <1> HIDE DEF h
  <1>6. CASE h = "regular"
    <2>1. /\ push' = [push EXCEPT !.running = push.queued, !.queued = FALSE]
          /\ queue' = IF push.queued THEN Append(Tail(queue), "regular") ELSE Tail(queue)
          /\ UNCHANGED <<call, once>>
      BY <1>6 DEF PushEnds, h
    <2>2. /\ push' \in [armed : BOOLEAN, running : BOOLEAN, queued : BOOLEAN]
          /\ push'.armed = push.armed /\ push'.running = push.queued /\ ~push'.queued
      BY <1>1, <2>1
    <2>3. Base'
      BY <1>3, <2>1, BaseSame DEF Inv, Base, CallShape, SameWaits
    <2>4. "regular" \notin ToSet(Tail(queue))
      BY <1>2, <1>6
    <2>5. /\ queue' \in Seq(Asks \cup {"regular"}) /\ IsInjective(queue')
          /\ \A y : y \in ToSet(queue') <=> (y \in ToSet(Tail(queue)) \/ (push.queued /\ y = "regular"))
      <3>1. CASE push.queued
        <4> DEFINE t == Tail(queue)
        <4>1. queue' = Append(t, "regular") /\ "regular" \in Asks \cup {"regular"}
          BY <2>1, <3>1
        <4>2. t \in Seq(Asks \cup {"regular"}) /\ IsInjective(t) /\ "regular" \notin ToSet(t)
          BY <1>2, <2>4
        <4> HIDE DEF t
        <4>3. /\ Append(t, "regular") \in Seq(Asks \cup {"regular"}) /\ IsInjective(Append(t, "regular"))
              /\ \A y : y \in ToSet(Append(t, "regular")) <=> (y \in ToSet(t) \/ y = "regular")
          BY <4>1, <4>2, Joins
        <4> QED
          BY <3>1, <4>1, <4>3 DEF t
      <3>2. CASE ~push.queued
        BY <1>2, <2>1, <3>2
      <3> QED
        BY <3>1, <3>2
    <2>6. \A a \in Asks : call'[a].pc = "push" <=> a \in ToSet(queue')
      BY <1>2, <1>5, <1>6, <2>1, <2>5 DEF Inv, QueueInv
    <2>7. push'.running <=> "regular" \in ToSet(queue')
      BY <2>2, <2>4, <2>5
    <2>8. QueueInv'
      BY <1>4, <2>2, <2>5, <2>6, <2>7 DEF QueueInv
    <2> QED
      BY <1>3, <1>6, <2>1, <2>2, <2>3, <2>8 DEF h
  <1>7. CASE h # "regular"
    <2>1. h \in Asks /\ queue' = Tail(queue)
      BY <1>2, <1>7 DEF PushEnds, h
    <2>2. CallShape' /\ \A b \in Asks : call'[b].pc = (IF b = h THEN "outcome" ELSE call[b].pc)
      <3>1. CASE ok
        <4>1. "outcome" \in Pcs /\ call' = [call EXCEPT ![h] = [@ EXCEPT !.pc = "outcome"]]
          BY <1>7, <3>1 DEF PushEnds, h, Pcs
        <4> QED
          BY <2>1, <4>1, StepMoves DEF Inv, Base
      <3>2. CASE ~ok
        <4>1. call' = [call EXCEPT ![h] = Denied]
          BY <1>7, <3>2 DEF PushEnds, h
        <4> QED
          BY <2>1, <4>1, DeniedMoves DEF Inv, Base
      <3> QED
        BY <3>1, <3>2
    <2>3. call[h].pc = "push"
      BY <1>2, <2>1 DEF Inv, QueueInv
    <2>4. Base'
      BY <1>3, <2>2, <2>3, BaseSame DEF Inv, SameWaits, Waiting
    <2>5. push' = push \/ push' = [push EXCEPT !.armed = TRUE]
      <3>1. CASE ok
        BY <1>7, <3>1 DEF PushEnds, h
      <3>2. CASE ~ok
        BY <1>7, <3>2, GiveBackArms DEF PushEnds, h
      <3> QED
        BY <3>1, <3>2
    <2>6. /\ push' \in [armed : BOOLEAN, running : BOOLEAN, queued : BOOLEAN]
          /\ (push.armed => push'.armed) /\ push'.running = push.running /\ push'.queued = push.queued
      BY <1>1, <2>5
    <2>7. \A a \in Asks : call'[a].pc = "push" <=> a \in ToSet(queue')
      BY <1>2, <2>1, <2>2 DEF Inv, QueueInv
    <2>8. push'.running <=> "regular" \in ToSet(queue')
      BY <1>2, <1>7, <2>1, <2>6 DEF Inv, QueueInv
    <2>9. QueueInv'
      BY <1>2, <1>4, <2>1, <2>6, <2>7, <2>8 DEF Inv, QueueInv
    <2>10. ok => UNCHANGED <<once, allowed>>
      BY <1>3, <1>7 DEF PushEnds, h
    <2> QED
      BY <2>4, <2>6, <2>9, <2>10 DEF h
  <1> QED
    BY <1>6, <1>7

LEMMA PushEndsInv ==
    ASSUME VerdictsAssumption, Inv, AlreadyRight \/ Updated \/ Unconfirmed \/ PushFails
    PROVE  Inv'
  <1>1. PICK ok \in BOOLEAN : PushEnds(ok) /\ job.pc # "idle" /\ (ok => ceiling' = job.want)
    <2>1. CASE AlreadyRight
      BY <2>1 DEF AlreadyRight
    <2>2. CASE Updated
      BY <2>2 DEF Updated
    <2>3. CASE Unconfirmed
      BY <2>3 DEF Unconfirmed
    <2>4. CASE PushFails
      BY <2>4 DEF PushFails
    <2> QED
      BY <2>1, <2>2, <2>3, <2>4
  <1>2. /\ Base' /\ QueueInv'
        /\ push.armed => push'.armed
        /\ push.queued => push'.queued \/ push'.running
        /\ push.running /\ Head(queue) # "regular" => push'.running
        /\ ok => UNCHANGED <<once, allowed>>
    BY <1>1, PushEndsQueue
  <1>3. job'.pc = "idle" /\ agreed' = ok
    BY <1>1 DEF PushEnds, NoJob
  <1>4. ok => Ceiling' = Ceiling
    BY <1>2 DEF Ceiling
  <1>5. SettleInv'
    BY <1>1, <1>2, <1>3, <1>4 DEF Inv, SettleInv
  <1> QED
    BY <1>2, <1>5 DEF Inv

-----------------------------------------------------------------------------
(* The invariant, and the steps of everything else.                        *)

LEMMA InitInv == ASSUME VerdictsAssumption, Init PROVE Inv
  <1>1. Base
    BY BaseInit
  <1>2. /\ queue = <<>> /\ job = NoJob /\ push = [armed |-> FALSE, running |-> FALSE, queued |-> FALSE]
        /\ ceiling = Ceiling /\ \A a \in Asks : call[a] = NoCall
    BY DEF Init
  <1>3. IsJob(NoJob) /\ NoJob.pc = "idle" /\ NoCall.pc = "none"
    BY DEF IsJob, NoJob, NoCall
  <1>4. queue \in Seq(Asks \cup {"regular"}) /\ IsInjective(queue) /\ ToSet(queue) = {}
    BY <1>2 DEF IsInjective, ToSet
  <1>5. QueueInv
    BY <1>2, <1>3, <1>4 DEF QueueInv
  <1>6. SettleInv
    BY <1>2, <1>3 DEF SettleInv
  <1> QED
    BY <1>1, <1>5, <1>6 DEF Inv

\* What touches neither the lock nor the device.
LEMMA KeptInv ==
    ASSUME Inv, Base', SamePush, UNCHANGED <<queue, job, ceiling, agreed>>,
           \/ push' = push /\ UNCHANGED <<once, allowed>>
           \/ push' = [push EXCEPT !.armed = TRUE]
    PROVE  Inv'
  BY SettleKept DEF Inv

LEMMA InboxInv ==
    ASSUME VerdictsAssumption, Inv, NEW a \in Asks,
           \/ AskArrives(a) \/ AskExpires(a) \/ ChooseAnswered(a)
           \/ \E v \in Verdicts : ReplyArrives(a, v) \/ OtherAnswers(a, v)
    PROVE  Inv'
  <1>1. Base' /\ call' = call
    BY InboxBase DEF Inv
  <1>2. UNCHANGED <<queue, job, push, once, allowed, ceiling, agreed>>
    BY DEF AskArrives, AskExpires, ChooseAnswered, ReplyArrives, OtherAnswers, storeVars, lockVars, deviceVars
  <1> QED
    BY <1>1, <1>2, KeptInv DEF SamePush

LEMMA ChooseInv ==
    ASSUME VerdictsAssumption, Inv, NEW a \in Asks, NEW v \in Verdicts, Choose(a, v)
    PROVE  Inv'
  <1>1. Base' /\ SamePush
    BY ChooseBase DEF Inv
  <1>2. UNCHANGED <<queue, job, push, once, allowed, ceiling, agreed>>
    BY DEF Choose, storeVars, lockVars, deviceVars
  <1> QED
    BY <1>1, <1>2, KeptInv

LEMMA DecidesInv ==
    ASSUME VerdictsAssumption, Inv, NEW a \in Asks, Decides(a)
    PROVE  Inv'
  <1>1. CASE AskForLock(a)
    BY <1>1, AskForLockInv
  <1>2. CASE ~AskForLock(a)
    <2>1. \/ Deny(a) \/ Refuse(a) \/ Once(a) \/ Always(a) \/ RuleSaved(a) \/ GiveUp(a)
          \/ Record(a) \/ Overtaken(a) \/ Unanswered(a) \/ Publish(a) \/ Sent(a) \/ NotSent(a)
      BY <1>2 DEF Decides
    <2>2. Base' /\ SamePush
      BY <2>1, DecideBase, RecordBase, OvertakenBase DEF Inv
    <2>3. /\ UNCHANGED <<queue, job, ceiling, agreed>>
          /\ \/ push' = push /\ UNCHANGED <<once, allowed>>
             \/ push' = [push EXCEPT !.armed = TRUE]
      BY <2>1, StoresArm
    <2> QED
      BY <2>2, <2>3, KeptInv
  <1> QED
    BY <1>1, <1>2

LEMMA SavingInv ==
    ASSUME VerdictsAssumption, Inv, NEW i \in DOMAIN saves, Saving(i)
    PROVE  Inv'
  <1>1. Base' /\ SamePush
    BY SavingBase DEF Inv
  <1>2. UNCHANGED <<queue, job, push, once, allowed, ceiling, agreed>>
    BY DEF Saving, SaveLands, SaveFails, storeVars, lockVars, deviceVars
  <1> QED
    BY <1>1, <1>2, KeptInv

\* The clock and the other managers of the device.
LEMMA OutsideInv ==
    ASSUME VerdictsAssumption, Inv, WindowsEnd \/ \E c \in Foreign : OtherWrites(c)
    PROVE  Inv'
  <1>1. UNCHANGED <<call, ask, replied, relay, restarts, hist, disk, saves, allowed, queue, job>>
    BY DEF WindowsEnd, OtherWrites, askVars, savedVars, storeVars, lockVars
  <1>2. Base' /\ SamePush
    BY <1>1, BaseSame DEF Inv, Base, CallShape, SameWaits, SamePush
  <1>3. CASE WindowsEnd
    <2>1. push' = [push EXCEPT !.armed = TRUE] /\ UNCHANGED <<ceiling, agreed>>
      BY <1>3 DEF WindowsEnd, deviceVars
    <2> QED
      BY <1>1, <1>2, <2>1, KeptInv
  <1>4. CASE \E c \in Foreign : OtherWrites(c)
    <2>1. UNCHANGED <<once, push>> /\ agreed' = FALSE
      BY <1>4 DEF OtherWrites, storeVars, lockVars
    <2>2. Ceiling' = Ceiling
      BY <1>1, <2>1 DEF Ceiling
    <2>3. QueueInv'
      BY <1>1, <1>2, <2>1, LineSame DEF Inv
    <2>4. SettleInv'
      BY <1>1, <2>1, <2>2 DEF Inv, SettleInv
    <2> QED
      BY <1>2, <2>3, <2>4 DEF Inv
  <1> QED
    BY <1>3, <1>4

\* The page comes back with nothing under way and its usual push armed.
LEMMA RestartInv ==
    ASSUME VerdictsAssumption, Inv, Restart
    PROVE  Inv'
  <1>1. /\ replied' = [a \in Asks |-> "none"] /\ relay' = relay /\ restarts' = restarts + 1
        /\ hist' = disk /\ disk' = disk /\ saves' = <<>> /\ call' = [a \in Asks |-> NoCall]
        /\ queue' = <<>> /\ job' = NoJob /\ agreed' = FALSE
        /\ push' = [armed |-> TRUE, running |-> FALSE, queued |-> FALSE]
    BY DEF Restart
  <1>2. InboxShape'
    <2>1. ask' \in [Asks -> {"unseen", "listed", "gone"}]
      BY DEF Restart
    <2> QED
      BY <1>1, <2>1 DEF Inv, Base, InboxShape
  <1>3. IsCall(NoCall) /\ NoCall.pc = "none"
    BY DEF IsCall, NoCall, Pcs
  <1>4. CallShape' /\ \A a \in Asks : call'[a].pc = "none"
    BY <1>1, <1>3 DEF CallShape, IsCall
  <1>5. RowsShape'
    BY <1>1 DEF Inv, Base, RowsShape
  <1>6. SavesInv'
    BY <1>1, <1>4 DEF SavesInv, Waiting
  <1>7. IsJob(NoJob) /\ NoJob.pc = "idle"
    BY DEF IsJob, NoJob
  <1>8. queue' \in Seq(Asks \cup {"regular"}) /\ IsInjective(queue') /\ ToSet(queue') = {}
    BY <1>1 DEF IsInjective, ToSet
  <1>9. QueueInv'
    BY <1>1, <1>4, <1>7, <1>8 DEF QueueInv, IsJob
  <1>10. SettleInv'
    BY <1>1, <1>7 DEF SettleInv
  <1> QED
    BY <1>2, <1>4, <1>5, <1>6, <1>9, <1>10 DEF Inv, Base

LEMMA StutterInv ==
    ASSUME Inv, UNCHANGED vars
    PROVE  Inv'
  <1>1. UNCHANGED <<call, ask, replied, relay, restarts, hist, disk, saves, once, allowed,
                    queue, job, push, ceiling, agreed>>
    BY DEF vars, askVars, savedVars, storeVars, lockVars, deviceVars, bounds
  <1>2. Base' /\ SamePush
    BY <1>1, BaseSame DEF Inv, Base, CallShape, SameWaits, SamePush
  <1> QED
    BY <1>1, <1>2, KeptInv

LEMMA NextInv ==
    ASSUME VerdictsAssumption, Inv, [Next]_vars
    PROVE  Inv'
  <1>1. ASSUME NEW a \in Asks,
               \/ AskArrives(a) \/ AskExpires(a) \/ ChooseAnswered(a) \/ Decides(a)
               \/ \E v \in Verdicts : ReplyArrives(a, v)
               \/ \E v \in Answers[a] : Choose(a, v)
               \/ \E v \in OthersSay : OtherAnswers(a, v)
        PROVE  Inv'
    <2>1. Answers[a] \subseteq Verdicts /\ OthersSay \subseteq Verdicts
      BY DEF VerdictsAssumption, Verdicts
    <2>2. CASE Decides(a)
      BY <2>2, DecidesInv
    <2>3. CASE \E v \in Answers[a] : Choose(a, v)
      BY <2>1, <2>3, ChooseInv
    <2>4. CASE \/ AskArrives(a) \/ AskExpires(a) \/ ChooseAnswered(a)
               \/ \E v \in Verdicts : ReplyArrives(a, v) \/ OtherAnswers(a, v)
      BY <2>4, InboxInv
    <2> QED
      BY <1>1, <2>1, <2>2, <2>3, <2>4
  <1>2. ASSUME NEW i \in DOMAIN saves, Saving(i) PROVE Inv'
    BY <1>2, SavingInv
  <1>3. CASE Pushes
    <2>1. CASE RunPush
      BY <2>1, RunPushInv
    <2>2. CASE TakeLock \/ MustChange \/ Stale
      BY <2>2, HolderReads
    <2>3. CASE AlreadyRight \/ Updated \/ Unconfirmed \/ PushFails
      BY <2>3, PushEndsInv
    <2> QED
      BY <1>3, <2>1, <2>2, <2>3 DEF Pushes
  <1>4. CASE WindowsEnd \/ \E c \in Foreign : OtherWrites(c)
    BY <1>4, OutsideInv
  <1>5. CASE Restart
    BY <1>5, RestartInv
  <1>6. CASE UNCHANGED vars
    BY <1>6, StutterInv
  <1> QED
    BY <1>1, <1>2, <1>3, <1>4, <1>5, <1>6 DEF Next

(* Everything the safety theorems rest on holds in every reachable state of *)
(* decide(), the operator lock and the push: the queue of the lock names    *)
(* the calls that wait for it and nobody else, one write at a time is       *)
(* between its read and its save, and the ceiling on the device and the one *)
(* a push under way has compiled differ from what rules and open entries    *)
(* say only while something is armed to push again.                         *)
THEOREM Invariance == Spec => []Inv
  <1>1. Init => Inv
    BY VerdictsAssumption, InitInv
  <1>2. Inv /\ [Next]_vars => Inv'
    BY VerdictsAssumption, NextInv
  <1> QED
    BY <1>1, <1>2, PTL DEF Spec

(* Whenever no push is armed, queued or running and the last one was        *)
(* confirmed, the device lists what rules and open entries say: the         *)
(* follow-up of usePolicyPush misses no change.                             *)
THEOREM SettledRightHolds == Spec => []SettledRight
  <1>1. Inv => SettledRight
    BY DEF Inv, QueueInv, SettleInv, SettledRight
  <1> QED
    BY <1>1, Invariance, PTL

(* A call of decide() that waits for its save or its push is in line for    *)
(* it, once, and the operator lock is never held for nobody.                *)
THEOREM NobodyStuckHolds == Spec => []NobodyStuck
  <1>1. ASSUME Inv PROVE NobodyStuck
    <2>1. QueueInv /\ SavesInv
      BY <1>1 DEF Inv, Base
    <2>2. ASSUME NEW a \in Asks, call[a].pc \in Waiting
          PROVE  \E i \in DOMAIN saves : \A j \in DOMAIN saves : saves[j].for = a <=> j = i
      <3>1. PICK i \in DOMAIN saves : saves[i].for = a
        BY <2>1, <2>2 DEF SavesInv
      <3>2. \A j \in DOMAIN saves : saves[j].for = a => j = i
        BY <2>1, <3>1 DEF SavesInv
      <3> QED
        BY <3>1, <3>2
    <2> QED
      BY <2>1, <2>2 DEF QueueInv, NobodyStuck, At, Waiting
  <1> QED
    BY <1>1, Invariance, PTL

-----------------------------------------------------------------------------
(* A verdict that was sent is the last.                                    *)

(* An answered ask is settled and no call of it goes on, except the one     *)
(* that still writes the history; an ask that is not known has no call.     *)
Calm == {"none", "closing"}
SentInv ==
    \A a \in Asks :
        /\ hist[a].sent => ask[a] = "gone" /\ call[a].pc \in Calm
        /\ ask[a] = "unseen" => call[a].pc = "none"

Settled(a) == hist[a].sent => hist'[a] = hist[a] /\ Ours(a)' = Ours(a)
Final == \A a \in Asks : Settled(a)

\* What concerns one ask, and no other.
Alone(a) ==
    \A b \in Asks \ {a} :
        /\ ask'[b] = ask[b] /\ hist'[b] = hist[b] /\ relay'[b] = relay[b]
        /\ call'[b].pc = call[b].pc
LEMMA OneAsk ==
    ASSUME SentInv, NEW a \in Asks, Alone(a), Settled(a),
           hist'[a].sent => ask'[a] = "gone" /\ call'[a].pc \in Calm,
           ask'[a] = "unseen" => call'[a].pc = "none"
    PROVE  SentInv' /\ Final
  BY DEF SentInv, Alone, Settled, Final, Ours

\* What concerns no ask but the step of its call.
LEMMA NoAsk ==
    ASSUME SentInv, UNCHANGED <<ask, hist, relay>>,
           \A b \in Asks : call'[b].pc = call[b].pc \/ call[b].pc \notin Calm
    PROVE  SentInv' /\ Final
  BY DEF SentInv, Final, Settled, Ours, Calm

\* The entry of an ask that is answered, and the ask with it.
LEMMA MarkedSent ==
    ASSUME Base, NEW a \in Asks, NEW v, MarkAnswered(a, v)
    PROVE  /\ ask'[a] = "gone"
           /\ \A b \in Asks \ {a} : ask'[b] = ask[b] /\ hist'[b] = hist[b]
  BY DEF MarkAnswered, Base, InboxShape, RowsShape

LEMMA InboxSent ==
    ASSUME VerdictsAssumption, Base, SentInv, NEW a \in Asks,
           \/ AskArrives(a) \/ AskExpires(a) \/ ChooseAnswered(a)
           \/ \E v \in Verdicts : ReplyArrives(a, v) \/ OtherAnswers(a, v)
    PROVE  SentInv' /\ Final
  <1>1. call' = call
    BY InboxBase
  <1>2. /\ ask \in [Asks -> {"unseen", "listed", "gone"}] /\ hist \in [Asks -> Rows]
        /\ relay \in [Asks -> SUBSET ({"us", "other"} \X (Verdicts \cup {"none"}))]
    BY DEF Base, InboxShape, RowsShape
  <1>3. CASE AskArrives(a)
    <2>1. ask[a] = "unseen" /\ relay' = relay /\ call[a].pc = "none" /\ ~hist[a].sent
      BY <1>2, <1>3 DEF AskArrives, SentInv
    <2>2. ask'[a] # "unseen" /\ (hist'[a].sent => ask'[a] = "gone")
      BY <1>2, <1>3, <2>1 DEF AskArrives
    <2>3. \A b \in Asks \ {a} : ask'[b] = ask[b] /\ hist'[b] = hist[b]
      BY <1>2, <1>3 DEF AskArrives
    <2> QED
      BY <1>1, <2>1, <2>2, <2>3, OneAsk DEF Alone, Settled, Calm
  <1>4. CASE AskExpires(a)
    <2>1. UNCHANGED <<hist, relay>> /\ ask' = [ask EXCEPT ![a] = IF @ = "listed" THEN "gone" ELSE @]
      BY <1>4 DEF AskExpires, savedVars
    <2>2. \A b \in Asks \ {a} : ask'[b] = ask[b]
      BY <1>2, <2>1
    <2>3. (ask[a] = "gone" => ask'[a] = "gone") /\ (ask'[a] = "unseen" => ask[a] = "unseen")
      BY <1>2, <2>1
    <2>4. Alone(a) /\ Settled(a)
      BY <1>1, <2>1, <2>2 DEF Alone, Settled, Ours
    <2> QED
      BY <1>1, <2>1, <2>3, <2>4, OneAsk DEF SentInv
  <1>5. CASE ChooseAnswered(a)
    <2>1. ask[a] = "listed" /\ call[a].pc = "none" /\ relay' = relay /\ MarkAnswered(a, replied[a])
      BY <1>5 DEF ChooseAnswered, Deciding
    <2>2. ~hist[a].sent
      BY <2>1 DEF SentInv
    <2>3. ask'[a] = "gone" /\ Alone(a)
      BY <1>1, <2>1, MarkedSent DEF Alone
    <2> QED
      BY <1>1, <2>1, <2>2, <2>3, OneAsk DEF Settled, Calm
  <1>6. ASSUME NEW v \in Verdicts, ReplyArrives(a, v) PROVE SentInv' /\ Final
    <2>1. ~hist[a].sent /\ relay' = relay
      BY <1>6 DEF ReplyArrives
    <2>2. CASE Deciding(a)
      BY <1>1, <1>6, <2>1, <2>2, NoAsk DEF ReplyArrives
    <2>3. CASE ~Deciding(a)
      <3>1. MarkAnswered(a, v) /\ call[a].pc = "none"
        BY <1>6, <2>3 DEF ReplyArrives, Deciding
      <3>2. ask'[a] = "gone" /\ Alone(a)
        BY <1>1, <2>1, <3>1, MarkedSent DEF Alone
      <3> QED
        BY <1>1, <2>1, <3>1, <3>2, OneAsk DEF Settled, Calm
    <2> QED
      BY <2>2, <2>3
  <1>7. ASSUME NEW v \in Verdicts, OtherAnswers(a, v) PROVE SentInv' /\ Final
    <2>1. UNCHANGED <<ask, hist>> /\ ~hist[a].sent /\ relay' = [relay EXCEPT ![a] = @ \cup {<<"other", v>>}]
      BY <1>7 DEF OtherAnswers, savedVars
    <2>2. Alone(a)
      BY <1>1, <1>2, <2>1 DEF Alone
    <2> QED
      BY <1>1, <2>1, <2>2, OneAsk DEF Settled, SentInv
  <1> QED
    BY <1>3, <1>4, <1>5, <1>6, <1>7

LEMMA ChooseSent ==
    ASSUME VerdictsAssumption, Base, SentInv, NEW a \in Asks, NEW v \in Verdicts, Choose(a, v)
    PROVE  SentInv' /\ Final
  <1>1. \A b \in Asks \ {a} : call'[b].pc = call[b].pc
    BY ChooseMoves DEF Base
  <1>2. UNCHANGED <<ask, relay>> /\ ask[a] = "listed" /\ ~hist[a].sent
    BY DEF Choose, askVars, SentInv
  <1>3. ~hist'[a].sent /\ \A b \in Asks \ {a} : hist'[b] = hist[b]
    <2>1. hist' = hist \/ hist' = [hist EXCEPT ![a] = Entry(v, FALSE)]
      BY DEF Choose
    <2> QED
      BY <1>2, <2>1 DEF Entry, Base, RowsShape
  <1>4. Alone(a)
    BY <1>1, <1>2, <1>3 DEF Alone
  <1> QED
    BY <1>2, <1>3, <1>4, OneAsk DEF Settled

LEMMA DecidesSent ==
    ASSUME VerdictsAssumption, Base, SentInv, NEW a \in Asks, Decides(a)
    PROVE  SentInv' /\ Final
  <1>1. call[a].pc \notin Calm
    BY DEF Decides, Deny, Refuse, Once, Always, RuleSaved, GiveUp, AskForLock, Record, Overtaken,
           Unanswered, Publish, Sent, NotSent, At, Calm
  <1>2. ~hist[a].sent /\ ask[a] # "unseen"
    BY <1>1 DEF SentInv, Calm
  <1>3. \A b \in Asks \ {a} : call'[b].pc = call[b].pc
    <2>1. CASE Record(a) \/ Sent(a) \/ AskForLock(a) \/ Always(a) \/ Unanswered(a) \/ Publish(a)
      <3>1. PICK p \in {"recording", "closing", "push", "rule", "publish", "wire"} : Goto(a, p)
        BY <2>1 DEF Record, Sent, AskForLock, Always, Unanswered, Publish
      <3>2. p \in Pcs
        BY <3>1 DEF Pcs
      <3> QED
        BY <3>1, <3>2, GotoMoves DEF Base
    <2>2. CASE Deny(a) \/ Refuse(a)
      <3>1. call' = [call EXCEPT ![a] = Denied]
        BY <2>2 DEF Deny, Refuse
      <3> QED
        BY <3>1, DeniedMoves DEF Base
    <2>3. CASE Once(a) \/ RuleSaved(a)
      <3>1. Widen(a)
        BY <2>3 DEF Once, RuleSaved
      <3> QED
        BY <3>1, WidenMoves DEF Base
    <2>4. CASE GiveUp(a) \/ Overtaken(a) \/ NotSent(a)
      <3>1. call' = [call EXCEPT ![a] = NoCall]
        BY <2>4 DEF GiveUp, Overtaken, NotSent
      <3> QED
        BY <3>1, CallEnds DEF Base
    <2> QED
      BY <2>1, <2>2, <2>3, <2>4 DEF Decides
  <1>4. CASE Overtaken(a)
    <2>1. call' = [call EXCEPT ![a] = NoCall] /\ relay' = relay /\ MarkAnswered(a, replied[a])
      BY <1>4 DEF Overtaken
    <2>2. call'[a].pc = "none"
      BY <2>1, CallEnds DEF Base
    <2>3. ask'[a] = "gone" /\ Alone(a)
      BY <1>3, <2>1, MarkedSent DEF Alone
    <2> QED
      BY <1>2, <2>2, <2>3, OneAsk DEF Settled, Calm
  <1>5. CASE Sent(a)
    <2>1. "closing" \in Pcs /\ Goto(a, "closing") /\ relay' = relay
      BY <1>5 DEF Sent, Pcs
    <2>2. call'[a].pc = "closing"
      BY <2>1, GotoMoves DEF Base
    <2>3. ask' = [ask EXCEPT ![a] = "gone"] /\ hist' = [hist EXCEPT ![a].sent = TRUE]
      BY <1>5 DEF Sent
    <2>4. ask'[a] = "gone" /\ \A b \in Asks \ {a} : ask'[b] = ask[b] /\ hist'[b] = hist[b]
      BY <2>3 DEF Base, InboxShape, RowsShape
    <2>5. Alone(a)
      BY <1>3, <2>1, <2>4 DEF Alone
    <2> QED
      BY <1>2, <2>2, <2>4, <2>5, OneAsk DEF Settled, Calm
  <1>6. CASE Publish(a)
    <2>1. UNCHANGED <<ask, hist>> /\ \A b \in Asks \ {a} : relay'[b] = relay[b]
      BY <1>6 DEF Publish, savedVars, Base, InboxShape
    <2>2. Alone(a)
      BY <1>3, <2>1 DEF Alone
    <2> QED
      BY <1>2, <2>1, <2>2, OneAsk DEF Settled
  <1>7. CASE ~(Overtaken(a) \/ Sent(a) \/ Publish(a))
    <2>1. UNCHANGED <<ask, hist, relay>>
      BY <1>7 DEF Decides, Deny, Refuse, Once, Always, RuleSaved, GiveUp, AskForLock, Record,
                  Unanswered, NotSent, askVars, savedVars
    <2> QED
      BY <1>1, <1>3, <2>1, NoAsk
  <1> QED
    BY <1>4, <1>5, <1>6, <1>7

LEMMA SavingSent ==
    ASSUME VerdictsAssumption, Base, SentInv, NEW i \in DOMAIN saves, Saving(i)
    PROVE  SentInv' /\ Final
  <1> SUFFICES ASSUME NEW a, a = saves[i].for
               PROVE  SentInv' /\ Final
    OBVIOUS
  <1>1. a \in Asks \cup {"nobody"}
    <2>1. saves[i] \in SaveRecs
      BY DEF Base, RowsShape
    <2> QED
      BY <2>1 DEF SaveRecs
  <1>2. UNCHANGED <<ask, relay>>
    BY DEF Saving, SaveLands, SaveFails, askVars
  <1>3. CASE a \notin Asks
    <2>1. a = "nobody"
      BY <1>1, <1>3
    <2>2. UNCHANGED <<call, hist>>
      BY <1>3, <2>1 DEF Saving, SaveLands, SaveFails, Continue
    <2> QED
      BY <1>2, <2>2, NoAsk
  <1>4. CASE a \in Asks
    <2>1. call[a].pc \in Waiting
      BY <1>4 DEF Base, SavesInv
    <2>2. CASE Continue(a) /\ hist' = hist
      <3>1. \A b \in Asks : call'[b].pc = (IF b = a THEN Following[call[a].pc] ELSE call[b].pc)
        BY <1>4, <2>1, <2>2, ContinueMoves DEF Base
      <3>2. call[a].pc = "closing" => Following[call[a].pc] = "none"
        BY DEF Following
      <3>3. ask[a] # "unseen"
        BY <1>4, <2>1 DEF SentInv, Waiting
      <3>4. Alone(a) /\ Settled(a)
        BY <1>2, <1>4, <2>2, <3>1 DEF Alone, Settled, Ours
      <3>5. hist'[a].sent => ask'[a] = "gone" /\ call'[a].pc \in Calm
        BY <1>2, <1>4, <2>1, <2>2, <3>1, <3>2 DEF SentInv, Calm, Waiting
      <3> QED
        BY <1>2, <1>4, <3>3, <3>4, <3>5, OneAsk
    <2>3. CASE call[a].pc = "saving" /\ hist' = [hist EXCEPT ![a] = None] /\ call' = [call EXCEPT ![a] = NoCall]
      <3>1. \A b \in Asks : call'[b].pc = (IF b = a THEN "none" ELSE call[b].pc)
        BY <1>4, <2>3, CallEnds DEF Base
      <3>2. ~hist[a].sent
        BY <1>4, <2>3 DEF SentInv, Calm
      <3>3. ~hist'[a].sent /\ \A b \in Asks \ {a} : hist'[b] = hist[b]
        BY <1>4, <2>3 DEF None, Base, RowsShape
      <3>4. Alone(a) /\ call'[a].pc = "none"
        BY <1>2, <1>4, <3>1, <3>3 DEF Alone
      <3> QED
        BY <1>4, <3>2, <3>3, <3>4, OneAsk DEF Settled
    <2> QED
      BY <2>2, <2>3 DEF Saving, SaveLands, SaveFails
  <1> QED
    BY <1>3, <1>4

\* The pushes move no call but that of the holder.
LEMMA PushesSent ==
    ASSUME VerdictsAssumption, Inv, SentInv, Pushes
    PROVE  SentInv' /\ Final
  <1>1. UNCHANGED <<ask, hist, relay>>
    BY DEF Pushes, RunPush, TakeLock, AlreadyRight, MustChange, Updated, Unconfirmed, PushFails, Stale,
           PushEnds, askVars, savedVars
  <1>2. \A b \in Asks : call'[b].pc = call[b].pc \/ call[b].pc = "push"
    <2>1. CASE RunPush \/ TakeLock \/ MustChange \/ Stale
      BY <2>1 DEF RunPush, TakeLock, MustChange, Stale
    <2>2. ASSUME NEW ok \in BOOLEAN, PushEnds(ok), job.pc # "idle"
          PROVE  \A b \in Asks : call'[b].pc = call[b].pc \/ call[b].pc = "push"
      <3> DEFINE h == Head(queue)
      <3>1. CASE h = "regular"
        BY <2>2, <3>1 DEF PushEnds
      <3>2. CASE h # "regular"
        <4>1. queue \in Seq(Asks \cup {"regular"}) /\ IsInjective(queue) /\ queue # <<>>
          BY <2>2 DEF Inv, QueueInv
        <4>2. h \in ToSet(queue) /\ h \in Asks \cup {"regular"}
          BY <4>1, Leaves
        <4>3. h \in Asks /\ call[h].pc = "push"
          BY <3>2, <4>2 DEF Inv, QueueInv
        <4>4. CallShape
          BY DEF Inv, Base
        <4>5. \E c : call' = [call EXCEPT ![h] = c]
          BY <2>2, <3>2 DEF PushEnds
        <4>6. \A b \in Asks \ {h} : call'[b] = call[b]
          BY <4>4, <4>5 DEF CallShape
        <4> QED
          BY <4>3, <4>6
      <3> QED
        BY <3>1, <3>2
    <2>3. CASE AlreadyRight \/ Updated \/ Unconfirmed \/ PushFails
      <3>1. PICK ok \in BOOLEAN : PushEnds(ok) /\ job.pc # "idle"
        <4>1. CASE AlreadyRight
          BY <4>1 DEF AlreadyRight
        <4>2. CASE Updated
          BY <4>2 DEF Updated
        <4>3. CASE Unconfirmed
          BY <4>3 DEF Unconfirmed
        <4>4. CASE PushFails
          BY <4>4 DEF PushFails
        <4> QED
          BY <2>3, <4>1, <4>2, <4>3, <4>4
      <3> QED
        BY <2>2, <3>1
    <2> QED
      BY <2>1, <2>3 DEF Pushes
  <1> QED
    BY <1>1, <1>2, NoAsk DEF Calm

LEMMA RestartSent ==
    ASSUME Base, Restart
    PROVE  SentInv'
  <1>1. /\ hist' = disk /\ call' = [a \in Asks |-> NoCall]
        /\ ask' = [a \in Asks |-> IF disk[a] # None /\ (disk[a].sent \/ a \in expired) THEN "gone" ELSE "unseen"]
    BY DEF Restart
  <1>2. NoCall.pc = "none" /\ ~None.sent
    BY DEF NoCall, None
  <1> QED
    BY <1>1, <1>2 DEF SentInv, Calm

LEMMA NextSent ==
    ASSUME VerdictsAssumption, Inv, SentInv, [Next]_vars
    PROVE  SentInv' /\ (restarts' = restarts => Final)
  <1>1. ASSUME NEW a \in Asks,
               \/ AskArrives(a) \/ AskExpires(a) \/ ChooseAnswered(a) \/ Decides(a)
               \/ \E v \in Verdicts : ReplyArrives(a, v)
               \/ \E v \in Answers[a] : Choose(a, v)
               \/ \E v \in OthersSay : OtherAnswers(a, v)
        PROVE  SentInv' /\ Final
    <2>1. Answers[a] \subseteq Verdicts /\ OthersSay \subseteq Verdicts
      BY DEF VerdictsAssumption, Verdicts
    <2>2. CASE Decides(a)
      BY <2>2, DecidesSent DEF Inv
    <2>3. CASE \E v \in Answers[a] : Choose(a, v)
      BY <2>1, <2>3, ChooseSent DEF Inv
    <2>4. CASE \/ AskArrives(a) \/ AskExpires(a) \/ ChooseAnswered(a)
               \/ \E v \in Verdicts : ReplyArrives(a, v) \/ OtherAnswers(a, v)
      BY <2>4, InboxSent DEF Inv
    <2> QED
      BY <1>1, <2>1, <2>2, <2>3, <2>4
  <1>2. ASSUME NEW i \in DOMAIN saves, Saving(i) PROVE SentInv' /\ Final
    BY <1>2, SavingSent DEF Inv
  <1>3. CASE Pushes
    BY <1>3, PushesSent
  <1>4. CASE WindowsEnd \/ (\E c \in Foreign : OtherWrites(c)) \/ UNCHANGED vars
    <2>1. UNCHANGED <<ask, hist, relay, call>>
      BY <1>4 DEF WindowsEnd, OtherWrites, vars, askVars, savedVars
    <2> QED
      BY <2>1, NoAsk
  <1>5. CASE Restart
    <2>1. restarts' # restarts
      BY <1>5 DEF Restart, Inv, Base, InboxShape
    <2> QED
      BY <1>5, <2>1, RestartSent DEF Inv
  <1> QED
    BY <1>1, <1>2, <1>3, <1>4, <1>5 DEF Next

(* Once the history says an ask was answered, this phone publishes no       *)
(* further verdict for it and the entry does not change: what arrives, is   *)
(* given up or fails while a call runs never reaches an answered ask.       *)
THEOREM SentIsFinalHolds == Spec => SentIsFinal
  <1>1. Init => SentInv
    BY DEF Init, SentInv, None, NoCall
  <1>2. Inv /\ SentInv /\ [Next]_vars => SentInv'
    BY VerdictsAssumption, NextSent
  <1>3. Inv /\ SentInv /\ [Next]_vars =>
          [restarts' = restarts =>
              \A a \in Asks : hist[a].sent => hist'[a] = hist[a] /\ Ours(a)' = Ours(a)]_vars
    BY VerdictsAssumption, NextSent DEF Final, Settled
  <1> QED
    BY <1>1, <1>2, <1>3, Invariance, PTL DEF Spec, SentIsFinal

-----------------------------------------------------------------------------
(* Choices.  What a phone publishes for an ask is the first choice that was *)
(* saved, or the deny it was converted to.  The choice has to be found      *)
(* wherever it may be read back from: in the history in memory, in the      *)
(* stored row, and in every write of the row that may still land, since the *)
(* last to land is what a restart reads.                                    *)

\* An entry holds a choice: no other can be made of it, or sent.
Held(e, v) == e # None /\ (e.sent \/ e.chosen = v)

\* Whatever happens to the page, the ask is found with this choice.
Kept(a, v) ==
    /\ Held(hist[a], v)
    /\ ~LastPage => /\ Held(disk[a], v)
                    /\ \A i \in DOMAIN saves : ~saves[i].late => Held(saves[i].row[a], v)

\* The write a choice waits for has it, and so has every later one.
Ahead(a, v) ==
    ~LastPage => \A i, j \in DOMAIN saves : i <= j /\ saves[i].for = a => Held(saves[j].row[a], v)

Said(a, v) == first[a] # "none" /\ v \in {first[a], "deny"}
Going(a) == call[a].pc \notin {"none", "saving"}

ChoiceOf(a) ==
    /\ first[a] # "none" => Kept(a, first[a])
    /\ hist[a] # None /\ ~At(a, "saving") /\ first[a] = "none" => hist[a].sent \/ Kept(a, hist[a].chosen)
    /\ At(a, "saving") => /\ first[a] = "none" /\ call[a].verdict # "none"
                          /\ hist[a] = Entry(call[a].verdict, FALSE) /\ Ahead(a, call[a].verdict)
    /\ Going(a) => Said(a, call[a].verdict)
    /\ \A v \in Verdicts : <<"us", v>> \in relay[a] => Said(a, v)

ChoiceShape == left \in [EventKinds -> Nat] /\ first \in [Asks -> Verdicts \cup {"none"}]
ChoiceInv == crossed \/ (ChoiceShape /\ \A a \in Asks : ChoiceOf(a))

-----------------------------------------------------------------------------
(* The writes of the history row.                                          *)

SamePage == left'["restart"] = left["restart"]

\* The history as it now is may be written; nothing else becomes of the writes.
StoreGrows ==
    /\ disk' = disk
    /\ \/ saves' = saves
       \/ \E rec : saves' = Append(saves, rec) /\ ~rec.late /\ (~LastPage => rec.row = hist')

LEMMA SaveGrows ==
    ASSUME NEW a, disk' = disk, saves' = Save(hist', a)
    PROVE  StoreGrows
  <1> DEFINE rec == [row |-> IF LastPage THEN disk ELSE hist', for |-> a, late |-> FALSE]
  <1>1. saves' = saves \/ saves' = Append(saves, rec)
    BY DEF Save
  <1>2. ~rec.late /\ (~LastPage => rec.row = hist')
    OBVIOUS
  <1> HIDE DEF rec
  <1> QED
    BY <1>1, <1>2 DEF StoreGrows

LEMMA Appended ==
    ASSUME NEW S, NEW s \in Seq(S), NEW rec
    PROVE  /\ Len(s) \in Nat /\ DOMAIN s = 1..Len(s) /\ DOMAIN Append(s, rec) = 1..Len(s) + 1
           /\ Append(s, rec)[Len(s) + 1] = rec
           /\ \A i \in 1..Len(s) : Append(s, rec)[i] = s[i]
  OBVIOUS

\* A choice that was kept stays kept when the history holds it.
LEMMA KeptGrows ==
    ASSUME Base, SamePage, StoreGrows, NEW b \in Asks, NEW v, Kept(b, v), Held(hist'[b], v)
    PROVE  Kept(b, v)'
  <1>1. LastPage' <=> LastPage
    BY DEF SamePage, LastPage
  <1>2. CASE saves' = saves
    BY <1>1, <1>2 DEF StoreGrows, Kept
  <1>3. ASSUME NEW rec, saves' = Append(saves, rec), ~LastPage => rec.row = hist'
        PROVE  Kept(b, v)'
    <2>1. saves \in Seq(SaveRecs)
      BY DEF Base, RowsShape
    <2>2. /\ Len(saves) \in Nat /\ DOMAIN saves = 1..Len(saves) /\ DOMAIN saves' = 1..Len(saves) + 1
          /\ saves'[Len(saves) + 1] = rec /\ \A i \in 1..Len(saves) : saves'[i] = saves[i]
      BY <1>3, <2>1, Appended
    <2>3. ASSUME ~LastPage, NEW i \in DOMAIN saves', ~saves'[i].late
          PROVE  Held(saves'[i].row[b], v)
      <3>1. i = Len(saves) + 1 \/ i \in 1..Len(saves)
        BY <2>2
      <3>2. CASE i = Len(saves) + 1
        BY <1>3, <2>2, <2>3, <3>2
      <3>3. CASE i \in 1..Len(saves)
        BY <2>2, <2>3, <3>3 DEF Kept
      <3> QED
        BY <3>1, <3>2, <3>3
    <2> QED
      BY <1>1, <2>3 DEF Kept, StoreGrows
  <1> QED
    BY <1>2, <1>3 DEF StoreGrows

LEMMA AheadGrows ==
    ASSUME Base, SamePage, StoreGrows, NEW b \in Asks, NEW v, Ahead(b, v), Held(hist'[b], v)
    PROVE  Ahead(b, v)'
  <1>1. LastPage' <=> LastPage
    BY DEF SamePage, LastPage
  <1>2. CASE saves' = saves
    BY <1>1, <1>2 DEF Ahead
  <1>3. ASSUME NEW rec, saves' = Append(saves, rec), ~LastPage => rec.row = hist'
        PROVE  Ahead(b, v)'
    <2>1. saves \in Seq(SaveRecs)
      BY DEF Base, RowsShape
    <2>2. /\ Len(saves) \in Nat /\ DOMAIN saves = 1..Len(saves) /\ DOMAIN saves' = 1..Len(saves) + 1
          /\ saves'[Len(saves) + 1] = rec /\ \A i \in 1..Len(saves) : saves'[i] = saves[i]
      BY <1>3, <2>1, Appended
    <2>3. ASSUME ~LastPage, NEW i \in DOMAIN saves', NEW j \in DOMAIN saves', i <= j, saves'[i].for = b
          PROVE  Held(saves'[j].row[b], v)
      <3>1. j = Len(saves) + 1 \/ (j \in 1..Len(saves) /\ i \in 1..Len(saves))
        BY <2>2, <2>3
      <3>2. CASE j = Len(saves) + 1
        BY <1>3, <2>2, <2>3, <3>2
      <3>3. CASE j \in 1..Len(saves) /\ i \in 1..Len(saves)
        BY <2>2, <2>3, <3>3 DEF Ahead
      <3> QED
        BY <3>1, <3>2, <3>3
    <2> QED
      BY <1>1, <2>3 DEF Ahead
  <1> QED
    BY <1>2, <1>3 DEF StoreGrows

\* A write ends: where each of the others stood before.
Before(i, j) == IF j < i THEN j ELSE j + 1
LEMMA Ended ==
    ASSUME Base, NEW i \in DOMAIN saves, Saving(i)
    PROVE  /\ \A j \in DOMAIN saves' :
                /\ Before(i, j) \in DOMAIN saves /\ Before(i, j) # i
                /\ saves'[j].row = saves[Before(i, j)].row /\ saves'[j].for = saves[Before(i, j)].for
                /\ saves'[j].late = saves[Before(i, j)].late
                     \/ (SaveLands(i) /\ j < i /\ saves'[j].late = ~LastPage)
           /\ \A j, k \in DOMAIN saves' : j <= k => Before(i, j) <= Before(i, k)
           /\ \A j \in DOMAIN saves' : ~(j < i) => i <= Before(i, j)
  <1> DEFINE n == Len(saves) - 1
  <1>1. saves \in Seq(SaveRecs) /\ DOMAIN saves = 1..Len(saves) /\ Len(saves) \in Nat /\ i \in 1..Len(saves)
    BY DEF Base, RowsShape
  <1>2. \A j \in 1..n : Before(i, j) \in DOMAIN saves /\ Before(i, j) # i /\ (~(j < i) => i <= Before(i, j))
    BY <1>1 DEF Before
  <1>3. \A j, k \in 1..n : j <= k => Before(i, j) <= Before(i, k)
    BY <1>1 DEF Before
  <1>4. CASE SaveLands(i)
    <2> DEFINE w(j) == IF j < i THEN [saves[j] EXCEPT !.late = ~LastPage] ELSE saves[j + 1]
    <2>1. saves' = [j \in 1..n |-> w(j)]
      BY <1>4 DEF SaveLands
    <2>2. ASSUME NEW j \in 1..n
          PROVE  /\ w(j).row = saves[Before(i, j)].row /\ w(j).for = saves[Before(i, j)].for
                 /\ w(j).late = saves[Before(i, j)].late \/ (j < i /\ w(j).late = ~LastPage)
      <3>1. saves[j] \in SaveRecs
        BY <1>1
      <3> QED
        BY <3>1 DEF SaveRecs, Before
    <2> HIDE DEF w
    <2>3. DOMAIN saves' = 1..n /\ \A j \in 1..n : saves'[j] = w(j)
      BY <2>1
    <2> QED
      BY <1>2, <1>3, <1>4, <2>2, <2>3
  <1>5. CASE SaveFails(i)
    <2>1. saves' = RemoveAt(saves, i)
      BY <1>5 DEF SaveFails
    <2>2. DOMAIN saves' = 1..n /\ \A j \in 1..n : saves'[j] = saves[Before(i, j)]
      BY <1>1, <2>1, OneLess DEF Before
    <2> QED
      BY <1>2, <1>3, <2>2
  <1> QED
    BY <1>4, <1>5 DEF Saving

\* An older row has not landed over a newer one: what was kept is kept.
LEMMA KeptEnds ==
    ASSUME Base, SamePage, NEW i \in DOMAIN saves, Saving(i), ~crossed',
           NEW b \in Asks, NEW v, Kept(b, v), Held(hist'[b], v)
    PROVE  Kept(b, v)'
  <1>1. LastPage' <=> LastPage
    BY DEF SamePage, LastPage
  <1>2. ~LastPage => Held(disk'[b], v)
    <2>1. CASE SaveLands(i)
      BY <2>1 DEF SaveLands, Kept
    <2>2. CASE SaveFails(i)
      BY <2>2 DEF SaveFails, Kept
    <2> QED
      BY <2>1, <2>2 DEF Saving
  <1>3. ASSUME ~LastPage, NEW j \in DOMAIN saves', ~saves'[j].late
        PROVE  Held(saves'[j].row[b], v)
    <2>1. /\ Before(i, j) \in DOMAIN saves /\ saves'[j].row = saves[Before(i, j)].row
          /\ saves'[j].late = saves[Before(i, j)].late
      BY <1>3, Ended
    <2> QED
      BY <1>3, <2>1 DEF Kept
  <1> QED
    BY <1>1, <1>2, <1>3 DEF Kept

LEMMA AheadEnds ==
    ASSUME Base, SamePage, NEW i \in DOMAIN saves, Saving(i), NEW b \in Asks, NEW v, Ahead(b, v)
    PROVE  Ahead(b, v)'
  <1>1. LastPage' <=> LastPage
    BY DEF SamePage, LastPage
  <1>2. ASSUME ~LastPage, NEW j \in DOMAIN saves', NEW k \in DOMAIN saves', j <= k, saves'[j].for = b
        PROVE  Held(saves'[k].row[b], v)
    <2>1. /\ Before(i, j) \in DOMAIN saves /\ saves'[j].for = saves[Before(i, j)].for
          /\ Before(i, k) \in DOMAIN saves /\ saves'[k].row = saves[Before(i, k)].row
          /\ Before(i, j) <= Before(i, k)
      BY <1>2, Ended
    <2> QED
      BY <1>2, <2>1 DEF Ahead
  <1> QED
    BY <1>1, <1>2 DEF Ahead

-----------------------------------------------------------------------------
(* An ask whose choice is not made, saved or dropped in the step: its       *)
(* entry stays or is marked as sent, and its call goes on or ends.          *)

Store == SamePage /\ (StoreGrows \/ \E i \in DOMAIN saves : Saving(i))

CallMoves(b) ==
    \/ call'[b].pc = call[b].pc /\ call'[b].verdict = call[b].verdict
    \/ /\ Going(b) /\ call'[b].pc # "saving"
       /\ call'[b].pc # "none" => call'[b].verdict \in {call[b].verdict, "deny"}
Steady(b) ==
    /\ first'[b] = first[b]
    /\ hist'[b] = hist[b] \/ (hist'[b].sent /\ call'[b].pc # "saving")
    /\ \A v \in Verdicts :
          <<"us", v>> \in relay'[b] => <<"us", v>> \in relay[b] \/ (Going(b) /\ v = call[b].verdict)
    /\ CallMoves(b)

LEMMA KeptOn ==
    ASSUME Base, Store, ~crossed', NEW b \in Asks, NEW v, Kept(b, v), Held(hist'[b], v)
    PROVE  Kept(b, v)'
  BY KeptGrows, KeptEnds DEF Store

LEMMA SteadyAsk ==
    ASSUME Base, Store, ~crossed', NEW b \in Asks, ChoiceOf(b), Steady(b)
    PROVE  ChoiceOf(b)'
  <1>1. ASSUME hist'[b].sent, NEW v
        PROVE  Held(hist'[b], v)
    BY <1>1 DEF Held, None
  <1>2. ASSUME first'[b] # "none" PROVE Kept(b, first[b])' /\ first'[b] = first[b]
    <2>1. first'[b] = first[b] /\ Kept(b, first[b])
      BY <1>2 DEF Steady, ChoiceOf
    <2>2. Held(hist'[b], first[b])
      BY <1>1, <2>1 DEF Steady, Kept
    <2>3. ASSUME NEW v, v = first[b] PROVE Kept(b, v)'
      BY <2>1, <2>2, <2>3, KeptOn
    <2> QED
      BY <2>1, <2>3
  <1>3. ASSUME hist'[b] # None, call'[b].pc # "saving", first'[b] = "none", ~hist'[b].sent
        PROVE  Kept(b, hist[b].chosen)' /\ hist'[b] = hist[b]
    <2>1. hist'[b] = hist[b] /\ first[b] = "none" /\ call[b].pc # "saving"
      BY <1>3 DEF Steady, CallMoves, Going
    <2>2. Kept(b, hist[b].chosen)
      BY <1>3, <2>1 DEF ChoiceOf, At
    <2>3. Held(hist'[b], hist[b].chosen)
      BY <2>1, <2>2 DEF Kept
    <2>4. ASSUME NEW v, v = hist[b].chosen PROVE Kept(b, v)'
      BY <2>2, <2>3, <2>4, KeptOn
    <2> QED
      BY <2>1, <2>4
  <1>4. ASSUME call'[b].pc = "saving"
        PROVE  /\ first'[b] = "none" /\ call'[b].verdict # "none"
               /\ hist'[b] = Entry(call'[b].verdict, FALSE) /\ Ahead(b, call[b].verdict)'
               /\ call'[b].verdict = call[b].verdict
    <2>1. call[b].pc = "saving" /\ call'[b].verdict = call[b].verdict /\ hist'[b] = hist[b]
      BY <1>4 DEF Steady, CallMoves
    <2>2. first[b] = "none" /\ call[b].verdict # "none" /\ hist[b] = Entry(call[b].verdict, FALSE)
          /\ Ahead(b, call[b].verdict)
      BY <2>1 DEF ChoiceOf, At
    <2>3. Held(hist'[b], call[b].verdict)
      BY <2>1, <2>2 DEF Held, Entry, None
    <2>4. ASSUME NEW v, v = call[b].verdict PROVE Ahead(b, v)'
      BY <2>2, <2>3, <2>4, AheadGrows, AheadEnds DEF Store
    <2> QED
      BY <2>1, <2>2, <2>4 DEF Steady
  <1>5. ASSUME call'[b].pc \notin {"none", "saving"}
        PROVE  first'[b] # "none" /\ call'[b].verdict \in {first'[b], "deny"}
    <2>1. Going(b) /\ call'[b].verdict \in {call[b].verdict, "deny"} /\ first'[b] = first[b]
      BY <1>5 DEF Steady, CallMoves, Going
    <2> QED
      BY <2>1 DEF ChoiceOf, Said
  <1>6. ASSUME NEW v \in Verdicts, <<"us", v>> \in relay'[b]
        PROVE  first'[b] # "none" /\ v \in {first'[b], "deny"}
    BY <1>6 DEF Steady, ChoiceOf, Said
  <1>7. \A v : Said(b, v)' <=> first'[b] # "none" /\ v \in {first'[b], "deny"}
    BY DEF Said
  <1> QED
    BY <1>2, <1>3, <1>4, <1>5, <1>6, <1>7 DEF ChoiceOf, At, Going

-----------------------------------------------------------------------------
(* Action by action.                                                       *)

LEMMA Decreased ==
    ASSUME ChoiceShape, NEW e \in EventKinds, Event(e)
    PROVE  /\ left' \in [EventKinds -> Nat]
           /\ e # "restart" => SamePage
  BY DEF ChoiceShape, Event, SamePage, EventKinds

\* Nothing of the ask changes but its entry, which may be marked as sent.
LEMMA Apart ==
    ASSUME NEW b \in Asks, first'[b] = first[b], relay'[b] = relay[b], call'[b] = call[b],
           hist'[b] = hist[b] \/ (hist'[b].sent /\ call[b].pc # "saving")
    PROVE  Steady(b)
  BY DEF Steady, CallMoves

LEMMA MarkedSteady ==
    ASSUME VerdictsAssumption, Base, NEW a \in Asks, NEW v \in Verdicts, MarkAnswered(a, v), disk' = disk
    PROVE  /\ StoreGrows /\ \A b \in Asks \ {a} : hist'[b] = hist[b]
           /\ hist'[a] = hist[a] \/ hist'[a].sent
  <1>1. CASE hist' = [hist EXCEPT ![a] = Entry(v, TRUE)] /\ saves' = Save(hist', "nobody")
    <2>1. hist \in [Asks -> Rows] /\ Entry(v, TRUE).sent
      BY DEF Base, RowsShape, Entry
    <2>2. StoreGrows
      BY <1>1, SaveGrows
    <2> QED
      BY <1>1, <2>1, <2>2
  <1>2. CASE UNCHANGED <<hist, saves>>
    BY <1>2 DEF StoreGrows
  <1> QED
    BY <1>1, <1>2 DEF MarkAnswered

LEMMA InboxSteady ==
    ASSUME VerdictsAssumption, Base, SentInv, ChoiceShape, NEW a \in Asks,
           \/ AskArrives(a) \/ AskExpires(a) \/ ChooseAnswered(a)
           \/ \E v \in Verdicts : ReplyArrives(a, v) \/ OtherAnswers(a, v)
    PROVE  ChoiceShape' /\ Store /\ \A b \in Asks : Steady(b)
  <1>1. call' = call
    BY InboxBase
  <1>2. hist \in [Asks -> Rows] /\ relay \in [Asks -> SUBSET ({"us", "other"} \X (Verdicts \cup {"none"}))]
    BY DEF Base, InboxShape, RowsShape
  <1>3. CASE AskArrives(a)
    <2>1. UNCHANGED <<relay, first, left, disk>> /\ call[a].pc = "none"
      BY <1>3 DEF AskArrives, bounds, SentInv
    <2>2. /\ StoreGrows
          /\ hist'[a] = hist[a] \/ hist'[a].sent
          /\ \A b \in Asks \ {a} : hist'[b] = hist[b]
      <3>1. CASE replied[a] # "none"
        <4>1. hist' = [hist EXCEPT ![a] = Entry(replied[a], TRUE)] /\ saves' = Save(hist', "nobody")
          BY <1>3, <3>1 DEF AskArrives
        <4>2. StoreGrows
          BY <2>1, <4>1, SaveGrows
        <4> QED
          BY <1>2, <4>1, <4>2 DEF Entry
      <3>2. CASE replied[a] = "none"
        BY <1>3, <2>1, <3>2 DEF AskArrives, StoreGrows
      <3> QED
        BY <3>1, <3>2
    <2> QED
      BY <1>1, <2>1, <2>2, Apart DEF ChoiceShape, Store, SamePage
  <1>4. CASE AskExpires(a)
    <2>1. UNCHANGED <<relay, first, hist, disk, saves>> /\ Event("expire")
      BY <1>4 DEF AskExpires, savedVars
    <2>2. SamePage /\ left' \in [EventKinds -> Nat]
      BY <2>1, Decreased DEF EventKinds
    <2> QED
      BY <1>1, <2>1, <2>2, Apart DEF ChoiceShape, Store, StoreGrows
  <1>5. CASE ChooseAnswered(a)
    <2>1. UNCHANGED <<relay, first, left, disk>> /\ call[a].pc = "none" /\ MarkAnswered(a, replied[a])
      BY <1>5 DEF ChooseAnswered, bounds, Deciding
    <2>2. replied[a] \in Verdicts
      BY <1>5 DEF ChooseAnswered, Base, InboxShape
    <2>3. /\ StoreGrows
          /\ hist'[a] = hist[a] \/ hist'[a].sent
          /\ \A b \in Asks \ {a} : hist'[b] = hist[b]
      BY <2>1, <2>2, MarkedSteady
    <2> QED
      BY <1>1, <2>1, <2>3, Apart DEF ChoiceShape, Store, SamePage
  <1>6. ASSUME NEW v \in Verdicts, ReplyArrives(a, v)
        PROVE  ChoiceShape' /\ Store /\ \A b \in Asks : Steady(b)
    <2>1. UNCHANGED <<relay, first, left, disk>>
      BY <1>6 DEF ReplyArrives, bounds
    <2>2. CASE Deciding(a)
      BY <1>1, <1>6, <2>1, <2>2, Apart DEF ReplyArrives, ChoiceShape, Store, SamePage, StoreGrows
    <2>3. CASE ~Deciding(a)
      <3>1. MarkAnswered(a, v) /\ call[a].pc = "none"
        BY <1>6, <2>3 DEF ReplyArrives, Deciding
      <3>2. /\ StoreGrows
            /\ hist'[a] = hist[a] \/ hist'[a].sent
            /\ \A b \in Asks \ {a} : hist'[b] = hist[b]
        BY <2>1, <3>1, MarkedSteady
      <3> QED
        BY <1>1, <2>1, <3>1, <3>2, Apart DEF ChoiceShape, Store, SamePage
    <2> QED
      BY <2>2, <2>3
  <1>7. ASSUME NEW v \in Verdicts, OtherAnswers(a, v)
        PROVE  ChoiceShape' /\ Store /\ \A b \in Asks : Steady(b)
    <2>1. UNCHANGED <<first, hist, disk, saves>> /\ Event("answer")
      BY <1>7 DEF OtherAnswers, savedVars
    <2>2. SamePage /\ left' \in [EventKinds -> Nat]
      BY <2>1, Decreased DEF EventKinds
    <2>3. relay' = [relay EXCEPT ![a] = @ \cup {<<"other", v>>}]
      BY <1>7 DEF OtherAnswers
    <2>4. \A b \in Asks, w \in Verdicts : <<"us", w>> \in relay'[b] => <<"us", w>> \in relay[b]
      BY <1>2, <2>3
    <2>5. \A b \in Asks : Steady(b)
      BY <1>1, <2>1, <2>4 DEF Steady, CallMoves
    <2> QED
      BY <2>1, <2>2, <2>5 DEF ChoiceShape, Store, StoreGrows
  <1> QED
    BY <1>3, <1>4, <1>5, <1>6, <1>7

LEMMA DecidesSteady ==
    ASSUME VerdictsAssumption, Base, SentInv, ChoiceShape, NEW a \in Asks, Decides(a)
    PROVE  ChoiceShape' /\ Store /\ \A b \in Asks : Steady(b)
  <1>1. Going(a)
    BY DEF Decides, Deny, Refuse, Once, Always, RuleSaved, GiveUp, AskForLock, Record, Overtaken,
           Unanswered, Publish, Sent, NotSent, At, Going
  <1>2. /\ hist \in [Asks -> Rows] /\ CallShape
        /\ relay \in [Asks -> SUBSET ({"us", "other"} \X (Verdicts \cup {"none"}))]
    BY DEF Base, InboxShape, RowsShape
  <1>3. /\ call'[a].pc # "saving"
        /\ call'[a].pc # "none" => call'[a].verdict \in {call[a].verdict, "deny"}
        /\ \A b \in Asks \ {a} : call'[b] = call[b]
    <2>1. CASE Record(a) \/ Sent(a) \/ AskForLock(a) \/ Always(a) \/ Unanswered(a) \/ Publish(a)
      <3>1. PICK p \in {"recording", "closing", "push", "rule", "publish", "wire"} : Goto(a, p)
        BY <2>1 DEF Record, Sent, AskForLock, Always, Unanswered, Publish
      <3>2. p \in Pcs
        BY <3>1 DEF Pcs
      <3> QED
        BY <1>2, <3>1, <3>2, GotoOf
    <2>2. CASE Deny(a) \/ Refuse(a)
      <3>1. call' = [call EXCEPT ![a] = Denied]
        BY <2>2 DEF Deny, Refuse
      <3>2. Denied.pc = "outcome" /\ Denied.verdict = "deny"
        BY DEF Denied, NoCall
      <3> QED
        BY <1>2, <3>1, <3>2, CallOf
    <2>3. CASE Once(a) \/ RuleSaved(a)
      <3> DEFINE es == Opens(a, call[a].verdict)
                 c == [call[a] EXCEPT !.pc = "store", !.added = es, !.epoch = epoch, !.seen = <<>>]
      <3>1. call' = [call EXCEPT ![a] = c]
        BY <2>3 DEF Once, RuleSaved, Widen
      <3> HIDE DEF es
      <3>2. c.pc = "store" /\ c.verdict = call[a].verdict
        BY <1>2 DEF CallShape, IsCall
      <3> HIDE DEF c
      <3> QED
        BY <1>2, <3>1, <3>2, CallOf
    <2>4. CASE GiveUp(a) \/ Overtaken(a) \/ NotSent(a)
      <3>1. call' = [call EXCEPT ![a] = NoCall]
        BY <2>4 DEF GiveUp, Overtaken, NotSent
      <3>2. NoCall.pc = "none"
        BY DEF NoCall
      <3> QED
        BY <1>2, <3>1, <3>2, CallOf
    <2> QED
      BY <2>1, <2>2, <2>3, <2>4 DEF Decides
  <1>4. /\ UNCHANGED <<first, left, disk>> /\ StoreGrows
        /\ hist'[a] = hist[a] \/ hist'[a].sent
        /\ \A b \in Asks \ {a} : hist'[b] = hist[b]
    <2>1. CASE Overtaken(a)
      <3>1. UNCHANGED <<first, left, disk>> /\ MarkAnswered(a, replied[a]) /\ replied[a] \in Verdicts
        BY <2>1 DEF Overtaken, bounds, Base, InboxShape
      <3> QED
        BY <3>1, MarkedSteady
    <2>2. CASE Sent(a)
      <3>1. /\ UNCHANGED <<first, left, disk>> /\ saves' = Save(hist', a)
            /\ hist' = [hist EXCEPT ![a] = [hist[a] EXCEPT !.sent = TRUE]]
        BY <2>2 DEF Sent, bounds
      <3>2. [hist[a] EXCEPT !.sent = TRUE].sent
        BY <1>2 DEF Rows
      <3> QED
        BY <1>2, <3>1, <3>2, SaveGrows
    <2>3. CASE Record(a)
      <3>1. UNCHANGED <<first, left, disk, hist>> /\ saves' = Save(hist', a)
        BY <2>3 DEF Record, bounds, Save
      <3> QED
        BY <3>1, SaveGrows
    <2>4. CASE ~(Overtaken(a) \/ Sent(a) \/ Record(a))
      <3>1. UNCHANGED <<first, left, hist, disk, saves>>
        BY <2>4 DEF Decides, Deny, Refuse, Once, Always, RuleSaved, GiveUp, AskForLock,
                    Unanswered, Publish, NotSent, savedVars, bounds
      <3> QED
        BY <3>1 DEF StoreGrows
    <2> QED
      BY <2>1, <2>2, <2>3, <2>4
  <1>5. \A b \in Asks, v \in Verdicts :
           <<"us", v>> \in relay'[b] => <<"us", v>> \in relay[b] \/ (b = a /\ v = call[a].verdict)
    <2>1. CASE Publish(a)
      <3>1. relay' = relay \/ relay' = [relay EXCEPT ![a] = @ \cup {<<"us", call[a].verdict>>}]
        BY <2>1 DEF Publish
      <3> QED
        BY <1>2, <3>1
    <2>2. CASE ~Publish(a)
      <3>1. relay' = relay
        BY <2>2 DEF Decides, Deny, Refuse, Once, Always, RuleSaved, GiveUp, AskForLock, Record,
                    Overtaken, Unanswered, Sent, NotSent, askVars
      <3> QED
        BY <3>1
    <2> QED
      BY <2>1, <2>2
  <1>6. Steady(a)
    BY <1>1, <1>3, <1>4, <1>5 DEF Steady, CallMoves
  <1>7. ASSUME NEW b \in Asks \ {a} PROVE Steady(b)
    BY <1>3, <1>4, <1>5 DEF Steady, CallMoves
  <1> QED
    BY <1>4, <1>6, <1>7 DEF ChoiceShape, Store, SamePage

\* A new choice goes to the history and to its writes; an old one is made again.
LEMMA ChooseChoice ==
    ASSUME VerdictsAssumption, Base, SentInv, ChoiceShape, NEW a \in Asks, NEW v \in Verdicts, Choose(a, v),
           ~crossed, \A b \in Asks : ChoiceOf(b)
    PROVE  ChoiceShape' /\ \A b \in Asks : ChoiceOf(b)'
  <1> DEFINE p == IF hist[a] = None THEN "saving" ELSE "weigh"
             c == [NoCall EXCEPT !.pc = p, !.verdict = v, !.epoch = epoch, !.seen = once]
  <1>1. call' = [call EXCEPT ![a] = c] /\ UNCHANGED <<relay, left, disk, crossed>>
    BY DEF Choose, askVars
  <1> HIDE DEF p
  <1>2. c.pc = p /\ c.verdict = v
    BY DEF NoCall
  <1> HIDE DEF c
  <1>3. /\ call'[a].pc = p /\ call'[a].verdict = v
        /\ \A b \in Asks \ {a} : call'[b] = call[b]
    BY <1>1, <1>2, CallOf DEF Base
  <1>4. /\ hist \in [Asks -> Rows] /\ saves \in Seq(SaveRecs)
        /\ first \in [Asks -> Verdicts \cup {"none"}] /\ v # "none"
    BY DEF Base, RowsShape, ChoiceShape, Verdicts
  <1>5. ask[a] = "listed" /\ call[a].pc = "none" /\ ~hist[a].sent
    BY DEF Choose, Deciding, SentInv
  <1>6. CASE hist[a] = None
    <2>1. /\ hist' = [hist EXCEPT ![a] = Entry(v, FALSE)] /\ saves' = Save(hist', a)
          /\ first' = first /\ p = "saving"
      BY <1>6 DEF Choose, p
    <2>2. Store
      BY <1>1, <2>1, SaveGrows DEF Store, SamePage
    <2>3. ASSUME NEW b \in Asks \ {a} PROVE ChoiceOf(b)'
      <3>1. Steady(b)
        BY <1>1, <1>3, <1>4, <2>1, Apart
      <3> QED
        BY <1>1, <2>2, <3>1, SteadyAsk
    <2>4. first[a] = "none"
      BY <1>6 DEF ChoiceOf, Kept, Held
    <2>5. hist'[a] = Entry(v, FALSE) /\ Held(hist'[a], v)
      BY <1>4, <2>1 DEF Held, Entry, None
    <2>6. Ahead(a, v)'
      <3> DEFINE rec == [row |-> IF LastPage THEN disk ELSE hist', for |-> a, late |-> FALSE]
      <3>1. saves' = Append(saves, rec)
        BY <2>1 DEF Save, VerdictsAssumption
      <3>2. ~LastPage => rec.row = hist'
        OBVIOUS
      <3> HIDE DEF rec
      <3>3. /\ Len(saves) \in Nat /\ DOMAIN saves = 1..Len(saves) /\ DOMAIN saves' = 1..Len(saves) + 1
            /\ saves'[Len(saves) + 1] = rec /\ \A i \in 1..Len(saves) : saves'[i] = saves[i]
        BY <1>4, <3>1, Appended
      <3>4. \A i \in 1..Len(saves) : saves[i].for # a
        BY <1>5, <3>3 DEF Base, SavesInv, Waiting
      <3>5. ASSUME ~LastPage', NEW i \in DOMAIN saves', NEW j \in DOMAIN saves', i <= j, saves'[i].for = a
            PROVE  Held(saves'[j].row[a], v)
        <4>1. j = Len(saves) + 1
          BY <3>3, <3>4, <3>5
        <4>2. ~LastPage
          BY <1>1, <3>5 DEF LastPage
        <4> QED
          BY <2>5, <3>2, <3>3, <4>1, <4>2
      <3> QED
        BY <3>5 DEF Ahead
    <2>7. \A w \in Verdicts : <<"us", w>> \notin relay'[a]
      BY <1>1, <2>4 DEF ChoiceOf, Said
    <2>8. ASSUME NEW w, w = v PROVE Ahead(a, w)'
      BY <2>6, <2>8
    <2>9. ChoiceOf(a)'
      BY <1>3, <1>4, <2>1, <2>4, <2>5, <2>7, <2>8 DEF ChoiceOf, At, Going
    <2> QED
      BY <1>1, <2>1, <2>3, <2>9 DEF ChoiceShape
  <1>7. CASE hist[a] # None
    <2>1. /\ UNCHANGED <<hist, saves>> /\ FirstNow(a, v) /\ p = "weigh" /\ hist[a].chosen = v
      BY <1>7 DEF Choose, SameChoice, p
    <2>2. first' \in [Asks -> Verdicts \cup {"none"}] /\ first'[a] # "none"
          /\ (first[a] = "none" => first'[a] = v) /\ (first[a] # "none" => first'[a] = first[a])
          /\ \A b \in Asks \ {a} : first'[b] = first[b]
      BY <1>4, <2>1 DEF FirstNow
    <2>3. Store /\ StoreGrows /\ SamePage
      BY <1>1, <2>1 DEF Store, StoreGrows, SamePage
    <2>4. ASSUME NEW b \in Asks \ {a} PROVE ChoiceOf(b)'
      <3>1. Steady(b)
        BY <1>1, <1>3, <2>1, <2>2, Apart
      <3> QED
        BY <1>1, <2>3, <3>1, SteadyAsk
    <2>5. Kept(a, v) /\ first'[a] = v
      <3>1. CASE first[a] = "none"
        BY <1>5, <1>7, <2>1, <2>2, <3>1 DEF ChoiceOf, At
      <3>2. CASE first[a] # "none"
        <4>1. Kept(a, first[a])
          BY <3>2 DEF ChoiceOf
        <4>2. first[a] = v
          BY <1>5, <2>1, <4>1 DEF Kept, Held
        <4> QED
          BY <2>2, <3>2, <4>1, <4>2
      <3> QED
        BY <3>1, <3>2
    <2>6. Kept(a, v)'
      BY <2>1, <2>3, <2>5, KeptGrows DEF Kept
    <2>7. ASSUME NEW w, w = first'[a] PROVE Kept(a, w)'
      BY <2>5, <2>6, <2>7
    <2>8. \A w \in Verdicts : <<"us", w>> \in relay'[a] => Said(a, w)'
      BY <1>1, <2>2 DEF ChoiceOf, Said
    <2>9. Said(a, call[a].verdict)'
      BY <1>3, <2>2, <2>5 DEF Said
    <2>10. ChoiceOf(a)'
      BY <1>3, <2>1, <2>2, <2>7, <2>8, <2>9 DEF ChoiceOf, At, Going
    <2> QED
      BY <1>1, <2>2, <2>4, <2>10 DEF ChoiceShape
  <1> QED
    BY <1>6, <1>7

\* The write of a choice lands: from now on the choice is the first.
LEMMA ChoiceLands ==
    ASSUME VerdictsAssumption, Base, ChoiceShape, NEW i \in DOMAIN saves, SaveLands(i), ~crossed',
           NEW a \in Asks, saves[i].for = a, At(a, "saving"), ChoiceOf(a)
    PROVE  ChoiceOf(a)' /\ ChoiceShape' /\ \A b \in Asks \ {a} : first'[b] = first[b]
  <1> SUFFICES ASSUME NEW v, v = call[a].verdict
               PROVE  ChoiceOf(a)' /\ ChoiceShape' /\ \A b \in Asks \ {a} : first'[b] = first[b]
    OBVIOUS
  <1>1. /\ first[a] = "none" /\ v # "none" /\ hist[a] = Entry(v, FALSE) /\ Ahead(a, v)
        /\ v \in Verdicts \cup {"none"} /\ first \in [Asks -> Verdicts \cup {"none"}]
    BY DEF ChoiceOf, Base, CallShape, IsCall, ChoiceShape
  <1>2. UNCHANGED <<relay, left, hist>> /\ disk' = saves[i].row
    BY DEF SaveLands, askVars, bounds
  <1>3. FirstNow(a, v)
    BY DEF SaveLands, At, VerdictsAssumption
  <1>4. first' \in [Asks -> Verdicts \cup {"none"}] /\ first'[a] = v /\ \A b \in Asks \ {a} : first'[b] = first[b]
    BY <1>1, <1>3 DEF FirstNow
  <1>5. call'[a].pc = "weigh" /\ call'[a].verdict = v
    <2>1. Following[call[a].pc] = "weigh" /\ "weigh" \in Pcs /\ a # "nobody"
      BY DEF Following, At, Pcs, VerdictsAssumption
    <2>2. Goto(a, "weigh")
      BY <2>1 DEF SaveLands, Continue, Goto, At
    <2> QED
      BY <2>1, <2>2, GotoOf DEF Base
  <1>6. Kept(a, v)'
    <2>1. Held(hist'[a], v)
      BY <1>1, <1>2 DEF Held, Entry, None
    <2>2. LastPage' <=> LastPage
      BY <1>2 DEF LastPage
    <2>3. ASSUME ~LastPage PROVE Held(disk'[a], v)
      <3>1. i <= i
        BY DEF Base, RowsShape
      <3> QED
        BY <1>1, <1>2, <2>3, <3>1 DEF Ahead
    <2>4. ASSUME ~LastPage, NEW j \in DOMAIN saves', ~saves'[j].late
          PROVE  Held(saves'[j].row[a], v)
      <3>1. /\ Before(i, j) \in DOMAIN saves /\ saves'[j].row = saves[Before(i, j)].row
            /\ i <= Before(i, j)
        <4>1. CASE j < i
          <5>1. Len(saves) \in Nat /\ DOMAIN saves = 1..Len(saves)
            BY DEF Base, RowsShape
          <5>2. saves' = [k \in 1..Len(saves) - 1 |-> IF k < i THEN [saves[k] EXCEPT !.late = ~LastPage]
                                                      ELSE saves[k + 1]]
            BY DEF SaveLands
          <5>3. saves[j] \in SaveRecs /\ saves'[j] = [saves[j] EXCEPT !.late = ~LastPage]
            BY <4>1, <5>1, <5>2 DEF Base, RowsShape
          <5>4. saves'[j].late = ~LastPage
            BY <5>3 DEF SaveRecs
          <5> QED
            BY <2>4, <5>4
        <4>2. CASE ~(j < i)
          BY <4>2, Ended DEF Saving
        <4> QED
          BY <4>1, <4>2
      <3> QED
        BY <1>1, <2>4, <3>1 DEF Ahead
    <2> QED
      BY <2>1, <2>2, <2>3, <2>4 DEF Kept
  <1>7. ASSUME NEW w, w = first'[a] PROVE Kept(a, w)'
    BY <1>4, <1>6, <1>7
  <1>8. \A w \in Verdicts : <<"us", w>> \notin relay'[a]
    BY <1>1, <1>2 DEF ChoiceOf, Said
  <1>9. Said(a, call[a].verdict)'
    BY <1>1, <1>4, <1>5 DEF Said
  <1>10. ChoiceOf(a)'
    BY <1>1, <1>4, <1>5, <1>7, <1>8, <1>9 DEF ChoiceOf, At, Going
  <1> QED
    BY <1>2, <1>4, <1>10 DEF ChoiceShape

\* The write of a choice fails: there is no choice.
LEMMA ChoiceFails ==
    ASSUME Base, ChoiceShape, NEW i \in DOMAIN saves, SaveFails(i),
           NEW a \in Asks, saves[i].for = a, At(a, "saving"), ChoiceOf(a)
    PROVE  ChoiceOf(a)' /\ ChoiceShape'
  <1>1. first[a] = "none" /\ UNCHANGED <<relay, left, first>>
    BY DEF ChoiceOf, SaveFails, askVars, bounds
  <1>2. hist' = [hist EXCEPT ![a] = None] /\ call' = [call EXCEPT ![a] = NoCall]
    BY DEF SaveFails, At
  <1>3. hist'[a] = None /\ call'[a].pc = "none"
    <2>1. hist'[a] = None
      BY <1>2 DEF Base, RowsShape
    <2>2. call'[a] = NoCall
      BY <1>2, CallOf DEF Base
    <2> QED
      BY <2>1, <2>2 DEF NoCall
  <1>4. \A w \in Verdicts : <<"us", w>> \notin relay'[a]
    BY <1>1 DEF ChoiceOf, Said
  <1>5. ChoiceOf(a)'
    BY <1>1, <1>3, <1>4 DEF ChoiceOf, At, Going
  <1> QED
    BY <1>1, <1>5 DEF ChoiceShape

\* A write ends: for a choice, for a call that goes on, or for nobody.
LEMMA SavingChoice ==
    ASSUME VerdictsAssumption, Base, SentInv, ChoiceShape, NEW i \in DOMAIN saves, Saving(i),
           ~crossed', \A b \in Asks : ChoiceOf(b)
    PROVE  ChoiceShape' /\ \A b \in Asks : ChoiceOf(b)'
  <1> SUFFICES ASSUME NEW a, a = saves[i].for
               PROVE  ChoiceShape' /\ \A b \in Asks : ChoiceOf(b)'
    OBVIOUS
  <1>1. a \in Asks \cup {"nobody"} /\ hist \in [Asks -> Rows] /\ CallShape
    <2>1. saves[i] \in SaveRecs
      BY DEF Base, RowsShape
    <2> QED
      BY <2>1 DEF SaveRecs, Base, RowsShape
  <1>2. UNCHANGED <<relay, left>> /\ Store
    BY DEF Saving, SaveLands, SaveFails, askVars, bounds, Store, SamePage
  <1>3. ASSUME \A b \in Asks : Steady(b), first' = first
        PROVE  ChoiceShape' /\ \A b \in Asks : ChoiceOf(b)'
    BY <1>2, <1>3, SteadyAsk DEF ChoiceShape
  <1>4. CASE a \notin Asks
    <2>1. a = "nobody"
      BY <1>1, <1>4
    <2>2. UNCHANGED <<call, hist, first>>
      BY <1>4, <2>1 DEF Saving, SaveLands, SaveFails, Continue
    <2> QED
      BY <1>2, <1>3, <2>2, Apart
  <1>5. CASE a \in Asks /\ call[a].pc = "saving"
    <2>1. ASSUME NEW b \in Asks \ {a}, first'[b] = first[b] PROVE ChoiceOf(b)'
      <3>1. hist'[b] = hist[b]
        BY <1>1, <1>5 DEF Saving, SaveLands, SaveFails
      <3>2. \E c : call' = [call EXCEPT ![a] = c]
        BY <1>5 DEF Saving, SaveLands, SaveFails, Continue, VerdictsAssumption
      <3>3. call'[b] = call[b]
        BY <1>1, <1>5, <3>2, CallOf
      <3>4. Steady(b)
        BY <1>2, <2>1, <3>1, <3>3, Apart
      <3> QED
        BY <1>2, <3>4, SteadyAsk
    <2>2. CASE SaveLands(i)
      BY <1>5, <2>1, <2>2, ChoiceLands DEF At
    <2>3. CASE SaveFails(i)
      <3>1. first' = first
        BY <2>3 DEF SaveFails
      <3> QED
        BY <1>5, <2>1, <2>3, <3>1, ChoiceFails DEF At
    <2> QED
      BY <2>2, <2>3 DEF Saving
  <1>6. CASE a \in Asks /\ call[a].pc # "saving"
    <2>1. call[a].pc \in {"recording", "closing"} /\ a # "nobody"
      BY <1>6 DEF Base, SavesInv, Waiting, VerdictsAssumption
    <2>2. UNCHANGED <<hist, first>> /\ Continue(a)
      BY <1>6 DEF Saving, SaveLands, SaveFails
    <2>3. /\ call'[a].pc = "none" \/ (call'[a].pc = "check" /\ call'[a].verdict = call[a].verdict)
          /\ \A b \in Asks \ {a} : call'[b] = call[b]
      <3>1. CASE call[a].pc = "closing"
        <4>1. call' = [call EXCEPT ![a] = NoCall]
          BY <2>1, <2>2, <3>1 DEF Continue
        <4>2. call'[a] = NoCall /\ \A b \in Asks \ {a} : call'[b] = call[b]
          BY <1>1, <1>6, <4>1, CallOf
        <4> QED
          BY <4>2 DEF NoCall
      <3>2. CASE call[a].pc = "recording"
        <4>1. Goto(a, "check") /\ "check" \in Pcs
          BY <2>1, <2>2, <3>2 DEF Continue, Goto, Following, Pcs
        <4> QED
          BY <1>1, <1>6, <4>1, GotoOf
      <3> QED
        BY <2>1, <3>1, <3>2
    <2>4. Steady(a)
      BY <1>2, <1>6, <2>1, <2>2, <2>3 DEF Steady, CallMoves, Going
    <2>5. ASSUME NEW b \in Asks \ {a} PROVE Steady(b)
      BY <1>2, <2>2, <2>3, Apart
    <2> QED
      BY <1>3, <2>2, <2>4, <2>5
  <1> QED
    BY <1>1, <1>4, <1>5, <1>6

\* A push moves the call of the holder of the lock, if it is an answer.
LEMMA PushesSteady ==
    ASSUME VerdictsAssumption, Inv, ChoiceShape, Pushes
    PROVE  ChoiceShape' /\ Store /\ \A b \in Asks : Steady(b)
  <1>1. UNCHANGED <<relay, hist, disk, saves, first, left>>
    BY DEF Pushes, RunPush, TakeLock, AlreadyRight, MustChange, Updated, Unconfirmed, PushFails, Stale,
           PushEnds, askVars, savedVars, bounds
  <1>2. \A b \in Asks : CallMoves(b)
    <2>1. CASE RunPush \/ TakeLock \/ MustChange \/ Stale
      BY <2>1 DEF RunPush, TakeLock, MustChange, Stale, CallMoves
    <2>2. ASSUME NEW ok \in BOOLEAN, PushEnds(ok), job.pc # "idle"
          PROVE  \A b \in Asks : CallMoves(b)
      <3> SUFFICES ASSUME NEW h, h = Head(queue)
                   PROVE  \A b \in Asks : CallMoves(b)
        OBVIOUS
      <3>1. CASE h = "regular"
        BY <2>2, <3>1 DEF PushEnds, CallMoves
      <3>2. CASE h # "regular"
        <4>1. queue \in Seq(Asks \cup {"regular"}) /\ IsInjective(queue) /\ queue # <<>>
          BY <2>2 DEF Inv, QueueInv
        <4>2. h \in ToSet(queue) /\ h \in Asks \cup {"regular"}
          BY <4>1, Leaves
        <4>3. h \in Asks /\ call[h].pc = "push" /\ CallShape
          BY <3>2, <4>2 DEF Inv, QueueInv, Base
        <4>4. PICK c : /\ call' = [call EXCEPT ![h] = c]
                       /\ c = [call[h] EXCEPT !.pc = "outcome"] \/ c = Denied
          BY <2>2, <3>2 DEF PushEnds
        <4>5. c.pc = "outcome" /\ c.verdict \in {call[h].verdict, "deny"}
          BY <4>3, <4>4 DEF CallShape, IsCall, Denied, NoCall
        <4> QED
          BY <4>3, <4>4, <4>5, CallOf DEF CallMoves, Going
      <3> QED
        BY <3>1, <3>2
    <2>3. CASE AlreadyRight \/ Updated \/ Unconfirmed \/ PushFails
      <3>1. PICK ok \in BOOLEAN : PushEnds(ok) /\ job.pc # "idle"
        <4>1. CASE AlreadyRight
          BY <4>1 DEF AlreadyRight
        <4>2. CASE Updated
          BY <4>2 DEF Updated
        <4>3. CASE Unconfirmed
          BY <4>3 DEF Unconfirmed
        <4>4. CASE PushFails
          BY <4>4 DEF PushFails
        <4> QED
          BY <2>3, <4>1, <4>2, <4>3, <4>4
      <3> QED
        BY <2>2, <3>1
    <2> QED
      BY <2>1, <2>3 DEF Pushes
  <1> QED
    BY <1>1, <1>2 DEF ChoiceShape, Store, SamePage, StoreGrows, Steady

\* The page is gone: what is read back is the stored row.
LEMMA RestartChoice ==
    ASSUME ChoiceShape, Restart, NEW b \in Asks, ChoiceOf(b)
    PROVE  ChoiceShape' /\ ChoiceOf(b)'
  <1>1. /\ ~LastPage /\ left' \in [EventKinds -> Nat]
        /\ UNCHANGED <<relay, disk, first>> /\ hist' = disk /\ saves' = <<>>
        /\ call'[b].pc = "none"
    <2>1. Event("restart") /\ "restart" \in EventKinds
      BY DEF Restart, EventKinds
    <2>2. ~LastPage /\ left' \in [EventKinds -> Nat]
      BY <2>1, Decreased DEF Event, LastPage, ChoiceShape
    <2>3. call' = [a \in Asks |-> NoCall] /\ NoCall.pc = "none"
      BY DEF Restart, NoCall
    <2> QED
      BY <2>2, <2>3 DEF Restart
  <1>2. ASSUME NEW v, Held(disk[b], v) PROVE Kept(b, v)'
    BY <1>1, <1>2 DEF Kept
  <1>3. disk[b] # None => Kept(b, disk[b].chosen)'
    <2>1. ASSUME NEW v, v = disk[b].chosen, disk[b] # None PROVE Kept(b, v)'
      BY <1>2, <2>1 DEF Held
    <2> QED
      BY <1>1, <2>1
  <1>4. first[b] # "none" => Kept(b, first[b])'
    <2>1. ASSUME NEW v, v = first[b], first[b] # "none" PROVE Kept(b, v)'
      BY <1>1, <1>2, <2>1 DEF ChoiceOf, Kept
    <2> QED
      BY <1>1, <2>1
  <1>5. \A w : Said(b, w)' <=> Said(b, w)
    BY <1>1 DEF Said
  <1> QED
    BY <1>1, <1>3, <1>4, <1>5 DEF ChoiceOf, ChoiceShape, At, Going

\* An older row that has landed over a newer one is not forgotten.
LEMMA StaysCrossed == ASSUME [Next]_vars, crossed PROVE crossed'
  BY DEF Next, Decides, Pushes, AskArrives, AskExpires, ChooseAnswered, ReplyArrives, Choose, OtherAnswers,
         Deny, Refuse, Once, Always, RuleSaved, GiveUp, AskForLock, Record, Overtaken, Unanswered, Publish,
         Sent, NotSent, Saving, SaveLands, SaveFails, RunPush, TakeLock, AlreadyRight, MustChange, Updated,
         Unconfirmed, PushFails, Stale, PushEnds, OtherWrites, WindowsEnd, Restart, vars, savedVars

LEMMA NextChoice ==
    ASSUME VerdictsAssumption, Inv, SentInv, ChoiceInv, [Next]_vars
    PROVE  ChoiceInv'
  <1> SUFFICES ASSUME ~crossed'
               PROVE  ChoiceShape' /\ \A b \in Asks : ChoiceOf(b)'
    BY DEF ChoiceInv
  <1>1. ~crossed /\ ChoiceShape /\ (\A b \in Asks : ChoiceOf(b)) /\ Base
    BY StaysCrossed DEF ChoiceInv, Inv
  <1>2. ASSUME ChoiceShape', Store, \A b \in Asks : Steady(b)
        PROVE  ChoiceShape' /\ \A b \in Asks : ChoiceOf(b)'
    BY <1>1, <1>2, SteadyAsk
  <1>3. ASSUME NEW a \in Asks,
               \/ AskArrives(a) \/ AskExpires(a) \/ ChooseAnswered(a) \/ Decides(a)
               \/ \E v \in Verdicts : ReplyArrives(a, v)
               \/ \E v \in Answers[a] : Choose(a, v)
               \/ \E v \in OthersSay : OtherAnswers(a, v)
        PROVE  ChoiceShape' /\ \A b \in Asks : ChoiceOf(b)'
    <2>1. Answers[a] \subseteq Verdicts /\ OthersSay \subseteq Verdicts
      BY DEF VerdictsAssumption, Verdicts
    <2>2. CASE Decides(a)
      BY <1>1, <1>2, <2>2, DecidesSteady
    <2>3. CASE \E v \in Answers[a] : Choose(a, v)
      BY <1>1, <2>1, <2>3, ChooseChoice
    <2>4. CASE \/ AskArrives(a) \/ AskExpires(a) \/ ChooseAnswered(a)
               \/ \E v \in Verdicts : ReplyArrives(a, v) \/ OtherAnswers(a, v)
      BY <1>1, <1>2, <2>4, InboxSteady
    <2> QED
      BY <1>3, <2>1, <2>2, <2>3, <2>4
  <1>4. ASSUME NEW i \in DOMAIN saves, Saving(i)
        PROVE  ChoiceShape' /\ \A b \in Asks : ChoiceOf(b)'
    BY <1>1, <1>4, SavingChoice
  <1>5. CASE Pushes
    BY <1>1, <1>2, <1>5, PushesSteady
  <1>6. CASE WindowsEnd \/ (\E c \in Foreign : OtherWrites(c)) \/ UNCHANGED vars
    <2>1. UNCHANGED <<hist, disk, saves, relay, call, first>>
      BY <1>6 DEF WindowsEnd, OtherWrites, vars, askVars, savedVars
    <2>2. SamePage /\ left' \in [EventKinds -> Nat]
      <3>1. CASE WindowsEnd
        BY <1>1, <3>1, Decreased DEF WindowsEnd, EventKinds
      <3>2. CASE \E c \in Foreign : OtherWrites(c)
        BY <1>1, <3>2, Decreased DEF OtherWrites, EventKinds
      <3>3. CASE UNCHANGED vars
        BY <1>1, <3>3 DEF vars, bounds, SamePage, ChoiceShape
      <3> QED
        BY <1>6, <3>1, <3>2, <3>3
    <2>3. \A b \in Asks : Steady(b)
      BY <2>1, Apart
    <2> QED
      BY <1>1, <1>2, <2>1, <2>2, <2>3 DEF ChoiceShape, Store, StoreGrows
  <1>7. CASE Restart
    <2>1. left' \in [EventKinds -> Nat] /\ first' = first
      BY <1>1, <1>7, Decreased DEF Restart, EventKinds
    <2> QED
      BY <1>1, <1>7, <2>1, RestartChoice DEF ChoiceShape
  <1> QED
    BY <1>3, <1>4, <1>5, <1>6, <1>7 DEF Next

LEMMA InitChoice == ASSUME VerdictsAssumption, Init PROVE ChoiceInv
  <1>1. ChoiceShape
    BY DEF Init, ChoiceShape, VerdictsAssumption
  <1>2. NoCall.pc = "none"
    BY DEF NoCall
  <1>3. ASSUME NEW a \in Asks PROVE ChoiceOf(a)
    <2>1. first[a] = "none" /\ hist[a] = None /\ call[a] = NoCall /\ relay[a] = {}
      BY DEF Init
    <2> QED
      BY <1>2, <2>1 DEF ChoiceOf, At, Going
  <1> QED
    BY <1>1, <1>3 DEF ChoiceInv

(* What this phone publishes for an ask is the first choice that was saved, *)
(* or the deny it was converted to, over any number of restarts, failed     *)
(* saves and answers that are sent again, unless an older history row       *)
(* landed over a newer one.                                                 *)
THEOREM ChoiceKeptHolds == Spec => []ChoiceKept
  <1>1. Init => SentInv /\ ChoiceInv
    <2>1. Init => SentInv
      BY DEF Init, SentInv, None, NoCall
    <2> QED
      BY <2>1, VerdictsAssumption, InitChoice
  <1>2. Inv /\ SentInv /\ ChoiceInv /\ [Next]_vars => SentInv' /\ ChoiceInv'
    BY VerdictsAssumption, NextSent, NextChoice
  <1>3. ChoiceInv => ChoiceKept
    BY DEF ChoiceInv, ChoiceOf, Said, ChoiceKept
  <1> QED
    BY <1>1, <1>2, <1>3, Invariance, PTL DEF Spec
=============================================================================
