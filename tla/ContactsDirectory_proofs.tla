---------------------- MODULE ContactsDirectory_proofs ----------------------
(***************************************************************************)
(* What a set of contact operations means, for every set: the two replays  *)
(* of ContactsDirectory, operation by operation.                           *)
(*                                                                         *)
(* A replay is a fold over the set, latest operation outermost.  The first *)
(* part shows that the fold is defined (ReplayExists): every history of the *)
(* set has the state of the history without its latest, one step on.  All   *)
(* else is then an induction over histories (HistoryInduction), in the form *)
(* that a set of sets which is not empty has a member with no smaller one.  *)
(***************************************************************************)
EXTENDS ContactsDirectory, TLAPS, FiniteSetTheorems, WellFoundedInduction

-----------------------------------------------------------------------------
(* Order.                                                                  *)

\* A finite set that the order of replay sorts.
Ordered(S) ==
    /\ IsFiniteSet(S)
    /\ \A a, b \in S : a # b => Before(a, b) \/ Before(b, a)
    /\ \A a, b \in S : a # b /\ Before(a, b) => ~Before(b, a)
    /\ \A a, b, c \in S : a # b /\ b # c /\ Before(a, b) /\ Before(b, c) => Before(a, c)

LEMMA OrderedPart ==
    ASSUME NEW S, Ordered(S), NEW T \in SUBSET S
    PROVE  Ordered(T)
  <1>1. IsFiniteSet(T)
    BY FS_Subset DEF Ordered
  <1> QED
    BY <1>1 DEF Ordered

\* A finite set that is totally ordered has a least member.
LEMMA LeastExists ==
    ASSUME NEW S, IsFiniteSet(S), S # {}, NEW R,
           \A a, b \in S : a # b => <<a, b>> \in R \/ <<b, a>> \in R,
           \A a, b, c \in S : <<a, b>> \in R /\ <<b, c>> \in R => <<a, c>> \in R
    PROVE  \E m \in S : \A x \in S \ {m} : <<m, x>> \in R
  <1> DEFINE Least(T) == \E m \in T : \A x \in T \ {m} : <<m, x>> \in R
             Bad == {T \in SUBSET S : T # {} /\ ~Least(T)}
             Smaller == StrictSubsetOrdering(S)
  <1>1. SUFFICES ASSUME ~Least(S) PROVE FALSE
    OBVIOUS
  <1>2. IsWellFoundedOn(Smaller, SUBSET S)
    BY FS_StrictSubsetOrderingWellFounded, FS_FiniteSubsetsOfFinite
  <1>3. Bad \subseteq SUBSET S /\ Bad # {}
    BY <1>1
  <1>4. PICK T \in Bad : \A U \in Bad : ~(<<U, T>> \in Smaller)
    <2> HIDE DEF Bad, Smaller
    <2> QED
      BY <1>2, <1>3, WFMin
  <1>5. T \in SUBSET S /\ T # {} /\ ~Least(T)
    BY <1>4
  <1>6. PICK a \in T : TRUE
    BY <1>5
  <1>7. <<T \ {a}, T>> \in Smaller
    BY <1>5, <1>6 DEF StrictSubsetOrdering
  <1>8. T \ {a} = {} \/ Least(T \ {a})
    BY <1>4, <1>5, <1>7
  <1>9. CASE T \ {a} = {}
    BY <1>5, <1>6, <1>9
  <1>10. CASE Least(T \ {a})
    <2>1. PICK m \in T \ {a} : \A x \in (T \ {a}) \ {m} : <<m, x>> \in R
      BY <1>10
    <2>2. CASE <<m, a>> \in R
      <3>1. \A x \in T \ {m} : <<m, x>> \in R
        BY <2>1, <2>2
      <3> QED
        BY <1>5, <2>1, <3>1
    <2>3. CASE <<a, m>> \in R
      <3>1. \A x \in T \ {a} : <<a, x>> \in R
        BY <1>5, <1>6, <2>1, <2>3
      <3> QED
        BY <1>5, <1>6, <3>1
    <2> QED
      BY <1>5, <1>6, <2>1, <2>2, <2>3
  <1> QED
    BY <1>8, <1>9, <1>10

LEMMA EarliestIs ==
    ASSUME NEW S, Ordered(S), NEW T \in SUBSET S, T # {}
    PROVE  Earliest(T) \in T /\ \A op \in T \ {Earliest(T)} : Before(Earliest(T), op)
  <1> DEFINE R == {p \in T \X T : p[1] # p[2] /\ Before(p[1], p[2])}
  <1>1. \A a, b \in T : <<a, b>> \in R <=> a # b /\ Before(a, b)
    OBVIOUS
  <1> HIDE DEF R
  <1>2. IsFiniteSet(T)
    BY FS_Subset DEF Ordered
  <1>3. \A a, b \in T : a # b => <<a, b>> \in R \/ <<b, a>> \in R
    BY <1>1 DEF Ordered
  <1>4. \A a, b, c \in T : <<a, b>> \in R /\ <<b, c>> \in R => <<a, c>> \in R
    BY <1>1 DEF Ordered
  <1>5. \E m \in T : \A x \in T \ {m} : <<m, x>> \in R
    BY <1>2, <1>3, <1>4, LeastExists
  <1> QED
    BY <1>1, <1>5 DEF Earliest

LEMMA LatestIs ==
    ASSUME NEW S, Ordered(S), NEW T \in SUBSET S, T # {}
    PROVE  Latest(T) \in T /\ \A op \in T \ {Latest(T)} : Before(op, Latest(T))
  <1> DEFINE R == {p \in T \X T : p[1] # p[2] /\ Before(p[2], p[1])}
  <1>1. \A a, b \in T : <<a, b>> \in R <=> a # b /\ Before(b, a)
    OBVIOUS
  <1> HIDE DEF R
  <1>2. IsFiniteSet(T)
    BY FS_Subset DEF Ordered
  <1>3. \A a, b \in T : a # b => <<a, b>> \in R \/ <<b, a>> \in R
    BY <1>1 DEF Ordered
  <1>4. \A a, b, c \in T : <<a, b>> \in R /\ <<b, c>> \in R => <<a, c>> \in R
    BY <1>1 DEF Ordered
  <1>5. \E m \in T : \A x \in T \ {m} : <<m, x>> \in R
    BY <1>2, <1>3, <1>4, LeastExists
  <1> QED
    BY <1>1, <1>5 DEF Latest

\* The choice is the only one that could be made.
LEMMA EarliestIsOnly ==
    ASSUME NEW S, Ordered(S), NEW T \in SUBSET S, NEW op \in T, \A x \in T \ {op} : Before(op, x)
    PROVE  Earliest(T) = op
  BY EarliestIs DEF Ordered

LEMMA LatestIsOnly ==
    ASSUME NEW S, Ordered(S), NEW T \in SUBSET S, NEW op \in T, \A x \in T \ {op} : Before(x, op)
    PROVE  Latest(T) = op
  BY LatestIs DEF Ordered

-----------------------------------------------------------------------------
(* The folds.                                                              *)

\* One step of a replay: of the first, or of the second under the kin that the
\* first has found.
OneStep(S, replay, op, state) ==
    IF replay.first THEN Meets(op, state) ELSE GroupStep(S, replay.kin, replay.canon, state, op)

\* The states of a replay, one for each set of operations.
Unfolding(S, replay, base, f) ==
    f = [t \in SUBSET S |-> IF t = {} THEN base ELSE OneStep(S, replay, Latest(t), f[t \ {Latest(t)}])]

LEMMA ReplayExists ==
    ASSUME NEW S, Ordered(S), NEW replay, NEW base
    PROVE  \E f : Unfolding(S, replay, base, f)
  <1> DEFINE Level(n) == {t \in SUBSET S : Cardinality(t) <= n}
             Upto(n) == \E f : f = [t \in Level(n) |-> IF t = {} THEN base
                                                 ELSE OneStep(S, replay, Latest(t), f[t \ {Latest(t)}])]
             Bad == {n \in Nat : ~Upto(n)}
             R == OpToRel(<, Nat)
  <1>1. \A t \in SUBSET S : IsFiniteSet(t) /\ Cardinality(t) \in Nat
    BY FS_Subset, FS_CardinalityType DEF Ordered
  <1>2. Level(0) = {{}}
    BY <1>1, FS_EmptySet
  <1>3. Upto(0)
    <2> [t \in Level(0) |-> base] = [t \in Level(0) |-> IF t = {} THEN base
                  ELSE OneStep(S, replay, Latest(t), [u \in Level(0) |-> base][t \ {Latest(t)}])]
      BY <1>2
    <2> QED
      OBVIOUS
  <1>4. ASSUME NEW n \in Nat, Upto(n) PROVE Upto(n + 1)
    <2> DEFINE Step(f, t) == IF t = {} THEN base ELSE OneStep(S, replay, Latest(t), f[t \ {Latest(t)}])
    <2>1. PICK f : f = [t \in Level(n) |-> Step(f, t)]
      BY <1>4
    <2> DEFINE g == [t \in Level(n + 1) |-> Step(f, t)]
    <2>2. \A t \in Level(n) : t \in Level(n + 1) /\ g[t] = f[t]
      <3>1. \A t \in Level(n) : t \in Level(n + 1)
        BY <1>1
      <3>2. \A t \in Level(n) : f[t] = Step(f, t)
        <4> HIDE DEF Step, Level
        <4> QED
          BY <2>1
      <3> HIDE DEF Step, Level
      <3> QED
        BY <3>1, <3>2
    <2>3. ASSUME NEW t \in Level(n + 1), t # {} PROVE t \ {Latest(t)} \in Level(n)
      <3>1. Latest(t) \in t
        BY LatestIs, <2>3
      <3>2. Cardinality(t \ {Latest(t)}) = Cardinality(t) - 1
        BY <1>1, <3>1, FS_RemoveElement
      <3> QED
        BY <1>1, <3>2
    <2>4. \A t \in Level(n + 1) : Step(g, t) = Step(f, t)
      <3> HIDE DEF g, Level
      <3> QED
        BY <2>2, <2>3
    <2>5. g = [t \in Level(n + 1) |-> Step(g, t)]
      <3>1. g = [t \in Level(n + 1) |-> Step(f, t)]
        OBVIOUS
      <3> HIDE DEF g, Step, Level
      <3> QED
        BY <2>4, <3>1
    <2> QED
      <3> HIDE DEF g
      <3> QED
        BY <2>5
  <1>5. Bad = {}
    <2> SUFFICES ASSUME Bad # {} PROVE FALSE
      OBVIOUS
    <2>1. PICK n \in Bad : \A m \in Bad : ~(<<m, n>> \in R)
      <3>1. IsWellFoundedOn(R, Nat) /\ Bad \subseteq Nat
        BY NatLessThanWellFounded
      <3> HIDE DEF Bad, R
      <3> QED
        BY <3>1, WFMin
    <2> HIDE DEF Upto, Level
    <2>2. n \in Nat /\ n # 0 /\ n - 1 \in Nat /\ ~Upto(n)
      <3>1. n \in Nat /\ ~Upto(n)
        BY <2>1
      <3>2. n # 0
        BY <1>3, <3>1
      <3> QED
        BY <3>1, <3>2
    <2>3. <<n - 1, n>> \in R
      BY <2>2 DEF OpToRel
    <2>4. Upto(n - 1)
      BY <2>1, <2>2, <2>3
    <2>5. Upto((n - 1) + 1) /\ (n - 1) + 1 = n
      BY <1>4, <2>2, <2>4
    <2> QED
      BY <2>2, <2>5
  <1>6. Upto(Cardinality(S))
    <2> HIDE DEF Upto
    <2> QED
      BY <1>1, <1>5
  <1>7. Level(Cardinality(S)) = SUBSET S
    BY <1>1, FS_Subset DEF Ordered
  <1> QED
    <2> HIDE DEF Level
    <2> QED
      BY <1>6, <1>7 DEF Unfolding

MetUnfolding(S, f) ==
    f = [t \in SUBSET S |-> IF t = {} THEN Apart(S) ELSE Meets(Latest(t), f[t \ {Latest(t)}])]

Met(S) == CHOOSE f : MetUnfolding(S, f)

LEMMA MetUnfolds ==
    ASSUME NEW S, Ordered(S)
    PROVE  /\ Met(S)[{}] = Apart(S)
           /\ \A t \in SUBSET S : t # {} => Met(S)[t] = Meets(Latest(t), Met(S)[t \ {Latest(t)}])
  <1> DEFINE replay == [first |-> TRUE]
  <1>1. PICK f : Unfolding(S, replay, Apart(S), f)
    BY ReplayExists
  <1>2. MetUnfolding(S, f)
    BY <1>1 DEF Unfolding, MetUnfolding, OneStep
  <1>3. MetUnfolding(S, Met(S))
    BY <1>2 DEF Met
  <1> QED
    BY <1>3 DEF MetUnfolding

LEMMA ViewIsMet ==
    ASSUME NEW S, Ordered(S)
    PROVE  View(S) = Resolve(S, Met(S)[S])
  BY DEF View, MapThenFoldSet, Met, MetUnfolding

\* The sets of operations that a replay goes through.
Histories(S) == {t \in SUBSET S : \A a \in t : \A b \in S \ {a} : Before(b, a) => b \in t}

\* A replay that has come to t takes op next.
Follows(S, t, op) ==
    /\ t \in Histories(S) /\ t \cup {op} \in Histories(S)
    /\ op \in S \ t /\ \A x \in t : Before(x, op)

LEMMA HistoryInduction ==
    ASSUME NEW S, Ordered(S), NEW G, {} \in G,
           \A t, op : Follows(S, t, op) /\ t \in G => t \cup {op} \in G
    PROVE  Histories(S) \subseteq G
  <1> DEFINE Bad == Histories(S) \ G
             Smaller == StrictSubsetOrdering(S)
  <1> SUFFICES ASSUME Bad # {} PROVE FALSE
    OBVIOUS
  <1>1. IsWellFoundedOn(Smaller, SUBSET S)
    BY FS_StrictSubsetOrderingWellFounded, FS_FiniteSubsetsOfFinite DEF Ordered
  <1>2. PICK t \in Bad : \A u \in Bad : ~(<<u, t>> \in Smaller)
    <2>1. Bad \subseteq SUBSET S
      BY DEF Histories
    <2> HIDE DEF Bad, Smaller
    <2> QED
      BY <1>1, <2>1, WFMin
  <1>3. t \in Histories(S) /\ t \notin G /\ t \in SUBSET S /\ t # {}
    BY <1>2 DEF Histories
  <1> DEFINE op == Latest(t)
             rest == t \ {op}
  <1>4. op \in t /\ \A x \in rest : Before(x, op)
    BY <1>3, LatestIs
  <1> HIDE DEF op
  <1>5. rest \in Histories(S)
    BY <1>3, <1>4 DEF Histories, Ordered
  <1>6. <<rest, t>> \in Smaller
    BY <1>3, <1>4 DEF StrictSubsetOrdering
  <1>7. rest \in G
    BY <1>2, <1>5, <1>6
  <1>8. Follows(S, rest, op) /\ rest \cup {op} = t
    BY <1>3, <1>4, <1>5 DEF Follows
  <1> QED
    <2> HIDE DEF rest
    <2> QED
      BY <1>3, <1>7, <1>8

LEMMA LastOf ==
    ASSUME NEW S, Ordered(S), NEW t, NEW op, Follows(S, t, op)
    PROVE  /\ t \cup {op} \in SUBSET S /\ t \in SUBSET S
           /\ Latest(t \cup {op}) = op /\ (t \cup {op}) \ {op} = t
  <1>1. t \cup {op} \in SUBSET S /\ t \in SUBSET S /\ op \notin t
    BY DEF Follows, Histories
  <1>2. \A x \in (t \cup {op}) \ {op} : Before(x, op)
    BY DEF Follows
  <1> QED
    BY <1>1, <1>2, LatestIsOnly

LEMMA MetStep ==
    ASSUME NEW S, Ordered(S), NEW t, NEW op, Follows(S, t, op)
    PROVE  Met(S)[t \cup {op}] = Meets(op, Met(S)[t])
  BY LastOf, MetUnfolds

-----------------------------------------------------------------------------
(* One operation on one record.                                            *)

Lives == {"none", "active", "removed", "archived"}

IsRecord(r) ==
    /\ r = [life |-> r.life, lists |-> r.lists, items |-> r.items, blocks |-> r.blocks]
    /\ r.life \in Lives

LEMMA NoRecordIs == IsRecord(NoRecord)
  BY DEF IsRecord, NoRecord, Lives

LEMMA LinkedIs ==
    ASSUME NEW r, IsRecord(r), NEW list
    PROVE  /\ IsRecord(Linked(r, list))
           /\ Linked(r, list).life = r.life /\ Linked(r, list).blocks = r.blocks
           /\ Linked(r, list).items = r.items
           /\ Linked(r, list).lists = IF list = "none" THEN r.lists ELSE r.lists \cup {list}
  BY DEF IsRecord, Linked

LEMMA UnlinkedIs ==
    ASSUME NEW r, IsRecord(r), NEW list
    PROVE  /\ IsRecord(Unlinked(r, list))
           /\ Unlinked(r, list).life \in {r.life, "removed"} /\ Unlinked(r, list).blocks = r.blocks
           /\ Unlinked(r, list).items = r.items
           /\ Unlinked(r, list).lists = r.lists \ {list}
           /\ r.lists # {list} => Unlinked(r, list).life = r.life
  <1>1. CASE list \notin r.lists
    BY <1>1 DEF IsRecord, Unlinked
  <1>2. CASE list \in r.lists
    BY <1>2 DEF IsRecord, Unlinked, Lives
  <1> QED
    BY <1>1, <1>2

\* What each operation does to a record that takes it.
LEMMA EffectIs ==
    ASSUME NEW r, IsRecord(r), NEW op, op.act \in Acts
    PROVE  /\ IsRecord(Effect(r, op))
           /\ op.act = "add" => Effect(r, op) = [Linked(r, op.list) EXCEPT !.life = "active"]
           /\ op.act \in {"remove", "archive"} => Effect(r, op).life \in Gone /\ Effect(r, op).lists = {}
           /\ op.act = "unlink" => Effect(r, op) = Unlinked(r, op.list)
           /\ op.act \notin {"add", "remove", "archive", "unlink"} => Effect(r, op).life = r.life
           /\ op.act = "block" => Effect(r, op).blocks =
                    r.blocks \cup {[id |-> Id(op), by |-> Actor[op.dev], lifted |-> FALSE]}
           /\ op.act = "unblock" => Effect(r, op).blocks = Lifted(r, op).blocks
           /\ op.act \notin {"block", "unblock"} => Effect(r, op).blocks = r.blocks
  <1>1. CASE op.act = "add"
    <2>1. Effect(r, op) = [Linked(r, op.list) EXCEPT !.life = "active"]
      BY <1>1 DEF Effect
    <2>2. IsRecord(Linked(r, op.list)) /\ Linked(r, op.list).blocks = r.blocks
      BY LinkedIs
    <2>3. IsRecord(Effect(r, op)) /\ Effect(r, op).blocks = Linked(r, op.list).blocks
      BY <2>1, <2>2 DEF IsRecord, Lives
    <2> QED
      BY <1>1, <2>1, <2>2, <2>3
  <1>2. CASE op.act = "link"
    BY <1>2, LinkedIs DEF Effect
  <1>3. CASE op.act = "unlink"
    BY <1>3, UnlinkedIs DEF Effect
  <1>4. CASE op.act = "add-identity"
    BY <1>4 DEF Effect, WithKey, IsRecord
  <1>5. CASE op.act = "remove-item"
    BY <1>5 DEF Effect, IsRecord
  <1>6. CASE op.act = "remove"
    BY <1>6 DEF Effect, IsRecord, Lives, Gone
  <1>7. CASE op.act = "archive"
    BY <1>7 DEF Effect, IsRecord, Lives, Gone
  <1>8. CASE op.act = "block"
    BY <1>8 DEF Effect, IsRecord
  <1>9. CASE op.act = "unblock"
    BY <1>9 DEF Effect, Lifted, IsRecord
  <1>10. CASE op.act = "origin"
    BY <1>10 DEF Effect, IsRecord
  <1> QED
    BY <1>1, <1>2, <1>3, <1>4, <1>5, <1>6, <1>7, <1>8, <1>9, <1>10 DEF Acts

\* And what it does to any record.
LEMMA ApplyIs ==
    ASSUME NEW r, IsRecord(r), NEW op, op.act \in Acts
    PROVE  /\ IsRecord(ApplyOne(r, op))
           /\ op.act = "add" => ApplyOne(r, op).life = "active"
           /\ op.act \in {"remove", "archive"} => ApplyOne(r, op).life # "active"
           /\ op.act # "add" /\ r.life = "none" => ApplyOne(r, op) = r
           /\ op.act # "add" /\ ApplyOne(r, op).life = "active" => r.life = "active"
           /\ r.life # "none" => ApplyOne(r, op).life # "none"
           /\ op.act = "block" /\ r.life # "none" => ApplyOne(r, op).blocks =
                    r.blocks \cup {[id |-> Id(op), by |-> Actor[op.dev], lifted |-> FALSE]}
           /\ op.act = "unblock" => ApplyOne(r, op).blocks \in {r.blocks, Lifted(r, op).blocks}
           /\ op.act \notin {"block", "unblock"} => ApplyOne(r, op).blocks = r.blocks
  <1>1. CASE ~Applies(r, op)
    BY <1>1 DEF ApplyOne, Applies, IsRecord, Lives, Gone, Acts
  <1>2. CASE Applies(r, op)
    <2>1. ApplyOne(r, op) = Effect(r, op) /\ (r.life # "none" \/ op.act = "add")
      BY <1>2 DEF ApplyOne, Applies, Gone
    <2>2. CASE op.act = "add"
      BY <2>1, <2>2, EffectIs, LinkedIs DEF IsRecord
    <2>3. CASE op.act = "unlink"
      BY <2>1, <2>3, EffectIs, UnlinkedIs
    <2>4. CASE op.act \notin {"add", "unlink"}
      BY <1>2, <2>1, <2>4, EffectIs DEF IsRecord, Lives, Gone, Applies
    <2> QED
      BY <2>2, <2>3, <2>4
  <1> QED
    BY <1>1, <1>2

-----------------------------------------------------------------------------
(* The first replay: shape, kin, deletions and blocks.                     *)

\* The operations of one directory, as devices write them.
Directory(S) == Ordered(S) /\ \A op \in S : WellFormed(op) /\ AddedBefore(S, op)

Deletes == {"remove", "archive"}

MetShape(S, m) ==
    /\ m = [record |-> m.record, kin |-> m.kin, holders |-> m.holders, items |-> m.items]
    /\ m.record = [c \in Named(S) |-> m.record[c]] /\ \A c \in Named(S) : IsRecord(m.record[c])
    /\ m.kin = [c \in Named(S) |-> m.kin[c]]
    /\ m.holders = [k \in KeysOf(S) |-> m.holders[k]]

LEMMA ApartShape ==
    ASSUME NEW S
    PROVE  MetShape(S, Apart(S))
  BY NoRecordIs DEF MetShape, Apart

\* The keys of an item that a group has.
Freed(m, op) == {i.key : i \in {i \in m.items : i.item = op.item /\ i.contact \in m.kin[op.contact]}}

\* All that an operation does to the first replay.
MeetsTo(S, m, op, next) ==
    /\ MetShape(S, next)
    /\ next.record = [m.record EXCEPT ![op.contact] = ApplyOne(@, op)]
    /\ op.act # "add-identity" \/ ~Applies(m.record[op.contact], op) =>
          /\ next.kin = m.kin /\ next.items = m.items
          /\ \A k \in KeysOf(S) : next.holders[k] \subseteq m.holders[k]
    /\ op.act \notin {"add-identity", "remove-item"} \/ ~Applies(m.record[op.contact], op) =>
          next.holders = m.holders
    /\ op.act = "add-identity" /\ Applies(m.record[op.contact], op) =>
          LET all == m.kin[op.contact] \cup UNION {m.kin[h] : h \in m.holders[op.key]} IN
          /\ next.kin = [c \in Named(S) |-> IF c \in all THEN all ELSE m.kin[c]]
          /\ next.holders = [m.holders EXCEPT ![op.key] = @ \cup {op.contact}]
          /\ next.items = m.items \cup {[item |-> op.item, key |-> op.key, contact |-> op.contact]}
    /\ op.act = "remove-item" /\ Applies(m.record[op.contact], op) =>
          next.holders = [k \in KeysOf(S) |-> IF k \in Freed(m, op) THEN m.holders[k] \ m.kin[op.contact]
                                              ELSE m.holders[k]]

LEMMA MeetsFully ==
    ASSUME NEW S, NEW m, MetShape(S, m), NEW op \in S, WellFormed(op)
    PROVE  MeetsTo(S, m, op, Meets(op, m))
  <1>1. op.contact \in Named(S) /\ op.act \in Acts
    BY DEF Named, WellFormed
  <1>2. IsRecord(ApplyOne(m.record[op.contact], op))
    BY <1>1, ApplyIs DEF MetShape
  <1> DEFINE next == [m EXCEPT !.record[op.contact] = Effect(@, op)]
  <1>3. CASE ~Applies(m.record[op.contact], op)
    <2>1. Meets(op, m) = m /\ ApplyOne(m.record[op.contact], op) = m.record[op.contact]
      BY <1>3 DEF Meets, ApplyOne
    <2>2. m.record = [m.record EXCEPT ![op.contact] = @]
      BY <1>1 DEF MetShape
    <2> QED
      BY <1>3, <2>1, <2>2 DEF MeetsTo
  <1>4. CASE Applies(m.record[op.contact], op)
    <2>1. Effect(m.record[op.contact], op) = ApplyOne(m.record[op.contact], op)
      BY <1>4 DEF ApplyOne
    <2>2. /\ next.record = [m.record EXCEPT ![op.contact] = ApplyOne(@, op)]
          /\ next.kin = m.kin /\ next.holders = m.holders /\ next.items = m.items
          /\ MetShape(S, next)
      <3>1. next = [record |-> [m.record EXCEPT ![op.contact] = ApplyOne(@, op)],
                    kin |-> m.kin, holders |-> m.holders, items |-> m.items]
        BY <2>1 DEF MetShape
      <3> HIDE DEF next
      <3> QED
        BY <1>1, <1>2, <3>1 DEF MetShape
    <2> HIDE DEF next
    <2>3. CASE op.act = "add-identity"
      <3>1. Meets(op, m) = Gains(next, op)
        BY <1>4, <2>3 DEF Meets, next
      <3>2. op.key \in KeysOf(S)
        BY <2>3 DEF KeysOf, WellFormed
      <3> DEFINE all == m.kin[op.contact] \cup UNION {m.kin[h] : h \in m.holders[op.key]}
                 kin == [c \in Named(S) |-> IF c \in all THEN all ELSE m.kin[c]]
                 holders == [m.holders EXCEPT ![op.key] = @ \cup {op.contact}]
                 items == next.items \cup {[item |-> op.item, key |-> op.key, contact |-> op.contact]}
      <3>3. kin = [c \in DOMAIN next.kin |-> IF c \in all THEN all ELSE next.kin[c]]
        <4>1. DOMAIN next.kin = Named(S)
          BY <2>2 DEF MetShape
        <4> QED
          BY <2>2, <4>1
      <3>4. Gains(next, op) = [record |-> next.record, kin |-> kin, holders |-> holders, items |-> items]
        <4>1. \A new, i : [next EXCEPT !.kin = new, !.holders[op.key] = @ \cup {op.contact}, !.items = @ \cup {i}]
                = [record |-> next.record, kin |-> new,
                   holders |-> [next.holders EXCEPT ![op.key] = @ \cup {op.contact}],
                   items |-> next.items \cup {i}]
          <5> TAKE new, i
          <5> DEFINE one == [next EXCEPT !.kin = new]
                     two == [one EXCEPT !.holders[op.key] = @ \cup {op.contact}]
          <5>1. one = [record |-> next.record, kin |-> new, holders |-> next.holders, items |-> next.items]
            BY <2>2 DEF MetShape
          <5> HIDE DEF one
          <5>2. two = [record |-> next.record, kin |-> new,
                       holders |-> [next.holders EXCEPT ![op.key] = @ \cup {op.contact}],
                       items |-> next.items]
            BY <5>1
          <5> HIDE DEF two
          <5>3. [two EXCEPT !.items = @ \cup {i}]
                = [record |-> next.record, kin |-> new,
                   holders |-> [next.holders EXCEPT ![op.key] = @ \cup {op.contact}],
                   items |-> next.items \cup {i}]
            BY <5>2
          <5> QED
            BY <5>3, <5>2, <5>1 DEF one, two
        <4>2. Gains(next, op) =
                [next EXCEPT !.kin = [c \in DOMAIN @ |-> IF c \in all THEN all ELSE @[c]],
                             !.holders[op.key] = @ \cup {op.contact},
                             !.items = @ \cup {[item |-> op.item, key |-> op.key, contact |-> op.contact]}]
          BY <2>2 DEF Gains
        <4> HIDE DEF all, kin
        <4> QED
          BY <2>2, <3>3, <4>1, <4>2
      <3>5. holders = [k \in KeysOf(S) |-> holders[k]]
        BY <3>2 DEF MetShape
      <3> HIDE DEF holders, items, kin
      <3>6. kin = [c \in Named(S) |-> kin[c]]
        BY DEF kin
      <3>7. MetShape(S, Gains(next, op))
        BY <2>2, <3>4, <3>5, <3>6 DEF MetShape
      <3> QED
        BY <1>4, <2>2, <2>3, <3>1, <3>4, <3>7 DEF kin, holders, items, MeetsTo
    <2>4. CASE op.act = "remove-item"
      <3>1. Meets(op, m) = Loses(next, op)
        BY <1>4, <2>4 DEF Meets, next
      <3> DEFINE mine == next.kin[op.contact]
                 keys == {i.key : i \in {i \in next.items : i.item = op.item /\ i.contact \in mine}}
                 holders == [k \in KeysOf(S) |-> IF k \in keys THEN m.holders[k] \ mine ELSE m.holders[k]]
      <3>2. Loses(next, op) = [record |-> next.record, kin |-> m.kin, holders |-> holders,
                               items |-> next.items]
        <4>1. \A new : [next EXCEPT !.holders = new]
                = [record |-> next.record, kin |-> next.kin, holders |-> new, items |-> next.items]
          BY <2>2 DEF MetShape
        <4>2. Loses(next, op) =
                [next EXCEPT !.holders = [k \in DOMAIN @ |-> IF k \in keys THEN @[k] \ mine ELSE @[k]]]
          BY DEF Loses
        <4> HIDE DEF mine, keys
        <4>3. holders = [k \in DOMAIN next.holders |->
                            IF k \in keys THEN next.holders[k] \ mine ELSE next.holders[k]]
          <5>1. DOMAIN next.holders = KeysOf(S)
            BY <2>2 DEF MetShape
          <5> QED
            BY <2>2, <5>1
        <4> QED
          BY <2>2, <4>1, <4>2, <4>3
      <3>3. \A k \in KeysOf(S) : holders[k] \subseteq m.holders[k]
        OBVIOUS
      <3>4. holders = [k \in KeysOf(S) |-> holders[k]]
        OBVIOUS
      <3>5. holders = [k \in KeysOf(S) |-> IF k \in Freed(m, op) THEN m.holders[k] \ m.kin[op.contact]
                                          ELSE m.holders[k]]
        BY <2>2 DEF Freed
      <3> HIDE DEF holders
      <3>6. MetShape(S, Loses(next, op))
        BY <2>2, <3>2, <3>4 DEF MetShape
      <3> QED
        BY <1>4, <2>2, <2>4, <3>1, <3>2, <3>3, <3>5, <3>6 DEF MeetsTo
    <2>5. CASE op.act \notin {"add-identity", "remove-item"}
      <3>1. Meets(op, m) = next
        BY <1>4, <2>5 DEF Meets, next
      <3> QED
        BY <2>2, <2>5, <3>1 DEF MeetsTo
    <2> QED
      BY <2>3, <2>4, <2>5
  <1> QED
    BY <1>3, <1>4

\* What the first replay of one directory needs of it.
LEMMA MeetsIs ==
    ASSUME NEW S, NEW m, MetShape(S, m), NEW op \in S, WellFormed(op)
    PROVE  /\ MetShape(S, Meets(op, m))
           /\ Meets(op, m).record = [m.record EXCEPT ![op.contact] = ApplyOne(@, op)]
           /\ op.act # "add-identity" \/ ~Applies(m.record[op.contact], op) =>
                 /\ Meets(op, m).kin = m.kin
                 /\ \A k \in KeysOf(S) : Meets(op, m).holders[k] \subseteq m.holders[k]
           /\ op.act = "add-identity" /\ Applies(m.record[op.contact], op) =>
                 LET all == m.kin[op.contact] \cup UNION {m.kin[h] : h \in m.holders[op.key]} IN
                 /\ Meets(op, m).kin = [c \in Named(S) |-> IF c \in all THEN all ELSE m.kin[c]]
                 /\ Meets(op, m).holders = [m.holders EXCEPT ![op.key] = @ \cup {op.contact}]
  <1>1. MeetsTo(S, m, op, Meets(op, m))
    BY MeetsFully
  <1> QED
    BY <1>1 DEF MeetsTo

\* Contacts that are one form classes.
MetKin(S, m) ==
    /\ \A c \in Named(S) : /\ c \in m.kin[c] /\ m.kin[c] \subseteq Named(S)
                           /\ \A d \in m.kin[c] : m.kin[d] = m.kin[c]
    /\ \A k \in KeysOf(S) : m.holders[k] \subseteq Named(S)

LEMMA KinStep ==
    ASSUME NEW S, NEW m, MetShape(S, m), MetKin(S, m), NEW op \in S, WellFormed(op)
    PROVE  MetKin(S, Meets(op, m))
  <1> DEFINE next == Meets(op, m)
  <1>1. CASE op.act # "add-identity" \/ ~Applies(m.record[op.contact], op)
    <2>1. next.kin = m.kin /\ \A k \in KeysOf(S) : next.holders[k] \subseteq m.holders[k]
      BY <1>1, MeetsIs
    <2>2. \A k \in KeysOf(S) : next.holders[k] \subseteq Named(S)
      BY <2>1 DEF MetKin
    <2> HIDE DEF next
    <2>3. MetKin(S, next)
      BY <2>1, <2>2 DEF MetKin
    <2> QED
      BY <2>3 DEF next
  <1>2. CASE op.act = "add-identity" /\ Applies(m.record[op.contact], op)
    <2> DEFINE all == m.kin[op.contact] \cup UNION {m.kin[h] : h \in m.holders[op.key]}
    <2>1. /\ next.kin = [c \in Named(S) |-> IF c \in all THEN all ELSE m.kin[c]]
          /\ next.holders = [m.holders EXCEPT ![op.key] = @ \cup {op.contact}]
      BY <1>2, MeetsIs, ZenonT(40)
    <2>2. op.contact \in Named(S) /\ op.key \in KeysOf(S)
      BY <1>2 DEF Named, KeysOf, WellFormed
    <2>3. /\ all \subseteq Named(S)
          /\ \A c \in all : m.kin[c] \subseteq all
      BY <2>2 DEF MetKin
    <2>4. \A c \in Named(S) \ all : \A d \in m.kin[c] : d \notin all
      <3> HIDE DEF all
      <3> QED
        BY <2>3 DEF MetKin
    <2>5. \A k \in KeysOf(S) : next.holders[k] \subseteq Named(S)
      BY <2>1, <2>2 DEF MetKin, MetShape
    <2> HIDE DEF all, next
    <2>6. ASSUME NEW c \in Named(S)
          PROVE  /\ c \in next.kin[c] /\ next.kin[c] \subseteq Named(S)
                 /\ \A d \in next.kin[c] : next.kin[d] = next.kin[c]
      BY <2>1, <2>3, <2>4 DEF MetKin
    <2> QED
      BY <2>5, <2>6 DEF MetKin, next
  <1> QED
    BY <1>1, <1>2

\* A record is there from the first add on, and only contacts with a record hold keys.
MetAdded(S, t, m) ==
    /\ \A c \in Named(S) : m.record[c].life # "none" <=> AddsOf(t, c) # {}
    /\ \A k \in KeysOf(S) : \A h \in m.holders[k] : AddsOf(t, h) # {}

\* A deleted contact that is active has been added again.
MetGone(S, t, m) ==
    \A r \in t : r.act \in Deletes /\ m.record[r.contact].life = "active" =>
        \E again \in AddsOf(t, r.contact) : Before(r, again)

MetBlocks(t, m) == \A op \in t : op.act = "block" => Blocked(t, m.record[op.contact], op)

MetInv(S, t, m) ==
    MetShape(S, m) /\ MetKin(S, m) /\ MetAdded(S, t, m) /\ MetGone(S, t, m) /\ MetBlocks(t, m)

\* An operation finds its contact there, unless it adds it.
LEMMA AddedAlready ==
    ASSUME NEW S, Directory(S), NEW t, NEW op, Follows(S, t, op), op.act # "add"
    PROVE  AddsOf(t, op.contact) # {}
  <1>1. PICK add \in S : add.act = "add" /\ add.contact = op.contact /\ Before(add, op)
    BY DEF Directory, AddedBefore, Follows
  <1>2. add \in t \cup {op}
    BY <1>1 DEF Follows, Histories
  <1> QED
    BY <1>1, <1>2 DEF AddsOf

\* A block stays, however the rest of the record changes.
LEMMA BlockedAfter ==
    ASSUME NEW t, NEW op, \A x \in t : Before(x, op),
           NEW r, IsRecord(r), NEW blocks,
           \/ blocks = r.blocks
           \/ blocks = r.blocks \cup {[id |-> Id(op), by |-> Actor[op.dev], lifted |-> FALSE]}
           \/ op.act = "unblock" /\ blocks = Lifted(r, op).blocks,
           NEW changed, changed.blocks = blocks,
           NEW b \in t, Blocked(t, r, b)
    PROVE  Blocked(t \cup {op}, changed, b)
  <1>1. PICK old \in r.blocks :
            /\ old.id = Id(b) /\ old.by = Actor[b.dev]
            /\ old.lifted => \E lift \in t : /\ lift.act = "unblock" /\ lift.target = Id(b)
                                             /\ Actor[lift.dev] = old.by /\ Before(b, lift)
    BY DEF Blocked
  <1>2. CASE old \in changed.blocks
    BY <1>1, <1>2 DEF Blocked
  <1>3. CASE blocks = Lifted(r, op).blocks /\ op.act = "unblock" /\ old \notin changed.blocks
    <2>1. blocks = {IF x.id = op.target /\ x.by = Actor[op.dev] THEN [id |-> x.id, by |-> x.by, lifted |-> TRUE]
                  ELSE x : x \in r.blocks}
      <3>1. \A new : [r EXCEPT !.blocks = new].blocks = new
        BY DEF IsRecord
      <3> QED
        BY <1>3, <3>1 DEF Lifted
    <2>2. /\ old.id = op.target /\ old.by = Actor[op.dev] 
          /\ [id |-> old.id, by |-> old.by, lifted |-> TRUE] \in blocks
      BY <1>3, <2>1
    <2>3. Before(b, op) /\ op \in t \cup {op}
      OBVIOUS
    <2> QED
      BY <1>1, <1>3, <2>2, <2>3 DEF Blocked
  <1> QED
    BY <1>1, <1>2, <1>3

LEMMA MetInvStep ==
    ASSUME NEW S, Directory(S), NEW t, NEW op, Follows(S, t, op), NEW m, MetInv(S, t, m)
    PROVE  MetInv(S, t \cup {op}, Meets(op, m))
  <1> DEFINE next == Meets(op, m)
             c == op.contact
             r == m.record[c]
  <1>1. op \in S /\ WellFormed(op) /\ op.act \in Acts /\ c \in Named(S) /\ t \subseteq S
        /\ \A x \in t : Before(x, op)
    BY DEF Follows, Histories, Directory, WellFormed, Named
  <1>2. MetShape(S, m) /\ IsRecord(r)
    BY <1>1 DEF MetInv, MetShape
  <1>3. MetShape(S, next) /\ MetKin(S, next)
    BY <1>1, MeetsIs, KinStep DEF MetInv
  <1>4. /\ next.record[c] = ApplyOne(r, op)
        /\ \A d \in Named(S) : d # c => next.record[d] = m.record[d]
    <2>1. next.record = [m.record EXCEPT ![c] = ApplyOne(@, op)]
      BY <1>1, <1>2, MeetsIs
    <2>2. m.record = [d \in Named(S) |-> m.record[d]]
      BY <1>2 DEF MetShape
    <2> QED
      BY <1>1, <2>1, <2>2
  <1>5. \A x \in t : x.contact \in Named(S)
    BY <1>1 DEF Named
  <1>6. \A d : AddsOf(t, d) \subseteq AddsOf(t \cup {op}, d)
               /\ (op.act # "add" \/ d # c => AddsOf(t \cup {op}, d) = AddsOf(t, d))
               /\ (op.act = "add" => op \in AddsOf(t \cup {op}, c))
    BY DEF AddsOf
  <1>7. MetAdded(S, t \cup {op}, next)
    <2>1. ASSUME NEW d \in Named(S) PROVE next.record[d].life # "none" <=> AddsOf(t \cup {op}, d) # {}
      <3>0. /\ op.act = "add" => ApplyOne(r, op).life = "active"
            /\ op.act # "add" /\ r.life = "none" => ApplyOne(r, op) = r
            /\ r.life # "none" => ApplyOne(r, op).life # "none"
        BY <1>1, <1>2, ApplyIs
      <3> HIDE DEF next, r
      <3>1. CASE d # c
        BY <1>4, <1>6, <3>1 DEF MetInv, MetAdded
      <3>2. CASE d = c /\ op.act = "add"
        BY <1>4, <1>6, <3>0, <3>2
      <3>3. CASE d = c /\ op.act # "add"
        <4>1. r.life # "none" <=> AddsOf(t, c) # {}
          BY <3>3 DEF MetInv, MetAdded, r
        <4> QED
          BY <1>4, <1>6, <3>0, <3>3, <4>1
      <3> QED
        BY <3>1, <3>2, <3>3
    <2>2. ASSUME NEW k \in KeysOf(S), NEW h \in next.holders[k] PROVE AddsOf(t \cup {op}, h) # {}
      <3>1. CASE op.act # "add-identity" \/ ~Applies(r, op)
        BY <1>1, <1>2, <1>6, <3>1, MeetsIs DEF MetInv, MetAdded
      <3>2. CASE op.act = "add-identity" /\ Applies(r, op)
        <4>1. next.holders = [m.holders EXCEPT ![op.key] = @ \cup {c}]
          BY <1>1, <1>2, <3>2, MeetsIs, ZenonT(40)
        <4>2. h \in m.holders[k] \/ h = c
          BY <4>1, <2>2 DEF MetInv, MetShape
        <4>3. r.life # "none"
          BY <3>2 DEF Applies, Gone
        <4> QED
          BY <1>1, <1>6, <4>2, <4>3 DEF MetInv, MetAdded
      <3> QED
        BY <3>1, <3>2
    <2> QED
      BY <2>1, <2>2 DEF MetAdded
  <1>8. MetGone(S, t \cup {op}, next)
    <2> SUFFICES ASSUME NEW x \in t \cup {op}, x.act \in Deletes, next.record[x.contact].life = "active"
                 PROVE  \E again \in AddsOf(t \cup {op}, x.contact) : Before(x, again)
      BY DEF MetGone
    <2>1. x # op
      BY <1>1, <1>2, <1>4, ApplyIs DEF Deletes
    <2>2. CASE x.contact # c \/ op.act # "add"
      <3>1. m.record[x.contact].life = "active"
        BY <1>1, <1>2, <1>4, <1>5, <2>1, <2>2, ApplyIs
      <3> QED
        BY <1>6, <2>1, <3>1 DEF MetInv, MetGone
    <2>3. CASE x.contact = c /\ op.act = "add"
      BY <1>1, <1>6, <2>1, <2>3
    <2> QED
      BY <2>2, <2>3
  <1>9. MetBlocks(t \cup {op}, next)
    <2> SUFFICES ASSUME NEW b \in t \cup {op}, b.act = "block"
                 PROVE  Blocked(t \cup {op}, next.record[b.contact], b)
      BY DEF MetBlocks
    <2>1. CASE b = op
      <3>1. AddsOf(t, c) # {}
        BY <2>1, AddedAlready
      <3>2. r.life # "none"
        BY <1>1, <3>1 DEF MetInv, MetAdded
      <3>3. [id |-> Id(op), by |-> Actor[op.dev], lifted |-> FALSE] \in next.record[c].blocks
        BY <1>1, <1>2, <1>4, <2>1, <3>2, ApplyIs
      <3> QED
        BY <2>1, <3>3 DEF Blocked
    <2>2. CASE b \in t
      <3> DEFINE old == m.record[b.contact]
                 new == next.record[b.contact]
      <3>1. Blocked(t, old, b) /\ b.contact \in Named(S) /\ IsRecord(old)
        BY <1>2, <1>5, <2>2 DEF MetInv, MetBlocks, MetShape
      <3>2. \/ new.blocks = old.blocks
            \/ new.blocks = old.blocks \cup {[id |-> Id(op), by |-> Actor[op.dev], lifted |-> FALSE]}
            \/ op.act = "unblock" /\ new.blocks = Lifted(old, op).blocks
        <4>1. CASE b.contact # c
          BY <1>4, <3>1, <4>1
        <4>2. CASE b.contact = c
          <5>1. r.life = "none" /\ op.act = "block" => ApplyOne(r, op) = r
            BY <1>1, <1>2, ApplyIs
          <5> QED
            BY <1>1, <1>2, <1>4, <4>2, <5>1, ApplyIs
        <4> QED
          BY <4>1, <4>2
      <3> HIDE DEF old, new, next
      <3> QED
        BY <1>1, <2>2, <3>1, <3>2, BlockedAfter DEF old, new
    <2> QED
      BY <2>1, <2>2
  <1> QED
    BY <1>3, <1>7, <1>8, <1>9 DEF MetInv, MetShape

\* What the first replay has established wherever it has come to.
LEMMA MetHolds ==
    ASSUME NEW S, Directory(S), NEW t \in Histories(S)
    PROVE  MetInv(S, t, Met(S)[t])
  <1> DEFINE G == {u \in Histories(S) : MetInv(S, u, Met(S)[u])}
  <1>1. {} \in G
    <2>1. Met(S)[{}] = Apart(S) /\ MetShape(S, Apart(S))
      BY MetUnfolds, ApartShape DEF Directory
    <2>2. \A c \in Named(S) : Apart(S).record[c] = NoRecord /\ Apart(S).kin[c] = {c}
      BY DEF Apart
    <2>3. \A k \in KeysOf(S) : Apart(S).holders[k] = {}
      BY DEF Apart
    <2>4. MetInv(S, {}, Apart(S))
      BY <2>1, <2>2, <2>3 DEF MetInv, MetKin, MetAdded, MetGone, MetBlocks, NoRecord, AddsOf
    <2>5. {} \in Histories(S)
      BY DEF Histories
    <2> QED
      BY <2>1, <2>4, <2>5
  <1>2. ASSUME NEW u, NEW op, Follows(S, u, op), u \in G PROVE u \cup {op} \in G
    BY <1>2, MetStep, MetInvStep DEF Follows, Directory
  <1>3. Histories(S) \subseteq G
    <2> HIDE DEF G
    <2> QED
      BY <1>1, <1>2, HistoryInduction DEF Directory
  <1> QED
    BY <1>3

-----------------------------------------------------------------------------
(* Contacts that are one: their kin, and the oldest of them.               *)

Kin(S) == Met(S)[S].kin
Canon(S) == [c \in Named(S) |-> Oldest(S, Kin(S)[c])]
FirstOf(S, c) == Earliest(AddsOf(S, Canon(S)[c]))

LEMMA WholeHolds ==
    ASSUME NEW S, Directory(S)
    PROVE  MetInv(S, S, Met(S)[S])
  BY MetHolds DEF Histories

LEMMA AllAdded ==
    ASSUME NEW S, Directory(S), NEW c \in Named(S)
    PROVE  AddsOf(S, c) # {}
  BY DEF Directory, AddedBefore, AddsOf, Named

\* The view of a directory, in terms of the two replays.
LEMMA ViewIs ==
    ASSUME NEW S, Directory(S)
    PROVE  View(S) = Merged(S, Met(S)[S], Canon(S))
  <1>1. {c \in Named(S) : Met(S)[S].record[c].life # "none"} = Named(S)
    BY WholeHolds, AllAdded DEF MetInv, MetAdded
  <1>2. View(S) = Resolve(S, Met(S)[S])
    BY ViewIsMet DEF Directory
  <1> QED
    BY <1>1, <1>2 DEF Resolve, Canon, Kin

LEMMA CanonIs ==
    ASSUME NEW S, Directory(S), NEW c \in Named(S)
    PROVE  /\ c \in Kin(S)[c] /\ Kin(S)[c] \subseteq Named(S)
           /\ Canon(S)[c] \in Kin(S)[c] /\ Canon(S)[c] \in Named(S)
           /\ \A d \in Named(S) : Canon(S)[d] = Canon(S)[c] <=> d \in Kin(S)[c]
           /\ \A d \in Kin(S)[c] : Kin(S)[d] = Kin(S)[c]
           /\ Canon(S)[Canon(S)[c]] = Canon(S)[c]
           /\ FirstOf(S, c) \in AddsOf(S, Canon(S)[c])
           /\ \A d \in Kin(S)[c] : \A op \in S :
                op.contact = d => op = FirstOf(S, c) \/ Before(FirstOf(S, c), op)
  <1> DEFINE Adds(k) == UNION {AddsOf(S, d) : d \in k}
             e(k) == Earliest(Adds(k))
  <1>1. \A d \in Named(S) : /\ d \in Kin(S)[d] /\ Kin(S)[d] \subseteq Named(S)
                            /\ \A x \in Kin(S)[d] : Kin(S)[x] = Kin(S)[d]
    BY WholeHolds DEF MetInv, MetKin, Kin
  <1>2. ASSUME NEW d \in Named(S)
        PROVE  /\ e(Kin(S)[d]) \in Adds(Kin(S)[d])
               /\ \A x \in Adds(Kin(S)[d]) \ {e(Kin(S)[d])} : Before(e(Kin(S)[d]), x)
    <2>1. Adds(Kin(S)[d]) \subseteq S /\ Adds(Kin(S)[d]) # {}
      BY <1>1, AllAdded DEF AddsOf
    <2> HIDE DEF Adds
    <2> QED
      BY <2>1, EarliestIs DEF Directory
  <1>3. \A d \in Named(S) : Canon(S)[d] = e(Kin(S)[d]).contact
    BY DEF Canon, Oldest
  <1>4. ASSUME NEW d \in Named(S)
        PROVE  /\ Canon(S)[d] \in Kin(S)[d] /\ e(Kin(S)[d]) \in AddsOf(S, Canon(S)[d])
    BY <1>2, <1>3 DEF AddsOf
  <1>5. \A d \in Named(S) : Canon(S)[d] = Canon(S)[c] <=> d \in Kin(S)[c]
    <2> HIDE DEF e
    <2> QED
      BY <1>1, <1>3, <1>4
  <1>6. Canon(S)[Canon(S)[c]] = Canon(S)[c]
    BY <1>1, <1>4, <1>5
  <1>7. FirstOf(S, c) = e(Kin(S)[c])
    <2>1. AddsOf(S, Canon(S)[c]) \subseteq S /\ AddsOf(S, Canon(S)[c]) \subseteq Adds(Kin(S)[c])
      BY <1>4 DEF AddsOf
    <2> HIDE DEF Adds, e
    <2>2. \A x \in AddsOf(S, Canon(S)[c]) \ {e(Kin(S)[c])} : Before(e(Kin(S)[c]), x)
      BY <1>2, <2>1
    <2> QED
      BY <1>4, <2>1, <2>2, EarliestIsOnly DEF FirstOf, Directory
  <1>8. ASSUME NEW d \in Kin(S)[c], NEW op \in S, op.contact = d
        PROVE  op = FirstOf(S, c) \/ Before(FirstOf(S, c), op)
    <2>1. PICK add \in AddsOf(S, d) : add = op \/ Before(add, op)
      BY <1>8 DEF Directory, AddedBefore, AddsOf
    <2>2. add \in Adds(Kin(S)[c])
      BY <2>1
    <2>3. add = FirstOf(S, c) \/ Before(FirstOf(S, c), add)
      BY <1>2, <1>7, <2>2
    <2>4. FirstOf(S, c) \in S /\ add \in S
      BY <1>4, <1>7, <2>1 DEF AddsOf
    <2> QED
      BY <2>1, <2>3, <2>4 DEF Directory, Ordered
  <1> QED
    BY <1>1, <1>4, <1>5, <1>6, <1>7, <1>8

-----------------------------------------------------------------------------
(* The second replay.                                                      *)

Heads(S) == {Canon(S)[d] : d \in Named(S)}
Bare(S) == [c \in Heads(S) |-> NoRecord]

RegroupUnfolding(S, f) ==
    f = [t \in SUBSET S |-> IF t = {} THEN Bare(S)
                            ELSE GroupStep(S, Kin(S), Canon(S), f[t \ {Latest(t)}], Latest(t))]

Regroup(S) == CHOOSE f : RegroupUnfolding(S, f)

LEMMA RegroupUnfolds ==
    ASSUME NEW S, Ordered(S)
    PROVE  /\ Regroup(S)[{}] = Bare(S)
           /\ \A t, op : Follows(S, t, op) =>
                Regroup(S)[t \cup {op}] = GroupStep(S, Kin(S), Canon(S), Regroup(S)[t], op)
  <1> DEFINE replay == [first |-> FALSE, kin |-> Kin(S), canon |-> Canon(S)]
  <1>1. PICK f : Unfolding(S, replay, Bare(S), f)
    BY ReplayExists
  <1>2. RegroupUnfolding(S, f)
    BY <1>1 DEF Unfolding, RegroupUnfolding, OneStep
  <1>3. RegroupUnfolding(S, Regroup(S))
    BY <1>2 DEF Regroup
  <1>4. \A t \in SUBSET S : t # {} =>
            Regroup(S)[t] = GroupStep(S, Kin(S), Canon(S), Regroup(S)[t \ {Latest(t)}], Latest(t))
    BY <1>3 DEF RegroupUnfolding
  <1> QED
    BY <1>3, <1>4, LastOf DEF RegroupUnfolding

LEMMA GroupedIs ==
    ASSUME NEW S
    PROVE  Grouped(S, Kin(S), Canon(S)) = Regroup(S)[S]
  <1>1. DOMAIN Canon(S) = Named(S) /\ {op \in S : op.contact \in Named(S)} = S
    BY DEF Canon, Named
  <1>2. Bare(S) = [c \in {Canon(S)[d] : d \in DOMAIN Canon(S)} |-> NoRecord]
    BY <1>1 DEF Bare, Heads
  <1> DEFINE T == {op \in S : op.contact \in DOMAIN Canon(S)}
             bare == [c \in {Canon(S)[d] : d \in DOMAIN Canon(S)} |-> NoRecord]
             Fold(U, base) == (CHOOSE f : f = [t \in SUBSET U |-> IF t = {} THEN base
                 ELSE GroupStep(S, Kin(S), Canon(S), f[t \ {Latest(t)}], Latest(t))])[U]
  <1>3. Grouped(S, Kin(S), Canon(S)) = Fold(T, bare)
    BY DEF Grouped, MapThenFoldSet
  <1>4. Regroup(S)[S] = Fold(S, Bare(S))
    BY DEF Regroup, RegroupUnfolding
  <1>5. T = S /\ bare = Bare(S)
    BY <1>1, <1>2
  <1> HIDE DEF T, bare, Fold
  <1> QED
    BY <1>3, <1>4, <1>5

\* An operation as the second replay applies it.
Retold(S, op) ==
    [op EXCEPT !.contact = Canon(S)[op.contact], !.item = ItemOf(S, Kin(S), op.contact, @)]

LEMMA RetoldIs ==
    ASSUME NEW S, NEW op, WellFormed(op)
    PROVE  /\ Retold(S, op).act = op.act /\ Retold(S, op).dev = op.dev
           /\ Id(Retold(S, op)) = Id(op) /\ Retold(S, op).target = op.target
           /\ Retold(S, op).list = op.list /\ Retold(S, op).key = op.key
           /\ \A r : Lifted(r, Retold(S, op)) = Lifted(r, op)
  <1>1. \A x : [op EXCEPT !.contact = Canon(S)[op.contact], !.item = x] =
            [dev |-> op.dev, num |-> op.num, clock |-> op.clock, act |-> op.act,
             contact |-> Canon(S)[op.contact], item |-> x, key |-> op.key, list |-> op.list,
             target |-> op.target]
    <2> TAKE x
    <2> DEFINE moved == [op EXCEPT !.contact = Canon(S)[op.contact]]
    <2>1. moved = [dev |-> op.dev, num |-> op.num, clock |-> op.clock, act |-> op.act,
                   contact |-> Canon(S)[op.contact], item |-> op.item, key |-> op.key,
                   list |-> op.list, target |-> op.target]
      BY DEF WellFormed
    <2> HIDE DEF moved
    <2>2. [moved EXCEPT !.item = x] =
            [dev |-> op.dev, num |-> op.num, clock |-> op.clock, act |-> op.act,
             contact |-> Canon(S)[op.contact], item |-> x, key |-> op.key, list |-> op.list,
             target |-> op.target]
      BY <2>1
    <2> QED
      BY <2>2 DEF moved
  <1>2. Retold(S, op) =
            [dev |-> op.dev, num |-> op.num, clock |-> op.clock, act |-> op.act,
             contact |-> Canon(S)[op.contact], item |-> ItemOf(S, Kin(S), op.contact, op.item),
             key |-> op.key, list |-> op.list, target |-> op.target]
    BY <1>1 DEF Retold
  <1> QED
    BY <1>2 DEF Id, Lifted

\* The first add of a contact that is not the oldest of its kin.
Joins(S, op) == Canon(S)[op.contact] # op.contact /\ op = Earliest(AddsOf(S, op.contact))

LEMMA GroupStepIs ==
    ASSUME NEW S, NEW op \in S, NEW records, records = [h \in Heads(S) |-> records[h]]
    PROVE  LET c == Canon(S)[op.contact]
               next == GroupStep(S, Kin(S), Canon(S), records, op) IN
           /\ next = [h \in Heads(S) |-> next[h]]
           /\ \A h \in Heads(S) : h # c => next[h] = records[h]
           /\ c \in Heads(S)
           /\ next[c] = IF Joins(S, op) THEN Join(records[c], op) ELSE ApplyOne(records[c], Retold(S, op))
  <1>1. Canon(S)[op.contact] \in Heads(S)
    BY DEF Heads, Named
  <1> QED
    BY <1>1 DEF GroupStep, Joins, Retold

LEMMA JoinIs ==
    ASSUME NEW r, IsRecord(r), NEW op
    PROVE  IsRecord(Join(r, op)) /\ Join(r, op).life = r.life /\ Join(r, op).blocks = r.blocks
  BY LinkedIs DEF Join

Regrouped(S, records) ==
    /\ records = [h \in Heads(S) |-> records[h]]
    /\ \A h \in Heads(S) : IsRecord(records[h])

GroupAdded(S, t, records) == \A op \in t : records[Canon(S)[op.contact]].life # "none"

GroupGone(S, t, records) ==
    \A r \in t : r.act \in Deletes /\ records[Canon(S)[r.contact]].life = "active" =>
        \E d \in Kin(S)[r.contact] : \E again \in AddsOf(t, d) :
            Before(r, again) /\ again # Earliest(AddsOf(S, d))

GroupBlocks(S, t, records) ==
    \A op \in t : op.act = "block" => Blocked(t, records[Canon(S)[op.contact]], op)

GroupInv(S, t, records) ==
    /\ Regrouped(S, records) /\ GroupAdded(S, t, records)
    /\ GroupGone(S, t, records) /\ GroupBlocks(S, t, records)

LEMMA GroupInvStep ==
    ASSUME NEW S, Directory(S), NEW t, NEW op, Follows(S, t, op),
           NEW records, GroupInv(S, t, records)
    PROVE  GroupInv(S, t \cup {op}, GroupStep(S, Kin(S), Canon(S), records, op))
  <1> DEFINE next == GroupStep(S, Kin(S), Canon(S), records, op)
             c == Canon(S)[op.contact]
             r == records[c]
             told == Retold(S, op)
             block == [id |-> Id(op), by |-> Actor[op.dev], lifted |-> FALSE]
  <1>1. op \in S /\ WellFormed(op) /\ op.act \in Acts /\ op.contact \in Named(S)
        /\ t \subseteq S /\ Ordered(S) /\ \A x \in t : Before(x, op) /\ op \notin t
    BY DEF Follows, Histories, Directory, WellFormed, Named
  <1>2. /\ \A h \in Heads(S) : h # c => next[h] = records[h]
        /\ c \in Heads(S) /\ IsRecord(r)
        /\ next[c] = IF Joins(S, op) THEN Join(r, op) ELSE ApplyOne(r, told)
        /\ next = [h \in Heads(S) |-> next[h]]
    BY <1>1, GroupStepIs DEF GroupInv, Regrouped
  <1>3. told.act = op.act /\ Id(told) = Id(op) /\ told.dev = op.dev /\ Lifted(r, told) = Lifted(r, op)
    BY <1>1, RetoldIs
  <1>4. \A x \in t \cup {op} : x \in S /\ x.contact \in Named(S) /\ Canon(S)[x.contact] \in Heads(S)
    BY <1>1 DEF Named, Heads
  <1>5. \A x \in S : Canon(S)[x.contact] = c => x.contact \in Kin(S)[op.contact]
                                                /\ Kin(S)[x.contact] = Kin(S)[op.contact]
    BY <1>1, CanonIs DEF Named
  <1> DEFINE first == FirstOf(S, op.contact)
  <1>6. /\ first \in S /\ first.act = "add" /\ first.contact = c
        /\ first = Earliest(AddsOf(S, c))
        /\ \A x \in S : Canon(S)[x.contact] = c => x = first \/ Before(first, x)
    <2>1. first \in AddsOf(S, c) /\ first = Earliest(AddsOf(S, c))
      BY <1>1, CanonIs DEF FirstOf
    <2>2. \A d \in Kin(S)[op.contact] : \A x \in S : x.contact = d => x = first \/ Before(first, x)
      BY <1>1, CanonIs
    <2> HIDE DEF first
    <2> QED
      BY <1>5, <2>1, <2>2 DEF AddsOf
  <1>7. first = op \/ first \in t
    BY <1>1, <1>6 DEF Follows, Histories
  <1>8. first \in t => r.life # "none"
    <2>1. Canon(S)[c] = c
      BY <1>1, CanonIs
    <2> QED
      BY <1>6, <2>1 DEF GroupInv, GroupAdded
  <1>9. first = op => ~Joins(S, op)
    BY <1>6 DEF Joins
  <1> HIDE DEF first
  <1>10. op.act # "add" => ~Joins(S, op) /\ r.life # "none"
    <2>1. Joins(S, op) => op.act = "add"
      <3>1. AddsOf(S, op.contact) \subseteq S /\ AddsOf(S, op.contact) # {}
        BY <1>1, AllAdded DEF AddsOf
      <3>2. Earliest(AddsOf(S, op.contact)) \in AddsOf(S, op.contact)
        BY <1>1, <3>1, EarliestIs
      <3> QED
        BY <3>2 DEF Joins, AddsOf
    <2> QED
      BY <1>6, <1>7, <1>8, <2>1
  <1> HIDE DEF next, c, r, told
  <1>11. /\ IsRecord(next[c])
         /\ next[c].life # "none"
         /\ op.act \in Deletes => next[c].life # "active"
         /\ next[c].life = "active" /\ r.life # "active" => op.act = "add" /\ ~Joins(S, op)
         /\ op.act = "block" => next[c].blocks = r.blocks \cup {block}
         /\ \/ next[c].blocks = r.blocks
            \/ next[c].blocks = r.blocks \cup {block}
            \/ op.act = "unblock" /\ next[c].blocks = Lifted(r, op).blocks
    <2>1. CASE Joins(S, op)
      <3>1. IsRecord(next[c]) /\ next[c].life = r.life /\ next[c].blocks = r.blocks
        BY <1>2, <2>1, JoinIs
      <3>2. r.life # "none" /\ op.act = "add"
        BY <1>7, <1>8, <1>9, <1>10, <2>1
      <3> QED
        BY <3>1, <3>2 DEF Deletes
    <2>2. CASE ~Joins(S, op)
      <3>1. next[c] = ApplyOne(r, told) /\ IsRecord(r) /\ told.act \in Acts
        BY <1>1, <1>2, <1>3, <2>2
      <3>2. block = [id |-> Id(told), by |-> Actor[told.dev], lifted |-> FALSE]
        BY <1>3
      <3> HIDE DEF block
      <3>3. op.act \notin {"block", "unblock"} => next[c].blocks = r.blocks
        BY <1>3, <3>1, ApplyIs
      <3>4. op.act = "block" => next[c].blocks = r.blocks \cup {block}
        BY <1>3, <1>10, <3>1, <3>2, ApplyIs
      <3>5. op.act = "unblock" => next[c].blocks \in {r.blocks, Lifted(r, op).blocks}
        BY <1>3, <3>1, ApplyIs
      <3>6. IsRecord(next[c]) /\ next[c].life # "none"
        BY <1>3, <1>10, <3>1, ApplyIs
      <3>7. /\ op.act \in Deletes => next[c].life # "active"
            /\ next[c].life = "active" /\ r.life # "active" => op.act = "add"
        BY <1>3, <3>1, ApplyIs DEF Deletes
      <3> QED
        BY <2>2, <3>3, <3>4, <3>5, <3>6, <3>7
    <2> QED
      BY <2>1, <2>2
  <1> HIDE DEF block
  <1>12. Regrouped(S, next)
    BY <1>2, <1>11 DEF GroupInv, Regrouped
  <1>13. GroupAdded(S, t \cup {op}, next)
    BY <1>2, <1>4, <1>11 DEF GroupInv, GroupAdded, c
  <1>14. GroupGone(S, t \cup {op}, next)
    <2> SUFFICES ASSUME NEW x \in t \cup {op}, x.act \in Deletes,
                        next[Canon(S)[x.contact]].life = "active"
                 PROVE  \E d \in Kin(S)[x.contact] : \E again \in AddsOf(t \cup {op}, d) :
                            Before(x, again) /\ again # Earliest(AddsOf(S, d))
      BY DEF GroupGone
    <2>1. x # op
      BY <1>11 DEF c
    <2>2. CASE records[Canon(S)[x.contact]].life = "active"
      <3>1. \A d : AddsOf(t, d) \subseteq AddsOf(t \cup {op}, d)
        BY DEF AddsOf
      <3> QED
        BY <2>1, <2>2, <3>1 DEF GroupInv, GroupGone
    <2>3. CASE records[Canon(S)[x.contact]].life # "active"
      <3>1. Canon(S)[x.contact] = c
        BY <1>2, <1>4, <2>3
      <3>2. op.act = "add" /\ ~Joins(S, op)
        BY <1>11, <2>3, <3>1 DEF r
      <3>3. op \in AddsOf(t \cup {op}, op.contact) /\ op.contact \in Kin(S)[x.contact] /\ Before(x, op)
        BY <1>1, <1>4, <1>5, <2>1, <3>1, <3>2, CanonIs DEF AddsOf
      <3>4. op # Earliest(AddsOf(S, op.contact))
        <4>1. CASE op.contact # c
          BY <3>2, <4>1 DEF Joins, c
        <4>2. CASE op.contact = c
          <5>1. op # first
            BY <1>1, <1>4, <1>6, <2>1, <3>1, <3>3 DEF Ordered
          <5> QED
            BY <1>6, <4>2, <5>1
        <4> QED
          BY <4>1, <4>2
      <3> QED
        BY <3>3, <3>4
    <2> QED
      BY <2>2, <2>3
  <1>15. GroupBlocks(S, t \cup {op}, next)
    <2> SUFFICES ASSUME NEW b \in t \cup {op}, b.act = "block"
                 PROVE  Blocked(t \cup {op}, next[Canon(S)[b.contact]], b)
      BY DEF GroupBlocks
    <2>1. CASE b = op
      <3>1. block \in next[c].blocks
        BY <1>11, <2>1
      <3> QED
        BY <2>1, <3>1 DEF Blocked, block, c
    <2>2. CASE b \in t
      <3> DEFINE old == records[Canon(S)[b.contact]]
                 new == next[Canon(S)[b.contact]]
      <3>1. Blocked(t, old, b) /\ IsRecord(old)
        BY <1>4, <2>2 DEF GroupInv, GroupBlocks, Regrouped
      <3>2. \/ new.blocks = old.blocks
            \/ new.blocks = old.blocks \cup {block}
            \/ op.act = "unblock" /\ new.blocks = Lifted(old, op).blocks
        BY <1>2, <1>4, <1>11 DEF r
      <3> HIDE DEF old, new
      <3> QED
        BY <1>1, <2>2, <3>1, <3>2, BlockedAfter DEF old, new, block
    <2> QED
      BY <2>1, <2>2
  <1> QED
    BY <1>12, <1>13, <1>14, <1>15 DEF GroupInv, next

\* What the second replay has established wherever it has come to.
LEMMA GroupAt ==
    ASSUME NEW S, Directory(S), NEW t \in Histories(S)
    PROVE  GroupInv(S, t, Regroup(S)[t])
  <1> DEFINE G == {u \in Histories(S) : GroupInv(S, u, Regroup(S)[u])}
  <1>1. {} \in G
    <2>1. GroupInv(S, {}, Bare(S))
      BY NoRecordIs DEF GroupInv, Regrouped, GroupAdded, GroupGone, GroupBlocks, Bare
    <2> QED
      BY <2>1, RegroupUnfolds DEF Histories, Directory
  <1>2. ASSUME NEW u, NEW op, Follows(S, u, op), u \in G PROVE u \cup {op} \in G
    BY <1>2, RegroupUnfolds, GroupInvStep DEF Follows, Directory
  <1>3. Histories(S) \subseteq G
    <2> HIDE DEF G
    <2> QED
      BY <1>1, <1>2, HistoryInduction DEF Directory
  <1> QED
    BY <1>3

LEMMA GroupHolds ==
    ASSUME NEW S, Directory(S)
    PROVE  GroupInv(S, S, Regroup(S)[S])
  BY GroupAt DEF Histories

-----------------------------------------------------------------------------
(* What the view of a directory shows.                                     *)

\* The record that an id leads to is one of the two replays'.
LEMMA RecordIs ==
    ASSUME NEW S, Directory(S)
    PROVE  /\ DOMAIN View(S).canon = Named(S) /\ View(S).canon = Canon(S)
           /\ \A c \in Named(S) : Group(View(S), c) = Kin(S)[c]
           /\ \/ \A c \in Named(S) : RecordOf(View(S), c) = Met(S)[S].record[c]
              \/ \A c \in Named(S) : RecordOf(View(S), c) = Regroup(S)[S][Canon(S)[c]]
  <1>1. View(S) = Merged(S, Met(S)[S], Canon(S)) /\ DOMAIN Canon(S) = Named(S)
    BY ViewIs DEF Canon
  <1>2. View(S).canon = Canon(S)
    BY <1>1 DEF Merged
  <1>3. ASSUME NEW c \in Named(S) PROVE Group(View(S), c) = Kin(S)[c]
    <2>1. Kin(S)[c] \subseteq Named(S) /\ \A d \in Named(S) : Canon(S)[d] = Canon(S)[c] <=> d \in Kin(S)[c]
      BY CanonIs
    <2> QED
      BY <1>1, <1>2, <2>1 DEF Group
  <1>4. CASE \A c \in Named(S) : Canon(S)[c] = c
    BY <1>1, <1>2, <1>3, <1>4 DEF Merged, RecordOf
  <1>5. CASE ~\A c \in Named(S) : Canon(S)[c] = c
    <2>1. View(S).record = Grouped(S, Kin(S), Canon(S))
      BY <1>1, <1>5 DEF Merged, Kin
    <2> QED
      BY <1>1, <1>2, <1>3, <2>1, GroupedIs DEF RecordOf
  <1> QED
    BY <1>4, <1>5

(* In a directory, deletions hold: what a deleted contact has become is     *)
(* active only if some contact of its group was added again after that.     *)
THEOREM DirectoryDeletions ==
    ASSUME NEW S, Directory(S)
    PROVE  DeletionsHold(S, View(S))
  <1> SUFFICES ASSUME NEW r \in S, r.act \in Deletes, Alive(View(S), r.contact)
               PROVE  Revived(S, Group(View(S), r.contact), r)
    BY DEF DeletionsHold, Deletes
  <1>1. r.contact \in Named(S)
    BY DEF Named
  <1>2. CASE \A c \in Named(S) : RecordOf(View(S), c) = Met(S)[S].record[c]
    <2>1. PICK again \in AddsOf(S, r.contact) : Before(r, again)
      BY <1>1, <1>2, WholeHolds DEF MetInv, MetGone, Alive
    <2>2. PICK add \in AddsOf(S, r.contact) : Before(add, r) /\ add # r
      BY DEF Directory, AddedBefore, AddsOf, Deletes
    <2>3. AddsOf(S, r.contact) \subseteq S /\ Ordered(S)
      BY DEF AddsOf, Directory
    <2>4. again # Earliest(AddsOf(S, r.contact))
      <3> SUFFICES ASSUME again = Earliest(AddsOf(S, r.contact)) PROVE FALSE
        OBVIOUS
      <3>1. add = again \/ Before(again, add)
        BY <2>2, <2>3, EarliestIs
      <3>2. again # r
        BY DEF AddsOf, Deletes
      <3> QED
        BY <2>1, <2>2, <2>3, <3>1, <3>2 DEF Ordered
    <2>5. r.contact \in Group(View(S), r.contact)
      BY <1>1, RecordIs, CanonIs
    <2> QED
      BY <2>1, <2>4, <2>5 DEF Revived
  <1>3. CASE \A c \in Named(S) : RecordOf(View(S), c) = Regroup(S)[S][Canon(S)[c]]
    <2>1. Regroup(S)[S][Canon(S)[r.contact]].life = "active"
      BY <1>1, <1>3 DEF Alive
    <2>2. GroupGone(S, S, Regroup(S)[S])
      BY GroupHolds DEF GroupInv
    <2>3. \E d \in Kin(S)[r.contact] : \E again \in AddsOf(S, d) :
            Before(r, again) /\ again # Earliest(AddsOf(S, d))
      BY <2>1, <2>2 DEF GroupGone
    <2>4. Group(View(S), r.contact) = Kin(S)[r.contact]
      BY <1>1, RecordIs
    <2> QED
      BY <2>3, <2>4 DEF Revived
  <1> QED
    BY <1>2, <1>3, RecordIs

(* In a directory, blocks hold: each is on the record that its contact      *)
(* leads to, and only an unblock of its author that came after it lifts it. *)
THEOREM DirectoryBlocks ==
    ASSUME NEW S, Directory(S)
    PROVE  BlocksHold(S, View(S))
  <1> SUFFICES ASSUME NEW op \in S, op.act = "block"
               PROVE  Blocked(S, RecordOf(View(S), op.contact), op)
    BY DEF BlocksHold
  <1>1. op.contact \in Named(S)
    BY DEF Named
  <1>2. CASE \A c \in Named(S) : RecordOf(View(S), c) = Met(S)[S].record[c]
    BY <1>1, <1>2, WholeHolds DEF MetInv, MetBlocks
  <1>3. CASE \A c \in Named(S) : RecordOf(View(S), c) = Regroup(S)[S][Canon(S)[c]]
    BY <1>1, <1>3, GroupHolds DEF GroupInv, GroupBlocks
  <1> QED
    BY <1>2, <1>3, RecordIs

-----------------------------------------------------------------------------
(* Two directories, the one a part of the other: what arrives in between.  *)

\* What an operation does to kin and to whether a contact is active.
LEMMA KinGrows ==
    ASSUME NEW S, NEW m, MetShape(S, m), MetKin(S, m), NEW op \in S, WellFormed(op)
    PROVE  /\ \A c \in Named(S) : m.kin[c] \subseteq Meets(op, m).kin[c]
           /\ op.act # "remove-item" => \A k \in KeysOf(S) : m.holders[k] \subseteq Meets(op, m).holders[k]
  <1> DEFINE next == Meets(op, m)
  <1>0. MeetsTo(S, m, op, next)
    BY MeetsFully
  <1>1. CASE op.act # "add-identity" \/ ~Applies(m.record[op.contact], op)
    <2> HIDE DEF next
    <2>1. /\ next.kin = m.kin
          /\ op.act # "remove-item" => next.holders = m.holders
      BY <1>0, <1>1 DEF MeetsTo
    <2> QED
      BY <2>1 DEF next
  <1>2. CASE op.act = "add-identity" /\ Applies(m.record[op.contact], op)
    <2> DEFINE all == m.kin[op.contact] \cup UNION {m.kin[h] : h \in m.holders[op.key]}
    <2>1. /\ next.kin = [c \in Named(S) |-> IF c \in all THEN all ELSE m.kin[c]]
          /\ next.holders = [m.holders EXCEPT ![op.key] = @ \cup {op.contact}]
      <3> HIDE DEF next
      <3> QED
        BY <1>0, <1>2 DEF MeetsTo
    <2>2. op.contact \in Named(S) /\ op.key \in KeysOf(S)
      BY <1>2 DEF Named, KeysOf, WellFormed
    <2>3. \A c \in all : m.kin[c] \subseteq all
      BY <2>2 DEF MetKin
    <2> HIDE DEF all, next
    <2> QED
      BY <2>1, <2>2, <2>3 DEF MetShape, next
  <1> QED
    BY <1>1, <1>2

LEMMA StaysActive ==
    ASSUME NEW r, IsRecord(r), NEW op, op.act \in Acts \ {"remove", "archive", "unlink"}, r.life = "active"
    PROVE  ApplyOne(r, op).life = "active"
  <1>1. ApplyOne(r, op) = Effect(r, op)
    BY DEF ApplyOne, Applies
  <1>2. CASE op.act = "add"
    BY <1>2, ApplyIs
  <1>3. CASE op.act # "add"
    BY <1>1, <1>3, EffectIs
  <1> QED
    BY <1>2, <1>3

\* An operation writes the record of its contact alone.
LEMMA MeetsRecord ==
    ASSUME NEW S, NEW m, MetShape(S, m), NEW op \in S, WellFormed(op), NEW c \in Named(S)
    PROVE  Meets(op, m).record[c] = IF c = op.contact THEN ApplyOne(m.record[c], op) ELSE m.record[c]
  <1> DEFINE next == Meets(op, m)
  <1>1. next.record = [m.record EXCEPT ![op.contact] = ApplyOne(@, op)]
    BY MeetsIs
  <1>2. m.record = [x \in Named(S) |-> m.record[x]]
    BY DEF MetShape
  <1> HIDE DEF next
  <1>3. next.record[c] = IF c = op.contact THEN ApplyOne(m.record[c], op) ELSE m.record[c]
    BY <1>1, <1>2
  <1> QED
    BY <1>3 DEF next

\* On the contacts and keys of the part, the two replays have come to the same.
Alike(S, m, n) ==
    /\ \A c \in Named(S) : n.record[c] = m.record[c] /\ n.kin[c] = m.kin[c]
    /\ \A k \in KeysOf(S) : n.holders[k] = m.holders[k]
    /\ n.items = m.items

LEMMA AlikeStep ==
    ASSUME NEW S, NEW N, S \subseteq N, NEW m, MetShape(S, m), MetKin(S, m), NEW n, MetShape(N, n),
           Alike(S, m, n), NEW op \in S, WellFormed(op)
    PROVE  Alike(S, Meets(op, m), Meets(op, n))
  <1> DEFINE mm == Meets(op, m)
             nn == Meets(op, n)
             c == op.contact
  <1>1. /\ Named(S) \subseteq Named(N) /\ KeysOf(S) \subseteq KeysOf(N) /\ c \in Named(S) /\ op \in N
        /\ op.act = "add-identity" => op.key \in KeysOf(S)
    BY DEF Named, KeysOf, WellFormed
  <1>2. n.record[c] = m.record[c]
    BY <1>1 DEF Alike
  <1>3. ASSUME NEW x \in Named(S) PROVE nn.record[x] = mm.record[x]
    <2>1. /\ mm.record[x] = IF x = c THEN ApplyOne(m.record[x], op) ELSE m.record[x]
          /\ nn.record[x] = IF x = c THEN ApplyOne(n.record[x], op) ELSE n.record[x]
      BY <1>1, MeetsRecord
    <2> QED
      BY <2>1 DEF Alike
  <1>7. MeetsTo(S, m, op, mm) /\ MeetsTo(N, n, op, nn)
    BY <1>1, MeetsFully
  <1> HIDE DEF mm, nn
  <1>4. ASSUME op.act \notin {"add-identity", "remove-item"} \/ ~Applies(m.record[c], op)
        PROVE  Alike(S, mm, nn)
    <2>1. /\ mm.kin = m.kin /\ mm.holders = m.holders /\ mm.items = m.items
          /\ nn.kin = n.kin /\ nn.holders = n.holders /\ nn.items = n.items
      BY <1>2, <1>4, <1>7 DEF MeetsTo
    <2> QED
      BY <1>3, <2>1 DEF Alike
  <1>5. ASSUME op.act = "add-identity" /\ Applies(m.record[c], op)
        PROVE  Alike(S, mm, nn)
    <2> DEFINE allM == m.kin[c] \cup UNION {m.kin[h] : h \in m.holders[op.key]}
               allN == n.kin[c] \cup UNION {n.kin[h] : h \in n.holders[op.key]}
    <2>1. /\ mm.kin = [x \in Named(S) |-> IF x \in allM THEN allM ELSE m.kin[x]]
          /\ mm.holders = [m.holders EXCEPT ![op.key] = @ \cup {c}]
          /\ mm.items = m.items \cup {[item |-> op.item, key |-> op.key, contact |-> c]}
      BY <1>5, <1>7 DEF MeetsTo
    <2>2. /\ nn.kin = [x \in Named(N) |-> IF x \in allN THEN allN ELSE n.kin[x]]
          /\ nn.holders = [n.holders EXCEPT ![op.key] = @ \cup {c}]
          /\ nn.items = n.items \cup {[item |-> op.item, key |-> op.key, contact |-> c]}
      BY <1>2, <1>5, <1>7 DEF MeetsTo
    <2>3. allN = allM
      <3>1. n.kin[c] = m.kin[c] /\ n.holders[op.key] = m.holders[op.key]
        BY <1>1, <1>5 DEF Alike
      <3>2. \A h \in m.holders[op.key] : n.kin[h] = m.kin[h]
        BY <1>1, <1>5 DEF Alike, MetKin
      <3> QED
        BY <3>1, <3>2
    <2> HIDE DEF allM, allN
    <2>4. \A x \in Named(S) : nn.kin[x] = mm.kin[x]
      BY <1>1, <2>1, <2>2, <2>3 DEF Alike
    <2>5. ASSUME NEW k \in KeysOf(S) PROVE nn.holders[k] = mm.holders[k]
      <3>1. k \in DOMAIN m.holders /\ k \in DOMAIN n.holders
        BY <1>1 DEF MetShape
      <3>2. mm.holders[k] = IF k = op.key THEN m.holders[k] \cup {c} ELSE m.holders[k]
        BY <2>1, <3>1
      <3>3. nn.holders[k] = IF k = op.key THEN n.holders[k] \cup {c} ELSE n.holders[k]
        BY <2>2, <3>1
      <3> QED
        BY <3>2, <3>3 DEF Alike
    <2>6. nn.items = mm.items
      BY <2>1, <2>2 DEF Alike
    <2> QED
      BY <1>3, <2>4, <2>5, <2>6 DEF Alike
  <1>6. ASSUME op.act = "remove-item" /\ Applies(m.record[c], op)
        PROVE  Alike(S, mm, nn)
    <2>1. n.kin[c] = m.kin[c] /\ Freed(n, op) = Freed(m, op)
      BY <1>1 DEF Alike, Freed
    <2>2. /\ mm.kin = m.kin /\ mm.items = m.items
          /\ mm.holders = [k \in KeysOf(S) |-> IF k \in Freed(m, op) THEN m.holders[k] \ m.kin[c]
                                               ELSE m.holders[k]]
      BY <1>6, <1>7 DEF MeetsTo
    <2>3. /\ nn.kin = n.kin /\ nn.items = n.items
          /\ nn.holders = [k \in KeysOf(N) |-> IF k \in Freed(n, op) THEN n.holders[k] \ n.kin[c]
                                               ELSE n.holders[k]]
      BY <1>2, <1>6, <1>7 DEF MeetsTo
    <2>4. ASSUME NEW k \in KeysOf(S) PROVE nn.holders[k] = mm.holders[k]
      <3>1. mm.holders[k] = IF k \in Freed(m, op) THEN m.holders[k] \ m.kin[c] ELSE m.holders[k]
        BY <2>2
      <3>2. nn.holders[k] = IF k \in Freed(n, op) THEN n.holders[k] \ n.kin[c] ELSE n.holders[k]
        BY <1>1, <2>3
      <3>3. n.holders[k] = m.holders[k]
        BY DEF Alike
      <3> QED
        BY <2>1, <3>1, <3>2, <3>3
    <2> QED
      BY <1>3, <2>2, <2>3, <2>4 DEF Alike
  <1>8. Alike(S, mm, nn)
    BY <1>4, <1>5, <1>6
  <1> QED
    BY <1>8 DEF mm, nn

\* Where the replay of all operations has come to t: kin is at least as wide.  As
\* long as nothing that takes has arrived, no fewer contacts hold a key, or are active.
Widened(S, t, m, n) ==
    /\ \A c \in Named(S) : m.kin[c] \subseteq n.kin[c]
    /\ (\A late \in t \ S : late.act \notin Takes) =>
            /\ \A c \in Named(S) : m.record[c].life = "active" => n.record[c].life = "active"
            /\ \A k \in KeysOf(S) : m.holders[k] \subseteq n.holders[k]
    /\ t \subseteq S => Alike(S, m, n)

\* An operation that both replays take.
LEMMA WidenedTogether ==
    ASSUME NEW S, Directory(S), NEW N, Directory(N), S \subseteq N, ~Straggles(S, N),
           NEW t, NEW op, Follows(N, t, op), op \in S,
           NEW m, MetShape(S, m), MetKin(S, m), NEW n, MetShape(N, n), MetKin(N, n), Widened(S, t, m, n)
    PROVE  Widened(S, t \cup {op}, Meets(op, m), Meets(op, n))
  <1> DEFINE mm == Meets(op, m)
             nn == Meets(op, n)
             c == op.contact
  <1>1. /\ op \in N /\ WellFormed(op) /\ op.act \in Acts /\ c \in Named(S) /\ c \in Named(N)
        /\ Named(S) \subseteq Named(N) /\ KeysOf(S) \subseteq KeysOf(N)
        /\ op.act = "add-identity" => op.key \in KeysOf(S)
        /\ t \subseteq N /\ \A x \in t : Before(x, op)
    BY DEF Directory, WellFormed, Named, KeysOf, Follows, Histories
  <1>2. /\ mm.record[c] = ApplyOne(m.record[c], op) /\ nn.record[c] = ApplyOne(n.record[c], op)
        /\ \A x \in Named(S) : x # c => mm.record[x] = m.record[x] /\ nn.record[x] = n.record[x]
    BY <1>1, MeetsRecord
  <1>6. MeetsTo(S, m, op, mm) /\ MeetsTo(N, n, op, nn)
    BY <1>1, MeetsFully
  <1>3. /\ \A x \in Named(S) : n.kin[x] \subseteq nn.kin[x]
        /\ op.act # "remove-item" => \A k \in KeysOf(S) : n.holders[k] \subseteq nn.holders[k]
    BY <1>1, KinGrows
  <1>4. CASE t \subseteq S
    <2>1. Alike(S, m, n)
      BY <1>4 DEF Widened
    <2>2. Alike(S, mm, nn)
      BY <1>1, <2>1, AlikeStep
    <2> HIDE DEF mm, nn
    <2> QED
      BY <2>2 DEF Alike, Widened, mm, nn
  <1>5. CASE ~(t \subseteq S)
    <2>1. PICK late \in t \ S : late \in N \ S /\ Before(late, op)
      BY <1>1, <1>5
    <2>2. op.act \notin {"remove-item", "unlink"}
      BY <2>1 DEF Straggles
    <2>3. CASE \E x \in t \ S : x.act \in Takes
      <3>1. op.act # "add-identity"
        BY <1>1, <2>3 DEF Straggles
      <3>2. mm.kin = m.kin
        <4> HIDE DEF mm, nn
        <4> QED
          BY <1>6, <3>1 DEF MeetsTo
      <3> HIDE DEF mm, nn
      <3> QED
        BY <1>3, <1>5, <2>3, <3>2 DEF Widened, mm, nn
    <2>4. CASE \A x \in t \ S : x.act \notin Takes
      <3>1. /\ \A x \in Named(S) : m.kin[x] \subseteq n.kin[x]
            /\ \A x \in Named(S) : m.record[x].life = "active" => n.record[x].life = "active"
            /\ \A k \in KeysOf(S) : m.holders[k] \subseteq n.holders[k]
        BY <2>4 DEF Widened
      <3>2. \A x \in Named(S) : mm.record[x].life = "active" => nn.record[x].life = "active"
        <4>1. IsRecord(m.record[c]) /\ IsRecord(n.record[c])
          BY <1>1 DEF MetShape
        <4>2. ASSUME mm.record[c].life = "active" PROVE nn.record[c].life = "active"
          <5>1. CASE op.act = "add"
            BY <1>1, <1>2, <4>1, <5>1, ApplyIs
          <5>2. CASE op.act # "add"
            <6>1. m.record[c].life = "active" /\ op.act \notin {"remove", "archive"}
              BY <1>1, <1>2, <4>1, <4>2, <5>2, ApplyIs
            <6> QED
              BY <1>1, <1>2, <2>2, <3>1, <4>1, <6>1, StaysActive
          <5> QED
            BY <5>1, <5>2
        <4> HIDE DEF mm, nn
        <4> QED
          BY <1>2, <3>1, <4>2
      <3>3. CASE op.act # "add-identity" \/ ~Applies(m.record[c], op)
        <4>1. mm.kin = m.kin /\ \A k \in KeysOf(S) : mm.holders[k] = m.holders[k]
          <5> HIDE DEF mm, nn
          <5> QED
            BY <1>6, <2>2, <3>3 DEF MeetsTo
        <4> HIDE DEF mm, nn
        <4> QED
          BY <1>3, <1>5, <2>2, <3>1, <3>2, <4>1 DEF Widened, mm, nn
      <3>4. CASE op.act = "add-identity" /\ Applies(m.record[c], op)
        <4> DEFINE allM == m.kin[c] \cup UNION {m.kin[h] : h \in m.holders[op.key]}
                   allN == n.kin[c] \cup UNION {n.kin[h] : h \in n.holders[op.key]}
        <4>1. Applies(n.record[c], op)
          BY <1>1, <3>1, <3>4 DEF Applies
        <4>2. /\ mm.kin = [x \in Named(S) |-> IF x \in allM THEN allM ELSE m.kin[x]]
              /\ mm.holders = [m.holders EXCEPT ![op.key] = @ \cup {c}]
          <5> HIDE DEF mm, nn
          <5> QED
            BY <1>6, <3>4 DEF MeetsTo
        <4>3. /\ nn.kin = [x \in Named(N) |-> IF x \in allN THEN allN ELSE n.kin[x]]
              /\ nn.holders = [n.holders EXCEPT ![op.key] = @ \cup {c}]
          <5> HIDE DEF mm, nn
          <5> QED
            BY <1>6, <3>4, <4>1 DEF MeetsTo
        <4>4. allM \subseteq allN
          <5>1. \A h \in m.holders[op.key] : h \in n.holders[op.key] /\ m.kin[h] \subseteq n.kin[h]
            BY <1>1, <3>1, <3>4 DEF MetKin
          <5>2. m.kin[c] \subseteq n.kin[c]
            BY <1>1, <3>1
          <5> QED
            BY <5>1, <5>2
        <4> HIDE DEF allM, allN, mm, nn
        <4>5. \A x \in Named(S) : mm.kin[x] \subseteq nn.kin[x]
          BY <1>1, <1>3, <3>1, <4>2, <4>3, <4>4
        <4>6. ASSUME NEW k \in KeysOf(S) PROVE mm.holders[k] \subseteq nn.holders[k]
          <5>1. k \in DOMAIN m.holders /\ k \in DOMAIN n.holders
            BY <1>1 DEF MetShape
          <5>2. mm.holders[k] = IF k = op.key THEN m.holders[k] \cup {c} ELSE m.holders[k]
            BY <4>2, <5>1
          <5>3. nn.holders[k] = IF k = op.key THEN n.holders[k] \cup {c} ELSE n.holders[k]
            BY <4>3, <5>1
          <5>4. m.holders[k] \subseteq n.holders[k]
            BY <3>1
          <5> QED
            BY <5>2, <5>3, <5>4
        <4> QED
          BY <1>5, <3>2, <4>5, <4>6 DEF Widened, mm, nn
      <3> QED
        BY <3>3, <3>4
    <2> QED
      BY <2>3, <2>4
  <1> QED
    BY <1>4, <1>5

\* One that arrives.
LEMMA WidenedByLate ==
    ASSUME NEW S, NEW N, Directory(N), S \subseteq N, NEW t, NEW op, Follows(N, t, op), op \notin S,
           NEW m, NEW n, MetShape(N, n), MetKin(N, n), Widened(S, t, m, n)
    PROVE  Widened(S, t \cup {op}, m, Meets(op, n))
  <1> DEFINE nn == Meets(op, n)
             c == op.contact
  <1>1. /\ op \in N /\ WellFormed(op) /\ op.act \in Acts /\ c \in Named(N)
        /\ Named(S) \subseteq Named(N) /\ KeysOf(S) \subseteq KeysOf(N)
    BY DEF Directory, WellFormed, Named, KeysOf, Follows
  <1>2. /\ \A x \in Named(S) : n.kin[x] \subseteq nn.kin[x]
        /\ op.act # "remove-item" => \A k \in KeysOf(S) : n.holders[k] \subseteq nn.holders[k]
    BY <1>1, KinGrows
  <1>3. ASSUME op.act \notin Takes, NEW x \in Named(S), n.record[x].life = "active"
        PROVE  nn.record[x].life = "active"
    <2>1. nn.record[x] = IF x = c THEN ApplyOne(n.record[x], op) ELSE n.record[x]
      BY <1>1, MeetsRecord
    <2>2. ApplyOne(n.record[x], op).life = "active"
      BY <1>1, <1>3, StaysActive DEF Takes, MetShape
    <2> HIDE DEF nn
    <2> QED
      BY <1>1, <1>3, <2>1, <2>2 DEF MetShape
  <1> HIDE DEF nn
  <1> QED
    BY <1>2, <1>3 DEF Widened, Takes, nn

LEMMA KinWidened ==
    ASSUME NEW S, Directory(S), NEW N, Directory(N), S \subseteq N, ~Straggles(S, N), NEW c \in Named(S)
    PROVE  Kin(S)[c] \subseteq Kin(N)[c]
  <1> DEFINE G == {t \in Histories(N) : Widened(S, t, Met(S)[t \cap S], Met(N)[t])}
  <1>1. {} \in G
    <2>1. {} \in Histories(N) /\ {} \cap S = {} /\ Met(S)[{}] = Apart(S) /\ Met(N)[{}] = Apart(N)
      BY MetUnfolds DEF Histories, Directory
    <2>2. Named(S) \subseteq Named(N) /\ KeysOf(S) \subseteq KeysOf(N)
      BY DEF Named, KeysOf
    <2>3. Alike(S, Apart(S), Apart(N))
      BY <2>2 DEF Alike, Apart
    <2>4. Widened(S, {}, Apart(S), Apart(N))
      BY <2>3 DEF Widened, Alike
    <2> QED
      BY <2>1, <2>4
  <1>2. ASSUME NEW t, NEW op, Follows(N, t, op), t \in G PROVE t \cup {op} \in G
    <2>1. /\ t \in Histories(N) /\ t \cup {op} \in Histories(N) /\ Widened(S, t, Met(S)[t \cap S], Met(N)[t])
      BY <1>2 DEF Follows
    <2>2. t \cap S \in Histories(S)
      BY <2>1 DEF Histories
    <2>3. Met(N)[t \cup {op}] = Meets(op, Met(N)[t])
      BY <1>2, MetStep DEF Directory
    <2>4. /\ MetShape(S, Met(S)[t \cap S]) /\ MetKin(S, Met(S)[t \cap S])
          /\ MetShape(N, Met(N)[t]) /\ MetKin(N, Met(N)[t])
      BY <2>1, <2>2, MetHolds DEF MetInv
    <2>5. CASE op \in S
      <3>1. Follows(S, t \cap S, op) /\ (t \cup {op}) \cap S = (t \cap S) \cup {op}
        BY <1>2, <2>5 DEF Follows, Histories
      <3>2. Met(S)[(t \cup {op}) \cap S] = Meets(op, Met(S)[t \cap S])
        BY <3>1, MetStep DEF Directory
      <3> QED
        BY <1>2, <2>1, <2>3, <2>4, <2>5, <3>2, WidenedTogether
    <2>6. CASE op \notin S
      <3>1. (t \cup {op}) \cap S = t \cap S
        BY <2>6
      <3> QED
        BY <1>2, <2>1, <2>3, <2>4, <2>6, <3>1, WidenedByLate
    <2> QED
      BY <2>5, <2>6
  <1>3. N \in G
    <2>1. N \in Histories(N)
      BY DEF Histories
    <2> HIDE DEF G
    <2> QED
      BY <1>1, <1>2, <2>1, HistoryInduction DEF Directory
  <1>4. N \cap S = S
    OBVIOUS
  <1> QED
    BY <1>3, <1>4 DEF Widened, Kin

(* Whatever a directory learns, contacts that are one in it stay one,       *)
(* unless what arrives straggles.                                           *)
THEOREM DirectoryAliases ==
    ASSUME NEW S, Directory(S), NEW N, Directory(N), S \subseteq N, ~Straggles(S, N)
    PROVE  GroupsKept(View(S), View(N))
  <1>1. Named(S) \subseteq Named(N)
    BY DEF Named
  <1>2. ASSUME NEW c \in Named(S) PROVE Group(View(S), c) \subseteq Group(View(N), c)
    <2>1. Group(View(S), c) = Kin(S)[c] /\ Group(View(N), c) = Kin(N)[c]
      BY <1>1, RecordIs
    <2> QED
      BY <2>1, KinWidened
  <1>3. DOMAIN View(S).canon = Named(S)
    BY RecordIs
  <1> QED
    BY <1>2, <1>3 DEF GroupsKept
-----------------------------------------------------------------------------
(* A directory and what is saved after it: what a call shows.              *)

\* N is S and operations that come after all of it.
Extends(S, N) ==
    /\ Directory(S) /\ Directory(N) /\ S \subseteq N
    /\ \A x \in S : \A y \in N \ S : Before(x, y)

LEMMA ExtendsHistories ==
    ASSUME NEW S, NEW N, Extends(S, N)
    PROVE  /\ \A t \in Histories(S) : t \in Histories(N)
           /\ \A t, op : Follows(S, t, op) => Follows(N, t, op)
           /\ Named(S) \subseteq Named(N) /\ KeysOf(S) \subseteq KeysOf(N)
  <1>1. ASSUME NEW t \in Histories(S) PROVE t \in Histories(N)
    <2>1. t \subseteq S /\ t \subseteq N
      BY DEF Histories, Extends
    <2>2. ASSUME NEW a \in t, NEW b \in N \ {a}, Before(b, a) PROVE b \in t
      <3>1. b \in S
        <4>1. b \notin S => Before(a, b) /\ a \in N
          BY <2>1 DEF Extends
        <4>2. Ordered(N)
          BY DEF Extends, Directory
        <4> QED
          BY <2>2, <4>1, <4>2 DEF Ordered
      <3> QED
        BY <2>2, <3>1 DEF Histories
    <2> QED
      BY <2>1, <2>2 DEF Histories
  <1>2. \A t, op : Follows(S, t, op) => Follows(N, t, op)
    BY <1>1 DEF Follows, Extends
  <1> QED
    BY <1>1, <1>2 DEF Named, KeysOf, Extends

\* While a replay of N goes through S, it leaves the contacts and keys of the rest alone.
Elsewhere(S, N, n) ==
    /\ \A c \in Named(N) \ Named(S) : n.record[c] = NoRecord
    /\ \A k \in KeysOf(N) \ KeysOf(S) : n.holders[k] = {}

LEMMA ElsewhereStep ==
    ASSUME NEW S, NEW N, S \subseteq N, NEW n, MetShape(N, n), Elsewhere(S, N, n),
           NEW op \in S, WellFormed(op)
    PROVE  Elsewhere(S, N, Meets(op, n))
  <1> DEFINE nn == Meets(op, n)
  <1>1. op \in N /\ op.contact \in Named(S) /\ (op.act = "add-identity" => op.key \in KeysOf(S))
    BY DEF Named, KeysOf, WellFormed
  <1>2. MeetsTo(N, n, op, nn)
    BY <1>1, MeetsFully
  <1>3. ASSUME NEW c \in Named(N) \ Named(S) PROVE nn.record[c] = NoRecord
    <2>1. nn.record[c] = n.record[c]
      BY <1>1, MeetsRecord
    <2> HIDE DEF nn
    <2> QED
      BY <2>1 DEF Elsewhere
  <1> HIDE DEF nn
  <1>4. ASSUME NEW k \in KeysOf(N) \ KeysOf(S) PROVE nn.holders[k] = {}
    <2>1. n.holders[k] = {}
      BY DEF Elsewhere
    <2>2. CASE op.act # "add-identity" \/ ~Applies(n.record[op.contact], op)
      BY <1>2, <2>1, <2>2 DEF MeetsTo
    <2>3. CASE op.act = "add-identity" /\ Applies(n.record[op.contact], op)
      <3>1. nn.holders = [n.holders EXCEPT ![op.key] = @ \cup {op.contact}] /\ k # op.key
        BY <1>1, <1>2, <2>3 DEF MeetsTo
      <3> QED
        BY <2>1, <3>1 DEF MetShape
    <2> QED
      BY <2>2, <2>3
  <1>5. Elsewhere(S, N, nn)
    BY <1>3, <1>4 DEF Elsewhere
  <1> QED
    BY <1>5 DEF nn

\* The first replay comes to the same, on what both know.
LEMMA MetAlike ==
    ASSUME NEW S, NEW N, Extends(S, N)
    PROVE  Alike(S, Met(S)[S], Met(N)[S]) /\ Elsewhere(S, N, Met(N)[S])
  <1> DEFINE G == {t \in Histories(S) : Alike(S, Met(S)[t], Met(N)[t]) /\ Elsewhere(S, N, Met(N)[t])}
  <1>0. Directory(S) /\ Directory(N) /\ Ordered(S) /\ Ordered(N) /\ S \subseteq N
    BY DEF Extends, Directory
  <1>1. {} \in G
    <2>1. Met(S)[{}] = Apart(S) /\ Met(N)[{}] = Apart(N) /\ {} \in Histories(S)
      BY <1>0, MetUnfolds DEF Histories
    <2>2. Alike(S, Apart(S), Apart(N)) /\ Elsewhere(S, N, Apart(N))
      BY ExtendsHistories DEF Alike, Elsewhere, Apart
    <2> QED
      BY <2>1, <2>2
  <1>2. ASSUME NEW t, NEW op, Follows(S, t, op), t \in G PROVE t \cup {op} \in G
    <2>1. t \in Histories(S) /\ t \cup {op} \in Histories(S) /\ op \in S /\ WellFormed(op)
      BY <1>0, <1>2 DEF Follows, Directory
    <2>2. t \in Histories(N) /\ Follows(N, t, op)
      BY <1>2, <2>1, ExtendsHistories
    <2>3. Met(S)[t \cup {op}] = Meets(op, Met(S)[t]) /\ Met(N)[t \cup {op}] = Meets(op, Met(N)[t])
      BY <1>0, <1>2, <2>2, MetStep
    <2>4. /\ MetShape(S, Met(S)[t]) /\ MetKin(S, Met(S)[t]) /\ MetShape(N, Met(N)[t])
      BY <1>0, <2>1, <2>2, MetHolds DEF MetInv
    <2>5. /\ Alike(S, Meets(op, Met(S)[t]), Meets(op, Met(N)[t]))
          /\ Elsewhere(S, N, Meets(op, Met(N)[t]))
      BY <1>0, <1>2, <2>1, <2>4, AlikeStep, ElsewhereStep
    <2> QED
      BY <2>1, <2>3, <2>5
  <1>3. S \in G
    <2>1. S \in Histories(S)
      BY DEF Histories
    <2> HIDE DEF G
    <2> QED
      BY <1>0, <1>1, <1>2, <2>1, HistoryInduction
  <1> QED
    BY <1>3

\* Contacts are one with whom they were one with.
KinStays(S, N) == \A c \in Named(S) : Kin(N)[c] = Kin(S)[c]

LEMMA KinStaysBut ==
    ASSUME NEW S, NEW op, op \notin S, Extends(S, S \cup {op}), op.act # "add-identity"
    PROVE  KinStays(S, S \cup {op})
  <1> DEFINE N == S \cup {op}
  <1>1. Follows(N, S, op) /\ Directory(N) /\ S \in Histories(N) /\ WellFormed(op) /\ op \in N
    <2>1. S \in Histories(S)
      BY DEF Histories
    <2>2. S \in Histories(N)
      BY <2>1, ExtendsHistories
    <2>3. N \in Histories(N)
      BY DEF Histories
    <2> QED
      BY <2>2, <2>3 DEF Follows, Extends, Directory
  <1>2. Met(N)[N] = Meets(op, Met(N)[S]) /\ MetShape(N, Met(N)[S])
    BY <1>1, MetStep, MetHolds DEF Directory, MetInv
  <1>3. Met(N)[N].kin = Met(N)[S].kin
    <2>1. MeetsTo(N, Met(N)[S], op, Meets(op, Met(N)[S]))
      BY <1>1, <1>2, MeetsFully
    <2> QED
      BY <1>2, <2>1 DEF MeetsTo
  <1>4. Alike(S, Met(S)[S], Met(N)[S])
    BY MetAlike
  <1> QED
    BY <1>3, <1>4 DEF KinStays, Kin, Alike

\* Unless a call joins contacts, kin stays.
LEMMA KinStaysApart ==
    ASSUME NEW S, NEW N, Extends(S, N), ~Joined(View(S), View(N))
    PROVE  KinStays(S, N)
  <1>1. Directory(S) /\ Directory(N) /\ Named(S) \subseteq Named(N)
    BY ExtendsHistories DEF Extends
  <1>2. DOMAIN View(S).canon = Named(S)
    BY <1>1, RecordIs
  <1>3. ASSUME NEW c \in Named(S) PROVE Group(View(S), c) = Kin(S)[c] /\ Group(View(N), c) = Kin(N)[c]
    BY <1>1, RecordIs
  <1> QED
    BY <1>2, <1>3 DEF Joined, KinStays

\* The earliest of some operations stays the earliest when later ones come.
LEMMA EarliestStays ==
    ASSUME NEW S, NEW N, Extends(S, N), NEW T \in SUBSET S, T # {},
           NEW U \in SUBSET N, T \subseteq U, U \cap S \subseteq T
    PROVE  Earliest(U) = Earliest(T)
  <1>1. Ordered(S) /\ Ordered(N)
    BY DEF Extends, Directory
  <1>2. Earliest(T) \in T /\ \A x \in T \ {Earliest(T)} : Before(Earliest(T), x)
    BY <1>1, EarliestIs
  <1>3. \A x \in U \ {Earliest(T)} : Before(Earliest(T), x)
    BY <1>2 DEF Extends
  <1> QED
    BY <1>1, <1>2, <1>3, EarliestIsOnly

LEMMA CanonStays ==
    ASSUME NEW S, NEW N, Extends(S, N), KinStays(S, N), NEW c \in Named(S)
    PROVE  /\ Canon(N)[c] = Canon(S)[c]
           /\ Earliest(AddsOf(N, c)) = Earliest(AddsOf(S, c))
           /\ Earliest(AddsOf(N, c)) \in S
           /\ c \in Named(N)
  <1>1. /\ Directory(S) /\ Directory(N) /\ S \subseteq N /\ c \in Named(N)
        /\ Kin(N)[c] = Kin(S)[c] /\ Kin(S)[c] \subseteq Named(S) /\ c \in Kin(S)[c]
    BY ExtendsHistories, CanonIs DEF Extends, KinStays
  <1>2. AddsOf(S, c) # {}
    BY <1>1, AllAdded
  <1> DEFINE T == UNION {AddsOf(S, d) : d \in Kin(S)[c]}
             U == UNION {AddsOf(N, d) : d \in Kin(S)[c]}
  <1>3. Earliest(U) = Earliest(T)
    <2>1. T \subseteq S /\ T # {} /\ U \subseteq N /\ T \subseteq U /\ U \cap S \subseteq T
      BY <1>1, <1>2 DEF AddsOf
    <2> HIDE DEF T, U
    <2> QED
      BY <2>1, EarliestStays
  <1>4. Canon(N)[c] = Canon(S)[c]
    BY <1>1, <1>3 DEF Canon, Oldest
  <1>5. /\ AddsOf(S, c) \subseteq S /\ AddsOf(N, c) \subseteq N /\ AddsOf(S, c) \subseteq AddsOf(N, c)
        /\ AddsOf(N, c) \cap S \subseteq AddsOf(S, c)
    BY <1>1 DEF AddsOf
  <1>6. Earliest(AddsOf(N, c)) = Earliest(AddsOf(S, c))
    BY <1>2, <1>5, EarliestStays
  <1>7. Earliest(AddsOf(S, c)) \in S
    BY <1>1, <1>2, <1>5, EarliestIs DEF Directory
  <1> QED
    BY <1>1, <1>4, <1>6, <1>7

-----------------------------------------------------------------------------
(* The second replay comes to the same.                                    *)

\* Records that are equal but for their items.
Likewise(r, q) == IsRecord(r) /\ IsRecord(q) /\ q.life = r.life /\ q.lists = r.lists

LEMMA LikewiseLinked ==
    ASSUME NEW r, NEW q, Likewise(r, q), NEW list
    PROVE  Likewise(Linked(r, list), Linked(q, list))
  <1>1. IsRecord(r) /\ IsRecord(q) /\ q.life = r.life /\ q.lists = r.lists
    BY DEF Likewise
  <1>2. /\ IsRecord(Linked(r, list)) /\ Linked(r, list).life = r.life
        /\ Linked(r, list).lists = IF list = "none" THEN r.lists ELSE r.lists \cup {list}
    BY <1>1, LinkedIs
  <1>3. /\ IsRecord(Linked(q, list)) /\ Linked(q, list).life = q.life
        /\ Linked(q, list).lists = IF list = "none" THEN q.lists ELSE q.lists \cup {list}
    BY <1>1, LinkedIs
  <1> QED
    BY <1>1, <1>2, <1>3 DEF Likewise

\* What becomes of the life and the lists of a record takes no more than these.
LEMMA LikewiseApplied ==
    ASSUME NEW r, NEW q, Likewise(r, q), NEW op, NEW g, op.act \in Acts, g.act = op.act, g.list = op.list
    PROVE  Likewise(ApplyOne(r, op), ApplyOne(q, g))
  <1>1. IsRecord(r) /\ IsRecord(q) /\ q.life = r.life /\ q.lists = r.lists /\ g.act \in Acts
    BY DEF Likewise
  <1>2. IsRecord(ApplyOne(r, op)) /\ IsRecord(ApplyOne(q, g))
    BY <1>1, ApplyIs
  <1>3. Applies(r, op) <=> Applies(q, g)
    BY <1>1 DEF Applies
  <1>4. CASE ~Applies(r, op)
    BY <1>1, <1>3, <1>4 DEF ApplyOne, Likewise
  <1>5. CASE Applies(r, op)
    <2>1. ApplyOne(r, op) = Effect(r, op) /\ ApplyOne(q, g) = Effect(q, g)
      BY <1>3, <1>5 DEF ApplyOne
    <2>2. CASE op.act = "add"
      <3>1. /\ Effect(r, op) = [Linked(r, op.list) EXCEPT !.life = "active"]
            /\ Effect(q, g) = [Linked(q, g.list) EXCEPT !.life = "active"]
        BY <1>1, <2>2, EffectIs
      <3>2. Likewise(Linked(r, op.list), Linked(q, g.list))
        BY LikewiseLinked
      <3>3. Effect(r, op).lists = Linked(r, op.list).lists /\ Effect(r, op).life = "active"
        <4>1. IsRecord(Linked(r, op.list))
          BY <1>1, LinkedIs
        <4> QED
          BY <3>1, <4>1 DEF IsRecord
      <3>4. Effect(q, g).lists = Linked(q, g.list).lists /\ Effect(q, g).life = "active"
        <4>1. IsRecord(Linked(q, g.list))
          BY <1>1, LinkedIs
        <4> QED
          BY <3>1, <4>1 DEF IsRecord
      <3> QED
        BY <1>2, <2>1, <3>2, <3>3, <3>4 DEF Likewise
    <2>3. CASE op.act = "link"
      <3>1. Effect(r, op) = Linked(r, op.list) /\ Effect(q, g) = Linked(q, g.list)
        BY <2>3 DEF Effect
      <3> QED
        BY <2>1, <3>1, LikewiseLinked
    <2>4. CASE op.act = "unlink"
      <3>1. Effect(r, op) = Unlinked(r, op.list) /\ Effect(q, g) = Unlinked(q, op.list)
        BY <2>4 DEF Effect
      <3>2. Unlinked(r, op.list).lists = Unlinked(q, op.list).lists
        <4>1. Unlinked(r, op.list).lists = r.lists \ {op.list}
          BY <1>1, UnlinkedIs
        <4>2. Unlinked(q, op.list).lists = q.lists \ {op.list}
          BY <1>1, UnlinkedIs
        <4> QED
          BY <1>1, <4>1, <4>2
      <3>3. Unlinked(r, op.list).life = Unlinked(q, op.list).life
        <4>1. CASE op.list \notin r.lists
          BY <1>1, <4>1 DEF Unlinked
        <4>2. CASE op.list \in r.lists /\ r.lists # {op.list}
          BY <1>1, <4>2, UnlinkedIs
        <4>3. CASE r.lists = {op.list}
          BY <1>1, <4>3 DEF Unlinked, IsRecord
        <4> QED
          BY <4>1, <4>2, <4>3
      <3> QED
        BY <1>2, <2>1, <3>1, <3>2, <3>3 DEF Likewise
    <2>5. CASE op.act \in {"remove", "archive"}
      BY <1>1, <1>2, <2>1, <2>5 DEF Effect, Likewise, IsRecord
    <2>6. CASE op.act \in {"add-identity", "remove-item"}
      BY <1>1, <1>2, <2>1, <2>6 DEF Effect, WithKey, Likewise, IsRecord
    <2>7. CASE op.act \in {"block", "unblock", "origin"}
      BY <1>1, <1>2, <2>1, <2>7 DEF Effect, Lifted, Likewise, IsRecord
    <2> QED
      BY <2>2, <2>3, <2>4, <2>5, <2>6, <2>7 DEF Acts
  <1> QED
    BY <1>4, <1>5

LEMMA LikewiseJoined ==
    ASSUME NEW r, NEW q, Likewise(r, q), NEW op
    PROVE  Likewise(Join(r, op), Join(q, op))
  BY LikewiseLinked DEF Join, Likewise

\* On the contacts of the part; the rest have no record yet.
GroupAlike(S, N, records, more) ==
    /\ \A h \in Heads(S) : /\ Likewise(records[h], more[h])
                           /\ (\A y \in N \ S : y.act # "add-identity") => more[h] = records[h]
    /\ \A h \in Heads(N) \ Heads(S) : more[h] = NoRecord

\* With nothing that adds an identity, items are told alike.
LEMMA ItemStays ==
    ASSUME NEW S, NEW N, Extends(S, N), KinStays(S, N), NEW c \in Named(S), NEW item,
           \A y \in N \ S : y.act # "add-identity"
    PROVE  ItemOf(N, Kin(N), c, item) = ItemOf(S, Kin(S), c, item)
  <1>1. S \subseteq N /\ Kin(N)[c] = Kin(S)[c]
    BY DEF Extends, KinStays
  <1> DEFINE namedS == {op \in S : op.act = "add-identity" /\ op.contact = c /\ op.item = item}
             namedN == {op \in N : op.act = "add-identity" /\ op.contact = c /\ op.item = item}
             ofS == {op \in S : op.act = "add-identity" /\ op.contact \in Kin(S)[c]
                                /\ op.key \in {n.key : n \in namedS}}
             ofN == {op \in N : op.act = "add-identity" /\ op.contact \in Kin(N)[c]
                                /\ op.key \in {n.key : n \in namedN}}
  <1>2. namedN = namedS
    BY <1>1
  <1>3. ofN = ofS
    <2> HIDE DEF namedN, namedS
    <2> QED
      BY <1>1, <1>2
  <1>4. ItemOf(S, Kin(S), c, item) = IF namedS = {} THEN item ELSE Earliest(ofS).item
    BY DEF ItemOf
  <1>5. ItemOf(N, Kin(N), c, item) = IF namedN = {} THEN item ELSE Earliest(ofN).item
    BY DEF ItemOf
  <1> HIDE DEF namedN, namedS, ofN, ofS
  <1> QED
    BY <1>2, <1>3, <1>4, <1>5

LEMMA GroupAlikeStep ==
    ASSUME NEW S, NEW N, Extends(S, N), KinStays(S, N), NEW op \in S,
           NEW records, Regrouped(S, records), NEW more, Regrouped(N, more),
           GroupAlike(S, N, records, more)
    PROVE  GroupAlike(S, N, GroupStep(S, Kin(S), Canon(S), records, op),
                            GroupStep(N, Kin(N), Canon(N), more, op))
  <1> DEFINE next == GroupStep(S, Kin(S), Canon(S), records, op)
             then == GroupStep(N, Kin(N), Canon(N), more, op)
             c == Canon(S)[op.contact]
  <1>1. /\ S \subseteq N /\ op \in N /\ WellFormed(op) /\ op.act \in Acts /\ op.contact \in Named(S)
    BY DEF Extends, Directory, WellFormed, Named
  <1>2. /\ Canon(N)[op.contact] = c
        /\ Joins(N, op) <=> Joins(S, op)
    BY <1>1, CanonStays DEF Joins
  <1>3. /\ \A h \in Heads(S) : h # c => next[h] = records[h]
        /\ next[c] = IF Joins(S, op) THEN Join(records[c], op) ELSE ApplyOne(records[c], Retold(S, op))
        /\ c \in Heads(S)
    BY GroupStepIs DEF Regrouped
  <1>4. /\ \A h \in Heads(N) : h # c => then[h] = more[h]
        /\ then[c] = IF Joins(S, op) THEN Join(more[c], op) ELSE ApplyOne(more[c], Retold(N, op))
        /\ c \in Heads(N)
    <2>1. op \in N /\ more = [h \in Heads(N) |-> more[h]]
      BY <1>1 DEF Regrouped
    <2>2. /\ \A h \in Heads(N) : h # Canon(N)[op.contact] => then[h] = more[h]
          /\ then[Canon(N)[op.contact]] = IF Joins(N, op) THEN Join(more[Canon(N)[op.contact]], op)
                                          ELSE ApplyOne(more[Canon(N)[op.contact]], Retold(N, op))
          /\ Canon(N)[op.contact] \in Heads(N)
      BY <2>1, GroupStepIs
    <2> HIDE DEF then, c
    <2> QED
      BY <1>2, <2>2
  <1>5. /\ Retold(S, op).act = op.act /\ Retold(N, op).act = op.act
        /\ Retold(S, op).list = op.list /\ Retold(N, op).list = op.list
    BY <1>1, RetoldIs
  <1>6. (\A y \in N \ S : y.act # "add-identity") => Retold(N, op) = Retold(S, op)
    <2> SUFFICES ASSUME \A y \in N \ S : y.act # "add-identity" PROVE Retold(N, op) = Retold(S, op)
      OBVIOUS
    <2>1. ItemOf(N, Kin(N), op.contact, op.item) = ItemOf(S, Kin(S), op.contact, op.item)
      BY <1>1, ItemStays
    <2>2. Canon(N)[op.contact] = Canon(S)[op.contact]
      BY <1>2
    <2> QED
      BY <2>1, <2>2 DEF Retold
  <1> HIDE DEF next, then, c
  <1>7. Likewise(records[c], more[c])
    BY <1>3 DEF GroupAlike
  <1>8. Likewise(next[c], then[c])
    BY <1>1, <1>3, <1>4, <1>5, <1>7, LikewiseJoined, LikewiseApplied
  <1>9. (\A y \in N \ S : y.act # "add-identity") => then[c] = next[c]
    BY <1>3, <1>4, <1>6 DEF GroupAlike
  <1>10. \A h \in Heads(S) : h \in Heads(N)
    <2> TAKE h \in Heads(S)
    <2>1. PICK x \in Named(S) : h = Canon(S)[x]
      BY DEF Heads
    <2>2. Canon(N)[x] = h /\ x \in Named(N)
      BY <2>1, CanonStays
    <2> QED
      BY <2>2 DEF Heads
  <1>11. \A h \in Heads(S) : h # c => next[h] = records[h] /\ then[h] = more[h]
    BY <1>3, <1>4, <1>10
  <1>12. \A h \in Heads(N) \ Heads(S) : then[h] = more[h]
    BY <1>3, <1>4
  <1>13. GroupAlike(S, N, next, then)
    BY <1>8, <1>9, <1>11, <1>12 DEF GroupAlike
  <1> QED
    BY <1>13 DEF next, then

LEMMA RegroupAlike ==
    ASSUME NEW S, NEW N, Extends(S, N), KinStays(S, N)
    PROVE  /\ GroupAlike(S, N, Regroup(S)[S], Regroup(N)[S])
           /\ Regrouped(S, Regroup(S)[S]) /\ Regrouped(N, Regroup(N)[S])
  <1> DEFINE G == {t \in Histories(S) : GroupAlike(S, N, Regroup(S)[t], Regroup(N)[t])}
  <1>0. Directory(S) /\ Directory(N) /\ Ordered(S) /\ Ordered(N) /\ S \subseteq N
    BY DEF Extends, Directory
  <1>1. {} \in G
    <2>1. Regroup(S)[{}] = Bare(S) /\ Regroup(N)[{}] = Bare(N) /\ {} \in Histories(S)
      BY <1>0, RegroupUnfolds DEF Histories
    <2>2. Heads(S) \subseteq Heads(N)
      BY CanonStays DEF Heads
    <2>3. GroupAlike(S, N, Bare(S), Bare(N))
      BY <2>2, NoRecordIs DEF GroupAlike, Bare, Likewise
    <2> QED
      BY <2>1, <2>3
  <1>2. ASSUME NEW t, NEW op, Follows(S, t, op), t \in G PROVE t \cup {op} \in G
    <2>1. t \in Histories(S) /\ t \cup {op} \in Histories(S) /\ op \in S
      BY <1>2 DEF Follows
    <2>2. t \in Histories(N) /\ Follows(N, t, op)
      BY <1>2, <2>1, ExtendsHistories
    <2>3. /\ Regroup(S)[t \cup {op}] = GroupStep(S, Kin(S), Canon(S), Regroup(S)[t], op)
          /\ Regroup(N)[t \cup {op}] = GroupStep(N, Kin(N), Canon(N), Regroup(N)[t], op)
      BY <1>0, <1>2, <2>2, RegroupUnfolds
    <2>4. Regrouped(S, Regroup(S)[t]) /\ Regrouped(N, Regroup(N)[t])
      BY <1>0, <2>1, <2>2, GroupAt DEF GroupInv
    <2>5. GroupAlike(S, N, Regroup(S)[t \cup {op}], Regroup(N)[t \cup {op}])
      BY <1>2, <2>1, <2>3, <2>4, GroupAlikeStep
    <2> QED
      BY <2>1, <2>5
  <1>3. S \in G
    <2>1. S \in Histories(S)
      BY DEF Histories
    <2> HIDE DEF G
    <2> QED
      BY <1>0, <1>1, <1>2, <2>1, HistoryInduction
  <1>4. S \in Histories(S) /\ S \in Histories(N)
    BY ExtendsHistories DEF Histories
  <1>5. Regrouped(S, Regroup(S)[S]) /\ Regrouped(N, Regroup(N)[S])
    BY <1>0, <1>4, GroupAt DEF GroupInv
  <1> QED
    BY <1>3, <1>5

-----------------------------------------------------------------------------
(* What records keep in order.                                             *)

\* A deleted contact is on no list, and a block names its operation and its author.
Tidy(t, r) ==
    /\ r.life \in Gone => r.lists = {}
    /\ \A b \in r.blocks : b.by = Actor[b.id[1]] /\ \E op \in t : b.id = Id(op)

LEMMA TidyMore ==
    ASSUME NEW t, NEW r, Tidy(t, r), NEW op
    PROVE  Tidy(t \cup {op}, r)
  BY DEF Tidy

LEMMA TidyJoined ==
    ASSUME NEW t, NEW r, IsRecord(r), Tidy(t, r), NEW op
    PROVE  Tidy(t \cup {op}, Join(r, op))
  <1>1. CASE r.life \in Gone
    BY <1>1 DEF Tidy, Join
  <1>2. CASE r.life \notin Gone
    <2>1. Join(r, op).life = r.life /\ Join(r, op).blocks = r.blocks
      BY JoinIs
    <2> QED
      BY <1>2, <2>1 DEF Tidy
  <1> QED
    BY <1>1, <1>2

LEMMA TidyApplied ==
    ASSUME NEW t, NEW r, IsRecord(r), Tidy(t, r),
           NEW op, NEW g, op.act \in Acts, g.act = op.act, Id(g) = Id(op), g.dev = op.dev
    PROVE  Tidy(t \cup {op}, ApplyOne(r, g))
  <1> DEFINE q == ApplyOne(r, g)
             block == [id |-> Id(g), by |-> Actor[g.dev], lifted |-> FALSE]
  <1>1. \/ q.blocks = r.blocks \/ q.blocks = r.blocks \cup {block} \/ q.blocks = Lifted(r, g).blocks
    <2>1. CASE r.life = "none" /\ op.act # "add"
      BY <2>1, ApplyIs
    <2>2. CASE r.life # "none" \/ op.act = "add"
      <3>1. op.act = "block" => q.blocks = r.blocks \cup {block}
        BY <2>2, ApplyIs
      <3>2. op.act = "unblock" => q.blocks \in {r.blocks, Lifted(r, g).blocks}
        BY ApplyIs
      <3>3. op.act \notin {"block", "unblock"} => q.blocks = r.blocks
        BY ApplyIs
      <3> HIDE DEF q, block
      <3> QED
        BY <3>1, <3>2, <3>3
    <2> QED
      BY <2>1, <2>2
  <1>2. block.id = Id(op) /\ block.by = Actor[block.id[1]]
    BY DEF Id
  <1>3. \A b \in Lifted(r, g).blocks : \E a \in r.blocks : b.id = a.id /\ b.by = a.by
    <2>1. Lifted(r, g).blocks =
            {IF b.id = g.target /\ b.by = Actor[g.dev] THEN [id |-> b.id, by |-> b.by, lifted |-> TRUE]
             ELSE b : b \in r.blocks}
      BY DEF Lifted, IsRecord
    <2> QED
      BY <2>1
  <1>4. \A b \in q.blocks : b.by = Actor[b.id[1]] /\ \E x \in t \cup {op} : b.id = Id(x)
    <2> HIDE DEF q, block
    <2>1. \A b \in r.blocks : b.by = Actor[b.id[1]] /\ \E x \in t \cup {op} : b.id = Id(x)
      BY DEF Tidy
    <2>2. \A b \in Lifted(r, g).blocks : b.by = Actor[b.id[1]] /\ \E x \in t \cup {op} : b.id = Id(x)
      BY <1>3, <2>1
    <2> QED
      BY <1>1, <1>2, <2>1, <2>2
  <1>5. ASSUME q.life \in Gone PROVE q.lists = {}
    <2>1. CASE ~Applies(r, g)
      BY <1>5, <2>1 DEF ApplyOne, Tidy
    <2>2. CASE Applies(r, g)
      <3>1. q = Effect(r, g) /\ g.act \in Acts
        BY <2>2 DEF ApplyOne
      <3>2. CASE g.act = "add"
        <4>1. q.life = "active"
          BY <3>1, <3>2, ApplyIs
        <4> QED
          BY <1>5, <4>1 DEF Gone
      <3>3. CASE g.act \in {"remove", "archive"}
        BY <3>1, <3>3, EffectIs
      <3>4. CASE g.act \in {"block", "unblock"}
        <4>1. q.life = r.life /\ q.lists = r.lists
          BY <3>1, <3>4 DEF Effect, Lifted, IsRecord
        <4> QED
          BY <1>5, <4>1 DEF Tidy
      <3>5. CASE g.act = "unlink"
        <4>1. q = Unlinked(r, g.list) /\ r.life = "active"
          BY <2>2, <3>1, <3>5, EffectIs DEF Applies
        <4>2. r.lists # {g.list} => q.life = "active"
          BY <4>1, UnlinkedIs
        <4>3. q.lists = r.lists \ {g.list}
          BY <4>1, UnlinkedIs
        <4> QED
          BY <1>5, <4>2, <4>3 DEF Gone
      <3>6. CASE g.act \notin {"add", "remove", "archive", "block", "unblock", "unlink"}
        <4>1. r.life = "active"
          BY <2>2, <3>6 DEF Applies
        <4>2. q.life = r.life
          BY <3>1, <3>6, EffectIs
        <4> QED
          BY <1>5, <4>1, <4>2 DEF Gone
      <3> QED
        BY <3>2, <3>3, <3>4, <3>5, <3>6
    <2> QED
      BY <2>1, <2>2
  <1> HIDE DEF q
  <1>6. Tidy(t \cup {op}, q)
    BY <1>4, <1>5 DEF Tidy
  <1> QED
    BY <1>6 DEF q

LEMMA NoRecordTidy ==
    ASSUME NEW t
    PROVE  Tidy(t, NoRecord)
  BY DEF Tidy, NoRecord, Gone

LEMMA MetTidy ==
    ASSUME NEW S, Directory(S)
    PROVE  \A c \in Named(S) : Tidy(S, Met(S)[S].record[c])
  <1> DEFINE G == {t \in Histories(S) : \A c \in Named(S) : Tidy(t, Met(S)[t].record[c])}
  <1>1. {} \in G
    <2>1. Met(S)[{}] = Apart(S) /\ {} \in Histories(S)
      BY MetUnfolds DEF Directory, Histories
    <2>2. \A c \in Named(S) : Tidy({}, Apart(S).record[c])
      BY NoRecordTidy DEF Apart
    <2> QED
      BY <2>1, <2>2
  <1>2. ASSUME NEW t, NEW op, Follows(S, t, op), t \in G PROVE t \cup {op} \in G
    <2>1. t \in Histories(S) /\ t \cup {op} \in Histories(S) /\ op \in S /\ WellFormed(op) /\ op.act \in Acts
      BY <1>2 DEF Follows, Directory, WellFormed
    <2>2. Met(S)[t \cup {op}] = Meets(op, Met(S)[t]) /\ MetShape(S, Met(S)[t])
      BY <1>2, <2>1, MetStep, MetHolds DEF Directory, MetInv
    <2>3. ASSUME NEW c \in Named(S) PROVE Tidy(t \cup {op}, Meets(op, Met(S)[t]).record[c])
      <3>1. Tidy(t, Met(S)[t].record[c]) /\ IsRecord(Met(S)[t].record[c])
        BY <1>2, <2>2 DEF MetShape
      <3>2. Meets(op, Met(S)[t]).record[c] = IF c = op.contact THEN ApplyOne(Met(S)[t].record[c], op)
                                             ELSE Met(S)[t].record[c]
        BY <2>1, <2>2, MeetsRecord
      <3>3. Tidy(t \cup {op}, Met(S)[t].record[c])
        BY <3>1, TidyMore
      <3>4. Tidy(t \cup {op}, ApplyOne(Met(S)[t].record[c], op))
        BY <2>1, <3>1, TidyApplied
      <3> QED
        BY <3>2, <3>3, <3>4
    <2> QED
      BY <2>1, <2>2, <2>3
  <1>3. S \in G
    <2>1. S \in Histories(S)
      BY DEF Histories
    <2> HIDE DEF G
    <2> QED
      BY <1>1, <1>2, <2>1, HistoryInduction DEF Directory
  <1> QED
    BY <1>3

\* An item of a group is what an identity of one of its contacts became.
GroupItems(S, t, h, r) ==
    \A i \in r.items : \E op \in t :
        /\ op.act = "add-identity" /\ Canon(S)[op.contact] = h
        /\ i.item = ItemOf(S, Kin(S), op.contact, op.item)

LEMMA RetoldItem ==
    ASSUME NEW S, NEW op, WellFormed(op)
    PROVE  Retold(S, op).item = ItemOf(S, Kin(S), op.contact, op.item)
  <1> DEFINE moved == [op EXCEPT !.contact = Canon(S)[op.contact]]
  <1>1. moved = [dev |-> op.dev, num |-> op.num, clock |-> op.clock, act |-> op.act,
                 contact |-> Canon(S)[op.contact], item |-> op.item, key |-> op.key,
                 list |-> op.list, target |-> op.target]
    BY DEF WellFormed
  <1> HIDE DEF moved
  <1>2. \A x : [moved EXCEPT !.item = x].item = x
    BY <1>1
  <1>3. Retold(S, op) = [moved EXCEPT !.item = ItemOf(S, Kin(S), op.contact, op.item)]
    BY DEF Retold, moved
  <1> QED
    BY <1>2, <1>3

LEMMA ItemsApplied ==
    ASSUME NEW r, IsRecord(r), NEW g, g.act \in Acts, NEW i \in ApplyOne(r, g).items
    PROVE  i \in r.items \/ (g.act = "add-identity" /\ i.item = g.item)
  <1>1. CASE ~Applies(r, g)
    BY <1>1 DEF ApplyOne
  <1>2. CASE Applies(r, g)
    <2>1. ApplyOne(r, g) = Effect(r, g)
      BY <1>2 DEF ApplyOne
    <2>2. CASE g.act = "add"
      <3>1. Effect(r, g) = [Linked(r, g.list) EXCEPT !.life = "active"] /\ IsRecord(Linked(r, g.list))
        BY <2>2, EffectIs, LinkedIs
      <3>2. Effect(r, g).items = Linked(r, g.list).items
        BY <3>1 DEF IsRecord
      <3> QED
        BY <2>1, <3>2, LinkedIs
    <2>3. CASE g.act = "link"
      <3>1. Effect(r, g) = Linked(r, g.list)
        BY <2>3 DEF Effect
      <3>2. Linked(r, g.list).items = r.items
        BY LinkedIs
      <3> QED
        BY <2>1, <3>1, <3>2
    <2>4. CASE g.act = "unlink"
      <3>1. Effect(r, g) = Unlinked(r, g.list)
        BY <2>4 DEF Effect
      <3> QED
        BY <2>1, <3>1, UnlinkedIs
    <2>5. CASE g.act = "add-identity"
      <3>1. Effect(r, g).items = IF \E x \in r.items : x.key = g.key THEN r.items
                                 ELSE r.items \cup {[item |-> g.item, key |-> g.key]}
        BY <2>5 DEF Effect, WithKey, IsRecord
      <3> QED
        BY <2>1, <2>5, <3>1
    <2>6. CASE g.act = "remove-item"
      <3>1. Effect(r, g).items = {x \in r.items : x.item # g.item}
        BY <2>6 DEF Effect, IsRecord
      <3> QED
        BY <2>1, <3>1
    <2>7. CASE g.act \in {"remove", "archive", "block", "unblock", "origin"}
      <3>1. Effect(r, g).items = r.items
        BY <2>7 DEF Effect, Lifted, IsRecord
      <3> QED
        BY <2>1, <3>1
    <2> QED
      BY <2>2, <2>3, <2>4, <2>5, <2>6, <2>7 DEF Acts
  <1> QED
    BY <1>1, <1>2

LEMMA GroupTidy ==
    ASSUME NEW S, Directory(S)
    PROVE  \A h \in Heads(S) : Tidy(S, Regroup(S)[S][h]) /\ GroupItems(S, S, h, Regroup(S)[S][h])
  <1> DEFINE Fine(t, h) == Tidy(t, Regroup(S)[t][h]) /\ GroupItems(S, t, h, Regroup(S)[t][h])
             G == {t \in Histories(S) : \A h \in Heads(S) : Fine(t, h)}
  <1>1. {} \in G
    <2>1. Regroup(S)[{}] = Bare(S) /\ {} \in Histories(S)
      BY RegroupUnfolds DEF Directory, Histories
    <2>2. \A h \in Heads(S) : Tidy({}, Bare(S)[h]) /\ GroupItems(S, {}, h, Bare(S)[h])
      BY NoRecordTidy DEF Bare, NoRecord, GroupItems
    <2> QED
      BY <2>1, <2>2
  <1>2. ASSUME NEW t, NEW op, Follows(S, t, op), t \in G PROVE t \cup {op} \in G
    <2> DEFINE old == Regroup(S)[t]
               next == Regroup(S)[t \cup {op}]
               c == Canon(S)[op.contact]
    <2>1. t \in Histories(S) /\ t \cup {op} \in Histories(S) /\ op \in S /\ WellFormed(op) /\ op.act \in Acts
      BY <1>2 DEF Follows, Directory, WellFormed
    <2>2. next = GroupStep(S, Kin(S), Canon(S), old, op)
      BY <1>2, RegroupUnfolds DEF Directory
    <2>3. Regrouped(S, old)
      BY <2>1, GroupAt DEF GroupInv
    <2>4. /\ \A h \in Heads(S) : h # c => next[h] = old[h]
          /\ next[c] = IF Joins(S, op) THEN Join(old[c], op) ELSE ApplyOne(old[c], Retold(S, op))
          /\ c \in Heads(S)
      BY <2>1, <2>2, <2>3, GroupStepIs DEF Regrouped
    <2>5. \A h \in Heads(S) : Tidy(t, old[h]) /\ GroupItems(S, t, h, old[h]) /\ IsRecord(old[h])
      BY <1>2, <2>3 DEF Regrouped
    <2>6. /\ Retold(S, op).act = op.act /\ Id(Retold(S, op)) = Id(op) /\ Retold(S, op).dev = op.dev
          /\ Retold(S, op).item = ItemOf(S, Kin(S), op.contact, op.item)
      BY <2>1, RetoldIs, RetoldItem
    <2> HIDE DEF old, next
    <2>7. Tidy(t \cup {op}, next[c])
      <3> HIDE DEF c
      <3> QED
        BY <2>1, <2>4, <2>5, <2>6, TidyJoined, TidyApplied
    <2>8. GroupItems(S, t \cup {op}, c, next[c])
      <3>1. ASSUME NEW i \in next[c].items
            PROVE  \/ i \in old[c].items
                   \/ op.act = "add-identity" /\ i.item = ItemOf(S, Kin(S), op.contact, op.item)
        <4>1. CASE Joins(S, op)
          <5>1. next[c] = Join(old[c], op) /\ IsRecord(old[c])
            BY <2>4, <2>5, <4>1
          <5>2. next[c] = old[c] \/ next[c] = Linked(old[c], op.list)
            BY <5>1 DEF Join
          <5>3. Linked(old[c], op.list).items = old[c].items
            BY <5>1, LinkedIs
          <5> QED
            BY <3>1, <5>2, <5>3
        <4>2. CASE ~Joins(S, op)
          <5>1. i \in ApplyOne(old[c], Retold(S, op)).items /\ IsRecord(old[c]) /\ Retold(S, op).act \in Acts
            BY <2>1, <2>4, <2>5, <2>6, <3>1, <4>2
          <5> QED
            BY <2>6, <5>1, ItemsApplied
        <4> QED
          BY <4>1, <4>2
      <3>2. GroupItems(S, t, c, old[c]) /\ Canon(S)[op.contact] = c
        BY <2>4, <2>5
      <3> HIDE DEF c
      <3>3. ASSUME NEW i \in next[c].items
            PROVE  \E x \in t \cup {op} : /\ x.act = "add-identity" /\ Canon(S)[x.contact] = c
                                        /\ i.item = ItemOf(S, Kin(S), x.contact, x.item)
        BY <3>1, <3>2 DEF GroupItems
      <3> QED
        BY <3>3 DEF GroupItems
    <2>9. ASSUME NEW h \in Heads(S), h # c
          PROVE  Tidy(t \cup {op}, next[h]) /\ GroupItems(S, t \cup {op}, h, next[h])
      <3>1. next[h] = old[h] /\ Tidy(t, old[h]) /\ GroupItems(S, t, h, old[h])
        BY <2>4, <2>5, <2>9
      <3> HIDE DEF c
      <3>2. Tidy(t \cup {op}, next[h])
        BY <3>1, TidyMore
      <3>3. GroupItems(S, t \cup {op}, h, next[h])
        BY <3>1 DEF GroupItems
      <3> QED
        BY <3>2, <3>3
    <2>10. \A h \in Heads(S) : Fine(t \cup {op}, h)
      <3> HIDE DEF c
      <3> QED
        BY <2>7, <2>8, <2>9 DEF next
    <2> QED
      BY <2>1, <2>10
  <1>3. S \in G
    <2>1. S \in Histories(S)
      BY DEF Histories
    <2> HIDE DEF G
    <2> QED
      BY <1>1, <1>2, <2>1, HistoryInduction DEF Directory
  <1> QED
    BY <1>3

-----------------------------------------------------------------------------
(* Views.                                                                  *)

Apiece(S) == \A c \in Named(S) : Canon(S)[c] = c

\* With no contact merged a view shows the first replay, and the second otherwise.
LEMMA ViewRecords ==
    ASSUME NEW S, Directory(S)
    PROVE  /\ View(S).canon = Canon(S) /\ DOMAIN Canon(S) = Named(S)
           /\ Apiece(S) => View(S).record = [c \in Named(S) |-> Met(S)[S].record[c]]
           /\ ~Apiece(S) => View(S).record = Regroup(S)[S]
  <1>1. View(S) = Merged(S, Met(S)[S], Canon(S)) /\ DOMAIN Canon(S) = Named(S)
    BY ViewIs DEF Canon
  <1>2. View(S).canon = Canon(S)
    BY <1>1 DEF Merged
  <1>3. ASSUME Apiece(S) PROVE View(S).record = [c \in Named(S) |-> Met(S)[S].record[c]]
    BY <1>1, <1>3 DEF Merged, Apiece
  <1>4. ASSUME ~Apiece(S) PROVE View(S).record = Regroup(S)[S]
    <2>1. View(S).record = Grouped(S, Kin(S), Canon(S))
      BY <1>1, <1>4 DEF Merged, Kin, Apiece
    <2> QED
      BY <2>1, GroupedIs
  <1> QED
    BY <1>1, <1>2, <1>3, <1>4

LEMMA ViewRecordOf ==
    ASSUME NEW S, Directory(S), NEW c \in Named(S)
    PROVE  /\ RecordOf(View(S), c) = IF Apiece(S) THEN Met(S)[S].record[c] ELSE Regroup(S)[S][Canon(S)[c]]
           /\ Canon(S)[c] \in DOMAIN View(S).record
           /\ View(S).record[Canon(S)[c]] = RecordOf(View(S), c)
           /\ Canon(S)[c] \in Heads(S)
  <1>1. Canon(S)[c] \in Heads(S) /\ Canon(S)[c] \in Named(S)
    BY CanonIs DEF Heads
  <1>2. CASE Apiece(S)
    <2>1. View(S).record = [d \in Named(S) |-> Met(S)[S].record[d]] /\ View(S).canon = Canon(S)
      BY <1>2, ViewRecords
    <2>2. Canon(S)[c] = c
      BY <1>2 DEF Apiece
    <2> QED
      BY <1>1, <1>2, <2>1, <2>2 DEF RecordOf
  <1>3. CASE ~Apiece(S)
    <2>1. Regroup(S)[S] = [h \in Heads(S) |-> Regroup(S)[S][h]]
      BY GroupHolds DEF GroupInv, Regrouped
    <2> QED
      BY <1>1, <1>3, <2>1, ViewRecords DEF RecordOf
  <1> QED
    BY <1>2, <1>3

\* What every record of a view is like.
LEMMA ViewTidy ==
    ASSUME NEW S, Directory(S), NEW c \in Named(S)
    PROVE  LET r == RecordOf(View(S), c) IN
           IsRecord(r) /\ Tidy(S, r) /\ r.life # "none"
  <1>1. CASE Apiece(S)
    <2>1. RecordOf(View(S), c) = Met(S)[S].record[c]
      BY <1>1, ViewRecordOf
    <2>2. MetShape(S, Met(S)[S]) /\ MetAdded(S, S, Met(S)[S])
      BY WholeHolds DEF MetInv
    <2>3. IsRecord(Met(S)[S].record[c])
      BY <2>2 DEF MetShape
    <2>4. Met(S)[S].record[c].life # "none"
      BY <2>2, AllAdded DEF MetAdded
    <2> QED
      BY <2>1, <2>3, <2>4, MetTidy
  <1>2. CASE ~Apiece(S)
    <2> DEFINE h == Canon(S)[c]
    <2>1. RecordOf(View(S), c) = Regroup(S)[S][h] /\ h \in Heads(S)
      BY <1>2, ViewRecordOf
    <2>2. PICK op \in S : op.contact = c
      BY DEF Named
    <2>3. IsRecord(Regroup(S)[S][h]) /\ Regroup(S)[S][h].life # "none"
      BY <2>1, <2>2, GroupHolds DEF GroupInv, Regrouped, GroupAdded
    <2> QED
      BY <2>1, <2>3, GroupTidy
  <1> QED
    BY <1>1, <1>2

\* No two operations have one name.
Distinct(S) == \A a, b \in S : Id(a) = Id(b) => a = b

\* An item that a group still shows is called what it was.
LEMMA ItemShown ==
    ASSUME NEW S, Directory(S), Distinct(S), NEW c \in Named(S),
           NEW i \in Regroup(S)[S][Canon(S)[c]].items
    PROVE  ItemOf(S, Kin(S), c, i.item) = i.item
  <1> DEFINE named(d, item) == {op \in S : op.act = "add-identity" /\ op.contact = d /\ op.item = item}
             of(d, item) == {op \in S : op.act = "add-identity" /\ op.contact \in Kin(S)[d]
                                        /\ op.key \in {n.key : n \in named(d, item)}}
  <1>1. \A d, item : ItemOf(S, Kin(S), d, item) =
            IF named(d, item) = {} THEN item ELSE Earliest(of(d, item)).item
    BY DEF ItemOf
  <1>2. \A a, b \in S : a.act = "add-identity" /\ b.act = "add-identity" /\ a.item = b.item => a = b
    BY DEF Distinct, Directory, WellFormed
  <1>3. CASE named(c, i.item) = {}
    <2> HIDE DEF of, named
    <2> QED
      BY <1>1, <1>3
  <1>4. CASE named(c, i.item) # {}
    <2>1. PICK x \in S : x.act = "add-identity" /\ x.contact = c /\ x.item = i.item
      BY <1>4
    <2>2. Canon(S)[c] \in Heads(S)
      BY DEF Heads
    <2>3. PICK op \in S : /\ op.act = "add-identity" /\ Canon(S)[op.contact] = Canon(S)[c]
                          /\ i.item = ItemOf(S, Kin(S), op.contact, op.item)
      BY <2>2, GroupTidy DEF GroupItems
    <2>4. op.contact \in Named(S) /\ Kin(S)[op.contact] = Kin(S)[c]
      <3>1. op.contact \in Named(S)
        BY DEF Named
      <3>2. op.contact \in Kin(S)[c]
        BY <2>3, <3>1, CanonIs
      <3> QED
        BY <3>1, <3>2, CanonIs
    <2>5. named(op.contact, op.item) = {op}
      BY <1>2, <2>3
    <2>6. named(c, i.item) = {x}
      BY <1>2, <2>1
    <2>7. op \in of(op.contact, op.item)
      BY <2>3, <2>4, <2>5, CanonIs
    <2> DEFINE e == Earliest(of(op.contact, op.item))
    <2>8. e \in of(op.contact, op.item)
      <3>1. of(op.contact, op.item) \subseteq S
        OBVIOUS
      <3> HIDE DEF of, named
      <3> QED
        BY <2>7, <3>1, EarliestIs DEF Directory
    <2>9. i.item = e.item
      <3> HIDE DEF of
      <3> QED
        BY <1>1, <2>3, <2>5
    <2>10. e \in S /\ e.act = "add-identity" /\ e.key = op.key
      <3>1. e.key \in {n.key : n \in named(op.contact, op.item)} /\ e \in S /\ e.act = "add-identity"
        BY <2>8
      <3> HIDE DEF e, of, named
      <3> QED
        BY <2>5, <3>1
    <2>11. e = x
      <3> HIDE DEF e, of, named
      <3> QED
        BY <1>2, <2>1, <2>9, <2>10
    <2>12. of(c, i.item) = of(op.contact, op.item)
      <3>1. {n.key : n \in named(c, i.item)} = {op.key}
        <4> HIDE DEF e, of, named
        <4> QED
          BY <2>6, <2>10, <2>11
      <3>2. {n.key : n \in named(op.contact, op.item)} = {op.key}
        <4> HIDE DEF e, of, named
        <4> QED
          BY <2>5
      <3> HIDE DEF e, named
      <3> QED
        BY <2>4, <3>1, <3>2
    <2> HIDE DEF of, named
    <2> QED
      BY <1>1, <1>4, <2>9, <2>12 DEF e
  <1> QED
    BY <1>3, <1>4

\* An operation that comes after all others is told last, to what its contact has become.
LEMMA LastTold ==
    ASSUME NEW S, NEW op, op \notin S, Extends(S, S \cup {op}), KinStays(S, S \cup {op}), Distinct(S),
           op.contact \in Named(S)
    PROVE  LET old == RecordOf(View(S), op.contact) IN
           \E r, g : /\ RecordOf(View(S \cup {op}), op.contact) = ApplyOne(r, g)
                     /\ Likewise(old, r) /\ (op.act # "add-identity" => r = old)
                     /\ g.act = op.act /\ g.list = op.list /\ g.key = op.key /\ g.target = op.target
                     /\ g.dev = op.dev /\ Id(g) = Id(op)
                     /\ op.act = "remove-item" => \A i \in r.items : i.item = op.item => g.item = op.item
  <1> DEFINE N == S \cup {op}
             c == op.contact
             old == RecordOf(View(S), c)
  <1>1. Directory(S) /\ Directory(N) /\ WellFormed(op) /\ op \in N /\ S \subseteq N /\ N \ S = {op}
    BY DEF Extends, Directory
  <1>2. Follows(N, S, op) /\ S \in Histories(N)
    <2>1. S \in Histories(N) /\ N \in Histories(N)
      BY ExtendsHistories DEF Histories
    <2> QED
      BY <2>1 DEF Follows, Extends
  <1>3. c \in Named(N) /\ Named(N) = Named(S) /\ Canon(N)[c] = Canon(S)[c] /\ ~Joins(N, op)
    <2>1. c \in Named(N) /\ Canon(N)[c] = Canon(S)[c] /\ Earliest(AddsOf(N, c)) \in S
      BY CanonStays
    <2>2. Named(N) = Named(S)
      BY DEF Named
    <2> QED
      BY <2>1, <2>2 DEF Joins
  <1>4. Apiece(N) <=> Apiece(S)
    BY <1>3, CanonStays DEF Apiece
  <1>5. CASE Apiece(S)
    <2> DEFINE r == Met(N)[S].record[c]
    <2>1. RecordOf(View(N), c) = Met(N)[N].record[c] /\ old = Met(S)[S].record[c]
      BY <1>1, <1>3, <1>4, <1>5, ViewRecordOf
    <2>2. Met(N)[N].record[c] = ApplyOne(r, op)
      <3>1. Met(N)[N] = Meets(op, Met(N)[S]) /\ MetShape(N, Met(N)[S])
        BY <1>1, <1>2, MetStep, MetHolds DEF Directory, MetInv
      <3> QED
        BY <1>1, <1>3, <3>1, MeetsRecord
    <2>3. r = old /\ IsRecord(old)
      BY <1>1, <2>1, MetAlike, ViewTidy DEF Alike
    <2>4. Likewise(old, r)
      BY <2>3 DEF Likewise
    <2> HIDE DEF r, old, N, c
    <2> QED
      BY <2>1, <2>2, <2>3, <2>4 DEF c, N, old
  <1>6. CASE ~Apiece(S)
    <2> DEFINE h == Canon(S)[c]
               r == Regroup(N)[S][h]
               g == Retold(N, op)
    <2>1. /\ RecordOf(View(N), c) = Regroup(N)[N][h] /\ old = Regroup(S)[S][h]
          /\ h \in Heads(S) /\ h \in Heads(N)
      BY <1>1, <1>3, <1>4, <1>6, ViewRecordOf
    <2>2. GroupAlike(S, N, Regroup(S)[S], Regroup(N)[S]) /\ Regrouped(N, Regroup(N)[S])
      BY RegroupAlike
    <2>3. Regroup(N)[N][h] = ApplyOne(r, g)
      <3>1. Regroup(N)[N] = GroupStep(N, Kin(N), Canon(N), Regroup(N)[S], op)
        BY <1>1, <1>2, RegroupUnfolds DEF Directory
      <3>2. Canon(N)[op.contact] = h /\ op \in N /\ ~Joins(N, op)
        BY <1>1, <1>3
      <3> DEFINE records == Regroup(N)[S]
                 next == GroupStep(N, Kin(N), Canon(N), records, op)
      <3>3. records = [x \in Heads(N) |-> records[x]]
        BY <2>2 DEF Regrouped
      <3> HIDE DEF N, records, h
      <3>4. next[h] = IF Joins(N, op) THEN Join(records[h], op) ELSE ApplyOne(records[h], Retold(N, op))
        BY <3>2, <3>3, GroupStepIs
      <3> QED
        BY <3>1, <3>2, <3>4 DEF records
    <2>4. Likewise(old, r) /\ (op.act # "add-identity" => r = old)
      BY <1>1, <2>1, <2>2 DEF GroupAlike
    <2>5. /\ g.act = op.act /\ g.list = op.list /\ g.key = op.key /\ g.target = op.target
          /\ g.dev = op.dev /\ Id(g) = Id(op)
      BY <1>1, RetoldIs
    <2>6. ASSUME op.act = "remove-item", NEW i \in r.items, i.item = op.item PROVE g.item = op.item
      <3>1. g.item = ItemOf(N, Kin(N), c, op.item)
        BY <1>1, RetoldItem
      <3>2. ItemOf(N, Kin(N), c, op.item) = ItemOf(S, Kin(S), c, op.item)
        BY <1>1, <2>6, ItemStays
      <3>3. i \in Regroup(S)[S][Canon(S)[c]].items
        BY <2>1, <2>4, <2>6
      <3>4. ItemOf(S, Kin(S), c, i.item) = i.item
        BY <1>1, <3>3, ItemShown
      <3> QED
        BY <2>6, <3>1, <3>2, <3>4
    <2> HIDE DEF r, g, old, N, c, h
    <2> QED
      BY <2>1, <2>3, <2>4, <2>5, <2>6 DEF c, N, old
  <1> QED
    BY <1>5, <1>6

-----------------------------------------------------------------------------
(* What a call shows.                                                      *)

Edited == {"remove", "archive", "block", "unblock", "link", "unlink", "add-identity", "remove-item"}

\* The operation that does what an edit asks for.
Asked(t, op) ==
    /\ t.kind \in Edited /\ op.act = t.kind
    /\ op.contact = t.contact /\ op.list = t.list /\ op.key = t.key /\ op.target = t.target
    /\ t.kind # "add-identity" => op.item = t.item

\* What an operation that does what an edit asks for does to the record of its
\* contact.
LEMMA EffectGrants ==
    ASSUME NEW S, NEW op, \A x \in S : Id(x) # Id(op), NEW t, Asked(t, op),
           t.kind = "link" => t.list # "none",
           t.kind = "unblock" => Actor[t.target[1]] = Actor[op.dev],
           NEW old, IsRecord(old), Tidy(S, old), old.life # "none",
           NEW r, Likewise(old, r), op.act # "add-identity" => r = old,
           NEW g, g.act = op.act, g.list = op.list, g.key = op.key, g.target = op.target,
           g.dev = op.dev, Id(g) = Id(op),
           op.act = "remove-item" => \A i \in r.items : i.item = op.item => g.item = op.item,
           NEW new, new = ApplyOne(r, g)
    PROVE  Granted(t, old, new)
  <1>1. op.contact = t.contact /\ op.act = t.kind /\ t.kind \in Edited
    BY DEF Asked
  <1>2. /\ new = ApplyOne(r, g)
        /\ Likewise(old, r) /\ (op.act # "add-identity" => r = old)
        /\ g.act = op.act /\ g.list = op.list /\ g.key = op.key /\ g.target = op.target
        /\ g.dev = op.dev /\ Id(g) = Id(op)
        /\ op.act = "remove-item" => \A i \in r.items : i.item = op.item => g.item = op.item
    OBVIOUS
  <1>3. /\ IsRecord(old) /\ Tidy(S, old) /\ old.life # "none"
    OBVIOUS
  <1>4. /\ IsRecord(r) /\ r.life = old.life /\ r.lists = old.lists
        /\ r.life \in {"active", "removed", "archived"}
    BY <1>2, <1>3 DEF Likewise, IsRecord, Lives
  <1>5. g.act = t.kind /\ g.act \in Acts
    BY <1>1, <1>2 DEF Edited, Acts
  <1>6. Applies(r, g) => new = Effect(r, g)
    BY <1>2 DEF ApplyOne
  <1>7. ~Applies(r, g) => new = r
    BY <1>2 DEF ApplyOne
  <1>8. r.life = "active" => Applies(r, g)
    BY DEF Applies
  <1>9. CASE t.kind \in {"remove", "archive"}
    <2>1. new.life \in Gone
      BY <1>4, <1>5, <1>6, <1>7, <1>8, <1>9, EffectIs DEF Gone
    <2> QED
      BY <1>9, <2>1 DEF Granted
  <1>10. CASE t.kind = "block"
    <2> DEFINE b == [id |-> Id(op), by |-> Actor[op.dev], lifted |-> FALSE]
    <2>1. b \in new.blocks
      <3>1. ApplyOne(r, g).blocks = r.blocks \cup {[id |-> Id(g), by |-> Actor[g.dev], lifted |-> FALSE]}
        BY <1>4, <1>5, <1>10, ApplyIs
      <3> QED
        BY <1>2, <3>1
    <2>2. b \notin old.blocks /\ ~b.lifted
      BY <1>3 DEF Tidy
    <2> HIDE DEF b
    <2>3. \E x \in new.blocks : ~x.lifted /\ x \notin old.blocks
      BY <2>1, <2>2
    <2> QED
      BY <1>10, <2>3 DEF Granted
  <1>11. CASE t.kind = "unblock"
    <2>1. new.blocks = {IF b.id = t.target /\ b.by = Actor[op.dev]
                        THEN [id |-> b.id, by |-> b.by, lifted |-> TRUE] ELSE b : b \in r.blocks}
      <3>1. Applies(r, g)
        BY <1>4, <1>5, <1>11 DEF Applies, Gone
      <3>2. new.blocks = Lifted(r, g).blocks
        BY <1>4, <1>5, <1>6, <1>11, <3>1, EffectIs
      <3>3. g.target = t.target /\ g.dev = op.dev
        BY <1>2 DEF Asked
      <3>4. Lifted(r, g).blocks = {IF b.id = g.target /\ b.by = Actor[g.dev]
                        THEN [id |-> b.id, by |-> b.by, lifted |-> TRUE] ELSE b : b \in r.blocks}
        BY <1>4 DEF Lifted, IsRecord
      <3> QED
        BY <3>2, <3>3, <3>4
    <2>2. \A b \in r.blocks : b.id = t.target => b.by = Actor[op.dev]
      BY <1>1, <1>2, <1>3, <1>11 DEF Tidy
    <2>3. \A b \in new.blocks : b.id = t.target => b.lifted
      BY <2>1, <2>2
    <2> QED
      BY <1>11, <2>3 DEF Granted
  <1>12. CASE t.kind = "link"
    <2>1. ASSUME old.life = "active" PROVE t.list \in new.lists
      <3>1. new = Linked(r, t.list)
        BY <1>2, <1>4, <1>5, <1>6, <1>8, <1>12, <2>1 DEF Effect, Asked
      <3>2. Linked(r, t.list).lists = IF t.list = "none" THEN r.lists ELSE r.lists \cup {t.list}
        BY <1>4, LinkedIs
      <3> QED
        BY <1>12, <3>1, <3>2
    <2> QED
      BY <1>12, <2>1 DEF Granted
  <1>13. CASE t.kind = "unlink"
    <2>1. CASE r.life = "active"
      <3>1. new = Unlinked(r, t.list)
        BY <1>2, <1>5, <1>6, <1>8, <1>13, <2>1 DEF Effect, Asked
      <3>2. Unlinked(r, t.list).lists = r.lists \ {t.list}
        BY <1>4, UnlinkedIs
      <3> QED
        BY <1>13, <3>1, <3>2 DEF Granted
    <2>2. CASE r.life # "active"
      <3>1. new = r
        BY <1>5, <1>7, <1>13, <2>2 DEF Applies
      <3>2. r.lists = {}
        BY <1>3, <1>4, <2>2 DEF Tidy, Gone
      <3> QED
        BY <1>13, <3>1, <3>2 DEF Granted
    <2> QED
      BY <2>1, <2>2
  <1>14. CASE t.kind = "add-identity"
    <2>1. ASSUME old.life = "active" PROVE t.key \in KeysHeld(new)
      <3>1. new = WithKey(r, g) /\ g.key = t.key
        BY <1>2, <1>4, <1>5, <1>6, <1>8, <1>14, <2>1 DEF Effect, Asked
      <3>2. new.items = IF \E x \in r.items : x.key = t.key THEN r.items
                        ELSE r.items \cup {[item |-> g.item, key |-> t.key]}
        BY <1>4, <3>1 DEF WithKey, IsRecord
      <3> QED
        BY <3>2 DEF KeysHeld
    <2> QED
      BY <1>14, <2>1 DEF Granted
  <1>15. CASE t.kind = "remove-item"
    <2>1. ASSUME old.life = "active", NEW i \in new.items PROVE i.item # t.item
      <3>1. new.items = {x \in r.items : x.item # g.item}
        BY <1>4, <1>5, <1>6, <1>8, <1>15, <2>1 DEF Effect, IsRecord
      <3>2. \A x \in r.items : x.item = t.item => g.item = t.item
        BY <1>1, <1>2, <1>15 DEF Asked
      <3> QED
        BY <2>1, <3>1, <3>2
    <2> QED
      BY <1>15, <2>1 DEF Granted
  <1> QED
    BY <1>1, <1>9, <1>10, <1>11, <1>12, <1>13, <1>14, <1>15 DEF Edited

(* An edit that comes after all a directory has does what it asks for, to   *)
(* what its contact has become: nothing outranks it, and it is told of the  *)
(* item and to the contact that the ones it names are now.  It may do       *)
(* otherwise only where it makes contacts one.                              *)
THEOREM DirectoryGrants ==
    ASSUME NEW S, NEW op, op \notin S, Extends(S, S \cup {op}), Distinct(S), \A x \in S : Id(x) # Id(op),
           NEW t, Asked(t, op), t.contact \in Named(S),
           t.kind = "link" => t.list # "none",
           t.kind = "unblock" => Actor[t.target[1]] = Actor[op.dev],
           ~Joined(View(S), View(S \cup {op}))
    PROVE  Granted(t, RecordOf(View(S), t.contact), RecordOf(View(S \cup {op}), t.contact))
  <1> DEFINE old == RecordOf(View(S), op.contact)
             new == RecordOf(View(S \cup {op}), op.contact)
  <1>1. KinStays(S, S \cup {op}) /\ op.contact = t.contact
    BY KinStaysApart DEF Asked
  <1>2. \E r, g : /\ new = ApplyOne(r, g)
                  /\ Likewise(old, r) /\ (op.act # "add-identity" => r = old)
                  /\ g.act = op.act /\ g.list = op.list /\ g.key = op.key /\ g.target = op.target
                  /\ g.dev = op.dev /\ Id(g) = Id(op)
                  /\ op.act = "remove-item" => \A i \in r.items : i.item = op.item => g.item = op.item
    BY <1>1, LastTold
  <1>3. /\ IsRecord(old) /\ Tidy(S, old) /\ old.life # "none"
    BY <1>1, ViewTidy DEF Extends
  <1> HIDE DEF old, new
  <1>4. Granted(t, old, new)
    BY <1>2, <1>3, EffectGrants
  <1> QED
    BY <1>1, <1>4 DEF old, new

\* What a view lists, it lists under the id that leads there.
LEMMA ShownRecord ==
    ASSUME NEW S, Directory(S), NEW c \in DOMAIN View(S).record
    PROVE  c \in Named(S) /\ Canon(S)[c] = c /\ View(S).record[c] = RecordOf(View(S), c)
  <1>1. c \in Named(S) /\ Canon(S)[c] = c
    <2>1. CASE Apiece(S)
      <3>1. c \in Named(S)
        BY <2>1, ViewRecords
      <3> QED
        BY <2>1, <3>1 DEF Apiece
    <2>2. CASE ~Apiece(S)
      <3>1. Regroup(S)[S] = [h \in Heads(S) |-> Regroup(S)[S][h]]
        BY GroupHolds DEF GroupInv, Regrouped
      <3>2. c \in Heads(S)
        BY <2>2, <3>1, ViewRecords
      <3> QED
        BY <3>2, CanonIs DEF Heads
    <2> QED
      BY <2>1, <2>2
  <1> QED
    BY <1>1, ViewRecordOf

(* A key that some contact of a directory has is recognised by one          *)
(* operation: that contact is put on the list, and comes back if it had     *)
(* been deleted.                                                            *)
THEOREM DirectoryRecognises ==
    ASSUME NEW S, NEW op, op \notin S, Extends(S, S \cup {op}), Distinct(S),
           NEW t, t.list # "none", op.list = t.list,
           op.contact \in DOMAIN View(S).record, t.key \in KeysHeld(View(S).record[op.contact]),
           op.act = IF View(S).record[op.contact].life \in Gone THEN "add" ELSE "link"
    PROVE  \E c \in DOMAIN View(S \cup {op}).record : Recognises(t, View(S \cup {op}).record[c])
  <1> DEFINE N == S \cup {op}
             c == op.contact
             old == RecordOf(View(S), c)
             new == RecordOf(View(N), c)
  <1>1. Directory(S) /\ Directory(N)
    BY DEF Extends
  <1>2. c \in Named(S)
    BY <1>1, ShownRecord
  <1>3. View(S).record[c] = old
    BY <1>1, ShownRecord
  <1>4. op.act # "add-identity" /\ op.act # "remove-item" /\ KinStays(S, N)
    BY KinStaysBut
  <1> HIDE DEF old, new
  <1>5. PICK r, g : new = ApplyOne(r, g) /\ r = old /\ g.act = op.act /\ g.list = op.list
    <2>1. \E r, g : /\ new = ApplyOne(r, g)
                    /\ Likewise(old, r) /\ (op.act # "add-identity" => r = old)
                    /\ g.act = op.act /\ g.list = op.list /\ g.key = op.key /\ g.target = op.target
                    /\ g.dev = op.dev /\ Id(g) = Id(op)
                    /\ op.act = "remove-item" => \A i \in r.items : i.item = op.item => g.item = op.item
      BY <1>2, <1>4, LastTold DEF old, new
    <2> QED
      BY <1>4, <2>1
  <1>6. IsRecord(old) /\ old.life # "none"
    BY <1>1, <1>2, ViewTidy DEF old
  <1>7. c \in Named(N) /\ Canon(N)[c] \in DOMAIN View(N).record /\ View(N).record[Canon(N)[c]] = new
    BY <1>1, <1>2, <1>4, CanonStays, ViewRecordOf DEF new
  <1>8. Applies(old, g) /\ (op.act = "add" \/ (op.act = "link" /\ old.life = "active"))
    BY <1>3, <1>5, <1>6 DEF Applies, IsRecord, Lives, Gone
  <1>9. new = Effect(old, g)
    BY <1>5, <1>8 DEF ApplyOne
  <1>10. /\ IsRecord(Linked(old, t.list)) /\ Linked(old, t.list).items = old.items
         /\ t.list \in Linked(old, t.list).lists /\ Linked(old, t.list).life = old.life
    BY <1>6, LinkedIs
  <1>11. new.life = "active" /\ new.items = old.items /\ t.list \in new.lists
    <2>1. CASE op.act = "add"
      <3>1. new = [Linked(old, t.list) EXCEPT !.life = "active"]
        BY <1>5, <1>6, <1>9, <2>1, EffectIs DEF Acts
      <3> QED
        BY <1>10, <3>1 DEF IsRecord
    <2>2. CASE op.act = "link"
      <3>1. new = Linked(old, t.list)
        BY <1>5, <1>9, <2>2 DEF Effect
      <3> QED
        BY <1>8, <1>10, <2>2, <3>1
    <2> QED
      BY <1>8, <2>1, <2>2
  <1>12. Recognises(t, new)
    BY <1>3, <1>11 DEF Recognises, KeysHeld
  <1> QED
    BY <1>7, <1>12

\* A contact that others do not turn out to be one with is one by itself.
LEMMA KinOfNew ==
    ASSUME NEW S, NEW N, Extends(S, N), KinStays(S, N), NEW c \in Named(N) \ Named(S),
           Named(N) \subseteq Named(S) \cup {c}
    PROVE  Kin(N)[c] = {c}
  <1>1. Directory(S) /\ Directory(N) /\ Named(S) \subseteq Named(N)
    BY ExtendsHistories DEF Extends
  <1>2. /\ c \in Kin(N)[c] /\ Kin(N)[c] \subseteq Named(N)
        /\ \A x \in Kin(N)[c] : Kin(N)[x] = Kin(N)[c]
    BY <1>1, CanonIs
  <1>3. ASSUME NEW x \in Kin(N)[c], x \in Named(S) PROVE FALSE
    <2>1. Kin(S)[x] \subseteq Named(S) /\ Kin(N)[x] = Kin(S)[x]
      BY <1>1, <1>3, CanonIs DEF KinStays
    <2> QED
      BY <1>2, <1>3, <2>1
  <1> QED
    BY <1>2, <1>3

\* An add that comes last gives its contact a record on its list.
LEMMA AddGives ==
    ASSUME NEW r, IsRecord(r), NEW g, g.act = "add", g.list # "none"
    PROVE  ApplyOne(r, g).life = "active" /\ g.list \in ApplyOne(r, g).lists
  <1>1. ApplyOne(r, g) = [Linked(r, g.list) EXCEPT !.life = "active"]
    BY EffectIs DEF ApplyOne, Applies, Acts
  <1>2. /\ IsRecord(Linked(r, g.list))
        /\ Linked(r, g.list).lists = IF g.list = "none" THEN r.lists ELSE r.lists \cup {g.list}
    BY LinkedIs
  <1> QED
    BY <1>1, <1>2 DEF IsRecord

\* The first operation about a contact that a directory does not name.
LEMMA FirstTold ==
    ASSUME NEW S, NEW op, op \notin S, Extends(S, S \cup {op}), op.contact \notin Named(S),
           op.act = "add", op.list # "none"
    PROVE  LET new == RecordOf(View(S \cup {op}), op.contact) IN
           new.life = "active" /\ op.list \in new.lists
  <1> DEFINE N == S \cup {op}
             c == op.contact
  <1>1. Directory(S) /\ Directory(N) /\ WellFormed(op) /\ op \in N /\ S \subseteq N /\ N \ S = {op}
    BY DEF Extends, Directory
  <1>2. Follows(N, S, op) /\ S \in Histories(N)
    <2>1. S \in Histories(S)
      BY DEF Histories
    <2>2. S \in Histories(N)
      BY <2>1, ExtendsHistories
    <2>3. N \in Histories(N) /\ \A x \in S : Before(x, op)
      BY <1>1 DEF Histories, Extends
    <2> QED
      BY <1>1, <2>2, <2>3 DEF Follows
  <1>3. c \in Named(N) /\ Named(N) \subseteq Named(S) \cup {c} /\ KinStays(S, N)
    BY KinStaysBut DEF Named
  <1>4. Kin(N)[c] = {c}
    BY <1>3, KinOfNew
  <1>5. Canon(N)[c] = c /\ c \in Heads(N)
    <2>1. Canon(N)[c] \in Kin(N)[c]
      BY <1>1, <1>3, CanonIs
    <2> HIDE DEF N, c
    <2> QED
      BY <1>3, <1>4, <2>1 DEF Heads
  <1>6. CASE Apiece(N)
    <2>1. RecordOf(View(N), c) = Met(N)[N].record[c]
      BY <1>1, <1>3, <1>6, ViewRecordOf
    <2>2. Met(N)[N] = Meets(op, Met(N)[S]) /\ MetShape(N, Met(N)[S])
      BY <1>1, <1>2, MetStep, MetHolds DEF Directory, MetInv
    <2>3. Met(N)[N].record[c] = ApplyOne(Met(N)[S].record[c], op) /\ IsRecord(Met(N)[S].record[c])
      <3>1. IsRecord(Met(N)[S].record[c])
        BY <1>3, <2>2 DEF MetShape
      <3> QED
        BY <1>1, <1>3, <2>2, <3>1, MeetsRecord
    <2> QED
      BY <2>1, <2>3, AddGives
  <1>7. CASE ~Apiece(N)
    <2> DEFINE records == Regroup(N)[S]
               next == GroupStep(N, Kin(N), Canon(N), records, op)
    <2>1. RecordOf(View(N), c) = Regroup(N)[N][c]
      BY <1>1, <1>3, <1>5, <1>7, ViewRecordOf
    <2>2. Regroup(N)[N] = next
      BY <1>1, <1>2, RegroupUnfolds DEF Directory
    <2>3. records = [x \in Heads(N) |-> records[x]] /\ IsRecord(records[c])
      BY <1>3, <1>5, RegroupAlike DEF Regrouped
    <2>4. ~Joins(N, op)
      BY <1>5 DEF Joins
    <2>5. Retold(N, op).act = "add" /\ Retold(N, op).list = op.list
      BY <1>1, RetoldIs
    <2> HIDE DEF records, N
    <2>6. next[c] = ApplyOne(records[c], Retold(N, op))
      BY <1>1, <1>5, <2>3, <2>4, GroupStepIs
    <2> HIDE DEF next
    <2>7. Regroup(N)[N][c].life = "active" /\ op.list \in Regroup(N)[N][c].lists
      BY <2>2, <2>3, <2>5, <2>6, AddGives
    <2> QED
      BY <2>1, <2>7 DEF N
  <1> QED
    BY <1>6, <1>7

(* A key that no contact of a directory has is recognised by a new contact, *)
(* the add that puts it on the list and the identity that gives it the key; *)
(* it may be otherwise only where that makes contacts one.                  *)
THEOREM DirectoryMakes ==
    ASSUME NEW S, NEW first, first \notin S, NEW second, second \notin S \cup {first},
           Extends(S, S \cup {first}), Extends(S \cup {first}, S \cup {first, second}),
           Distinct(S \cup {first}), first.contact \notin Named(S), second.contact = first.contact,
           NEW t, first.act = "add", first.list = t.list, t.list # "none",
           second.act = "add-identity", second.key = t.key,
           ~Joined(View(S), View(S \cup {first, second}))
    PROVE  LET after == View(S \cup {first, second}) IN
           \E c \in DOMAIN after.record : Recognises(t, after.record[c])
  <1> DEFINE M == S \cup {first}
             N == S \cup {first, second}
             c == first.contact
             old == RecordOf(View(M), c)
             new == RecordOf(View(N), c)
  <1>1. /\ Directory(S) /\ Directory(M) /\ Directory(N) /\ N = M \cup {second}
        /\ c \in Named(M) /\ c \in Named(N) /\ Named(M) = Named(S) \cup {c} /\ Named(N) = Named(S) \cup {c}
    BY DEF Extends, Named
  <1>2. Extends(S, N)
    <2>1. Before(first, second) /\ \A x \in S : Before(x, first) /\ Before(x, second)
      BY DEF Extends
    <2> QED
      BY <1>1, <2>1 DEF Extends
  <1>3. KinStays(M, N)
    <2>1. KinStays(S, M) /\ KinStays(S, N)
      <3>1. first.act # "add-identity" /\ Extends(S, M)
        OBVIOUS
      <3>2. KinStays(S, M)
        BY <3>1, KinStaysBut
      <3>3. KinStays(S, N)
        BY <1>2, KinStaysApart
      <3> QED
        BY <3>2, <3>3
    <2>2. Extends(S, M) /\ Extends(S, N) /\ c \notin Named(S)
      BY <1>2
    <2> HIDE DEF M, N, c
    <2>3. Kin(M)[c] = {c}
      BY <1>1, <2>1, <2>2, KinOfNew
    <2>4. c \in Named(N) \ Named(S) /\ Named(N) \subseteq Named(S) \cup {c}
      BY <1>1, <2>2
    <2>5. Kin(N)[c] = {c}
      BY <2>1, <2>2, <2>4, KinOfNew
    <2> QED
      BY <1>1, <2>1, <2>3, <2>5 DEF KinStays
  <1>4. old.life = "active" /\ t.list \in old.lists
    BY FirstTold
  <1>5. PICK r, g : /\ new = ApplyOne(r, g) /\ Likewise(old, r)
                    /\ g.act = "add-identity" /\ g.key = t.key
    <2>1. Extends(M, M \cup {second}) /\ KinStays(M, M \cup {second}) /\ Distinct(M) /\ second \notin M
          /\ second.contact \in Named(M) /\ second.contact = c
      BY <1>1, <1>3
    <2> HIDE DEF M, N, c
    <2>2. \E r, g : /\ RecordOf(View(M \cup {second}), second.contact) = ApplyOne(r, g)
                    /\ Likewise(RecordOf(View(M), second.contact), r)
                    /\ g.act = second.act /\ g.key = second.key
      BY <2>1, LastTold, SMTT(30)
    <2> QED
      BY <1>1, <2>1, <2>2
  <1>6. Canon(N)[c] \in DOMAIN View(N).record /\ View(N).record[Canon(N)[c]] = new
    BY <1>1, ViewRecordOf
  <1> HIDE DEF old, new
  <1>7. IsRecord(r) /\ r.life = "active" /\ t.list \in r.lists
    BY <1>4, <1>5 DEF Likewise
  <1>8. new = WithKey(r, g)
    BY <1>5, <1>7 DEF ApplyOne, Applies, Effect
  <1>9. /\ new.life = "active" /\ t.list \in new.lists
        /\ new.items = IF \E x \in r.items : x.key = t.key THEN r.items
                       ELSE r.items \cup {[item |-> g.item, key |-> t.key]}
    BY <1>5, <1>7, <1>8 DEF WithKey, IsRecord
  <1>10. \E x \in new.items : x.key = t.key
    <2> DEFINE made == [item |-> g.item, key |-> t.key]
    <2>1. made.key = t.key
      OBVIOUS
    <2> HIDE DEF made
    <2>2. CASE \E x \in r.items : x.key = t.key
      BY <1>9, <2>2
    <2>3. CASE ~\E x \in r.items : x.key = t.key
      <3>1. new.items = r.items \cup {made}
        BY <1>9, <2>3 DEF made
      <3> QED
        BY <2>1, <3>1
    <2> QED
      BY <2>2, <2>3
  <1>11. Recognises(t, new)
    BY <1>9, <1>10 DEF Recognises, KeysHeld
  <1> QED
    BY <1>6, <1>11
=============================================================================
