----------------------- MODULE ContactsWriters_proofs -----------------------
(***************************************************************************)
(* Theorems about ContactsWriters, for any devices, keys, lists, calls and *)
(* initial operations: how the operations of a directory are stamped and   *)
(* named, that its screens catch up, that each log is a directory, of which *)
(* ContactsDirectory_proofs says what the replay makes, and that a call     *)
(* shows what it was asked for.                                            *)
(***************************************************************************)
EXTENDS ContactsWriters, ContactsDirectory_proofs

-----------------------------------------------------------------------------
(* Clocks of a finite set of operations.                                   *)

\* A smallest subset without a bound would have one without any of its members.
LEMMA ClocksBounded ==
    ASSUME NEW S, IsFiniteSet(S), \A op \in S : op.clock \in Nat
    PROVE  \E n \in Nat : \A op \in S : op.clock <= n
  <1> DEFINE Bounded(T) == \E n \in Nat : \A op \in T : op.clock <= n
             Bad == {T \in SUBSET S : ~Bounded(T)}
             R == StrictSubsetOrdering(S)
  <1>1. SUFFICES ASSUME ~Bounded(S) PROVE FALSE
    OBVIOUS
  <1>2. IsWellFoundedOn(R, SUBSET S)
    BY FS_StrictSubsetOrderingWellFounded, FS_FiniteSubsetsOfFinite
  <1>3. Bad \subseteq SUBSET S /\ Bad # {}
    BY <1>1
  <1>4. PICK T \in Bad : \A U \in Bad : ~(<<U, T>> \in R)
    <2> HIDE DEF Bad, R
    <2> QED
      BY <1>2, <1>3, WFMin
  <1>5. Bounded({})
    BY 0 \in Nat
  <1>6. PICK op \in T : TRUE
    BY <1>4, <1>5
  <1>7. <<T \ {op}, T>> \in R
    BY <1>4, <1>6 DEF StrictSubsetOrdering
  <1>8. Bounded(T \ {op})
    BY <1>4, <1>7
  <1>9. PICK n \in Nat : \A other \in T \ {op} : other.clock <= n
    BY <1>8
  <1>10. op.clock \in Nat /\ \A other \in T : other.clock \in Nat
    BY <1>4, <1>6
  <1>11. CASE op.clock <= n
    BY <1>4, <1>9, <1>11
  <1>12. CASE n < op.clock
    <2>1. \A other \in T : other.clock <= op.clock
      BY <1>9, <1>10, <1>12
    <2> QED
      BY <1>4, <1>10, <2>1
  <1> QED
    BY <1>10, <1>11, <1>12

\* frontierOf: at least every clock.
LEMMA FrontierBounds ==
    ASSUME NEW S, IsFiniteSet(S), \A op \in S : op.clock \in Nat
    PROVE  /\ Frontier(S) \in Nat
           /\ \A op \in S : op.clock <= Frontier(S)
  <1> DEFINE Above == {n \in Nat : \A op \in S : op.clock <= n}
             R == OpToRel(<, Nat)
  <1>1. CASE S = {}
    BY <1>1 DEF Frontier
  <1>2. CASE S # {}
    <2>1. Above \subseteq Nat /\ Above # {}
      BY ClocksBounded
    <2>2. PICK m \in Above : \A n \in Above : ~(<<n, m>> \in R)
      <3> HIDE DEF Above, R
      <3>1. IsWellFoundedOn(R, Nat)
        BY NatLessThanWellFounded DEF R
      <3> QED
        BY <2>1, <3>1, WFMin
    <2>3. m \in Nat /\ \A op \in S : op.clock <= m
      OBVIOUS
    <2>4. \A n \in Above : ~(n < m)
      BY <2>2, <2>1 DEF OpToRel
    <2>5. m \in {op.clock : op \in S}
      <3> SUFFICES ASSUME \A op \in S : op.clock # m PROVE FALSE
        OBVIOUS
      <3>1. \A op \in S : op.clock < m
        BY <2>3
      <3>2. m - 1 \in Nat /\ \A op \in S : op.clock <= m - 1
        BY <1>2, <2>3, <3>1
      <3> QED
        BY <2>3, <2>4, <3>2
    <2>6. Frontier(S) = CHOOSE n \in {op.clock : op \in S} : \A op \in S : op.clock <= n
      BY <1>2 DEF Frontier
    <2> QED
      BY <2>3, <2>5, <2>6
  <1> QED
    BY <1>1, <1>2

LEMMA NextClockAbove ==
    \A a, b \in Nat : nextClock(a, b) \in Nat /\ nextClock(a, b) > a /\ nextClock(a, b) > b
  BY DEF nextClock

-----------------------------------------------------------------------------
(* Plans: the operations of one device, with consecutive clocks.           *)

Stamps(d, clock, batch) ==
    /\ \E S : batch \in Seq(S)
    /\ \A i \in 1..Len(batch) : batch[i].dev = d /\ batch[i].clock = clock + i - 1

FamilyActs == {"add", "add-identity"}
Family(batch) == \A i \in 1..Len(batch) : batch[i].act \in FamilyActs

LEMMA BuiltFields ==
    ASSUME NEW d, NEW n, NEW clock, NEW act, NEW t
    PROVE  /\ Built(d, n, clock, act, t).dev = d
           /\ Built(d, n, clock, act, t).clock = clock + n - 1
           /\ Built(d, n, clock, act, t).act = act
  BY DEF Built

LEMMA OneStamped ==
    ASSUME NEW d, NEW clock \in Nat, NEW x, x.dev = d, x.clock = clock + 1 - 1
    PROVE  Stamps(d, clock, <<x>>)
  <1> DEFINE s == <<x>>
  <1>1. s \in Seq({x}) /\ Len(s) = 1 /\ s[1] = x
    OBVIOUS
  <1> HIDE DEF s
  <1>2. \A i \in 1..Len(s) : i = 1
    BY <1>1
  <1>3. \A i \in 1..Len(s) : s[i].dev = d /\ s[i].clock = clock + i - 1
    BY <1>1, <1>2
  <1>4. Stamps(d, clock, s)
    BY <1>1, <1>3 DEF Stamps
  <1> QED
    BY <1>4 DEF s

LEMMA TwoStamped ==
    ASSUME NEW d, NEW clock \in Nat, NEW x, NEW y,
           x.dev = d, x.clock = clock + 1 - 1, y.dev = d, y.clock = clock + 2 - 1
    PROVE  Stamps(d, clock, <<x, y>>)
  <1> DEFINE s == <<x, y>>
  <1>1. s \in Seq({x, y}) /\ Len(s) = 2 /\ s[1] = x /\ s[2] = y
    OBVIOUS
  <1> HIDE DEF s
  <1>2. \A i \in 1..Len(s) : i = 1 \/ i = 2
    BY <1>1
  <1>3. \A i \in 1..Len(s) : s[i].dev = d /\ s[i].clock = clock + i - 1
    BY <1>1, <1>2
  <1>4. Stamps(d, clock, s)
    BY <1>1, <1>3 DEF Stamps
  <1> QED
    BY <1>4 DEF s

LEMMA NewWithKeyStamps ==
    ASSUME NEW d, NEW clock \in Nat, NEW t
    PROVE  Stamps(d, clock, NewWithKey(d, clock, t)) /\ Family(NewWithKey(d, clock, t))
  <1> DEFINE x == Built(d, 1, clock, "add", [NewContact(d, t) EXCEPT !.key = "none"])
             y == Built(d, 2, clock, "add-identity",
                        [NewContact(d, t) EXCEPT !.item = OwnId(d, 2), !.list = "none"])
  <1>1. /\ x.dev = d /\ x.clock = clock + 1 - 1 /\ x.act = "add"
        /\ y.dev = d /\ y.clock = clock + 2 - 1 /\ y.act = "add-identity"
    BY BuiltFields
  <1>2. NewWithKey(d, clock, t) = <<x, y>>
    BY DEF NewWithKey
  <1> HIDE DEF x, y
  <1>3. Stamps(d, clock, <<x, y>>)
    BY <1>1, TwoStamped
  <1>4. Family(<<x, y>>)
    BY <1>1 DEF Family, FamilyActs
  <1> QED
    BY <1>2, <1>3, <1>4

LEMMA MutationStamps ==
    ASSUME NEW d, NEW t, ContactsClock(d) \in Nat
    PROVE  Stamps(d, ContactsClock(d), Mutation(d, t))
  <1> DEFINE c == ContactsClock(d)
             n == NewContact(d, t)
             i == [t EXCEPT !.item = OwnId(d, 1)]
  <1>1. CASE t.kind = "add"
    <2>1. Mutation(d, t) = <<Built(d, 1, c, "add", n), Built(d, 2, c, "origin", n)>>
      BY <1>1 DEF Mutation
    <2> HIDE DEF c, n
    <2> QED
      BY <2>1, BuiltFields, TwoStamped DEF c
  <1>2. CASE t.kind = "add-identity"
    <2>1. Mutation(d, t) = <<Built(d, 1, c, "add-identity", i)>>
      BY <1>2 DEF Mutation
    <2> HIDE DEF c, i
    <2> QED
      BY <2>1, BuiltFields, OneStamped DEF c
  <1>3. CASE t.kind # "add" /\ t.kind # "add-identity"
    <2>1. Mutation(d, t) = <<Built(d, 1, c, t.kind, t)>>
      BY <1>3 DEF Mutation
    <2> HIDE DEF c
    <2> QED
      BY <2>1, BuiltFields, OneStamped DEF c
  <1> QED
    BY <1>1, <1>2, <1>3

LEMMA RecognisedStamps ==
    ASSUME NEW d, NEW t, NEW clock \in Nat, NEW view, NEW having
    PROVE  Stamps(d, clock, Recognised(d, t, clock, view, having))
  <1> DEFINE c == CHOOSE c \in having : TRUE
             act == IF view.record[c].life \in Gone THEN "add" ELSE "link"
             u == [t EXCEPT !.contact = c, !.key = "none"]
  <1>1. CASE having = {}
    BY <1>1, NewWithKeyStamps DEF Recognised
  <1>2. CASE having # {}
    <2>1. Recognised(d, t, clock, view, having) = <<Built(d, 1, clock, act, u)>>
      BY <1>2 DEF Recognised
    <2> HIDE DEF act, u
    <2> QED
      BY <2>1, BuiltFields, OneStamped
  <1> QED
    BY <1>1, <1>2

\* SetToSeq lists a finite set.
LEMMA ListedInOrder ==
    ASSUME NEW S, IsFiniteSet(S)
    PROVE  \E n \in Nat : SetToSeq(S) \in [1..n -> S]
  <1>1. Cardinality(S) \in Nat /\ ExistsBijection(1..Cardinality(S), S)
    BY FS_CardinalityType
  <1>2. \E f \in [1..Cardinality(S) -> S] : IsInjective(f)
    BY <1>1 DEF ExistsBijection, Bijection, Injection
  <1> QED
    BY <1>1, <1>2 DEF SetToSeq

\* The contacts of a view are named by operations.
LEMMA ContactsFinite ==
    ASSUME NEW S, IsFiniteSet(S)
    PROVE  IsFiniteSet(DOMAIN View(S).canon)
  <1>1. DOMAIN View(S).canon \in SUBSET Named(S)
    BY DEF View, Resolve, Merged
  <1>2. IsFiniteSet(Named(S))
    <2> DEFINE f == [op \in S |-> op.contact]
    <2>1. f \in Surjection(S, Named(S))
      BY DEF Surjection, Named
    <2> QED
      BY <2>1, FS_Surjection
  <1> QED
    BY <1>1, <1>2, FS_Subset

LEMMA ClearingStamps ==
    ASSUME NEW d, NEW t, IsFiniteSet(log[d]), ContactsClock(d) \in Nat
    PROVE  Stamps(d, ContactsClock(d), Clearing(d, t))
  <1> DEFINE X == Clearable(View(log[d]), t)
             c == ContactsClock(d)
             B(n) == Built(d, n, c, "unlink", [t EXCEPT !.contact = SetToSeq(X)[n]])
  <1>1. X \in SUBSET DOMAIN View(log[d]).canon
    BY DEF Clearable, OnList
  <1>2. IsFiniteSet(X)
    BY <1>1, ContactsFinite, FS_Subset
  <1>3. PICK n \in Nat : SetToSeq(X) \in [1..n -> X]
    BY <1>2, ListedInOrder
  <1>4. Clearing(d, t) = [i \in 1..n |-> B(i)]
    BY <1>3 DEF Clearing
  <1>5. \A i \in 1..n : B(i).dev = d /\ B(i).clock = c + i - 1
    BY BuiltFields
  <1> HIDE DEF B, c
  <1>6. [i \in 1..n |-> B(i)] \in Seq({B(i) : i \in 1..n}) /\ Len([i \in 1..n |-> B(i)]) = n
    OBVIOUS
  <1> QED
    BY <1>4, <1>5, <1>6 DEF Stamps, c

\* Every plan is stamped past all that its task has read.
LEMMA PlanStamps ==
    ASSUME NEW d \in Devices, NEW t, IsFiniteSet(log[d]), \A op \in log[d] : op.clock \in Nat,
           clockRef[d].contacts \in Nat, clockRef[d].family \in Nat
    PROVE  \E clock \in Nat : /\ \A op \in log[d] : op.clock < clock
                              /\ Stamps(d, clock, PlanOf(d, t))
                              /\ HookOf(t) = "family" => Family(PlanOf(d, t))
  <1> DEFINE F == Frontier(log[d])
             Past(clock) == clock \in Nat /\ \A op \in log[d] : op.clock < clock
  <1>1. F \in Nat /\ \A op \in log[d] : op.clock <= F
    BY FrontierBounds
  <1>2. \A a \in Nat : Past(nextClock(a, F))
    <2> HIDE DEF F
    <2> SUFFICES ASSUME NEW a \in Nat PROVE Past(nextClock(a, F))
      OBVIOUS
    <2>1. nextClock(a, F) \in Nat /\ nextClock(a, F) > F
      BY <1>1, NextClockAbove
    <2> QED
      BY <1>1, <2>1
  <1>3. Past(ContactsClock(d)) /\ Past(nextClock(0, F)) /\ Past(nextClock(clockRef[d].family, F))
    BY <1>2 DEF ContactsClock
  <1>4. CASE t.kind = "recognise"
    <2>1. PlanOf(d, t) = Recognised(d, t, nextClock(0, F), View(log[d]), Having(View(log[d]), t.key))
      BY <1>4 DEF PlanOf, Recognition, RecognisedIn
    <2>2. HookOf(t) # "family"
      BY <1>4 DEF HookOf
    <2> QED
      BY <1>3, <2>1, <2>2, RecognisedStamps
  <1>5. CASE t.kind = "clear"
    <2>1. PlanOf(d, t) = Clearing(d, t) /\ HookOf(t) # "family"
      BY <1>5 DEF PlanOf, HookOf
    <2> QED
      BY <1>3, <2>1, ClearingStamps
  <1>6. CASE t.kind = "share"
    <2>1. PlanOf(d, t) = NewWithKey(d, nextClock(clockRef[d].family, F), t)
      BY <1>6 DEF PlanOf, Share
    <2> QED
      BY <1>3, <2>1, NewWithKeyStamps
  <1>7. CASE t.kind \notin {"recognise", "clear", "share"}
    <2>1. PlanOf(d, t) = Mutation(d, t) /\ HookOf(t) # "family"
      BY <1>7 DEF PlanOf, HookOf
    <2> QED
      BY <1>3, <2>1, MutationStamps
  <1> QED
    BY <1>4, <1>5, <1>6, <1>7
-----------------------------------------------------------------------------
(* The inductive invariant.                                                *)

Functional ==
    /\ log = [d \in Devices |-> log[d]]
    /\ shown = [d \in Devices |-> shown[d]]
    /\ tasks = [d \in Devices |-> tasks[d]]
    /\ job = [d \in Devices |-> job[d]]
    /\ clockRef \in [Devices -> [contacts : Nat, family : Nat]]
    /\ calls = [d \in Devices |-> calls[d]]
    /\ \A d \in Devices : calls[d] \in 0..MaxCalls[d]

\* What a device stores; the operations of devices outside are initial ones.
Stored(d) ==
    /\ IsFiniteSet(log[d])
    /\ Start \subseteq log[d]
    /\ shown[d] \subseteq log[d]
    /\ \A op \in log[d] : op.clock \in Nat /\ (op.dev \in Devices \/ op \in Start)

\* A device holds whatever it wrote, and wrote no two alike.
Own(d) == {op \in log[d] : op.dev = d}
Home == \A d, e \in Devices : \A op \in log[e] : op.dev = d => op \in log[d]
Unlike(d) == \A a, b \in Own(d) : a.clock = b.clock => a = b

Queued(d) == \E S : tasks[d] \in Seq(S)

\* What is still to be saved comes after what the task has read and after
\* what its device wrote, in its own order.
Later(d, batch, base) ==
    /\ \E S : batch \in Seq(S)
    /\ batch # <<>>
    /\ \A i \in 1..Len(batch) : batch[i].dev = d /\ batch[i].clock \in Nat
    /\ \A i \in 1..Len(batch) : \A op \in base \cup Own(d) : op.clock < batch[i].clock
    /\ \A i, j \in 1..Len(batch) : i < j => batch[i].clock < batch[j].clock

Working(d) ==
    /\ job[d] = [pc |-> job[d].pc, batch |-> job[d].batch, base |-> job[d].base]
    /\ job[d].pc \in {"contacts", "family"}
    /\ tasks[d] # <<>> /\ Head(tasks[d]).kind # "reload"
    /\ shown[d] \subseteq job[d].base /\ job[d].base \subseteq log[d]
    /\ Later(d, job[d].batch, job[d].base)
    /\ job[d].pc = "family" => Family(job[d].batch)

JobInv(d) == Idle(d) \/ Working(d)

\* The screen lags behind by what this device's family hook wrote, or a reload
\* is queued that will make it good.
ReloadDue(s) == \E i \in 1..Len(s) : s[i].kind = "reload"
OwnAdds(d, S) == \A op \in S : op.dev = d /\ op.act \in FamilyActs
Fresh(d) ==
    ~ReloadDue(tasks[d]) => /\ OwnAdds(d, log[d] \ shown[d])
                            /\ job[d].pc = "contacts" => job[d].base = log[d]

DeviceInv(d) == Stored(d) /\ Unlike(d) /\ Queued(d) /\ JobInv(d) /\ Fresh(d)
IndInv == Functional /\ Home /\ \A d \in Devices : DeviceInv(d)

-----------------------------------------------------------------------------
(* Queues.                                                                 *)

LEMMA AppendedQueue ==
    ASSUME NEW S, NEW s \in Seq(S), NEW x
    PROVE  /\ \E T : Append(s, x) \in Seq(T)
           /\ Append(s, x) # <<>>
           /\ s # <<>> => Head(Append(s, x)) = Head(s)
           /\ ReloadDue(s) => ReloadDue(Append(s, x))
  <1> DEFINE T == S \cup {x}
  <1>1. s \in Seq(T) /\ x \in T
    OBVIOUS
  <1>2. Append(s, x) \in Seq(T) /\ Len(Append(s, x)) = Len(s) + 1
    BY <1>1
  <1>3. \A i \in 1..Len(s) : Append(s, x)[i] = s[i]
    BY <1>1
  <1>4. s # <<>> => Head(Append(s, x)) = Head(s)
    BY <1>1, <1>2, <1>3
  <1>5. ReloadDue(s) => ReloadDue(Append(s, x))
    BY <1>2, <1>3 DEF ReloadDue
  <1>6. Append(s, x) # <<>>
    BY <1>2
  <1> QED
    BY <1>2, <1>4, <1>5, <1>6

LEMMA TailQueue ==
    ASSUME NEW S, NEW s \in Seq(S), s # <<>>
    PROVE  /\ Tail(s) \in Seq(S)
           /\ ReloadDue(s) /\ Head(s).kind # "reload" => ReloadDue(Tail(s))
  <1>1. /\ Tail(s) \in Seq(S) /\ Len(Tail(s)) = Len(s) - 1
        /\ \A i \in 1..Len(Tail(s)) : Tail(s)[i] = s[i + 1]
        /\ Head(s) = s[1]
    OBVIOUS
  <1>2. ASSUME NEW i \in 1..Len(s), s[i].kind = "reload", Head(s).kind # "reload"
        PROVE  i - 1 \in 1..Len(Tail(s)) /\ Tail(s)[i - 1].kind = "reload"
    <2>1. i # 1
      BY <1>1, <1>2
    <2>2. i - 1 \in 1..Len(Tail(s))
      BY <1>1, <2>1
    <2> QED
      BY <1>1, <1>2, <2>2
  <1> QED
    BY <1>1, <1>2 DEF ReloadDue

LEMMA Concatenated ==
    ASSUME NEW T, NEW s \in Seq(T), NEW u \in Seq(T)
    PROVE  /\ s \o u \in Seq(T)
           /\ Len(s \o u) = Len(s) + Len(u)
           /\ \A i \in 1..Len(s) : (s \o u)[i] = s[i]
           /\ \A i \in 1..Len(u) : (s \o u)[Len(s) + i] = u[i]
  OBVIOUS

\* What a merge queues.
LEMMA ReloadsQueue ==
    ASSUME NEW d, NEW S, NEW s \in Seq(S)
    PROVE  /\ \E T : s \o Reloads(d) \in Seq(T)
           /\ ReloadDue(s \o Reloads(d))
           /\ s # <<>> => s \o Reloads(d) # <<>> /\ Head(s \o Reloads(d)) = Head(s)
  <1> DEFINE r == Task("reload")
             f == Task("reload-family")
             u == Reloads(d)
             T == S \cup {r, f}
  <1>1. r.kind = "reload"
    BY DEF Task
  <1>2. u \in Seq(T) /\ Len(u) \in {1, 2} /\ u[1] = r
    <2> DEFINE one == <<r>>
               more == IF d \in FamilyOpen THEN <<f>> ELSE <<>>
    <2>1. u = one \o more
      BY DEF Reloads
    <2> HIDE DEF r, f, u, T
    <2>2. r \in T /\ f \in T
      BY DEF T
    <2>3. one \in Seq(T) /\ Len(one) = 1 /\ one[1] = r
      BY <2>2
    <2>4. more \in Seq(T) /\ Len(more) \in {0, 1}
      BY <2>2
    <2> HIDE DEF one, more
    <2>5. one \o more \in Seq(T) /\ Len(one \o more) = Len(one) + Len(more)
      BY <2>3, <2>4, Concatenated, Zenon
    <2>6. \A i \in 1..Len(one) : (one \o more)[i] = one[i]
      BY <2>3, <2>4, Concatenated, Zenon
    <2> QED
      BY <2>1, <2>3, <2>4, <2>5, <2>6
  <1> HIDE DEF r, f, u
  <1>3. s \in Seq(T) /\ Len(s) \in Nat
    OBVIOUS
  <1> HIDE DEF T
  <1>4. s \o u \in Seq(T) /\ Len(s \o u) = Len(s) + Len(u)
    BY <1>2, <1>3
  <1>5. (s \o u)[Len(s) + 1] = r
    BY <1>2, <1>3
  <1>6. Len(s) + 1 \in 1..Len(s \o u)
    BY <1>2, <1>3, <1>4
  <1>7. ReloadDue(s \o u)
    BY <1>1, <1>5, <1>6 DEF ReloadDue
  <1>8. ASSUME s # <<>> PROVE s \o u # <<>> /\ Head(s \o u) = Head(s)
    <2>1. 1 \in 1..Len(s)
      BY <1>3, <1>8
    <2>2. (s \o u)[1] = s[1]
      BY <1>2, <1>3, <2>1
    <2> QED
      BY <1>3, <1>4, <1>8, <2>2, <1>2
  <1> QED
    BY <1>4, <1>7, <1>8 DEF u

-----------------------------------------------------------------------------
(* The initial states.                                                     *)

LEMMA InitInv == Init => IndInv
  <1> SUFFICES ASSUME Init PROVE IndInv
    OBVIOUS
  <1>1. Frontier(Start) \in Nat
    BY WritersAssumption, FrontierBounds DEF WritersAssumption
  <1>2. Functional
    BY <1>1, WritersAssumption DEF Init, Functional, WritersAssumption
  <1>3. Home
    BY DEF Init, Home
  <1>4. ASSUME NEW d \in Devices PROVE DeviceInv(d)
    <2>1. log[d] = Start /\ shown[d] = Start /\ tasks[d] = <<>> /\ job[d] = NoJob
      BY DEF Init
    <2>2. Stored(d) /\ Unlike(d)
      BY <2>1, WritersAssumption DEF Stored, Unlike, Own, WritersAssumption
    <2>3. Queued(d)
      <3>1. <<>> \in Seq({})
        OBVIOUS
      <3> QED
        BY <2>1, <3>1 DEF Queued
    <2>4. JobInv(d) /\ Fresh(d)
      BY <2>1 DEF JobInv, Idle, Fresh, NoJob, OwnAdds
    <2> QED
      BY <2>2, <2>3, <2>4 DEF DeviceInv
  <1> QED
    BY <1>2, <1>3, <1>4 DEF IndInv

-----------------------------------------------------------------------------
(* Steps.  Each changes the state of one device.                           *)

LEMMA ChangedAt ==
    ASSUME NEW f, f = [x \in Devices |-> f[x]], NEW d \in Devices, NEW v, NEW g, g = [f EXCEPT ![d] = v]
    PROVE  g = [x \in Devices |-> g[x]] /\ g[d] = v /\ \A e \in Devices : e # d => g[e] = f[e]
  OBVIOUS

StaysAt(e) == log'[e] = log[e] /\ shown'[e] = shown[e] /\ tasks'[e] = tasks[e] /\ job'[e] = job[e]

LEMMA Untouched ==
    ASSUME NEW e \in Devices, DeviceInv(e), StaysAt(e)
    PROVE  DeviceInv(e)'
  <1> USE DEF StaysAt
  <1>1. Stored(e)' /\ Unlike(e)' /\ Queued(e)'
    BY DEF DeviceInv, Stored, Unlike, Own, Queued
  <1>2. JobInv(e)'
    BY DEF DeviceInv, JobInv, Idle, Working, Later, Own
  <1>3. Fresh(e)'
    BY DEF DeviceInv, Fresh
  <1> QED
    BY <1>1, <1>2, <1>3 DEF DeviceInv

LEMMA OneDevice ==
    ASSUME IndInv, NEW d \in Devices, Functional', Home', DeviceInv(d)',
           \A e \in Devices : e # d => StaysAt(e)
    PROVE  IndInv'
  <1>1. ASSUME NEW e \in Devices PROVE DeviceInv(e)'
    <2>1. CASE e = d
      BY <2>1
    <2>2. CASE e # d
      BY <2>2, Untouched DEF IndInv
    <2> QED
      BY <2>1, <2>2
  <1> QED
    BY <1>1 DEF IndInv

\* Steps that save nothing and only move the queue on.
LEMMA CallInv == ASSUME IndInv, NEW d \in Devices, Call(d) PROVE IndInv'
  <1> USE DEF IndInv
  <1>1. PICK t : tasks' = [tasks EXCEPT ![d] = Append(tasks[d], t)]
    BY DEF Call
  <1>2. /\ calls' = [calls EXCEPT ![d] = calls[d] + 1] /\ calls[d] < MaxCalls[d]
        /\ log' = log /\ shown' = shown /\ job' = job /\ clockRef' = clockRef
    BY DEF Call
  <1>3. /\ tasks' = [x \in Devices |-> tasks'[x]] /\ tasks'[d] = Append(tasks[d], t)
        /\ \A e \in Devices : e # d => tasks'[e] = tasks[e]
    BY <1>1 DEF Functional
  <1>4. Functional'
    <2>1. calls' = [x \in Devices |-> calls'[x]] /\ \A x \in Devices : calls'[x] \in 0..MaxCalls[x]
      BY <1>2, WritersAssumption DEF Functional, WritersAssumption
    <2> QED
      BY <1>2, <1>3, <2>1 DEF Functional
  <1>5. Home'
    BY <1>2 DEF Home
  <1>6. PICK S : tasks[d] \in Seq(S)
    BY DEF DeviceInv, Queued
  <1>7. /\ \E T : tasks'[d] \in Seq(T)
        /\ tasks'[d] # <<>>
        /\ tasks[d] # <<>> => Head(tasks'[d]) = Head(tasks[d])
        /\ ReloadDue(tasks[d]) => ReloadDue(tasks'[d])
    BY <1>3, <1>6, AppendedQueue
  <1>8. Stored(d)' /\ Unlike(d)' /\ Queued(d)'
    BY <1>2, <1>7 DEF DeviceInv, Stored, Unlike, Own, Queued
  <1>9. JobInv(d)'
    BY <1>2, <1>7 DEF DeviceInv, JobInv, Idle, Working, Later, Own
  <1>10. Fresh(d)'
    BY <1>2, <1>7 DEF DeviceInv, Fresh
  <1>11. DeviceInv(d)'
    BY <1>8, <1>9, <1>10 DEF DeviceInv
  <1>12. \A e \in Devices : e # d => StaysAt(e)
    BY <1>2, <1>3 DEF StaysAt
  <1> QED
    BY <1>4, <1>5, <1>11, <1>12, OneDevice

\* The task under way, which is no reload, ends without a save.
LEMMA TaskEnds ==
    ASSUME IndInv, NEW d \in Devices, tasks[d] # <<>>, Head(tasks[d]).kind # "reload",
           tasks' = [tasks EXCEPT ![d] = Tail(tasks[d])]
    PROVE  /\ tasks' = [x \in Devices |-> tasks'[x]]
           /\ \A e \in Devices : e # d => tasks'[e] = tasks[e]
           /\ Queued(d)'
           /\ ReloadDue(tasks[d]) => ReloadDue(tasks'[d])
  <1>1. /\ tasks' = [x \in Devices |-> tasks'[x]] /\ tasks'[d] = Tail(tasks[d])
        /\ \A e \in Devices : e # d => tasks'[e] = tasks[e]
    BY DEF IndInv, Functional
  <1>2. PICK S : tasks[d] \in Seq(S)
    BY DEF IndInv, DeviceInv, Queued
  <1>3. tasks'[d] \in Seq(S) /\ (ReloadDue(tasks[d]) => ReloadDue(tasks'[d]))
    BY <1>1, <1>2, TailQueue
  <1> QED
    BY <1>1, <1>3 DEF Queued

LEMMA StampsLater ==
    ASSUME IndInv, NEW d \in Devices, NEW batch, batch # <<>>, NEW clock \in Nat,
           \A op \in log[d] : op.clock < clock, Stamps(d, clock, batch)
    PROVE  Later(d, batch, log[d])
  <1>1. \E S : batch \in Seq(S)
    BY DEF Stamps
  <1>2. Len(batch) \in Nat
    BY <1>1
  <1>3. \A i \in 1..Len(batch) : batch[i].dev = d /\ batch[i].clock = clock + i - 1
    BY DEF Stamps
  <1>4. \A i \in 1..Len(batch) : batch[i].clock \in Nat /\ batch[i].clock >= clock
    BY <1>2, <1>3
  <1>5. \A op \in log[d] : op.clock \in Nat
    BY DEF IndInv, DeviceInv, Stored
  <1>6. \A i \in 1..Len(batch) : \A op \in log[d] \cup Own(d) : op.clock < batch[i].clock
    BY <1>4, <1>5 DEF Own
  <1>7. \A i, j \in 1..Len(batch) : i < j => batch[i].clock < batch[j].clock
    BY <1>2, <1>3
  <1> QED
    BY <1>1, <1>3, <1>4, <1>6, <1>7 DEF Later

LEMMA PlanInv == ASSUME IndInv, NEW d \in Devices, Plan(d) PROVE IndInv'
  <1> DEFINE t == Head(tasks[d])
             batch == PlanOf(d, t)
  <1>1. /\ Idle(d) /\ tasks[d] # <<>> /\ t.kind # "reload"
        /\ Decide(d, t, batch) /\ log' = log /\ shown' = shown /\ calls' = calls
    BY DEF Plan
  <1>2. /\ IsFiniteSet(log[d]) /\ \A op \in log[d] : op.clock \in Nat
        /\ clockRef[d].contacts \in Nat /\ clockRef[d].family \in Nat
    BY DEF IndInv, DeviceInv, Stored, Functional
  <1>3. PICK clock \in Nat : /\ \A op \in log[d] : op.clock < clock
                             /\ Stamps(d, clock, batch)
                             /\ HookOf(t) = "family" => Family(batch)
    BY <1>2, PlanStamps
  <1> HIDE DEF batch
  <1>4. batch # <<>> => Later(d, batch, log[d])
    BY <1>3, StampsLater
  <1>5. clockRef' \in [Devices -> [contacts : Nat, family : Nat]]
    <2>1. HookOf(t) \in {"contacts", "family"}
      BY DEF HookOf
    <2>2. clockRef[d] \in [contacts : Nat, family : Nat]
      BY DEF IndInv, Functional
    <2>3. batch # <<>> => batch[1].clock \in Nat
      <3> SUFFICES ASSUME batch # <<>> PROVE batch[1].clock \in Nat
        OBVIOUS
      <3>1. 1 \in 1..Len(batch)
        BY <1>4 DEF Later
      <3> QED
        BY <1>4, <3>1 DEF Later
    <2>4. Stamped(d, t, batch) \in [contacts : Nat, family : Nat]
      <3>1. CASE batch = <<>> \/ t.kind \in {"recognise", "clear"}
        BY <2>2, <3>1 DEF Stamped
      <3>2. CASE ~(batch = <<>> \/ t.kind \in {"recognise", "clear"})
        <4>1. Stamped(d, t, batch) = [clockRef[d] EXCEPT ![HookOf(t)] = batch[1].clock]
          BY <3>2 DEF Stamped
        <4>2. batch[1].clock \in Nat
          BY <2>3, <3>2
        <4> QED
          BY <2>1, <2>2, <4>1, <4>2
      <3> QED
        BY <3>1, <3>2
    <2>5. clockRef' = [clockRef EXCEPT ![d] = Stamped(d, t, batch)]
      BY <1>1 DEF Decide
    <2> QED
      BY <2>4, <2>5 DEF IndInv, Functional
  <1>6. Home' /\ Stored(d)' /\ Unlike(d)'
    BY <1>1 DEF IndInv, DeviceInv, Home, Stored, Unlike, Own
  <1>7. CASE Refused(d, t, batch)
    <2>1. tasks' = [tasks EXCEPT ![d] = Tail(tasks[d])] /\ job' = job
      BY <1>1, <1>7 DEF Decide
    <2>2. /\ tasks' = [x \in Devices |-> tasks'[x]]
          /\ \A e \in Devices : e # d => tasks'[e] = tasks[e]
          /\ Queued(d)'
          /\ ReloadDue(tasks[d]) => ReloadDue(tasks'[d])
      BY <1>1, <2>1, TaskEnds
    <2>3. Functional'
      BY <1>1, <1>5, <2>1, <2>2 DEF IndInv, Functional
    <2>4. JobInv(d)'
      BY <1>1, <2>1 DEF JobInv, Idle
    <2>5. Fresh(d)'
      BY <1>1, <2>1, <2>2 DEF IndInv, DeviceInv, Fresh
    <2>6. \A e \in Devices : e # d => StaysAt(e)
      BY <1>1, <2>1, <2>2 DEF StaysAt
    <2> QED
      BY <1>6, <2>2, <2>3, <2>4, <2>5, <2>6, OneDevice DEF DeviceInv
  <1>8. CASE ~Refused(d, t, batch)
    <2>1. /\ job' = [job EXCEPT ![d] = [pc |-> HookOf(t), batch |-> batch, base |-> log[d]]]
          /\ tasks' = tasks /\ batch # <<>>
      BY <1>1, <1>8 DEF Decide, Refused
    <2>2. /\ job' = [x \in Devices |-> job'[x]]
          /\ job'[d] = [pc |-> HookOf(t), batch |-> batch, base |-> log[d]]
          /\ \A e \in Devices : e # d => job'[e] = job[e]
      BY <2>1, ChangedAt DEF IndInv, Functional
    <2>3. Functional'
      BY <1>1, <1>5, <2>1, <2>2 DEF IndInv, Functional
    <2>4. Queued(d)'
      BY <2>1 DEF IndInv, DeviceInv, Queued
    <2>5. Working(d)'
      <3>1. /\ job'[d].pc = HookOf(t) /\ job'[d].batch = batch /\ job'[d].base = log[d]
            /\ job'[d] = [pc |-> job'[d].pc, batch |-> job'[d].batch, base |-> job'[d].base]
        BY <2>2
      <3>2. HookOf(t) \in {"contacts", "family"}
        BY DEF HookOf
      <3>3. Later(d, job[d].batch, job[d].base)'
        BY <1>1, <1>4, <2>1, <3>1 DEF Later, Own
      <3>4. shown[d] \subseteq log[d]
        BY DEF IndInv, DeviceInv, Stored
      <3>5. (job[d].pc = "family" => Family(job[d].batch))'
        BY <1>3, <3>1 DEF Family
      <3> QED
        BY <1>1, <2>1, <3>1, <3>2, <3>3, <3>4, <3>5 DEF Working
    <2>6. Fresh(d)'
      <3>1. job'[d].base = log[d]
        BY <2>2
      <3> QED
        BY <1>1, <2>1, <3>1 DEF IndInv, DeviceInv, Fresh
    <2>7. \A e \in Devices : e # d => StaysAt(e)
      BY <1>1, <2>1, <2>2 DEF StaysAt
    <2>8. JobInv(d)'
      BY <2>5 DEF JobInv
    <2> QED
      BY <1>6, <2>3, <2>4, <2>6, <2>7, <2>8, OneDevice DEF DeviceInv
  <1> QED
    BY <1>7, <1>8

\* What a batch brings.
LEMMA WrittenSet ==
    ASSUME NEW S, NEW batch \in Seq(S)
    PROVE  /\ IsFiniteSet(Written(batch))
           /\ \A op : op \in Written(batch) <=> \E i \in 1..Len(batch) : op = batch[i]
  <1>1. DOMAIN batch = 1..Len(batch) /\ Len(batch) \in Nat
    OBVIOUS
  <1>2. IsFiniteSet(1..Len(batch))
    BY <1>1, FS_Interval
  <1> DEFINE f == [i \in 1..Len(batch) |-> batch[i]]
  <1>3. f \in Surjection(1..Len(batch), Written(batch))
    BY <1>1 DEF Surjection, Written
  <1> QED
    BY <1>1, <1>2, <1>3, FS_Surjection DEF Written

\* Operations of its own that come after all of its own.
LEMMA OwnSaved ==
    ASSUME IndInv, NEW d \in Devices, NEW W, IsFiniteSet(W),
           log' = [log EXCEPT ![d] = log[d] \cup W],
           \A op \in W : op.dev = d /\ op.clock \in Nat,
           \A op \in W : \A own \in Own(d) : own.clock < op.clock,
           \A a, b \in W : a.clock = b.clock => a = b
    PROVE  /\ log' = [x \in Devices |-> log'[x]]
           /\ log'[d] = log[d] \cup W
           /\ \A e \in Devices : e # d => log'[e] = log[e]
           /\ IsFiniteSet(log'[d]) /\ Start \subseteq log'[d]
           /\ \A op \in log'[d] : op.clock \in Nat /\ (op.dev \in Devices \/ op \in Start)
           /\ Home' /\ Unlike(d)'
  <1>1. /\ log' = [x \in Devices |-> log'[x]]
        /\ log'[d] = log[d] \cup W
        /\ \A e \in Devices : e # d => log'[e] = log[e]
    BY DEF IndInv, Functional
  <1>2. Stored(d) /\ Unlike(d) /\ Home
    BY DEF IndInv, DeviceInv
  <1>3. IsFiniteSet(log'[d])
    BY <1>1, <1>2, FS_Union DEF Stored
  <1>4. /\ Start \subseteq log'[d]
        /\ \A op \in log'[d] : op.clock \in Nat /\ (op.dev \in Devices \/ op \in Start)
    BY <1>1, <1>2 DEF Stored
  <1>5. Home'
    BY <1>1, <1>2 DEF Home
  <1>6. Unlike(d)'
    <2>1. Own(d)' = Own(d) \cup W
      BY <1>1 DEF Own
    <2>2. \A op \in Own(d) : op.clock \in Nat
      BY <1>2 DEF Own, Stored
    <2>3. \A a, b \in Own(d) \cup W : a.clock = b.clock => a = b
      BY <1>2, <2>2 DEF Unlike
    <2> QED
      BY <2>1, <2>3 DEF Unlike
  <1> QED
    BY <1>1, <1>3, <1>4, <1>5, <1>6

LEMMA BatchSaved ==
    ASSUME IndInv, NEW d \in Devices, Working(d)
    PROVE  LET W == Written(job[d].batch) IN
           /\ IsFiniteSet(W)
           /\ \A op \in W : op.dev = d /\ op.clock \in Nat
           /\ \A op \in W : \A old \in job[d].base \cup Own(d) : old.clock < op.clock
           /\ \A a, b \in W : a.clock = b.clock => a = b
           /\ \A i \in 1..Len(job[d].batch) : job[d].batch[i] \in W
           /\ Len(job[d].batch) \in Nat /\ Len(job[d].batch) > 0
  <1> DEFINE batch == job[d].batch
             W == Written(batch)
  <1>1. Later(d, batch, job[d].base)
    BY DEF Working
  <1>2. PICK S : batch \in Seq(S)
    BY <1>1 DEF Later
  <1>3. /\ IsFiniteSet(W) /\ \A op : op \in W <=> \E i \in 1..Len(batch) : op = batch[i]
    BY <1>2, WrittenSet
  <1>4. Len(batch) \in Nat /\ Len(batch) > 0
    BY <1>1, <1>2 DEF Later
  <1> HIDE DEF batch, W
  <1>5. \A op \in W : op.dev = d /\ op.clock \in Nat
    BY <1>1, <1>3 DEF Later
  <1>6. \A op \in W : \A old \in job[d].base \cup Own(d) : old.clock < op.clock
    BY <1>1, <1>3 DEF Later
  <1>7. ASSUME NEW a \in W, NEW b \in W, a.clock = b.clock PROVE a = b
    <2>1. PICK i \in 1..Len(batch) : a = batch[i]
      BY <1>3
    <2>2. PICK j \in 1..Len(batch) : b = batch[j]
      BY <1>3
    <2>3. ~(i < j) /\ ~(j < i)
      <3>1. i < j => batch[i].clock < batch[j].clock
        BY <1>1 DEF Later
      <3>2. j < i => batch[j].clock < batch[i].clock
        BY <1>1 DEF Later
      <3>3. batch[i].clock \in Nat /\ batch[j].clock = batch[i].clock
        BY <1>5, <1>7, <2>1, <2>2
      <3> QED
        BY <3>1, <3>2, <3>3
    <2> QED
      BY <1>4, <2>1, <2>2, <2>3
  <1> QED
    BY <1>3, <1>4, <1>5, <1>6, <1>7 DEF batch, W

LEMMA SaveInv == ASSUME IndInv, NEW d \in Devices, Save(d) PROVE IndInv'
  <1> DEFINE batch == job[d].batch
             W == Written(batch)
  <1>1. /\ job[d].pc = "contacts"
        /\ log' = [log EXCEPT ![d] = log[d] \cup W]
        /\ shown' = [shown EXCEPT ![d] = job[d].base \cup W]
        /\ clockRef' = [clockRef EXCEPT ![d].contacts = batch[Len(batch)].clock]
        /\ tasks' = [tasks EXCEPT ![d] = Tail(tasks[d])]
        /\ job' = [job EXCEPT ![d] = NoJob]
        /\ calls' = calls
    BY DEF Save, EndTask
  <1>2. Working(d)
    BY <1>1 DEF IndInv, DeviceInv, JobInv, Idle, NoJob
  <1>3. /\ IsFiniteSet(W)
        /\ \A op \in W : op.dev = d /\ op.clock \in Nat
        /\ \A op \in W : \A old \in job[d].base \cup Own(d) : old.clock < op.clock
        /\ \A a, b \in W : a.clock = b.clock => a = b
        /\ \A i \in 1..Len(batch) : batch[i] \in W
        /\ Len(batch) \in Nat /\ Len(batch) > 0
    BY <1>2, BatchSaved
  <1> HIDE DEF W, batch
  <1>4. /\ log' = [x \in Devices |-> log'[x]]
        /\ log'[d] = log[d] \cup W
        /\ \A e \in Devices : e # d => log'[e] = log[e]
        /\ IsFiniteSet(log'[d]) /\ Start \subseteq log'[d]
        /\ \A op \in log'[d] : op.clock \in Nat /\ (op.dev \in Devices \/ op \in Start)
        /\ Home' /\ Unlike(d)'
    BY <1>1, <1>3, OwnSaved
  <1>5. /\ shown' = [x \in Devices |-> shown'[x]] /\ shown'[d] = job[d].base \cup W
        /\ \A e \in Devices : e # d => shown'[e] = shown[e]
    BY <1>1 DEF IndInv, Functional
  <1>6. /\ job' = [x \in Devices |-> job'[x]] /\ job'[d] = NoJob
        /\ \A e \in Devices : e # d => job'[e] = job[e]
    BY <1>1 DEF IndInv, Functional
  <1>7. tasks[d] # <<>> /\ Head(tasks[d]).kind # "reload"
    BY <1>2 DEF Working
  <1>8. /\ tasks' = [x \in Devices |-> tasks'[x]]
        /\ \A e \in Devices : e # d => tasks'[e] = tasks[e]
        /\ Queued(d)'
        /\ ReloadDue(tasks[d]) => ReloadDue(tasks'[d])
    BY <1>1, <1>7, TaskEnds
  <1>9. clockRef' \in [Devices -> [contacts : Nat, family : Nat]]
    <2>1. batch[Len(batch)].clock \in Nat
      BY <1>3
    <2> QED
      BY <1>1, <2>1 DEF IndInv, Functional
  <1>10. Functional'
    BY <1>1, <1>4, <1>5, <1>6, <1>8, <1>9 DEF IndInv, Functional
  <1>11. job[d].base \subseteq log[d]
    BY <1>2 DEF Working
  <1>12. Stored(d)'
    BY <1>4, <1>5, <1>11 DEF Stored
  <1>13. JobInv(d)'
    BY <1>6 DEF JobInv, Idle
  <1>14. Fresh(d)'
    <2> SUFFICES ASSUME ~ReloadDue(tasks'[d])
                 PROVE  OwnAdds(d, log'[d] \ shown'[d]) /\ job'[d].pc # "contacts"
      BY DEF Fresh, OwnAdds
    <2>1. job[d].base = log[d]
      BY <1>1, <1>8 DEF IndInv, DeviceInv, Fresh
    <2>2. log'[d] \ shown'[d] = {}
      BY <1>4, <1>5, <2>1
    <2> QED
      BY <1>6, <2>2 DEF OwnAdds, NoJob
  <1>15. DeviceInv(d)'
    BY <1>4, <1>8, <1>12, <1>13, <1>14 DEF DeviceInv
  <1>16. \A e \in Devices : e # d => StaysAt(e)
    BY <1>4, <1>5, <1>6, <1>8 DEF StaysAt
  <1> QED
    BY <1>4, <1>10, <1>15, <1>16, OneDevice

LEMMA SaveFailsInv == ASSUME IndInv, NEW d \in Devices, SaveFails(d) PROVE IndInv'
  <1>1. /\ ~Idle(d) /\ tasks' = [tasks EXCEPT ![d] = Tail(tasks[d])]
        /\ job' = [job EXCEPT ![d] = NoJob]
        /\ log' = log /\ shown' = shown /\ clockRef' = clockRef /\ calls' = calls
    BY DEF SaveFails, EndTask
  <1>2. tasks[d] # <<>> /\ Head(tasks[d]).kind # "reload"
    BY <1>1 DEF IndInv, DeviceInv, JobInv, Working
  <1>3. /\ tasks' = [x \in Devices |-> tasks'[x]]
        /\ \A e \in Devices : e # d => tasks'[e] = tasks[e]
        /\ Queued(d)'
        /\ ReloadDue(tasks[d]) => ReloadDue(tasks'[d])
    BY <1>1, <1>2, TaskEnds
  <1>4. /\ job' = [x \in Devices |-> job'[x]] /\ job'[d] = NoJob
        /\ \A e \in Devices : e # d => job'[e] = job[e]
    BY <1>1 DEF IndInv, Functional
  <1>5. Functional'
    BY <1>1, <1>3, <1>4 DEF IndInv, Functional
  <1>6. Home' /\ Stored(d)' /\ Unlike(d)'
    BY <1>1 DEF IndInv, DeviceInv, Home, Stored, Unlike, Own
  <1>7. JobInv(d)'
    BY <1>4 DEF JobInv, Idle
  <1>8. Fresh(d)'
    BY <1>1, <1>3, <1>4 DEF IndInv, DeviceInv, Fresh, NoJob
  <1>9. \A e \in Devices : e # d => StaysAt(e)
    BY <1>1, <1>3, <1>4 DEF StaysAt
  <1> QED
    BY <1>3, <1>5, <1>6, <1>7, <1>8, <1>9, OneDevice DEF DeviceInv

LEMMA RestShape ==
    ASSUME NEW S, NEW s \in Seq(S), 1 \in 1..Len(s), Len(s) # 1
    PROVE  /\ Tail(s) \in Seq(S) /\ Len(Tail(s)) = Len(s) - 1 /\ Tail(s) # <<>>
           /\ \A i \in 1..Len(Tail(s)) : i + 1 \in 1..Len(s) /\ Tail(s)[i] = s[i + 1]
           /\ 2 \in 1..Len(s)
  <1>1. s # <<>> /\ Len(s) \in Nat
    OBVIOUS
  <1>2. Tail(s) \in Seq(S) /\ Len(Tail(s)) = Len(s) - 1
    BY <1>1
  <1>3. \A i \in 1..Len(Tail(s)) : i + 1 \in 1..Len(s) /\ Tail(s)[i] = s[i + 1]
    BY <1>1, <1>2
  <1>4. 2 \in 1..Len(s) /\ Len(Tail(s)) # 0
    BY <1>1, <1>2
  <1>5. ASSUME NEW u, Len(u) # 0 PROVE u # <<>>
    BY <1>5
  <1>6. Tail(s) # <<>>
    BY <1>4, <1>5, Zenon
  <1> QED
    BY <1>2, <1>3, <1>4, <1>6

LEMMA RestOfBatch ==
    ASSUME NEW r, r = [pc |-> r.pc, batch |-> r.batch, base |-> r.base],
           NEW rest, NEW next, next = [r EXCEPT !.batch = rest]
    PROVE  next = [pc |-> r.pc, batch |-> rest, base |-> r.base]
  OBVIOUS

LEMMA SaveOneInv == ASSUME IndInv, NEW d \in Devices, SaveOne(d) PROVE IndInv'
  <1> DEFINE batch == job[d].batch
             first == Head(batch)
  <1>1. /\ job[d].pc = "family"
        /\ log' = [log EXCEPT ![d] = log[d] \cup {first}]
        /\ shown' = shown /\ calls' = calls
    BY DEF SaveOne
  <1>2. Working(d)
    BY <1>1 DEF IndInv, DeviceInv, JobInv, Idle, NoJob
  <1>3. Later(d, batch, job[d].base) /\ Family(batch)
    BY <1>1, <1>2 DEF Working
  <1>4. PICK S : batch \in Seq(S)
    BY <1>3 DEF Later
  <1>5. first = batch[1] /\ Len(batch) \in Nat /\ 1 \in 1..Len(batch)
    BY <1>3, <1>4 DEF Later
  <1>6. /\ first.dev = d /\ first.clock \in Nat /\ first.act \in FamilyActs
        /\ \A own \in Own(d) : own.clock < first.clock
    BY <1>3, <1>5 DEF Later, Family
  <1>7. /\ log' = [x \in Devices |-> log'[x]]
        /\ log'[d] = log[d] \cup {first}
        /\ \A e \in Devices : e # d => log'[e] = log[e]
        /\ IsFiniteSet(log'[d]) /\ Start \subseteq log'[d]
        /\ \A op \in log'[d] : op.clock \in Nat /\ (op.dev \in Devices \/ op \in Start)
        /\ Home' /\ Unlike(d)'
    <2>1. IsFiniteSet({first})
      BY FS_Singleton
    <2> HIDE DEF first
    <2> QED
      BY <1>1, <1>6, <2>1, OwnSaved
  <1>8. Stored(d)'
    BY <1>1, <1>7 DEF IndInv, DeviceInv, Stored
  <1>9. log'[d] \ shown'[d] \subseteq (log[d] \ shown[d]) \cup {first}
    BY <1>1, <1>7
  <1>10. ~ReloadDue(tasks[d]) => OwnAdds(d, log'[d] \ shown'[d])
    <2>1. ~ReloadDue(tasks[d]) => OwnAdds(d, log[d] \ shown[d])
      BY DEF IndInv, DeviceInv, Fresh
    <2> HIDE DEF first
    <2> QED
      BY <1>6, <1>9, <2>1 DEF OwnAdds
  <1>11. CASE Len(batch) = 1
    <2>1. /\ tasks' = [tasks EXCEPT ![d] = Tail(tasks[d])] /\ job' = [job EXCEPT ![d] = NoJob]
          /\ clockRef' = clockRef
      BY <1>11 DEF SaveOne, EndTask
    <2>2. tasks[d] # <<>> /\ Head(tasks[d]).kind # "reload"
      BY <1>2 DEF Working
    <2>3. /\ tasks' = [x \in Devices |-> tasks'[x]]
          /\ \A e \in Devices : e # d => tasks'[e] = tasks[e]
          /\ Queued(d)'
          /\ ReloadDue(tasks[d]) => ReloadDue(tasks'[d])
      BY <2>1, <2>2, TaskEnds
    <2>4. /\ job' = [x \in Devices |-> job'[x]] /\ job'[d] = NoJob
          /\ \A e \in Devices : e # d => job'[e] = job[e]
      BY <2>1 DEF IndInv, Functional
    <2>5. Functional'
      BY <1>1, <1>7, <2>1, <2>3, <2>4 DEF IndInv, Functional
    <2>6. JobInv(d)' /\ Fresh(d)'
      BY <1>10, <2>3, <2>4 DEF JobInv, Idle, Fresh, NoJob
    <2>7. \A e \in Devices : e # d => StaysAt(e)
      BY <1>1, <1>7, <2>3, <2>4 DEF StaysAt
    <2> QED
      BY <1>7, <1>8, <2>3, <2>5, <2>6, <2>7, OneDevice DEF DeviceInv
  <1>12. CASE Len(batch) # 1
    <2>1. /\ job' = [job EXCEPT ![d].batch = Tail(batch)] /\ tasks' = tasks
          /\ clockRef' = [clockRef EXCEPT ![d].family = batch[2].clock]
      BY <1>12 DEF SaveOne
    <2>2. /\ Tail(batch) \in Seq(S) /\ Len(Tail(batch)) = Len(batch) - 1 /\ Tail(batch) # <<>>
          /\ \A i \in 1..Len(Tail(batch)) : i + 1 \in 1..Len(batch) /\ Tail(batch)[i] = batch[i + 1]
          /\ 2 \in 1..Len(batch)
      BY <1>4, <1>5, <1>12, RestShape
    <2>3. /\ job' = [x \in Devices |-> job'[x]]
          /\ job'[d] = [pc |-> "family", batch |-> Tail(batch), base |-> job[d].base]
          /\ \A e \in Devices : e # d => job'[e] = job[e]
      <3> DEFINE rest == Tail(batch)
                 next == [job[d] EXCEPT !.batch = rest]
      <3>1. job' = [job EXCEPT ![d] = next]
        BY <2>1
      <3>2. job[d] = [pc |-> job[d].pc, batch |-> job[d].batch, base |-> job[d].base]
        BY <1>2 DEF Working
      <3>3. next = [job[d] EXCEPT !.batch = rest]
        OBVIOUS
      <3> HIDE DEF rest, next
      <3>4. next = [pc |-> job[d].pc, batch |-> rest, base |-> job[d].base]
        BY <3>2, <3>3, RestOfBatch
      <3>5. /\ job' = [x \in Devices |-> job'[x]] /\ job'[d] = next
            /\ \A e \in Devices : e # d => job'[e] = job[e]
        BY <3>1, ChangedAt DEF IndInv, Functional
      <3> QED
        BY <1>1, <3>4, <3>5 DEF rest
    <2>4. clockRef' \in [Devices -> [contacts : Nat, family : Nat]]
      <3>1. batch[2].clock \in Nat
        BY <1>3, <2>2 DEF Later
      <3> QED
        BY <2>1, <3>1 DEF IndInv, Functional
    <2>5. Functional'
      BY <1>1, <1>7, <2>1, <2>3, <2>4 DEF IndInv, Functional
    <2>6. Queued(d)'
      BY <2>1 DEF IndInv, DeviceInv, Queued
    <2>7. Working(d)'
      <3>1. Own(d)' = Own(d) \cup {first}
        BY <1>6, <1>7 DEF Own
      <3>2. Later(d, job[d].batch, job[d].base)'
        <4>1. job'[d].batch = Tail(batch) /\ job'[d].base = job[d].base
          BY <2>3
        <4>2. \A i \in 1..Len(Tail(batch)) : Tail(batch)[i].dev = d /\ Tail(batch)[i].clock \in Nat
          BY <1>3, <2>2 DEF Later
        <4>3. \A i \in 1..Len(Tail(batch)) :
                  \A op \in job[d].base \cup Own(d) : op.clock < Tail(batch)[i].clock
          BY <1>3, <2>2 DEF Later
        <4>4. \A i \in 1..Len(Tail(batch)) : first.clock < Tail(batch)[i].clock
          <5> SUFFICES ASSUME NEW i \in 1..Len(Tail(batch)) PROVE batch[1].clock < batch[i + 1].clock
            BY <1>5, <2>2
          <5>1. i + 1 \in 1..Len(batch) /\ 1 < i + 1
            BY <2>2
          <5> QED
            BY <1>3, <1>5, <5>1 DEF Later
        <4>5. \A i, j \in 1..Len(Tail(batch)) : i < j => Tail(batch)[i].clock < Tail(batch)[j].clock
          <5> SUFFICES ASSUME NEW i \in 1..Len(Tail(batch)), NEW j \in 1..Len(Tail(batch)), i < j
                       PROVE  batch[i + 1].clock < batch[j + 1].clock
            BY <2>2
          <5>1. i + 1 \in 1..Len(batch) /\ j + 1 \in 1..Len(batch) /\ i + 1 < j + 1
            BY <2>2
          <5> QED
            BY <1>3, <5>1 DEF Later
        <4> HIDE DEF first, batch
        <4>6. \A i \in 1..Len(Tail(batch)) :
                  \A op \in job[d].base \cup (Own(d) \cup {first}) : op.clock < Tail(batch)[i].clock
          BY <4>3, <4>4
        <4> QED
          BY <2>2, <3>1, <4>1, <4>2, <4>5, <4>6 DEF Later
      <3>3. Family(job'[d].batch)
        <4>1. \A i \in 1..Len(Tail(batch)) : Tail(batch)[i].act \in FamilyActs
          BY <1>3, <2>2 DEF Family
        <4> QED
          BY <2>3, <4>1 DEF Family
      <3>4. shown'[d] \subseteq job'[d].base /\ job'[d].base \subseteq log'[d]
        BY <1>1, <1>2, <1>7, <2>3 DEF Working
      <3>5. tasks'[d] # <<>> /\ Head(tasks'[d]).kind # "reload"
        BY <1>2, <2>1 DEF Working
      <3>6. /\ job'[d] = [pc |-> job'[d].pc, batch |-> job'[d].batch, base |-> job'[d].base]
            /\ job'[d].pc = "family"
        BY <2>3
      <3> QED
        BY <3>2, <3>3, <3>4, <3>5, <3>6 DEF Working
    <2>8. JobInv(d)' /\ Fresh(d)'
      BY <1>10, <2>1, <2>3, <2>7 DEF JobInv, Fresh
    <2>9. \A e \in Devices : e # d => StaysAt(e)
      BY <1>1, <1>7, <2>1, <2>3 DEF StaysAt
    <2> QED
      BY <1>7, <1>8, <2>5, <2>6, <2>8, <2>9, OneDevice DEF DeviceInv
  <1> QED
    BY <1>11, <1>12

LEMMA ReloadInv == ASSUME IndInv, NEW d \in Devices, Reload(d) PROVE IndInv'
  <1>1. /\ job[d] = NoJob /\ tasks[d] # <<>>
        /\ shown' = [shown EXCEPT ![d] = log[d]]
        /\ clockRef' = [clockRef EXCEPT ![d].contacts = Frontier(log[d])]
        /\ tasks' = [tasks EXCEPT ![d] = Tail(tasks[d])]
        /\ log' = log /\ job' = job /\ calls' = calls
    BY DEF Reload, Idle
  <1>2. Frontier(log[d]) \in Nat
    BY FrontierBounds DEF IndInv, DeviceInv, Stored
  <1>3. clockRef' \in [Devices -> [contacts : Nat, family : Nat]]
    BY <1>1, <1>2 DEF IndInv, Functional
  <1>4. /\ shown' = [x \in Devices |-> shown'[x]] /\ shown'[d] = log[d]
        /\ \A e \in Devices : e # d => shown'[e] = shown[e]
    BY <1>1 DEF IndInv, Functional
  <1>5. /\ tasks' = [x \in Devices |-> tasks'[x]] /\ tasks'[d] = Tail(tasks[d])
        /\ \A e \in Devices : e # d => tasks'[e] = tasks[e]
    BY <1>1 DEF IndInv, Functional
  <1>6. Functional'
    BY <1>1, <1>3, <1>4, <1>5 DEF IndInv, Functional
  <1>7. Home' /\ Stored(d)' /\ Unlike(d)'
    BY <1>1, <1>4 DEF IndInv, DeviceInv, Home, Stored, Unlike, Own
  <1>8. Queued(d)'
    BY <1>1, <1>5, TailQueue DEF IndInv, DeviceInv, Queued
  <1>9. JobInv(d)' /\ Fresh(d)'
    BY <1>1, <1>4 DEF JobInv, Idle, Fresh, NoJob, OwnAdds
  <1>10. \A e \in Devices : e # d => StaysAt(e)
    BY <1>1, <1>4, <1>5 DEF StaysAt
  <1> QED
    BY <1>6, <1>7, <1>8, <1>9, <1>10, OneDevice DEF DeviceInv

LEMMA ReloadFamilyInv == ASSUME IndInv, NEW d \in Devices, ReloadFamily(d) PROVE IndInv'
  <1>1. /\ job[d] = NoJob /\ tasks[d] # <<>> /\ Head(tasks[d]).kind # "reload"
        /\ clockRef' = [clockRef EXCEPT ![d].family = Frontier(log[d])]
        /\ tasks' = [tasks EXCEPT ![d] = Tail(tasks[d])]
        /\ log' = log /\ shown' = shown /\ job' = job /\ calls' = calls
    BY DEF ReloadFamily, Idle
  <1>2. Frontier(log[d]) \in Nat
    BY FrontierBounds DEF IndInv, DeviceInv, Stored
  <1>3. clockRef' \in [Devices -> [contacts : Nat, family : Nat]]
    BY <1>1, <1>2 DEF IndInv, Functional
  <1>4. /\ tasks' = [x \in Devices |-> tasks'[x]]
        /\ \A e \in Devices : e # d => tasks'[e] = tasks[e]
        /\ Queued(d)'
        /\ ReloadDue(tasks[d]) => ReloadDue(tasks'[d])
    BY <1>1, TaskEnds
  <1>5. Functional'
    BY <1>1, <1>3, <1>4 DEF IndInv, Functional
  <1>6. Home' /\ Stored(d)' /\ Unlike(d)'
    BY <1>1 DEF IndInv, DeviceInv, Home, Stored, Unlike, Own
  <1>7. JobInv(d)' /\ Fresh(d)'
    BY <1>1, <1>4 DEF IndInv, DeviceInv, JobInv, Idle, Fresh, NoJob
  <1>8. \A e \in Devices : e # d => StaysAt(e)
    BY <1>1, <1>4 DEF StaysAt
  <1> QED
    BY <1>4, <1>5, <1>6, <1>7, <1>8, OneDevice DEF DeviceInv

LEMMA MergeInv == ASSUME IndInv, NEW d \in Devices, NEW e \in Devices, Merge(d, e) PROVE IndInv'
  <1>1. /\ log' = [log EXCEPT ![d] = log[d] \cup log[e]]
        /\ tasks' = [tasks EXCEPT ![d] = tasks[d] \o Reloads(d)]
        /\ shown' = shown /\ clockRef' = clockRef /\ job' = job /\ calls' = calls
    BY DEF Merge
  <1>2. /\ log' = [x \in Devices |-> log'[x]] /\ log'[d] = log[d] \cup log[e]
        /\ \A x \in Devices : x # d => log'[x] = log[x]
    BY <1>1 DEF IndInv, Functional
  <1>3. /\ tasks' = [x \in Devices |-> tasks'[x]] /\ tasks'[d] = tasks[d] \o Reloads(d)
        /\ \A x \in Devices : x # d => tasks'[x] = tasks[x]
    BY <1>1 DEF IndInv, Functional
  <1>4. PICK S : tasks[d] \in Seq(S)
    BY DEF IndInv, DeviceInv, Queued
  <1>5. /\ \E T : tasks'[d] \in Seq(T)
        /\ ReloadDue(tasks'[d])
        /\ tasks[d] # <<>> => tasks'[d] # <<>> /\ Head(tasks'[d]) = Head(tasks[d])
    BY <1>3, <1>4, ReloadsQueue
  <1>6. Functional'
    BY <1>1, <1>2, <1>3 DEF IndInv, Functional
  <1>7. Home'
    BY <1>2 DEF IndInv, Home
  <1>8. Stored(d)'
    <2>1. Stored(d) /\ Stored(e)
      BY DEF IndInv, DeviceInv
    <2>2. IsFiniteSet(log[d] \cup log[e])
      BY <2>1, FS_Union DEF Stored
    <2> QED
      BY <1>1, <1>2, <2>1, <2>2 DEF Stored
  <1>9. Own(d)' = Own(d)
    BY <1>2 DEF IndInv, Home, Own
  <1>10. Unlike(d)' /\ Queued(d)'
    BY <1>5, <1>9 DEF IndInv, DeviceInv, Unlike, Queued
  <1>11. JobInv(d)'
    <2>1. CASE Idle(d)
      BY <1>1, <2>1 DEF JobInv, Idle
    <2>2. CASE Working(d)
      <3>1. Later(d, job[d].batch, job[d].base)'
        BY <1>1, <1>9, <2>2 DEF Working, Later
      <3>2. job'[d].base \subseteq log'[d]
        BY <1>1, <1>2, <2>2 DEF Working
      <3> QED
        BY <1>1, <1>5, <2>2, <3>1, <3>2 DEF JobInv, Working
    <2> QED
      BY <2>1, <2>2 DEF IndInv, DeviceInv, JobInv
  <1>12. Fresh(d)'
    BY <1>5 DEF Fresh
  <1>13. \A x \in Devices : x # d => StaysAt(x)
    BY <1>1, <1>2, <1>3 DEF StaysAt
  <1> QED
    BY <1>6, <1>7, <1>8, <1>10, <1>11, <1>12, <1>13, OneDevice DEF DeviceInv

LEMMA NextInv == IndInv /\ [Next]_vars => IndInv'
  <1> SUFFICES ASSUME IndInv, [Next]_vars PROVE IndInv'
    OBVIOUS
  <1>1. CASE Next
    <2>1. PICK d \in Devices :
              \/ Call(d) \/ Plan(d) \/ Save(d) \/ SaveOne(d) \/ SaveFails(d) \/ Reload(d) \/ ReloadFamily(d)
              \/ \E e \in Devices : Merge(d, e)
      BY <1>1 DEF Next
    <2> QED
      BY <2>1, CallInv, PlanInv, SaveInv, SaveOneInv, SaveFailsInv, ReloadInv, ReloadFamilyInv, MergeInv
  <1>2. CASE UNCHANGED vars
    <2>1. Functional' /\ Home'
      BY <1>2 DEF vars, IndInv, Functional, Home
    <2>2. \A e \in Devices : StaysAt(e)
      BY <1>2 DEF vars, StaysAt
    <2>3. \A e \in Devices : DeviceInv(e)'
      BY <2>2, Untouched DEF IndInv
    <2> QED
      BY <2>1, <2>3 DEF IndInv
  <1> QED
    BY <1>1, <1>2

LEMMA Invariance == Spec => []IndInv
  BY InitInv, NextInv, PTL DEF Spec

-----------------------------------------------------------------------------
(* Results.                                                                *)

LEMMA Typed == IndInv => TypeOK
  <1> SUFFICES ASSUME IndInv PROVE TypeOK
    OBVIOUS
  <1>1. ASSUME NEW d \in Devices
        PROVE  /\ Start \subseteq log[d] /\ shown[d] \subseteq log[d]
               /\ job[d].base \subseteq log[d]
               /\ job[d].pc \in {"idle", "contacts", "family"}
               /\ calls[d] \in 0..MaxCalls[d]
    <2>1. Stored(d) /\ calls[d] \in 0..MaxCalls[d] /\ (Idle(d) \/ Working(d))
      BY DEF IndInv, DeviceInv, Functional, JobInv
    <2> QED
      BY <2>1 DEF Stored, Idle, NoJob, Working
  <1>2. ASSUME NEW op \in Held PROVE op.clock \in Nat /\ op.dev \in Authors
    BY <1>2 DEF Held, IndInv, DeviceInv, Stored, Authors
  <1> QED
    BY <1>1, <1>2 DEF TypeOK

(* Logs keep what they began with, screens and tasks are made from what is *)
(* stored, and no call is lost count of.                                   *)
THEOREM TypeCorrect == Spec => []TypeOK
  BY Typed, Invariance, PTL

LEMMA StampedApart == IndInv => StampsDistinct
  <1> SUFFICES ASSUME IndInv, NEW a \in Held, NEW b \in Held, a.dev = b.dev, a.clock = b.clock
               PROVE  a = b
    BY DEF StampsDistinct
  <1>1. PICK d \in Devices : a \in log[d]
    BY DEF Held
  <1>2. PICK e \in Devices : b \in log[e]
    BY DEF Held
  <1>3. CASE a.dev \in Devices
    <2>1. a \in Own(a.dev) /\ b \in Own(a.dev)
      BY <1>1, <1>2, <1>3 DEF IndInv, Home, Own
    <2> QED
      BY <1>3, <2>1 DEF IndInv, DeviceInv, Unlike
  <1>4. CASE a.dev \notin Devices
    <2>1. a \in Start /\ b \in Start
      BY <1>1, <1>2, <1>4 DEF IndInv, DeviceInv, Stored
    <2> QED
      BY <2>1, WritersAssumption DEF WritersAssumption
  <1> QED
    BY <1>3, <1>4

(* The two hooks of a device never give one stamp to two operations        *)
(* (contacts-v2-queue.ts), whatever is queued, merged, or refused by the    *)
(* store.                                                                  *)
THEOREM StampsDistinctHolds == Spec => []StampsDistinct
  BY StampedApart, Invariance, PTL

(* With an empty queue a contact screen lags behind its log only by what   *)
(* the family hook of its own device wrote (onRemoteMerged queues a reload  *)
(* after every merge).                                                     *)
THEOREM ScreenCatchesUpHolds == Spec => []ScreenCatchesUp
  <1>1. IndInv => ScreenCatchesUp
    <2> SUFFICES ASSUME IndInv, NEW d \in Devices, tasks[d] = <<>>, NEW op \in log[d] \ shown[d]
                 PROVE  op.dev = d /\ op.act \in {"add", "add-identity"}
      BY DEF ScreenCatchesUp
    <2>1. ~ReloadDue(tasks[d])
      BY DEF ReloadDue
    <2> QED
      BY <2>1 DEF IndInv, DeviceInv, Fresh, OwnAdds, FamilyActs
  <1> QED
    BY <1>1, Invariance, PTL

(* What a device saves comes, in the order of replay, after everything its *)
(* screen showed: a merge between plan and save does not change that, as   *)
(* the screen is not made anew while a task is under way.                  *)
LEMMA EffectStep ==
    ASSUME IndInv, [Next]_vars, NEW d \in Devices, NEW op \in log'[d] \ Held, NEW seen \in shown[d]
    PROVE  Before(seen, op)
  <1> DEFINE Past(e, x) == \A old \in shown[e] : old.clock < x.clock
  <1>1. ASSUME NEW e \in Devices, NEW W,
               log' = [log EXCEPT ![e] = log[e] \cup W], \A x \in W : Past(e, x)
        PROVE  Before(seen, op)
    <2>1. e = d /\ op \in W
      BY <1>1 DEF IndInv, Functional, Held
    <2> QED
      BY <1>1, <2>1 DEF Before
  <1>2. ASSUME NEW e \in Devices, Save(e) PROVE Before(seen, op)
    <2>1. Working(e)
      BY <1>2 DEF Save, IndInv, DeviceInv, JobInv, Idle, NoJob
    <2>2. \A x \in Written(job[e].batch) : Past(e, x)
      BY <2>1, BatchSaved DEF Working
    <2>3. log' = [log EXCEPT ![e] = log[e] \cup Written(job[e].batch)]
      BY <1>2 DEF Save
    <2> QED
      BY <1>1, <2>2, <2>3
  <1>3. ASSUME NEW e \in Devices, SaveOne(e) PROVE Before(seen, op)
    <2>1. Working(e)
      BY <1>3 DEF SaveOne, IndInv, DeviceInv, JobInv, Idle, NoJob
    <2>2. Head(job[e].batch) = job[e].batch[1] /\ 1 \in 1..Len(job[e].batch)
      BY <2>1 DEF Working, Later
    <2>3. Past(e, Head(job[e].batch))
      BY <2>1, <2>2 DEF Working, Later
    <2> DEFINE W == {Head(job[e].batch)}
    <2>4. log' = [log EXCEPT ![e] = log[e] \cup W]
      BY <1>3 DEF SaveOne
    <2>5. \A x \in W : Past(e, x)
      BY <2>3
    <2> HIDE DEF W
    <2> QED
      BY <1>1, <2>4, <2>5
  <1>4. ASSUME NEW e \in Devices, NEW f \in Devices, Merge(e, f) PROVE FALSE
    BY <1>4 DEF Merge, IndInv, Functional, Held
  <1>5. ASSUME log' = log PROVE FALSE
    BY <1>5 DEF Held
  <1>6. CASE Next
    <2>1. PICK e \in Devices :
              \/ Call(e) \/ Plan(e) \/ Save(e) \/ SaveOne(e) \/ SaveFails(e) \/ Reload(e) \/ ReloadFamily(e)
              \/ \E f \in Devices : Merge(e, f)
      BY <1>6 DEF Next
    <2>2. CASE Call(e) \/ Plan(e) \/ SaveFails(e) \/ Reload(e) \/ ReloadFamily(e)
      BY <1>5, <2>2 DEF Call, Plan, SaveFails, Reload, ReloadFamily
    <2> QED
      BY <1>2, <1>3, <1>4, <2>1, <2>2
  <1> QED
    BY <1>5, <1>6 DEF vars

THEOREM EffectFollowsCauseHolds == Spec => EffectFollowsCause
  <1>1. IndInv /\ [Next]_vars =>
            [\A d \in Devices : \A op \in log'[d] \ Held : \A seen \in shown[d] : Before(seen, op)]_vars
    BY EffectStep
  <1> QED
    BY <1>1, Invariance, PTL DEF Spec, EffectFollowsCause

-----------------------------------------------------------------------------
(* The order of replay.                                                    *)

\* What Before compares.
Comparable(S) ==
    /\ \A op \in S : op.clock \in Nat /\ op.dev \in Authors
    /\ \A a, b \in S : a.dev = b.dev /\ a.clock = b.clock => a = b

LEMMA BeforeTotal ==
    ASSUME NEW S, Comparable(S), NEW a \in S, NEW b \in S, a # b
    PROVE  Before(a, b) \/ Before(b, a)
  <1>1. /\ a.clock \in Nat /\ b.clock \in Nat /\ a.dev \in Authors /\ b.dev \in Authors
        /\ a.dev # b.dev \/ a.clock # b.clock
    BY DEF Comparable
  <1>2. CASE a.clock # b.clock
    BY <1>1, <1>2 DEF Before
  <1>3. CASE a.clock = b.clock
    <2>1. /\ Actor[a.dev] \in Nat /\ Tie[a.dev] \in Nat /\ Actor[b.dev] \in Nat /\ Tie[b.dev] \in Nat
          /\ Actor[a.dev] # Actor[b.dev] \/ Tie[a.dev] # Tie[b.dev]
      BY <1>1, <1>3, OrderAssumption DEF OrderAssumption
    <2> QED
      BY <1>3, <2>1 DEF Before
  <1> QED
    BY <1>2, <1>3

\* On such a set Before looks no further than clock, actor and tie.
Precedes(a, b) ==
    \/ a.clock < b.clock
    \/ a.clock = b.clock /\ Actor[a.dev] < Actor[b.dev]
    \/ a.clock = b.clock /\ Actor[a.dev] = Actor[b.dev] /\ Tie[a.dev] < Tie[b.dev]

LEMMA BeforeTransitive ==
    ASSUME NEW S, Comparable(S), NEW a \in S, NEW b \in S, NEW c \in S,
           a # b, b # c, Before(a, b), Before(b, c)
    PROVE  Before(a, c) /\ ~Before(b, a)
  <1>1. /\ a.clock \in Nat /\ b.clock \in Nat /\ c.clock \in Nat
        /\ a.dev \in Authors /\ b.dev \in Authors /\ c.dev \in Authors
        /\ ~(a.dev = b.dev /\ a.clock = b.clock) /\ ~(b.dev = c.dev /\ b.clock = c.clock)
    BY DEF Comparable
  <1>2. /\ Actor[a.dev] \in Nat /\ Actor[b.dev] \in Nat /\ Actor[c.dev] \in Nat
        /\ Tie[a.dev] \in Nat /\ Tie[b.dev] \in Nat /\ Tie[c.dev] \in Nat
    BY <1>1, OrderAssumption DEF OrderAssumption
  <1>3. Precedes(a, b) /\ Precedes(b, c)
    BY <1>1 DEF Before, Precedes
  <1>4. Precedes(a, c) /\ ~Precedes(b, a)
    BY <1>1, <1>2, <1>3 DEF Precedes
  <1> QED
    BY <1>1, <1>4 DEF Before, Precedes

LEMMA ComparableOrdered ==
    ASSUME NEW S, Comparable(S), IsFiniteSet(S)
    PROVE  Ordered(S)
  BY BeforeTotal, BeforeTransitive DEF Ordered

LEMMA LogOrdered ==
    ASSUME IndInv, NEW d \in Devices
    PROVE  Ordered(log[d])
  <1>1. log[d] \subseteq Held /\ IsFiniteSet(log[d])
    BY DEF Held, IndInv, DeviceInv, Stored
  <1>2. Comparable(log[d])
    BY <1>1, Typed, StampedApart DEF TypeOK, StampsDistinct, Comparable
  <1> QED
    BY <1>1, <1>2, ComparableOrdered

\* Every set of stored operations has one before, and one after, all others.
Sorted ==
    \A d \in Devices : \A S \in (SUBSET log[d]) \ {{}} :
        /\ Earliest(S) \in S /\ \A op \in S \ {Earliest(S)} : Before(Earliest(S), op)
        /\ Latest(S) \in S   /\ \A op \in S \ {Latest(S)}   : Before(op, Latest(S))

(* The order of sortOperations leaves nothing to chance: the replay takes  *)
(* the operations of a log one after the other from one end, so that what   *)
(* it returns depends on the set and not on the order of arrival.           *)
THEOREM SortedHolds == Spec => []Sorted
  <1>1. IndInv => Sorted
    BY LogOrdered, EarliestIs, LatestIs DEF Sorted
  <1> QED
    BY <1>1, Invariance, PTL

-----------------------------------------------------------------------------
(* Every log is a directory: its operations are complete, and each is about *)
(* a contact that was added before.                                        *)

Causal(S) == \A op \in S : WellFormed(op) /\ AddedBefore(S, op)

\* What is still to be saved is complete, and about contacts that what its
\* task has read, what its device wrote, or the plan itself has added.
Founded(S, batch) ==
    \A i \in 1..Len(batch) :
        /\ WellFormed(batch[i])
        /\ \E add : /\ add \in S \/ \E j \in 1..i : add = batch[j]
                    /\ add.act = "add" /\ add.contact = batch[i].contact

Keyed == {"add-identity", "recognise", "share"}
Reloading == {"reload", "reload-family"}

\* What is queued points at contacts that the log knows, and at lists that
\* are; only their author may be asked to lift a block.
Proper(d, S, t) ==
    /\ t = [kind |-> t.kind, contact |-> t.contact, item |-> t.item, key |-> t.key, list |-> t.list,
            target |-> t.target, confirm |-> t.confirm, ids |-> t.ids]
    /\ t.kind \in Edited \cup Keyed \cup Reloading \cup {"add", "clear"}
    /\ t.kind \in Edited => AddsOf(S, t.contact) # {}
    /\ t.kind \in Keyed => t.key # "none"
    /\ t.kind \in {"link", "recognise"} => t.list # "none"
    /\ t.kind = "unblock" => Actor[t.target[1]] = Actor[d]

DirectoryInv(d) ==
    /\ Causal(log[d]) /\ Causal(shown[d])
    /\ \A i \in 1..Len(tasks[d]) : Proper(d, log[d], tasks[d][i])
    /\ ~Idle(d) => /\ Causal(job[d].base) /\ Founded(job[d].base \cup Own(d), job[d].batch)
                   /\ job[d].pc = "contacts" => Own(d) \subseteq job[d].base

DirectoriesInv == \A d \in Devices : DirectoryInv(d)

LEMMA CausalUnion ==
    ASSUME NEW A, NEW B, Causal(A), Causal(B)
    PROVE  Causal(A \cup B)
  BY DEF Causal, AddedBefore

LEMMA ProperMore ==
    ASSUME NEW d, NEW A, NEW B, A \subseteq B, NEW t, Proper(d, A, t)
    PROVE  Proper(d, B, t)
  BY DEF Proper, AddsOf

\* A set of stored operations that is causal is a directory.
LEMMA PartDirectory ==
    ASSUME IndInv, NEW d \in Devices, NEW S \in SUBSET log[d], Causal(S)
    PROVE  Directory(S)
  BY LogOrdered, OrderedPart DEF Directory, Causal

\* Contacts of a view.
LEMMA ViewContacts ==
    ASSUME NEW S, Directory(S)
    PROVE  /\ DOMAIN View(S).record \subseteq Named(S) /\ DOMAIN View(S).canon = Named(S)
           /\ \A c \in Named(S) : AddsOf(S, c) # {}
  <1>1. DOMAIN View(S).canon = Named(S) /\ \A c \in Named(S) : AddsOf(S, c) # {}
    BY RecordIs, AllAdded
  <1>2. View(S) = Merged(S, Met(S)[S], Canon(S)) /\ DOMAIN Canon(S) = Named(S)
    BY ViewIs DEF Canon
  <1>3. Heads(S) \subseteq Named(S)
    BY CanonIs DEF Heads
  <1>4. DOMAIN Grouped(S, Kin(S), Canon(S)) = Heads(S)
    <2>1. Regroup(S)[S] = [h \in Heads(S) |-> Regroup(S)[S][h]]
      BY GroupHolds DEF GroupInv, Regrouped
    <2> QED
      BY <2>1, GroupedIs
  <1>5. CASE \A c \in DOMAIN Canon(S) : Canon(S)[c] = c
    BY <1>1, <1>2, <1>5 DEF Merged
  <1>6. CASE ~\A c \in DOMAIN Canon(S) : Canon(S)[c] = c
    BY <1>1, <1>2, <1>3, <1>4, <1>6 DEF Merged, Kin
  <1> QED
    BY <1>5, <1>6

-----------------------------------------------------------------------------
(* Plans are founded.                                                      *)

LEMMA BuiltWellFormed ==
    ASSUME NEW d, NEW n, NEW clock, NEW act, NEW t,
           act \in Acts, act = "add-identity" => t.key # "none" /\ t.item = OwnId(d, n)
    PROVE  /\ WellFormed(Built(d, n, clock, act, t))
           /\ Built(d, n, clock, act, t).act = act /\ Built(d, n, clock, act, t).contact = t.contact
  BY DEF Built, WellFormed, OwnId, Id

LEMMA OneFounded ==
    ASSUME NEW S, NEW x, WellFormed(x), x.act = "add" \/ AddsOf(S, x.contact) # {}
    PROVE  Founded(S, <<x>>)
  <1> DEFINE s == <<x>>
  <1>1. Len(s) = 1 /\ s[1] = x
    OBVIOUS
  <1> HIDE DEF s
  <1>2. \A i \in 1..Len(s) : i = 1
    BY <1>1
  <1>3. Founded(S, s)
    <2> SUFFICES ASSUME NEW i \in 1..Len(s)
                 PROVE  /\ WellFormed(s[i])
                        /\ \E add : /\ add \in S \/ \E j \in 1..i : add = s[j]
                                    /\ add.act = "add" /\ add.contact = s[i].contact
      BY DEF Founded
    <2>1. i = 1 /\ 1 \in 1..i
      BY <1>2
    <2> QED
      BY <1>1, <2>1 DEF AddsOf
  <1> QED
    BY <1>3 DEF s

LEMMA TwoFounded ==
    ASSUME NEW S, NEW x, NEW y, WellFormed(x), WellFormed(y), x.act = "add", y.contact = x.contact
    PROVE  Founded(S, <<x, y>>)
  <1> DEFINE s == <<x, y>>
  <1>1. Len(s) = 2 /\ s[1] = x /\ s[2] = y
    OBVIOUS
  <1> HIDE DEF s
  <1>2. Founded(S, s)
    <2> SUFFICES ASSUME NEW i \in 1..Len(s)
                 PROVE  /\ WellFormed(s[i])
                        /\ \E add : /\ add \in S \/ \E j \in 1..i : add = s[j]
                                    /\ add.act = "add" /\ add.contact = s[i].contact
      BY DEF Founded
    <2>1. i \in {1, 2} /\ 1 \in 1..i
      BY <1>1
    <2> QED
      BY <1>1, <2>1
  <1> QED
    BY <1>2 DEF s

LEMMA NewWithKeyFounded ==
    ASSUME NEW S, NEW d, NEW clock, NEW t, Proper(d, S, t), t.key # "none"
    PROVE  Founded(S, NewWithKey(d, clock, t))
  <1> DEFINE n == NewContact(d, t)
             u == [n EXCEPT !.key = "none"]
             v == [n EXCEPT !.item = OwnId(d, 2), !.list = "none"]
             x == Built(d, 1, clock, "add", u)
             y == Built(d, 2, clock, "add-identity", v)
  <1>1. n = [kind |-> t.kind, contact |-> OwnId(d, 1), item |-> t.item, key |-> t.key, list |-> t.list,
             target |-> t.target, confirm |-> t.confirm, ids |-> t.ids]
    BY DEF NewContact, Proper
  <1> HIDE DEF n
  <1>2. u.contact = n.contact
    BY <1>1
  <1>3. v.contact = n.contact /\ v.key = t.key /\ v.item = OwnId(d, 2)
    <2> DEFINE w == [n EXCEPT !.item = OwnId(d, 2)]
    <2>1. w = [kind |-> t.kind, contact |-> OwnId(d, 1), item |-> OwnId(d, 2), key |-> t.key,
               list |-> t.list, target |-> t.target, confirm |-> t.confirm, ids |-> t.ids]
      BY <1>1
    <2> HIDE DEF w
    <2>2. [w EXCEPT !.list = "none"].contact = n.contact /\ [w EXCEPT !.list = "none"].key = t.key
          /\ [w EXCEPT !.list = "none"].item = OwnId(d, 2)
      BY <1>1, <2>1
    <2> QED
      BY <2>2 DEF w
  <1> HIDE DEF u, v
  <1>4. WellFormed(x) /\ x.act = "add" /\ x.contact = n.contact
    BY <1>2, BuiltWellFormed DEF Acts
  <1>5. WellFormed(y) /\ y.contact = n.contact
    BY <1>3, BuiltWellFormed DEF Acts
  <1>6. NewWithKey(d, clock, t) = <<x, y>>
    BY DEF NewWithKey, u, v, n
  <1> HIDE DEF x, y
  <1> QED
    BY <1>4, <1>5, <1>6, TwoFounded

LEMMA MutationFounded ==
    ASSUME NEW S, NEW d, NEW t, Proper(d, S, t), t.kind \in Edited \cup {"add"}
    PROVE  Founded(S, Mutation(d, t))
  <1> DEFINE c == ContactsClock(d)
             n == NewContact(d, t)
             i == [t EXCEPT !.item = OwnId(d, 1)]
  <1>1. CASE t.kind = "add"
    <2> DEFINE x == Built(d, 1, c, "add", n)
               y == Built(d, 2, c, "origin", n)
    <2>1. Mutation(d, t) = <<x, y>>
      BY <1>1 DEF Mutation
    <2>2. WellFormed(x) /\ x.act = "add" /\ x.contact = n.contact /\ WellFormed(y) /\ y.contact = n.contact
      BY BuiltWellFormed DEF Acts
    <2> HIDE DEF x, y
    <2> QED
      BY <2>1, <2>2, TwoFounded
  <1>2. CASE t.kind = "add-identity"
    <2> DEFINE x == Built(d, 1, c, "add-identity", i)
    <2>1. Mutation(d, t) = <<x>>
      BY <1>2 DEF Mutation
    <2>2. i.key # "none" /\ i.item = OwnId(d, 1) /\ i.contact = t.contact
      BY <1>2 DEF Proper, Keyed
    <2> HIDE DEF i
    <2>3. WellFormed(x) /\ x.contact = t.contact
      <3>1. "add-identity" \in Acts
        BY DEF Acts
      <3> QED
        BY <2>2, <3>1, BuiltWellFormed
    <2>4. AddsOf(S, t.contact) # {}
      BY <1>2 DEF Proper, Edited
    <2> HIDE DEF x
    <2> QED
      BY <2>1, <2>3, <2>4, OneFounded
  <1>3. CASE t.kind # "add" /\ t.kind # "add-identity"
    <2> DEFINE x == Built(d, 1, c, t.kind, t)
    <2>1. Mutation(d, t) = <<x>>
      BY <1>3 DEF Mutation
    <2>2. WellFormed(x) /\ x.contact = t.contact
      BY <1>3, BuiltWellFormed DEF Acts, Edited
    <2>3. AddsOf(S, t.contact) # {}
      BY <1>3 DEF Proper
    <2> HIDE DEF x
    <2> QED
      BY <2>1, <2>2, <2>3, OneFounded
  <1> QED
    BY <1>1, <1>2, <1>3

LEMMA RecognisedFounded ==
    ASSUME NEW S, Directory(S), NEW d, NEW t, Proper(d, S, t), t.kind = "recognise", NEW clock,
           NEW having, having \subseteq Named(S)
    PROVE  Founded(S, Recognised(d, t, clock, View(S), having))
  <1> DEFINE c == CHOOSE c \in having : TRUE
             act == IF View(S).record[c].life \in Gone THEN "add" ELSE "link"
             u == [t EXCEPT !.contact = c, !.key = "none"]
             x == Built(d, 1, clock, act, u)
  <1>1. CASE having = {}
    BY <1>1, NewWithKeyFounded DEF Recognised, Proper, Keyed
  <1>2. CASE having # {}
    <2>1. Recognised(d, t, clock, View(S), having) = <<x>>
      BY <1>2 DEF Recognised
    <2>2. c \in Named(S) /\ AddsOf(S, c) # {}
      BY <1>2, ViewContacts
    <2> HIDE DEF c
    <2>3. u.contact = c
      <3> DEFINE w == [t EXCEPT !.contact = c]
      <3>1. w = [kind |-> t.kind, contact |-> c, item |-> t.item, key |-> t.key, list |-> t.list,
                 target |-> t.target, confirm |-> t.confirm, ids |-> t.ids]
        BY DEF Proper
      <3> HIDE DEF w
      <3>2. [w EXCEPT !.key = "none"].contact = c
        BY <3>1
      <3> QED
        BY <3>2 DEF w
    <2> HIDE DEF u
    <2>4. WellFormed(x) /\ x.contact = c
      BY <2>3, BuiltWellFormed DEF Acts
    <2> HIDE DEF x
    <2> QED
      BY <2>1, <2>2, <2>4, OneFounded
  <1> QED
    BY <1>1, <1>2

LEMMA ClearingFounded ==
    ASSUME NEW d, Directory(log[d]), NEW t, Proper(d, log[d], t)
    PROVE  Founded(log[d], Clearing(d, t))
  <1> DEFINE X == Clearable(View(log[d]), t)
             c == ContactsClock(d)
             B(n) == Built(d, n, c, "unlink", [t EXCEPT !.contact = SetToSeq(X)[n]])
  <1>1. X \subseteq Named(log[d])
    BY ViewContacts DEF Clearable, OnList
  <1>2. IsFiniteSet(X)
    BY <1>1, ViewContacts, ContactsFinite, FS_Subset DEF Directory, Ordered
  <1>3. PICK n \in Nat : SetToSeq(X) \in [1..n -> X]
    BY <1>2, ListedInOrder
  <1>4. Clearing(d, t) = [i \in 1..n |-> B(i)]
    BY <1>3 DEF Clearing
  <1>5. ASSUME NEW i \in 1..n PROVE WellFormed(B(i)) /\ AddsOf(log[d], B(i).contact) # {}
    <2> DEFINE h == SetToSeq(X)[i]
               u == [t EXCEPT !.contact = h]
    <2>1. h \in Named(log[d])
      BY <1>1, <1>3, <1>5
    <2> HIDE DEF h
    <2>2. u.contact = h
      BY DEF Proper
    <2> HIDE DEF u
    <2>3. \A x : x = Built(d, i, c, "unlink", u) => WellFormed(x) /\ AddsOf(log[d], x.contact) # {}
      BY <2>1, <2>2, BuiltWellFormed, ViewContacts DEF Acts
    <2>4. B(i) = Built(d, i, c, "unlink", u)
      BY DEF u, h
    <2> QED
      BY <2>3, <2>4
  <1> HIDE DEF B, c
  <1>6. Len([i \in 1..n |-> B(i)]) = n
    OBVIOUS
  <1> QED
    BY <1>4, <1>5, <1>6 DEF Founded, AddsOf

LEMMA PlanFounded ==
    ASSUME NEW d, Directory(log[d]), NEW t, Proper(d, log[d], t), t.kind \notin Reloading
    PROVE  Founded(log[d], PlanOf(d, t))
  <1>1. CASE t.kind = "recognise"
    <2>1. Having(View(log[d]), t.key) \subseteq Named(log[d])
      BY ViewContacts DEF Having
    <2> QED
      BY <1>1, <2>1, RecognisedFounded DEF PlanOf, Recognition, RecognisedIn
  <1>2. CASE t.kind = "clear"
    BY <1>2, ClearingFounded DEF PlanOf
  <1>3. CASE t.kind = "share"
    <2>1. t.key # "none"
      BY <1>3 DEF Proper, Keyed
    <2> QED
      BY <1>3, <2>1, NewWithKeyFounded DEF PlanOf, Share
  <1>4. CASE t.kind \in Edited \cup {"add"}
    <2>1. PlanOf(d, t) = Mutation(d, t)
      BY <1>4 DEF PlanOf, Edited
    <2> QED
      BY <1>4, <2>1, MutationFounded
  <1> QED
    BY <1>1, <1>2, <1>3, <1>4 DEF Proper, Keyed, Edited

-----------------------------------------------------------------------------
(* And stay so, step by step.                                              *)

\* A plan that comes after all it is founded on makes a directory of one.
LEMMA FoundedSaved ==
    ASSUME NEW d, NEW batch, NEW base, Later(d, batch, base),
           NEW S, S \subseteq base \cup Own(d), Founded(S, batch),
           NEW A, S \subseteq A, Causal(A)
    PROVE  Causal(A \cup Written(batch))
  <1>1. PICK T : batch \in Seq(T)
    BY DEF Later
  <1>2. Len(batch) \in Nat /\ \A op : op \in Written(batch) <=> \E i \in 1..Len(batch) : op = batch[i]
    BY <1>1, WrittenSet
  <1>3. ASSUME NEW i \in 1..Len(batch)
        PROVE  WellFormed(batch[i]) /\ AddedBefore(A \cup Written(batch), batch[i])
    <2>1. WellFormed(batch[i])
      BY DEF Founded
    <2>2. PICK add : /\ add \in S \/ \E j \in 1..i : add = batch[j]
                     /\ add.act = "add" /\ add.contact = batch[i].contact
      BY DEF Founded
    <2>3. CASE add \in S
      BY <2>1, <2>2, <2>3 DEF Later, AddedBefore, Before
    <2>4. CASE \E j \in 1..i : add = batch[j]
      <3>1. PICK j \in 1..i : add = batch[j]
        BY <2>4
      <3>2. j \in 1..Len(batch) /\ add \in Written(batch)
        BY <1>2, <3>1
      <3>3. add = batch[i] \/ Before(add, batch[i])
        BY <3>1, <3>2 DEF Later, Before
      <3> QED
        BY <2>1, <2>2, <3>2, <3>3 DEF AddedBefore
    <2> QED
      BY <2>2, <2>3, <2>4, <2>1
  <1>4. \A op \in A : WellFormed(op) /\ AddedBefore(A \cup Written(batch), op)
    BY DEF Causal, AddedBefore
  <1> QED
    BY <1>2, <1>3, <1>4 DEF Causal

\* Of a plan that is saved one by one, the first is saved, and founds the rest.
LEMMA FoundedFirst ==
    ASSUME NEW d, NEW batch, NEW base, Later(d, batch, base),
           NEW S, S \subseteq base \cup Own(d), Founded(S, batch),
           NEW A, S \subseteq A, Causal(A)
    PROVE  /\ Causal(A \cup {Head(batch)})
           /\ Len(batch) # 1 => Founded(S \cup {Head(batch)}, Tail(batch))
  <1>1. PICK T : batch \in Seq(T)
    BY DEF Later
  <1>2. Head(batch) = batch[1] /\ Len(batch) \in Nat /\ 1 \in 1..Len(batch)
    BY <1>1 DEF Later
  <1>3. Causal(A \cup {Head(batch)})
    <2>1. PICK add : /\ add \in S \/ \E j \in 1..1 : add = batch[j]
                     /\ add.act = "add" /\ add.contact = batch[1].contact
      BY <1>2 DEF Founded
    <2>2. add \in A \cup {batch[1]} /\ (add = batch[1] \/ Before(add, batch[1]))
      BY <1>2, <2>1 DEF Later, Before
    <2>3. WellFormed(batch[1])
      BY <1>2 DEF Founded
    <2> QED
      BY <1>2, <2>1, <2>2, <2>3 DEF Causal, AddedBefore
  <1>4. ASSUME Len(batch) # 1 PROVE Founded(S \cup {Head(batch)}, Tail(batch))
    <2>1. /\ Tail(batch) \in Seq(T) /\ Len(Tail(batch)) = Len(batch) - 1
          /\ \A i \in 1..Len(Tail(batch)) : i + 1 \in 1..Len(batch) /\ Tail(batch)[i] = batch[i + 1]
      BY <1>1, <1>2, <1>4, RestShape
    <2> SUFFICES ASSUME NEW i \in 1..Len(Tail(batch))
                 PROVE  /\ WellFormed(Tail(batch)[i])
                        /\ \E add : /\ \/ add \in S \cup {Head(batch)}
                                       \/ \E j \in 1..i : add = Tail(batch)[j]
                                    /\ add.act = "add" /\ add.contact = Tail(batch)[i].contact
      BY DEF Founded
    <2>2. i + 1 \in 1..Len(batch) /\ Tail(batch)[i] = batch[i + 1] /\ WellFormed(batch[i + 1])
      BY <2>1 DEF Founded
    <2>3. PICK add : /\ add \in S \/ \E j \in 1..(i + 1) : add = batch[j]
                     /\ add.act = "add" /\ add.contact = batch[i + 1].contact
      BY <2>2 DEF Founded
    <2>4. ASSUME NEW j \in 1..(i + 1), add = batch[j], j # 1
          PROVE  \E k \in 1..i : add = Tail(batch)[k]
      <3>1. j - 1 \in 1..i /\ j - 1 \in 1..Len(Tail(batch)) /\ (j - 1) + 1 = j
        BY <1>2, <2>1, <2>4
      <3> QED
        BY <2>1, <2>4, <3>1
    <2> QED
      BY <1>2, <2>2, <2>3, <2>4
  <1> QED
    BY <1>3, <1>4

LEMMA DirectoryStays ==
    ASSUME NEW e \in Devices, DirectoryInv(e), StaysAt(e)
    PROVE  DirectoryInv(e)'
  BY DEF DirectoryInv, StaysAt, Idle, Own

LEMMA DirectoryOne ==
    ASSUME DirectoriesInv, NEW d \in Devices, DirectoryInv(d)', \A e \in Devices : e # d => StaysAt(e)
    PROVE  DirectoriesInv'
  BY DirectoryStays DEF DirectoriesInv

\* A queue that only lost its first task, or gained some.
LEMMA QueueLater ==
    ASSUME NEW d, NEW A, NEW B, A \subseteq B, NEW S, NEW s \in Seq(S), s # <<>>,
           \A i \in 1..Len(s) : Proper(d, A, s[i])
    PROVE  \A i \in 1..Len(Tail(s)) : Proper(d, B, Tail(s)[i])
  <1>1. /\ Len(Tail(s)) = Len(s) - 1 /\ Len(s) \in Nat
        /\ \A i \in 1..Len(Tail(s)) : Tail(s)[i] = s[i + 1]
    OBVIOUS
  <1>2. \A i \in 1..Len(Tail(s)) : i + 1 \in 1..Len(s)
    BY <1>1
  <1> QED
    BY <1>1, <1>2, ProperMore

\* A task by its fields.
TaskOf(kind, contact, item, key, list, target, confirm, ids) ==
    [kind |-> kind, contact |-> contact, item |-> item, key |-> key, list |-> list,
     target |-> target, confirm |-> confirm, ids |-> ids]

LEMMA TaskProper ==
    ASSUME NEW d, NEW S,
           NEW kind, NEW contact, NEW item, NEW key, NEW list, NEW target, NEW confirm, NEW ids,
           kind \in Edited \cup Keyed \cup Reloading \cup {"add", "clear"},
           kind \in Edited => AddsOf(S, contact) # {}, kind \in Keyed => key # "none",
           kind \in {"link", "recognise"} => list # "none",
           kind = "unblock" => Actor[target[1]] = Actor[d]
    PROVE  Proper(d, S, TaskOf(kind, contact, item, key, list, target, confirm, ids))
  BY DEF Proper, TaskOf

LEMMA TaskIs ==
    \E no : \A kind : Task(kind) = TaskOf(kind, Nobody, Nobody, "none", "none", Nobody, no, {})
  <1>1. \A kind : Task(kind) = TaskOf(kind, Nobody, Nobody, "none", "none", Nobody, FALSE, {})
    BY DEF Task, TaskOf
  <1> QED
    BY <1>1, Zenon

\* A block on a record names its operation, and its author is who wrote that.
LEMMA ShownBlocks ==
    ASSUME NEW S, Directory(S), NEW c \in DOMAIN View(S).record, NEW b \in View(S).record[c].blocks
    PROVE  b.by = Actor[b.id[1]]
  <1>1. c \in Named(S) /\ View(S).record[c] = RecordOf(View(S), c)
    BY ShownRecord
  <1>2. Tidy(S, RecordOf(View(S), c))
    BY <1>1, ViewTidy
  <1> QED
    BY <1>1, <1>2 DEF Tidy

\* What the screen offers is about contacts that it shows.
LEMMA OfferedProper ==
    ASSUME NEW S, Directory(S), NEW d, NEW t \in OnScreen(View(S), d)
    PROVE  Proper(d, S, t)
  <1>1. PICK no : \A kind : Task(kind) = TaskOf(kind, Nobody, Nobody, "none", "none", Nobody, no, {})
    BY TaskIs, Zenon
  <1>2. "none" \notin Keys /\ "none" \notin Lists
    BY WritersAssumption DEF WritersAssumption
  <1>3. ASSUME NEW c \in DOMAIN View(S).record, t \in OnContact(View(S), d, c) PROVE Proper(d, S, t)
    <2> DEFINE record == View(S).record[c]
               On(kind) == [Task(kind) EXCEPT !.contact = c]
               Plain == {On("remove"), On("archive"), On("block")}
               Gaining(k, b) == [On("add-identity") EXCEPT !.key = k, !.confirm = b]
               Gain == {Gaining(k, b) : k \in Keys, b \in BOOLEAN}
               Lose == {[On("remove-item") EXCEPT !.item = i.item] : i \in record.items}
               Link == {[On("link") EXCEPT !.list = l] : l \in Lists \ record.lists}
               Unlink == {[On("unlink") EXCEPT !.list = l] : l \in record.lists}
               Lift == {[On("unblock") EXCEPT !.target = b.id] :
                            b \in {b \in record.blocks : ~b.lifted /\ b.by = Actor[d]}}
    <2>1. AddsOf(S, c) # {}
      BY ViewContacts
    <2>2. ASSUME NEW kind PROVE On(kind) = TaskOf(kind, c, Nobody, "none", "none", Nobody, no, {})
      <3> DEFINE u == Task(kind)
      <3>1. u = TaskOf(kind, Nobody, Nobody, "none", "none", Nobody, no, {})
        BY <1>1
      <3> HIDE DEF u
      <3>2. [u EXCEPT !.contact = c] = TaskOf(kind, c, Nobody, "none", "none", Nobody, no, {})
        BY <3>1 DEF TaskOf
      <3> QED
        BY <3>2 DEF u
    <2>3. OnContact(View(S), d, c) = Plain \cup Gain \cup Lose \cup Link \cup Unlink \cup Lift
      BY DEF OnContact
    <2> HIDE DEF On
    <2>4. CASE t \in Plain
      BY <2>1, <2>2, <2>4, TaskProper DEF Edited, Keyed
    <2>5. CASE t \in Gain
      <3>1. PICK k \in Keys, b \in BOOLEAN : t = Gaining(k, b)
        <4> HIDE DEF Gaining
        <4> QED
          BY <2>5
      <3> DEFINE u == [On("add-identity") EXCEPT !.key = k]
      <3>2. u = TaskOf("add-identity", c, Nobody, k, "none", Nobody, no, {})
        BY <2>2 DEF TaskOf
      <3>3. t = [u EXCEPT !.confirm = b]
        BY <3>1, Zenon
      <3> HIDE DEF u
      <3>4. t = TaskOf("add-identity", c, Nobody, k, "none", Nobody, b, {})
        BY <3>2, <3>3 DEF TaskOf
      <3> QED
        BY <1>2, <2>1, <3>4, TaskProper DEF Edited, Keyed
    <2>6. CASE t \in Lose
      <3>1. PICK i \in record.items : t = [On("remove-item") EXCEPT !.item = i.item]
        BY <2>6, Zenon
      <3>2. t = TaskOf("remove-item", c, i.item, "none", "none", Nobody, no, {})
        BY <2>2, <3>1 DEF TaskOf
      <3> QED
        BY <2>1, <3>2, TaskProper DEF Edited, Keyed
    <2>7. CASE t \in Link
      <3>1. PICK l \in Lists : t = [On("link") EXCEPT !.list = l]
        BY <2>7, Zenon
      <3>2. t = TaskOf("link", c, Nobody, "none", l, Nobody, no, {})
        BY <2>2, <3>1 DEF TaskOf
      <3> QED
        BY <1>2, <2>1, <3>2, TaskProper DEF Edited, Keyed
    <2>8. CASE t \in Unlink
      <3>1. PICK l \in record.lists : t = [On("unlink") EXCEPT !.list = l]
        BY <2>8, Zenon
      <3>2. t = TaskOf("unlink", c, Nobody, "none", l, Nobody, no, {})
        BY <2>2, <3>1 DEF TaskOf
      <3> QED
        BY <2>1, <3>2, TaskProper DEF Edited, Keyed
    <2>9. CASE t \in Lift
      <3>1. PICK b \in record.blocks : b.by = Actor[d] /\ t = [On("unblock") EXCEPT !.target = b.id]
        <4>1. \E b \in {b \in record.blocks : ~b.lifted /\ b.by = Actor[d]} :
                  t = [On("unblock") EXCEPT !.target = b.id]
          BY <2>9, Zenon
        <4> QED
          BY <4>1
      <3>2. t = TaskOf("unblock", c, Nobody, "none", "none", b.id, no, {})
        BY <2>2, <3>1 DEF TaskOf
      <3>3. Actor[b.id[1]] = Actor[d]
        BY <3>1, ShownBlocks
      <3> QED
        BY <2>1, <3>2, <3>3, TaskProper DEF Edited, Keyed
    <2> HIDE DEF Plain, Gain, Lose, Link, Unlink, Lift
    <2> QED
      BY <1>3, <2>3, <2>4, <2>5, <2>6, <2>7, <2>8, <2>9
  <1> DEFINE All == UNION {OnContact(View(S), d, c) :
                             c \in {c \in DOMAIN View(S).record : View(S).record[c].life = "active"}}
             Adds == {[Task("add") EXCEPT !.list = l] : l \in Lists}
             Sorts == {"recognise"} \cup IF d \in FamilyOpen THEN {"share"} ELSE {}
             Knowing(kind, k, l) == [Task(kind) EXCEPT !.key = k, !.list = l]
             Clears == {[Task("clear") EXCEPT !.list = l, !.ids = OnList(View(S), l)] :
                            l \in {l \in Lists : OnList(View(S), l) # {}}}
  <1>4. OnScreen(View(S), d) = All \cup Adds \cup ByKey(d) \cup Clears
    BY DEF OnScreen
  <1>5. CASE t \in All
    BY <1>3, <1>5
  <1>6. CASE t \in Adds
    <2>1. PICK l : t = [Task("add") EXCEPT !.list = l]
      BY <1>6, Zenon
    <2>2. t = TaskOf("add", Nobody, Nobody, "none", l, Nobody, no, {})
      BY <1>1, <2>1 DEF TaskOf
    <2> QED
      BY <2>2, TaskProper DEF Edited, Keyed
  <1>7. CASE t \in ByKey(d)
    <2>1. PICK kind \in Sorts, k \in Keys, l \in Lists : t = Knowing(kind, k, l)
      <3>1. ByKey(d) = {Knowing(kind, k, l) : kind \in Sorts, k \in Keys, l \in Lists}
        BY DEF ByKey
      <3> HIDE DEF Knowing, Sorts
      <3> QED
        BY <1>7, <3>1
    <2>2. kind \in {"recognise", "share"}
      BY <2>1
    <2> DEFINE u == [Task(kind) EXCEPT !.key = k]
    <2>3. u = TaskOf(kind, Nobody, Nobody, k, "none", Nobody, no, {})
      BY <1>1 DEF TaskOf
    <2>4. t = [u EXCEPT !.list = l]
      BY <2>1, Zenon
    <2> HIDE DEF u
    <2>5. t = TaskOf(kind, Nobody, Nobody, k, l, Nobody, no, {})
      BY <2>3, <2>4 DEF TaskOf
    <2> QED
      BY <1>2, <2>2, <2>5, TaskProper DEF Edited, Keyed
  <1>8. CASE t \in Clears
    <2>1. PICK l : t = [Task("clear") EXCEPT !.list = l, !.ids = OnList(View(S), l)]
      BY <1>8, Zenon
    <2> DEFINE u == [Task("clear") EXCEPT !.list = l]
               ids == OnList(View(S), l)
    <2>2. u = TaskOf("clear", Nobody, Nobody, "none", l, Nobody, no, {})
      BY <1>1 DEF TaskOf
    <2>3. t = [u EXCEPT !.ids = ids]
      BY <2>1, Zenon
    <2> HIDE DEF u, ids
    <2>4. t = TaskOf("clear", Nobody, Nobody, "none", l, Nobody, no, ids)
      BY <2>2, <2>3 DEF TaskOf
    <2> QED
      BY <2>4, TaskProper DEF Edited, Keyed
  <1> HIDE DEF All, Adds, Clears
  <1> QED
    BY <1>4, <1>5, <1>6, <1>7, <1>8

LEMMA InitDirectories == Init => DirectoriesInv
  <1> SUFFICES ASSUME Init, NEW d \in Devices PROVE DirectoryInv(d)
    BY DEF DirectoriesInv
  <1>1. log[d] = Start /\ shown[d] = Start /\ tasks[d] = <<>> /\ job[d] = NoJob
    BY DEF Init
  <1>2. Causal(Start)
    BY StartAssumption DEF StartAssumption, Causal
  <1> QED
    BY <1>1, <1>2 DEF DirectoryInv, Idle

LEMMA CallDirectory ==
    ASSUME IndInv, DirectoriesInv, NEW d \in Devices, Call(d)
    PROVE  DirectoriesInv'
  <1>1. PICK t \in OnScreen(View(shown[d]), d) : tasks' = [tasks EXCEPT ![d] = Append(tasks[d], t)]
    BY DEF Call, Offered
  <1>2. log' = log /\ shown' = shown /\ job' = job
    BY DEF Call
  <1>3. DirectoryInv(d) /\ shown[d] \subseteq log[d]
    BY DEF DirectoriesInv, IndInv, DeviceInv, Stored
  <1>4. Proper(d, log[d], t)
    <2>1. Directory(shown[d])
      BY <1>3, PartDirectory DEF DirectoryInv
    <2> QED
      BY <1>3, <2>1, OfferedProper, ProperMore
  <1>5. tasks'[d] = Append(tasks[d], t) /\ \A e \in Devices : e # d => tasks'[e] = tasks[e]
    BY <1>1 DEF IndInv, Functional
  <1>6. \A i \in 1..Len(tasks'[d]) : Proper(d, log[d], tasks'[d][i])
    <2>1. PICK S : tasks[d] \in Seq(S)
      BY DEF IndInv, DeviceInv, Queued
    <2> DEFINE s == tasks[d]
    <2>2. s \in Seq(S) /\ \A i \in 1..Len(s) : Proper(d, log[d], s[i])
      BY <1>3, <2>1 DEF DirectoryInv
    <2> HIDE DEF s
    <2>3. /\ Len(Append(s, t)) = Len(s) + 1 /\ Len(s) \in Nat /\ Append(s, t)[Len(s) + 1] = t
          /\ \A i \in 1..Len(s) : Append(s, t)[i] = s[i]
      BY <2>2
    <2>4. \A i \in 1..Len(Append(s, t)) : i = Len(s) + 1 \/ i \in 1..Len(s)
      BY <2>3
    <2>5. \A i \in 1..Len(Append(s, t)) : Proper(d, log[d], Append(s, t)[i])
      BY <1>4, <2>2, <2>3, <2>4
    <2> QED
      BY <1>5, <2>5 DEF s
  <1>7. DirectoryInv(d)'
    BY <1>2, <1>3, <1>6 DEF DirectoryInv, Idle, Own
  <1>8. \A e \in Devices : e # d => StaysAt(e)
    BY <1>2, <1>5 DEF StaysAt
  <1> QED
    BY <1>7, <1>8, DirectoryOne

\* The task under way ends: the log only grew.
LEMMA EndDirectory ==
    ASSUME IndInv, DirectoriesInv, NEW d \in Devices, tasks[d] # <<>>,
           tasks' = [tasks EXCEPT ![d] = Tail(tasks[d])], log[d] \subseteq log'[d]
    PROVE  /\ \A i \in 1..Len(tasks'[d]) : Proper(d, log'[d], tasks'[d][i])
           /\ \A e \in Devices : e # d => tasks'[e] = tasks[e]
  <1>1. tasks'[d] = Tail(tasks[d]) /\ \A e \in Devices : e # d => tasks'[e] = tasks[e]
    BY DEF IndInv, Functional
  <1>2. PICK S : tasks[d] \in Seq(S)
    BY DEF IndInv, DeviceInv, Queued
  <1>3. \A i \in 1..Len(tasks[d]) : Proper(d, log[d], tasks[d][i])
    BY DEF DirectoriesInv, DirectoryInv
  <1>4. \A i \in 1..Len(Tail(tasks[d])) : Proper(d, log'[d], Tail(tasks[d])[i])
    <2> DEFINE s == tasks[d]
    <2>1. s \in Seq(S) /\ s # <<>> /\ \A i \in 1..Len(s) : Proper(d, log[d], s[i])
      BY <1>2, <1>3
    <2> HIDE DEF s
    <2>2. \A i \in 1..Len(Tail(s)) : Proper(d, log'[d], Tail(s)[i])
      BY <2>1, QueueLater
    <2> QED
      BY <2>2 DEF s
  <1> QED
    BY <1>1, <1>4

LEMMA PlanDirectory ==
    ASSUME IndInv, DirectoriesInv, NEW d \in Devices, Plan(d)
    PROVE  DirectoriesInv'
  <1> DEFINE t == Head(tasks[d])
             batch == PlanOf(d, t)
  <1>1. /\ tasks[d] # <<>> /\ t.kind \notin Reloading /\ Idle(d)
        /\ Decide(d, t, batch) /\ log' = log /\ shown' = shown
    BY DEF Plan, Reloading
  <1>2. DirectoryInv(d)
    BY DEF DirectoriesInv
  <1>3. Proper(d, log[d], t)
    <2>1. PICK S : tasks[d] \in Seq(S)
      BY DEF IndInv, DeviceInv, Queued
    <2>2. t = tasks[d][1] /\ 1 \in 1..Len(tasks[d])
      BY <1>1, <2>1
    <2> HIDE DEF t
    <2> QED
      BY <1>2, <2>2 DEF DirectoryInv
  <1>4. Founded(log[d], batch)
    <2>1. Directory(log[d])
      BY <1>2, PartDirectory DEF DirectoryInv
    <2> HIDE DEF t
    <2> QED
      BY <1>1, <1>3, <2>1, PlanFounded
  <1> HIDE DEF batch
  <1>5. CASE Refused(d, t, batch)
    <2>1. tasks' = [tasks EXCEPT ![d] = Tail(tasks[d])] /\ job' = job
      BY <1>1, <1>5 DEF Decide
    <2>2. /\ \A i \in 1..Len(tasks'[d]) : Proper(d, log'[d], tasks'[d][i])
          /\ \A e \in Devices : e # d => tasks'[e] = tasks[e]
      BY <1>1, <2>1, EndDirectory
    <2>3. DirectoryInv(d)'
      BY <1>1, <1>2, <2>1, <2>2 DEF DirectoryInv, Idle
    <2>4. \A e \in Devices : e # d => StaysAt(e)
      BY <1>1, <2>1, <2>2 DEF StaysAt
    <2> QED
      BY <2>3, <2>4, DirectoryOne
  <1>6. CASE ~Refused(d, t, batch)
    <2>1. /\ job' = [job EXCEPT ![d] = [pc |-> HookOf(t), batch |-> batch, base |-> log[d]]]
          /\ tasks' = tasks
      BY <1>1, <1>6 DEF Decide
    <2>2. /\ job'[d] = [pc |-> HookOf(t), batch |-> batch, base |-> log[d]]
          /\ \A e \in Devices : e # d => job'[e] = job[e]
      BY <2>1, ChangedAt DEF IndInv, Functional
    <2>3. job'[d].batch = batch /\ job'[d].base = log[d]
      BY <2>2
    <2>4. Own(d)' = Own(d) /\ Own(d) \subseteq log[d]
      BY <1>1 DEF Own
    <2>5. Founded(log[d] \cup Own(d), batch)
      BY <1>4 DEF Founded
    <2>6. DirectoryInv(d)'
      BY <1>1, <1>2, <2>1, <2>3, <2>4, <2>5 DEF DirectoryInv
    <2>7. \A e \in Devices : e # d => StaysAt(e)
      BY <1>1, <2>1, <2>2 DEF StaysAt
    <2> QED
      BY <2>6, <2>7, DirectoryOne
  <1> QED
    BY <1>5, <1>6

LEMMA SaveDirectory ==
    ASSUME IndInv, DirectoriesInv, NEW d \in Devices, Save(d)
    PROVE  DirectoriesInv'
  <1> DEFINE batch == job[d].batch
             W == Written(batch)
             base == job[d].base
             S == base \cup Own(d)
  <1>1. /\ job[d].pc = "contacts"
        /\ log' = [log EXCEPT ![d] = log[d] \cup W]
        /\ shown' = [shown EXCEPT ![d] = base \cup W]
        /\ tasks' = [tasks EXCEPT ![d] = Tail(tasks[d])]
        /\ job' = [job EXCEPT ![d] = NoJob]
    BY DEF Save, EndTask
  <1>2. Working(d) /\ DirectoryInv(d) /\ ~Idle(d)
    BY <1>1 DEF DirectoriesInv, IndInv, DeviceInv, JobInv, Idle, NoJob
  <1>3. /\ Later(d, batch, base) /\ tasks[d] # <<>> /\ base \subseteq log[d]
        /\ Causal(log[d]) /\ Causal(base) /\ Founded(S, batch) /\ S \subseteq base /\ S \subseteq log[d]
    BY <1>1, <1>2 DEF Working, DirectoryInv, Own
  <1>4. Causal(log[d] \cup W) /\ Causal(base \cup W)
    <2> HIDE DEF batch
    <2>1. S \subseteq base \cup Own(d)
      OBVIOUS
    <2> HIDE DEF S, base
    <2> QED
      BY <1>3, <2>1, FoundedSaved
  <1> HIDE DEF W, base
  <1>5. /\ log'[d] = log[d] \cup W /\ shown'[d] = base \cup W /\ job'[d] = NoJob
        /\ \A e \in Devices : e # d => log'[e] = log[e] /\ shown'[e] = shown[e] /\ job'[e] = job[e]
    BY <1>1 DEF IndInv, Functional
  <1>6. /\ \A i \in 1..Len(tasks'[d]) : Proper(d, log'[d], tasks'[d][i])
        /\ \A e \in Devices : e # d => tasks'[e] = tasks[e]
    BY <1>1, <1>3, <1>5, EndDirectory
  <1>7. DirectoryInv(d)'
    BY <1>4, <1>5, <1>6 DEF DirectoryInv, Idle
  <1>8. \A e \in Devices : e # d => StaysAt(e)
    BY <1>5, <1>6 DEF StaysAt
  <1> QED
    BY <1>7, <1>8, DirectoryOne

LEMMA SaveOneDirectory ==
    ASSUME IndInv, DirectoriesInv, NEW d \in Devices, SaveOne(d)
    PROVE  DirectoriesInv'
  <1> DEFINE batch == job[d].batch
             first == Head(batch)
             base == job[d].base
             S == base \cup Own(d)
  <1>1. /\ job[d].pc = "family" /\ shown' = shown
        /\ log' = [log EXCEPT ![d] = log[d] \cup {first}]
    BY DEF SaveOne
  <1>2. Working(d) /\ DirectoryInv(d) /\ ~Idle(d)
    BY <1>1 DEF DirectoriesInv, IndInv, DeviceInv, JobInv, Idle, NoJob
  <1>3. /\ Later(d, batch, base) /\ tasks[d] # <<>> /\ base \subseteq log[d]
        /\ Causal(log[d]) /\ Causal(base) /\ Founded(S, batch) /\ S \subseteq log[d]
    BY <1>1, <1>2 DEF Working, DirectoryInv, Own
  <1>4. Causal(log[d] \cup {first}) /\ (Len(batch) # 1 => Founded(S \cup {first}, Tail(batch)))
    <2> HIDE DEF batch
    <2>1. S \subseteq base \cup Own(d)
      OBVIOUS
    <2> HIDE DEF S, base
    <2> QED
      BY <1>3, <2>1, FoundedFirst
  <1>5. first.dev = d
    <2>1. PICK T : batch \in Seq(T)
      BY <1>3 DEF Later
    <2>2. first = batch[1] /\ 1 \in 1..Len(batch)
      BY <1>3, <2>1 DEF Later
    <2> HIDE DEF batch, first
    <2> QED
      BY <1>3, <2>2 DEF Later
  <1>6. /\ log'[d] = log[d] \cup {first} /\ \A e \in Devices : e # d => log'[e] = log[e]
    BY <1>1 DEF IndInv, Functional
  <1>7. Own(d)' = Own(d) \cup {first}
    BY <1>5, <1>6 DEF Own
  <1>8. CASE Len(batch) = 1
    <2>1. tasks' = [tasks EXCEPT ![d] = Tail(tasks[d])] /\ job' = [job EXCEPT ![d] = NoJob]
      BY <1>8 DEF SaveOne, EndTask
    <2>2. /\ \A i \in 1..Len(tasks'[d]) : Proper(d, log'[d], tasks'[d][i])
          /\ \A e \in Devices : e # d => tasks'[e] = tasks[e]
      BY <1>3, <1>6, <2>1, EndDirectory
    <2>3. job'[d] = NoJob /\ \A e \in Devices : e # d => job'[e] = job[e]
      BY <2>1 DEF IndInv, Functional
    <2> HIDE DEF first
    <2>4. DirectoryInv(d)'
      BY <1>1, <1>2, <1>4, <1>6, <2>2, <2>3 DEF DirectoryInv, Idle
    <2>5. \A e \in Devices : e # d => StaysAt(e)
      BY <1>1, <1>6, <2>2, <2>3 DEF StaysAt
    <2> QED
      BY <2>4, <2>5, DirectoryOne
  <1>9. CASE Len(batch) # 1
    <2>1. tasks' = tasks /\ job' = [job EXCEPT ![d].batch = Tail(batch)]
      BY <1>9 DEF SaveOne
    <2> DEFINE r == job[d]
               next == [r EXCEPT !.batch = Tail(batch)]
    <2>2. job'[d] = next /\ \A e \in Devices : e # d => job'[e] = job[e]
      BY <2>1 DEF IndInv, Functional
    <2>3. r = [pc |-> r.pc, batch |-> r.batch, base |-> r.base]
      BY <1>2 DEF Working
    <2>4. job'[d] = [pc |-> r.pc, batch |-> Tail(batch), base |-> r.base]
      BY <2>2, <2>3, RestOfBatch
    <2>5. job'[d].pc = "family" /\ job'[d].batch = Tail(batch) /\ job'[d].base = base
      BY <1>1, <2>4
    <2> HIDE DEF first, batch, base, r, next
    <2>6. Founded(base \cup Own(d) \cup {first}, Tail(batch))
      BY <1>4, <1>9
    <2>7. Founded(job'[d].base \cup Own(d)', job'[d].batch)
      <3>1. job'[d].base \cup Own(d)' = base \cup Own(d) \cup {first}
        BY <1>7, <2>5
      <3> QED
        BY <2>5, <2>6, <3>1
    <2>8. \A i \in 1..Len(tasks'[d]) : Proper(d, log'[d], tasks'[d][i])
      BY <1>2, <1>6, <2>1, ProperMore DEF DirectoryInv
    <2>9. DirectoryInv(d)'
      BY <1>1, <1>2, <1>3, <1>4, <1>6, <2>5, <2>7, <2>8 DEF DirectoryInv
    <2>10. \A e \in Devices : e # d => StaysAt(e)
      BY <1>1, <1>6, <2>1, <2>2 DEF StaysAt
    <2> QED
      BY <2>9, <2>10, DirectoryOne
  <1> QED
    BY <1>8, <1>9

LEMMA SaveFailsDirectory ==
    ASSUME IndInv, DirectoriesInv, NEW d \in Devices, SaveFails(d)
    PROVE  DirectoriesInv'
  <1>1. /\ ~Idle(d) /\ tasks' = [tasks EXCEPT ![d] = Tail(tasks[d])]
        /\ job' = [job EXCEPT ![d] = NoJob] /\ log' = log /\ shown' = shown
    BY DEF SaveFails, EndTask
  <1>2. tasks[d] # <<>> /\ DirectoryInv(d)
    BY <1>1 DEF DirectoriesInv, IndInv, DeviceInv, JobInv, Working
  <1>3. /\ \A i \in 1..Len(tasks'[d]) : Proper(d, log'[d], tasks'[d][i])
        /\ \A e \in Devices : e # d => tasks'[e] = tasks[e]
    BY <1>1, <1>2, EndDirectory
  <1>4. job'[d] = NoJob /\ \A e \in Devices : e # d => job'[e] = job[e]
    BY <1>1 DEF IndInv, Functional
  <1>5. DirectoryInv(d)'
    BY <1>1, <1>2, <1>3, <1>4 DEF DirectoryInv, Idle
  <1>6. \A e \in Devices : e # d => StaysAt(e)
    BY <1>1, <1>3, <1>4 DEF StaysAt
  <1> QED
    BY <1>5, <1>6, DirectoryOne

LEMMA ReloadDirectory ==
    ASSUME IndInv, DirectoriesInv, NEW d \in Devices, Reload(d) \/ ReloadFamily(d)
    PROVE  DirectoriesInv'
  <1>1. /\ tasks[d] # <<>> /\ tasks' = [tasks EXCEPT ![d] = Tail(tasks[d])] /\ Idle(d)
        /\ log' = log /\ job' = job /\ (shown' = shown \/ shown' = [shown EXCEPT ![d] = log[d]])
    BY DEF Reload, ReloadFamily
  <1>2. DirectoryInv(d)
    BY DEF DirectoriesInv
  <1>3. /\ \A i \in 1..Len(tasks'[d]) : Proper(d, log'[d], tasks'[d][i])
        /\ \A e \in Devices : e # d => tasks'[e] = tasks[e]
    BY <1>1, EndDirectory
  <1>4. /\ shown'[d] = shown[d] \/ shown'[d] = log[d]
        /\ \A e \in Devices : e # d => shown'[e] = shown[e]
    BY <1>1 DEF IndInv, Functional
  <1>5. DirectoryInv(d)'
    BY <1>1, <1>2, <1>3, <1>4 DEF DirectoryInv, Idle
  <1>6. \A e \in Devices : e # d => StaysAt(e)
    BY <1>1, <1>3, <1>4 DEF StaysAt
  <1> QED
    BY <1>5, <1>6, DirectoryOne

LEMMA ReloadsProper ==
    ASSUME NEW A, NEW d, NEW i \in 1..Len(Reloads(d))
    PROVE  Proper(d, A, Reloads(d)[i])
  <1> DEFINE r == Task("reload")
             f == Task("reload-family")
  <1>1. Proper(d, A, r) /\ Proper(d, A, f)
    <2>1. PICK no : \A kind : Task(kind) = TaskOf(kind, Nobody, Nobody, "none", "none", Nobody, no, {})
      BY TaskIs, Zenon
    <2> QED
      BY <2>1, TaskProper DEF Edited, Keyed, Reloading
  <1>2. Reloads(d) = <<r>> \o IF d \in FamilyOpen THEN <<f>> ELSE <<>>
    BY DEF Reloads
  <1> HIDE DEF r, f
  <1>3. CASE d \in FamilyOpen
    <2> DEFINE one == <<r>>
               two == <<f>>
    <2>1. one \in Seq({r, f}) /\ two \in Seq({r, f}) /\ Len(one) = 1 /\ Len(two) = 1 /\ one[1] = r /\ two[1] = f
      OBVIOUS
    <2>2. Reloads(d) = one \o two
      BY <1>2, <1>3
    <2> HIDE DEF one, two
    <2>3. Len(one \o two) = 2 /\ (one \o two)[1] = r /\ (one \o two)[2] = f
      BY <2>1, Concatenated
    <2>4. i \in {1, 2}
      BY <2>2, <2>3
    <2> QED
      BY <1>1, <2>2, <2>3, <2>4
  <1>4. CASE d \notin FamilyOpen
    <2>1. Reloads(d) = <<r>>
      BY <1>2, <1>4
    <2>2. i = 1 /\ Reloads(d)[1] = r
      BY <2>1
    <2> QED
      BY <1>1, <2>2
  <1> QED
    BY <1>3, <1>4

LEMMA MergeDirectory ==
    ASSUME IndInv, DirectoriesInv, NEW d \in Devices, NEW e \in Devices, Merge(d, e)
    PROVE  DirectoriesInv'
  <1>1. /\ log' = [log EXCEPT ![d] = log[d] \cup log[e]] /\ shown' = shown /\ job' = job
        /\ tasks' = [tasks EXCEPT ![d] = tasks[d] \o Reloads(d)]
    BY DEF Merge
  <1>2. DirectoryInv(d) /\ DirectoryInv(e)
    BY DEF DirectoriesInv
  <1>3. /\ log'[d] = log[d] \cup log[e] /\ tasks'[d] = tasks[d] \o Reloads(d)
        /\ \A x \in Devices : x # d => log'[x] = log[x] /\ tasks'[x] = tasks[x]
    BY <1>1 DEF IndInv, Functional
  <1>4. Causal(log'[d])
    BY <1>2, <1>3, CausalUnion DEF DirectoryInv
  <1>5. Own(d)' = Own(d)
    BY <1>3 DEF IndInv, Home, Own
  <1>6. \A i \in 1..Len(tasks'[d]) : Proper(d, log'[d], tasks'[d][i])
    <2>1. PICK S : tasks[d] \in Seq(S)
      BY DEF IndInv, DeviceInv, Queued
    <2> DEFINE s == tasks[d]
               u == Reloads(d)
    <2>2. \A i \in 1..Len(s) : Proper(d, log'[d], s[i])
      BY <1>2, <1>3, ProperMore DEF DirectoryInv
    <2>3. \A i \in 1..Len(u) : Proper(d, log'[d], u[i])
      BY ReloadsProper
    <2>4. \E T : s \in Seq(T) /\ u \in Seq(T)
      <3> DEFINE T == S \cup {Task("reload"), Task("reload-family")}
      <3>1. s \in Seq(T)
        BY <2>1
      <3>2. u \in Seq(T)
        <4> DEFINE r == Task("reload")
                   f == Task("reload-family")
        <4>1. r \in T /\ f \in T /\ u = <<r>> \o IF d \in FamilyOpen THEN <<f>> ELSE <<>>
          BY DEF Reloads
        <4> HIDE DEF r, f, T, u
        <4> QED
          BY <4>1
      <3> QED
        BY <3>1, <3>2
    <2>5. PICK T : s \in Seq(T) /\ u \in Seq(T)
      BY <2>4
    <2> HIDE DEF s, u
    <2>6. /\ Len(s \o u) = Len(s) + Len(u) /\ Len(s) \in Nat /\ Len(u) \in Nat
          /\ \A i \in 1..Len(s) : (s \o u)[i] = s[i]
          /\ \A i \in 1..Len(u) : (s \o u)[Len(s) + i] = u[i]
      BY <2>5, Concatenated
    <2>7. ASSUME NEW i \in 1..Len(s \o u) PROVE Proper(d, log'[d], (s \o u)[i])
      <3>1. CASE i \in 1..Len(s)
        BY <2>2, <2>6, <3>1
      <3>2. CASE i \notin 1..Len(s)
        <4>1. i - Len(s) \in 1..Len(u) /\ Len(s) + (i - Len(s)) = i
          BY <2>6, <3>2
        <4> QED
          BY <2>3, <2>6, <4>1
      <3> QED
        BY <3>1, <3>2
    <2> QED
      BY <1>3, <2>7 DEF s, u
  <1>7. DirectoryInv(d)'
    BY <1>1, <1>2, <1>4, <1>5, <1>6 DEF DirectoryInv, Idle
  <1>8. \A x \in Devices : x # d => StaysAt(x)
    BY <1>1, <1>3 DEF StaysAt
  <1> QED
    BY <1>7, <1>8, DirectoryOne

LEMMA NextDirectories == IndInv /\ DirectoriesInv /\ [Next]_vars => DirectoriesInv'
  <1> SUFFICES ASSUME IndInv, DirectoriesInv, [Next]_vars PROVE DirectoriesInv'
    OBVIOUS
  <1>1. CASE Next
    <2>1. PICK d \in Devices :
              \/ Call(d) \/ Plan(d) \/ Save(d) \/ SaveOne(d) \/ SaveFails(d) \/ Reload(d) \/ ReloadFamily(d)
              \/ \E e \in Devices : Merge(d, e)
      BY <1>1 DEF Next
    <2> QED
      BY <2>1, CallDirectory, PlanDirectory, SaveDirectory, SaveOneDirectory, SaveFailsDirectory,
         ReloadDirectory, MergeDirectory
  <1>2. CASE UNCHANGED vars
    <2>1. \A d \in Devices : StaysAt(d)
      BY <1>2 DEF vars, StaysAt
    <2> QED
      BY <2>1, DirectoryStays DEF DirectoriesInv
  <1> QED
    BY <1>1, <1>2

LEMMA Directories == Spec => [](IndInv /\ DirectoriesInv)
  BY InitInv, NextInv, InitDirectories, NextDirectories, PTL DEF Spec

LEMMA LogDirectory ==
    ASSUME IndInv, DirectoriesInv, NEW d \in Devices
    PROVE  Directory(log[d])
  BY PartDirectory DEF DirectoriesInv, DirectoryInv

(* On every device, whatever was called, saved in part, refused by the     *)
(* store and merged, in whatever order: a contact that somebody deleted is  *)
(* active only if it, or one that is one with it, was added again after     *)
(* that (the tombstone of applyOne, and the first add of a duplicate).      *)
THEOREM RemovalStandsHolds == Spec => []RemovalStands
  <1>1. IndInv /\ DirectoriesInv => RemovalStands
    BY LogDirectory, DirectoryDeletions DEF RemovalStands
  <1> QED
    BY <1>1, Directories, PTL

(* On every device and in every such state: a block is on the record its   *)
(* contact has become, and only an unblock of the actor that blocked, after *)
(* it in the order of replay, has lifted it.                                *)
THEOREM BlockStandsHolds == Spec => []BlockStands
  <1>1. IndInv /\ DirectoriesInv => BlockStands
    BY LogDirectory, DirectoryBlocks DEF BlockStands
  <1> QED
    BY <1>1, Directories, PTL

\* No step takes an operation off a log.
LEMMA LogsGrow ==
    ASSUME IndInv, [Next]_vars, NEW d \in Devices
    PROVE  log[d] \subseteq log'[d]
  <1>1. ASSUME NEW e \in Devices, NEW W, log' = [log EXCEPT ![e] = log[e] \cup W]
        PROVE  log[d] \subseteq log'[d]
    BY <1>1 DEF IndInv, Functional
  <1>2. CASE Next
    <2>1. PICK e \in Devices :
              \/ Call(e) \/ Plan(e) \/ Save(e) \/ SaveOne(e) \/ SaveFails(e) \/ Reload(e) \/ ReloadFamily(e)
              \/ \E f \in Devices : Merge(e, f)
      BY <1>2 DEF Next
    <2>2. CASE Call(e) \/ Plan(e) \/ SaveFails(e) \/ Reload(e) \/ ReloadFamily(e)
      BY <2>2 DEF Call, Plan, SaveFails, Reload, ReloadFamily
    <2>3. CASE Save(e)
      <3>1. \E W : log' = [log EXCEPT ![e] = log[e] \cup W]
        BY <2>3 DEF Save
      <3> QED
        BY <1>1, <3>1
    <2>4. CASE SaveOne(e)
      <3>1. \E W : log' = [log EXCEPT ![e] = log[e] \cup W]
        BY <2>4 DEF SaveOne
      <3> QED
        BY <1>1, <3>1
    <2>5. CASE \E f \in Devices : Merge(e, f)
      <3>1. \E W : log' = [log EXCEPT ![e] = log[e] \cup W]
        BY <2>5 DEF Merge
      <3> QED
        BY <1>1, <3>1
    <2> QED
      BY <2>1, <2>2, <2>3, <2>4, <2>5
  <1>3. CASE UNCHANGED vars
    BY <1>3 DEF vars
  <1> QED
    BY <1>2, <1>3

\* Every log can be replayed.
LogsReplay == \A d \in Devices : Directory(log[d])

(* Whatever a device learns, from its own calls or by a merge: contacts     *)
(* that its view has made one stay one, unless what it learns straggles     *)
(* (the key holders of the first replay, and applyOne of remove-item).      *)
THEOREM AliasKeptHolds == Spec => AliasKept
  <1>1. IndInv /\ DirectoriesInv => LogsReplay
    BY LogDirectory DEF LogsReplay
  <1>2. IndInv /\ LogsReplay /\ LogsReplay' /\ [Next]_vars =>
            [\A d \in Devices : Learns(d) /\ ~Straggles(log[d], log'[d]) =>
                GroupsKept(View(log[d]), View(log'[d]))]_vars
    BY LogsGrow, DirectoryAliases DEF LogsReplay
  <1> QED
    BY <1>1, <1>2, Directories, PTL DEF Spec, AliasKept
-----------------------------------------------------------------------------
(* What is saved is new: operations are numbered, contacts named by them.  *)

Ids(S) == {Id(op) : op \in S}

\* The operations of one device, each with a number of its own.
Numbered(S) ==
    /\ \A op \in S : op.num \in Nat /\ op.num <= Cardinality(S)
    /\ \A a, b \in S : a.num = b.num => a = b

\* A contact is named by an operation.
Adopted(S) == \A op \in S : op.act = "add" => op.contact \in Ids(S)

\* What is still to be saved goes on from there.
Numbers(d, batch) ==
    \A i \in 1..Len(batch) :
        /\ batch[i].num = Cardinality(Own(d)) + i
        /\ batch[i].act = "add" => batch[i].contact \in Ids(log[d]) \cup {Id(batch[i])}

LEMMA WrittenCount ==
    ASSUME NEW S, NEW batch \in Seq(S), \A i, j \in 1..Len(batch) : batch[i] = batch[j] => i = j
    PROVE  IsFiniteSet(Written(batch)) /\ Cardinality(Written(batch)) = Len(batch)
  <1> DEFINE f == [i \in 1..Len(batch) |-> batch[i]]
             W == Written(batch)
  <1>1. DOMAIN batch = 1..Len(batch) /\ Len(batch) \in Nat
    OBVIOUS
  <1>2. IsFiniteSet(1..Len(batch)) /\ Cardinality(1..Len(batch)) = Len(batch)
    BY <1>1, FS_Interval
  <1>3. f \in Bijection(1..Len(batch), W)
    <2>1. f \in [1..Len(batch) -> W]
      BY <1>1 DEF Written
    <2>2. \A i, j \in 1..Len(batch) : i # j => f[i] # f[j]
      OBVIOUS
    <2>3. \A w \in W : \E i \in 1..Len(batch) : f[i] = w
      BY <1>1 DEF Written
    <2> HIDE DEF f, W
    <2>4. IsInjective(f)
      BY <2>1, <2>2 DEF IsInjective
    <2> QED
      BY <2>1, <2>3, <2>4 DEF Bijection, Injection, Surjection
  <1>4. ExistsBijection(1..Len(batch), W)
    BY <1>3 DEF ExistsBijection
  <1> QED
    BY <1>2, <1>4, FS_Bijection

\* Operations with the numbers that follow.
LEMMA NumberedMore ==
    ASSUME NEW S, IsFiniteSet(S), Numbered(S), NEW W, IsFiniteSet(W),
           \A op \in W : /\ op.num \in Nat /\ op.num > Cardinality(S)
                         /\ op.num <= Cardinality(S) + Cardinality(W),
           \A a, b \in W : a.num = b.num => a = b
    PROVE  Numbered(S \cup W) /\ Cardinality(S \cup W) = Cardinality(S) + Cardinality(W)
  <1>1. Cardinality(S) \in Nat /\ Cardinality(W) \in Nat
    BY FS_CardinalityType
  <1>2. S \cap W = {}
    BY <1>1 DEF Numbered
  <1>3. Cardinality(S \cup W) = Cardinality(S) + Cardinality(W)
    BY <1>1, <1>2, FS_Union, FS_EmptySet
  <1>4. \A op \in S : op.num \in Nat /\ op.num <= Cardinality(S)
    BY DEF Numbered
  <1>5. \A op \in S \cup W : op.num \in Nat /\ op.num <= Cardinality(S \cup W)
    BY <1>1, <1>3, <1>4
  <1>6. \A a, b \in S \cup W : a.num = b.num => a = b
    BY <1>1, <1>4 DEF Numbered
  <1> QED
    BY <1>3, <1>5, <1>6 DEF Numbered

-----------------------------------------------------------------------------
(* Plans.                                                                  *)

\* recogniseContact, where somebody has the key, and where nobody has.
Finds(t, base, batch) ==
    /\ Len(batch) = 1 /\ batch[1].list = t.list
    /\ batch[1].contact \in DOMAIN View(base).record
    /\ t.key \in KeysHeld(View(base).record[batch[1].contact])
    /\ batch[1].act = IF View(base).record[batch[1].contact].life \in Gone THEN "add" ELSE "link"

Makes(t, batch) ==
    /\ Len(batch) = 2
    /\ batch[1].act = "add" /\ batch[1].contact = Id(batch[1]) /\ batch[1].list = t.list
    /\ batch[2].act = "add-identity" /\ batch[2].contact = batch[1].contact /\ batch[2].key = t.key

\* What a contacts call is to save, for what it was asked.
Planned(t, base, batch) ==
    /\ t.kind \in Edited \cup {"recognise", "add", "clear"}
    /\ t.kind \in Edited => Len(batch) = 1 /\ Asked(t, batch[1]) /\ AddsOf(base, t.contact) # {}
    /\ t.kind = "recognise" => Finds(t, base, batch) \/ Makes(t, batch)

LEMMA BuiltIs ==
    ASSUME NEW d, NEW n, NEW clock, NEW act, NEW t
    PROVE  LET op == Built(d, n, clock, act, t) IN
           /\ op.num = Cardinality(Own(d)) + n /\ Id(op) = <<d, Cardinality(Own(d)) + n>>
           /\ op.act = act /\ op.contact = t.contact /\ op.item = t.item /\ op.key = t.key
           /\ op.list = t.list /\ op.target = t.target
  BY DEF Built, Id, Own

LEMMA OneNumbered ==
    ASSUME NEW d, NEW x, x.num = Cardinality(Own(d)) + 1,
           x.act = "add" => x.contact \in Ids(log[d]) \cup {Id(x)}
    PROVE  Numbers(d, <<x>>)
  <1> DEFINE s == <<x>>
  <1>1. Len(s) = 1 /\ s[1] = x
    OBVIOUS
  <1> HIDE DEF s
  <1>2. Numbers(d, s)
    BY <1>1 DEF Numbers
  <1> QED
    BY <1>2 DEF s

LEMMA TwoNumbered ==
    ASSUME NEW d, NEW x, NEW y,
           x.num = Cardinality(Own(d)) + 1, x.contact \in Ids(log[d]) \cup {Id(x)},
           y.num = Cardinality(Own(d)) + 2, y.act # "add"
    PROVE  Numbers(d, <<x, y>>)
  <1> DEFINE s == <<x, y>>
  <1>1. Len(s) = 2 /\ s[1] = x /\ s[2] = y
    OBVIOUS
  <1> HIDE DEF s
  <1>2. Numbers(d, s)
    <2> SUFFICES ASSUME NEW i \in 1..Len(s)
                 PROVE  /\ s[i].num = Cardinality(Own(d)) + i
                        /\ s[i].act = "add" => s[i].contact \in Ids(log[d]) \cup {Id(s[i])}
      BY DEF Numbers
    <2>1. i \in {1, 2}
      BY <1>1
    <2> QED
      BY <1>1, <2>1
  <1> QED
    BY <1>2 DEF s

\* A task with some of its fields set.
LEMMA TaskFields ==
    ASSUME NEW d, NEW S, NEW t, Proper(d, S, t), NEW c, NEW i
    PROVE  /\ [t EXCEPT !.contact = c] = TaskOf(t.kind, c, t.item, t.key, t.list, t.target, t.confirm, t.ids)
           /\ [t EXCEPT !.item = i] = TaskOf(t.kind, t.contact, i, t.key, t.list, t.target, t.confirm, t.ids)
  BY DEF Proper, TaskOf

LEMMA NewWithKeyNames ==
    ASSUME NEW d, NEW S, NEW t, Proper(d, S, t), NEW clock
    PROVE  Numbers(d, NewWithKey(d, clock, t)) /\ Makes(t, NewWithKey(d, clock, t))
  <1> DEFINE n == NewContact(d, t)
             u == [n EXCEPT !.key = "none"]
             v == [n EXCEPT !.item = OwnId(d, 2), !.list = "none"]
             x == Built(d, 1, clock, "add", u)
             y == Built(d, 2, clock, "add-identity", v)
  <1>1. n = TaskOf(t.kind, OwnId(d, 1), t.item, t.key, t.list, t.target, t.confirm, t.ids)
    BY TaskFields DEF NewContact
  <1> HIDE DEF n
  <1>2. u.contact = OwnId(d, 1) /\ u.list = t.list
    BY <1>1 DEF TaskOf
  <1>3. v.contact = OwnId(d, 1) /\ v.key = t.key
    <2> DEFINE w == [n EXCEPT !.item = OwnId(d, 2)]
    <2>1. w = TaskOf(t.kind, OwnId(d, 1), OwnId(d, 2), t.key, t.list, t.target, t.confirm, t.ids)
      BY <1>1 DEF TaskOf
    <2>2. v = [w EXCEPT !.list = "none"]
      BY Zenon
    <2> HIDE DEF w, v
    <2> QED
      BY <2>1, <2>2 DEF TaskOf
  <1>4. NewWithKey(d, clock, t) = <<x, y>>
    BY DEF NewWithKey, u, v, n
  <1> HIDE DEF u, v
  <1>5. OwnId(d, 1) = <<d, Cardinality(Own(d)) + 1>>
    BY DEF OwnId, Own
  <1>6. x.num = Cardinality(Own(d)) + 1 /\ x.act = "add" /\ x.contact = Id(x) /\ x.list = t.list
    BY <1>2, <1>5, BuiltIs
  <1>7. y.num = Cardinality(Own(d)) + 2 /\ y.act = "add-identity" /\ y.contact = x.contact /\ y.key = t.key
    BY <1>2, <1>3, BuiltIs
  <1> HIDE DEF x, y
  <1>8. Numbers(d, <<x, y>>)
    BY <1>6, <1>7, TwoNumbered
  <1>9. Makes(t, <<x, y>>)
    <2> DEFINE s == <<x, y>>
    <2>1. Len(s) = 2 /\ s[1] = x /\ s[2] = y
      OBVIOUS
    <2> HIDE DEF s
    <2>2. Makes(t, s)
      BY <1>6, <1>7, <2>1 DEF Makes
    <2> QED
      BY <2>2 DEF s
  <1> QED
    BY <1>4, <1>8, <1>9

LEMMA MutationNames ==
    ASSUME NEW d, NEW t, Proper(d, log[d], t), t.kind \in Edited \cup {"add"}
    PROVE  Numbers(d, Mutation(d, t)) /\ Planned(t, log[d], Mutation(d, t))
  <1> DEFINE c == ContactsClock(d)
             n == NewContact(d, t)
             i == [t EXCEPT !.item = OwnId(d, 1)]
  <1>1. CASE t.kind = "add"
    <2> DEFINE x == Built(d, 1, c, "add", n)
               y == Built(d, 2, c, "origin", n)
    <2>1. Mutation(d, t) = <<x, y>>
      BY <1>1 DEF Mutation
    <2>2. n.contact = <<d, Cardinality(Own(d)) + 1>>
      BY TaskFields DEF NewContact, TaskOf, OwnId, Own
    <2> HIDE DEF n
    <2>3. /\ x.num = Cardinality(Own(d)) + 1 /\ x.contact = Id(x)
          /\ y.num = Cardinality(Own(d)) + 2 /\ y.act # "add"
      BY <2>2, BuiltIs
    <2> HIDE DEF x, y
    <2> QED
      BY <1>1, <2>1, <2>3, TwoNumbered DEF Planned, Edited
  <1>2. ASSUME NEW u, t.kind \in Edited, Mutation(d, t) = <<Built(d, 1, c, t.kind, u)>>,
               u.contact = t.contact, u.key = t.key, u.list = t.list, u.target = t.target,
               t.kind # "add-identity" => u.item = t.item
        PROVE  Numbers(d, Mutation(d, t)) /\ Planned(t, log[d], Mutation(d, t))
    <2> DEFINE x == Built(d, 1, c, t.kind, u)
               s == <<x>>
    <2>1. x.num = Cardinality(Own(d)) + 1 /\ x.act # "add" /\ Asked(t, x)
      BY <1>2, BuiltIs DEF Asked, Edited
    <2>2. Mutation(d, t) = s
      BY <1>2
    <2> HIDE DEF x
    <2>3. Len(s) = 1 /\ s[1] = x /\ Numbers(d, s)
      BY <2>1, OneNumbered
    <2> HIDE DEF s
    <2>4. t.kind # "recognise" /\ AddsOf(log[d], t.contact) # {}
      BY <1>2 DEF Proper, Edited
    <2>5. Planned(t, log[d], s)
      BY <1>2, <2>1, <2>3, <2>4 DEF Planned
    <2> QED
      BY <2>2, <2>3, <2>5
  <1>3. CASE t.kind = "add-identity"
    <2>1. i = TaskOf(t.kind, t.contact, OwnId(d, 1), t.key, t.list, t.target, t.confirm, t.ids)
      BY TaskFields
    <2>2. Mutation(d, t) = <<Built(d, 1, c, t.kind, i)>>
      BY <1>3 DEF Mutation
    <2> HIDE DEF i, c
    <2>3. i.contact = t.contact /\ i.key = t.key /\ i.list = t.list /\ i.target = t.target
      BY <2>1 DEF TaskOf
    <2> QED
      BY <1>2, <1>3, <2>2, <2>3 DEF Edited, c
  <1>4. CASE t.kind # "add" /\ t.kind # "add-identity"
    <2>1. Mutation(d, t) = <<Built(d, 1, c, t.kind, t)>> /\ t.kind \in Edited
      BY <1>4 DEF Mutation
    <2> HIDE DEF c
    <2> QED
      BY <1>2, <2>1 DEF c
  <1> QED
    BY <1>1, <1>3, <1>4

LEMMA RecognisedNames ==
    ASSUME NEW d, Directory(log[d]), Adopted(log[d]), NEW t, Proper(d, log[d], t), t.kind = "recognise"
    PROVE  Numbers(d, PlanOf(d, t)) /\ Planned(t, log[d], PlanOf(d, t))
  <1> DEFINE clock == nextClock(0, Frontier(log[d]))
             having == Having(View(log[d]), t.key)
             c == CHOOSE c \in having : TRUE
             act == IF View(log[d]).record[c].life \in Gone THEN "add" ELSE "link"
             u == [t EXCEPT !.contact = c, !.key = "none"]
             x == Built(d, 1, clock, act, u)
  <1>1. PlanOf(d, t) = Recognised(d, t, clock, View(log[d]), having)
    BY DEF PlanOf, Recognition, RecognisedIn
  <1>2. CASE having = {}
    <2>1. PlanOf(d, t) = NewWithKey(d, clock, t)
      BY <1>1, <1>2 DEF Recognised
    <2> HIDE DEF clock
    <2>2. Numbers(d, PlanOf(d, t)) /\ Makes(t, PlanOf(d, t))
      BY <2>1, NewWithKeyNames
    <2> QED
      BY <2>2 DEF Planned, Edited
  <1>3. CASE having # {}
    <2> DEFINE s == <<x>>
    <2>1. PlanOf(d, t) = s
      BY <1>1, <1>3 DEF Recognised
    <2>2. c \in having
      BY <1>3
    <2> HIDE DEF c
    <2>3. /\ c \in DOMAIN View(log[d]).record /\ t.key \in KeysHeld(View(log[d]).record[c])
          /\ AddsOf(log[d], c) # {}
      BY <2>2, ViewContacts DEF Having, KeysHeld
    <2>4. u.contact = c /\ u.list = t.list
      <3> DEFINE w == [t EXCEPT !.contact = c]
      <3>1. w = TaskOf(t.kind, c, t.item, t.key, t.list, t.target, t.confirm, t.ids)
        BY TaskFields
      <3>2. u = [w EXCEPT !.key = "none"]
        BY Zenon
      <3> HIDE DEF w, u
      <3> QED
        BY <3>1, <3>2 DEF TaskOf
    <2> HIDE DEF u, clock
    <2>5. x.num = Cardinality(Own(d)) + 1 /\ x.contact = c /\ x.list = t.list /\ x.act = act
      BY <2>4, BuiltIs
    <2> HIDE DEF x
    <2>6. c \in Ids(log[d])
      BY <2>3 DEF Adopted, AddsOf
    <2>7. Len(s) = 1 /\ s[1] = x /\ Numbers(d, s)
      BY <2>5, <2>6, OneNumbered
    <2> HIDE DEF s
    <2>8. Finds(t, log[d], s)
      BY <2>3, <2>5, <2>7 DEF Finds
    <2> QED
      BY <2>1, <2>7, <2>8 DEF Planned, Edited
  <1> QED
    BY <1>2, <1>3

LEMMA ClearingNames ==
    ASSUME NEW d, Directory(log[d]), NEW t, Proper(d, log[d], t)
    PROVE  Numbers(d, Clearing(d, t))
  <1> DEFINE X == Clearable(View(log[d]), t)
             c == ContactsClock(d)
             B(n) == Built(d, n, c, "unlink", [t EXCEPT !.contact = SetToSeq(X)[n]])
  <1>1. X \subseteq Named(log[d])
    BY ViewContacts DEF Clearable, OnList
  <1>2. IsFiniteSet(X)
    BY <1>1, ViewContacts, ContactsFinite, FS_Subset DEF Directory, Ordered
  <1>3. PICK n \in Nat : SetToSeq(X) \in [1..n -> X]
    BY <1>2, ListedInOrder
  <1>4. Clearing(d, t) = [i \in 1..n |-> B(i)]
    BY <1>3 DEF Clearing
  <1>5. ASSUME NEW i \in 1..n PROVE B(i).num = Cardinality(Own(d)) + i /\ B(i).act # "add"
    BY BuiltIs
  <1> HIDE DEF B, c
  <1>6. Len([i \in 1..n |-> B(i)]) = n
    OBVIOUS
  <1> QED
    BY <1>4, <1>5, <1>6 DEF Numbers

LEMMA PlanNames ==
    ASSUME NEW d, Directory(log[d]), Adopted(log[d]), NEW t, Proper(d, log[d], t), t.kind \notin Reloading
    PROVE  /\ Numbers(d, PlanOf(d, t))
           /\ HookOf(t) = "contacts" => Planned(t, log[d], PlanOf(d, t))
  <1>1. CASE t.kind = "recognise"
    BY <1>1, RecognisedNames
  <1>2. CASE t.kind = "clear"
    BY <1>2, ClearingNames DEF PlanOf, Planned, Edited
  <1>3. CASE t.kind = "share"
    BY <1>3, NewWithKeyNames DEF PlanOf, Share, HookOf
  <1>4. CASE t.kind \in Edited \cup {"add"}
    <2>1. PlanOf(d, t) = Mutation(d, t)
      BY <1>4 DEF PlanOf, Edited
    <2> QED
      BY <1>4, <2>1, MutationNames
  <1> QED
    BY <1>1, <1>2, <1>3, <1>4 DEF Proper, Keyed, Edited

-----------------------------------------------------------------------------
(* What is stored and what is planned, step by step.                       *)

NamesInv(d) ==
    /\ Numbered(Own(d)) /\ Adopted(log[d])
    /\ ~Idle(d) => Numbers(d, job[d].batch)
    /\ job[d].pc = "contacts" => Planned(Head(tasks[d]), job[d].base, job[d].batch)

PlansInv == \A d \in Devices : NamesInv(d)

LEMMA NamesStay ==
    ASSUME NEW e \in Devices, NamesInv(e), StaysAt(e)
    PROVE  NamesInv(e)'
  BY DEF NamesInv, StaysAt, Idle, Own, Numbers

LEMMA NamesOne ==
    ASSUME PlansInv, NEW d \in Devices, NamesInv(d)', \A e \in Devices : e # d => StaysAt(e)
    PROVE  PlansInv'
  BY NamesStay DEF PlansInv

LEMMA OwnFinite ==
    ASSUME IndInv, NEW d \in Devices
    PROVE  IsFiniteSet(Own(d)) /\ Cardinality(Own(d)) \in Nat
  <1>1. Own(d) \subseteq log[d] /\ IsFiniteSet(log[d])
    BY DEF Own, IndInv, DeviceInv, Stored
  <1> QED
    BY <1>1, FS_Subset, FS_CardinalityType

\* Operations saved with the numbers that follow.
LEMMA NamesSaved ==
    ASSUME IndInv, NEW d \in Devices, NamesInv(d), NEW W, IsFiniteSet(W), log'[d] = log[d] \cup W,
           \A op \in W : /\ op.dev = d /\ op.num \in Nat
                         /\ op.num > Cardinality(Own(d)) /\ op.num <= Cardinality(Own(d)) + Cardinality(W)
                         /\ op.act = "add" => op.contact \in Ids(log[d]) \cup {Id(op)},
           \A a, b \in W : a.num = b.num => a = b
    PROVE  /\ Numbered(Own(d))' /\ Adopted(log[d])'
           /\ Own(d)' = Own(d) \cup W
           /\ Cardinality(Own(d))' = Cardinality(Own(d)) + Cardinality(W)
  <1>1. Own(d)' = Own(d) \cup W
    BY DEF Own
  <1>2. Numbered(Own(d) \cup W) /\ Cardinality(Own(d) \cup W) = Cardinality(Own(d)) + Cardinality(W)
    <2> DEFINE S == Own(d)
    <2>1. IsFiniteSet(S) /\ Numbered(S)
      BY OwnFinite DEF NamesInv
    <2>2. \A op \in W : /\ op.num \in Nat /\ op.num > Cardinality(S)
                        /\ op.num <= Cardinality(S) + Cardinality(W)
      OBVIOUS
    <2> HIDE DEF S
    <2>3. Numbered(S \cup W) /\ Cardinality(S \cup W) = Cardinality(S) + Cardinality(W)
      BY <2>1, <2>2, NumberedMore
    <2> QED
      BY <2>3 DEF S
  <1>3. Adopted(log[d])'
    <2> SUFFICES ASSUME NEW op \in log'[d], op.act = "add" PROVE op.contact \in Ids(log'[d])
      BY DEF Adopted
    <2>1. CASE op \in log[d]
      BY <2>1 DEF NamesInv, Adopted, Ids
    <2>2. CASE op \in W
      BY <2>2 DEF Ids
    <2> QED
      BY <2>1, <2>2
  <1>4. Numbered(Own(d))'
    BY <1>1, <1>2 DEF Numbered
  <1> QED
    BY <1>1, <1>2, <1>3, <1>4

LEMMA InitNames == Init => PlansInv
  <1> SUFFICES ASSUME Init, NEW d \in Devices PROVE NamesInv(d)
    BY DEF PlansInv
  <1>1. log[d] = Start /\ job[d] = NoJob
    BY DEF Init
  <1>2. Own(d) = {} /\ job[d].pc = "idle"
    BY <1>1, WritersAssumption DEF WritersAssumption, Own, NoJob
  <1>3. Adopted(Start)
    BY StartAssumption DEF StartAssumption, Adopted, Ids
  <1>4. Numbered(Own(d))
    BY <1>2 DEF Numbered
  <1> QED
    BY <1>1, <1>2, <1>3, <1>4 DEF NamesInv, Idle

\* The queue gains tasks behind the one under way.
LEMMA HeadStays ==
    ASSUME IndInv, NEW d \in Devices, NamesInv(d), job' = job,
           tasks[d] # <<>> => Head(tasks'[d]) = Head(tasks[d]),
           Own(d)' = Own(d), log[d] \subseteq log'[d], Adopted(log[d])'
    PROVE  NamesInv(d)'
  <1>1. job[d].pc = "contacts" => tasks[d] # <<>>
    <2>1. Idle(d) \/ Working(d)
      BY DEF IndInv, DeviceInv, JobInv
    <2> QED
      BY <2>1 DEF Idle, NoJob, Working
  <1>2. Numbered(Own(d))'
    BY DEF NamesInv, Numbered
  <1>3. ~Idle(d) => Numbers(d, job[d].batch)'
    BY DEF NamesInv, Numbers, Ids
  <1> QED
    BY <1>1, <1>2, <1>3 DEF NamesInv, Idle

LEMMA CallNames ==
    ASSUME IndInv, PlansInv, NEW d \in Devices, Call(d)
    PROVE  PlansInv'
  <1>1. PICK t : tasks' = [tasks EXCEPT ![d] = Append(tasks[d], t)]
    BY DEF Call
  <1>2. log' = log /\ shown' = shown /\ job' = job
    BY DEF Call
  <1>3. tasks'[d] = Append(tasks[d], t) /\ \A e \in Devices : e # d => tasks'[e] = tasks[e]
    BY <1>1 DEF IndInv, Functional
  <1>4. PICK S : tasks[d] \in Seq(S)
    BY DEF IndInv, DeviceInv, Queued
  <1>5. tasks[d] # <<>> => Head(tasks'[d]) = Head(tasks[d])
    BY <1>3, <1>4, AppendedQueue
  <1>6. NamesInv(d) /\ Own(d)' = Own(d) /\ Adopted(log[d])'
    BY <1>2 DEF PlansInv, NamesInv, Own, Adopted
  <1>7. NamesInv(d)'
    BY <1>2, <1>5, <1>6, HeadStays
  <1>8. \A e \in Devices : e # d => StaysAt(e)
    BY <1>2, <1>3 DEF StaysAt
  <1> QED
    BY <1>7, <1>8, NamesOne

LEMMA MergeNames ==
    ASSUME IndInv, PlansInv, NEW d \in Devices, NEW e \in Devices, Merge(d, e)
    PROVE  PlansInv'
  <1>1. /\ log' = [log EXCEPT ![d] = log[d] \cup log[e]] /\ shown' = shown /\ job' = job
        /\ tasks' = [tasks EXCEPT ![d] = tasks[d] \o Reloads(d)]
    BY DEF Merge
  <1>2. /\ log'[d] = log[d] \cup log[e] /\ tasks'[d] = tasks[d] \o Reloads(d)
        /\ \A x \in Devices : x # d => log'[x] = log[x] /\ tasks'[x] = tasks[x]
    BY <1>1 DEF IndInv, Functional
  <1>3. PICK S : tasks[d] \in Seq(S)
    BY DEF IndInv, DeviceInv, Queued
  <1>4. tasks[d] # <<>> => Head(tasks'[d]) = Head(tasks[d])
    BY <1>2, <1>3, ReloadsQueue
  <1>5. Own(d)' = Own(d)
    BY <1>2 DEF IndInv, Home, Own
  <1>6. NamesInv(d) /\ Adopted(log[d])'
    BY <1>2 DEF PlansInv, NamesInv, Adopted, Ids
  <1>7. NamesInv(d)'
    BY <1>1, <1>2, <1>4, <1>5, <1>6, HeadStays
  <1>8. \A x \in Devices : x # d => StaysAt(x)
    BY <1>1, <1>2 DEF StaysAt
  <1> QED
    BY <1>7, <1>8, NamesOne

LEMMA PlanKept ==
    ASSUME IndInv, DirectoriesInv, PlansInv, NEW d \in Devices, Plan(d)
    PROVE  PlansInv'
  <1> DEFINE t == Head(tasks[d])
             batch == PlanOf(d, t)
  <1>1. /\ tasks[d] # <<>> /\ t.kind \notin Reloading /\ Idle(d)
        /\ Decide(d, t, batch) /\ log' = log /\ shown' = shown
    BY DEF Plan, Reloading
  <1>2. DirectoryInv(d) /\ NamesInv(d)
    BY DEF DirectoriesInv, PlansInv
  <1>3. Proper(d, log[d], t)
    <2>1. PICK S : tasks[d] \in Seq(S)
      BY DEF IndInv, DeviceInv, Queued
    <2>2. t = tasks[d][1] /\ 1 \in 1..Len(tasks[d])
      BY <1>1, <2>1
    <2> HIDE DEF t
    <2> QED
      BY <1>2, <2>2 DEF DirectoryInv
  <1>4. Numbers(d, batch) /\ (HookOf(t) = "contacts" => Planned(t, log[d], batch))
    <2>1. Directory(log[d]) /\ Adopted(log[d])
      BY <1>2, PartDirectory DEF DirectoryInv, NamesInv
    <2> HIDE DEF t
    <2> QED
      BY <1>1, <1>3, <2>1, PlanNames
  <1>5. Own(d)' = Own(d) /\ Numbered(Own(d))' /\ Adopted(log[d])'
    BY <1>1, <1>2 DEF Own, Numbered, Adopted, NamesInv
  <1> HIDE DEF batch
  <1>6. CASE Refused(d, t, batch)
    <2>1. tasks' = [tasks EXCEPT ![d] = Tail(tasks[d])] /\ job' = job
      BY <1>1, <1>6 DEF Decide
    <2>2. \A e \in Devices : e # d => tasks'[e] = tasks[e]
      BY <2>1 DEF IndInv, Functional
    <2>3. Idle(d)' /\ job'[d].pc # "contacts"
      BY <1>1, <2>1 DEF Idle, NoJob
    <2>4. NamesInv(d)'
      BY <1>5, <2>3 DEF NamesInv
    <2>5. \A e \in Devices : e # d => StaysAt(e)
      BY <1>1, <2>1, <2>2 DEF StaysAt
    <2> QED
      BY <2>4, <2>5, NamesOne
  <1>7. CASE ~Refused(d, t, batch)
    <2>1. /\ job' = [job EXCEPT ![d] = [pc |-> HookOf(t), batch |-> batch, base |-> log[d]]]
          /\ tasks' = tasks
      BY <1>1, <1>7 DEF Decide
    <2>2. /\ job'[d] = [pc |-> HookOf(t), batch |-> batch, base |-> log[d]]
          /\ \A e \in Devices : e # d => job'[e] = job[e]
      BY <2>1, ChangedAt DEF IndInv, Functional
    <2>3. job'[d].batch = batch /\ job'[d].base = log[d] /\ job'[d].pc = HookOf(t)
      BY <2>2
    <2>4. Numbers(d, job[d].batch)'
      BY <1>1, <1>4, <1>5, <2>3 DEF Numbers
    <2>5. Head(tasks'[d]) = t
      BY <2>1
    <2> HIDE DEF t
    <2>6. (job[d].pc = "contacts" => Planned(Head(tasks[d]), job[d].base, job[d].batch))'
      BY <1>4, <2>3, <2>5
    <2>7. NamesInv(d)'
      BY <1>5, <2>4, <2>6 DEF NamesInv
    <2>8. \A e \in Devices : e # d => StaysAt(e)
      BY <1>1, <2>1, <2>2 DEF StaysAt
    <2> QED
      BY <2>7, <2>8, NamesOne
  <1> QED
    BY <1>6, <1>7

LEMMA SaveNames ==
    ASSUME IndInv, PlansInv, NEW d \in Devices, Save(d)
    PROVE  PlansInv'
  <1> DEFINE batch == job[d].batch
             W == Written(batch)
  <1>1. /\ job[d].pc = "contacts"
        /\ log' = [log EXCEPT ![d] = log[d] \cup W]
        /\ shown' = [shown EXCEPT ![d] = job[d].base \cup W]
        /\ tasks' = [tasks EXCEPT ![d] = Tail(tasks[d])]
        /\ job' = [job EXCEPT ![d] = NoJob]
    BY DEF Save, EndTask
  <1>2. Working(d) /\ NamesInv(d) /\ ~Idle(d)
    BY <1>1 DEF PlansInv, IndInv, DeviceInv, JobInv, Idle, NoJob
  <1>3. Numbers(d, batch) /\ Later(d, batch, job[d].base)
    BY <1>2 DEF NamesInv, Working
  <1>4. PICK S : batch \in Seq(S)
    BY <1>3 DEF Later
  <1>5. Cardinality(Own(d)) \in Nat
    BY OwnFinite
  <1>6. Len(batch) \in Nat /\ \A op : op \in W <=> \E i \in 1..Len(batch) : op = batch[i]
    BY <1>4, WrittenSet
  <1>7. log'[d] = log[d] \cup W
    BY <1>1 DEF IndInv, Functional
  <1>8. IsFiniteSet(W) /\ Cardinality(W) = Len(batch)
    <2>1. \A i, j \in 1..Len(batch) : batch[i] = batch[j] => i = j
      <3> HIDE DEF batch
      <3>1. ASSUME NEW i \in 1..Len(batch), NEW j \in 1..Len(batch), batch[i].num = batch[j].num PROVE i = j
        BY <1>3, <1>5, <3>1 DEF Numbers
      <3> QED
        BY <3>1
    <2> HIDE DEF batch
    <2> QED
      BY <1>4, <2>1, WrittenCount
  <1> HIDE DEF batch, W
  <1>9. \A op \in W : /\ op.dev = d /\ op.num \in Nat
                      /\ op.num > Cardinality(Own(d)) /\ op.num <= Cardinality(Own(d)) + Cardinality(W)
                      /\ op.act = "add" => op.contact \in Ids(log[d]) \cup {Id(op)}
    <2> SUFFICES ASSUME NEW i \in 1..Len(batch)
                 PROVE  /\ batch[i].dev = d /\ batch[i].num \in Nat
                        /\ batch[i].num > Cardinality(Own(d))
                        /\ batch[i].num <= Cardinality(Own(d)) + Cardinality(W)
                        /\ batch[i].act = "add" => batch[i].contact \in Ids(log[d]) \cup {Id(batch[i])}
      BY <1>6
    <2>1. batch[i].num = Cardinality(Own(d)) + i
      BY <1>3 DEF Numbers
    <2>2. batch[i].dev = d /\ (batch[i].act = "add" => batch[i].contact \in Ids(log[d]) \cup {Id(batch[i])})
      BY <1>3 DEF Numbers, Later
    <2> QED
      BY <1>5, <1>6, <1>8, <2>1, <2>2
  <1>10. \A a, b \in W : a.num = b.num => a = b
    <2> SUFFICES ASSUME NEW i \in 1..Len(batch), NEW j \in 1..Len(batch), batch[i].num = batch[j].num
                 PROVE  batch[i] = batch[j]
      BY <1>6
    <2>1. batch[i].num = Cardinality(Own(d)) + i /\ batch[j].num = Cardinality(Own(d)) + j
      BY <1>3 DEF Numbers
    <2>2. i \in Nat /\ j \in Nat
      BY <1>6
    <2>3. i = j
      <3> DEFINE k == Cardinality(Own(d))
      <3>1. k \in Nat /\ k + i = k + j
        BY <1>5, <2>1
      <3> HIDE DEF k
      <3> QED
        BY <2>2, <3>1
    <2> QED
      BY <2>3
  <1>11. Numbered(Own(d))' /\ Adopted(log[d])'
    BY <1>2, <1>7, <1>8, <1>9, <1>10, NamesSaved
  <1>12. /\ job'[d] = NoJob
         /\ \A e \in Devices : e # d => /\ log'[e] = log[e] /\ shown'[e] = shown[e] /\ job'[e] = job[e]
                                        /\ tasks'[e] = tasks[e]
    BY <1>1 DEF IndInv, Functional
  <1>13. NamesInv(d)'
    BY <1>11, <1>12 DEF NamesInv, Idle, NoJob
  <1>14. \A e \in Devices : e # d => StaysAt(e)
    BY <1>12 DEF StaysAt
  <1> QED
    BY <1>13, <1>14, NamesOne

LEMMA SaveOneNames ==
    ASSUME IndInv, PlansInv, NEW d \in Devices, SaveOne(d)
    PROVE  PlansInv'
  <1> DEFINE batch == job[d].batch
             first == Head(batch)
  <1>1. /\ job[d].pc = "family" /\ shown' = shown
        /\ log' = [log EXCEPT ![d] = log[d] \cup {first}]
    BY DEF SaveOne
  <1>2. Working(d) /\ NamesInv(d) /\ ~Idle(d)
    BY <1>1 DEF PlansInv, IndInv, DeviceInv, JobInv, Idle, NoJob
  <1>3. Numbers(d, batch) /\ Later(d, batch, job[d].base)
    BY <1>2 DEF NamesInv, Working
  <1>4. PICK S : batch \in Seq(S)
    BY <1>3 DEF Later
  <1>5. Cardinality(Own(d)) \in Nat
    BY OwnFinite
  <1>6. first = batch[1] /\ 1 \in 1..Len(batch) /\ Len(batch) \in Nat
    BY <1>3, <1>4 DEF Later
  <1>7. log'[d] = log[d] \cup {first} /\ \A e \in Devices : e # d => log'[e] = log[e]
    BY <1>1 DEF IndInv, Functional
  <1>8. IsFiniteSet({first}) /\ Cardinality({first}) = 1
    BY FS_Singleton
  <1>9. /\ first.dev = d /\ first.num = Cardinality(Own(d)) + 1
        /\ first.act = "add" => first.contact \in Ids(log[d]) \cup {Id(first)}
    <2> HIDE DEF batch, first
    <2> QED
      BY <1>3, <1>6 DEF Numbers, Later
  <1> HIDE DEF first
  <1>10. /\ Numbered(Own(d))' /\ Adopted(log[d])'
         /\ Cardinality(Own(d))' = Cardinality(Own(d)) + 1
    <2> DEFINE W == {first}
    <2>1. /\ IsFiniteSet(W) /\ log'[d] = log[d] \cup W /\ Cardinality(W) = 1
          /\ \A a, b \in W : a.num = b.num => a = b
      BY <1>7, <1>8
    <2>2. \A op \in W : /\ op.dev = d /\ op.num \in Nat
                        /\ op.num > Cardinality(Own(d)) /\ op.num <= Cardinality(Own(d)) + Cardinality(W)
                        /\ op.act = "add" => op.contact \in Ids(log[d]) \cup {Id(op)}
      BY <1>5, <1>8, <1>9
    <2> HIDE DEF W
    <2> QED
      BY <1>2, <2>1, <2>2, NamesSaved
  <1>11. CASE Len(batch) = 1
    <2>1. tasks' = [tasks EXCEPT ![d] = Tail(tasks[d])] /\ job' = [job EXCEPT ![d] = NoJob]
      BY <1>11 DEF SaveOne, EndTask
    <2>2. job'[d] = NoJob /\ \A e \in Devices : e # d => job'[e] = job[e] /\ tasks'[e] = tasks[e]
      BY <2>1 DEF IndInv, Functional
    <2>3. NamesInv(d)'
      BY <1>10, <2>2 DEF NamesInv, Idle, NoJob
    <2>4. \A e \in Devices : e # d => StaysAt(e)
      BY <1>1, <1>7, <2>2 DEF StaysAt
    <2> QED
      BY <2>3, <2>4, NamesOne
  <1>12. CASE Len(batch) # 1
    <2>1. tasks' = tasks /\ job' = [job EXCEPT ![d].batch = Tail(batch)]
      BY <1>12 DEF SaveOne
    <2> DEFINE r == job[d]
               next == [r EXCEPT !.batch = Tail(batch)]
    <2>2. job'[d] = next /\ \A e \in Devices : e # d => job'[e] = job[e]
      BY <2>1 DEF IndInv, Functional
    <2>3. r = [pc |-> r.pc, batch |-> r.batch, base |-> r.base]
      BY <1>2 DEF Working
    <2>4. job'[d] = [pc |-> r.pc, batch |-> Tail(batch), base |-> r.base]
      BY <2>2, <2>3, RestOfBatch
    <2>5. job'[d].pc = "family" /\ job'[d].batch = Tail(batch)
      BY <1>1, <2>4
    <2> HIDE DEF batch, r, next
    <2>6. /\ Len(Tail(batch)) = Len(batch) - 1
          /\ \A i \in 1..Len(Tail(batch)) : i + 1 \in 1..Len(batch) /\ Tail(batch)[i] = batch[i + 1]
      BY <1>4, <1>6, <1>12, RestShape
    <2>7. Numbers(d, job[d].batch)'
      <3> SUFFICES ASSUME NEW i \in 1..Len(Tail(batch))
                   PROVE  /\ Tail(batch)[i].num = Cardinality(Own(d))' + i
                          /\ Tail(batch)[i].act = "add" =>
                                Tail(batch)[i].contact \in Ids(log'[d]) \cup {Id(Tail(batch)[i])}
        BY <2>5 DEF Numbers
      <3>1. i + 1 \in 1..Len(batch) /\ Tail(batch)[i] = batch[i + 1] /\ i \in Nat
        BY <2>6
      <3>2. /\ batch[i + 1].num = Cardinality(Own(d)) + (i + 1)
            /\ batch[i + 1].act = "add" => batch[i + 1].contact \in Ids(log[d]) \cup {Id(batch[i + 1])}
        BY <1>3, <3>1 DEF Numbers
      <3>3. Ids(log[d]) \subseteq Ids(log'[d])
        BY <1>7 DEF Ids
      <3>4. Cardinality(Own(d)) + (i + 1) = Cardinality(Own(d))' + i
        BY <1>5, <1>10, <3>1
      <3> QED
        BY <3>1, <3>2, <3>3, <3>4
    <2>8. NamesInv(d)'
      BY <1>10, <2>5, <2>7 DEF NamesInv
    <2>9. \A e \in Devices : e # d => StaysAt(e)
      BY <1>1, <1>7, <2>1, <2>2 DEF StaysAt
    <2> QED
      BY <2>8, <2>9, NamesOne
  <1> QED
    BY <1>11, <1>12

LEMMA IdleNames ==
    ASSUME IndInv, PlansInv, NEW d \in Devices, SaveFails(d) \/ Reload(d) \/ ReloadFamily(d)
    PROVE  PlansInv'
  <1>1. /\ tasks' = [tasks EXCEPT ![d] = Tail(tasks[d])] /\ log' = log
        /\ shown' = shown \/ shown' = [shown EXCEPT ![d] = log[d]]
        /\ (job' = job /\ Idle(d)) \/ job' = [job EXCEPT ![d] = NoJob]
    BY DEF SaveFails, EndTask, Reload, ReloadFamily
  <1>2. /\ \A e \in Devices : e # d => shown'[e] = shown[e] /\ job'[e] = job[e] /\ tasks'[e] = tasks[e]
        /\ job'[d] = NoJob
    BY <1>1 DEF IndInv, Functional, Idle
  <1>3. Numbered(Own(d))' /\ Adopted(log[d])'
    BY <1>1 DEF PlansInv, NamesInv, Own, Numbered, Adopted
  <1>4. NamesInv(d)'
    BY <1>2, <1>3 DEF NamesInv, Idle, NoJob
  <1>5. \A e \in Devices : e # d => StaysAt(e)
    BY <1>1, <1>2 DEF StaysAt
  <1> QED
    BY <1>4, <1>5, NamesOne

LEMMA NextNames == IndInv /\ DirectoriesInv /\ PlansInv /\ [Next]_vars => PlansInv'
  <1> SUFFICES ASSUME IndInv, DirectoriesInv, PlansInv, [Next]_vars PROVE PlansInv'
    OBVIOUS
  <1>1. CASE Next
    <2>1. PICK d \in Devices :
              \/ Call(d) \/ Plan(d) \/ Save(d) \/ SaveOne(d) \/ SaveFails(d) \/ Reload(d) \/ ReloadFamily(d)
              \/ \E e \in Devices : Merge(d, e)
      BY <1>1 DEF Next
    <2> QED
      BY <2>1, CallNames, PlanKept, SaveNames, SaveOneNames, IdleNames, MergeNames
  <1>2. CASE UNCHANGED vars
    <2>1. \A d \in Devices : StaysAt(d)
      BY <1>2 DEF vars, StaysAt
    <2> QED
      BY <2>1, NamesStay DEF PlansInv
  <1> QED
    BY <1>1, <1>2

LEMMA Plans == Spec => [](IndInv /\ DirectoriesInv /\ PlansInv)
  BY InitInv, NextInv, InitDirectories, NextDirectories, InitNames, NextNames, PTL DEF Spec

-----------------------------------------------------------------------------
(* What a call that is saved shows.                                        *)

\* No two operations of a log are named alike: those of one device are
\* numbered, and those of others are initial ones.
LEMMA LogDistinct ==
    ASSUME IndInv, PlansInv, NEW d \in Devices
    PROVE  Distinct(log[d])
  <1> SUFFICES ASSUME NEW a \in log[d], NEW b \in log[d], Id(a) = Id(b) PROVE a = b
    BY DEF Distinct
  <1>1. a.dev = b.dev /\ a.num = b.num
    BY DEF Id
  <1>2. CASE a.dev \in Devices
    <2>1. a \in Own(a.dev) /\ b \in Own(a.dev)
      BY <1>1, <1>2 DEF IndInv, Home, Own
    <2>2. Numbered(Own(a.dev))
      BY <1>2 DEF PlansInv, NamesInv
    <2> QED
      BY <1>1, <2>1, <2>2 DEF Numbered
  <1>3. CASE a.dev \notin Devices
    <2>1. a \in Start /\ b \in Start
      BY <1>1, <1>3 DEF IndInv, DeviceInv, Stored
    <2> QED
      BY <2>1, StartAssumption DEF StartAssumption
  <1> QED
    BY <1>2, <1>3

\* What a call is to save comes after all it has read, under new names.
LEMMA SavedAfter ==
    ASSUME IndInv, DirectoriesInv, PlansInv, NEW d \in Devices, job[d].pc = "contacts"
    PROVE  LET base == job[d].base
               batch == job[d].batch IN
           /\ Directory(base) /\ Distinct(base)
           /\ \A op \in base : op.contact \in Ids(log[d]) /\ Id(op) \in Ids(log[d])
           /\ \A i \in 1..Len(batch) : /\ batch[i].dev = d /\ Id(batch[i]) \notin Ids(log[d])
                                       /\ batch[i] \notin base /\ WellFormed(batch[i])
                                       /\ \A x \in base : Before(x, batch[i])
           /\ \A i, j \in 1..Len(batch) : i < j => Before(batch[i], batch[j]) /\ Id(batch[i]) # Id(batch[j])
           /\ Len(batch) \in Nat /\ \A op : op \in Written(batch) <=> \E i \in 1..Len(batch) : op = batch[i]
           /\ Planned(Head(tasks[d]), base, batch) /\ Proper(d, log[d], Head(tasks[d]))
  <1> DEFINE base == job[d].base
             batch == job[d].batch
             k == Cardinality(Own(d))
  <1>1. ~Idle(d) /\ Working(d) /\ DirectoryInv(d) /\ NamesInv(d)
    BY DEF IndInv, DeviceInv, DirectoriesInv, PlansInv, JobInv, Idle, NoJob
  <1>2. /\ Later(d, batch, base) /\ base \subseteq log[d] /\ Causal(base) /\ tasks[d] # <<>>
        /\ Founded(base \cup Own(d), batch) /\ Numbers(d, batch) /\ Planned(Head(tasks[d]), base, batch)
    BY <1>1 DEF Working, DirectoryInv, NamesInv
  <1> HIDE DEF base
  <1>3. Directory(base)
    BY <1>2, PartDirectory
  <1>4. Distinct(base)
    BY <1>2, LogDistinct DEF Distinct
  <1>5. ASSUME NEW op \in base PROVE op.contact \in Ids(log[d]) /\ Id(op) \in Ids(log[d])
    <2>1. PICK add \in base : add.act = "add" /\ add.contact = op.contact
      BY <1>2 DEF Causal, AddedBefore
    <2>2. Adopted(log[d])
      BY <1>1 DEF NamesInv
    <2> QED
      BY <1>2, <2>1, <2>2 DEF Adopted, Ids
  <1>6. PICK S : batch \in Seq(S)
    BY <1>2 DEF Later
  <1>7. Len(batch) \in Nat /\ \A op : op \in Written(batch) <=> \E i \in 1..Len(batch) : op = batch[i]
    BY <1>6, WrittenSet
  <1>8. k \in Nat /\ \A op \in Own(d) : op.num \in Nat /\ op.num <= k
    BY <1>1, OwnFinite DEF NamesInv, Numbered
  <1>9. \A i \in 1..Len(batch) : /\ batch[i].dev = d /\ batch[i].num = k + i /\ WellFormed(batch[i])
                                 /\ \A x \in base : x.clock < batch[i].clock
    BY <1>2 DEF Later, Numbers, Founded
  <1>10. \A i, j \in 1..Len(batch) : i < j => batch[i].clock < batch[j].clock
    BY <1>2 DEF Later
  <1>11. Proper(d, log[d], Head(tasks[d]))
    <2>1. PICK T : tasks[d] \in Seq(T)
      BY DEF IndInv, DeviceInv, Queued
    <2>2. Head(tasks[d]) = tasks[d][1] /\ 1 \in 1..Len(tasks[d])
      BY <1>2, <2>1
    <2> QED
      BY <1>1, <2>2 DEF DirectoryInv
  <1> HIDE DEF batch, k
  <1>12. ASSUME NEW i \in 1..Len(batch)
         PROVE  Id(batch[i]) \notin Ids(log[d]) /\ batch[i] \notin base /\ \A x \in base : Before(x, batch[i])
    <2>1. ASSUME NEW op \in log[d], Id(op) = Id(batch[i]) PROVE FALSE
      <3>1. op \in Own(d) /\ op.num = k + i /\ i \in Nat /\ i > 0
        BY <1>7, <1>9, <2>1 DEF Id, Own
      <3> QED
        BY <1>8, <3>1
    <2>2. batch[i] \notin log[d] /\ Id(batch[i]) \notin Ids(log[d])
      BY <2>1 DEF Ids
    <2>3. \A x \in base : Before(x, batch[i])
      BY <1>9 DEF Before
    <2> QED
      BY <1>2, <2>2, <2>3
  <1>13. ASSUME NEW i \in 1..Len(batch), NEW j \in 1..Len(batch), i < j
         PROVE  Before(batch[i], batch[j]) /\ Id(batch[i]) # Id(batch[j])
    <2>1. Before(batch[i], batch[j])
      BY <1>10, <1>13 DEF Before
    <2>2. i \in Nat /\ j \in Nat /\ batch[i].num = k + i /\ batch[j].num = k + j
      BY <1>7, <1>9
    <2>3. k + i # k + j
      BY <1>8, <1>13, <2>2
    <2> QED
      BY <2>1, <2>2, <2>3 DEF Id
  <1> QED
    BY <1>2, <1>3, <1>4, <1>5, <1>7, <1>9, <1>11, <1>12, <1>13 DEF base, batch

LEMMA SaveShows ==
    ASSUME IndInv, DirectoriesInv, PlansInv, NEW d \in Devices, Save(d), Directory(shown'[d])
    PROVE  Shows(Head(tasks[d]), View(job[d].base), View(shown'[d]))
  <1> DEFINE base == job[d].base
             batch == job[d].batch
             W == Written(batch)
             t == Head(tasks[d])
             N == base \cup W
  <1>1. job[d].pc = "contacts" /\ shown' = [shown EXCEPT ![d] = N]
    BY DEF Save
  <1>2. shown'[d] = N
    BY <1>1 DEF IndInv, Functional
  <1>3. /\ Directory(base) /\ Distinct(base)
        /\ \A op \in base : op.contact \in Ids(log[d]) /\ Id(op) \in Ids(log[d])
        /\ \A i \in 1..Len(batch) : /\ batch[i].dev = d /\ Id(batch[i]) \notin Ids(log[d])
                                    /\ batch[i] \notin base /\ WellFormed(batch[i])
                                    /\ \A x \in base : Before(x, batch[i])
        /\ \A i, j \in 1..Len(batch) : i < j => Before(batch[i], batch[j]) /\ Id(batch[i]) # Id(batch[j])
        /\ Len(batch) \in Nat /\ \A op : op \in W <=> \E i \in 1..Len(batch) : op = batch[i]
        /\ Planned(t, base, batch) /\ Proper(d, log[d], t)
    BY <1>1, SavedAfter
  <1> HIDE DEF base, batch, W, t
  <1>4. Extends(base, N)
    BY <1>2, <1>3 DEF Extends
  <1> SUFFICES ASSUME ~Joined(View(base), View(N))
               PROVE  IF t.kind = "recognise"
                      THEN \E c \in DOMAIN View(N).record : Recognises(t, View(N).record[c])
                      ELSE Granted(t, RecordOf(View(base), t.contact), RecordOf(View(N), t.contact))
    BY <1>2 DEF Shows, base, t
  <1>5. ASSUME Len(batch) = 1 PROVE N = base \cup {batch[1]} /\ batch[1] \notin base
    BY <1>3, <1>5
  <1>6. CASE t.kind \in Edited
    <2> DEFINE op == batch[1]
    <2>1. Len(batch) = 1 /\ Asked(t, op) /\ AddsOf(base, t.contact) # {}
      BY <1>3, <1>6 DEF Planned
    <2>2. N = base \cup {op} /\ op \notin base /\ 1 \in 1..Len(batch)
      BY <1>5, <2>1
    <2>3. t.contact \in Named(base)
      BY <2>1 DEF AddsOf, Named
    <2>4. op.dev = d /\ \A x \in base : Id(x) # Id(op)
      BY <1>3, <2>2
    <2>5. /\ t.kind = "link" => t.list # "none"
          /\ t.kind = "unblock" => Actor[t.target[1]] = Actor[op.dev]
      BY <1>3, <2>4 DEF Proper
    <2> HIDE DEF op, N
    <2>6. Granted(t, RecordOf(View(base), t.contact), RecordOf(View(N), t.contact))
      BY <1>3, <1>4, <2>1, <2>2, <2>3, <2>4, <2>5, DirectoryGrants
    <2> QED
      BY <1>6, <2>6 DEF Edited
  <1>7. CASE t.kind \in {"add", "clear"}
    BY <1>7 DEF Granted
  <1>8. CASE t.kind = "recognise" /\ Finds(t, base, batch)
    <2> DEFINE op == batch[1]
    <2>1. /\ N = base \cup {op} /\ op \notin base /\ t.list # "none" /\ op.list = t.list
          /\ op.contact \in DOMAIN View(base).record
          /\ t.key \in KeysHeld(View(base).record[op.contact])
          /\ op.act = IF View(base).record[op.contact].life \in Gone THEN "add" ELSE "link"
      BY <1>3, <1>5, <1>8 DEF Finds, Proper
    <2> HIDE DEF op, N
    <2>2. \E c \in DOMAIN View(N).record : Recognises(t, View(N).record[c])
      BY <1>3, <1>4, <2>1, DirectoryRecognises
    <2> QED
      BY <1>8, <2>2
  <1>9. CASE t.kind = "recognise" /\ Makes(t, batch)
    <2> DEFINE first == batch[1]
               second == batch[2]
    <2>1. /\ Len(batch) = 2 /\ first.act = "add" /\ first.contact = Id(first) /\ first.list = t.list
          /\ second.act = "add-identity" /\ second.contact = first.contact /\ second.key = t.key
          /\ t.list # "none"
      BY <1>3, <1>9 DEF Makes, Proper
    <2>2. 1 \in 1..Len(batch) /\ 2 \in 1..Len(batch) /\ \A i \in 1..Len(batch) : i \in {1, 2}
      BY <2>1
    <2>3. N = base \cup {first, second}
      BY <1>3, <2>2
    <2>4. /\ first \notin base /\ second \notin base /\ WellFormed(first)
          /\ Id(first) \notin Ids(log[d])
          /\ \A x \in base : Before(x, first) /\ Before(x, second)
          /\ Before(first, second) /\ Id(first) # Id(second)
      BY <1>3, <2>2
    <2> HIDE DEF first, second
    <2>5. second \notin base \cup {first}
      BY <2>4
    <2>6. first.contact \notin Named(base)
      BY <1>3, <2>1, <2>4 DEF Named
    <2>7. Distinct(base \cup {first})
      BY <1>3, <2>4 DEF Distinct
    <2> DEFINE M == base \cup {first}
    <2>8. Directory(M)
      <3>1. Ordered(M)
        BY <1>2, <2>3, OrderedPart DEF Directory
      <3>2. \A op \in base : WellFormed(op) /\ AddedBefore(M, op)
        BY <1>3 DEF Directory, AddedBefore
      <3>3. AddedBefore(M, first)
        BY <2>1 DEF AddedBefore
      <3> QED
        BY <2>4, <3>1, <3>2, <3>3 DEF Directory
    <2>9. Extends(base, M)
      BY <1>3, <2>4, <2>8 DEF Extends
    <2>10. Extends(M, base \cup {first, second})
      BY <1>2, <2>3, <2>4, <2>8 DEF Extends
    <2>11. ~Joined(View(base), View(base \cup {first, second}))
      BY <2>3
    <2>12. \E c \in DOMAIN View(base \cup {first, second}).record :
               Recognises(t, View(base \cup {first, second}).record[c])
      BY <1>3, <2>1, <2>4, <2>5, <2>6, <2>7, <2>9, <2>10, <2>11, DirectoryMakes
    <2> QED
      BY <1>9, <2>3, <2>12
  <1> QED
    BY <1>3, <1>6, <1>7, <1>8, <1>9 DEF Planned

\* Only the save of a contacts call ends it and changes the log.
LEMMA SavedByCall ==
    ASSUME IndInv, [Next]_vars, NEW d \in Devices,
           job[d].pc = "contacts", log'[d] # log[d], job'[d] = NoJob
    PROVE  Save(d)
  <1>1. log' # log /\ job' # job
    BY DEF NoJob
  <1>2. PICK e \in Devices :
            \/ Call(e) \/ Plan(e) \/ Save(e) \/ SaveOne(e) \/ SaveFails(e) \/ Reload(e) \/ ReloadFamily(e)
            \/ \E f \in Devices : Merge(e, f)
    BY <1>1 DEF Next, vars
  <1>3. Save(e) \/ SaveOne(e)
    BY <1>1, <1>2 DEF Call, Plan, SaveFails, Reload, ReloadFamily, Merge
  <1>4. \E W : log' = [log EXCEPT ![e] = log[e] \cup W]
    <2>1. CASE Save(e)
      BY <2>1 DEF Save
    <2>2. CASE SaveOne(e)
      BY <2>2 DEF SaveOne
    <2> QED
      BY <1>3, <2>1, <2>2
  <1>5. e = d
    BY <1>4 DEF IndInv, Functional
  <1> QED
    BY <1>3, <1>5 DEF SaveOne

\* Every screen can be replayed.
ScreensReplay == \A d \in Devices : Directory(shown[d])

(* A call that is saved does what the user asked for, on the screen it     *)
(* leaves: the task read the log, its clock and its numbers go past all it  *)
(* read (nextClock, buildOperation), and what the rail merges meanwhile is  *)
(* not on that screen.  It may do otherwise only where it makes contacts    *)
(* one that were not.                                                       *)
THEOREM CallShowsHolds == Spec => CallShows
  <1>1. IndInv /\ DirectoriesInv => ScreensReplay
    <2> SUFFICES ASSUME IndInv, DirectoriesInv, NEW d \in Devices PROVE Directory(shown[d])
      BY DEF ScreensReplay
    <2>1. shown[d] \subseteq log[d] /\ Causal(shown[d])
      BY DEF IndInv, DeviceInv, Stored, DirectoriesInv, DirectoryInv
    <2> QED
      BY <2>1, PartDirectory
  <1>2. IndInv /\ DirectoriesInv /\ PlansInv /\ ScreensReplay' /\ [Next]_vars =>
            [\A d \in Devices :
                job[d].pc = "contacts" /\ log'[d] # log[d] /\ job'[d] = NoJob =>
                    Shows(Head(tasks[d]), View(job[d].base), View(shown'[d]))]_vars
    BY SavedByCall, SaveShows DEF ScreensReplay
  <1> QED
    BY <1>1, <1>2, Plans, PTL DEF Spec, CallShows
=============================================================================
