------------------------ MODULE ChildCeiling_proofs ------------------------
(***************************************************************************)
(* Proofs about ChildVerdicts that approved-once entries are accounted for *)
(* one by one, and that what a confirmed verdict rests on stays listed by  *)
(* the device, for any asks, kinds, rules and bounds.  With the entries    *)
(* known, the types of all variables follow at the end.                    *)
(*                                                                         *)
(* The entries are a list in which a kind may stand several times, so the  *)
(* first part is about counting: how often a kind occurs in a list that    *)
(* grows at its end or loses its first equal entry.                        *)
(***************************************************************************)
EXTENDS ChildVerdicts_proofs, FiniteSetTheorems, WellFoundedInduction

-----------------------------------------------------------------------------
(* Numbers and lists.                                                      *)

\* A set of numbers has a least one: the induction used here.
LEMMA LeastNumber ==
    ASSUME NEW T \in SUBSET Nat, T # {}
    PROVE  \E n \in T : \A m \in T : n <= m
  <1> DEFINE R == OpToRel(<, Nat)
  <1>1. IsWellFoundedOn(R, Nat)
    BY NatLessThanWellFounded
  <1>2. R = {p \in Nat \X Nat : p[1] < p[2]}
    BY DEF OpToRel
  <1> HIDE DEF R
  <1>3. PICK n \in T : \A m \in T : ~(<<m, n>> \in R)
    BY <1>1, WFMin
  <1>4. ASSUME NEW m \in T PROVE n <= m
    <2>1. <<m, n>> \in Nat \X Nat
      OBVIOUS
    <2>2. ~(m < n)
      BY <1>2, <1>3, <2>1
    <2> QED
      BY <2>2
  <1> QED
    BY <1>4

\* Two finite sets are of one size when one is the other, moved.
LEMMA SameSize ==
    ASSUME NEW S, NEW T, IsFiniteSet(S), NEW g \in [S -> T],
           \A x, y \in S : g[x] = g[y] => x = y,
           \A z \in T : \E x \in S : g[x] = z
    PROVE  IsFiniteSet(T) /\ Cardinality(T) = Cardinality(S)
  <1>1. g \in Injection(S, T)
    BY DEF Injection, IsInjective
  <1>2. g \in Surjection(S, T)
    BY DEF Surjection
  <1>3. ExistsBijection(S, T)
    BY <1>1, <1>2 DEF ExistsBijection, Bijection
  <1> QED
    BY <1>3, FS_Bijection

Spots(s, k) == {i \in DOMAIN s : s[i] = k}
LEMMA SpotsFinite ==
    ASSUME NEW S, NEW s \in Seq(S), NEW k
    PROVE  IsFiniteSet(Spots(s, k)) /\ Occurrences(s, k) \in Nat /\ Occurrences(s, k) = Cardinality(Spots(s, k))
  <1>1. IsFiniteSet(1..Len(s)) /\ DOMAIN s = 1..Len(s)
    BY FS_Interval
  <1>2. Spots(s, k) \subseteq 1..Len(s)
    BY <1>1 DEF Spots
  <1>3. IsFiniteSet(Spots(s, k))
    BY <1>1, <1>2, FS_Subset
  <1> QED
    BY <1>3, FS_CardinalityType DEF Occurrences, Spots

LEMMA OccursSome ==
    ASSUME NEW S, NEW s \in Seq(S), NEW k
    PROVE  Occurrences(s, k) > 0 <=> k \in ToSet(s)
  <1>1. IsFiniteSet(Spots(s, k)) /\ Occurrences(s, k) \in Nat /\ Occurrences(s, k) = Cardinality(Spots(s, k))
    BY SpotsFinite
  <1>2. Cardinality(Spots(s, k)) = 0 <=> Spots(s, k) = {}
    BY <1>1, FS_EmptySet
  <1>3. Spots(s, k) # {} <=> k \in ToSet(s)
    BY DEF Spots, ToSet
  <1> QED
    BY <1>1, <1>2, <1>3

LEMMA OccursNone ==
    ASSUME NEW k
    PROVE  Occurrences(<<>>, k) = 0
  <1>1. {i \in DOMAIN <<>> : <<>>[i] = k} = {}
    OBVIOUS
  <1> QED
    BY <1>1, FS_EmptySet DEF Occurrences

LEMMA OccursOne ==
    ASSUME NEW x, NEW k
    PROVE  Occurrences(<<x>>, k) = IF x = k THEN 1 ELSE 0
  <1>1. {i \in DOMAIN <<x>> : <<x>>[i] = k} = IF x = k THEN {1} ELSE {}
    OBVIOUS
  <1> QED
    BY <1>1, FS_EmptySet, FS_Singleton DEF Occurrences

LEMMA OccursJoined ==
    ASSUME NEW S, NEW s \in Seq(S), NEW t \in Seq(S), NEW k
    PROVE  Occurrences(s \o t, k) = Occurrences(s, k) + Occurrences(t, k)
  <1> DEFINE u == s \o t
             n == Len(s)
             T == {i \in DOMAIN u : i > n /\ u[i] = k}
  <1>1. /\ u \in Seq(S) /\ DOMAIN u = 1..n + Len(t) /\ DOMAIN s = 1..n /\ DOMAIN t = 1..Len(t)
        /\ n \in Nat /\ Len(t) \in Nat
        /\ \A i \in 1..n : u[i] = s[i]
        /\ \A i \in 1..Len(t) : u[n + i] = t[i]
    OBVIOUS
  <1> HIDE DEF u, n
  <1>2. Spots(u, k) = Spots(s, k) \cup T /\ Spots(s, k) \cap T = {}
    BY <1>1 DEF Spots
  <1>3. IsFiniteSet(Spots(s, k)) /\ IsFiniteSet(Spots(t, k)) /\ IsFiniteSet(Spots(u, k))
    BY <1>1, SpotsFinite
  <1> DEFINE g == [i \in Spots(t, k) |-> n + i]
  <1>4. /\ g \in [Spots(t, k) -> T]
        /\ \A i, j \in Spots(t, k) : g[i] = g[j] => i = j
        /\ \A j \in T : \E i \in Spots(t, k) : g[i] = j
    <2>1. ASSUME NEW j \in T PROVE \E i \in Spots(t, k) : g[i] = j
      <3>1. j - n \in 1..Len(t) /\ n + (j - n) = j
        BY <1>1
      <3>2. j - n \in Spots(t, k)
        BY <1>1, <3>1 DEF Spots
      <3> QED
        BY <3>1, <3>2
    <2>2. ASSUME NEW i \in Spots(t, k) PROVE n + i \in T
      BY <1>1 DEF Spots
    <2>3. ASSUME NEW i \in Spots(t, k), NEW j \in Spots(t, k), n + i = n + j PROVE i = j
      BY <1>1, <2>3 DEF Spots
    <2> QED
      BY <2>1, <2>2, <2>3
  <1> HIDE DEF T, g
  <1>5. IsFiniteSet(T) /\ Cardinality(T) = Cardinality(Spots(t, k))
    BY <1>3, <1>4, SameSize
  <1>6. Cardinality(Spots(s, k) \cup T) = Cardinality(Spots(s, k)) + Cardinality(T) - Cardinality(Spots(s, k) \cap T)
    BY <1>3, <1>5, FS_Union
  <1>7. Cardinality(Spots(s, k) \cap T) = 0
    BY <1>2, FS_EmptySet
  <1>8. /\ Occurrences(u, k) = Cardinality(Spots(u, k)) /\ Occurrences(s, k) = Cardinality(Spots(s, k))
        /\ Occurrences(t, k) = Cardinality(Spots(t, k))
        /\ Occurrences(s, k) \in Nat /\ Occurrences(t, k) \in Nat
    BY <1>1, SpotsFinite
  <1> QED
    BY <1>2, <1>5, <1>6, <1>7, <1>8 DEF u

\* One element is taken out.
LEMMA OccursLess ==
    ASSUME NEW S, NEW s \in Seq(S), NEW i \in DOMAIN s, NEW k
    PROVE  Occurrences(RemoveAt(s, i), k) = Occurrences(s, k) - (IF s[i] = k THEN 1 ELSE 0)
  <1> DEFINE t == RemoveAt(s, i)
             old(j) == IF j < i THEN j ELSE j + 1
             g == [j \in Spots(t, k) |-> old(j)]
             T == Spots(s, k) \ {i}
  <1>1. t \in Seq(S) /\ DOMAIN t = 1..Len(s) - 1 /\ \A j \in 1..Len(s) - 1 : t[j] = s[old(j)]
    BY OneLess
  <1>2. DOMAIN s = 1..Len(s) /\ Len(s) \in Nat /\ i \in 1..Len(s)
    OBVIOUS
  <1> HIDE DEF t
  <1>3. ASSUME NEW j \in Spots(t, k) PROVE old(j) \in T
    BY <1>1, <1>2 DEF Spots
  <1>4. ASSUME NEW j \in Spots(t, k), NEW m \in Spots(t, k), old(j) = old(m) PROVE j = m
    BY <1>1, <1>2, <1>4 DEF Spots
  <1>5. ASSUME NEW m \in T PROVE \E j \in Spots(t, k) : old(j) = m
    <2>1. m \in 1..Len(s) /\ m # i /\ s[m] = k
      BY <1>2 DEF Spots
    <2>2. CASE m < i
      <3>1. m \in 1..Len(s) - 1 /\ old(m) = m
        BY <1>2, <2>1, <2>2
      <3>2. m \in Spots(t, k)
        BY <1>1, <2>1, <3>1 DEF Spots
      <3> QED
        BY <3>1, <3>2
    <2>3. CASE ~(m < i)
      <3>1. m - 1 \in 1..Len(s) - 1 /\ old(m - 1) = m
        BY <1>2, <2>1, <2>3
      <3>2. m - 1 \in Spots(t, k)
        BY <1>1, <2>1, <3>1 DEF Spots
      <3> QED
        BY <3>1, <3>2
    <2> QED
      BY <2>2, <2>3
  <1> HIDE DEF old, T
  <1>6. g \in [Spots(t, k) -> T] /\ \A j \in Spots(t, k) : g[j] = old(j)
    BY <1>3
  <1> HIDE DEF g
  <1>7. IsFiniteSet(Spots(t, k))
    BY <1>1, SpotsFinite
  <1>8. Cardinality(T) = Cardinality(Spots(t, k))
    <2>1. /\ \A j, m \in Spots(t, k) : g[j] = g[m] => j = m
          /\ \A m \in T : \E j \in Spots(t, k) : g[j] = m
      BY <1>4, <1>5, <1>6
    <2> QED
      BY <1>6, <1>7, <2>1, SameSize
  <1>9. /\ Occurrences(t, k) = Cardinality(Spots(t, k)) /\ Occurrences(s, k) = Cardinality(Spots(s, k))
        /\ IsFiniteSet(Spots(s, k)) /\ Occurrences(s, k) \in Nat
    BY <1>1, SpotsFinite
  <1>10. Cardinality(T) = IF s[i] = k THEN Cardinality(Spots(s, k)) - 1 ELSE Cardinality(Spots(s, k))
    <2>1. i \in Spots(s, k) <=> s[i] = k
      BY DEF Spots
    <2> QED
      BY <1>9, <2>1, FS_RemoveElement DEF T
  <1> QED
    BY <1>8, <1>9, <1>10 DEF t

\* The first equal element is taken out, if there is one.
LEMMA FirstFound ==
    ASSUME NEW S, NEW s \in Seq(S), NEW x
    PROVE  IF x \in ToSet(s) THEN \E i \in DOMAIN s : s[i] = x /\ RemoveFirst(s, x) = RemoveAt(s, i)
           ELSE RemoveFirst(s, x) = s
  <1> DEFINE I == {i \in 1..Len(s) : s[i] = x}
  <1>1. DOMAIN s = 1..Len(s) /\ I \in SUBSET Nat /\ (x \in ToSet(s) <=> I # {})
    BY DEF ToSet
  <1>2. x \in ToSet(s) <=> \E i \in 1..Len(s) : s[i] = x
    BY <1>1 DEF ToSet
  <1>3. ASSUME I # {} PROVE SelectInSeq(s, LAMBDA v : v = x) \in I
    <2>1. PICK n \in I : \A m \in I : n <= m
      BY <1>1, <1>3, LeastNumber
    <2>2. SelectInSeq(s, LAMBDA v : v = x) = Min(I)
      BY <1>3 DEF SelectInSeq
    <2>3. Min(I) \in I
      BY <2>1 DEF Min
    <2> QED
      BY <2>2, <2>3
  <1>4. CASE I # {}
    <2>1. RemoveFirst(s, x) = RemoveAt(s, SelectInSeq(s, LAMBDA v : v = x))
      BY <1>1, <1>2, <1>4 DEF RemoveFirst
    <2> QED
      BY <1>1, <1>3, <1>4, <2>1
  <1>5. CASE I = {}
    BY <1>1, <1>2, <1>5 DEF RemoveFirst
  <1> QED
    BY <1>4, <1>5

LEMMA RemovedFirst ==
    ASSUME NEW S, NEW s \in Seq(S), NEW x
    PROVE  /\ RemoveFirst(s, x) \in Seq(S)
           /\ \A k : Occurrences(RemoveFirst(s, x), k)
                       = Occurrences(s, k) - (IF x = k /\ x \in ToSet(s) THEN 1 ELSE 0)
  <1>1. CASE x \in ToSet(s)
    <2>1. PICK i \in DOMAIN s : s[i] = x /\ RemoveFirst(s, x) = RemoveAt(s, i)
      BY <1>1, FirstFound
    <2>2. RemoveAt(s, i) \in Seq(S) /\ \A k : Occurrences(RemoveAt(s, i), k) = Occurrences(s, k) - (IF s[i] = k THEN 1 ELSE 0)
      BY OneLess, OccursLess
    <2> QED
      BY <1>1, <2>1, <2>2
  <1>2. CASE x \notin ToSet(s)
    <2>1. RemoveFirst(s, x) = s
      BY <1>2, FirstFound
    <2>2. \A k : Occurrences(s, k) \in Nat
      BY SpotsFinite
    <2>3. \A k : Occurrences(s, k) - 0 = Occurrences(s, k)
      BY <2>2
    <2> QED
      BY <1>2, <2>1, <2>3
  <1> QED
    BY <1>1, <1>2

\* Entries that are all there are taken out, each of them once.
LEMMA TakenOut ==
    ASSUME NEW S, NEW s \in Seq(S), NEW es \in Seq(S), Len(es) \in {1, 2},
           \A k \in S : Occurrences(s, k) >= Occurrences(es, k)
    PROVE  /\ Without(s, es) \in Seq(S)
           /\ \A k \in S : Occurrences(Without(s, es), k) = Occurrences(s, k) - Occurrences(es, k)
  <1> DEFINE r == RemoveFirst(s, es[1])
  <1>1. es[1] \in S /\ \A k \in S : Occurrences(s, k) \in Nat /\ Occurrences(es, k) \in Nat
    BY SpotsFinite
  <1>2. es[1] \in ToSet(es) /\ es[1] \in ToSet(s)
    <2>1. es[1] \in ToSet(es)
      BY DEF ToSet
    <2>2. Occurrences(es, es[1]) > 0
      BY <2>1, OccursSome
    <2> QED
      BY <1>1, <2>1, <2>2, OccursSome
  <1>3. r \in Seq(S) /\ \A k \in S : Occurrences(r, k) = Occurrences(s, k) - (IF es[1] = k THEN 1 ELSE 0)
    BY <1>2, RemovedFirst
  <1> HIDE DEF r
  <1>4. CASE Len(es) = 1
    <2>1. es = <<es[1]>>
      BY <1>4
    <2>2. \A k \in S : Occurrences(es, k) = IF es[1] = k THEN 1 ELSE 0
      BY <2>1, OccursOne
    <2> QED
      BY <1>3, <1>4, <2>2 DEF Without, r
  <1>5. CASE Len(es) = 2
    <2>1. es = <<es[1]>> \o <<es[2]>> /\ es[2] \in S
      <3> DEFINE u == <<es[1]>> \o <<es[2]>>
      <3>1. es[2] \in S /\ DOMAIN es = 1..2 /\ es = [i \in 1..2 |-> es[i]]
        <4>1. es \in [1..Len(es) -> S]
          OBVIOUS
        <4> QED
          BY <1>5, <4>1
      <3>2. <<es[1]>> \in Seq(S) /\ <<es[2]>> \in Seq(S)
        BY <1>1, <3>1
      <3>3. DOMAIN u = 1..2 /\ u[1] = es[1] /\ u[2] = es[2] /\ u = [i \in 1..2 |-> u[i]]
        BY <3>2
      <3> HIDE DEF u
      <3>4. es = u
        BY <3>1, <3>3
      <3> QED
        BY <3>1, <3>4 DEF u
    <2>2. <<es[1]>> \in Seq(S) /\ <<es[2]>> \in Seq(S)
      BY <1>1, <2>1
    <2>3. ASSUME NEW k
          PROVE  Occurrences(es, k) = (IF es[1] = k THEN 1 ELSE 0) + (IF es[2] = k THEN 1 ELSE 0)
      <3>1. Occurrences(<<es[1]>> \o <<es[2]>>, k) = Occurrences(<<es[1]>>, k) + Occurrences(<<es[2]>>, k)
        BY <2>2, OccursJoined
      <3>2. Occurrences(<<es[1]>>, k) = IF es[1] = k THEN 1 ELSE 0
        BY OccursOne
      <3>3. Occurrences(<<es[2]>>, k) = IF es[2] = k THEN 1 ELSE 0
        BY OccursOne
      <3>4. Occurrences(es, k) = Occurrences(<<es[1]>> \o <<es[2]>>, k)
        BY <2>1, Zenon
      <3> QED
        BY <3>1, <3>2, <3>3, <3>4
    <2>4. es[2] \in ToSet(r)
      <3>1. Occurrences(r, es[2]) > 0
        <4>1. es[2] \in S
          BY <2>1
        <4>2. Occurrences(r, es[2]) = Occurrences(s, es[2]) - (IF es[1] = es[2] THEN 1 ELSE 0)
          BY <1>3, <4>1
        <4>3. Occurrences(es, es[2]) = (IF es[1] = es[2] THEN 1 ELSE 0) + (IF es[2] = es[2] THEN 1 ELSE 0)
          BY <2>3
        <4>4. Occurrences(s, es[2]) >= Occurrences(es, es[2]) /\ Occurrences(s, es[2]) \in Nat
          BY <1>1, <4>1
        <4> QED
          BY <4>2, <4>3, <4>4
      <3> QED
        BY <1>3, <3>1, OccursSome
    <2>5. /\ RemoveFirst(r, es[2]) \in Seq(S)
          /\ \A k \in S : Occurrences(RemoveFirst(r, es[2]), k) = Occurrences(r, k) - (IF es[2] = k THEN 1 ELSE 0)
      BY <1>3, <2>4, RemovedFirst
    <2>6. Without(s, es) = RemoveFirst(r, es[2])
      BY <1>5 DEF Without, r
    <2>7. ASSUME NEW k \in S
          PROVE  Occurrences(RemoveFirst(r, es[2]), k) = Occurrences(s, k) - Occurrences(es, k)
      <3>1. Occurrences(RemoveFirst(r, es[2]), k) = Occurrences(r, k) - (IF es[2] = k THEN 1 ELSE 0)
        BY <2>5
      <3>2. Occurrences(r, k) = Occurrences(s, k) - (IF es[1] = k THEN 1 ELSE 0)
        BY <1>3
      <3>3. Occurrences(es, k) = (IF es[1] = k THEN 1 ELSE 0) + (IF es[2] = k THEN 1 ELSE 0)
        BY <2>3
      <3> HIDE DEF r
      <3> QED
        BY <1>1, <3>1, <3>2, <3>3
    <2> QED
      BY <2>5, <2>6, <2>7
  <1> QED
    BY <1>4, <1>5

\* Whatever is taken out, kinds remain.
LEMMA TypeWithout ==
    ASSUME NEW S, NEW s \in Seq(S), NEW es
    PROVE  Without(s, es) \in Seq(S)
  BY RemovedFirst DEF Without

-----------------------------------------------------------------------------
(* The places of a kind over all answers.                                  *)

OnePlace(c, a, k) == {<<a, i>> : i \in {j \in DOMAIN c[a] : c[a][j] = k}}

LEMMA OneAnswer ==
    ASSUME NEW S, NEW c, NEW a, c[a] \in Seq(S), NEW k
    PROVE  IsFiniteSet(OnePlace(c, a, k)) /\ Cardinality(OnePlace(c, a, k)) = Occurrences(c[a], k)
  <1> DEFINE g == [i \in Spots(c[a], k) |-> <<a, i>>]
  <1>1. /\ g \in [Spots(c[a], k) -> OnePlace(c, a, k)]
        /\ \A i, j \in Spots(c[a], k) : g[i] = g[j] => i = j
        /\ \A p \in OnePlace(c, a, k) : \E i \in Spots(c[a], k) : g[i] = p
    BY DEF Spots, OnePlace
  <1> HIDE DEF g
  <1>2. IsFiniteSet(Spots(c[a], k)) /\ Occurrences(c[a], k) = Cardinality(Spots(c[a], k))
    BY SpotsFinite
  <1> QED
    BY <1>1, <1>2, SameSize

LEMMA PlacesFinite ==
    ASSUME NEW S, NEW A, IsFiniteSet(A), NEW c, \A a \in A : c[a] \in Seq(S), NEW k
    PROVE  IsFiniteSet(Places(c, A, k)) /\ Cardinality(Places(c, A, k)) \in Nat
  <1> DEFINE P == {OnePlace(c, a, k) : a \in A}
             g == [a \in A |-> OnePlace(c, a, k)]
  <1>1. g \in Surjection(A, P)
    BY DEF Surjection
  <1>2. IsFiniteSet(P)
    BY <1>1, FS_Surjection
  <1>3. \A T \in P : IsFiniteSet(T)
    BY OneAnswer
  <1>4. IsFiniteSet(UNION P)
    BY <1>2, <1>3, FS_UNION
  <1>5. Places(c, A, k) = UNION P
    BY DEF Places, OnePlace
  <1> HIDE DEF P
  <1> QED
    BY <1>4, <1>5, FS_CardinalityType

LEMMA PlacesSplit ==
    ASSUME NEW S, NEW A, IsFiniteSet(A), NEW c \in [A -> Seq(S)], NEW a \in A, NEW k
    PROVE  /\ Cardinality(Places(c, A, k)) = Cardinality(Places(c, A \ {a}, k)) + Occurrences(c[a], k)
           /\ Cardinality(Places(c, A \ {a}, k)) \in Nat /\ Occurrences(c[a], k) \in Nat
  <1> DEFINE rest == Places(c, A \ {a}, k)
             one == OnePlace(c, a, k)
  <1>1. IsFiniteSet(A \ {a})
    BY FS_Subset
  <1>2. IsFiniteSet(rest) /\ Cardinality(rest) \in Nat
    BY <1>1, PlacesFinite
  <1>3. IsFiniteSet(one) /\ Cardinality(one) = Occurrences(c[a], k) /\ Occurrences(c[a], k) \in Nat
    BY OneAnswer, SpotsFinite
  <1>4. Places(c, A, k) = rest \cup one
    BY DEF Places, OnePlace
  <1>5. rest \cap one = {}
    BY DEF Places, OnePlace
  <1> HIDE DEF rest, one
  <1>6. Cardinality(rest \cup one) = Cardinality(rest) + Cardinality(one) - Cardinality(rest \cap one)
    BY <1>2, <1>3, FS_Union
  <1>7. Cardinality(rest \cap one) = 0
    BY <1>5, FS_EmptySet
  <1> QED
    BY <1>2, <1>3, <1>4, <1>6, <1>7 DEF rest

\* The entries of one answer change.
Elsewhere(c, d, A, a) == \A b \in A \ {a} : d[b] = c[b]
LEMMA PlacesChanged ==
    ASSUME NEW S, NEW A, IsFiniteSet(A), NEW c \in [A -> Seq(S)], NEW d \in [A -> Seq(S)],
           NEW a \in A, Elsewhere(c, d, A, a), NEW k
    PROVE  /\ Cardinality(Places(d, A, k))
                = Cardinality(Places(c, A, k)) - Occurrences(c[a], k) + Occurrences(d[a], k)
           /\ Cardinality(Places(c, A, k)) >= Occurrences(c[a], k)
           /\ Cardinality(Places(c, A, k)) \in Nat
  <1>1. Places(d, A \ {a}, k) = Places(c, A \ {a}, k)
    BY DEF Places, Elsewhere
  <1>2. /\ Cardinality(Places(c, A, k)) = Cardinality(Places(c, A \ {a}, k)) + Occurrences(c[a], k)
        /\ Cardinality(Places(c, A \ {a}, k)) \in Nat /\ Occurrences(c[a], k) \in Nat
    BY PlacesSplit
  <1>3. /\ Cardinality(Places(d, A, k)) = Cardinality(Places(d, A \ {a}, k)) + Occurrences(d[a], k)
        /\ Cardinality(Places(d, A \ {a}, k)) \in Nat /\ Occurrences(d[a], k) \in Nat
    BY PlacesSplit
  <1> QED
    BY <1>1, <1>2, <1>3

LEMMA PlacesNone ==
    ASSUME NEW A, NEW c, \A b \in A : c[b] = <<>>, NEW k
    PROVE  Cardinality(Places(c, A, k)) = 0
  <1>1. DOMAIN <<>> = {}
    OBVIOUS
  <1>2. ASSUME NEW b \in A PROVE {j \in DOMAIN c[b] : c[b][j] = k} = {}
    BY <1>1
  <1>3. Places(c, A, k) = {}
    BY <1>2 DEF Places
  <1> QED
    BY <1>3, FS_EmptySet

-----------------------------------------------------------------------------
(* The entries of the answers: the invariant.                              *)

(* The steps of a call that has added its entries.  A call that has none    *)
(* yet adds them on top of nothing, so each open entry is of one answer.    *)
Opened == {"store", "push", "outcome", "recording", "check", "publish", "wire", "closing"}
GoodCall(c, e) ==
    /\ c.added \in Seq(Kinds) /\ c.seen \in Seq(Kinds) /\ Len(c.added) <= 2
    /\ c.epoch \in Nat /\ c.epoch <= e
    /\ c.added # <<>> => c.pc \in Opened
CallInv == epoch \in Nat /\ \A a \in Asks : GoodCall(call[a], epoch)

Promises == [added : Seq(Kinds), epoch : Nat, rule : BOOLEAN]
PromiseInv ==
    /\ promised \in [Asks -> Promises]
    /\ \A a \in Asks :
        /\ promised[a].epoch <= epoch
        /\ promised[a].added # <<>> => hist[a].sent
        /\ promised[a].rule => KindOf[a] \in ToSet(allowed)

StoreInv == once \in Seq(Kinds) /\ allowed \in Seq(Kinds) /\ IsInjective(allowed)
EntryInv == StoreInv /\ CallInv /\ PromiseInv /\ OnceAccounted

\* What an answer accounts for, by its call, its promise and the windows open.
Owed(p, e) == IF p.epoch = e THEN p.added ELSE <<>>
TallyOf(c, p, e) == (IF c.pc = "closing" \/ c.epoch # e THEN <<>> ELSE c.added) \o Owed(p, e)
Tally == [a \in Asks |-> Counted(a)]
Accounts(o, c, r) ==
    \A k \in Kinds : /\ Occurrences(o, k) >= Cardinality(Places(c, Asks, k))
                     /\ r = 0 => Occurrences(o, k) = Cardinality(Places(c, Asks, k))

LEMMA TallyIs ==
    /\ OnceAccounted <=> Accounts(once, Tally, restarts)
    /\ \A a \in Asks : Tally[a] = TallyOf(call[a], promised[a], epoch)
  <1>1. \A a \in Asks : Counted(a) = TallyOf(call[a], promised[a], epoch)
    BY DEF Counted, Added, Promised, At, TallyOf, Owed
  <1>2. OnceAccounted <=> Accounts(once, Tally, restarts)
    BY DEF OnceAccounted, Accounts, Tally
  <1> QED
    BY <1>1, <1>2 DEF Tally

LEMMA TallyAfter ==
    /\ OnceAccounted' <=> Accounts(once', Tally', restarts')
    /\ \A a \in Asks : Tally'[a] = TallyOf(call'[a], promised'[a], epoch')
  <1>1. \A a \in Asks : Counted(a)' = TallyOf(call'[a], promised'[a], epoch')
    BY DEF Counted, Added, Promised, At, TallyOf, Owed
  <1>2. OnceAccounted' <=> Accounts(once', Tally', restarts')
    BY DEF OnceAccounted, Accounts, Tally
  <1> QED
    BY <1>1, <1>2 DEF Tally

LEMMA Joined ==
    ASSUME NEW S, NEW s \in Seq(S)
    PROVE  <<>> \o s = s /\ s \o <<>> = s
  OBVIOUS

LEMMA OwedType ==
    ASSUME NEW p \in Promises, NEW e
    PROVE  Owed(p, e) \in Seq(Kinds)
  <1>1. p.added \in Seq(Kinds) /\ <<>> \in Seq(Kinds)
    BY DEF Promises
  <1> QED
    BY <1>1 DEF Owed

LEMMA TallyOfType ==
    ASSUME NEW c, NEW e, GoodCall(c, e), NEW p \in Promises
    PROVE  /\ TallyOf(c, p, e) \in Seq(Kinds)
           /\ c.added = <<>> \/ c.pc = "closing" \/ c.epoch # e => TallyOf(c, p, e) = Owed(p, e)
           /\ Owed(p, e) = <<>> => TallyOf(c, p, e) = IF c.pc = "closing" \/ c.epoch # e THEN <<>> ELSE c.added
  <1> DEFINE x == IF c.pc = "closing" \/ c.epoch # e THEN <<>> ELSE c.added
  <1>1. x \in Seq(Kinds) /\ Owed(p, e) \in Seq(Kinds)
    <2>1. <<>> \in Seq(Kinds)
      OBVIOUS
    <2> QED
      BY <2>1, OwedType DEF GoodCall
  <1>2. TallyOf(c, p, e) = x \o Owed(p, e)
    BY DEF TallyOf
  <1>3. c.added = <<>> \/ c.pc = "closing" \/ c.epoch # e => x = <<>>
    OBVIOUS
  <1> HIDE DEF x
  <1>4. x \o Owed(p, e) \in Seq(Kinds)
    BY <1>1
  <1>5. <<>> \o Owed(p, e) = Owed(p, e) /\ x \o <<>> = x
    BY <1>1, Joined
  <1> QED
    BY <1>2, <1>3, <1>4, <1>5 DEF x

LEMMA TallyType ==
    ASSUME CallInv, PromiseInv
    PROVE  Tally \in [Asks -> Seq(Kinds)]
  <1>1. ASSUME NEW a \in Asks PROVE Tally[a] \in Seq(Kinds)
    <2>1. promised[a] \in Promises /\ GoodCall(call[a], epoch)
      BY DEF CallInv, PromiseInv
    <2> QED
      BY <2>1, TallyIs, TallyOfType
  <1> QED
    BY <1>1 DEF Tally

-----------------------------------------------------------------------------
(* The account, when the entries of one answer change.                     *)

\* The entries x of an answer are replaced by y, and the open ones o by p.
Exchanged(o, p, x, y) ==
    \A k \in Kinds : Occurrences(p, k) = Occurrences(o, k) - Occurrences(x, k) + Occurrences(y, k)

LEMMA ExchangedSame ==
    ASSUME NEW o \in Seq(Kinds), NEW x \in Seq(Kinds)
    PROVE  Exchanged(o, o, x, x)
  <1>1. ASSUME NEW k \in Kinds
        PROVE  Occurrences(o, k) = Occurrences(o, k) - Occurrences(x, k) + Occurrences(x, k)
    <2>1. Occurrences(o, k) \in Nat /\ Occurrences(x, k) \in Nat
      BY SpotsFinite
    <2> QED
      BY <2>1
  <1> QED
    BY <1>1 DEF Exchanged

LEMMA Reckoned ==
    ASSUME IsFiniteSet(Asks), NEW o \in Seq(Kinds), NEW p \in Seq(Kinds), NEW r,
           NEW c \in [Asks -> Seq(Kinds)], NEW d \in [Asks -> Seq(Kinds)],
           NEW a \in Asks, Elsewhere(c, d, Asks, a),
           Exchanged(o, p, c[a], d[a]),
           Accounts(o, c, r)
    PROVE  Accounts(p, d, r)
  <1>1. ASSUME NEW k \in Kinds
        PROVE  /\ Occurrences(p, k) >= Cardinality(Places(d, Asks, k))
               /\ r = 0 => Occurrences(p, k) = Cardinality(Places(d, Asks, k))
    <2>1. /\ Cardinality(Places(d, Asks, k))
               = Cardinality(Places(c, Asks, k)) - Occurrences(c[a], k) + Occurrences(d[a], k)
          /\ Cardinality(Places(c, Asks, k)) >= Occurrences(c[a], k)
          /\ Cardinality(Places(c, Asks, k)) \in Nat
      BY PlacesChanged
    <2>2. Occurrences(p, k) = Occurrences(o, k) - Occurrences(c[a], k) + Occurrences(d[a], k)
      BY DEF Exchanged
    <2>3. /\ Occurrences(o, k) >= Cardinality(Places(c, Asks, k))
          /\ r = 0 => Occurrences(o, k) = Cardinality(Places(c, Asks, k))
      BY DEF Accounts
    <2>4. Occurrences(o, k) \in Nat /\ Occurrences(c[a], k) \in Nat /\ Occurrences(d[a], k) \in Nat
      <3>1. c[a] \in Seq(Kinds) /\ d[a] \in Seq(Kinds)
        OBVIOUS
      <3> QED
        BY <3>1, SpotsFinite
    <2> QED
      BY <2>1, <2>2, <2>3, <2>4
  <1> QED
    BY <1>1 DEF Accounts

\* Before any restart or after, an answer has no more entries than there are.
LEMMA Covered ==
    ASSUME VerdictsAssumption, EntryInv, NEW a \in Asks
    PROVE  \A k \in Kinds : Occurrences(once, k) >= Occurrences(Tally[a], k)
  <1>1. Tally \in [Asks -> Seq(Kinds)] /\ IsFiniteSet(Asks)
    BY TallyType DEF EntryInv, VerdictsAssumption
  <1>2. Accounts(once, Tally, restarts)
    BY TallyIs DEF EntryInv
  <1> DEFINE c == Tally
  <1>3. ASSUME NEW k \in Kinds
        PROVE  Occurrences(once, k) >= Occurrences(c[a], k)
    <2>1. c \in [Asks -> Seq(Kinds)] /\ c[a] \in Seq(Kinds)
      BY <1>1
    <2>0. Elsewhere(c, c, Asks, a)
      BY DEF Elsewhere
    <2> HIDE DEF c
    <2>2. /\ Cardinality(Places(c, Asks, k))
               = Cardinality(Places(c, Asks, k)) - Occurrences(c[a], k) + Occurrences(c[a], k)
          /\ Cardinality(Places(c, Asks, k)) >= Occurrences(c[a], k)
          /\ Cardinality(Places(c, Asks, k)) \in Nat
      BY <1>1, <2>0, <2>1, PlacesChanged
    <2>3. Occurrences(once, k) >= Cardinality(Places(c, Asks, k))
      BY <1>2 DEF Accounts, c
    <2>4. Occurrences(once, k) \in Nat /\ Occurrences(c[a], k) \in Nat
      BY <2>1, SpotsFinite DEF EntryInv, StoreInv
    <2> QED
      BY <2>2, <2>3, <2>4
  <1> QED
    BY <1>3

\* One call and its promise change, and the store with them.
LEMMA Concerns ==
    ASSUME VerdictsAssumption, EntryInv, StoreInv', PromiseInv', epoch' = epoch, restarts' = restarts,
           NEW a \in Asks, GoodCall(call'[a], epoch),
           \A b \in Asks \ {a} : call'[b] = call[b] /\ Owed(promised'[b], epoch) = Owed(promised[b], epoch),
           Exchanged(once, once', Tally[a], TallyOf(call'[a], promised'[a], epoch))
    PROVE  EntryInv'
  <1>1. CallInv'
    BY DEF EntryInv, CallInv
  <1>2. Tally \in [Asks -> Seq(Kinds)] /\ Tally' \in [Asks -> Seq(Kinds)]
    <2>1. Tally' \in [Asks -> Seq(Kinds)]
      <3>1. ASSUME NEW b \in Asks PROVE Tally'[b] \in Seq(Kinds)
        <4>1. promised'[b] \in Promises /\ GoodCall(call'[b], epoch')
          BY <1>1 DEF CallInv, PromiseInv
        <4>2. TallyOf(call'[b], promised'[b], epoch') \in Seq(Kinds)
          BY <4>1, TallyOfType
        <4> QED
          BY <4>2, TallyAfter
      <3> QED
        BY <3>1 DEF Tally
    <2> QED
      BY <2>1, TallyType DEF EntryInv
  <1>3. Elsewhere(Tally, Tally', Asks, a)
    BY TallyIs, TallyAfter DEF TallyOf, Elsewhere
  <1>4. Tally'[a] = TallyOf(call'[a], promised'[a], epoch)
    BY TallyAfter
  <1>5. Accounts(once, Tally, restarts)
    BY TallyIs DEF EntryInv
  <1>6. IsFiniteSet(Asks) /\ once \in Seq(Kinds) /\ once' \in Seq(Kinds)
    BY DEF VerdictsAssumption, EntryInv, StoreInv
  <1>7. Exchanged(once, once', Tally[a], Tally'[a])
    BY <1>4
  <1>8. Accounts(once', Tally', restarts)
    BY <1>2, <1>3, <1>5, <1>6, <1>7, Reckoned
  <1>9. OnceAccounted'
    BY <1>8, TallyAfter
  <1> QED
    BY <1>1, <1>9 DEF EntryInv

-----------------------------------------------------------------------------
(* The parts of a step.                                                    *)

\* What was sent stays sent (NextSent: on one page).
StaysSent == \A b \in Asks : hist[b].sent => hist'[b].sent

\* Rules are never taken away, and no promise is made or dropped.
LEMMA PromiseSame ==
    ASSUME PromiseInv, StaysSent, UNCHANGED <<promised, epoch>>, ToSet(allowed) \subseteq ToSet(allowed')
    PROVE  PromiseInv'
  BY DEF PromiseInv, StaysSent

\* No entry, call or rule is touched.
LEMMA NoEntry ==
    ASSUME EntryInv, StaysSent, UNCHANGED <<call, promised, once, allowed, epoch, restarts>>
    PROVE  EntryInv' /\ Tally' = Tally
  <1>1. StoreInv' /\ CallInv'
    BY DEF EntryInv, StoreInv, CallInv
  <1>2. PromiseInv'
    BY PromiseSame DEF EntryInv
  <1>3. Tally' = Tally
    BY DEF Tally, Counted, Added, Promised, At
  <1>4. OnceAccounted'
    BY <1>3, TallyIs, TallyAfter DEF EntryInv
  <1> QED
    BY <1>1, <1>2, <1>3, <1>4 DEF EntryInv

\* An answer before its entries, or after them, owes only what it promised.
LEMMA CallNoEntries ==
    ASSUME VerdictsAssumption, EntryInv, NEW a \in Asks, call[a].pc \notin Opened
    PROVE  call[a].added = <<>> /\ Tally[a] = Owed(promised[a], epoch)
  <1>1. GoodCall(call[a], epoch) /\ promised[a] \in Promises
    BY DEF EntryInv, CallInv, PromiseInv
  <1>2. call[a].added = <<>>
    BY <1>1 DEF GoodCall
  <1> QED
    BY <1>1, <1>2, TallyOfType, TallyIs

\* A call that goes on with what it has, and no entry is touched.
LEMMA Unmoved ==
    ASSUME VerdictsAssumption, EntryInv, StaysSent, UNCHANGED <<promised, once, allowed, epoch, restarts>>,
           NEW a \in Asks, GoodCall(call'[a], epoch), \A b \in Asks \ {a} : call'[b] = call[b],
           TallyOf(call'[a], promised[a], epoch) = Tally[a]
    PROVE  EntryInv' /\ Tally' = Tally
  <1>1. StoreInv' /\ PromiseInv'
    BY PromiseSame DEF EntryInv, StoreInv
  <1>2. Tally[a] \in Seq(Kinds) /\ once \in Seq(Kinds)
    BY TallyType DEF EntryInv, StoreInv
  <1>3. Exchanged(once, once', Tally[a], TallyOf(call'[a], promised'[a], epoch))
    BY <1>2, ExchangedSame
  <1>4. EntryInv'
    BY <1>1, <1>3, Concerns
  <1>5. Tally' = Tally
    <2>1. \A b \in Asks : Tally'[b] = Tally[b]
      BY TallyIs, TallyAfter
    <2> QED
      BY <2>1 DEF Tally
  <1> QED
    BY <1>4, <1>5

\* A call that takes its next step keeps what it has.
LEMMA GoesOn ==
    ASSUME VerdictsAssumption, Inv, EntryInv, StaysSent, UNCHANGED <<promised, once, allowed, epoch, restarts>>,
           NEW a \in Asks, NEW p \in Pcs, Goto(a, p), p # "closing", call[a].pc # "closing",
           call[a].pc \in Opened => p \in Opened
    PROVE  EntryInv' /\ Tally' = Tally
  <1>1. /\ call'[a].pc = p /\ call'[a].added = call[a].added /\ call'[a].epoch = call[a].epoch
        /\ call'[a].seen = call[a].seen /\ \A b \in Asks \ {a} : call'[b] = call[b]
    BY GotoOf DEF Inv, Base
  <1>2. GoodCall(call'[a], epoch)
    BY <1>1 DEF EntryInv, CallInv, GoodCall
  <1>3. TallyOf(call'[a], promised[a], epoch) = Tally[a]
    BY <1>1, TallyIs DEF TallyOf
  <1> QED
    BY <1>1, <1>2, <1>3, Unmoved

\* A call without entries that ends, is denied or starts.
LEMMA StaysWithout ==
    ASSUME VerdictsAssumption, Inv, EntryInv, StaysSent, UNCHANGED <<promised, once, allowed, epoch, restarts>>,
           NEW a \in Asks, NEW c, call' = [call EXCEPT ![a] = c],
           c.added = <<>>, GoodCall(c, epoch), Tally[a] = Owed(promised[a], epoch)
    PROVE  EntryInv' /\ Tally' = Tally
  <1>1. call'[a] = c /\ \A b \in Asks \ {a} : call'[b] = call[b]
    BY CallOf DEF Inv, Base
  <1>2. promised[a] \in Promises
    BY DEF EntryInv, PromiseInv
  <1>3. TallyOf(c, promised[a], epoch) = Owed(promised[a], epoch)
    BY <1>2, TallyOfType
  <1> QED
    BY <1>1, <1>3, Unmoved

LEMMA BlankCalls ==
    ASSUME EntryInv
    PROVE  /\ GoodCall(NoCall, epoch) /\ NoCall.added = <<>>
           /\ GoodCall(Denied, epoch) /\ Denied.added = <<>>
           /\ \A p, v : LET c == [NoCall EXCEPT !.pc = p, !.verdict = v, !.epoch = epoch, !.seen = once]
                        IN  GoodCall(c, epoch) /\ c.added = <<>>
  <1>1. epoch \in Nat /\ once \in Seq(Kinds) /\ <<>> \in Seq(Kinds) /\ Len(<<>>) <= 2
    BY DEF EntryInv, CallInv, StoreInv
  <1>2. GoodCall(NoCall, epoch) /\ NoCall.added = <<>>
    BY <1>1 DEF GoodCall, NoCall
  <1>3. GoodCall(Denied, epoch) /\ Denied.added = <<>>
    BY <1>1 DEF GoodCall, Denied, NoCall
  <1>4. ASSUME NEW p, NEW v
        PROVE  LET c == [NoCall EXCEPT !.pc = p, !.verdict = v, !.epoch = epoch, !.seen = once]
               IN  GoodCall(c, epoch) /\ c.added = <<>>
    BY <1>1 DEF GoodCall, NoCall
  <1> QED
    BY <1>2, <1>3, <1>4

-----------------------------------------------------------------------------
(* Entries that are added and given back.                                  *)

\* What an answer opens.
LEMMA OpensType ==
    ASSUME NEW a \in Asks, NEW v
    PROVE  Opens(a, v) \in Seq(Kinds) /\ Len(Opens(a, v)) <= 2
  <1>1. KindOf[a] \in Kinds /\ Seal \in Kinds
    BY DEF Kinds
  <1>2. /\ <<KindOf[a]>> \o <<Seal>> \in Seq(Kinds) /\ Len(<<KindOf[a]>> \o <<Seal>>) = 2
        /\ <<KindOf[a]>> \o <<>> \in Seq(Kinds) /\ Len(<<KindOf[a]>> \o <<>>) = 1
        /\ <<Seal>> \in Seq(Kinds) /\ Len(<<Seal>>) = 1 /\ <<>> \in Seq(Kinds) /\ Len(<<>>) = 0
    BY <1>1
  <1> QED
    BY <1>2 DEF Opens

\* An answer adds its entries, on top of none.
LEMMA Widened ==
    ASSUME VerdictsAssumption, Inv, EntryInv, NEW a \in Asks, Widen(a),
           StoreInv', PromiseInv', UNCHANGED <<epoch, restarts>>, Tally[a] = <<>>,
           \A b \in Asks : Owed(promised'[b], epoch) = Owed(promised[b], epoch), Owed(promised[a], epoch) = <<>>
    PROVE  EntryInv'
  <1> DEFINE es == Opens(a, call[a].verdict)
             c == [call[a] EXCEPT !.pc = "store", !.added = es, !.epoch = epoch, !.seen = <<>>]
  <1>1. es \in Seq(Kinds) /\ Len(es) <= 2
    BY OpensType
  <1>2. call' = [call EXCEPT ![a] = c] /\ once' = once \o es
    BY DEF Widen
  <1> HIDE DEF es
  <1>3. c.added = es /\ c.pc = "store" /\ c.epoch = epoch /\ c.seen = <<>>
    BY DEF Inv, Base, CallShape, IsCall
  <1>4. GoodCall(c, epoch)
    <2>1. epoch \in Nat /\ <<>> \in Seq(Kinds)
      BY DEF EntryInv, CallInv
    <2> QED
      BY <1>1, <1>3, <2>1 DEF GoodCall, Opened
  <1> HIDE DEF c
  <1>5. call'[a] = c /\ \A b \in Asks \ {a} : call'[b] = call[b]
    BY <1>2, CallOf DEF Inv, Base
  <1>6. TallyOf(c, promised'[a], epoch) = es
    <2>1. promised'[a] \in Promises /\ Owed(promised'[a], epoch) = <<>>
      BY DEF PromiseInv
    <2> QED
      BY <1>3, <1>4, <2>1, TallyOfType
  <1>7. Exchanged(once, once', Tally[a], es)
    <2>1. ASSUME NEW k \in Kinds
          PROVE  Occurrences(once', k) = Occurrences(once, k) - Occurrences(<<>>, k) + Occurrences(es, k)
      <3>1. once \in Seq(Kinds)
        BY DEF EntryInv, StoreInv
      <3>2. Occurrences(once \o es, k) = Occurrences(once, k) + Occurrences(es, k)
        BY <1>1, <3>1, OccursJoined
      <3>3. Occurrences(once, k) \in Nat /\ Occurrences(es, k) \in Nat
        BY <1>1, <3>1, SpotsFinite
      <3>4. Occurrences(<<>>, k) = 0
        BY OccursNone
      <3> QED
        BY <1>2, <3>2, <3>3, <3>4
    <2> QED
      BY <2>1 DEF Exchanged
  <1> QED
    BY <1>4, <1>5, <1>6, <1>7, Concerns

\* An answer that does not go out gives back what it added, and no more.
LEMMA GivenBack ==
    ASSUME VerdictsAssumption, Inv, EntryInv, StaysSent, NEW a \in Asks, GiveBack(a),
           UNCHANGED <<promised, allowed, epoch, restarts>>, Owed(promised[a], epoch) = <<>>, call[a].pc # "closing",
           NEW c, call' = [call EXCEPT ![a] = c], c.added = <<>>, GoodCall(c, epoch)
    PROVE  EntryInv' /\ Tally'[a] = <<>> /\ \A b \in Asks \ {a} : Tally'[b] = Tally[b]
  <1> DEFINE es == IF call[a].epoch # epoch THEN <<>> ELSE call[a].added
  <1>1. call'[a] = c /\ \A b \in Asks \ {a} : call'[b] = call[b]
    BY CallOf DEF Inv, Base
  <1>2. promised[a] \in Promises /\ GoodCall(call[a], epoch) /\ once \in Seq(Kinds)
    BY DEF EntryInv, PromiseInv, CallInv, StoreInv
  <1>3. Tally[a] = es /\ es \in Seq(Kinds) /\ Len(es) \in {0, 1, 2}
    <2>1. TallyOf(call[a], promised[a], epoch) = es
      BY <1>2, TallyOfType
    <2>2. es \in Seq(Kinds) /\ Len(es) <= 2
      <3>1. <<>> \in Seq(Kinds) /\ Len(<<>>) <= 2
        OBVIOUS
      <3> QED
        BY <1>2, <3>1 DEF GoodCall
    <2>3. Tally[a] = es
      BY <2>1, TallyIs
    <2> HIDE DEF es
    <2>4. Len(es) \in Nat
      BY <2>2
    <2>5. \A n \in Nat : n <= 2 => n \in {0, 1, 2}
      OBVIOUS
    <2> QED
      BY <2>2, <2>3, <2>4, <2>5
  <1>4. TallyOf(c, promised[a], epoch) = <<>>
    BY <1>2, TallyOfType
  <1>5. /\ es = <<>> => once' = once
        /\ es # <<>> => once' = Without(once, es)
    BY DEF GiveBack
  <1> HIDE DEF es
  <1>6. once' \in Seq(Kinds) /\ Exchanged(once, once', Tally[a], <<>>)
    <2>1. \A k \in Kinds : /\ Occurrences(<<>>, k) = 0
                           /\ Occurrences(once, k) \in Nat /\ Occurrences(es, k) \in Nat
      BY <1>2, <1>3, OccursNone, SpotsFinite
    <2>2. CASE es = <<>>
      <3>1. once' = once /\ Tally[a] = <<>>
        BY <1>3, <1>5, <2>2
      <3>2. \A k \in Kinds : Occurrences(once, k) = Occurrences(once, k) - Occurrences(<<>>, k) + Occurrences(<<>>, k)
        BY <2>1
      <3> QED
        BY <1>2, <3>1, <3>2 DEF Exchanged
    <2>3. CASE es # <<>>
      <3>1. Len(es) \in {1, 2}
        BY <1>3, <2>3
      <3>2. \A k \in Kinds : Occurrences(once, k) >= Occurrences(es, k)
        BY <1>3, Covered
      <3>3. /\ Without(once, es) \in Seq(Kinds)
            /\ \A k \in Kinds : Occurrences(Without(once, es), k) = Occurrences(once, k) - Occurrences(es, k)
        BY <1>2, <1>3, <3>1, <3>2, TakenOut
      <3>4. \A k \in Kinds : Occurrences(Without(once, es), k) = Occurrences(once, k) - Occurrences(es, k) + Occurrences(<<>>, k)
        BY <2>1, <3>3
      <3> QED
        BY <1>3, <1>5, <2>3, <3>3, <3>4 DEF Exchanged
    <2> QED
      BY <2>2, <2>3
  <1>7. StoreInv' /\ PromiseInv'
    BY <1>6, PromiseSame DEF EntryInv, StoreInv
  <1>8. EntryInv'
    BY <1>1, <1>4, <1>6, <1>7, Concerns
  <1> QED
    BY <1>1, <1>4, <1>8, TallyIs, TallyAfter

-----------------------------------------------------------------------------
(* Rules.                                                                  *)

\* A deny rule takes the place of an allow rule.
LEMMA RuleTaken ==
    ASSUME NEW S, NEW s \in Seq(S), IsInjective(s), NEW k
    PROVE  /\ RemoveFirst(s, k) \in Seq(S) /\ IsInjective(RemoveFirst(s, k))
           /\ \A y : y \in ToSet(RemoveFirst(s, k)) <=> (y \in ToSet(s) /\ y # k)
  <1>1. CASE k \in ToSet(s)
    <2>1. PICK i \in DOMAIN s : s[i] = k /\ RemoveFirst(s, k) = RemoveAt(s, i)
      BY <1>1, FirstFound
    <2> DEFINE t == RemoveAt(s, i)
    <2>2. /\ t \in Seq(S) /\ DOMAIN t = 1..Len(s) - 1
          /\ \A j \in 1..Len(s) - 1 : t[j] = IF j < i THEN s[j] ELSE s[j + 1]
      BY OneLess
    <2>3. DOMAIN s = 1..Len(s) /\ Len(s) \in Nat /\ i \in 1..Len(s)
      OBVIOUS
    <2> HIDE DEF t
    <2> DEFINE old(j) == IF j < i THEN j ELSE j + 1
    <2>31. \A j \in DOMAIN t : old(j) \in DOMAIN s /\ old(j) # i /\ t[j] = s[old(j)]
      BY <2>2, <2>3
    <2>32. \A j, m \in DOMAIN t : old(j) = old(m) => j = m
      BY <2>2, <2>3
    <2> HIDE DEF old
    <2>4. IsInjective(t)
      BY <2>31, <2>32 DEF IsInjective
    <2>5. \A y : y \in ToSet(t) => y \in ToSet(s) /\ y # k
      BY <2>1, <2>31 DEF ToSet, IsInjective
    <2>6. ASSUME NEW y \in ToSet(s), y # k PROVE y \in ToSet(t)
      <3>1. PICK m \in 1..Len(s) : s[m] = y
        BY <2>3 DEF ToSet
      <3>2. m # i
        BY <2>1, <2>6, <3>1
      <3>3. CASE m < i
        <4>1. m \in 1..Len(s) - 1 /\ t[m] = y
          BY <2>2, <2>3, <3>1, <3>3
        <4> QED
          BY <2>2, <4>1 DEF ToSet
      <3>4. CASE ~(m < i)
        <4>1. m - 1 \in 1..Len(s) - 1 /\ ~(m - 1 < i) /\ (m - 1) + 1 = m
          BY <2>3, <3>1, <3>2, <3>4
        <4>2. t[m - 1] = y
          BY <2>2, <3>1, <4>1
        <4> QED
          BY <2>2, <4>1, <4>2 DEF ToSet
      <3> QED
        BY <3>3, <3>4
    <2> QED
      BY <2>1, <2>2, <2>4, <2>5, <2>6 DEF t
  <1>2. CASE k \notin ToSet(s)
    <2>1. RemoveFirst(s, k) = s
      BY <1>2, FirstFound
    <2> QED
      BY <1>2, <2>1
  <1> QED
    BY <1>1, <1>2

\* saveChildRule puts the new rule first.
LEMMA RuleAdded ==
    ASSUME NEW S, NEW s \in Seq(S), IsInjective(s), NEW k \in S, k \notin ToSet(s)
    PROVE  /\ <<k>> \o s \in Seq(S) /\ IsInjective(<<k>> \o s)
           /\ \A y : y \in ToSet(<<k>> \o s) <=> (y \in ToSet(s) \/ y = k)
  <1> DEFINE t == <<k>> \o s
  <1>1. /\ t \in Seq(S) /\ DOMAIN t = 1..Len(s) + 1 /\ DOMAIN s = 1..Len(s) /\ Len(s) \in Nat
        /\ t[1] = k /\ \A i \in 1..Len(s) : t[i + 1] = s[i]
    OBVIOUS
  <1> HIDE DEF t
  <1>2. ASSUME NEW i \in DOMAIN t, i # 1 PROVE i - 1 \in DOMAIN s /\ t[i] = s[i - 1]
    <2>1. i - 1 \in 1..Len(s) /\ (i - 1) + 1 = i
      BY <1>1, <1>2
    <2> QED
      BY <1>1, <2>1
  <1>3. ASSUME NEW i \in DOMAIN t, NEW j \in DOMAIN t, t[i] = t[j] PROVE i = j
    <2>1. \A x \in DOMAIN s : s[x] # k
      BY DEF ToSet
    <2>2. CASE i = 1 \/ j = 1
      BY <1>1, <1>2, <1>3, <2>1, <2>2
    <2>3. CASE i # 1 /\ j # 1
      <3>1. i - 1 = j - 1
        BY <1>2, <1>3, <2>3 DEF IsInjective
      <3> QED
        BY <1>1, <3>1
    <2> QED
      BY <2>2, <2>3
  <1>4. IsInjective(t)
    BY <1>3 DEF IsInjective
  <1>5. ASSUME NEW y PROVE y \in ToSet(t) <=> (y \in ToSet(s) \/ y = k)
    <2>1. ASSUME y \in ToSet(t) PROVE y \in ToSet(s) \/ y = k
      BY <1>1, <1>2, <2>1 DEF ToSet
    <2>2. ASSUME y \in ToSet(s) PROVE y \in ToSet(t)
      <3>1. PICK i \in 1..Len(s) : s[i] = y
        BY <1>1, <2>2 DEF ToSet
      <3>2. i + 1 \in DOMAIN t /\ t[i + 1] = y
        BY <1>1, <3>1
      <3> QED
        BY <3>2 DEF ToSet
    <2>3. k \in ToSet(t)
      <3>1. 1 \in DOMAIN t
        BY <1>1
      <3> QED
        BY <1>1, <3>1 DEF ToSet
    <2> QED
      BY <2>1, <2>2, <2>3
  <1> QED
    BY <1>1, <1>4, <1>5 DEF t

LEMMA RulesAfterAlways ==
    ASSUME StoreInv, NEW a \in Asks
    PROVE  /\ RulesAfter(a, "always") \in Seq(Kinds) /\ IsInjective(RulesAfter(a, "always"))
           /\ \A y : y \in ToSet(RulesAfter(a, "always")) <=> (y \in ToSet(allowed) \/ y = KindOf[a])
  <1> DEFINE r == RemoveFirst(allowed, KindOf[a])
  <1>1. /\ r \in Seq(Kinds) /\ IsInjective(r)
        /\ \A y : y \in ToSet(r) <=> (y \in ToSet(allowed) /\ y # KindOf[a])
    BY RuleTaken DEF StoreInv
  <1>2. RulesAfter(a, "always") = <<KindOf[a]>> \o r
    BY DEF RulesAfter
  <1>3. KindOf[a] \in Kinds
    BY DEF Kinds
  <1> HIDE DEF r
  <1>4. /\ <<KindOf[a]>> \o r \in Seq(Kinds) /\ IsInjective(<<KindOf[a]>> \o r)
        /\ \A y : y \in ToSet(<<KindOf[a]>> \o r) <=> (y \in ToSet(r) \/ y = KindOf[a])
    BY <1>1, <1>3, RuleAdded
  <1> QED
    BY <1>1, <1>2, <1>4

-----------------------------------------------------------------------------
(* The entries, action by action.                                          *)

\* A verdict that did not go out is owed nothing.
LEMMA Unpaid ==
    ASSUME PromiseInv, SentInv, NEW a \in Asks, call[a].pc \notin Calm
    PROVE  promised[a].added = <<>> /\ \A e : Owed(promised[a], e) = <<>>
  BY DEF PromiseInv, SentInv, Owed

\* An answer is owed no more than before, and its rule is not new.
Yields(b) == ToSet(Tally'[b]) \subseteq ToSet(Tally[b]) /\ (promised'[b].rule => promised[b].rule)

LEMMA YieldsSame ==
    ASSUME Tally' = Tally, promised' = promised
    PROVE  \A b \in Asks : Yields(b)
  BY DEF Yields

LEMMA DenyEntries ==
    ASSUME VerdictsAssumption, Inv, SentInv, EntryInv, NEW a \in Asks, Deny(a)
    PROVE  EntryInv' /\ \A b \in Asks : Yields(b)
  <1>1. /\ call[a].pc = "weigh" /\ call' = [call EXCEPT ![a] = Denied]
        /\ UNCHANGED <<once, hist, epoch, restarts>>
    BY DEF Deny, At, savedVars, bounds
  <1>2. call[a].pc \notin Opened
    BY <1>1 DEF Opened
  <1>3. Tally[a] = Owed(promised[a], epoch)
    BY <1>2, CallNoEntries
  <1>4. GoodCall(Denied, epoch) /\ Denied.added = <<>>
    BY BlankCalls
  <1>5. StaysSent
    BY <1>1 DEF StaysSent
  <1>6. CASE UNCHANGED <<allowed, promised>>
    <2>1. EntryInv' /\ Tally' = Tally
      BY <1>1, <1>3, <1>4, <1>5, <1>6, StaysWithout
    <2> QED
      BY <1>6, <2>1, YieldsSame
  <1>7. CASE /\ allowed' = RemoveFirst(allowed, KindOf[a])
             /\ promised' = [b \in Asks |-> [promised[b] EXCEPT !.rule = @ /\ KindOf[b] # KindOf[a]]]
    <2>1. /\ allowed' \in Seq(Kinds) /\ IsInjective(allowed')
          /\ \A y : y \in ToSet(allowed') <=> (y \in ToSet(allowed) /\ y # KindOf[a])
      BY <1>7, RuleTaken DEF EntryInv, StoreInv
    <2>2. \A b \in Asks : /\ promised'[b].added = promised[b].added /\ promised'[b].epoch = promised[b].epoch
                          /\ promised'[b].rule = (promised[b].rule /\ KindOf[b] # KindOf[a])
                          /\ promised'[b] \in Promises
      <3>1. \A b \in Asks : promised[b] \in Promises
        BY DEF EntryInv, PromiseInv
      <3> QED
        BY <1>7, <3>1 DEF Promises
    <2>3. PromiseInv'
      <3>1. promised' \in [Asks -> Promises]
        BY <1>7, <2>2
      <3>2. \A b \in Asks : /\ promised'[b].epoch <= epoch'
                            /\ promised'[b].added # <<>> => hist'[b].sent
                            /\ promised'[b].rule => KindOf[b] \in ToSet(allowed')
        BY <1>1, <2>1, <2>2 DEF EntryInv, PromiseInv
      <3> QED
        BY <3>1, <3>2 DEF PromiseInv
    <2>4. StoreInv'
      BY <1>1, <2>1 DEF EntryInv, StoreInv
    <2>5. \A b \in Asks : Owed(promised'[b], epoch) = Owed(promised[b], epoch)
      BY <2>2 DEF Owed
    <2>6. call'[a] = Denied /\ \A b \in Asks \ {a} : call'[b] = call[b]
      BY <1>1, CallOf DEF Inv, Base
    <2>7. TallyOf(Denied, promised'[a], epoch) = Tally[a]
      BY <1>3, <1>4, <2>2, <2>5, TallyOfType
    <2>8. Exchanged(once, once', Tally[a], TallyOf(call'[a], promised'[a], epoch))
      <3>1. Tally[a] \in Seq(Kinds) /\ once \in Seq(Kinds)
        BY TallyType DEF EntryInv, StoreInv
      <3> QED
        BY <1>1, <2>6, <2>7, <3>1, ExchangedSame
    <2>14. /\ GoodCall(call'[a], epoch)
           /\ \A b \in Asks \ {a} : call'[b] = call[b] /\ Owed(promised'[b], epoch) = Owed(promised[b], epoch)
      BY <1>4, <2>5, <2>6
    <2>9. EntryInv'
      BY <1>1, <2>3, <2>4, <2>8, <2>14, Concerns
    <2>10. epoch' = epoch
      BY <1>1
    <2>11. Tally'[a] = Tally[a]
      BY <2>6, <2>7, <2>10, TallyAfter
    <2>12. \A b \in Asks \ {a} : TallyOf(call'[b], promised'[b], epoch) = TallyOf(call[b], promised[b], epoch)
      BY <2>5, <2>6 DEF TallyOf
    <2>13. \A b \in Asks \ {a} : Tally'[b] = Tally[b]
      BY <2>10, <2>12, TallyIs, TallyAfter
    <2> QED
      BY <2>2, <2>9, <2>11, <2>13 DEF Yields
  <1> QED
    BY <1>6, <1>7 DEF Deny

\* A call that is refused, given up or only goes on.
LEMMA PlainEntries ==
    ASSUME VerdictsAssumption, Inv, SentInv, EntryInv, NEW a \in Asks,
           \/ Refuse(a) \/ GiveUp(a) \/ Always(a) \/ AskForLock(a) \/ Record(a) \/ Unanswered(a) \/ Publish(a)
    PROVE  EntryInv' /\ \A b \in Asks : Yields(b)
  <1>1. UNCHANGED <<promised, once, allowed, epoch, restarts, hist>>
    BY DEF Refuse, GiveUp, Always, AskForLock, Record, Unanswered, Publish, savedVars, storeVars, bounds
  <1>2. StaysSent
    BY <1>1 DEF StaysSent
  <1>3. CASE Refuse(a) \/ GiveUp(a)
    <2>1. call[a].pc \notin Opened
      BY <1>3 DEF Refuse, GiveUp, At, Opened
    <2>2. Tally[a] = Owed(promised[a], epoch)
      BY <2>1, CallNoEntries
    <2>3. PICK c \in {Denied, NoCall} : call' = [call EXCEPT ![a] = c]
      BY <1>3 DEF Refuse, GiveUp
    <2>4. GoodCall(c, epoch) /\ c.added = <<>>
      BY <2>3, BlankCalls
    <2> QED
      BY <1>1, <1>2, <2>2, <2>3, <2>4, StaysWithout, YieldsSame
  <1>4. CASE Always(a) \/ AskForLock(a) \/ Record(a) \/ Unanswered(a) \/ Publish(a)
    <2>1. PICK p \in {"rule", "push", "recording", "publish", "wire"} :
              Goto(a, p) /\ (p = "rule" => call[a].pc = "weigh")
      BY <1>4 DEF Always, AskForLock, Record, Unanswered, Publish, At
    <2>2. p \in Pcs /\ p # "closing" /\ (p # "rule" => p \in Opened)
      BY <2>1 DEF Pcs, Opened
    <2>3. call[a].pc # "closing" /\ (call[a].pc \in Opened => p \in Opened)
      BY <1>4, <2>1, <2>2 DEF Always, AskForLock, Record, Unanswered, Publish, At, Opened
    <2>4. EntryInv' /\ Tally' = Tally
      BY <1>1, <1>2, <2>1, <2>2, <2>3, GoesOn
    <2> QED
      BY <1>1, <2>4, YieldsSame
  <1> QED
    BY <1>3, <1>4

\* The entries of an answer are opened, with its rule or without.
LEMMA WidenEntries ==
    ASSUME VerdictsAssumption, Inv, SentInv, EntryInv, NEW a \in Asks, Once(a) \/ RuleSaved(a)
    PROVE  EntryInv' /\ \A b \in Asks \ {a} : Yields(b)
  <1>1. call[a].pc \in {"weigh", "rule"} /\ Widen(a) /\ UNCHANGED <<hist, epoch, restarts>>
    BY DEF Once, RuleSaved, At, savedVars, bounds
  <1>2. call[a].pc \notin Opened /\ call[a].pc \notin Calm
    BY <1>1 DEF Opened, Calm
  <1>3. Owed(promised[a], epoch) = <<>> /\ Tally[a] = <<>>
    BY <1>2, CallNoEntries, Unpaid DEF EntryInv
  <1>4. once' \in Seq(Kinds)
    <2>1. once \in Seq(Kinds) /\ Opens(a, call[a].verdict) \in Seq(Kinds)
      BY OpensType DEF EntryInv, StoreInv
    <2> QED
      BY <1>1, <2>1 DEF Widen
  <1>5. \A b \in Asks : promised[b] \in Promises
    BY DEF EntryInv, PromiseInv
  <1>6. /\ StoreInv' /\ PromiseInv'
        /\ \A b \in Asks : Owed(promised'[b], epoch) = Owed(promised[b], epoch)
        /\ \A b \in Asks \ {a} : promised'[b] = promised[b]
    <2>1. CASE Once(a)
      <3>1. UNCHANGED <<allowed, promised>> /\ StaysSent
        BY <1>1, <2>1 DEF Once, StaysSent
      <3>2. PromiseInv'
        BY <1>1, <3>1, PromiseSame DEF EntryInv
      <3> QED
        BY <1>4, <3>1, <3>2 DEF EntryInv, StoreInv
    <2>2. CASE RuleSaved(a)
      <3>1. allowed' = RulesAfter(a, "always") /\ promised' = [promised EXCEPT ![a].rule = TRUE]
        BY <2>2 DEF RuleSaved
      <3>2. /\ allowed' \in Seq(Kinds) /\ IsInjective(allowed')
            /\ \A y : y \in ToSet(allowed') <=> (y \in ToSet(allowed) \/ y = KindOf[a])
        BY <3>1, RulesAfterAlways DEF EntryInv
      <3>3. /\ promised' \in [Asks -> Promises]
            /\ \A b \in Asks : promised'[b].added = promised[b].added /\ promised'[b].epoch = promised[b].epoch
            /\ \A b \in Asks \ {a} : promised'[b] = promised[b]
        <4>1. promised \in [Asks -> Promises]
          BY DEF EntryInv, PromiseInv
        <4> QED
          BY <3>1, <4>1 DEF Promises
      <3>4. \A b \in Asks : /\ promised'[b].epoch <= epoch'
                            /\ promised'[b].added # <<>> => hist'[b].sent
                            /\ promised'[b].rule => KindOf[b] \in ToSet(allowed')
        BY <1>1, <3>2, <3>3 DEF EntryInv, PromiseInv
      <3>5. PromiseInv'
        BY <3>3, <3>4 DEF PromiseInv
      <3>6. StoreInv'
        BY <1>4, <3>2 DEF StoreInv
      <3> QED
        BY <3>3, <3>5, <3>6 DEF Owed
    <2> QED
      BY <2>1, <2>2
  <1>7. EntryInv'
    BY <1>1, <1>3, <1>6, Widened
  <1>8. \A b \in Asks \ {a} : call'[b] = call[b]
    <2>1. PICK c : call' = [call EXCEPT ![a] = c]
      BY <1>1 DEF Widen
    <2> QED
      BY <2>1, CallOf DEF Inv, Base
  <1>9. \A b \in Asks \ {a} : Tally'[b] = Tally[b]
    BY <1>1, <1>6, <1>8, TallyIs, TallyAfter
  <1> QED
    BY <1>6, <1>7, <1>9 DEF Yields

\* The verdict is confirmed: what the call added is promised.
LEMMA SentEntries ==
    ASSUME VerdictsAssumption, Inv, SentInv, EntryInv, NEW a \in Asks, Sent(a)
    PROVE  EntryInv' /\ \A b \in Asks : Yields(b)
  <1>1. /\ call[a].pc = "wire" /\ Goto(a, "closing") /\ UNCHANGED <<once, allowed, epoch, restarts>>
        /\ hist' = [hist EXCEPT ![a].sent = TRUE]
        /\ promised' = [promised EXCEPT ![a].added = call[a].added, ![a].epoch = call[a].epoch]
    BY DEF Sent, At, storeVars, bounds
  <1>2. GoodCall(call[a], epoch) /\ promised \in [Asks -> Promises] /\ hist \in [Asks -> Rows]
    BY DEF EntryInv, CallInv, PromiseInv, Inv, Base, RowsShape
  <1>3. /\ call'[a].pc = "closing" /\ call'[a].added = call[a].added /\ call'[a].epoch = call[a].epoch
        /\ call'[a].seen = call[a].seen /\ \A b \in Asks \ {a} : call'[b] = call[b]
    <2>1. "closing" \in Pcs
      BY DEF Pcs
    <2> QED
      BY <1>1, <2>1, GotoOf DEF Inv, Base
  <1>4. GoodCall(call'[a], epoch)
    BY <1>2, <1>3 DEF GoodCall, Opened
  <1>5. hist'[a].sent /\ \A b \in Asks \ {a} : hist'[b] = hist[b]
    BY <1>1, <1>2 DEF Rows
  <1>6. /\ promised' \in [Asks -> Promises]
        /\ promised'[a].added = call[a].added /\ promised'[a].epoch = call[a].epoch
        /\ promised'[a].rule = promised[a].rule
        /\ \A b \in Asks \ {a} : promised'[b] = promised[b]
    <2>1. call[a].added \in Seq(Kinds) /\ call[a].epoch \in Nat
      BY <1>2 DEF GoodCall
    <2>2. promised[a] \in Promises
      BY <1>2
    <2> DEFINE p == [promised[a] EXCEPT !.added = call[a].added, !.epoch = call[a].epoch]
    <2>3. p \in Promises /\ p.added = call[a].added /\ p.epoch = call[a].epoch /\ p.rule = promised[a].rule
      BY <2>1, <2>2 DEF Promises
    <2>4. promised' = [promised EXCEPT ![a] = p]
      BY <1>1, <1>2, <2>2 DEF Promises
    <2> HIDE DEF p
    <2> QED
      BY <1>2, <2>3, <2>4
  <1>7. PromiseInv'
    <2>1. call[a].epoch <= epoch /\ epoch' = epoch
      BY <1>1, <1>2 DEF GoodCall
    <2>2. \A b \in Asks : /\ promised'[b].epoch <= epoch'
                          /\ promised'[b].added # <<>> => hist'[b].sent
                          /\ promised'[b].rule => KindOf[b] \in ToSet(allowed')
      BY <1>1, <1>5, <1>6, <2>1 DEF EntryInv, PromiseInv
    <2> QED
      BY <1>6, <2>2 DEF PromiseInv
  <1>8. StoreInv'
    BY <1>1 DEF EntryInv, StoreInv
  <1>9. TallyOf(call'[a], promised'[a], epoch) = Tally[a]
    <2>1. Owed(promised[a], epoch) = <<>>
      <3>1. call[a].pc \notin Calm
        BY <1>1 DEF Calm
      <3> QED
        BY <3>1, Unpaid DEF EntryInv
    <2>2. TallyOf(call[a], promised[a], epoch) = IF call[a].epoch # epoch THEN <<>> ELSE call[a].added
      <3>1. promised[a] \in Promises
        BY <1>2
      <3> QED
        BY <1>1, <1>2, <2>1, <3>1, TallyOfType
    <2>3. TallyOf(call'[a], promised'[a], epoch) = Owed(promised'[a], epoch)
      <3>1. promised'[a] \in Promises
        BY <1>6
      <3> QED
        BY <1>3, <1>4, <3>1, TallyOfType
    <2>4. Owed(promised'[a], epoch) = IF call[a].epoch # epoch THEN <<>> ELSE call[a].added
      BY <1>6 DEF Owed
    <2> QED
      BY <2>2, <2>3, <2>4, TallyIs
  <1>10. Exchanged(once, once', Tally[a], TallyOf(call'[a], promised'[a], epoch))
    <2>1. Tally[a] \in Seq(Kinds) /\ once \in Seq(Kinds)
      BY TallyType DEF EntryInv, StoreInv
    <2> QED
      BY <1>1, <1>9, <2>1, ExchangedSame
  <1>11. \A b \in Asks \ {a} : call'[b] = call[b] /\ Owed(promised'[b], epoch) = Owed(promised[b], epoch)
    BY <1>3, <1>6
  <1>12. EntryInv'
    BY <1>1, <1>4, <1>7, <1>8, <1>10, <1>11, Concerns
  <1>13. \A b \in Asks : Tally'[b] = Tally[b]
    <2>1. epoch' = epoch
      BY <1>1
    <2>2. Tally'[a] = Tally[a]
      BY <1>9, <2>1, TallyAfter
    <2>3. \A b \in Asks \ {a} : Tally'[b] = Tally[b]
      BY <1>3, <1>6, <2>1, TallyIs, TallyAfter
    <2> QED
      BY <2>2, <2>3
  <1> QED
    BY <1>6, <1>12, <1>13 DEF Yields

\* An answer given back, wherever it fails.
LEMMA BackYields ==
    ASSUME VerdictsAssumption, EntryInv, NEW a \in Asks, promised' = promised,
           Tally'[a] = <<>>, \A b \in Asks \ {a} : Tally'[b] = Tally[b]
    PROVE  \A b \in Asks : Yields(b)
  <1>1. ToSet(<<>>) = {}
    BY DEF ToSet
  <1> QED
    BY <1>1 DEF Yields

LEMMA FailEntries ==
    ASSUME VerdictsAssumption, Inv, SentInv, EntryInv, StaysSent, NEW a \in Asks, Overtaken(a) \/ NotSent(a)
    PROVE  EntryInv' /\ \A b \in Asks : Yields(b)
  <1>1. /\ call[a].pc \in {"check", "wire"} /\ GiveBack(a) /\ call' = [call EXCEPT ![a] = NoCall]
        /\ UNCHANGED <<promised, allowed, epoch, restarts>>
    BY DEF Overtaken, NotSent, At, bounds
  <1>2. call[a].pc \notin Calm /\ call[a].pc # "closing"
    BY <1>1 DEF Calm
  <1>3. Owed(promised[a], epoch) = <<>>
    BY <1>2, Unpaid DEF EntryInv
  <1>4. NoCall.added = <<>> /\ GoodCall(NoCall, epoch)
    BY BlankCalls
  <1>5. EntryInv' /\ Tally'[a] = <<>> /\ \A b \in Asks \ {a} : Tally'[b] = Tally[b]
    BY <1>1, <1>2, <1>3, <1>4, GivenBack
  <1> QED
    BY <1>1, <1>5, BackYields

\* An answer that adds its entries has no push under way.
Widens(b) == call[b].pc # "push" /\ call'[b].pc = "store"

LEMMA DecidesEntries ==
    ASSUME VerdictsAssumption, Inv, SentInv, EntryInv, StaysSent, NEW a \in Asks, Decides(a)
    PROVE  EntryInv' /\ \A b \in Asks : Yields(b) \/ Widens(b)
  <1>1. CASE Once(a) \/ RuleSaved(a)
    <2>1. call'[a].pc = "store"
      BY <1>1, WidenMoves DEF Once, RuleSaved, Inv, Base
    <2>2. call[a].pc # "push"
      BY <1>1 DEF Once, RuleSaved, At
    <2> QED
      BY <1>1, <2>1, <2>2, WidenEntries DEF Widens
  <1> QED
    BY <1>1, DenyEntries, PlainEntries, SentEntries, FailEntries DEF Decides

LEMMA ChooseEntries ==
    ASSUME VerdictsAssumption, Inv, SentInv, EntryInv, StaysSent, NEW a \in Asks, NEW v \in Verdicts, Choose(a, v)
    PROVE  EntryInv' /\ \A b \in Asks : Yields(b)
  <1>1. UNCHANGED <<promised, once, allowed, epoch, restarts>> /\ call[a].pc = "none"
    BY DEF Choose, storeVars, Deciding
  <1>2. Tally[a] = Owed(promised[a], epoch)
    BY <1>1, CallNoEntries DEF Opened
  <1> DEFINE p == IF hist[a] = None THEN "saving" ELSE "weigh"
             c == [NoCall EXCEPT !.pc = p, !.verdict = v, !.epoch = epoch, !.seen = once]
  <1>3. call' = [call EXCEPT ![a] = c]
    BY DEF Choose
  <1> HIDE DEF p
  <1>4. GoodCall(c, epoch) /\ c.added = <<>>
    BY BlankCalls
  <1> HIDE DEF c
  <1> QED
    BY <1>1, <1>2, <1>3, <1>4, StaysWithout, YieldsSame

LEMMA SavingEntries ==
    ASSUME VerdictsAssumption, Inv, SentInv, EntryInv, StaysSent, NEW i \in DOMAIN saves, Saving(i)
    PROVE  EntryInv' /\ \A b \in Asks : Yields(b)
  <1> SUFFICES ASSUME NEW a, a = saves[i].for
               PROVE  EntryInv' /\ \A b \in Asks : Yields(b)
    OBVIOUS
  <1>1. UNCHANGED <<promised, once, allowed, epoch, restarts>>
    BY DEF Saving, SaveLands, SaveFails, storeVars, bounds
  <1>2. a \in Asks \cup {"nobody"}
    <2>1. saves[i] \in SaveRecs
      BY DEF Inv, Base, RowsShape
    <2> QED
      BY <2>1 DEF SaveRecs
  <1>3. CASE a \notin Asks
    <2>1. a = "nobody"
      BY <1>2, <1>3
    <2>2. call' = call
      BY <1>3, <2>1 DEF Saving, SaveLands, SaveFails, Continue
    <2> QED
      BY <1>1, <2>2, NoEntry, YieldsSame
  <1>4. CASE a \in Asks
    <2>1. call[a].pc \in Waiting /\ a # "nobody"
      BY <1>4 DEF Inv, Base, SavesInv, VerdictsAssumption
    <2>2. Continue(a) \/ (call[a].pc = "saving" /\ call' = [call EXCEPT ![a] = NoCall])
      BY <1>4 DEF Saving, SaveLands, SaveFails
    <2>3. CASE call' = [call EXCEPT ![a] = NoCall] /\ call[a].pc \in {"saving", "closing"}
      <3>1. Tally[a] = Owed(promised[a], epoch)
        <4>1. CASE call[a].pc = "saving"
          BY <1>4, <4>1, CallNoEntries DEF Opened
        <4>2. CASE call[a].pc = "closing"
          <5>1. GoodCall(call[a], epoch) /\ promised[a] \in Promises
            BY <1>4 DEF EntryInv, CallInv, PromiseInv
          <5> QED
            BY <1>4, <4>2, <5>1, TallyOfType, TallyIs
        <4> QED
          BY <2>3, <4>1, <4>2
      <3>2. NoCall.added = <<>> /\ GoodCall(NoCall, epoch)
        BY BlankCalls
      <3> QED
        BY <1>1, <1>4, <2>3, <3>1, <3>2, StaysWithout, YieldsSame
    <2>4. CASE Continue(a) /\ call[a].pc # "closing"
      <3> DEFINE p == Following[call[a].pc]
      <3>1. /\ p \in {"weigh", "check"} /\ (call[a].pc \in Opened => p = "check")
        BY <2>1, <2>4 DEF Following, Waiting, Opened
      <3>2. p \in Pcs /\ p # "closing" /\ (call[a].pc \in Opened => p \in Opened)
        BY <3>1 DEF Pcs, Opened
      <3>3. Goto(a, p)
        BY <2>1, <2>4 DEF Continue, Goto
      <3> HIDE DEF p
      <3>4. EntryInv' /\ Tally' = Tally
        BY <1>1, <1>4, <2>4, <3>2, <3>3, GoesOn
      <3> QED
        BY <1>1, <3>4, YieldsSame
    <2>5. Continue(a) /\ call[a].pc = "closing" => call' = [call EXCEPT ![a] = NoCall]
      BY <2>1 DEF Continue
    <2> QED
      BY <2>2, <2>3, <2>4, <2>5
  <1> QED
    BY <1>3, <1>4

\* The holder of the lock, when it is an answer.
LEMMA HolderIs ==
    ASSUME Inv, job.pc # "idle", Head(queue) # "regular"
    PROVE  Head(queue) \in Asks /\ call[Head(queue)].pc = "push"
  <1> DEFINE h == Head(queue)
  <1>1. queue \in Seq(Asks \cup {"regular"}) /\ IsInjective(queue) /\ queue # <<>>
    BY DEF Inv, QueueInv
  <1>2. h \in ToSet(queue) /\ h \in Asks \cup {"regular"}
    BY <1>1, Leaves
  <1> HIDE DEF h
  <1>3. h \in Asks => call[h].pc = "push"
    BY <1>2 DEF Inv, QueueInv
  <1> QED
    BY <1>2, <1>3 DEF h

LEMMA PushEndsEntries ==
    ASSUME VerdictsAssumption, Inv, SentInv, EntryInv, StaysSent, NEW ok \in BOOLEAN, PushEnds(ok), job.pc # "idle"
    PROVE  EntryInv' /\ \A b \in Asks : Yields(b)
  <1> DEFINE h == Head(queue)
  <1>1. UNCHANGED <<promised, allowed, epoch, restarts>>
    BY DEF PushEnds, bounds
  <1>2. CASE h = "regular"
    <2>1. UNCHANGED <<call, once>>
      BY <1>2 DEF PushEnds
    <2> QED
      BY <1>1, <2>1, NoEntry, YieldsSame
  <1>3. CASE h # "regular"
    <2>1. h \in Asks /\ call[h].pc = "push"
      BY <1>3, HolderIs
    <2>2. /\ ok => call' = [call EXCEPT ![h] = [@ EXCEPT !.pc = "outcome"]] /\ UNCHANGED once
          /\ ~ok => call' = [call EXCEPT ![h] = Denied] /\ GiveBack(h)
      BY <1>3 DEF PushEnds
    <2> HIDE DEF h
    <2>3. CASE ok
      <3>1. Goto(h, "outcome") /\ once' = once
        BY <2>2, <2>3 DEF Goto
      <3>2. "outcome" \in Pcs /\ "outcome" # "closing" /\ "outcome" \in Opened /\ call[h].pc # "closing"
        BY <2>1 DEF Pcs, Opened
      <3>3. EntryInv' /\ Tally' = Tally
        BY <1>1, <2>1, <3>1, <3>2, GoesOn
      <3> QED
        BY <1>1, <3>3, YieldsSame
    <2>4. CASE ~ok
      <3>1. Owed(promised[h], epoch) = <<>>
        BY <2>1, Unpaid DEF EntryInv, Calm
      <3>2. Denied.added = <<>> /\ GoodCall(Denied, epoch)
        BY BlankCalls
      <3>3. call[h].pc # "closing"
        BY <2>1
      <3>4. EntryInv' /\ Tally'[h] = <<>> /\ \A b \in Asks \ {h} : Tally'[b] = Tally[b]
        BY <1>1, <2>1, <2>2, <2>4, <3>1, <3>2, <3>3, GivenBack
      <3> QED
        BY <1>1, <2>1, <3>4, BackYields
    <2> QED
      BY <2>3, <2>4
  <1> QED
    BY <1>2, <1>3

LEMMA PushesEntries ==
    ASSUME VerdictsAssumption, Inv, SentInv, EntryInv, StaysSent, Pushes
    PROVE  EntryInv' /\ \A b \in Asks : Yields(b)
  <1>1. CASE RunPush \/ TakeLock \/ MustChange \/ Stale
    <2>1. UNCHANGED <<call, promised, once, allowed, epoch, restarts>>
      BY <1>1 DEF RunPush, TakeLock, MustChange, Stale, storeVars, bounds
    <2> QED
      BY <2>1, NoEntry, YieldsSame
  <1>2. CASE AlreadyRight \/ Updated \/ Unconfirmed \/ PushFails
    <2>1. PICK ok \in BOOLEAN : PushEnds(ok) /\ job.pc # "idle"
      <3>1. CASE AlreadyRight
        BY <3>1 DEF AlreadyRight
      <3>2. CASE Updated
        BY <3>2 DEF Updated
      <3>3. CASE Unconfirmed
        BY <3>3 DEF Unconfirmed
      <3>4. CASE PushFails
        BY <3>4 DEF PushFails
      <3> QED
        BY <1>2, <3>1, <3>2, <3>3, <3>4
    <2> QED
      BY <2>1, PushEndsEntries
  <1> QED
    BY <1>1, <1>2 DEF Pushes

\* The windows end: nothing is open, and nothing is owed.
LEMMA WindowsEndEntries ==
    ASSUME VerdictsAssumption, Inv, EntryInv, WindowsEnd
    PROVE  EntryInv' /\ \A b \in Asks : Yields(b)
  <1>1. /\ epoch' = epoch + 1 /\ once' = <<>> /\ epoch \in Nat
        /\ UNCHANGED <<call, promised, hist, allowed, restarts>>
    BY DEF WindowsEnd, savedVars, EntryInv, CallInv
  <1>2. StoreInv'
    BY <1>1 DEF EntryInv, StoreInv
  <1>3. CallInv'
    BY <1>1 DEF EntryInv, CallInv, GoodCall
  <1>4. PromiseInv'
    BY <1>1 DEF EntryInv, PromiseInv, Promises
  <1>5. ASSUME NEW b \in Asks PROVE Tally'[b] = <<>>
    <2>1. call[b].epoch \in Nat /\ call[b].epoch <= epoch /\ GoodCall(call[b], epoch')
      BY <1>1, <1>3 DEF EntryInv, CallInv, GoodCall
    <2>2. promised[b] \in Promises /\ promised[b].epoch \in Nat /\ promised[b].epoch <= epoch
      BY DEF EntryInv, PromiseInv, Promises
    <2>3. call[b].epoch # epoch' /\ Owed(promised[b], epoch') = <<>>
      BY <1>1, <2>1, <2>2 DEF Owed
    <2>4. TallyOf(call[b], promised[b], epoch') = <<>>
      BY <2>1, <2>2, <2>3, TallyOfType
    <2> QED
      BY <1>1, <2>4, TallyAfter
  <1>6. \A k \in Kinds : Cardinality(Places(Tally', Asks, k)) = 0
    BY <1>5, PlacesNone
  <1>7. Accounts(once', Tally', restarts')
    BY <1>1, <1>6, OccursNone DEF Accounts
  <1>8. \A b \in Asks : Yields(b)
    <2>1. ToSet(<<>>) = {}
      BY DEF ToSet
    <2> QED
      BY <1>1, <1>5, <2>1 DEF Yields
  <1> QED
    BY <1>2, <1>3, <1>4, <1>7, <1>8, TallyAfter DEF EntryInv

\* Nothing is owed for what was opened before a restart.
LEMMA BlankEntries ==
    ASSUME CallInv', PromiseInv', \A b \in Asks : call'[b] = NoCall /\ promised'[b] = NoPromise
    PROVE  \A b \in Asks : Tally'[b] = <<>>
  <1>1. NoCall.added = <<>> /\ NoPromise.added = <<>>
    BY DEF NoCall, NoPromise
  <1>2. Owed(NoPromise, epoch') = <<>>
    BY <1>1 DEF Owed
  <1>3. ASSUME NEW b \in Asks PROVE Tally'[b] = <<>>
    <2>1. GoodCall(NoCall, epoch') /\ NoPromise \in Promises
      BY DEF CallInv, PromiseInv
    <2>2. TallyOf(NoCall, NoPromise, epoch') = <<>>
      BY <1>1, <1>2, <2>1, TallyOfType
    <2> QED
      BY <2>2, TallyAfter
  <1> QED
    BY <1>3

LEMMA RestartEntries ==
    ASSUME VerdictsAssumption, Inv, EntryInv, Restart
    PROVE  EntryInv'
  <1>1. /\ call' = [a \in Asks |-> NoCall] /\ promised' = [a \in Asks |-> NoPromise]
        /\ restarts' = restarts + 1 /\ UNCHANGED <<allowed, epoch>>
    BY DEF Restart
  <1>2. once' \in Seq(Kinds)
    <2>1. PICK n \in 0..Len(once) : once' = SubSeq(once, 1, n)
      BY DEF Restart
    <2>2. once \in Seq(Kinds)
      BY DEF EntryInv, StoreInv
    <2> QED
      BY <2>1, <2>2
  <1>3. StoreInv'
    BY <1>1, <1>2 DEF EntryInv, StoreInv
  <1>4. CallInv'
    <2>1. GoodCall(NoCall, epoch) /\ epoch \in Nat
      BY BlankCalls DEF EntryInv, CallInv
    <2> QED
      BY <1>1, <2>1 DEF CallInv
  <1>5. PromiseInv'
    <2>1. NoPromise \in Promises /\ NoPromise.added = <<>> /\ NoPromise.epoch = 0 /\ ~NoPromise.rule
      BY DEF NoPromise, Promises
    <2>2. 0 <= epoch
      BY DEF EntryInv, CallInv
    <2> QED
      BY <1>1, <2>1, <2>2 DEF PromiseInv
  <1>6. \A b \in Asks : Tally'[b] = <<>>
    BY <1>1, <1>4, <1>5, BlankEntries
  <1>7. \A k \in Kinds : Cardinality(Places(Tally', Asks, k)) = 0
    BY <1>6, PlacesNone
  <1>8. restarts' # 0
    BY <1>1 DEF Inv, Base, InboxShape
  <1>9. \A k \in Kinds : Occurrences(once', k) \in Nat
    BY <1>2, SpotsFinite
  <1>10. Accounts(once', Tally', restarts')
    BY <1>7, <1>8, <1>9 DEF Accounts
  <1> QED
    BY <1>3, <1>4, <1>5, <1>10, TallyAfter DEF EntryInv

LEMMA InitEntries ==
    ASSUME VerdictsAssumption, Init
    PROVE  EntryInv
  <1>1. /\ \A a \in Asks : call[a] = NoCall /\ promised[a] = NoPromise /\ hist[a] = None
        /\ promised = [a \in Asks |-> NoPromise]
        /\ once = <<>> /\ allowed = Allowed /\ epoch = 0
    BY DEF Init
  <1>2. StoreInv
    BY <1>1 DEF StoreInv, VerdictsAssumption
  <1>3. GoodCall(NoCall, 0)
    <2>1. <<>> \in Seq(Kinds) /\ Len(<<>>) <= 2
      OBVIOUS
    <2> QED
      BY <2>1 DEF GoodCall, NoCall
  <1>4. CallInv
    BY <1>1, <1>3 DEF CallInv
  <1>5. NoPromise \in Promises /\ NoPromise.added = <<>> /\ NoPromise.epoch = 0 /\ ~NoPromise.rule
    BY DEF NoPromise, Promises
  <1>6. PromiseInv
    BY <1>1, <1>5 DEF PromiseInv
  <1>7. ASSUME NEW a \in Asks PROVE Tally[a] = <<>>
    <2>1. Owed(NoPromise, 0) = <<>> /\ NoCall.added = <<>>
      BY <1>5 DEF Owed, NoCall
    <2>2. TallyOf(NoCall, NoPromise, 0) = <<>>
      BY <1>3, <1>5, <2>1, TallyOfType
    <2> QED
      BY <1>1, <2>2, TallyIs
  <1>8. \A k \in Kinds : Cardinality(Places(Tally, Asks, k)) = 0
    BY <1>7, PlacesNone
  <1>9. Accounts(once, Tally, restarts)
    BY <1>1, <1>8, OccursNone DEF Accounts
  <1> QED
    BY <1>2, <1>4, <1>6, <1>9, TallyIs DEF EntryInv

\* Only a restart starts another page.
LEMMA StillHere ==
    ASSUME [Next]_vars, ~Restart, ~WindowsEnd
    PROVE  restarts' = restarts
  <1>1. \A a \in Asks : Decides(a) => restarts' = restarts
    BY DEF Decides, Deny, Refuse, Once, Always, RuleSaved, GiveUp, AskForLock, Record, Overtaken,
           Unanswered, Publish, Sent, NotSent, bounds
  <1>2. \A a \in Asks : AskArrives(a) \/ AskExpires(a) \/ ChooseAnswered(a) => restarts' = restarts
    BY DEF AskArrives, AskExpires, ChooseAnswered, bounds
  <1>3. \A v : \A a \in Asks : ReplyArrives(a, v) \/ Choose(a, v) \/ OtherAnswers(a, v) => restarts' = restarts
    BY DEF ReplyArrives, Choose, OtherAnswers, bounds
  <1>4. \A i \in DOMAIN saves : Saving(i) => restarts' = restarts
    BY DEF Saving, SaveLands, SaveFails, bounds
  <1>5. Pushes \/ (\E c \in Foreign : OtherWrites(c)) \/ UNCHANGED vars => restarts' = restarts
    BY DEF Pushes, RunPush, TakeLock, AlreadyRight, MustChange, Updated, Unconfirmed, PushFails, Stale,
           PushEnds, OtherWrites, bounds, vars
  <1> QED
    BY <1>1, <1>2, <1>3, <1>4, <1>5 DEF Next

LEMMA NextEntries ==
    ASSUME VerdictsAssumption, Inv, SentInv, EntryInv, [Next]_vars
    PROVE  /\ EntryInv'
           /\ Restart \/ \A b \in Asks : Yields(b) \/ Widens(b)
  <1>1. CASE Restart
    BY <1>1, RestartEntries
  <1>2. CASE WindowsEnd
    BY <1>2, WindowsEndEntries
  <1>3. CASE ~Restart /\ ~WindowsEnd
    <2>1. StaysSent
      <3>1. restarts' = restarts
        BY <1>3, StillHere
      <3>2. Final
        BY <3>1, NextSent
      <3> QED
        BY <3>2 DEF Final, Settled, StaysSent
    <2>2. ASSUME NEW a \in Asks, Decides(a)
          PROVE  EntryInv' /\ \A b \in Asks : Yields(b) \/ Widens(b)
      BY <2>1, <2>2, DecidesEntries
    <2>3. ASSUME NEW a \in Asks, NEW v \in Answers[a], Choose(a, v)
          PROVE  EntryInv' /\ \A b \in Asks : Yields(b)
      <3>1. v \in Verdicts
        BY DEF VerdictsAssumption, Verdicts
      <3> QED
        BY <2>1, <2>3, <3>1, ChooseEntries
    <2>4. ASSUME NEW i \in DOMAIN saves, Saving(i)
          PROVE  EntryInv' /\ \A b \in Asks : Yields(b)
      BY <2>1, <2>4, SavingEntries
    <2>5. CASE Pushes
      BY <2>1, <2>5, PushesEntries
    <2>6. CASE \/ \E a \in Asks : \/ AskArrives(a) \/ AskExpires(a) \/ ChooseAnswered(a)
                                  \/ \E v \in Verdicts : ReplyArrives(a, v)
                                  \/ \E v \in OthersSay : OtherAnswers(a, v)
               \/ \E c \in Foreign : OtherWrites(c)
               \/ UNCHANGED vars
      <3>1. UNCHANGED <<call, promised, once, allowed, epoch, restarts>>
        BY <2>6 DEF AskArrives, AskExpires, ChooseAnswered, ReplyArrives, OtherAnswers, OtherWrites, vars,
                    storeVars, bounds
      <3> QED
        BY <2>1, <3>1, NoEntry, YieldsSame
    <2> QED
      BY <1>3, <2>2, <2>3, <2>4, <2>5, <2>6 DEF Next
  <1> QED
    BY <1>1, <1>2, <1>3

(* The open approved-once entries are, kind by kind, those of the answers   *)
(* on their way and of the verdicts that were confirmed, however failures,  *)
(* concurrent answers and the ends of windows interleave: none loses its    *)
(* entry to another, and until a first restart nothing else is open.        *)
THEOREM OnceAccountedHolds == Spec => []OnceAccounted
  <1>1. Init => SentInv /\ EntryInv
    <2>1. Init => SentInv
      BY DEF Init, SentInv, None, NoCall
    <2> QED
      BY <2>1, VerdictsAssumption, InitEntries
  <1>2. Inv /\ SentInv /\ EntryInv /\ [Next]_vars => SentInv' /\ EntryInv'
    BY VerdictsAssumption, NextSent, NextEntries
  <1>3. EntryInv => OnceAccounted
    BY DEF EntryInv
  <1> QED
    BY <1>1, <1>2, <1>3, Invariance, PTL DEF Spec

-----------------------------------------------------------------------------
(* What the device lists.                                                  *)

LEMMA KindsFinite == ASSUME VerdictsAssumption PROVE IsFiniteSet(Kinds)
  <1> DEFINE A == {KindOf[a] : a \in Asks}
             f == [a \in Asks |-> KindOf[a]]
             g == [i \in 1..Len(Allowed) |-> Allowed[i]]
  <1>1. IsFiniteSet(Asks) /\ Len(Allowed) \in Nat /\ DOMAIN Allowed = 1..Len(Allowed)
    BY DEF VerdictsAssumption
  <1>2. f \in Surjection(Asks, A)
    BY DEF Surjection
  <1>3. IsFiniteSet(A)
    BY <1>1, <1>2, FS_Surjection
  <1>4. g \in Surjection(1..Len(Allowed), ToSet(Allowed))
    BY <1>1 DEF Surjection, ToSet
  <1>5. IsFiniteSet(1..Len(Allowed))
    BY <1>1, FS_Interval
  <1>6. IsFiniteSet(ToSet(Allowed))
    BY <1>4, <1>5, FS_Surjection
  <1>7. IsFiniteSet({Seal})
    BY FS_Singleton
  <1> HIDE DEF A
  <1>8. IsFiniteSet(A \cup {Seal})
    BY <1>3, <1>7, FS_Union
  <1>9. IsFiniteSet((A \cup {Seal}) \cup ToSet(Allowed))
    BY <1>6, <1>8, FS_Union
  <1> QED
    BY <1>9 DEF Kinds, A

LEMMA ToSetJoined ==
    ASSUME NEW S, NEW s \in Seq(S), NEW t \in Seq(S)
    PROVE  ToSet(s \o t) = ToSet(s) \cup ToSet(t) /\ s \o t \in Seq(S)
  <1> DEFINE u == s \o t
  <1>1. /\ u \in Seq(S) /\ DOMAIN u = 1..Len(s) + Len(t) /\ DOMAIN s = 1..Len(s) /\ DOMAIN t = 1..Len(t)
        /\ Len(s) \in Nat /\ Len(t) \in Nat
        /\ \A i \in 1..Len(s) : u[i] = s[i]
        /\ \A i \in 1..Len(t) : u[Len(s) + i] = t[i]
    OBVIOUS
  <1> HIDE DEF u
  <1>2. ASSUME NEW i \in DOMAIN u PROVE u[i] \in ToSet(s) \cup ToSet(t)
    <2>1. CASE i <= Len(s)
      BY <1>1, <2>1 DEF ToSet
    <2>2. CASE ~(i <= Len(s))
      <3>1. i - Len(s) \in 1..Len(t) /\ Len(s) + (i - Len(s)) = i
        BY <1>1, <2>2
      <3>2. u[i] = t[i - Len(s)]
        BY <1>1, <3>1
      <3> QED
        BY <1>1, <3>1, <3>2 DEF ToSet
    <2> QED
      BY <2>1, <2>2
  <1>3. ASSUME NEW i \in DOMAIN s PROVE s[i] \in ToSet(u)
    <2>1. i \in DOMAIN u /\ u[i] = s[i]
      BY <1>1
    <2> QED
      BY <2>1 DEF ToSet
  <1>4. ASSUME NEW i \in DOMAIN t PROVE t[i] \in ToSet(u)
    <2>1. Len(s) + i \in DOMAIN u /\ u[Len(s) + i] = t[i]
      BY <1>1
    <2> QED
      BY <2>1 DEF ToSet
  <1> QED
    BY <1>1, <1>2, <1>3, <1>4 DEF ToSet, u

\* A ceiling with room left has left nothing out.
Room(x) == Cardinality(x) < CeilingMax
LEMMA ListedAll ==
    ASSUME VerdictsAssumption, NEW s \in Seq(Kinds)
    PROVE  Listed(s) \in SUBSET Kinds /\ (Room(Listed(s)) => Listed(s) = ToSet(s))
  <1> DEFINE pre(j) == {s[x] : x \in 1..j}
             n == Len(s)
             fits(j) == Cardinality(pre(j)) <= CeilingMax
             I == {j \in 1..n : fits(j)}
             J == (1..n) \ I
  <1>1. /\ DOMAIN s = 1..n /\ n \in Nat /\ CeilingMax \in Nat /\ IsFiniteSet(Kinds)
        /\ \A x \in 1..n : s[x] \in Kinds
    BY KindsFinite DEF VerdictsAssumption
  <1>2. Listed(s) = {s[i] : i \in I}
    BY <1>1 DEF Listed
  <1> HIDE DEF fits
  <1>3. I \subseteq 1..n /\ \A j \in 1..n : j \in I <=> fits(j)
    OBVIOUS
  <1> HIDE DEF I
  <1>4. Listed(s) \subseteq Kinds
    BY <1>1, <1>2, <1>3
  <1>5. ASSUME NEW j \in 0..n PROVE IsFiniteSet(pre(j)) /\ Cardinality(pre(j)) \in Nat
    <2>1. \A x \in 1..j : x \in 1..n
      BY <1>1
    <2>2. pre(j) \subseteq Kinds
      BY <1>1, <2>1
    <2> HIDE DEF pre
    <2> QED
      BY <1>1, <2>2, FS_Subset, FS_CardinalityType
  <1>6. CASE J = {}
    <2>1. I = 1..n
      BY <1>3, <1>6
    <2> QED
      BY <1>1, <1>2, <1>4, <2>1 DEF ToSet
  <1>7. CASE J # {}
    <2>1. J \in SUBSET Nat
      BY <1>1
    <2> HIDE DEF J
    <2>2. PICK j \in J : \A m \in J : j <= m
      BY <1>7, <2>1, LeastNumber
    <2>3. j \in 1..n /\ ~fits(j) /\ j - 1 \in 0..n
      BY <1>1, <1>3, <2>2 DEF J
    <2>4. pre(j) = pre(j - 1) \cup {s[j]}
      BY <1>1, <2>3
    <2>5. ASSUME NEW m \in 1..j - 1 PROVE m \in I
      <3>1. m \in 1..n /\ ~(j <= m)
        BY <1>1, <2>3
      <3> QED
        BY <2>2, <3>1 DEF J
    <2>6. pre(j - 1) \subseteq Listed(s)
      <3>1. \A m \in 1..j - 1 : s[m] \in Listed(s)
        BY <1>2, <2>5
      <3> QED
        BY <3>1
    <2> HIDE DEF pre
    <2>7. IsFiniteSet(pre(j - 1)) /\ Cardinality(pre(j - 1)) \in Nat /\ Cardinality(pre(j)) \in Nat
      <3>1. j \in 0..n
        BY <1>1, <2>3
      <3> QED
        BY <1>5, <2>3, <3>1
    <2>8. Cardinality(pre(j)) <= Cardinality(pre(j - 1)) + 1
      <3> DEFINE y == s[j]
                 P == pre(j - 1)
      <3>1. IsFiniteSet(P) /\ Cardinality(P) \in Nat
        BY <2>7
      <3> HIDE DEF y, P
      <3>2. Cardinality(P \cup {y}) = IF y \in P THEN Cardinality(P) ELSE Cardinality(P) + 1
        BY <3>1, FS_AddElement
      <3> QED
        BY <2>4, <3>1, <3>2 DEF y, P
    <2>9. IsFiniteSet(Listed(s)) /\ Cardinality(Listed(s)) \in Nat
      BY <1>1, <1>4, FS_Subset, FS_CardinalityType
    <2>10. Cardinality(pre(j - 1)) <= Cardinality(Listed(s))
      BY <2>6, <2>9, FS_Subset
    <2>11. ~Room(Listed(s))
      BY <1>1, <2>3, <2>7, <2>8, <2>9, <2>10 DEF Room, fits
    <2> QED
      BY <1>4, <2>11
  <1> QED
    BY <1>4, <1>6, <1>7

\* What an answer rests on, and the answers whose own push is over.
Rests(a) == ToSet(Tally[a]) \cup (IF promised[a].rule THEN {KindOf[a]} ELSE {})
Past == {a \in Asks : call[a].pc \notin {"store", "push"}}

LEMMA RestsOpen ==
    ASSUME VerdictsAssumption, EntryInv, NEW a \in Asks
    PROVE  Rests(a) \subseteq ToSet(once \o allowed)
  <1>1. once \in Seq(Kinds) /\ allowed \in Seq(Kinds) /\ Tally[a] \in Seq(Kinds)
    BY TallyType DEF EntryInv, StoreInv
  <1>2. ASSUME NEW k \in ToSet(Tally[a]) PROVE k \in ToSet(once)
    <2>1. k \in Kinds
      BY <1>1 DEF ToSet
    <2>2. Occurrences(Tally[a], k) > 0
      BY <1>1, OccursSome
    <2>3. Occurrences(once, k) >= Occurrences(Tally[a], k)
      BY <2>1, Covered
    <2>4. Occurrences(once, k) \in Nat /\ Occurrences(Tally[a], k) \in Nat
      BY <1>1, SpotsFinite
    <2>5. Occurrences(once, k) > 0
      BY <2>2, <2>3, <2>4
    <2> QED
      BY <1>1, <2>5, OccursSome
  <1>3. promised[a].rule => KindOf[a] \in ToSet(allowed)
    BY DEF EntryInv, PromiseInv
  <1>4. ToSet(once \o allowed) = ToSet(once) \cup ToSet(allowed)
    BY <1>1, ToSetJoined
  <1> QED
    BY <1>2, <1>3, <1>4 DEF Rests

(* The device lists what rests on it for every answer whose push is over,   *)
(* after a push that was confirmed; and a push under way is about to list   *)
(* it, also for the answer that waits for it.                               *)
CoverInv ==
    /\ ceiling \in SUBSET Kinds /\ job.want \in SUBSET Kinds
    /\ agreed /\ Room(ceiling) => \A a \in Past : Rests(a) \subseteq ceiling
    /\ job.pc # "idle" /\ Room(job.want) =>
          \A a \in Past \cup ({Head(queue)} \cap Asks) : Rests(a) \subseteq job.want

LEMMA RestsLess ==
    ASSUME NEW b, Yields(b)
    PROVE  Rests(b)' \subseteq Rests(b)
  BY DEF Yields, Rests

\* No answer's push is over that was not.
SamePast == \A b \in Asks : call'[b].pc \notin {"store", "push"} => call[b].pc \notin {"store", "push"}

\* Whatever is neither a push that ends nor one that starts.
LEMMA CoverStays ==
    ASSUME VerdictsAssumption, Inv, CoverInv, SamePast, \A b \in Asks : Yields(b) \/ Widens(b),
           ceiling' \in SUBSET Kinds, agreed' => agreed /\ ceiling' = ceiling,
           job'.want = job.want \/ job'.want = {},
           job'.pc # "idle" => job.pc # "idle" /\ job'.want = job.want /\ Head(queue') = Head(queue)
    PROVE  CoverInv'
  <1>1. \A b \in Asks : b \in Past' => b \in Past /\ Yields(b)
    BY DEF SamePast, Past, Widens
  <1>2. ASSUME agreed', Room(ceiling') PROVE \A b \in Past' : Rests(b)' \subseteq ceiling'
    <2>1. ASSUME NEW b \in Past' PROVE Rests(b)' \subseteq ceiling'
      <3>1. b \in Asks
        BY DEF Past
      <3>2. b \in Past /\ Yields(b)
        BY <1>1, <3>1
      <3>3. Rests(b) \subseteq ceiling
        BY <1>2, <3>2 DEF CoverInv
      <3> QED
        BY <1>2, <3>2, <3>3, RestsLess
    <2> QED
      BY <2>1
  <1>3. ASSUME job'.pc # "idle", Room(job'.want)
        PROVE  \A b \in Past' \cup ({Head(queue')} \cap Asks) : Rests(b)' \subseteq job'.want
    <2>1. ASSUME NEW b \in Past' \cup ({Head(queue')} \cap Asks) PROVE Rests(b)' \subseteq job'.want
      <3>1. b \in Asks
        BY DEF Past
      <3>2. b \in Past \cup ({Head(queue)} \cap Asks) /\ Yields(b)
        <4>1. CASE b \in Past'
          BY <1>1, <3>1, <4>1
        <4>2. CASE b = Head(queue)
          <5>1. b # "regular"
            BY <3>1 DEF VerdictsAssumption
          <5>2. call[b].pc = "push"
            BY <1>3, <4>2, <5>1, HolderIs
          <5> QED
            BY <3>1, <4>2, <5>2 DEF Widens
        <4> QED
          BY <1>3, <4>1, <4>2
      <3>3. Rests(b) \subseteq job.want
        BY <1>3, <3>2 DEF CoverInv
      <3> QED
        BY <1>3, <3>2, <3>3, RestsLess
    <2> QED
      BY <2>1
  <1> QED
    BY <1>2, <1>3 DEF CoverInv

LEMMA DecidesPast ==
    ASSUME Inv, NEW a \in Asks, Decides(a)
    PROVE  SamePast
  <1>1. \E c : call' = [call EXCEPT ![a] = c]
    BY DEF Decides, Deny, Refuse, Once, Always, RuleSaved, GiveUp, AskForLock, Record, Overtaken,
           Unanswered, Publish, Sent, NotSent, Goto, Widen
  <1>2. \A b \in Asks \ {a} : call'[b] = call[b]
    BY <1>1, CallOf DEF Inv, Base
  <1>3. CASE AskForLock(a)
    <2>1. Goto(a, "push") /\ "push" \in Pcs
      BY <1>3 DEF AskForLock, Pcs
    <2>2. call'[a].pc = "push"
      BY <2>1, GotoOf DEF Inv, Base
    <2> QED
      BY <1>2, <2>2 DEF SamePast
  <1>4. CASE ~AskForLock(a)
    <2>1. call[a].pc \notin {"store", "push"}
      BY <1>4 DEF Decides, Deny, Refuse, Once, Always, RuleSaved, GiveUp, Record, Overtaken,
                  Unanswered, Publish, Sent, NotSent, At
    <2> QED
      BY <1>2, <2>1 DEF SamePast
  <1> QED
    BY <1>3, <1>4

\* The part of a step that is the lock's and the device's.
SameLock == UNCHANGED <<ceiling, agreed, job>> /\ (job.pc # "idle" => Head(queue') = Head(queue))
LEMMA CoverKept ==
    ASSUME VerdictsAssumption, Inv, CoverInv, SamePast, SameLock, \A b \in Asks : Yields(b) \/ Widens(b)
    PROVE  CoverInv'
  <1>1. ceiling' \in SUBSET Kinds /\ job' = job
    BY DEF SameLock, CoverInv
  <1> QED
    BY <1>1, CoverStays DEF SameLock

LEMMA DecidesCover ==
    ASSUME VerdictsAssumption, Inv, CoverInv, NEW a \in Asks, Decides(a), \A b \in Asks : Yields(b) \/ Widens(b)
    PROVE  CoverInv'
  <1>1. SamePast
    BY DecidesPast
  <1>2. UNCHANGED <<ceiling, agreed, job>>
    BY DEF Decides, Deny, Refuse, Once, Always, RuleSaved, GiveUp, AskForLock, Record, Overtaken,
           Unanswered, Publish, Sent, NotSent, lockVars, deviceVars
  <1>3. job.pc # "idle" => Head(queue') = Head(queue)
    <2>1. CASE AskForLock(a)
      <3>1. queue' = Append(queue, a) /\ queue \in Seq(Asks \cup {"regular"})
        BY <2>1 DEF AskForLock, Inv, QueueInv
      <3>2. job.pc # "idle" => queue # <<>>
        BY DEF Inv, QueueInv
      <3> QED
        BY <3>1, <3>2
    <2>2. CASE ~AskForLock(a)
      BY <2>2 DEF Decides, Deny, Refuse, Once, Always, RuleSaved, GiveUp, Record, Overtaken,
                  Unanswered, Publish, Sent, NotSent, lockVars
    <2> QED
      BY <2>1, <2>2
  <1> QED
    BY <1>1, <1>2, <1>3, CoverKept DEF SameLock

LEMMA ElsewhereCover ==
    ASSUME VerdictsAssumption, Inv, CoverInv, \A b \in Asks : Yields(b) \/ Widens(b),
           \/ \E a \in Asks : \/ AskArrives(a) \/ AskExpires(a) \/ ChooseAnswered(a)
                              \/ \E v \in Verdicts : ReplyArrives(a, v) \/ OtherAnswers(a, v) \/ Choose(a, v)
           \/ \E i \in DOMAIN saves : Saving(i)
           \/ WindowsEnd \/ UNCHANGED vars
    PROVE  CoverInv'
  <1>1. SameLock
    BY DEF AskArrives, AskExpires, ChooseAnswered, ReplyArrives, OtherAnswers, Choose, Saving, SaveLands, SaveFails,
           WindowsEnd, vars, lockVars, deviceVars, SameLock
  <1>2. SamePast
    <2>1. ASSUME NEW a \in Asks, NEW v \in Verdicts, Choose(a, v) PROVE SamePast
      <3>1. \E c : call' = [call EXCEPT ![a] = c]
        BY <2>1 DEF Choose
      <3>2. \A b \in Asks \ {a} : call'[b] = call[b]
        BY <3>1, CallOf DEF Inv, Base
      <3>3. call[a].pc = "none"
        BY <2>1 DEF Choose, Deciding
      <3> QED
        BY <3>2, <3>3 DEF SamePast
    <2>2. ASSUME NEW i \in DOMAIN saves, Saving(i) PROVE SamePast
      <3> SUFFICES ASSUME NEW a, a = saves[i].for
                   PROVE  SamePast
        OBVIOUS
      <3>1. CASE a \in Asks
        <4>1. call[a].pc \in Waiting
          BY <3>1 DEF Inv, Base, SavesInv
        <4>2. \E c : call' = [call EXCEPT ![a] = c]
          <5>1. Continue(a) \/ call' = [call EXCEPT ![a] = NoCall]
            BY <2>2 DEF Saving, SaveLands, SaveFails
          <5>2. a # "nobody"
            BY <3>1 DEF VerdictsAssumption
          <5> QED
            BY <5>1, <5>2 DEF Continue
        <4>3. \A b \in Asks \ {a} : call'[b] = call[b]
          BY <3>1, <4>2, CallOf DEF Inv, Base
        <4> QED
          BY <4>1, <4>3 DEF SamePast, Waiting
      <3>2. CASE a \notin Asks
        <4>1. saves[i] \in SaveRecs
          BY DEF Inv, Base, RowsShape
        <4>2. a = "nobody"
          BY <3>2, <4>1 DEF SaveRecs
        <4>3. call' = call
          BY <2>2, <3>2, <4>2 DEF Saving, SaveLands, SaveFails, Continue
        <4> QED
          BY <4>3 DEF SamePast
      <3> QED
        BY <3>1, <3>2
    <2>3. CASE call' = call
      BY <2>3 DEF SamePast
    <2> QED
      BY <2>1, <2>2, <2>3 DEF AskArrives, AskExpires, ChooseAnswered, ReplyArrives, OtherAnswers, WindowsEnd, vars
  <1> QED
    BY <1>1, <1>2, CoverKept

\* Another manager writes: nothing is claimed of the device any more.
LEMMA OthersCover ==
    ASSUME VerdictsAssumption, Inv, CoverInv, \A b \in Asks : Yields(b) \/ Widens(b),
           NEW c \in Foreign, OtherWrites(c)
    PROVE  CoverInv'
  <1>1. UNCHANGED <<call, queue, job>> /\ ~agreed' /\ ceiling' = c
    BY DEF OtherWrites, lockVars
  <1>2. c \in SUBSET Kinds
    BY DEF VerdictsAssumption
  <1>3. SamePast
    BY <1>1 DEF SamePast
  <1> QED
    BY <1>1, <1>2, <1>3, CoverStays

\* A push that starts reads every entry and rule there is.
LEMMA TakeLockCover ==
    ASSUME VerdictsAssumption, Inv, EntryInv, CoverInv, \A b \in Asks : Yields(b) \/ Widens(b), TakeLock
    PROVE  CoverInv'
  <1>1. /\ UNCHANGED <<call, ceiling, agreed, queue>> /\ job'.want = Ceiling /\ job'.pc = "list"
    BY DEF TakeLock, deviceVars
  <1>2. once \o allowed \in Seq(Kinds)
    BY ToSetJoined DEF EntryInv, StoreInv
  <1>3. Ceiling \in SUBSET Kinds /\ (Room(Ceiling) => Ceiling = ToSet(once \o allowed))
    BY <1>2, ListedAll DEF Ceiling
  <1>4. \A b \in Asks : call'[b] = call[b] /\ (b \in Past' <=> b \in Past)
    BY <1>1 DEF Past
  <1>5. Past' = Past
    BY <1>1 DEF Past
  <1>6. \A b \in Asks : call'[b].pc # "store" => Rests(b)' \subseteq Rests(b)
    BY RestsLess DEF Widens
  <1>7. ASSUME agreed', Room(ceiling'), NEW b \in Past' PROVE Rests(b)' \subseteq ceiling'
    <2>1. b \in Past /\ b \in Asks /\ call'[b].pc # "store"
      BY <1>1, <1>5 DEF Past
    <2>2. Rests(b) \subseteq ceiling
      BY <1>1, <1>7, <2>1 DEF CoverInv
    <2> QED
      BY <1>1, <1>6, <2>1, <2>2
  <1>8. ASSUME Room(job'.want), NEW b \in Past' \cup ({Head(queue')} \cap Asks) PROVE Rests(b)' \subseteq job'.want
    <2>1. b \in Asks
      BY DEF Past
    <2>2. call'[b].pc # "store"
      <3>1. CASE b \in Past'
        BY <3>1 DEF Past
      <3>2. CASE b = Head(queue)
        <4>1. queue \in Seq(Asks \cup {"regular"}) /\ IsInjective(queue) /\ queue # <<>>
          BY DEF TakeLock, Inv, QueueInv
        <4>2. b \in ToSet(queue)
          BY <3>2, <4>1, Leaves
        <4>3. call[b].pc = "push"
          BY <2>1, <4>2 DEF Inv, QueueInv
        <4> QED
          BY <1>1, <4>3
      <3> QED
        BY <1>1, <1>8, <3>1, <3>2
    <2>3. Rests(b) \subseteq ToSet(once \o allowed)
      BY <2>1, RestsOpen
    <2> QED
      BY <1>1, <1>3, <1>6, <1>8, <2>1, <2>2, <2>3
  <1> QED
    BY <1>1, <1>3, <1>7, <1>8 DEF CoverInv

LEMMA PushesCover ==
    ASSUME VerdictsAssumption, Inv, EntryInv, CoverInv, \A b \in Asks : Yields(b) \/ Widens(b), Pushes
    PROVE  CoverInv'
  <1>1. CASE RunPush
    <2>1. UNCHANGED <<call, ceiling, agreed, job>>
      BY <1>1 DEF RunPush, deviceVars
    <2>2. job.pc # "idle" => Head(queue') = Head(queue)
      <3>1. queue' = queue \/ queue' = Append(queue, "regular")
        BY <1>1 DEF RunPush
      <3>2. queue \in Seq(Asks \cup {"regular"}) /\ (job.pc # "idle" => queue # <<>>)
        BY DEF Inv, QueueInv
      <3> QED
        BY <3>1, <3>2
    <2>3. SamePast /\ SameLock
      BY <2>1, <2>2 DEF SamePast, SameLock
    <2> QED
      BY <2>3, CoverKept
  <1>2. CASE TakeLock
    BY <1>2, TakeLockCover
  <1>3. CASE MustChange \/ Stale
    <2>1. UNCHANGED <<call, ceiling, agreed, queue>> /\ job'.want = job.want /\ job.pc # "idle"
      BY <1>3 DEF MustChange, Stale, deviceVars, Inv, QueueInv, IsJob
    <2>2. SamePast /\ ceiling' \in SUBSET Kinds
      BY <2>1 DEF SamePast, CoverInv
    <2> QED
      BY <2>1, <2>2, CoverStays
  <1>4. CASE AlreadyRight \/ Updated \/ Unconfirmed \/ PushFails
    <2>1. PICK ok \in BOOLEAN : /\ PushEnds(ok) /\ job.pc # "idle" /\ ceiling' \in {ceiling, job.want}
                                /\ ok => ceiling' = job.want
      <3>1. CASE AlreadyRight
        BY <3>1 DEF AlreadyRight
      <3>2. CASE Updated
        BY <3>2 DEF Updated
      <3>3. CASE Unconfirmed
        BY <3>3 DEF Unconfirmed
      <3>4. CASE PushFails
        BY <3>4 DEF PushFails
      <3> QED
        BY <1>4, <3>1, <3>2, <3>3, <3>4
    <2>2. agreed' = ok /\ job' = NoJob
      BY <2>1 DEF PushEnds
    <2>3. job'.pc = "idle" /\ job'.want = {}
      BY <2>2 DEF NoJob
    <2>4. ASSUME NEW b \in Past'
          PROVE  b \in Asks /\ b \in Past \cup ({Head(queue)} \cap Asks) /\ call'[b].pc # "store"
      <3>1. CASE Head(queue) = "regular"
        BY <2>1, <3>1 DEF PushEnds, Past
      <3>2. CASE Head(queue) # "regular"
        <4> DEFINE h == Head(queue)
        <4>1. h \in Asks
          BY <2>1, <3>2, HolderIs
        <4>2. \E c : call' = [call EXCEPT ![h] = c]
          BY <2>1, <3>2 DEF PushEnds
        <4> HIDE DEF h
        <4>3. \A d \in Asks \ {h} : call'[d] = call[d]
          BY <4>1, <4>2, CallOf DEF Inv, Base
        <4>4. b \in Past \cup ({h} \cap Asks)
          BY <4>1, <4>3 DEF Past
        <4> QED
          BY <4>4 DEF Past, h
      <3> QED
        BY <3>1, <3>2
    <2>5. ASSUME agreed', Room(ceiling'), NEW b \in Past' PROVE Rests(b)' \subseteq ceiling'
      <3>1. b \in Asks /\ b \in Past \cup ({Head(queue)} \cap Asks) /\ Yields(b)
        BY <2>4 DEF Widens
      <3>2. ceiling' = job.want /\ Room(job.want)
        BY <2>1, <2>2, <2>5
      <3>3. Rests(b) \subseteq job.want
        BY <2>1, <3>1, <3>2 DEF CoverInv
      <3> QED
        BY <3>1, <3>2, <3>3, RestsLess
    <2>6. ceiling' \in SUBSET Kinds
      BY <2>1 DEF CoverInv
    <2> QED
      BY <2>3, <2>5, <2>6 DEF CoverInv
  <1> QED
    BY <1>1, <1>2, <1>3, <1>4 DEF Pushes

LEMMA NextCover ==
    ASSUME VerdictsAssumption, Inv, SentInv, EntryInv, CoverInv, [Next]_vars
    PROVE  CoverInv'
  <1>1. CASE Restart
    <2>1. ~agreed' /\ job' = NoJob /\ ceiling' \in {ceiling, job.want}
      BY <1>1 DEF Restart
    <2>2. job'.pc = "idle" /\ job'.want = {}
      BY <2>1 DEF NoJob
    <2>3. ceiling' \in SUBSET Kinds
      BY <2>1 DEF CoverInv
    <2> QED
      BY <2>1, <2>2, <2>3 DEF CoverInv
  <1>2. CASE ~Restart
    <2>1. \A b \in Asks : Yields(b) \/ Widens(b)
      BY <1>2, NextEntries
    <2>2. \A a \in Asks : Answers[a] \subseteq Verdicts /\ OthersSay \subseteq Verdicts
      BY DEF VerdictsAssumption, Verdicts
    <2>3. ASSUME NEW a \in Asks, Decides(a) PROVE CoverInv'
      BY <2>1, <2>3, DecidesCover
    <2>4. ASSUME NEW c \in Foreign, OtherWrites(c) PROVE CoverInv'
      BY <2>1, <2>4, OthersCover
    <2>5. CASE Pushes
      BY <2>1, <2>5, PushesCover
    <2>6. CASE \/ \E a \in Asks : \/ AskArrives(a) \/ AskExpires(a) \/ ChooseAnswered(a)
                                  \/ \E v \in Verdicts : ReplyArrives(a, v) \/ OtherAnswers(a, v) \/ Choose(a, v)
               \/ \E i \in DOMAIN saves : Saving(i)
               \/ WindowsEnd \/ UNCHANGED vars
      BY <2>1, <2>6, ElsewhereCover
    <2> QED
      BY <1>2, <2>2, <2>3, <2>4, <2>5, <2>6 DEF Next
  <1> QED
    BY <1>1, <1>2

LEMMA InitCover ==
    ASSUME VerdictsAssumption, Init
    PROVE  CoverInv
  <1>1. EntryInv
    BY InitEntries
  <1>2. ceiling = Ceiling /\ job = NoJob
    BY DEF Init
  <1>3. job.pc = "idle" /\ job.want = {}
    BY <1>2 DEF NoJob
  <1>4. once \o allowed \in Seq(Kinds)
    BY <1>1, ToSetJoined DEF EntryInv, StoreInv
  <1>5. Ceiling \in SUBSET Kinds /\ (Room(Ceiling) => Ceiling = ToSet(once \o allowed))
    BY <1>4, ListedAll DEF Ceiling
  <1>6. \A a \in Past : Rests(a) \subseteq ToSet(once \o allowed)
    BY <1>1, RestsOpen DEF Past
  <1> QED
    BY <1>2, <1>3, <1>5, <1>6 DEF CoverInv

(* What a confirmed verdict rests on is listed by the device for as long as *)
(* its window or rule is there, unless a push failed, another manager wrote *)
(* the slot, or the device is full: no push of this phone that was compiled *)
(* from older entries or rules is the last that was confirmed.              *)
THEOREM OpenWhenAllowedHolds == Spec => []OpenWhenAllowed
  <1>1. Init => SentInv /\ EntryInv /\ CoverInv
    <2>1. Init => SentInv
      BY DEF Init, SentInv, None, NoCall
    <2> QED
      BY <2>1, VerdictsAssumption, InitEntries, InitCover
  <1>2. Inv /\ SentInv /\ EntryInv /\ CoverInv /\ [Next]_vars => SentInv' /\ EntryInv' /\ CoverInv'
    BY VerdictsAssumption, NextSent, NextEntries, NextCover
  <1>3. ASSUME SentInv, EntryInv, CoverInv PROVE OpenWhenAllowed
    <2>1. ASSUME agreed, Room(ceiling) \/ ceiling = ToSet(once \o allowed), NEW a \in Asks
          PROVE  ToSet(Promised(a)) \cup (IF promised[a].rule /\ hist[a].sent THEN {KindOf[a]} ELSE {})
                     \subseteq ceiling
      <3>1. ToSet(Promised(a)) \subseteq ToSet(Tally[a])
        <4>1. GoodCall(call[a], epoch) /\ promised[a] \in Promises
          BY <1>3 DEF EntryInv, CallInv, PromiseInv
        <4> DEFINE x == IF call[a].pc = "closing" \/ call[a].epoch # epoch THEN <<>> ELSE call[a].added
                   y == Owed(promised[a], epoch)
        <4>2. x \in Seq(Kinds) /\ y \in Seq(Kinds)
          <5>1. <<>> \in Seq(Kinds)
            OBVIOUS
          <5> QED
            BY <4>1, <5>1, OwedType DEF GoodCall
        <4>3. Tally[a] = x \o y
          BY TallyIs DEF TallyOf
        <4> HIDE DEF x
        <4>4. ToSet(x \o y) = ToSet(x) \cup ToSet(y)
          BY <4>2, ToSetJoined
        <4>5. Promised(a) = y
          BY DEF Promised, Owed
        <4> QED
          BY <4>3, <4>4, <4>5
      <3>2. ToSet(Promised(a)) \cup (IF promised[a].rule /\ hist[a].sent THEN {KindOf[a]} ELSE {}) \subseteq Rests(a)
        BY <3>1 DEF Rests
      <3>3. CASE ceiling = ToSet(once \o allowed)
        BY <1>3, <3>2, <3>3, VerdictsAssumption, RestsOpen
      <3>4. CASE Room(ceiling) /\ hist[a].sent
        <4>1. a \in Past
          BY <1>3, <3>4 DEF SentInv, Calm, Past
        <4>2. Rests(a) \subseteq ceiling
          BY <1>3, <2>1, <3>4, <4>1 DEF CoverInv
        <4> QED
          BY <3>2, <4>2
      <3>5. CASE ~hist[a].sent
        <4>1. promised[a].added = <<>>
          BY <1>3, <3>5 DEF EntryInv, PromiseInv
        <4>2. ToSet(Promised(a)) = {}
          BY <4>1 DEF Promised, ToSet
        <4> QED
          BY <3>5, <4>2
      <3> QED
        BY <2>1, <3>3, <3>4, <3>5
    <2> QED
      BY <2>1 DEF OpenWhenAllowed, Room
  <1> QED
    BY <1>1, <1>2, <1>3, Invariance, PTL DEF Spec

-----------------------------------------------------------------------------
(* Types.  A call is about an ask whose choice is in the history, so what   *)
(* is recorded and published of it is a verdict.                            *)

RowsType ==
    /\ hist \in [Asks -> Entries] /\ disk \in [Asks -> Entries]
    /\ \A i \in DOMAIN saves : saves[i].row \in [Asks -> Entries]
Chosen(a) == call[a].pc # "none" => call[a].verdict \in Verdicts /\ hist[a] # None
OutsideType ==
    /\ expired \subseteq Asks /\ touched \in BOOLEAN /\ agreed \in BOOLEAN
    /\ relay \in [Asks -> SUBSET ({"us", "other"} \X Verdicts)]
    /\ first \in [Asks -> Verdicts \cup {"none"}]
TypeInv == RowsType /\ OutsideType /\ \A a \in Asks : Chosen(a)

LEMMA EntryIs ==
    /\ None \in Entries
    /\ \A v \in Verdicts, s \in BOOLEAN : Entry(v, s) \in Entries /\ Entry(v, s) # None
    /\ \A e \in Entries : e # None => [e EXCEPT !.sent = TRUE] \in Entries /\ [e EXCEPT !.sent = TRUE] # None
    /\ NoCall.pc = "none" /\ Denied.verdict \in Verdicts
  BY DEF Entries, Entry, None, Verdicts, NoCall, Denied

\* The history is written once more, or not.
Grown == disk' = disk /\ (saves' = saves \/ \E a : saves' = Save(hist', a))
LEMMA RowsGrow ==
    ASSUME Base, RowsType, hist' \in [Asks -> Entries], Grown
    PROVE  RowsType'
  <1>1. CASE saves' = saves
    BY <1>1 DEF RowsType, Grown
  <1>2. CASE saves' # saves
    <2>1. PICK a : saves' = Save(hist', a)
      BY <1>2 DEF Grown
    <2> DEFINE rec == [row |-> IF LastPage THEN disk ELSE hist', for |-> a, late |-> FALSE]
    <2>2. saves' = Append(saves, rec)
      BY <1>2, <2>1 DEF Save
    <2>3. rec.row \in [Asks -> Entries]
      BY DEF RowsType
    <2> HIDE DEF rec
    <2>4. saves \in Seq(SaveRecs)
      BY DEF Base, RowsShape
    <2>5. /\ DOMAIN saves' = 1..Len(saves) + 1 /\ DOMAIN saves = 1..Len(saves) /\ Len(saves) \in Nat
          /\ saves'[Len(saves) + 1] = rec /\ \A i \in 1..Len(saves) : saves'[i] = saves[i]
      BY <2>2, <2>4
    <2>6. \A i \in DOMAIN saves' : saves'[i].row \in [Asks -> Entries]
      <3>1. ASSUME NEW i \in DOMAIN saves' PROVE saves'[i].row \in [Asks -> Entries]
        <4>1. CASE i = Len(saves) + 1
          BY <2>3, <2>5, <4>1
        <4>2. CASE i \in 1..Len(saves)
          BY <2>5, <4>2 DEF RowsType
        <4> QED
          BY <2>5, <4>1, <4>2
      <3> QED
        BY <3>1
    <2> QED
      BY <2>6 DEF RowsType, Grown
  <1> QED
    BY <1>1, <1>2

\* What is written of one ask is an entry of that ask.
LEMMA OneRow ==
    ASSUME Base, TypeInv, NEW a \in Asks, NEW e \in Entries, e # None, hist' = [hist EXCEPT ![a] = e], Grown
    PROVE  RowsType' /\ \A b \in Asks : hist[b] # None => hist'[b] # None
  <1>1. hist \in [Asks -> Entries]
    BY DEF TypeInv, RowsType
  <1>2. hist' \in [Asks -> Entries] /\ \A b \in Asks : hist[b] # None => hist'[b] # None
    BY <1>1
  <1> QED
    BY <1>2, RowsGrow DEF TypeInv

LEMMA SameRows ==
    ASSUME Base, TypeInv, hist' = hist, Grown
    PROVE  RowsType' /\ \A b \in Asks : hist[b] # None => hist'[b] # None
  <1>1. hist' \in [Asks -> Entries]
    BY DEF TypeInv, RowsType
  <1> QED
    BY <1>1, RowsGrow DEF TypeInv

LEMMA MarkedRows ==
    ASSUME Base, TypeInv, NEW a \in Asks, NEW v \in Verdicts, MarkAnswered(a, v), disk' = disk
    PROVE  RowsType' /\ \A b \in Asks : hist[b] # None => hist'[b] # None
  <1>1. Entry(v, TRUE) \in Entries /\ Entry(v, TRUE) # None
    BY EntryIs
  <1>2. CASE hist' = [hist EXCEPT ![a] = Entry(v, TRUE)] /\ saves' = Save(hist', "nobody")
    <2>1. Grown
      BY <1>2 DEF Grown
    <2> QED
      BY <1>1, <1>2, <2>1, OneRow
  <1>3. CASE UNCHANGED <<hist, saves>>
    <2>1. Grown
      BY <1>3 DEF Grown
    <2> QED
      BY <1>3, <2>1, SameRows
  <1> QED
    BY <1>2, <1>3 DEF MarkAnswered

LEMMA InboxTypes ==
    ASSUME VerdictsAssumption, Base, TypeInv, NEW a \in Asks,
           \/ AskArrives(a) \/ AskExpires(a) \/ ChooseAnswered(a)
           \/ \E v \in Verdicts : ReplyArrives(a, v) \/ OtherAnswers(a, v)
    PROVE  RowsType' /\ \A b \in Asks : Chosen(b)'
  <1>1. call' = call
    BY InboxBase
  <1>2. RowsType' /\ \A b \in Asks : hist[b] # None => hist'[b] # None
    <2>1. CASE UNCHANGED <<hist, saves, disk>>
      <3>1. Grown
        BY <2>1 DEF Grown
      <3> QED
        BY <2>1, <3>1, SameRows
    <2>2. CASE AskArrives(a) /\ replied[a] # "none"
      <3>1. replied[a] \in Verdicts
        BY <2>2 DEF Base, InboxShape
      <3>2. Entry(replied[a], TRUE) \in Entries /\ Entry(replied[a], TRUE) # None
        BY <3>1, EntryIs
      <3>3. hist' = [hist EXCEPT ![a] = Entry(replied[a], TRUE)] /\ Grown
        BY <2>2 DEF AskArrives, Grown
      <3> QED
        BY <3>2, <3>3, OneRow
    <2>3. ASSUME NEW v \in Verdicts, MarkAnswered(a, v), disk' = disk
          PROVE  RowsType' /\ \A b \in Asks : hist[b] # None => hist'[b] # None
      BY <2>3, MarkedRows
    <2>4. CASE AskArrives(a) /\ replied[a] = "none"
      BY <2>1, <2>4 DEF AskArrives
    <2>5. CASE AskExpires(a)
      BY <2>1, <2>5 DEF AskExpires, savedVars
    <2>6. CASE ChooseAnswered(a)
      <3>1. replied[a] \in Verdicts /\ MarkAnswered(a, replied[a]) /\ disk' = disk
        BY <2>6 DEF ChooseAnswered, Base, InboxShape
      <3> QED
        BY <2>3, <3>1
    <2>7. ASSUME NEW v \in Verdicts, ReplyArrives(a, v)
          PROVE  RowsType' /\ \A b \in Asks : hist[b] # None => hist'[b] # None
      BY <2>1, <2>3, <2>7 DEF ReplyArrives
    <2>8. ASSUME NEW v \in Verdicts, OtherAnswers(a, v)
          PROVE  RowsType' /\ \A b \in Asks : hist[b] # None => hist'[b] # None
      BY <2>1, <2>8 DEF OtherAnswers, savedVars
    <2> QED
      BY <2>2, <2>4, <2>5, <2>6, <2>7, <2>8
  <1> QED
    BY <1>1, <1>2 DEF TypeInv, Chosen

\* The call of one ask changes; what the history holds is not taken back.
LEMMA OneChosen ==
    ASSUME Base, TypeInv, NEW a \in Asks, NEW c, call' = [call EXCEPT ![a] = c],
           \A b \in Asks : hist[b] # None => hist'[b] # None,
           c.pc # "none" => c.verdict \in Verdicts /\ hist'[a] # None
    PROVE  \A b \in Asks : Chosen(b)'
  <1>1. call'[a] = c /\ \A b \in Asks \ {a} : call'[b] = call[b]
    BY CallOf DEF Base
  <1> QED
    BY <1>1 DEF TypeInv, Chosen

LEMMA ChooseTypes ==
    ASSUME VerdictsAssumption, Base, TypeInv, NEW a \in Asks, NEW v \in Verdicts, Choose(a, v)
    PROVE  RowsType' /\ \A b \in Asks : Chosen(b)'
  <1>1. RowsType' /\ hist'[a] # None /\ \A b \in Asks : hist[b] # None => hist'[b] # None
    <2>1. CASE hist[a] = None
      <3>1. hist' = [hist EXCEPT ![a] = Entry(v, FALSE)] /\ Grown
        BY <2>1 DEF Choose, Grown
      <3>2. Entry(v, FALSE) \in Entries /\ Entry(v, FALSE) # None
        BY EntryIs
      <3>3. hist'[a] = Entry(v, FALSE)
        BY <3>1 DEF TypeInv, RowsType
      <3> QED
        BY <3>1, <3>2, <3>3, OneRow
    <2>2. CASE hist[a] # None
      <3>1. hist' = hist /\ Grown
        BY <2>2 DEF Choose, Grown
      <3> QED
        BY <2>2, <3>1, SameRows
    <2> QED
      BY <2>1, <2>2
  <1> DEFINE c == [NoCall EXCEPT !.pc = IF hist[a] = None THEN "saving" ELSE "weigh",
                                 !.verdict = v, !.epoch = epoch, !.seen = once]
  <1>2. call' = [call EXCEPT ![a] = c]
    BY DEF Choose
  <1>3. c.verdict \in Verdicts
    BY DEF NoCall
  <1> HIDE DEF c
  <1> QED
    BY <1>1, <1>2, <1>3, OneChosen

\* A call that goes on is of the verdict it was of, or denied, or ended.
LEMMA GoesOnAs ==
    ASSUME VerdictsAssumption, Base, NEW a \in Asks, Decides(a)
    PROVE  \E c : /\ call' = [call EXCEPT ![a] = c]
                  /\ c.pc = "none" \/ c.verdict \in {call[a].verdict, "deny"}
  <1>1. IsCall(call[a])
    BY DEF Base, CallShape
  <1>2. CASE Deny(a) \/ Refuse(a)
    <2>1. call' = [call EXCEPT ![a] = Denied] /\ Denied.verdict = "deny"
      BY <1>2 DEF Deny, Refuse, Denied, NoCall
    <2> QED
      BY <2>1
  <1>3. CASE Once(a) \/ RuleSaved(a)
    <2> DEFINE es == Opens(a, call[a].verdict)
               c == [call[a] EXCEPT !.pc = "store", !.added = es, !.epoch = epoch, !.seen = <<>>]
    <2>1. call' = [call EXCEPT ![a] = c]
      BY <1>3 DEF Once, RuleSaved, Widen
    <2> HIDE DEF es
    <2>2. c.verdict = call[a].verdict
      BY <1>1 DEF IsCall
    <2> HIDE DEF c
    <2> QED
      BY <2>1, <2>2
  <1>4. CASE GiveUp(a) \/ Overtaken(a) \/ NotSent(a)
    <2>1. call' = [call EXCEPT ![a] = NoCall] /\ NoCall.pc = "none"
      BY <1>4 DEF GiveUp, Overtaken, NotSent, NoCall
    <2> QED
      BY <2>1
  <1>5. CASE Always(a) \/ AskForLock(a) \/ Record(a) \/ Unanswered(a) \/ Publish(a) \/ Sent(a)
    <2>1. PICK p \in {"rule", "push", "recording", "publish", "wire", "closing"} : Goto(a, p)
      BY <1>5 DEF Always, AskForLock, Record, Unanswered, Publish, Sent
    <2> DEFINE c == [call[a] EXCEPT !.pc = p]
    <2>2. call' = [call EXCEPT ![a] = c] /\ c.verdict = call[a].verdict
      BY <1>1, <2>1 DEF Goto, IsCall
    <2> HIDE DEF c
    <2> QED
      BY <2>2
  <1> QED
    BY <1>2, <1>3, <1>4, <1>5 DEF Decides

LEMMA DecidesTypes ==
    ASSUME VerdictsAssumption, Base, TypeInv, NEW a \in Asks, Decides(a)
    PROVE  RowsType' /\ \A b \in Asks : Chosen(b)'
  <1>1. call[a].pc # "none"
    BY DEF Decides, Deny, Refuse, Once, Always, RuleSaved, GiveUp, AskForLock, Record, Overtaken,
           Unanswered, Publish, Sent, NotSent, At
  <1>2. call[a].verdict \in Verdicts /\ hist[a] # None
    BY <1>1 DEF TypeInv, Chosen
  <1>3. RowsType' /\ \A b \in Asks : hist[b] # None => hist'[b] # None
    <2>1. CASE Record(a)
      <3>1. hist' = hist /\ Grown
        BY <2>1 DEF Record, Grown, Save
      <3> QED
        BY <3>1, SameRows
    <2>2. CASE Sent(a)
      <3>1. hist' = [hist EXCEPT ![a] = [hist[a] EXCEPT !.sent = TRUE]] /\ Grown
        BY <2>2 DEF Sent, Grown
      <3>2. hist[a] \in Entries
        BY DEF TypeInv, RowsType
      <3>3. [hist[a] EXCEPT !.sent = TRUE] \in Entries /\ [hist[a] EXCEPT !.sent = TRUE] # None
        BY <1>2, <3>2, EntryIs
      <3> QED
        BY <3>1, <3>3, OneRow
    <2>3. CASE Overtaken(a)
      <3>1. replied[a] \in Verdicts /\ MarkAnswered(a, replied[a]) /\ disk' = disk
        BY <2>3 DEF Overtaken, Base, InboxShape
      <3> QED
        BY <3>1, MarkedRows
    <2>4. CASE ~(Record(a) \/ Sent(a) \/ Overtaken(a))
      <3>1. UNCHANGED <<hist, saves, disk>>
        BY <2>4 DEF Decides, Deny, Refuse, Once, Always, RuleSaved, GiveUp, AskForLock,
                    Unanswered, Publish, NotSent, savedVars
      <3>2. Grown
        BY <3>1 DEF Grown
      <3> QED
        BY <3>1, <3>2, SameRows
    <2> QED
      BY <2>1, <2>2, <2>3, <2>4
  <1>4. PICK c : /\ call' = [call EXCEPT ![a] = c]
                 /\ c.pc = "none" \/ c.verdict \in {call[a].verdict, "deny"}
    BY GoesOnAs
  <1>5. c.pc # "none" => c.verdict \in Verdicts
    BY <1>2, <1>4 DEF Verdicts
  <1> QED
    BY <1>2, <1>3, <1>4, <1>5, OneChosen

\* A write that ends takes its row to the store, or nowhere.
LEMMA SavingTypes ==
    ASSUME VerdictsAssumption, Base, TypeInv, NEW i \in DOMAIN saves, Saving(i)
    PROVE  RowsType' /\ \A b \in Asks : Chosen(b)'
  <1> SUFFICES ASSUME NEW a, a = saves[i].for
               PROVE  RowsType' /\ \A b \in Asks : Chosen(b)'
    OBVIOUS
  <1>1. saves \in Seq(SaveRecs) /\ DOMAIN saves = 1..Len(saves) /\ Len(saves) \in Nat /\ saves[i] \in SaveRecs
    BY DEF Base, RowsShape
  <1>2. \A j \in DOMAIN saves' : \E k \in DOMAIN saves : saves'[j].row = saves[k].row
    <2>1. CASE SaveLands(i)
      <3> DEFINE w(j) == IF j < i THEN [saves[j] EXCEPT !.late = ~LastPage] ELSE saves[j + 1]
      <3>1. saves' = [j \in 1..Len(saves) - 1 |-> w(j)]
        BY <2>1 DEF SaveLands
      <3>2. ASSUME NEW j \in 1..Len(saves) - 1 PROVE w(j).row = saves[Before(i, j)].row
        <4>1. saves[j] \in SaveRecs
          BY <1>1
        <4> QED
          BY <4>1 DEF SaveRecs, Before
      <3>3. \A j \in 1..Len(saves) - 1 : Before(i, j) \in DOMAIN saves
        BY <1>1 DEF Before
      <3> HIDE DEF w
      <3> QED
        BY <3>1, <3>2, <3>3
    <2>2. CASE SaveFails(i)
      <3>1. saves' = RemoveAt(saves, i)
        BY <2>2 DEF SaveFails
      <3>2. DOMAIN saves' = 1..Len(saves) - 1
            /\ \A j \in 1..Len(saves) - 1 : saves'[j] = IF j < i THEN saves[j] ELSE saves[j + 1]
        BY <1>1, <3>1, OneLess
      <3>3. \A j \in 1..Len(saves) - 1 : Before(i, j) \in DOMAIN saves /\ saves'[j] = saves[Before(i, j)]
        BY <1>1, <3>2 DEF Before
      <3> QED
        BY <3>2, <3>3
    <2> QED
      BY <2>1, <2>2 DEF Saving
  <1>3. \A j \in DOMAIN saves' : saves'[j].row \in [Asks -> Entries]
    BY <1>2 DEF TypeInv, RowsType
  <1>4. disk' \in [Asks -> Entries]
    BY DEF TypeInv, RowsType, Saving, SaveLands, SaveFails
  <1>5. CASE a \notin Asks
    <2>1. a = "nobody"
      BY <1>1, <1>5 DEF SaveRecs
    <2>2. UNCHANGED <<call, hist>>
      BY <1>5, <2>1 DEF Saving, SaveLands, SaveFails, Continue
    <2> QED
      BY <1>3, <1>4, <2>2 DEF TypeInv, RowsType, Chosen
  <1>6. CASE a \in Asks
    <2>1. call[a].pc \in Waiting
      BY <1>6 DEF Base, SavesInv
    <2>2. call[a].verdict \in Verdicts /\ hist[a] # None /\ a # "nobody"
      BY <1>6, <2>1 DEF TypeInv, Chosen, Waiting, VerdictsAssumption
    <2>3. CASE Continue(a) /\ hist' = hist
      <3>1. PICK c : call' = [call EXCEPT ![a] = c] /\ (c.pc = "none" \/ c.verdict = call[a].verdict)
        <4>1. CASE call[a].pc = "closing"
          <5>1. call' = [call EXCEPT ![a] = NoCall] /\ NoCall.pc = "none"
            BY <2>2, <2>3, <4>1 DEF Continue, NoCall
          <5> QED
            BY <5>1
        <4>2. CASE call[a].pc # "closing"
          <5> DEFINE c == [call[a] EXCEPT !.pc = Following[call[a].pc]]
          <5>1. call' = [call EXCEPT ![a] = c]
            BY <2>2, <2>3, <4>2 DEF Continue
          <5>2. IsCall(call[a])
            BY <1>6 DEF Base, CallShape
          <5>3. c.verdict = call[a].verdict
            BY <5>2 DEF IsCall
          <5> HIDE DEF c
          <5> QED
            BY <5>1, <5>3
        <4> QED
          BY <4>1, <4>2
      <3>2. \A b \in Asks : Chosen(b)'
        BY <1>6, <2>2, <2>3, <3>1, OneChosen
      <3> QED
        BY <1>3, <1>4, <2>3, <3>2 DEF TypeInv, RowsType
    <2>4. CASE hist' = [hist EXCEPT ![a] = None] /\ call' = [call EXCEPT ![a] = NoCall]
      <3>1. hist' \in [Asks -> Entries] /\ \A b \in Asks \ {a} : hist'[b] = hist[b]
        BY <1>6, <2>4, EntryIs DEF TypeInv, RowsType
      <3>2. call'[a].pc = "none" /\ \A b \in Asks \ {a} : call'[b] = call[b]
        BY <1>6, <2>4, CallOf, EntryIs DEF Base
      <3>3. \A b \in Asks : Chosen(b)'
        BY <3>1, <3>2 DEF TypeInv, Chosen
      <3> QED
        BY <1>3, <1>4, <3>1, <3>3 DEF RowsType
    <2> QED
      BY <2>3, <2>4 DEF Saving, SaveLands, SaveFails
  <1> QED
    BY <1>5, <1>6

LEMMA PushesTypes ==
    ASSUME VerdictsAssumption, Inv, TypeInv, Pushes
    PROVE  RowsType' /\ \A b \in Asks : Chosen(b)'
  <1>1. UNCHANGED <<hist, disk, saves>>
    BY DEF Pushes, RunPush, TakeLock, AlreadyRight, MustChange, Updated, Unconfirmed, PushFails, Stale,
           PushEnds, savedVars
  <1>2. Base /\ RowsType'
    BY <1>1 DEF Inv, TypeInv, RowsType
  <1>3. CASE call' = call
    BY <1>1, <1>2, <1>3 DEF TypeInv, Chosen
  <1>4. ASSUME NEW ok \in BOOLEAN, PushEnds(ok), job.pc # "idle", Head(queue) # "regular"
        PROVE  \A b \in Asks : Chosen(b)'
    <2>1. Head(queue) \in Asks /\ call[Head(queue)].pc = "push"
      <3>1. queue \in Seq(Asks \cup {"regular"}) /\ IsInjective(queue) /\ queue # <<>>
        BY <1>4 DEF Inv, QueueInv
      <3>2. Head(queue) \in ToSet(queue) /\ Head(queue) \in Asks \cup {"regular"}
        BY <3>1, Leaves
      <3> QED
        BY <1>4, <3>2 DEF Inv, QueueInv
    <2> SUFFICES ASSUME NEW a \in Asks, a = Head(queue)
                 PROVE  \A b \in Asks : Chosen(b)'
      BY <2>1
    <2>2. call[a].verdict \in Verdicts /\ hist[a] # None
      BY <2>1 DEF TypeInv, Chosen
    <2>3. CASE call' = [call EXCEPT ![a] = Denied]
      <3>1. Denied.verdict \in Verdicts
        BY EntryIs
      <3> QED
        BY <1>1, <1>2, <2>2, <2>3, <3>1, OneChosen
    <2>4. CASE call' = [call EXCEPT ![a] = [@ EXCEPT !.pc = "outcome"]]
      <3> DEFINE c == [call[a] EXCEPT !.pc = "outcome"]
      <3>1. call' = [call EXCEPT ![a] = c]
        BY <2>4
      <3>2. IsCall(call[a])
        BY <1>2 DEF Base, CallShape
      <3>3. c.verdict = call[a].verdict
        BY <3>2 DEF IsCall
      <3> HIDE DEF c
      <3> QED
        BY <1>1, <1>2, <2>2, <3>1, <3>3, OneChosen
    <2>5. call' = [call EXCEPT ![a] = IF ok THEN [@ EXCEPT !.pc = "outcome"] ELSE Denied]
      BY <1>4 DEF PushEnds
    <2> QED
      BY <2>3, <2>4, <2>5
  <1>5. CASE RunPush \/ TakeLock \/ MustChange \/ Stale
    BY <1>3, <1>5 DEF RunPush, TakeLock, MustChange, Stale
  <1>6. CASE AlreadyRight \/ Updated \/ Unconfirmed \/ PushFails
    <2>1. PICK ok \in BOOLEAN : PushEnds(ok) /\ job.pc # "idle"
      <3>1. CASE AlreadyRight
        BY <3>1 DEF AlreadyRight
      <3>2. CASE Updated
        BY <3>2 DEF Updated
      <3>3. CASE Unconfirmed
        BY <3>3 DEF Unconfirmed
      <3>4. CASE PushFails
        BY <3>4 DEF PushFails
      <3> QED
        BY <1>6, <3>1, <3>2, <3>3, <3>4
    <2>2. CASE Head(queue) = "regular"
      BY <1>3, <2>1, <2>2 DEF PushEnds
    <2> QED
      BY <1>2, <1>4, <2>1, <2>2
  <1> QED
    BY <1>2, <1>5, <1>6 DEF Pushes

LEMMA NextRows ==
    ASSUME VerdictsAssumption, Inv, TypeInv, [Next]_vars
    PROVE  RowsType' /\ \A b \in Asks : Chosen(b)'
  <1>1. \A a \in Asks : Answers[a] \subseteq Verdicts /\ OthersSay \subseteq Verdicts
    BY DEF VerdictsAssumption, Verdicts
  <1>2. Base
    BY DEF Inv
  <1>3. ASSUME NEW a \in Asks, NEW v \in Verdicts, Choose(a, v) PROVE RowsType' /\ \A b \in Asks : Chosen(b)'
    BY <1>2, <1>3, ChooseTypes
  <1>4. ASSUME NEW a \in Asks, Decides(a) PROVE RowsType' /\ \A b \in Asks : Chosen(b)'
    BY <1>2, <1>4, DecidesTypes
  <1>5. ASSUME NEW a \in Asks,
               \/ AskArrives(a) \/ AskExpires(a) \/ ChooseAnswered(a)
               \/ \E v \in Verdicts : ReplyArrives(a, v) \/ OtherAnswers(a, v)
        PROVE  RowsType' /\ \A b \in Asks : Chosen(b)'
    BY <1>2, <1>5, InboxTypes
  <1>6. ASSUME NEW i \in DOMAIN saves, Saving(i) PROVE RowsType' /\ \A b \in Asks : Chosen(b)'
    BY <1>2, <1>6, SavingTypes
  <1>7. CASE Pushes
    BY <1>7, PushesTypes
  <1>8. CASE (\E c \in Foreign : OtherWrites(c)) \/ WindowsEnd \/ UNCHANGED vars
    <2>1. UNCHANGED <<hist, disk, saves, call>>
      BY <1>8 DEF OtherWrites, WindowsEnd, vars, savedVars
    <2> QED
      BY <2>1 DEF TypeInv, RowsType, Chosen
  <1>9. CASE Restart
    <2>1. hist' = disk /\ disk' = disk /\ saves' = <<>> /\ \A b \in Asks : call'[b] = NoCall
      BY <1>9 DEF Restart
    <2> QED
      BY <2>1, EntryIs DEF TypeInv, RowsType, Chosen
  <1> QED
    BY <1>1, <1>3, <1>4, <1>5, <1>6, <1>7, <1>8, <1>9 DEF Next

\* What is published is a verdict, and what was first saved is one.
LEMMA NextOutside ==
    ASSUME VerdictsAssumption, Inv, TypeInv, [Next]_vars
    PROVE  OutsideType'
  <1>1. \A a \in Asks : Answers[a] \subseteq Verdicts /\ OthersSay \subseteq Verdicts
    BY DEF VerdictsAssumption, Verdicts
  <1>2. relay' \in [Asks -> SUBSET ({"us", "other"} \X Verdicts)]
    <2>1. CASE relay' = relay
      BY <2>1 DEF TypeInv, OutsideType
    <2>2. ASSUME NEW a \in Asks, Publish(a) PROVE relay' \in [Asks -> SUBSET ({"us", "other"} \X Verdicts)]
      <3>1. call[a].verdict \in Verdicts
        BY <2>2 DEF Publish, At, TypeInv, Chosen
      <3> QED
        BY <2>2, <3>1 DEF Publish, TypeInv, OutsideType
    <2>3. ASSUME NEW a \in Asks, NEW v \in OthersSay, OtherAnswers(a, v)
          PROVE  relay' \in [Asks -> SUBSET ({"us", "other"} \X Verdicts)]
      <3>1. v \in Verdicts
        BY <1>1
      <3> QED
        BY <2>3, <3>1 DEF OtherAnswers, TypeInv, OutsideType
    <2>4. ASSUME NEW a \in Asks, Decides(a), ~Publish(a) PROVE relay' = relay
      BY <2>4 DEF Decides, Deny, Refuse, Once, Always, RuleSaved, GiveUp, AskForLock, Record, Overtaken,
                  Unanswered, Sent, NotSent, askVars
    <2>5. ASSUME NEW a \in Asks, \/ AskArrives(a) \/ AskExpires(a) \/ ChooseAnswered(a)
                                 \/ \E v \in Verdicts : ReplyArrives(a, v)
                                 \/ \E v \in Answers[a] : Choose(a, v)
          PROVE  relay' = relay
      BY <2>5 DEF AskArrives, AskExpires, ChooseAnswered, ReplyArrives, Choose, askVars
    <2>6. ASSUME NEW i \in DOMAIN saves, Saving(i) PROVE relay' = relay
      BY <2>6 DEF Saving, SaveLands, SaveFails, askVars
    <2>7. CASE Pushes \/ (\E c \in Foreign : OtherWrites(c)) \/ WindowsEnd \/ Restart \/ UNCHANGED vars
      BY <2>1, <2>7 DEF Pushes, RunPush, TakeLock, AlreadyRight, MustChange, Updated, Unconfirmed, PushFails, Stale,
                        PushEnds, OtherWrites, WindowsEnd, Restart, vars, askVars
    <2> QED
      BY <2>1, <2>2, <2>3, <2>4, <2>5, <2>6, <2>7 DEF Next
  <1>3. first' \in [Asks -> Verdicts \cup {"none"}]
    <2>1. CASE first' = first
      BY <2>1 DEF TypeInv, OutsideType
    <2>2. ASSUME NEW a \in Asks, NEW v \in Verdicts, FirstNow(a, v) PROVE first' \in [Asks -> Verdicts \cup {"none"}]
      BY <2>2 DEF FirstNow, TypeInv, OutsideType
    <2>3. ASSUME NEW a \in Asks, NEW v \in Answers[a], Choose(a, v)
          PROVE  first' \in [Asks -> Verdicts \cup {"none"}]
      <3>1. v \in Verdicts /\ (first' = first \/ FirstNow(a, v))
        BY <1>1, <2>3 DEF Choose
      <3> QED
        BY <2>1, <2>2, <3>1
    <2>4. ASSUME NEW i \in DOMAIN saves, Saving(i) PROVE first' \in [Asks -> Verdicts \cup {"none"}]
      <3>1. CASE first' # first
        <4>1. PICK a \in Asks : call[a].pc = "saving" /\ FirstNow(a, call[a].verdict)
          BY <2>4, <3>1 DEF Saving, SaveLands, SaveFails
        <4>2. call[a].verdict \in Verdicts
          BY <4>1 DEF TypeInv, Chosen
        <4> QED
          BY <2>2, <4>1, <4>2
      <3> QED
        BY <2>1, <3>1
    <2>5. ASSUME NEW a \in Asks, \/ AskArrives(a) \/ AskExpires(a) \/ ChooseAnswered(a)
                                 \/ \E v \in Verdicts : ReplyArrives(a, v)
                                 \/ \E v \in OthersSay : OtherAnswers(a, v)
          PROVE  first' = first
      BY <2>5 DEF AskArrives, AskExpires, ChooseAnswered, ReplyArrives, OtherAnswers
    <2>6. ASSUME NEW a \in Asks, Decides(a) PROVE first' = first
      BY <2>6 DEF Decides, Deny, Refuse, Once, Always, RuleSaved, GiveUp, AskForLock, Record, Overtaken,
                  Unanswered, Publish, Sent, NotSent
    <2>7. CASE Pushes \/ (\E c \in Foreign : OtherWrites(c)) \/ WindowsEnd \/ Restart \/ UNCHANGED vars
      BY <2>1, <2>7 DEF Pushes, RunPush, TakeLock, AlreadyRight, MustChange, Updated, Unconfirmed, PushFails, Stale,
                        PushEnds, OtherWrites, WindowsEnd, Restart, vars
    <2> QED
      BY <2>1, <2>3, <2>4, <2>5, <2>6, <2>7 DEF Next
  <1>4. expired' \subseteq Asks /\ touched' \in BOOLEAN /\ agreed' \in BOOLEAN
    <2>1. CASE UNCHANGED <<expired, touched, agreed>>
      BY <2>1 DEF TypeInv, OutsideType
    <2>2. ASSUME NEW a \in Asks, AskExpires(a) PROVE expired' \subseteq Asks /\ touched' \in BOOLEAN /\ agreed' \in BOOLEAN
      BY <2>2 DEF AskExpires, deviceVars, TypeInv, OutsideType
    <2>3. CASE Restart \/ \E c \in Foreign : OtherWrites(c)
      BY <2>3 DEF Restart, OtherWrites, askVars, TypeInv, OutsideType
    <2>4. CASE Pushes
      <3>1. expired' = expired
        BY <2>4 DEF Pushes, RunPush, TakeLock, AlreadyRight, MustChange, Updated, Unconfirmed, PushFails, Stale,
                    PushEnds, askVars
      <3>2. touched' \in {touched, FALSE} /\ agreed' \in {agreed, TRUE, FALSE}
        BY <2>4 DEF Pushes, RunPush, TakeLock, AlreadyRight, MustChange, Updated, Unconfirmed, PushFails, Stale,
                    PushEnds, deviceVars
      <3> QED
        BY <3>1, <3>2 DEF TypeInv, OutsideType
    <2>5. ASSUME NEW a \in Asks, \/ AskArrives(a) \/ ChooseAnswered(a)
                                 \/ \E v \in Verdicts : ReplyArrives(a, v)
                                 \/ \E v \in Answers[a] : Choose(a, v)
                                 \/ \E v \in OthersSay : OtherAnswers(a, v)
          PROVE  UNCHANGED <<expired, touched, agreed>>
      BY <2>5 DEF AskArrives, ChooseAnswered, ReplyArrives, Choose, OtherAnswers, askVars, deviceVars
    <2>6. ASSUME NEW a \in Asks, Decides(a) PROVE UNCHANGED <<expired, touched, agreed>>
      BY <2>6 DEF Decides, Deny, Refuse, Once, Always, RuleSaved, GiveUp, AskForLock, Record, Overtaken,
                  Unanswered, Publish, Sent, NotSent, askVars, deviceVars
    <2>7. ASSUME NEW i \in DOMAIN saves, Saving(i) PROVE UNCHANGED <<expired, touched, agreed>>
      BY <2>7 DEF Saving, SaveLands, SaveFails, askVars, deviceVars
    <2>8. CASE WindowsEnd \/ UNCHANGED vars
      BY <2>1, <2>8 DEF WindowsEnd, vars, askVars, deviceVars
    <2> QED
      BY <2>1, <2>2, <2>3, <2>4, <2>5, <2>6, <2>7, <2>8 DEF Next
  <1> QED
    BY <1>2, <1>3, <1>4 DEF OutsideType

LEMMA InitTypes == ASSUME VerdictsAssumption, Init PROVE TypeInv
  <1>1. RowsType
    BY EntryIs DEF Init, RowsType
  <1>2. OutsideType
    BY DEF Init, OutsideType
  <1>3. \A a \in Asks : Chosen(a)
    BY EntryIs DEF Init, Chosen
  <1> QED
    BY <1>1, <1>2, <1>3 DEF TypeInv

(* Types: what is in the history, stored, written, published or opened for  *)
(* an ask are verdicts and kinds, there is one rule per kind at most, and   *)
(* no call has entries of a window to come.                                 *)
THEOREM TypeCorrect == Spec => []TypeOK
  <1>1. Init => SentInv /\ EntryInv /\ CoverInv /\ TypeInv
    <2>1. Init => SentInv
      BY DEF Init, SentInv, None, NoCall
    <2> QED
      BY <2>1, VerdictsAssumption, InitEntries, InitCover, InitTypes
  <1>2. Inv /\ SentInv /\ EntryInv /\ CoverInv /\ TypeInv /\ [Next]_vars
          => SentInv' /\ EntryInv' /\ CoverInv' /\ TypeInv'
    BY VerdictsAssumption, NextSent, NextEntries, NextCover, NextRows, NextOutside DEF TypeInv
  <1>3. ASSUME Inv, EntryInv, CoverInv, TypeInv PROVE TypeOK
    <2>1. Base /\ InboxShape /\ CallShape /\ QueueInv
      BY <1>3 DEF Inv, Base
    <2>2. ask \in [Asks -> {"unseen", "listed", "gone"}] /\ replied \in [Asks -> Verdicts \cup {"none"}]
      BY <2>1 DEF InboxShape
    <2>3. \A a \in Asks : call[a].pc \in Pcs /\ call[a].verdict \in Verdicts \cup {"none"}
      BY <2>1 DEF CallShape, IsCall
    <2>4. \A a \in Asks : /\ call[a].added \in Seq(Kinds) /\ call[a].seen \in Seq(Kinds)
                          /\ call[a].epoch <= epoch
      BY <1>3 DEF EntryInv, CallInv, GoodCall
    <2>5. once \in Seq(Kinds) /\ allowed \in Seq(Kinds) /\ IsInjective(allowed)
      BY <1>3 DEF EntryInv, StoreInv
    <2>6. /\ \A i \in DOMAIN queue : queue[i] \in Asks \cup {"regular"}
          /\ push \in [armed : BOOLEAN, running : BOOLEAN, queued : BOOLEAN]
      BY <2>1 DEF QueueInv
    <2>7. ceiling \in SUBSET Kinds /\ job.want \in SUBSET Kinds
      BY <1>3 DEF CoverInv
    <2>8. job \in [pc : {"idle", "list", "update"}, want : SUBSET Kinds, again : BOOLEAN]
      BY <2>1, <2>7 DEF QueueInv, IsJob
    <2> QED
      BY <1>3, <2>2, <2>3, <2>4, <2>5, <2>6, <2>7, <2>8 DEF TypeOK, TypeInv, RowsType, OutsideType
  <1> QED
    BY <1>1, <1>2, <1>3, Invariance, PTL DEF Spec
=============================================================================
