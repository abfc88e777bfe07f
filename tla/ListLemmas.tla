---------------------------- MODULE ListLemmas ----------------------------
(***************************************************************************)
(* Lemmas about lists that know nothing of a system: what picking from a   *)
(* list, sorting it and putting two of them together does to what they     *)
(* list, and in which order.  The proofs about the posts in the browser    *)
(* rest on them.                                                           *)
(***************************************************************************)
EXTENDS Integers, SequencesExt, FiniteSetTheorems, WellFoundedInduction, TLAPS

\* A set of natural numbers that is not empty has a least element.
LEMMA Least ==
    ASSUME NEW T \in SUBSET Nat, T # {}
    PROVE  \E x \in T : \A y \in T : x <= y
<1>1. PICK x \in T : \A y \in T : ~ (<<y, x>> \in OpToRel(<, Nat))
  BY WFMin, NatLessThanWellFounded
<1>2. \A y \in T : ~ (y < x)
  BY <1>1 DEF OpToRel
<1> QED BY <1>2

\* A strict order of a set, given as a set of pairs.
Orders(R, S) ==
    /\ \A x, y \in S : x # y => (<<x, y>> \in R <=> <<y, x>> \notin R)
    /\ \A x, y, z \in S : x # y /\ y # z /\ x # z /\ <<x, y>> \in R /\ <<y, z>> \in R
                             => <<x, z>> \in R

Below(R, S, x) == {y \in S \ {x} : <<y, x>> \in R}

\* The ranks of the elements of a finite set are the numbers below its cardinality, and
\* grow with the order.
LEMMA Ranks ==
    ASSUME NEW S, IsFiniteSet(S), NEW R, Orders(R, S)
    PROVE  /\ Cardinality(S) \in Nat
           /\ \A x, y \in S : Cardinality(Below(R, S, x)) = Cardinality(Below(R, S, y)) => x = y
           /\ \A k \in 1..Cardinality(S) :
                 \E x \in S : Cardinality(Below(R, S, x)) = k - 1
           /\ \A x, y \in S : x # y /\ <<x, y>> \in R
                 => Cardinality(Below(R, S, x)) < Cardinality(Below(R, S, y))
<1> DEFINE n == Cardinality(S)
           rank == [x \in S |-> Cardinality(Below(R, S, x))]
<1>1. n \in Nat
  BY FS_CardinalityType
<1>2. ASSUME NEW x \in S PROVE /\ IsFiniteSet(Below(R, S, x))
                               /\ Cardinality(Below(R, S, x)) \in 0..(n - 1)
  <2>1. /\ IsFiniteSet(S \ {x}) /\ Cardinality(S \ {x}) = n - 1
    BY FS_RemoveElement
  <2>2. Below(R, S, x) \in SUBSET (S \ {x})
    BY DEF Below
  <2>3. IsFiniteSet(Below(R, S, x)) /\ Cardinality(Below(R, S, x)) <= n - 1
    BY <2>1, <2>2, FS_Subset
  <2>4. Cardinality(Below(R, S, x)) \in Nat
    BY <2>3, FS_CardinalityType
  <2> QED BY <1>1, <2>3, <2>4
<1>3. ASSUME NEW x \in S, NEW y \in S, x # y, <<x, y>> \in R
      PROVE  rank[x] < rank[y]
  <2>1. Below(R, S, x) \in SUBSET Below(R, S, y)
    <3> SUFFICES ASSUME NEW z \in Below(R, S, x) PROVE z \in Below(R, S, y)
      OBVIOUS
    <3>1. z \in S /\ z # x /\ <<z, x>> \in R
      BY DEF Below
    <3>2. z # y
      BY <1>3, <3>1 DEF Orders
    <3> QED BY <1>3, <3>1, <3>2 DEF Orders, Below
  <2>2. x \in Below(R, S, y) /\ x \notin Below(R, S, x)
    BY <1>3 DEF Below
  <2>3. Cardinality(Below(R, S, x)) < Cardinality(Below(R, S, y))
    BY <1>1, <1>2, <2>1, <2>2, FS_Subset
  <2> QED BY <2>3
<1>4. ASSUME NEW x \in S, NEW y \in S, rank[x] = rank[y] PROVE x = y
  <2>1. rank[x] \in Int /\ rank[y] \in Int
    BY <1>1, <1>2
  <2>2. <<x, y>> \in R => ~ (x # y)
    <3> HIDE DEF rank
    <3> QED BY <1>3, <1>4, <2>1
  <2>3. <<y, x>> \in R => ~ (x # y)
    <3> HIDE DEF rank
    <3> QED BY <1>3, <1>4, <2>1
  <2> QED BY <2>2, <2>3 DEF Orders
<1>5. rank \in Injection(S, 0..(n - 1))
  BY <1>2, <1>4 DEF Injection, IsInjective
<1>6. IsFiniteSet(0..(n - 1)) /\ Cardinality(0..(n - 1)) = n
  BY <1>1, FS_Interval
<1>7. rank \in Surjection(S, 0..(n - 1))
  BY <1>5, <1>6, FS_Injection
<1>8. ASSUME NEW k \in 1..n PROVE \E x \in S : rank[x] = k - 1
  <2>1. k - 1 \in 0..(n - 1)
    BY <1>1
  <2> QED BY <1>7, <2>1 DEF Surjection
<1>9. ASSUME NEW x \in S PROVE rank[x] = Cardinality(Below(R, S, x))
  OBVIOUS
<1> HIDE DEF rank
<1> QED BY <1>1, <1>3, <1>4, <1>8, <1>9

\* The last of these facts, to be cited for any set and order.
LEMMA RankTaken ==
    \A S, R : IsFiniteSet(S) /\ Orders(R, S) =>
       \A k \in 1..Cardinality(S) : \E x \in S : Cardinality(Below(R, S, x)) = k - 1
BY Ranks

\* p enumerates a set: it gives every element once.
Enumerates(p, S) ==
    \E n \in Nat : /\ p \in [1..n -> S]
                   /\ \A x \in S : \E k \in 1..n : p[k] = x
                   /\ \A k, l \in 1..n : p[k] = p[l] => k = l

\* Elements listed by their ranks.
LEMMA ByRank ==
    ASSUME NEW S, IsFiniteSet(S), NEW R, Orders(R, S),
           NEW p, p = [k \in 1..Cardinality(S) |-> p[k]],
           \A k \in 1..Cardinality(S) :
              p[k] \in S /\ Cardinality(Below(R, S, p[k])) = k - 1
    PROVE  /\ Enumerates(p, S)
           /\ \A k, l \in DOMAIN p : k < l => <<p[k], p[l]>> \in R
<1> DEFINE n == Cardinality(S)
<1>1. n \in Nat
  BY Ranks
<1>2. \A k \in 1..n : p[k] \in S /\ Cardinality(Below(R, S, p[k])) = k - 1
  OBVIOUS
<1>3. p \in [1..n -> S]
  BY <1>2
<1>4. \A k, l \in 1..n : p[k] = p[l] => k = l
  <2> SUFFICES ASSUME NEW k \in 1..n, NEW l \in 1..n, p[k] = p[l] PROVE k = l
    OBVIOUS
  <2>1. k - 1 = l - 1
    BY <1>2
  <2> QED BY <2>1
<1>5. IsFiniteSet(1..n) /\ Cardinality(1..n) = n
  BY <1>1, FS_Interval
<1>6. p \in Injection(1..n, S)
  BY <1>3, <1>4 DEF Injection, IsInjective
<1>7. p \in Surjection(1..n, S)
  BY <1>5, <1>6, FS_Injection
<1>8. \A x \in S : \E k \in 1..n : p[k] = x
  BY <1>7 DEF Surjection
<1>9. ASSUME NEW k \in 1..n, NEW l \in 1..n, k < l PROVE <<p[k], p[l]>> \in R
  <2>1. p[k] # p[l] /\ p[k] \in S /\ p[l] \in S
    BY <1>2, <1>4, <1>9
  <2>2. ASSUME <<p[l], p[k]>> \in R PROVE FALSE
    <3>1. Cardinality(Below(R, S, p[l])) < Cardinality(Below(R, S, p[k]))
      BY <2>1, <2>2, Ranks
    <3> QED BY <1>1, <1>2, <1>9, <3>1
  <2> QED BY <2>1, <2>2 DEF Orders
<1>10. DOMAIN p = 1..n
  BY <1>3
<1> HIDE DEF n
<1> QED BY <1>1, <1>3, <1>4, <1>8, <1>9, <1>10 DEF Enumerates

\* t gives what stands at the positions I of s, in some order.
Picks(t, s, I) ==
    \E p : Enumerates(p, I) /\ t = [k \in DOMAIN p |-> s[p[k]]]

\* And gives them in the order R of the positions.
PicksBy(t, s, I, R) ==
    \E p : /\ Enumerates(p, I)
           /\ \A k, l \in DOMAIN p : k < l => <<p[k], p[l]>> \in R
           /\ t = [k \in DOMAIN p |-> s[p[k]]]

\* What a list gives more than once.
Twice(s) == {s[i] : i \in {i \in DOMAIN s : \E j \in DOMAIN s : j # i /\ s[j] = s[i]}}

\* When an element is in a list, and when it is there more than once.
LEMMA Elements ==
    ASSUME NEW s
    PROVE  /\ \A x : x \in ToSet(s) <=> \E i \in DOMAIN s : s[i] = x
           /\ \A x : x \in Twice(s) <=> \E i, j \in DOMAIN s : i # j /\ s[i] = x /\ s[j] = x
           /\ Twice(s) \subseteq ToSet(s)
BY DEF ToSet, Twice

\* What is picked from a list is in it, and is there at least as often.
LEMMA Picked ==
    \A T, s, I, t : s \in Seq(T) /\ I \in SUBSET DOMAIN s /\ Picks(t, s, I) =>
       /\ t \in Seq(T)
       /\ ToSet(t) = {s[i] : i \in I}
       /\ Twice(t) \subseteq Twice(s)
       /\ I # {} <=> t # <<>>
<1> SUFFICES ASSUME NEW T, NEW s \in Seq(T), NEW I \in SUBSET DOMAIN s, NEW t, Picks(t, s, I)
             PROVE  /\ t \in Seq(T)
                    /\ ToSet(t) = {s[i] : i \in I}
                    /\ Twice(t) \subseteq Twice(s)
                    /\ I # {} <=> t # <<>>
  OBVIOUS
<1>1. PICK p : Enumerates(p, I) /\ t = [k \in DOMAIN p |-> s[p[k]]]
  BY DEF Picks
<1>2. PICK n \in Nat : /\ p \in [1..n -> I]
                       /\ \A x \in I : \E k \in 1..n : p[k] = x
                       /\ \A k, l \in 1..n : p[k] = p[l] => k = l
  BY <1>1 DEF Enumerates
<1>3. /\ DOMAIN t = 1..n
      /\ \A k \in 1..n : p[k] \in I /\ t[k] = s[p[k]] /\ s[p[k]] \in T
  BY <1>1, <1>2
<1>4. t \in Seq(T)
  <2>1. t = [k \in 1..n |-> s[p[k]]]
    BY <1>1, <1>2
  <2> QED BY <1>3, <2>1
<1>5. ToSet(t) = {s[i] : i \in I}
  <2>1. ToSet(t) = {t[k] : k \in 1..n}
    BY <1>3 DEF ToSet
  <2>2. ASSUME NEW k \in 1..n PROVE t[k] \in {s[i] : i \in I}
    BY <1>3
  <2>3. ASSUME NEW i \in I PROVE s[i] \in {t[k] : k \in 1..n}
    <3>1. PICK k \in 1..n : p[k] = i
      BY <1>2
    <3> QED BY <1>3, <3>1
  <2> QED BY <2>1, <2>2, <2>3
<1>6. ASSUME NEW x \in Twice(t) PROVE x \in Twice(s)
  <2>1. PICK k, l \in 1..n : k # l /\ t[k] = x /\ t[l] = x
    BY <1>3, Elements
  <2>2. p[k] # p[l] /\ p[k] \in DOMAIN s /\ p[l] \in DOMAIN s /\ s[p[k]] = x /\ s[p[l]] = x
    BY <1>2, <1>3, <2>1
  <2> QED BY <2>2, Elements
<1>7. I # {} <=> t # <<>>
  <2>1. t # <<>> <=> \E k \in 1..n : TRUE
    BY <1>3, <1>4
  <2> QED BY <1>2, <1>3, <2>1
<1> QED BY <1>4, <1>5, <1>6, <1>7

\* The positions of a list are finitely many.
LEMMA Positions ==
    ASSUME NEW T, NEW s \in Seq(T), NEW I \in SUBSET DOMAIN s
    PROVE  IsFiniteSet(I) /\ I \in SUBSET Nat
<1>1. DOMAIN s = 1..Len(s) /\ Len(s) \in Nat
  OBVIOUS
<1>2. IsFiniteSet(1..Len(s))
  BY <1>1, FS_Interval
<1> QED BY <1>1, <1>2, FS_Subset

\* The order of the positions of a list that a stable sort takes, from the order of the
\* values that stand there.
StableOrder(B, I) == {q \in I \X I : \/ <<q[1], q[2]>> \in B
                                   \/ (q[1] < q[2] /\ <<q[2], q[1]>> \notin B)}

\* The order by which Array.sort is stable is strict, when what it sorts by is.
LEMMA StableOrders ==
    ASSUME NEW I \in SUBSET Nat, NEW B,
           \A i, j \in I : i # j /\ <<i, j>> \in B => <<j, i>> \notin B,
           \A i, j, k \in I : i # j /\ j # k /\ i # k /\ <<i, k>> \in B
                                => <<i, j>> \in B \/ <<j, k>> \in B
    PROVE  Orders(StableOrder(B, I), I)
<1>1. \A i, j \in I : <<i, j>> \in StableOrder(B, I) <=>
                         (<<i, j>> \in B \/ (i < j /\ <<j, i>> \notin B))
  BY DEF StableOrder
<1>2. \A i, j \in I : i # j => (i < j <=> ~ (j < i))
  OBVIOUS
<1>3. \A i, j, k \in I : i < j /\ j < k => i < k
  OBVIOUS
<1> QED BY <1>1, <1>2, <1>3 DEF Orders

\* A list after another one.
LEMMA Concatenated ==
    ASSUME NEW T, NEW s \in Seq(T), NEW t \in Seq(T)
    PROVE  /\ s \o t \in Seq(T)
           /\ ToSet(s \o t) = ToSet(s) \cup ToSet(t)
           /\ Twice(s \o t) \subseteq Twice(s) \cup Twice(t) \cup (ToSet(s) \cap ToSet(t))
<1> DEFINE u == s \o t
           m == Len(s)
           n == Len(t)
<1>1. /\ m \in Nat /\ n \in Nat
      /\ DOMAIN s = 1..m /\ DOMAIN t = 1..n /\ DOMAIN u = 1..(m + n)
      /\ u \in Seq(T)
  OBVIOUS
<1>2. \A i \in 1..(m + n) : /\ i <= m => i \in 1..m /\ u[i] = s[i]
                            /\ ~ (i <= m) => i - m \in 1..n /\ u[i] = t[i - m]
  OBVIOUS
<1>3. \A i \in 1..m : i \in 1..(m + n) /\ u[i] = s[i]
  OBVIOUS
<1>4. \A i \in 1..n : i + m \in 1..(m + n) /\ u[i + m] = t[i]
  OBVIOUS
<1> HIDE DEF u, m, n
<1>5. ToSet(u) = ToSet(s) \cup ToSet(t)
  <2>1. \A x \in ToSet(u) : x \in ToSet(s) \cup ToSet(t)
    BY <1>1, <1>2, Elements
  <2>2. \A x \in ToSet(s) : x \in ToSet(u)
    BY <1>1, <1>3, Elements
  <2>3. \A x \in ToSet(t) : x \in ToSet(u)
    BY <1>1, <1>4, Elements
  <2> QED BY <2>1, <2>2, <2>3
<1>6. ASSUME NEW x \in Twice(u)
      PROVE  x \in Twice(s) \cup Twice(t) \cup (ToSet(s) \cap ToSet(t))
  <2>1. PICK i, j \in 1..(m + n) : i # j /\ u[i] = x /\ u[j] = x
    BY <1>1, Elements
  <2>2. CASE i <= m /\ j <= m
    BY <1>1, <1>2, <2>1, <2>2, Elements
  <2>3. CASE ~ (i <= m) /\ ~ (j <= m)
    <3>1. i - m # j - m
      BY <1>1, <2>1
    <3> QED BY <1>1, <1>2, <2>1, <2>3, <3>1, Elements
  <2>4. CASE i <= m /\ ~ (j <= m)
    BY <1>1, <1>2, <2>1, <2>4, Elements
  <2>5. CASE ~ (i <= m) /\ j <= m
    BY <1>1, <1>2, <2>1, <2>5, Elements
  <2> QED BY <2>2, <2>3, <2>4, <2>5
<1>7. u = s \o t
  BY DEF u
<1> QED BY <1>1, <1>5, <1>6, <1>7

\* A list of elements of a set is one of the elements of a greater set.
LEMMA Wider ==
    \A T, U, s : T \subseteq U /\ s \in Seq(T) => s \in Seq(U)
<1> SUFFICES ASSUME NEW T, NEW U, T \subseteq U, NEW s \in Seq(T) PROVE s \in Seq(U)
  OBVIOUS
<1>1. Len(s) \in Nat /\ s = [i \in 1..Len(s) |-> s[i]] /\ \A i \in 1..Len(s) : s[i] \in U
  OBVIOUS
<1> QED BY <1>1

\* What a list gives is in the set it is a list over.
LEMMA Within == \A T, s : s \in Seq(T) => ToSet(s) \subseteq T
BY DEF ToSet

\* A list of one element.
LEMMA One ==
    ASSUME NEW T, NEW x \in T
    PROVE  <<x>> \in Seq(T) /\ ToSet(<<x>>) = {x} /\ Twice(<<x>>) = {}
BY DEF ToSet, Twice

\* One element is picked from a list of one.
LEMMA PickedOne ==
    ASSUME NEW T, NEW s \in Seq(T), NEW t \in Seq(T), Picks(t, s, {1})
    PROVE  Len(t) = 1 /\ t[1] = s[1]
<1>1. PICK p : Enumerates(p, {1}) /\ t = [k \in DOMAIN p |-> s[p[k]]]
  BY DEF Picks
<1>2. PICK n \in Nat : /\ p \in [1..n -> {1}]
                       /\ \E k \in 1..n : p[k] = 1
                       /\ \A k, l \in 1..n : p[k] = p[l] => k = l
  BY <1>1 DEF Enumerates
<1>3. n = 1
  <2>1. n >= 1
    BY <1>2
  <2>2. ~ (n >= 2)
    <3>1. n >= 2 => 1 \in 1..n /\ 2 \in 1..n /\ p[1] = 1 /\ p[2] = 1
      BY <1>2
    <3> QED BY <1>2, <3>1
  <2> QED BY <1>2, <2>1, <2>2
<1>4. DOMAIN t = 1..1 /\ t[1] = s[1]
  BY <1>1, <1>2, <1>3
<1> QED BY <1>4

Descending(s) == \A i, j \in DOMAIN s : i < j => s[i] > s[j]

\* A list that falls begins with its greatest element, ends with its least and gives
\* nothing twice.
LEMMA Ends ==
    \A s : s \in Seq(Nat) /\ Descending(s) /\ s # <<>> =>
       /\ s[1] \in ToSet(s) /\ s[Len(s)] \in ToSet(s)
       /\ \A x \in ToSet(s) : x <= s[1] /\ s[Len(s)] <= x
<1> SUFFICES ASSUME NEW s \in Seq(Nat), Descending(s), s # <<>>
             PROVE  /\ s[1] \in ToSet(s) /\ s[Len(s)] \in ToSet(s)
                    /\ \A x \in ToSet(s) : x <= s[1] /\ s[Len(s)] <= x
  OBVIOUS
<1>1. /\ Len(s) \in Nat /\ Len(s) >= 1 /\ DOMAIN s = 1..Len(s)
      /\ 1 \in DOMAIN s /\ Len(s) \in DOMAIN s /\ \A i \in DOMAIN s : s[i] \in Nat
  OBVIOUS
<1>2. ASSUME NEW i \in DOMAIN s PROVE s[i] <= s[1] /\ s[Len(s)] <= s[i]
  <2>1. i = 1 \/ 1 < i
    BY <1>1
  <2>2. i = Len(s) \/ i < Len(s)
    BY <1>1
  <2>3. s[i] <= s[1]
    BY <1>1, <2>1 DEF Descending
  <2>4. s[Len(s)] <= s[i]
    BY <1>1, <2>2 DEF Descending
  <2> QED BY <2>3, <2>4
<1> QED BY <1>1, <1>2, Elements

\* A list that falls gives nothing twice.
LEMMA FallsOnce == \A s : s \in Seq(Nat) /\ Descending(s) => Twice(s) = {}
<1> SUFFICES ASSUME NEW s \in Seq(Nat), Descending(s), NEW x \in Twice(s) PROVE FALSE
  OBVIOUS
<1>1. PICK i, j \in DOMAIN s : i # j /\ s[i] = x /\ s[j] = x
  BY Elements
<1>2. (i < j \/ j < i) /\ x \in Nat
  BY <1>1
<1> QED BY <1>1, <1>2 DEF Descending

\* Picking by an order that never puts a smaller element first gives a list that falls,
\* when nothing is there twice.
LEMMA PickedFalls ==
    ASSUME NEW s \in Seq(Nat), Twice(s) = {}, NEW t, NEW R, PicksBy(t, s, DOMAIN s, R),
           \A i, j \in DOMAIN s : i # j /\ <<i, j>> \in R => s[i] >= s[j]
    PROVE  Descending(t)
<1>1. PICK p : /\ Enumerates(p, DOMAIN s)
               /\ \A k, l \in DOMAIN p : k < l => <<p[k], p[l]>> \in R
               /\ t = [k \in DOMAIN p |-> s[p[k]]]
  BY DEF PicksBy
<1>2. PICK n \in Nat : /\ p \in [1..n -> DOMAIN s]
                       /\ \A k, l \in 1..n : p[k] = p[l] => k = l
  BY <1>1 DEF Enumerates
<1>3. DOMAIN p = 1..n /\ DOMAIN t = 1..n /\ \A k \in 1..n : t[k] = s[p[k]]
  BY <1>1, <1>2
<1>4. ASSUME NEW k \in 1..n, NEW l \in 1..n, k < l PROVE t[k] > t[l]
  <2>1. p[k] \in DOMAIN s /\ p[l] \in DOMAIN s /\ p[k] # p[l] /\ <<p[k], p[l]>> \in R
    BY <1>1, <1>2, <1>3, <1>4
  <2>2. s[p[k]] # s[p[l]]
    BY <2>1, Elements
  <2>3. s[p[k]] \in Nat /\ s[p[l]] \in Nat
    BY <2>1
  <2> QED BY <1>3, <2>1, <2>2, <2>3
<1> QED BY <1>3, <1>4 DEF Descending

\* A list t gives what stands at the positions I of s, for two positions at two places.
Gives(t, s, I) ==
    /\ \A k \in DOMAIN t : \E i \in I : t[k] = s[i]
    /\ \A i \in I : \E k \in DOMAIN t : t[k] = s[i]
    /\ \A i, j \in I : i # j => \E k, l \in DOMAIN t : k # l /\ t[k] = s[i] /\ t[l] = s[j]

\* Every position picked is given once, and no other.
LEMMA PickedPairs ==
    ASSUME NEW T, NEW s \in Seq(T), NEW I \in SUBSET DOMAIN s, NEW t, Picks(t, s, I)
    PROVE  Gives(t, s, I)
<1>1. PICK p : Enumerates(p, I) /\ t = [k \in DOMAIN p |-> s[p[k]]]
  BY DEF Picks
<1>2. PICK n \in Nat : /\ p \in [1..n -> I]
                       /\ \A x \in I : \E k \in 1..n : p[k] = x
  BY <1>1 DEF Enumerates
<1>3. DOMAIN t = 1..n /\ \A k \in 1..n : p[k] \in I /\ t[k] = s[p[k]]
  BY <1>1, <1>2
<1>4. ASSUME NEW i \in I, NEW j \in I, i # j
      PROVE  \E k, l \in DOMAIN t : k # l /\ t[k] = s[i] /\ t[l] = s[j]
  <2>1. PICK k \in 1..n : p[k] = i
    BY <1>2
  <2>2. PICK l \in 1..n : p[l] = j
    BY <1>2
  <2> QED BY <1>3, <1>4, <2>1, <2>2
<1>5. ASSUME NEW i \in I PROVE \E k \in DOMAIN t : t[k] = s[i]
  BY <1>2, <1>3
<1> QED BY <1>3, <1>4, <1>5 DEF Gives

\* As many are given as are picked.
LEMMA PickedLength ==
    ASSUME NEW T, NEW s \in Seq(T), NEW I \in SUBSET DOMAIN s, NEW t, Picks(t, s, I)
    PROVE  /\ t \in Seq(T) /\ Len(t) <= Len(s)
           /\ Len(t) = Len(s) => I = DOMAIN s
           /\ I = DOMAIN s => Len(t) = Len(s)
<1>1. PICK p : Enumerates(p, I) /\ t = [k \in DOMAIN p |-> s[p[k]]]
  BY DEF Picks
<1>2. PICK n \in Nat : /\ p \in [1..n -> I]
                       /\ \A x \in I : \E k \in 1..n : p[k] = x
                       /\ \A k, l \in 1..n : p[k] = p[l] => k = l
  BY <1>1 DEF Enumerates
<1>3. t \in Seq(T) /\ Len(t) = n
  <2>1. DOMAIN t = 1..n
    BY <1>1, <1>2
  <2>2. t \in Seq(T)
    BY <1>1, Picked
  <2> QED BY <1>2, <2>1, <2>2
<1>4. IsFiniteSet(1..n) /\ Cardinality(1..n) = n
  BY <1>2, FS_Interval
<1>5. p \in Bijection(1..n, I)
  BY <1>2 DEF Bijection, Injection, Surjection, IsInjective
<1>6. IsFiniteSet(I) /\ Cardinality(I) = n
  BY <1>4, <1>5, FS_Bijection DEF ExistsBijection
<1>7. Len(s) \in Nat /\ DOMAIN s = 1..Len(s)
  OBVIOUS
<1>8. IsFiniteSet(DOMAIN s) /\ Cardinality(DOMAIN s) = Len(s)
  <2> DEFINE m == Len(s)
  <2>1. m \in Nat
    BY <1>7
  <2> HIDE DEF m
  <2>2. IsFiniteSet(1..m) /\ Cardinality(1..m) = m
    BY <2>1, FS_Interval
  <2> QED BY <1>7, <2>2 DEF m
<1>9. /\ Cardinality(I) <= Cardinality(DOMAIN s)
      /\ Cardinality(I) = Cardinality(DOMAIN s) => I = DOMAIN s
  BY <1>8, FS_Subset
<1> QED BY <1>3, <1>6, <1>8, <1>9
=============================================================================
