------------------------- MODULE PostCreation_proofs -------------------------
(***************************************************************************)
(* Proofs about the creation of posts, at both ends.                       *)
(*                                                                         *)
(* PostCreation, for any number of posts, losses and blocks, and whatever  *)
(* comes back in whatever order: the types, what may be listed twice, that *)
(* a pending post goes when its post comes, and that a post is not sent    *)
(* again while it is being sent.  The first part is about the reducer and  *)
(* knows nothing of the system.                                            *)
(*                                                                         *)
(* PostEventDebounce, for every limit, wait and number of events: the      *)
(* types, the order of the events, and what may be given up.               *)
(*                                                                         *)
(* PostDeduplication, for any number of requests: what is answered is      *)
(* saved whatever happens.  Where nothing may disturb, one post is saved   *)
(* at most and the abstract specification of the server's promise is       *)
(* implemented: the entry of the cache always says who is at work.         *)
(***************************************************************************)
EXTENDS PostCreation, PostEventDebounce, PostDeduplication, ListLemmas

-----------------------------------------------------------------------------
(* What the list operators of the reducer do.                              *)

\* The cardinality that PostsInChannel uses is the one of this module.
LEMMA SameCardinality == ASSUME NEW S PROVE P!Cardinality(S) = Cardinality(S)
BY DEF P!Cardinality, Cardinality

\* Array.filter picks the positions it is given.
LEMMA FilterPicks ==
    ASSUME NEW T, NEW s \in Seq(T), NEW I \in SUBSET DOMAIN s
    PROVE  Picks(P!Filter(s, I), s, I)
<1> DEFINE R == {q \in I \X I : q[1] < q[2]}
           p == P!Enumerate(I, LAMBDA x, y : x < y)
<1>1. IsFiniteSet(I) /\ I \in SUBSET Nat
  BY Positions
<1>2. \A x, y \in I : <<x, y>> \in R <=> x < y
  OBVIOUS
<1> HIDE DEF R
<1>3. Orders(R, I)
  BY <1>1, <1>2 DEF Orders
<1>4. \A x \in I : P!Cardinality({y \in I \ {x} : y < x}) = Cardinality(Below(R, I, x))
  <2>1. \A x \in I : {y \in I \ {x} : y < x} = Below(R, I, x)
    BY <1>2 DEF Below
  <2> QED BY <2>1, SameCardinality
<1>5. \A k \in 1..P!Cardinality(I) :
         \E x \in I : P!Cardinality({y \in I \ {x} : y < x}) = k - 1
  BY <1>1, <1>3, <1>4, Ranks, SameCardinality
<1>6. p = [k \in 1..P!Cardinality(I) |-> p[k]]
  <2> DEFINE Chosen(k) == CHOOSE x \in I : P!Cardinality({y \in I \ {x} : y < x}) = k - 1
  <2>1. p = [k \in 1..P!Cardinality(I) |-> Chosen(k)]
    BY DEF P!Enumerate
  <2> HIDE DEF Chosen, p
  <2> QED BY <2>1
<1>7. \A k \in 1..P!Cardinality(I) :
         p[k] \in I /\ P!Cardinality({y \in I \ {p[k]} : y < p[k]}) = k - 1
  BY <1>5 DEF P!Enumerate
<1>8. P!Filter(s, I) = [k \in DOMAIN p |-> s[p[k]]]
  BY DEF P!Filter
<1> HIDE DEF p
<1>9. Enumerates(p, I)
  <2>1. \A k \in 1..Cardinality(I) : p[k] \in I /\ Cardinality(Below(R, I, p[k])) = k - 1
    BY <1>4, <1>7, SameCardinality
  <2>2. p = [k \in 1..Cardinality(I) |-> p[k]]
    BY <1>6, SameCardinality
  <2> QED BY <1>1, <1>3, <2>1, <2>2, ByRank
<1> QED BY <1>8, <1>9 DEF Picks

\* Array.sort by the newest first picks every position.
LEMMA SortNewer ==
    ASSUME NEW s \in Seq(Nat)
    PROVE  Picks(P!Sort(s, P!Newer), s, DOMAIN s)
<1> DEFINE I == DOMAIN s
           B == {q \in I \X I : P!Newer(s[q[1]], s[q[2]])}
           R == StableOrder(B, I)
           Precedes(i, j) == P!Newer(s[i], s[j]) \/ (i < j /\ ~ P!Newer(s[j], s[i]))
           p == P!Enumerate(I, Precedes)
<1>1. IsFiniteSet(I) /\ I \in SUBSET Nat
  BY Positions
<1>2. \A i, j \in I : <<i, j>> \in B <=> s[i] > s[j]
  BY DEF P!Newer, CreateAt
<1>3. \A i \in I : s[i] \in Nat
  OBVIOUS
<1>4. \A i, j \in I : <<i, j>> \in R <=> Precedes(i, j)
  BY DEF StableOrder
<1> HIDE DEF B, I, p
<1>5. Orders(R, I)
  <2>1. \A i, j \in I : i # j /\ <<i, j>> \in B => <<j, i>> \notin B
    BY <1>2, <1>3
  <2>2. \A i, j, k \in I : i # j /\ j # k /\ i # k /\ <<i, k>> \in B
                            => <<i, j>> \in B \/ <<j, k>> \in B
    BY <1>2, <1>3
  <2> QED BY <1>1, <2>1, <2>2, StableOrders
<1> HIDE DEF R, Precedes
<1>6. \A x \in I : P!Cardinality({y \in I \ {x} : Precedes(y, x)}) = Cardinality(Below(R, I, x))
  <2>1. \A x \in I : {y \in I \ {x} : Precedes(y, x)} = Below(R, I, x)
    BY <1>4 DEF Below
  <2> QED BY <2>1, SameCardinality
<1>7. \A k \in 1..P!Cardinality(I) :
         \E x \in I : P!Cardinality({y \in I \ {x} : Precedes(y, x)}) = k - 1
  <2>1. \A k \in 1..Cardinality(I) : \E x \in I : Cardinality(Below(R, I, x)) = k - 1
    BY <1>1, <1>5, RankTaken
  <2> QED BY <2>1, <1>6, SameCardinality
<1>8. p = [k \in 1..P!Cardinality(I) |-> p[k]]
  <2> DEFINE Chosen(k) == CHOOSE x \in I : P!Cardinality({y \in I \ {x} : Precedes(y, x)}) = k - 1
  <2>1. p = [k \in 1..P!Cardinality(I) |-> Chosen(k)]
    BY DEF P!Enumerate, p
  <2> HIDE DEF Chosen, p
  <2> QED BY <2>1
<1>9. \A k \in 1..P!Cardinality(I) :
         p[k] \in I /\ P!Cardinality({y \in I \ {p[k]} : Precedes(y, p[k])}) = k - 1
  BY <1>7 DEF P!Enumerate, p
<1>10. P!Sort(s, P!Newer) = [k \in DOMAIN p |-> s[p[k]]]
  BY DEF P!Sort, Precedes, I, p
<1>11. Enumerates(p, I)
  <2>1. \A k \in 1..Cardinality(I) : p[k] \in I /\ Cardinality(Below(R, I, p[k])) = k - 1
    BY <1>6, <1>9, SameCardinality
  <2>2. p = [k \in 1..Cardinality(I) |-> p[k]]
    BY <1>8, SameCardinality
  <2> QED BY <1>1, <1>5, <2>1, <2>2, ByRank
<1> QED BY <1>10, <1>11 DEF Picks, I

\* So does Array.sort by comparePosts.
LEMMA SortComparePosts ==
    ASSUME NEW s \in Seq(Nat)
    PROVE  Picks(P!Sort(s, P!ComparePosts), s, DOMAIN s)
<1> DEFINE I == DOMAIN s
           B == {q \in I \X I : P!ComparePosts(s[q[1]], s[q[2]])}
           R == StableOrder(B, I)
           Precedes(i, j) == P!ComparePosts(s[i], s[j]) \/ (i < j /\ ~ P!ComparePosts(s[j], s[i]))
           p == P!Enumerate(I, Precedes)
<1>1. IsFiniteSet(I) /\ I \in SUBSET Nat
  BY Positions
<1>2. \A i, j \in I : <<i, j>> \in B <=>
                         IF IsPending(s[i]) # IsPending(s[j]) THEN IsPending(s[i]) ELSE s[i] > s[j]
  BY DEF P!ComparePosts, P!Newer, CreateAt
<1>3. \A i \in I : s[i] \in Nat /\ IsPending(s[i]) \in BOOLEAN
  BY DEF IsPending
<1> HIDE DEF IsPending
<1>4. \A i, j \in I : <<i, j>> \in R <=> Precedes(i, j)
  BY DEF StableOrder
<1> HIDE DEF B, I, p
<1>5. Orders(R, I)
  <2>1. \A i, j \in I : i # j /\ <<i, j>> \in B => <<j, i>> \notin B
    BY <1>2, <1>3
  <2>2. \A i, j, k \in I : i # j /\ j # k /\ i # k /\ <<i, k>> \in B
                            => <<i, j>> \in B \/ <<j, k>> \in B
    BY <1>2, <1>3
  <2> QED BY <1>1, <2>1, <2>2, StableOrders
<1> HIDE DEF R, Precedes
<1>6. \A x \in I : P!Cardinality({y \in I \ {x} : Precedes(y, x)}) = Cardinality(Below(R, I, x))
  <2>1. \A x \in I : {y \in I \ {x} : Precedes(y, x)} = Below(R, I, x)
    BY <1>4 DEF Below
  <2> QED BY <2>1, SameCardinality
<1>7. \A k \in 1..P!Cardinality(I) :
         \E x \in I : P!Cardinality({y \in I \ {x} : Precedes(y, x)}) = k - 1
  <2>1. \A k \in 1..Cardinality(I) : \E x \in I : Cardinality(Below(R, I, x)) = k - 1
    BY <1>1, <1>5, RankTaken
  <2> QED BY <2>1, <1>6, SameCardinality
<1>8. p = [k \in 1..P!Cardinality(I) |-> p[k]]
  <2> DEFINE Chosen(k) == CHOOSE x \in I : P!Cardinality({y \in I \ {x} : Precedes(y, x)}) = k - 1
  <2>1. p = [k \in 1..P!Cardinality(I) |-> Chosen(k)]
    BY DEF P!Enumerate, p
  <2> HIDE DEF Chosen, p
  <2> QED BY <2>1
<1>9. \A k \in 1..P!Cardinality(I) :
         p[k] \in I /\ P!Cardinality({y \in I \ {p[k]} : Precedes(y, p[k])}) = k - 1
  BY <1>7 DEF P!Enumerate, p
<1>10. P!Sort(s, P!ComparePosts) = [k \in DOMAIN p |-> s[p[k]]]
  BY DEF P!Sort, Precedes, I, p
<1>11. Enumerates(p, I)
  <2>1. \A k \in 1..Cardinality(I) : p[k] \in I /\ Cardinality(Below(R, I, p[k])) = k - 1
    BY <1>6, <1>9, SameCardinality
  <2>2. p = [k \in 1..Cardinality(I) |-> p[k]]
    BY <1>8, SameCardinality
  <2> QED BY <1>1, <1>5, <2>1, <2>2, ByRank
<1> QED BY <1>10, <1>11 DEF Picks, I

\* And the sort of blocks, none of them empty, by the newest post they start with.
LEMMA SortBlocks ==
    ASSUME NEW T, NEW s \in Seq(T),
           \A i, j \in DOMAIN s : i # j => s[i].order \in Seq(Nat) /\ s[i].order # <<>>
    PROVE  Picks(P!Sort(s, LAMBDA a, b : P!StartsAt(a) > P!StartsAt(b)), s, DOMAIN s)
<1> DEFINE I == DOMAIN s
           B == {q \in I \X I : P!StartsAt(s[q[1]]) > P!StartsAt(s[q[2]])}
           R == StableOrder(B, I)
           Precedes(i, j) == P!StartsAt(s[i]) > P!StartsAt(s[j])
                             \/ (i < j /\ ~ (P!StartsAt(s[j]) > P!StartsAt(s[i])))
           p == P!Enumerate(I, Precedes)
<1>1. IsFiniteSet(I) /\ I \in SUBSET Nat
  BY Positions
<1>2. \A i, j \in I : <<i, j>> \in B <=> P!StartsAt(s[i]) > P!StartsAt(s[j])
  OBVIOUS
<1>3. \A i, j \in I : i # j => P!StartsAt(s[i]) \in Nat
  BY DEF P!StartsAt, CreateAt
<1>4. \A i, j \in I : <<i, j>> \in R <=> Precedes(i, j)
  BY DEF StableOrder
<1> HIDE DEF B, I, p
<1>5. Orders(R, I)
  <2>1. \A i, j \in I : i # j /\ <<i, j>> \in B => <<j, i>> \notin B
    BY <1>2, <1>3
  <2>2. \A i, j, k \in I : i # j /\ j # k /\ i # k /\ <<i, k>> \in B
                            => <<i, j>> \in B \/ <<j, k>> \in B
    BY <1>2, <1>3
  <2> QED BY <1>1, <2>1, <2>2, StableOrders
<1> HIDE DEF R, Precedes
<1>6. \A x \in I : P!Cardinality({y \in I \ {x} : Precedes(y, x)}) = Cardinality(Below(R, I, x))
  <2>1. \A x \in I : {y \in I \ {x} : Precedes(y, x)} = Below(R, I, x)
    BY <1>4 DEF Below
  <2> QED BY <2>1, SameCardinality
<1>7. \A k \in 1..P!Cardinality(I) :
         \E x \in I : P!Cardinality({y \in I \ {x} : Precedes(y, x)}) = k - 1
  <2>1. \A k \in 1..Cardinality(I) : \E x \in I : Cardinality(Below(R, I, x)) = k - 1
    BY <1>1, <1>5, RankTaken
  <2> QED BY <2>1, <1>6, SameCardinality
<1>8. p = [k \in 1..P!Cardinality(I) |-> p[k]]
  <2> DEFINE Chosen(k) == CHOOSE x \in I : P!Cardinality({y \in I \ {x} : Precedes(y, x)}) = k - 1
  <2>1. p = [k \in 1..P!Cardinality(I) |-> Chosen(k)]
    BY DEF P!Enumerate, p
  <2> HIDE DEF Chosen, p
  <2> QED BY <2>1
<1>9. \A k \in 1..P!Cardinality(I) :
         p[k] \in I /\ P!Cardinality({y \in I \ {p[k]} : Precedes(y, p[k])}) = k - 1
  BY <1>7 DEF P!Enumerate, p
<1>10. P!Sort(s, LAMBDA a, b : P!StartsAt(a) > P!StartsAt(b)) = [k \in DOMAIN p |-> s[p[k]]]
  BY DEF P!Sort, Precedes, I, p
<1>11. Enumerates(p, I)
  <2>1. \A k \in 1..Cardinality(I) : p[k] \in I /\ Cardinality(Below(R, I, p[k])) = k - 1
    BY <1>6, <1>9, SameCardinality
  <2>2. p = [k \in 1..Cardinality(I) |-> p[k]]
    BY <1>8, SameCardinality
  <2> QED BY <1>1, <1>5, <2>1, <2>2, ByRank
<1> QED BY <1>10, <1>11 DEF Picks, I

\* The first of some positions.
LEMMA First ==
    ASSUME NEW T, NEW s \in Seq(T), NEW I \in SUBSET (1..Len(s)), I # {}
    PROVE  P!Min(I) \in I
<1>1. \E x \in I : \A y \in I : x <= y
  BY Least
<1> QED BY <1>1 DEF P!Min

\* The first position of an element that a list has.
LEMMA Found ==
    ASSUME NEW T, NEW s \in Seq(T), NEW x, x \in ToSet(s)
    PROVE  /\ P!Min({i \in 1..Len(s) : s[i] = x}) \in DOMAIN s
           /\ s[P!Min({i \in 1..Len(s) : s[i] = x})] = x
<1> DEFINE I == {i \in 1..Len(s) : s[i] = x}
<1>1. DOMAIN s = 1..Len(s)
  OBVIOUS
<1>2. I # {} /\ I \in SUBSET (1..Len(s))
  BY <1>1, Elements
<1>3. P!Min(I) \in I
  <2> HIDE DEF I
  <2> QED BY <1>2, First
<1> QED BY <1>1, <1>3

\* Array.indexOf and splice remove one element.
LEMMA Removed ==
    ASSUME NEW T, NEW s \in Seq(T), NEW x
    PROVE  LET t == P!RemoveFirst(s, x) IN
           /\ t \in Seq(T)
           /\ ToSet(t) \subseteq ToSet(s)
           /\ Twice(t) \subseteq Twice(s)
           /\ x \notin Twice(s) => x \notin ToSet(t)
<1>1. DOMAIN s = 1..Len(s) /\ Len(s) \in Nat
  OBVIOUS
<1>2. CASE x \notin ToSet(s)
  <2>1. P!RemoveFirst(s, x) = s
    BY <1>1, <1>2, Elements DEF P!RemoveFirst
  <2> QED BY <1>2, <2>1
<1>3. CASE x \in ToSet(s)
  <2> DEFINE i == P!Min({k \in 1..Len(s) : s[k] = x})
             u == SubSeq(s, 1, i - 1)
             v == SubSeq(s, i + 1, Len(s))
             t == u \o v
  <2>1. i \in 1..Len(s) /\ s[i] = x
    BY <1>1, <1>3, Found
  <2>2. P!RemoveFirst(s, x) = t
    <3>1. {k \in 1..Len(s) : s[k] = x} # {}
      BY <1>1, <1>3, Elements
    <3> QED BY <3>1 DEF P!RemoveFirst, P!RemoveAt, P!SelectInSeq
  <2> HIDE DEF i
  <2>3. /\ t \in Seq(T) /\ DOMAIN t = 1..(Len(s) - 1)
        /\ \A k \in 1..(Len(s) - 1) : t[k] = IF k < i THEN s[k] ELSE s[k + 1]
    <3>1. /\ u \in Seq(T) /\ Len(u) = i - 1
          /\ \A k \in 1..(i - 1) : u[k] = s[k]
      BY <1>1, <2>1
    <3>2. /\ v \in Seq(T) /\ Len(v) = Len(s) - i
          /\ \A k \in 1..(Len(s) - i) : v[k] = s[i + k]
      <4>1. /\ i + 1 \in 1..(Len(s) + 1) /\ (Len(s) - (i + 1)) + 1 = Len(s) - i
            /\ Len(s) - i \in Nat
        BY <1>1, <2>1
      <4>2. /\ DOMAIN v = 1..(Len(s) - i)
            /\ \A k \in 1..(Len(s) - i) : v[k] = s[(i + 1) + k - 1]
        BY <1>1, <2>1, <4>1
      <4>3. \A k \in 1..(Len(s) - i) : /\ (i + 1) + k - 1 = i + k
                                        /\ i + k \in DOMAIN s /\ s[i + k] \in T
        BY <1>1, <2>1
      <4>4. v = [k \in 1..(Len(s) - i) |-> v[k]]
        BY <4>1, <4>2
      <4> DEFINE n == Len(s) - i
      <4> HIDE DEF v
      <4>5. v = [k \in 1..n |-> s[i + k]]
        BY <4>2, <4>3, <4>4
      <4>6. n \in Nat /\ \A k \in 1..n : s[i + k] \in T
        BY <4>1, <4>3
      <4>7. v \in Seq(T) /\ Len(v) = n /\ \A k \in 1..n : v[k] = s[i + k]
        <5> HIDE DEF n
        <5> QED BY <4>5, <4>6
      <4> QED BY <4>7
    <3> HIDE DEF u, v
    <3>3. t \in Seq(T) /\ Len(t) = Len(s) - 1
      <4>1. u \in Seq(T) /\ v \in Seq(T)
        BY <3>1, <3>2
      <4>2. t \in Seq(T) /\ Len(t) = Len(u) + Len(v)
        BY <4>1
      <4> QED BY <1>1, <2>1, <3>1, <3>2, <4>2
    <3>4. ASSUME NEW k \in 1..(Len(s) - 1) PROVE t[k] = IF k < i THEN s[k] ELSE s[k + 1]
      <4>1. CASE k < i
        BY <1>1, <2>1, <3>1, <3>2, <4>1
      <4>2. CASE ~ (k < i)
        <5>1. t[k] = v[k - (i - 1)] /\ k - (i - 1) \in 1..(Len(s) - i)
          BY <1>1, <2>1, <3>1, <3>2, <4>2
        <5>2. i + (k - (i - 1)) = k + 1
          BY <1>1, <2>1
        <5> QED BY <3>2, <4>2, <5>1, <5>2
      <4> QED BY <4>1, <4>2
    <3> QED BY <3>3, <3>4
  <2> HIDE DEF u, v, t
  <2> DEFINE at(k) == IF k < i THEN k ELSE k + 1
  <2>4. \A k \in DOMAIN t : at(k) \in DOMAIN s /\ at(k) # i /\ t[k] = s[at(k)]
    BY <1>1, <2>1, <2>3
  <2>5. \A k, l \in DOMAIN t : k # l => at(k) # at(l)
    BY <1>1, <2>1, <2>3
  <2> HIDE DEF at
  <2>6. \A y \in ToSet(t) : y \in ToSet(s)
    BY <2>4, Elements
  <2>7. \A y \in Twice(t) : y \in Twice(s)
    BY <2>4, <2>5, Elements
  <2>8. x \in ToSet(t) => x \in Twice(s)
    BY <1>1, <2>1, <2>4, Elements
  <2> QED BY <2>2, <2>3, <2>6, <2>7, <2>8
<1> QED BY <1>2, <1>3

\* One element takes the place of another.
LEMMA Replaced ==
    ASSUME NEW T, NEW s \in Seq(T), NEW x \in T, NEW i \in DOMAIN s
    PROVE  LET t == [s EXCEPT ![i] = x] IN
           /\ t \in Seq(T)
           /\ ToSet(t) \subseteq ToSet(s) \cup {x}
           /\ Twice(t) \subseteq Twice(s) \cup {x}
           /\ x \notin ToSet(s) => Twice(t) \subseteq Twice(s)
           /\ s[i] \notin Twice(s) /\ s[i] # x => s[i] \notin ToSet(t)
<1> DEFINE t == [s EXCEPT ![i] = x]
<1>1. t \in Seq(T) /\ DOMAIN t = DOMAIN s
  OBVIOUS
<1>2. \A k \in DOMAIN s : t[k] = IF k = i THEN x ELSE s[k]
  OBVIOUS
<1> HIDE DEF t
<1>3. \A y \in ToSet(t) : y \in ToSet(s) \cup {x}
  BY <1>1, <1>2, Elements
<1>4. \A y \in Twice(t) : y \in Twice(s) \cup {x}
  BY <1>1, <1>2, Elements
<1>5. x \notin ToSet(s) => \A y \in Twice(t) : y \in Twice(s)
  BY <1>1, <1>2, Elements
<1>6. s[i] \notin Twice(s) /\ s[i] # x => s[i] \notin ToSet(t)
  BY <1>1, <1>2, Elements
<1>7. t = [s EXCEPT ![i] = x]
  BY DEF t
<1> QED BY <1>1, <1>3, <1>4, <1>5, <1>6, <1>7

-----------------------------------------------------------------------------
(* The blocks of a channel.                                                *)

\* A block with posts of A, where at most those of D are listed twice.
BlockIn(A, D) == [order : {s \in Seq(A) : Twice(s) \subseteq D},
                  recent : BOOLEAN, oldest : BOOLEAN]

\* The parts of a block, and what makes one.
LEMMA Blocks ==
    ASSUME NEW A, NEW D
    PROVE  /\ \A b \in BlockIn(A, D) : /\ b.order \in Seq(A) /\ Twice(b.order) \subseteq D
                                       /\ b.recent \in BOOLEAN /\ b.oldest \in BOOLEAN
           /\ \A s \in Seq(A), recent, oldest \in BOOLEAN :
                 Twice(s) \subseteq D => P!Block(s, recent, oldest) \in BlockIn(A, D)
BY DEF BlockIn, P!Block

\* A block gets another order.
Reorder(c, r, s) == [c EXCEPT ![r].order = s]

\* Only the order of that block changes.
LEMMA Reordered ==
    \A A, D, c, r, s :
       c \in Seq(BlockIn(A, D)) /\ r \in DOMAIN c /\ s \in Seq(A) /\ Twice(s) \subseteq D
       => /\ Reorder(c, r, s) \in Seq(BlockIn(A, D))
          /\ DOMAIN Reorder(c, r, s) = DOMAIN c /\ Len(Reorder(c, r, s)) = Len(c)
          /\ Reorder(c, r, s)[r].order = s /\ Reorder(c, r, s)[r].recent = c[r].recent
          /\ \A i \in DOMAIN c : i # r => Reorder(c, r, s)[i] = c[i]
<1> SUFFICES ASSUME NEW A, NEW D, NEW c \in Seq(BlockIn(A, D)), NEW r \in DOMAIN c,
                    NEW s \in Seq(A), Twice(s) \subseteq D
             PROVE  LET next == [c EXCEPT ![r].order = s] IN
                    /\ next \in Seq(BlockIn(A, D))
                    /\ DOMAIN next = DOMAIN c /\ Len(next) = Len(c)
                    /\ next[r].order = s /\ next[r].recent = c[r].recent
                    /\ \A i \in DOMAIN c : i # r => next[i] = c[i]
  BY DEF Reorder
<1> DEFINE b == [c[r] EXCEPT !.order = s]
<1>1. c[r] \in BlockIn(A, D)
  OBVIOUS
<1>2. b \in BlockIn(A, D) /\ b.order = s /\ b.recent = c[r].recent
  BY <1>1 DEF BlockIn
<1>3. [c EXCEPT ![r].order = s] = [c EXCEPT ![r] = b]
  OBVIOUS
<1> HIDE DEF b
<1>4. /\ [c EXCEPT ![r] = b] \in Seq(BlockIn(A, D))
      /\ DOMAIN [c EXCEPT ![r] = b] = DOMAIN c
      /\ Len([c EXCEPT ![r] = b]) = Len(c)
      /\ [c EXCEPT ![r] = b][r] = b
      /\ \A i \in DOMAIN c : i # r => [c EXCEPT ![r] = b][i] = c[i]
  BY <1>2
<1> QED BY <1>2, <1>3, <1>4

\* The recent block.
LEMMA Recent ==
    ASSUME NEW A, NEW D, NEW c \in Seq(BlockIn(A, D))
    PROVE  /\ P!RecentIndex(c) # 0 => /\ P!RecentIndex(c) \in DOMAIN c
                                      /\ c[P!RecentIndex(c)].recent
           /\ P!RecentIndex(c) = 0 => \A i \in DOMAIN c : ~ c[i].recent
<1> DEFINE I == {i \in 1..Len(c) : c[i].recent}
<1>1. P!RecentIndex(c) = IF I # {} THEN P!Min(I) ELSE 0
  BY DEF P!RecentIndex, P!SelectInSeq
<1>2. I # {} => P!Min(I) \in I
  <2> HIDE DEF I
  <2>1. I \in SUBSET (1..Len(c))
    BY DEF I
  <2> QED BY <2>1, First
<1>3. DOMAIN c = 1..Len(c) /\ Len(c) \in Nat
  OBVIOUS
<1> QED BY <1>1, <1>2, <1>3

\* One recent block stays, and lists a post in place of its pending post.
TakesPlace(c, next, id, pending) ==
    /\ Len(next) = 1 /\ next[1].recent
    /\ ToSet(next[1].order) \subseteq
          (ToSet(c[1].order) \cup {id}) \ (IF pending = id THEN {} ELSE {pending})

\* RECEIVED_NEW_POST keeps the lists lists, and lists nothing more often.
LEMMA NewPost ==
    ASSUME NEW A \in SUBSET Nat, NEW D, NEW c \in Seq(BlockIn(A, D)), c # Unloaded,
           NEW id \in A, NEW pending
    PROVE  LET next == P!ReceivedNewPost(c, id, pending) IN
           /\ next \in Seq(BlockIn(A, D))
           /\ Len(c) = 1 /\ c[1].recent /\ D = {} => TakesPlace(c, next, id, pending)
<1> DEFINE marked == IF P!RecentIndex(c) = 0 THEN Append(c, P!Block(<<>>, TRUE, FALSE)) ELSE c
           r == P!RecentIndex(marked)
           old == marked[r].order
           o1 == IF P!Contains(old, id) THEN old ELSE <<id>> \o old
           added == Reorder(marked, r, o1)
           o2 == P!RemoveFirst(o1, pending)
           removed == Reorder(added, r, o2)
           o3 == P!Sort(o2, P!ComparePosts)
           sorted == Reorder(removed, r, o3)
<1>1. /\ marked \in Seq(BlockIn(A, D))
      /\ \E i \in DOMAIN marked : marked[i].recent
      /\ Len(c) = 1 /\ c[1].recent => marked = c
  <2>1. <<>> \in Seq(A) /\ Twice(<<>>) \subseteq D
    BY DEF Twice
  <2>2. P!Block(<<>>, TRUE, FALSE) \in BlockIn(A, D) /\ P!Block(<<>>, TRUE, FALSE).recent
    BY <2>1, Blocks DEF P!Block
  <2>3. CASE P!RecentIndex(c) = 0
    <3> DEFINE b == P!Block(<<>>, TRUE, FALSE)
    <3>1. marked = Append(c, b)
      BY <2>3
    <3>2. b \in BlockIn(A, D) /\ b.recent
      BY <2>2
    <3> HIDE DEF b, marked
    <3>3. /\ marked \in Seq(BlockIn(A, D))
          /\ Len(c) + 1 \in DOMAIN marked /\ marked[Len(c) + 1] = b
      BY <3>1, <3>2
    <3>4. Len(c) = 1 => 1 \in DOMAIN c
      OBVIOUS
    <3>5. ~ (Len(c) = 1 /\ c[1].recent)
      BY <2>3, <3>4, Recent
    <3> QED BY <3>2, <3>3, <3>5
  <2>4. CASE P!RecentIndex(c) # 0
    BY <2>4, Recent
  <2> QED BY <2>3, <2>4
<1> HIDE DEF marked
<1>2. r \in DOMAIN marked /\ marked[r].recent
  BY <1>1, Recent
<1> HIDE DEF r
<1>3. old \in Seq(A) /\ Twice(old) \subseteq D
  BY <1>1, <1>2, Blocks
<1> HIDE DEF old
<1>4. o1 \in Seq(A) /\ Twice(o1) \subseteq D /\ ToSet(o1) \subseteq ToSet(old) \cup {id}
  <2>1. P!Contains(old, id) <=> id \in ToSet(old)
    BY <1>3, Elements DEF P!Contains
  <2>2. CASE id \in ToSet(old)
    BY <1>3, <2>1, <2>2
  <2>3. CASE id \notin ToSet(old)
    <3>1. /\ <<id>> \in Seq(A) /\ ToSet(<<id>>) = {id} /\ Twice(<<id>>) = {}
      BY One
    <3>2. /\ <<id>> \o old \in Seq(A)
          /\ ToSet(<<id>> \o old) = ToSet(<<id>>) \cup ToSet(old)
          /\ Twice(<<id>> \o old) \subseteq
                Twice(<<id>>) \cup Twice(old) \cup (ToSet(<<id>>) \cap ToSet(old))
      BY <1>3, <3>1, Concatenated
    <3>3. o1 = <<id>> \o old
      BY <2>1, <2>3
    <3> QED BY <1>3, <2>3, <3>1, <3>2, <3>3
  <2> QED BY <2>2, <2>3
<1> HIDE DEF o1
<1>5. /\ o2 \in Seq(A) /\ Twice(o2) \subseteq D /\ ToSet(o2) \subseteq ToSet(o1)
      /\ D = {} => pending \notin ToSet(o2)
  BY <1>4, Removed
<1> HIDE DEF o2
<1>6. o3 \in Seq(A) /\ Twice(o3) \subseteq D /\ ToSet(o3) = ToSet(o2)
  <2>1. Picks(o3, o2, DOMAIN o2)
    <3>1. o2 \in Seq(Nat)
      BY <1>5, Wider
    <3> QED BY <3>1, SortComparePosts
  <2>2. /\ o3 \in Seq(A) /\ Twice(o3) \subseteq Twice(o2)
        /\ ToSet(o3) = {o2[i] : i \in DOMAIN o2}
    BY <1>5, <2>1, Picked
  <2> QED BY <1>5, <2>2 DEF ToSet
<1> HIDE DEF o3
<1>7. /\ added \in Seq(BlockIn(A, D)) /\ DOMAIN added = DOMAIN marked
      /\ Len(added) = Len(marked) /\ added[r].order = o1 /\ added[r].recent
  BY <1>1, <1>2, <1>4, Reordered
<1>8. /\ removed \in Seq(BlockIn(A, D)) /\ DOMAIN removed = DOMAIN marked
      /\ Len(removed) = Len(marked) /\ removed[r].order = o2 /\ removed[r].recent
  <2> HIDE DEF added
  <2> QED BY <1>2, <1>5, <1>7, Reordered
<1>9. /\ sorted \in Seq(BlockIn(A, D)) /\ DOMAIN sorted = DOMAIN marked
      /\ Len(sorted) = Len(marked) /\ sorted[r].order = o3 /\ sorted[r].recent
  <2> HIDE DEF removed
  <2> QED BY <1>2, <1>6, <1>8, Reordered
<1>10. P!ReceivedNewPost(c, id, pending) =
          IF pending # id /\ P!Contains(o1, pending) THEN sorted ELSE added
  <2>1. added[r].order = o1 /\ removed[r].order = o2
    BY <1>7, <1>8
  <2>2. P!ReceivedNewPost(c, id, pending) =
          IF pending # id /\ P!Contains(added[r].order, pending)
          THEN Reorder(Reorder(added, r, P!RemoveFirst(added[r].order, pending)), r,
                       P!Sort(Reorder(added, r, P!RemoveFirst(added[r].order, pending))[r].order,
                              P!ComparePosts))
          ELSE added
    BY DEF P!ReceivedNewPost, Reorder, marked, r, old, o1
  <2>3. P!RemoveFirst(added[r].order, pending) = o2
    BY <2>1 DEF o2
  <2>4. P!Sort(Reorder(added, r, P!RemoveFirst(added[r].order, pending))[r].order,
               P!ComparePosts) = o3
    BY <2>1, <2>3 DEF o3
  <2> QED BY <2>1, <2>2, <2>3, <2>4
<1> HIDE DEF added, sorted
<1>11. P!Contains(o1, pending) <=> pending \in ToSet(o1)
  BY <1>4, Elements DEF P!Contains
<1>12. ASSUME Len(c) = 1, c[1].recent PROVE marked = c /\ r = 1
  BY <1>1, <1>2, <1>12
<1>13. CASE pending # id /\ P!Contains(o1, pending)
  <2>1. P!ReceivedNewPost(c, id, pending) = sorted
    BY <1>10, <1>13
  <2> QED BY <1>4, <1>5, <1>6, <1>9, <1>12, <1>13, <2>1 DEF old, TakesPlace
<1>14. CASE ~ (pending # id /\ P!Contains(o1, pending))
  <2>1. P!ReceivedNewPost(c, id, pending) = added
    BY <1>10, <1>14
  <2> QED BY <1>4, <1>7, <1>11, <1>12, <1>14, <2>1 DEF old, TakesPlace
<1> QED BY <1>13, <1>14

\* RECEIVED_POST lists nothing twice, unless it is the post itself beside its pending post.
LEMMA PostReceived ==
    ASSUME NEW A \in SUBSET Nat, NEW D, NEW c \in Seq(BlockIn(A, D)), c # Unloaded,
           NEW id \in A, NEW pending, pending # NoPost,
           \/ id \in D \/ id = pending
           \/ \A i \in DOMAIN c : pending \in ToSet(c[i].order) => id \notin ToSet(c[i].order)
    PROVE  LET next == P!ReceivedPost(c, id, pending) IN
           /\ next \in Seq(BlockIn(A, D))
           /\ Len(c) = 1 /\ c[1].recent /\ D = {} => TakesPlace(c, next, id, pending)
<1> DEFINE r == P!RecentIndex(c)
           old == c[r].order
           i == P!Min({j \in 1..Len(old) : old[j] = pending})
           o == [old EXCEPT ![i] = id]
<1>1. r # 0 => r \in DOMAIN c /\ c[r].recent
  BY Recent
<1>2. r = 0 => ~ (Len(c) = 1 /\ c[1].recent)
  <2>1. Len(c) = 1 => 1 \in DOMAIN c
    OBVIOUS
  <2> QED BY <2>1, Recent
<1>3. r # 0 => old \in Seq(A) /\ Twice(old) \subseteq D
  BY <1>1, Blocks
<1>4. r # 0 /\ r # 1 => Len(c) # 1
  BY <1>1
<1> HIDE DEF r
<1>5. P!ReceivedPost(c, id, pending) =
         IF r = 0 \/ {j \in 1..Len(old) : old[j] = pending} = {} \/ i = 0
         THEN c ELSE Reorder(c, r, o)
  <2>1. P!ReceivedPost(c, id, pending) =
           IF \/ r = 0
              \/ (IF {j \in 1..Len(old) : old[j] = pending} # {} THEN i ELSE 0) = 0
           THEN c
           ELSE [c EXCEPT ![r].order[IF {j \in 1..Len(old) : old[j] = pending} # {}
                                     THEN i ELSE 0] = id]
    BY DEF P!ReceivedPost, P!BlocksOf, P!SelectInSeq, r
  <2> DEFINE I == {j \in 1..Len(old) : old[j] = pending}
  <2>2. I = {} \/ i = 0 <=> (IF I # {} THEN i ELSE 0) = 0
    BY Zenon
  <2>3. CASE r = 0 \/ I = {} \/ i = 0
    BY <2>1, <2>2, <2>3
  <2>4. CASE ~ (r = 0 \/ I = {} \/ i = 0)
    <3>1. (IF I # {} THEN i ELSE 0) = i
      BY <2>4
    <3>2. P!ReceivedPost(c, id, pending) = [c EXCEPT ![r].order[i] = id]
      <4> HIDE DEF I, i, old
      <4> QED BY <2>1, <2>2, <2>4, <3>1 DEF I, old
    <3> QED BY <2>4, <3>2 DEF Reorder
  <2> QED BY <2>3, <2>4
<1> HIDE DEF old
<1>6. r # 0 => ({j \in 1..Len(old) : old[j] = pending} # {} <=> pending \in ToSet(old))
  <2> SUFFICES ASSUME r # 0 
               PROVE  {j \in 1..Len(old) : old[j] = pending} # {} <=> pending \in ToSet(old)
    OBVIOUS
  <2>1. DOMAIN old = 1..Len(old)
    BY <1>3
  <2> QED BY <2>1, Elements
<1>7. r # 0 /\ pending \in ToSet(old) => i \in DOMAIN old /\ old[i] = pending
  BY <1>3, Found
<1> HIDE DEF i
<1>8. CASE r = 0
  BY <1>2, <1>5, <1>8
<1>9. CASE r # 0 /\ pending \notin ToSet(old)
  <2>1. P!ReceivedPost(c, id, pending) = c
    BY <1>5, <1>6, <1>9
  <2> QED BY <1>4, <1>9, <2>1 DEF old, TakesPlace
<1>10. CASE r # 0 /\ pending \in ToSet(old)
  <2>1. i # 0
    BY <1>3, <1>7, <1>10
  <2>2. P!ReceivedPost(c, id, pending) = Reorder(c, r, o)
    BY <1>5, <1>6, <1>10, <2>1
  <2>3. /\ o \in Seq(A)
        /\ ToSet(o) \subseteq ToSet(old) \cup {id}
        /\ Twice(o) \subseteq Twice(old) \cup {id}
        /\ id \notin ToSet(old) => Twice(o) \subseteq Twice(old)
        /\ pending \notin Twice(old) /\ pending # id => pending \notin ToSet(o)
    <3>1. old \in Seq(A) /\ i \in DOMAIN old /\ old[i] = pending
      BY <1>3, <1>7, <1>10
    <3> QED BY <3>1, Replaced
  <2>4. id = pending => o = old
    BY <1>3, <1>7, <1>10
  <2> HIDE DEF o
  <2>5. Twice(o) \subseteq D
    <3>1. CASE id \in D
      BY <1>3, <1>10, <2>3, <3>1
    <3>2. CASE id = pending
      BY <1>3, <1>10, <2>4, <3>2
    <3>3. CASE id \notin ToSet(old)
      BY <1>3, <1>10, <2>3, <3>3
    <3>4. id \in D \/ id = pending \/ id \notin ToSet(old)
      BY <1>1, <1>10 DEF old
    <3> QED BY <3>1, <3>2, <3>3, <3>4
  <2>6. /\ Reorder(c, r, o) \in Seq(BlockIn(A, D)) /\ Len(Reorder(c, r, o)) = Len(c)
        /\ Reorder(c, r, o)[r].order = o /\ Reorder(c, r, o)[r].recent
    BY <1>1, <1>10, <2>3, <2>5, Reordered
  <2>7. D = {} => pending \notin Twice(old)
    BY <1>3, <1>10
  <2> QED BY <1>4, <1>10, <2>2, <2>3, <2>6, <2>7 DEF old, TakesPlace
<1> QED BY <1>8, <1>9, <1>10

\* RECEIVED_POST keeps the blocks, in any entry.
LEMMA PostTakesPlace ==
    \A A, D, c, id, pending :
       /\ A \in SUBSET Nat /\ c \in Seq(BlockIn(A, D)) /\ c # Unloaded
       /\ id \in A /\ pending # NoPost
       /\ \/ id \in D \/ id = pending
          \/ \A i \in DOMAIN c : pending \in ToSet(c[i].order) => id \notin ToSet(c[i].order)
       => P!ReceivedPost(c, id, pending) \in Seq(BlockIn(A, D))
BY PostReceived

\* Blocks are taken from the list of blocks.
LEMMA Kept ==
    ASSUME NEW A, NEW D, NEW c \in Seq(BlockIn(A, D))
    PROVE  LET next == P!RemoveNonRecentEmptyPostBlocks(c) IN
           /\ next \in Seq(BlockIn(A, D))
           /\ ToSet(next) \subseteq ToSet(c)
           /\ Len(c) = 1 /\ c[1].recent => Len(next) = 1 /\ next[1] = c[1]
<1> DEFINE I == {i \in DOMAIN c : c[i].order # <<>> \/ c[i].recent}
           next == P!Filter(c, I)
<1>1. P!RemoveNonRecentEmptyPostBlocks(c) = next
  BY DEF P!RemoveNonRecentEmptyPostBlocks
<1>2. I \in SUBSET DOMAIN c
  OBVIOUS
<1>3. Len(c) = 1 /\ c[1].recent => I = {1}
  BY DEF I
<1> HIDE DEF I
<1>4. Picks(next, c, I)
  BY <1>2, FilterPicks
<1> HIDE DEF next
<1>5. next \in Seq(BlockIn(A, D)) /\ ToSet(next) = {c[i] : i \in I}
  BY <1>2, <1>4, Picked
<1>6. ToSet(next) \subseteq ToSet(c)
  BY <1>2, <1>5 DEF ToSet
<1>7. I = {1} => Len(next) = 1 /\ next[1] = c[1]
  BY <1>4, <1>5, PickedOne
<1> QED BY <1>1, <1>3, <1>5, <1>6, <1>7

Leaves(c, next, gone) ==
    /\ Len(next) = 1 /\ next[1].recent
    /\ ToSet(next[1].order) = ToSet(c[1].order) \ gone

\* POST_REMOVED takes posts from the lists.
LEMMA PostsGone ==
    ASSUME NEW A \in SUBSET Nat, NEW D, NEW c \in Seq(BlockIn(A, D)), c # Unloaded, NEW gone
    PROVE  LET next == P!PostsRemoved(c, gone) IN
           /\ next \in Seq(BlockIn(A, D))
           /\ Len(c) = 1 /\ c[1].recent => Leaves(c, next, gone)
<1> DEFINE O(s) == P!Filter(s, {k \in DOMAIN s : s[k] \notin gone})
           left == [i \in DOMAIN c |-> [c[i] EXCEPT !.order = O(c[i].order)]]
<1>1. ASSUME NEW s \in Seq(A), Twice(s) \subseteq D
      PROVE  /\ O(s) \in Seq(A) /\ Twice(O(s)) \subseteq D
             /\ ToSet(O(s)) = ToSet(s) \ gone
  <2> DEFINE I == {k \in DOMAIN s : s[k] \notin gone}
  <2>1. I \in SUBSET DOMAIN s
    OBVIOUS
  <2>2. {s[k] : k \in I} = ToSet(s) \ gone
    BY DEF ToSet
  <2> HIDE DEF I
  <2>3. Picks(P!Filter(s, I), s, I)
    BY <2>1, FilterPicks
  <2>4. /\ P!Filter(s, I) \in Seq(A) /\ Twice(P!Filter(s, I)) \subseteq Twice(s)
        /\ ToSet(P!Filter(s, I)) = {s[k] : k \in I}
    BY <2>1, <2>3, Picked
  <2> QED BY <1>1, <2>2, <2>4 DEF I
<1>2. P!PostsRemoved(c, gone) =
         IF left = c THEN c ELSE P!RemoveNonRecentEmptyPostBlocks(left)
  BY DEF P!PostsRemoved, P!BlocksOf
<1> HIDE DEF O
<1>3. ASSUME NEW i \in DOMAIN c
      PROVE  /\ left[i] \in BlockIn(A, D) /\ left[i].recent = c[i].recent
             /\ ToSet(left[i].order) = ToSet(c[i].order) \ gone
  <2>1. c[i] \in BlockIn(A, D) /\ c[i].order \in Seq(A) /\ Twice(c[i].order) \subseteq D
    BY Blocks
  <2>2. /\ O(c[i].order) \in Seq(A) /\ Twice(O(c[i].order)) \subseteq D
        /\ ToSet(O(c[i].order)) = ToSet(c[i].order) \ gone
    BY <1>1, <2>1
  <2>3. left[i] = [c[i] EXCEPT !.order = O(c[i].order)]
    OBVIOUS
  <2> HIDE DEF left
  <2> QED BY <2>1, <2>2, <2>3 DEF BlockIn
<1>4. DOMAIN c = 1..Len(c) /\ Len(c) \in Nat /\ DOMAIN left = DOMAIN c
  OBVIOUS
<1>5. left \in Seq(BlockIn(A, D)) /\ Len(left) = Len(c)
  <2>1. left = [i \in 1..Len(c) |-> left[i]]
    BY <1>4
  <2> HIDE DEF left
  <2> QED BY <1>3, <1>4, <2>1
<1> HIDE DEF left
<1> DEFINE next == P!RemoveNonRecentEmptyPostBlocks(left)
<1>6. /\ next \in Seq(BlockIn(A, D))
      /\ Len(left) = 1 /\ left[1].recent => Len(next) = 1 /\ next[1] = left[1]
  BY <1>5, Kept
<1> HIDE DEF next
<1>7. CASE left = c
  BY <1>2, <1>3, <1>4, <1>7 DEF Leaves
<1>8. CASE left # c
  <2>1. P!PostsRemoved(c, gone) = next
    BY <1>2, <1>8 DEF next
  <2>2. Len(c) = 1 => 1 \in DOMAIN c
    BY <1>4
  <2> QED BY <1>3, <1>5, <1>6, <2>1, <2>2 DEF Leaves
<1> QED BY <1>7, <1>8

\* A finite set of posts, listed from the newest.
LEMMA Listing ==
    ASSUME NEW S \in SUBSET Nat, IsFiniteSet(S)
    PROVE  NewestFirst(S) \in Seq(S) /\ ToSet(NewestFirst(S)) = S /\ Twice(NewestFirst(S)) = {}
<1> DEFINE R == {q \in S \X S : q[1] > q[2]}
           p == P!Enumerate(S, LAMBDA x, y : x > y)
<1>1. \A x, y \in S : <<x, y>> \in R <=> x > y
  OBVIOUS
<1> HIDE DEF R, p
<1>2. Orders(R, S)
  BY <1>1 DEF Orders
<1>3. \A x \in S : P!Cardinality({y \in S \ {x} : y > x}) = Cardinality(Below(R, S, x))
  <2>1. \A x \in S : {y \in S \ {x} : y > x} = Below(R, S, x)
    BY <1>1 DEF Below
  <2> QED BY <2>1, SameCardinality
<1>4. \A k \in 1..P!Cardinality(S) :
         \E x \in S : P!Cardinality({y \in S \ {x} : y > x}) = k - 1
  <2>1. \A k \in 1..Cardinality(S) : \E x \in S : Cardinality(Below(R, S, x)) = k - 1
    BY <1>2, RankTaken
  <2> QED BY <2>1, <1>3, SameCardinality
<1>5. p = [k \in 1..P!Cardinality(S) |-> p[k]]
  <2> DEFINE Chosen(k) == CHOOSE x \in S : P!Cardinality({y \in S \ {x} : y > x}) = k - 1
  <2>1. p = [k \in 1..P!Cardinality(S) |-> Chosen(k)]
    BY DEF P!Enumerate, p
  <2> HIDE DEF Chosen
  <2> QED BY <2>1
<1>6. \A k \in 1..P!Cardinality(S) :
         p[k] \in S /\ P!Cardinality({y \in S \ {p[k]} : y > p[k]}) = k - 1
  BY <1>4 DEF P!Enumerate, p
<1>7. Enumerates(p, S)
  <2>1. \A k \in 1..Cardinality(S) : p[k] \in S /\ Cardinality(Below(R, S, p[k])) = k - 1
    BY <1>3, <1>6, SameCardinality
  <2>2. p = [k \in 1..Cardinality(S) |-> p[k]]
    BY <1>5, SameCardinality
  <2> QED BY <1>2, <2>1, <2>2, ByRank
<1>8. PICK n \in Nat : /\ p \in [1..n -> S]
                       /\ \A x \in S : \E k \in 1..n : p[k] = x
                       /\ \A k, l \in 1..n : p[k] = p[l] => k = l
  BY <1>7 DEF Enumerates
<1>9. p \in Seq(S) /\ ToSet(p) = S /\ Twice(p) = {}
  <2>1. p \in Seq(S) /\ DOMAIN p = 1..n
    BY <1>8
  <2>2. ToSet(p) = S
    <3>1. ASSUME NEW x \in S PROVE x \in ToSet(p)
      BY <1>8, <2>1, Elements
    <3>2. ASSUME NEW x \in ToSet(p) PROVE x \in S
      <4>1. PICK k \in DOMAIN p : p[k] = x
        BY Elements
      <4> QED BY <1>8, <2>1, <4>1
    <3> QED BY <3>1, <3>2
  <2>3. \A x : x \notin Twice(p)
    BY <1>8, <2>1, Elements
  <2> QED BY <2>1, <2>2, <2>3
<1>10. NewestFirst(S) = p
  BY DEF NewestFirst, p
<1> QED BY <1>9, <1>10

\* RECEIVED_POSTS_SINCE adds posts that the recent block does not list yet.
LEMMA PostsSince ==
    ASSUME NEW A \in SUBSET Nat, NEW D, NEW c \in Seq(BlockIn(A, D)), c # Unloaded,
           NEW order \in Seq(A), Twice(order) = {}
    PROVE  P!ReceivedPostsSince(c, order) \in Seq(BlockIn(A, D))
<1> DEFINE r == P!RecentIndex(c)
           old == c[r].order
           new == {i \in DOMAIN order : /\ CreateAt(order[i]) > P!EndsAt(c[r])
                                        /\ ~ P!Contains(old, order[i])}
           o1 == P!Filter(order, new) \o old
           o2 == P!Sort(o1, P!ComparePosts)
           added == Reorder(c, r, o1)
           sorted == Reorder(added, r, o2)
<1>1. r # 0 => r \in DOMAIN c
  BY Recent
<1> HIDE DEF r
<1>2. SUFFICES ASSUME r # 0 PROVE sorted \in Seq(BlockIn(A, D)) /\ added[r].order = o1
  <2>1. r = 0 => P!ReceivedPostsSince(c, order) = c
    BY DEF P!ReceivedPostsSince, P!BlocksOf, r
  <2>2. P!ReceivedPostsSince(c, order) =
           IF r = 0 \/ order = <<>> THEN c
           ELSE IF old = <<>> \/ new = {} THEN c
           ELSE Reorder(added, r, P!Sort(added[r].order, P!ComparePosts))
    BY DEF P!ReceivedPostsSince, P!BlocksOf, Reorder, r, old
  <2>3. added[r].order = o1 => P!Sort(added[r].order, P!ComparePosts) = o2
    OBVIOUS
  <2> HIDE DEF added, sorted, new, old, o1, o2
  <2>4. ASSUME r # 0, new # {}, sorted \in Seq(BlockIn(A, D)), added[r].order = o1
        PROVE  P!ReceivedPostsSince(c, order) \in Seq(BlockIn(A, D))
    BY <2>2, <2>3, <2>4 DEF sorted
  <2> QED BY <2>1, <2>2, <2>4
<1>3. old \in Seq(A) /\ Twice(old) \subseteq D
  BY <1>1, <1>2, Blocks
<1> HIDE DEF old
<1>4. o1 \in Seq(A) /\ Twice(o1) \subseteq D
  <2> DEFINE f == P!Filter(order, new)
  <2>1. new \in SUBSET DOMAIN order
    OBVIOUS
  <2>2. \A i \in new : order[i] \notin ToSet(old)
    <3>1. DOMAIN old = 1..Len(old)
      BY <1>3
    <3> QED BY <3>1, Elements DEF P!Contains
  <2> HIDE DEF new
  <2>3. Picks(f, order, new)
    BY <2>1, FilterPicks
  <2> HIDE DEF f
  <2>4. f \in Seq(A) /\ ToSet(f) = {order[i] : i \in new} /\ Twice(f) \subseteq {}
    BY <2>1, <2>3, Picked
  <2>5. /\ f \o old \in Seq(A)
        /\ Twice(f \o old) \subseteq Twice(f) \cup Twice(old) \cup (ToSet(f) \cap ToSet(old))
    BY <1>3, <2>4, Concatenated
  <2>6. ToSet(f) \cap ToSet(old) = {}
    BY <2>2, <2>4
  <2>7. o1 = f \o old
    BY DEF f
  <2> QED BY <1>3, <2>4, <2>5, <2>6, <2>7
<1> HIDE DEF o1
<1>5. o2 \in Seq(A) /\ Twice(o2) \subseteq D
  <2>1. o1 \in Seq(Nat)
    BY <1>4, Wider
  <2>2. Picks(o2, o1, DOMAIN o1)
    BY <2>1, SortComparePosts
  <2> QED BY <1>4, <2>2, Picked
<1> HIDE DEF o2
<1>6. added \in Seq(BlockIn(A, D)) /\ DOMAIN added = DOMAIN c /\ added[r].order = o1
  BY <1>1, <1>2, <1>4, Reordered
<1> HIDE DEF added
<1>7. sorted \in Seq(BlockIn(A, D))
  BY <1>1, <1>2, <1>5, <1>6, Reordered
<1> QED BY <1>6, <1>7

\* mergePostOrder adds the posts that are not listed yet.
LEMMA OrderMerged ==
    ASSUME NEW A \in SUBSET Nat, NEW D, NEW left \in Seq(A), NEW right \in Seq(A),
           Twice(left) \subseteq D, Twice(right) \subseteq D
    PROVE  /\ P!MergePostOrder(left, right) \in Seq(A)
           /\ Twice(P!MergePostOrder(left, right)) \subseteq D
<1> DEFINE I == {i \in DOMAIN right : ~ P!Contains(left, right[i])}
           f == P!Filter(right, I)
           o == left \o f
           sorted == P!Sort(o, P!Newer)
<1>1. P!MergePostOrder(left, right) = IF f = <<>> THEN left ELSE sorted
  BY DEF P!MergePostOrder
<1>2. I \in SUBSET DOMAIN right
  OBVIOUS
<1>3. \A i \in I : right[i] \notin ToSet(left)
  <2>1. DOMAIN left = 1..Len(left)
    OBVIOUS
  <2> QED BY <2>1, Elements DEF P!Contains
<1> HIDE DEF I
<1>4. Picks(f, right, I)
  BY <1>2, FilterPicks
<1> HIDE DEF f
<1>5. f \in Seq(A) /\ ToSet(f) = {right[i] : i \in I} /\ Twice(f) \subseteq D
  BY <1>2, <1>4, Picked
<1>6. o \in Seq(A) /\ Twice(o) \subseteq D
  <2>1. /\ o \in Seq(A)
        /\ Twice(o) \subseteq Twice(left) \cup Twice(f) \cup (ToSet(left) \cap ToSet(f))
    BY <1>5, Concatenated
  <2>2. ToSet(left) \cap ToSet(f) = {}
    BY <1>3, <1>5
  <2> QED BY <1>5, <2>1, <2>2
<1> HIDE DEF o
<1>7. sorted \in Seq(A) /\ Twice(sorted) \subseteq D
  <2>1. o \in Seq(Nat)
    BY <1>6, Wider
  <2>2. Picks(sorted, o, DOMAIN o)
    BY <2>1, SortNewer
  <2> HIDE DEF sorted
  <2> QED BY <1>6, <2>2, Picked
<1> HIDE DEF sorted
<1> QED BY <1>1, <1>7

\* One step of the merge.
LEMMA MergedNext ==
    ASSUME NEW A \in SUBSET Nat, NEW D, NEW merged \in Seq(BlockIn(A, D)),
           NEW b \in BlockIn(A, D)
    PROVE  P!MergeNext(merged, b) \in Seq(BlockIn(A, D))
<1> DEFINE a == P!Last(merged)
           o == P!MergePostOrder(a.order, b.order)
           both == P!Block(o, a.recent \/ b.recent, a.oldest \/ b.oldest)
<1>1. CASE merged = <<>> \/ P!EndsAt(a) > P!StartsAt(b)
  <2>1. P!MergeNext(merged, b) = Append(merged, b)
    BY <1>1 DEF P!MergeNext
  <2> QED BY <2>1
<1>2. CASE ~ (merged = <<>> \/ P!EndsAt(a) > P!StartsAt(b))
  <2>1. P!MergeNext(merged, b) = Append(P!Front(merged), both)
    BY <1>2 DEF P!MergeNext
  <2>2. Len(merged) \in Nat \ {0}
    BY <1>2
  <2>3. a \in BlockIn(A, D)
    BY <2>2 DEF P!Last
  <2>4. /\ a.order \in Seq(A) /\ Twice(a.order) \subseteq D
        /\ a.recent \in BOOLEAN /\ a.oldest \in BOOLEAN
        /\ b.order \in Seq(A) /\ Twice(b.order) \subseteq D
        /\ b.recent \in BOOLEAN /\ b.oldest \in BOOLEAN
    BY <2>3, Blocks
  <2>5. P!Front(merged) \in Seq(BlockIn(A, D))
    BY <2>2 DEF P!Front
  <2> HIDE DEF a
  <2>6. o \in Seq(A) /\ Twice(o) \subseteq D
    BY <2>4, OrderMerged
  <2> HIDE DEF o
  <2>7. both \in BlockIn(A, D)
    BY <2>4, <2>6 DEF BlockIn, P!Block
  <2> HIDE DEF both
  <2> QED BY <2>1, <2>5, <2>7
<1> QED BY <1>1, <1>2

\* The merge, block by block.
IsMerge(f, next) ==
    f = [i \in 0..Len(next) |-> IF i = 0 THEN <<>> ELSE P!MergeNext(f[i - 1], next[i])]

\* The function by which MergePostBlocks merges one block after the other exists, since
\* there is one up to every block: the fact about recursion that has to be proved.
LEMMA MergeExists ==
    ASSUME NEW T, NEW next \in Seq(T)
    PROVE  \E f : IsMerge(f, next)
<1> DEFINE n == Len(next)
           Upto(m) == \E f : f = [i \in 0..m |-> IF i = 0 THEN <<>>
                                                ELSE P!MergeNext(f[i - 1], next[i])]
           Missing == {m \in Nat : ~ Upto(m)}
<1>1. Upto(0)
  <2> DEFINE f == [i \in 0..0 |-> <<>>]
  <2>1. f = [i \in 0..0 |-> IF i = 0 THEN <<>> ELSE P!MergeNext(f[i - 1], next[i])]
    OBVIOUS
  <2> HIDE DEF f
  <2> QED BY <2>1
<1>2. ASSUME NEW m \in Nat, Upto(m) PROVE Upto(m + 1)
  <2>1. PICK f : f = [i \in 0..m |-> IF i = 0 THEN <<>> ELSE P!MergeNext(f[i - 1], next[i])]
    BY <1>2
  <2> DEFINE g == [i \in 0..(m + 1) |-> IF i = m + 1 THEN P!MergeNext(f[m], next[m + 1])
                                                     ELSE f[i]]
  <2>2. ASSUME NEW i \in 0..(m + 1)
        PROVE  g[i] = IF i = 0 THEN <<>> ELSE P!MergeNext(g[i - 1], next[i])
    <3>1. CASE i = 0
      <4>1. g[0] = f[0]
        OBVIOUS
      <4>2. f[0] = <<>>
        BY <2>1
      <4> QED BY <3>1, <4>1, <4>2
    <3>2. CASE i = m + 1
      <4>1. i - 1 = m /\ g[m] = f[m] /\ g[i] = P!MergeNext(f[m], next[m + 1])
        BY <3>2
      <4> QED BY <3>2, <4>1
    <3>3. CASE i # 0 /\ i # m + 1
      <4>1. i \in 0..m /\ i - 1 \in 0..(m + 1) /\ i - 1 # m + 1
        BY <3>3
      <4>2. g[i] = f[i] /\ g[i - 1] = f[i - 1]
        BY <3>3, <4>1
      <4>3. f[i] = P!MergeNext(f[i - 1], next[i])
        BY <2>1, <3>3, <4>1
      <4> QED BY <3>3, <4>2, <4>3
    <3> QED BY <3>1, <3>2, <3>3
  <2>3. g = [i \in 0..(m + 1) |-> g[i]]
    OBVIOUS
  <2> HIDE DEF g
  <2>4. g = [i \in 0..(m + 1) |-> IF i = 0 THEN <<>> ELSE P!MergeNext(g[i - 1], next[i])]
    BY <2>2, <2>3
  <2> QED BY <2>4
<1> HIDE DEF Upto
<1>3. Missing = {}
  <2> SUFFICES ASSUME Missing # {} PROVE FALSE
    OBVIOUS
  <2>1. PICK m \in Missing : \A y \in Missing : m <= y
    BY Least
  <2>2. m # 0
    BY <1>1
  <2>3. m - 1 \in Nat /\ m - 1 \notin Missing /\ (m - 1) + 1 = m
    BY <2>1, <2>2
  <2>4. Upto(m - 1)
    BY <2>3
  <2> QED BY <1>2, <2>3, <2>4
<1>4. n \in Nat
  OBVIOUS
<1>5. Upto(n)
  BY <1>3, <1>4
<1> QED BY <1>5 DEF Upto, IsMerge

\* Every stage of the merge is a list of blocks.
LEMMA MergeStages ==
    ASSUME NEW A \in SUBSET Nat, NEW D, NEW next \in Seq(BlockIn(A, D)),
           NEW f, IsMerge(f, next)
    PROVE  f[Len(next)] \in Seq(BlockIn(A, D))
<1> DEFINE n == Len(next)
           Wrong == {m \in 0..n : f[m] \notin Seq(BlockIn(A, D))}
<1>1. n \in Nat
  OBVIOUS
<1>2. \A i \in 0..n : f[i] = IF i = 0 THEN <<>> ELSE P!MergeNext(f[i - 1], next[i])
  BY DEF IsMerge
<1> HIDE DEF n
<1>3. SUFFICES ASSUME Wrong # {} PROVE FALSE
  BY <1>1 DEF n
<1>4. PICK m \in Wrong : \A y \in Wrong : m <= y
  <2>1. Wrong \in SUBSET Nat /\ Wrong # {}
    BY <1>1, <1>3
  <2> HIDE DEF Wrong
  <2> QED BY <2>1, Least
<1>5. f[0] \in Seq(BlockIn(A, D))
  <2>1. f[0] = <<>>
    BY <1>1, <1>2
  <2> QED BY <2>1
<1>6. m \in 1..n /\ m - 1 \in 0..n /\ m - 1 \notin Wrong
  BY <1>1, <1>4, <1>5
<1>7. f[m - 1] \in Seq(BlockIn(A, D)) /\ next[m] \in BlockIn(A, D)
  BY <1>6 DEF n
<1>8. f[m] = P!MergeNext(f[m - 1], next[m])
  BY <1>2, <1>6
<1>9. f[m] \in Seq(BlockIn(A, D))
  BY <1>7, <1>8, MergedNext
<1> QED BY <1>4, <1>9

\* mergePostBlocks makes blocks of blocks.
LEMMA BlocksMerged ==
    ASSUME NEW A \in SUBSET Nat, NEW D, NEW blocks \in Seq(BlockIn(A, D)),
           ~ P!MergeThrows(blocks)
    PROVE  P!MergePostBlocks(blocks) \in Seq(BlockIn(A, D))
<1> DEFINE kept == P!RemoveNonRecentEmptyPostBlocks(blocks)
           next == P!Sort(kept, LAMBDA a, b : P!StartsAt(a) > P!StartsAt(b))
           merged == CHOOSE f : IsMerge(f, next)
           all == merged[Len(next)]
<1>1. kept \in Seq(BlockIn(A, D))
  BY Kept
<1>2. Len(kept) > 1 => \A i \in DOMAIN kept : kept[i].order # <<>>
  BY DEF P!MergeThrows
<1>3. P!MergePostBlocks(blocks) = IF next = <<>> \/ Len(all) = Len(blocks) THEN blocks ELSE all
  BY DEF P!MergePostBlocks, IsMerge
<1> HIDE DEF kept
<1>4. Picks(next, kept, DOMAIN kept)
  <2>1. \A i \in DOMAIN kept : kept[i].order \in Seq(A)
    BY <1>1, Blocks
  <2>2. \A i, j \in DOMAIN kept : i # j => Len(kept) > 1
    BY <1>1
  <2>3. \A i, j \in DOMAIN kept : i # j => kept[i].order \in Seq(Nat) /\ kept[i].order # <<>>
    BY <1>2, <2>1, <2>2, Wider
  <2> QED BY <1>1, <2>3, SortBlocks
<1> HIDE DEF next
<1>5. next \in Seq(BlockIn(A, D))
  BY <1>1, <1>4, Picked
<1>6. IsMerge(merged, next)
  BY <1>5, MergeExists
<1> HIDE DEF merged
<1>7. all \in Seq(BlockIn(A, D))
  BY <1>5, <1>6, MergeStages
<1> HIDE DEF all
<1> QED BY <1>3, <1>7

\* RECEIVED_POSTS_IN_CHANNEL makes blocks of blocks.
LEMMA PageReceived ==
    ASSUME NEW A \in SUBSET Nat, NEW D, NEW c \in Seq(BlockIn(A, D)), c # Unloaded,
           NEW order \in Seq(A), Twice(order) = {}, NEW recent \in BOOLEAN, NEW oldest \in BOOLEAN
    PROVE  P!ReceivedPostsInChannel(c, order, recent, oldest) \in Seq(BlockIn(A, D))
<1> DEFINE r == P!RecentIndex(c)
           unmarked == IF recent /\ r # 0 THEN [c EXCEPT ![r].recent = FALSE] ELSE c
           b == P!Block(order, recent, oldest)
           next == Append(unmarked, b)
<1>1. \/ P!ReceivedPostsInChannel(c, order, recent, oldest) = c
      \/ P!ReceivedPostsInChannel(c, order, recent, oldest) =
            IF P!MergeThrows(next) THEN c ELSE P!MergePostBlocks(next)
  BY DEF P!ReceivedPostsInChannel, P!BlocksOf, P!AddBlock
<1>2. r # 0 => r \in DOMAIN c
  BY Recent
<1> HIDE DEF r
<1>3. unmarked \in Seq(BlockIn(A, D))
  <2>1. CASE ~ (recent /\ r # 0)
    BY <2>1
  <2>2. CASE recent /\ r # 0
    <3> DEFINE m == [c[r] EXCEPT !.recent = FALSE]
    <3>1. c[r] \in BlockIn(A, D)
      BY <1>2, <2>2
    <3>2. m \in BlockIn(A, D)
      BY <3>1 DEF BlockIn
    <3>3. unmarked = [c EXCEPT ![r] = m]
      BY <2>2
    <3> HIDE DEF m, unmarked
    <3> QED BY <1>2, <2>2, <3>2, <3>3
  <2> QED BY <2>1, <2>2
<1> HIDE DEF unmarked
<1>4. b \in BlockIn(A, D)
  BY Blocks
<1> HIDE DEF b
<1>5. next \in Seq(BlockIn(A, D))
  BY <1>3, <1>4
<1> HIDE DEF next
<1>6. ~ P!MergeThrows(next) => P!MergePostBlocks(next) \in Seq(BlockIn(A, D))
  BY <1>5, BlocksMerged
<1> QED BY <1>1, <1>6

-----------------------------------------------------------------------------
(* The inductive invariant.                                                *)

\* A page, a synchronisation or a retry may bring a post of the user beside its pending
\* post.
Disturbed == may \cap {"disconnect", "lost answer", "permalink"} # {}

\* The posts the server created for the user.
Own == {id \in Stored : createdFor[id] # NoPost}

\* Types: times and ids are in use once the clock has passed them, for a post written or a
\* post created, and an answer is only on its way for a post that was created.
Types ==
    /\ may \in Conditions
    /\ clock \in Time
    /\ Stored \subseteq 1..clock
    /\ \A id \in Stored : createdFor[id] \in Written \cup {NoPost}
    /\ createdFor = [id \in Stored |-> createdFor[id]]
    /\ request \in [Time -> {"unwritten", "sent", "created", "failed", "dismissed", "none"}]
    /\ Written \subseteq 1..clock
    /\ Written \cap Stored = {}
    /\ connected \in BOOLEAN
    /\ events \in Seq(Stored)
    /\ losses \in Nat
    /\ sync \subseteq (SUBSET Stored) \cup {NoReply}
    /\ thread \subseteq 1..clock
    /\ posts \subseteq 1..clock
    /\ failed \subseteq Written
    /\ pendingPostIds \subseteq Written
    /\ \A k \in Time : request[k] = "created" => Exists(k)

\* Only posts of the user are ever listed twice.
Lists == entry \in Seq(BlockIn(1..clock, IF Disturbed THEN Own ELSE {}))

\* A post on its way is pending, unless it is not marked as failed and so cannot be
\* retried.
Sending ==
    \A k \in Written : request[k] # "none" => k \in pendingPostIds \/ k \notin failed

\* As long as nothing brings a post beside its pending post, there is one block, and a post
\* that is stored is being answered for or has been, and once it is listed or was
\* answered for, the pending post is not listed and cannot come back.
Calm ==
    ~ Disturbed =>
       /\ connected /\ sync = {}
       /\ Len(entry) = 1 /\ entry[1].recent
       /\ \A id \in Own :
             /\ request[createdFor[id]] \in {"created", "none"}
             /\ request[createdFor[id]] = "none" \/ id \in posts => createdFor[id] \notin failed
             /\ id \in Listed \/ request[createdFor[id]] = "none"
                  => createdFor[id] \notin Listed

\* The inductive invariant.
Inv == Types /\ Lists /\ Sending /\ Calm

\* Time passes when a post is written or created.
LEMMA Clocks ==
    ASSUME Types
    PROVE  /\ MaxClock \in Nat \ {0} /\ Time \subseteq Nat /\ clock \in Nat \ {0}
           /\ 1..clock \subseteq Time
           /\ \A k \in Time : k # NoPost
           /\ clock < MaxClock => clock + 1 \in Time /\ 1..clock \subseteq 1..(clock + 1)
                                  /\ clock + 1 \notin 1..clock /\ clock + 1 \in 1..(clock + 1)
           /\ Written \subseteq Time /\ Stored \subseteq Time
BY ConstantsAssumption DEF Types, Time, Written

\* The types hold at first.
LEMMA TypesInit == Init => Types
<1> SUFFICES ASSUME Init PROVE Types
  OBVIOUS
<1>1. 1 \in Time /\ 1..clock = {1}
  BY ConstantsAssumption DEF Init, Time
<1>2. Written = {} /\ Stored = {1}
  BY DEF Init, Written, Stored
<1> QED BY <1>1, <1>2 DEF Init, Types, Exists, Time

\* The server stores a post.
LEMMA TypesCreate ==
    ASSUME Types, NEW pending \in Written \cup {NoPost}, Create(pending)
    PROVE  /\ clock' \in Time /\ 1..clock \subseteq 1..clock' /\ clock' = clock + 1
           /\ clock' \notin 1..clock
           /\ Stored' = Stored \cup {clock'} /\ Stored' \subseteq 1..clock'
           /\ createdFor' = [id \in Stored' |-> createdFor'[id]]
           /\ \A id \in Stored : createdFor'[id] = createdFor[id]
           /\ createdFor'[clock'] = pending
           /\ events' \in Seq(Stored')
<1>1. clock' \in Time /\ 1..clock \subseteq 1..clock' /\ clock' \in 1..clock'
      /\ clock' = clock + 1 /\ clock' \notin 1..clock
  BY Clocks DEF Create
<1>2. createdFor' = [id \in Stored \cup {clock'} |->
                        IF id = clock' THEN pending ELSE createdFor[id]]
  BY DEF Create
<1>3. DOMAIN createdFor' = Stored \cup {clock'}
  BY <1>2
<1>4. Stored' = Stored \cup {clock'} /\ Stored' \subseteq 1..clock'
  BY <1>1, <1>3 DEF Types, Stored
<1>5. \A id \in Stored : createdFor'[id] = createdFor[id]
  BY <1>1, <1>2 DEF Types
<1>6. createdFor'[clock'] = pending
  BY <1>2
<1>7. createdFor' = [id \in Stored' |-> createdFor'[id]]
  BY <1>2, <1>4
<1>8. events' \in Seq(Stored')
  <2>1. events \in Seq(Stored')
    BY <1>4, Wider DEF Types
  <2>2. clock' \in Stored'
    BY <1>4
  <2> QED BY <2>1, <2>2 DEF Create, Publish
<1> QED BY <1>1, <1>4, <1>5, <1>6, <1>7, <1>8

States == {"unwritten", "sent", "created", "failed", "dismissed", "none"}

\* A request moves on.
LEMMA Moves ==
    ASSUME Types, NEW k \in Time, request[k] # "unwritten",
           NEW s \in States \ {"unwritten"}, request' = [request EXCEPT ![k] = s]
    PROVE  /\ request' \in [Time -> States] /\ request'[k] = s
           /\ \A j \in Time : j # k => request'[j] = request[j]
           /\ Written' = Written /\ k \in Written
<1>1. /\ request' \in [Time -> States] /\ request'[k] = s
      /\ \A j \in Time : j # k => request'[j] = request[j]
  BY DEF Types, States
<1>2. Time' = Time
  BY DEF Time
<1>3. \A j \in Time : request'[j] # "unwritten" <=> request[j] # "unwritten"
  BY <1>1
<1> QED BY <1>1, <1>2, <1>3 DEF Written

\* Nothing stored, so everything else as it was.
LEMMA TypesSame ==
    ASSUME Types, UNCHANGED server, Written' = Written, request' \in [Time -> States],
           may' = may,
           \A k \in Time : request'[k] = "created" => request[k] = "created" \/ Exists(k),
           connected' \in BOOLEAN, events' \in Seq(Stored), losses' \in Nat,
           sync' \subseteq (SUBSET Stored) \cup {NoReply},
           thread' \subseteq 1..clock, posts' \subseteq 1..clock,
           failed' \subseteq Written, pendingPostIds' \subseteq Written
    PROVE  Types'
<1>1. Stored' = Stored /\ Time' = Time /\ clock' = clock /\ createdFor' = createdFor
  BY DEF server, Stored, Time
<1>2. \A k : Exists(k)' <=> Exists(k)
  BY <1>1 DEF Exists
<1> QED BY <1>1, <1>2 DEF Types, States

\* The user writes a post: its time is in use from then on.
LEMMA TypesWrite == ASSUME Types, Write PROVE Types'
<1>1. /\ clock' = clock + 1 /\ clock' \in Time /\ 1..clock \subseteq 1..clock'
      /\ clock' \notin 1..clock /\ clock' \in 1..clock' /\ clock' # NoPost
  BY Clocks DEF Write
<1>2. /\ request' \in [Time -> States] /\ request'[clock'] = "sent"
      /\ \A j \in Time : j # clock' => request'[j] = request[j]
  BY <1>1 DEF Write, Types, States
<1>3. Time' = Time
  BY DEF Time
<1>4. Written' = Written \cup {clock'}
  <2>1. Written' = {k \in Time : request'[k] # "unwritten"}
    BY <1>3 DEF Written
  <2> QED BY <1>1, <1>2, <2>1 DEF Written
<1>5. /\ createdFor' = createdFor /\ Stored' = Stored
      /\ \A k : Exists(k)' <=> Exists(k)
  BY DEF Write, Stored, Exists
<1>6. Written' \subseteq 1..clock' /\ Written' \cap Stored' = {}
  BY <1>1, <1>4, <1>5 DEF Types
<1>7. /\ thread' \subseteq 1..clock' /\ posts' \subseteq 1..clock'
      /\ pendingPostIds' \subseteq Written' /\ failed' \subseteq Written'
  BY <1>1, <1>4 DEF Write, ReceivedNewPost, HandlePostReceived, ReplacePending, Types
<1>8. \A k \in Time : request'[k] = "created" => Exists(k)
  BY <1>1, <1>2 DEF Types
<1>9. UNCHANGED <<createdFor, connected, events, losses, sync, may>>
  BY DEF Write, socket
<1> QED BY <1>1, <1>2, <1>3, <1>4, <1>5, <1>6, <1>7, <1>8, <1>9 DEF Types, States

\* The server stores a post: its id is new, and only its request becomes "created".
LEMMA TypesStored ==
    ASSUME Types, NEW pending \in Written \cup {NoPost}, Create(pending),
           request' \in [Time -> States], Written' = Written,
           \A k \in Time : request'[k] = "created" => request[k] = "created" \/ k = pending,
           UNCHANGED <<sync, client, may>>
    PROVE  Types'
<1>1. /\ clock' \in Time /\ 1..clock \subseteq 1..clock' /\ clock' = clock + 1
      /\ clock' \notin 1..clock
      /\ Stored' = Stored \cup {clock'} /\ Stored' \subseteq 1..clock'
      /\ createdFor' = [id \in Stored' |-> createdFor'[id]]
      /\ \A id \in Stored : createdFor'[id] = createdFor[id]
      /\ createdFor'[clock'] = pending
      /\ events' \in Seq(Stored')
  BY TypesCreate
<1>2. Time' = Time
  BY DEF Time
<1>3. \A id \in Stored' : createdFor'[id] \in Written \cup {NoPost}
  BY <1>1 DEF Types
<1>4. \A k \in Time : request'[k] = "created" => Exists(k)'
  <2>1. \A k : Exists(k) => Exists(k)'
    BY <1>1 DEF Exists
  <2>2. Exists(pending)'
    BY <1>1 DEF Exists
  <2> QED BY <2>1, <2>2 DEF Types
<1>5. UNCHANGED <<connected, losses, sync, entry, thread, posts, failed, pendingPostIds, may>>
  BY DEF Create, client
<1>6. Written' \cap Stored' = {} /\ Written' \subseteq 1..clock'
  BY <1>1 DEF Types
<1>7. sync' \subseteq (SUBSET Stored') \cup {NoReply}
  BY <1>1, <1>5 DEF Types
<1> QED BY <1>1, <1>2, <1>3, <1>4, <1>5, <1>6, <1>7 DEF Types, States

\* Every step keeps the types.
LEMMA TypesNext == Types /\ [Next]_vars => Types'
<1> SUFFICES ASSUME Types, [Next]_vars PROVE Types'
  OBVIOUS
<1>0. /\ request \in [Time -> States] /\ Written \subseteq 1..clock /\ Stored \subseteq 1..clock
      /\ failed \subseteq Written /\ pendingPostIds \subseteq Written
      /\ thread \subseteq 1..clock /\ posts \subseteq 1..clock
      /\ connected \in BOOLEAN /\ events \in Seq(Stored) /\ losses \in Nat
      /\ sync \subseteq (SUBSET Stored) \cup {NoReply}
      /\ \A k \in Written : k \in Time /\ request[k] # "unwritten"
  BY DEF Types, States, Written
<1>1. CASE Write
  BY <1>1, TypesWrite
<1>2. ASSUME NEW k \in Time, Retry(k) PROVE Types'
  <2>1. k \in Written /\ request[k] # "unwritten" /\ k \in 1..clock
    BY <1>0, <1>2 DEF Retry
  <2>2. /\ request' \in [Time -> States] /\ Written' = Written
        /\ \A j \in Time : request'[j] = "created" => request[j] = "created"
    BY <1>2, <2>1, Moves DEF Retry, States
  <2>3. /\ thread' \subseteq 1..clock /\ posts' \subseteq 1..clock
        /\ pendingPostIds' \subseteq Written
    BY <1>0, <1>2, <2>1 DEF Retry, ReceivedNewPost, HandlePostReceived, ReplacePending
  <2> QED BY <1>0, <1>2, <2>2, <2>3, TypesSame DEF Retry, socket
<1>3. ASSUME NEW k \in Time, Cancel(k) PROVE Types'
  <2>1. Written' = Written
    BY <1>3 DEF Cancel, Written, Time
  <2>2. /\ thread' \subseteq 1..clock /\ posts' \subseteq 1..clock
        /\ pendingPostIds' \subseteq Written /\ failed' \subseteq Written
    BY <1>0, <1>3 DEF Cancel, PostRemoved
  <2> QED BY <1>0, <1>3, <2>1, <2>2, TypesSame DEF Cancel, socket
<1>4. ASSUME NEW k \in Time, Accept(k) PROVE Types'
  <2>1. k \in Written /\ request[k] # "unwritten"
    BY <1>4 DEF Accept, Written
  <2>2. /\ request' \in [Time -> States] /\ Written' = Written
        /\ \A j \in Time : j # k => request'[j] = request[j]
    BY <1>4, <2>1, Moves DEF Accept, States
  <2>3. CASE Exists(k)
    <3>1. \A j \in Time : request'[j] = "created" => request[j] = "created" \/ Exists(j)
      BY <2>2, <2>3
    <3> QED BY <1>0, <1>4, <2>2, <2>3, <3>1, TypesSame DEF Accept, socket, client
  <2>4. CASE ~ Exists(k)
    <3>1. Create(k) /\ UNCHANGED <<sync, client, may>>
      BY <1>4, <2>4 DEF Accept
    <3>2. \A j \in Time : request'[j] = "created" => request[j] = "created" \/ j = k
      BY <2>2
    <3> QED BY <2>1, <2>2, <3>1, <3>2, TypesStored
  <2> QED BY <2>3, <2>4
<1>5. ASSUME NEW k \in Time, Fail(k) \/ Dismiss(k) PROVE Types'
  <2>1. request[k] # "unwritten"
    BY <1>5 DEF Fail, Dismiss
  <2>2. /\ request' \in [Time -> States] /\ Written' = Written
        /\ \A j \in Time : request'[j] = "created" => request[j] = "created"
    BY <1>5, <2>1, Moves DEF Fail, Dismiss, States
  <2> QED BY <1>0, <1>5, <2>2, TypesSame DEF Fail, Dismiss, socket, client
<1>6. ASSUME NEW k \in Time, ReceiveCreated(k) PROVE Types'
  <2>1. request[k] # "unwritten" /\ Exists(k) /\ PostOf(k) \in Stored /\ k \in Written
    BY <1>6 DEF ReceiveCreated, Types, Exists, PostOf, Written
  <2>2. /\ request' \in [Time -> States] /\ Written' = Written
        /\ \A j \in Time : request'[j] = "created" => request[j] = "created"
    BY <1>6, <2>1, Moves DEF ReceiveCreated, Answered, States
  <2>3. /\ thread' \subseteq 1..clock /\ posts' \subseteq 1..clock
        /\ pendingPostIds' \subseteq Written /\ failed' \subseteq Written
    BY <1>0, <1>6, <2>1 DEF ReceiveCreated, ReceivedPost, HandlePostReceived, ReplacePending
  <2> QED BY <1>0, <1>6, <2>2, <2>3, TypesSame DEF ReceiveCreated, socket
<1>7. ASSUME NEW k \in Time, ReceiveFailure(k) PROVE Types'
  <2>1. request[k] # "unwritten" /\ k \in Written
    BY <1>7 DEF ReceiveFailure, Written
  <2>2. /\ request' \in [Time -> States] /\ Written' = Written
        /\ \A j \in Time : request'[j] = "created" => request[j] = "created"
    BY <1>7, <2>1, Moves DEF ReceiveFailure, Answered, States
  <2>3. /\ thread' \subseteq 1..clock /\ posts' \subseteq 1..clock
        /\ pendingPostIds' \subseteq Written /\ failed' \subseteq Written
    BY <1>0, <1>7, <2>1 DEF ReceiveFailure, ReceivedPost, HandlePostReceived, ReplacePending
  <2> QED BY <1>0, <1>7, <2>2, <2>3, TypesSame DEF ReceiveFailure, socket
<1>8. ASSUME NEW k \in Time, ReceiveDismissal(k) PROVE Types'
  <2>1. request[k] # "unwritten"
    BY <1>8 DEF ReceiveDismissal
  <2>2. /\ request' \in [Time -> States] /\ Written' = Written
        /\ \A j \in Time : request'[j] = "created" => request[j] = "created"
    BY <1>8, <2>1, Moves DEF ReceiveDismissal, Answered, States
  <2>3. /\ thread' \subseteq 1..clock /\ posts' \subseteq 1..clock
        /\ pendingPostIds' \subseteq Written /\ failed' \subseteq Written
    BY <1>0, <1>8, <2>1 DEF ReceiveDismissal, PostRemoved
  <2> QED BY <1>0, <1>8, <2>2, <2>3, TypesSame DEF ReceiveDismissal, socket
<1>9. CASE OtherPost
  <2>1. Written' = Written /\ request' = request
    BY <1>9 DEF OtherPost, Written, Time
  <2> QED BY <1>0, <1>9, <2>1, TypesStored DEF OtherPost
<1>10. CASE ReceiveEvent
  <2>1. /\ Written' = Written /\ request' = request
        /\ Head(events) \in Stored /\ events' \in Seq(Stored)
    BY <1>0, <1>10 DEF ReceiveEvent, Written, Time
  <2>2. createdFor[Head(events)] \in Written \cup {NoPost}
    BY <2>1 DEF Types
  <2>3. /\ thread' \subseteq 1..clock /\ posts' \subseteq 1..clock
        /\ pendingPostIds' \subseteq Written /\ failed' \subseteq Written
    BY <1>0, <1>10, <2>1, <2>2 DEF ReceiveEvent, ReceivedNewPost, HandlePostReceived, ReplacePending
  <2> QED BY <1>0, <1>10, <2>1, <2>3, TypesSame DEF ReceiveEvent
<1>11. CASE Disconnect \/ Reconnect
  <2>1. Written' = Written
    BY <1>11 DEF Disconnect, Reconnect, Written, Time
  <2>2. /\ events' = <<>> \/ events' = events
        /\ losses' = losses + 1 \/ losses' = losses
    BY <1>11, Zenon DEF Disconnect, Reconnect
  <2>3. connected' \in BOOLEAN
    BY <1>11, Zenon DEF Disconnect, Reconnect
  <2>4. events' \in Seq(Stored) /\ losses' \in Nat
    <3>1. events \in Seq(Stored) /\ losses \in Nat
      BY <1>0
    <3>2. <<>> \in Seq(Stored) /\ losses + 1 \in Nat
      BY <3>1
    <3> QED BY <2>2, <3>1, <3>2
  <2> QED BY <1>0, <1>11, <2>1, <2>3, <2>4, TypesSame DEF Disconnect, Reconnect, client
<1>12. CASE AnswerSync \/ ReceiveSync
  <2>1. Written' = Written
    BY <1>12 DEF AnswerSync, ReceiveSync, Written, Time
  <2>2. thread' \subseteq 1..clock /\ posts' \subseteq 1..clock
    BY <1>0, <1>12 DEF AnswerSync, ReceiveSync, client
  <2>3. sync' \subseteq (SUBSET Stored) \cup {NoReply}
    BY <1>0, <1>12 DEF AnswerSync, ReceiveSync
  <2> QED BY <1>0, <1>12, <2>1, <2>2, <2>3, TypesSame DEF AnswerSync, ReceiveSync, socket, client
<1>13. ASSUME NEW target \in Time, OpenPermalink(target) PROVE Types'
  <2>1. Written' = Written
    BY <1>13 DEF OpenPermalink, Written, Time
  <2>2. thread' \subseteq 1..clock /\ posts' \subseteq 1..clock
    BY <1>0, <1>13 DEF OpenPermalink
  <2> QED BY <1>0, <1>13, <2>1, <2>2, TypesSame DEF OpenPermalink, socket
<1>14. CASE UNCHANGED vars
  <2>1. Written' = Written
    BY <1>14 DEF vars, Written, Time
  <2> QED BY <1>0, <1>14, <2>1, TypesSame DEF vars, socket, client
<1> QED BY <1>1, <1>2, <1>3, <1>4, <1>5, <1>6, <1>7, <1>8, <1>9, <1>10, <1>11, <1>12,
           <1>13, <1>14 DEF Next

\* How the requests, the marks of failed posts and pendingPostIds move together.
LEMMA SendingNext == Types /\ Sending /\ [Next]_vars => Sending'
<1> SUFFICES ASSUME Types, Sending, [Next]_vars, NEW j \in Time,
                    request'[j] # "unwritten", request'[j] # "none"
             PROVE  j \in pendingPostIds' \/ j \notin failed'
  BY DEF Sending, Written, Time
<1>0. /\ request \in [Time -> States] /\ failed \subseteq Written /\ Written \subseteq 1..clock
      /\ \A k \in Written : k \in Time /\ k # NoPost
  BY Clocks DEF Types, States, Written
<1>a. request'[j] = request[j] => j \in pendingPostIds \/ j \notin failed
  BY DEF Sending, Written
<1>b. ASSUME request[j] \notin {"unwritten", "none"} PROVE j \in pendingPostIds \/ j \notin failed
  BY <1>b DEF Sending, Written
<1>1. CASE Write
  <2>1. clock' \in Time /\ clock' \notin Written /\ clock' # NoPost
    BY <1>0, <1>1, Clocks DEF Write
  <2>2. CASE j = clock'
    BY <1>1, <2>1, <2>2 DEF Write, ReceivedNewPost
  <2>3. CASE j # clock'
    <3>1. request'[j] = request[j]
      BY <1>0, <1>1, <2>1, <2>3 DEF Write
    <3> QED BY <1>1, <1>a, <3>1 DEF Write, ReceivedNewPost
  <2> QED BY <2>2, <2>3
<1>2. ASSUME NEW k \in Time, Retry(k) PROVE j \in pendingPostIds' \/ j \notin failed'
  <2>1. k # NoPost
    BY Clocks
  <2>2. CASE j = k
    BY <1>2, <2>1, <2>2 DEF Retry, ReceivedNewPost
  <2>3. CASE j # k
    <3>1. request'[j] = request[j]
      BY <1>0, <1>2, <2>3 DEF Retry
    <3> QED BY <1>2, <1>a, <3>1 DEF Retry, ReceivedNewPost
  <2> QED BY <2>2, <2>3
<1>3. ASSUME NEW k \in Time, Cancel(k) PROVE j \in pendingPostIds' \/ j \notin failed'
  BY <1>3, <1>a DEF Cancel, PostRemoved
<1>4. ASSUME NEW k \in Time, Accept(k) \/ Fail(k) \/ Dismiss(k)
      PROVE  j \in pendingPostIds' \/ j \notin failed'
  <2>1. request[k] \notin {"unwritten", "none"}
    BY <1>4 DEF Accept, Fail, Dismiss
  <2>2. j = k \/ request'[j] = request[j]
    BY <1>0, <1>4 DEF Accept, Fail, Dismiss
  <2>3. pendingPostIds' = pendingPostIds /\ failed' = failed
    BY <1>4 DEF Accept, Fail, Dismiss, client
  <2> QED BY <1>a, <1>b, <2>1, <2>2, <2>3
<1>5. ASSUME NEW k \in Time, ReceiveCreated(k) \/ ReceiveFailure(k) \/ ReceiveDismissal(k)
      PROVE  j \in pendingPostIds' \/ j \notin failed'
  <2>1. request' = [request EXCEPT ![k] = "none"]
    BY <1>5 DEF ReceiveCreated, ReceiveFailure, ReceiveDismissal, Answered
  <2>2. j # k /\ request'[j] = request[j]
    BY <1>0, <2>1
  <2>3. pendingPostIds' = pendingPostIds \ {k} /\ failed' \subseteq failed \cup {k}
    BY <1>5 DEF ReceiveCreated, ReceiveFailure, ReceiveDismissal, ReceivedPost, PostRemoved
  <2> QED BY <1>a, <2>2, <2>3
<1>6. CASE ReceiveEvent
  BY <1>6, <1>a DEF ReceiveEvent, ReceivedNewPost
<1>7. CASE OtherPost \/ Disconnect \/ Reconnect \/ AnswerSync \/ ReceiveSync
  <2>1. UNCHANGED <<request, failed, pendingPostIds>>
    BY <1>7 DEF OtherPost, Disconnect, Reconnect, AnswerSync, ReceiveSync, client
  <2> QED BY <1>a, <2>1
<1>8. ASSUME NEW target \in Time, OpenPermalink(target)
      PROVE  j \in pendingPostIds' \/ j \notin failed'
  BY <1>8, <1>a DEF OpenPermalink
<1>9. CASE UNCHANGED vars
  BY <1>9, <1>a DEF vars, client
<1> QED BY <1>1, <1>2, <1>3, <1>4, <1>5, <1>6, <1>7, <1>8, <1>9 DEF Next

\* A step sends only what is not on its way.
LEMMA SentStep ==
    ASSUME Types, Sending, [Next]_vars, NEW j \in Written, request'[j] = "sent"
    PROVE  request[j] \in {"none", "sent"}
<1>0. /\ request \in [Time -> States] /\ failed \subseteq Written /\ Written \subseteq 1..clock
      /\ j \in Time
  BY DEF Types, States, Written
<1>1. CASE Write
  <2>1. clock' \in Time /\ clock' \notin Written
    BY <1>0, <1>1, Clocks DEF Write
  <2>2. request'[j] = request[j]
    BY <1>0, <1>1, <2>1 DEF Write
  <2> QED BY <2>2
<1>2. ASSUME NEW k \in Time, Retry(k) PROVE request[j] \in {"none", "sent"}
  <2>1. CASE j = k
    <3>1. k \in failed /\ k \notin pendingPostIds
      BY <1>2 DEF Retry, isPostIdSending
    <3> QED BY <1>0, <2>1, <3>1 DEF Sending
  <2>2. CASE j # k
    <3>1. request'[j] = request[j]
      BY <1>0, <1>2, <2>2 DEF Retry
    <3> QED BY <3>1
  <2> QED BY <2>1, <2>2
<1>3. ASSUME NEW k \in Time, Accept(k) \/ Fail(k) \/ Dismiss(k)
      PROVE  request[j] \in {"none", "sent"}
  <2>1. j # k
    BY <1>0, <1>3 DEF Accept, Fail, Dismiss
  <2>2. request'[j] = request[j]
    BY <1>0, <1>3, <2>1 DEF Accept, Fail, Dismiss
  <2> QED BY <2>2
<1>4. ASSUME NEW k \in Time, ReceiveCreated(k) \/ ReceiveFailure(k) \/ ReceiveDismissal(k)
      PROVE  request[j] \in {"none", "sent"}
  <2>1. request' = [request EXCEPT ![k] = "none"]
    BY <1>4 DEF ReceiveCreated, ReceiveFailure, ReceiveDismissal, Answered
  <2>2. request'[j] = request[j]
    BY <1>0, <2>1
  <2> QED BY <2>2
<1>5. CASE OtherPost \/ ReceiveEvent \/ Disconnect \/ Reconnect \/ AnswerSync \/ ReceiveSync
  BY <1>5 DEF OtherPost, ReceiveEvent, Disconnect, Reconnect, AnswerSync, ReceiveSync
<1>6. ASSUME NEW target \in Time, OpenPermalink(target) PROVE request[j] \in {"none", "sent"}
  BY <1>6 DEF OpenPermalink
<1>7. ASSUME NEW k \in Time, Cancel(k) PROVE request[j] \in {"none", "sent"}
  BY <1>7 DEF Cancel
<1>8. CASE UNCHANGED vars
  BY <1>8 DEF vars
<1> QED BY <1>1, <1>2, <1>3, <1>4, <1>5, <1>6, <1>7, <1>8 DEF Next

\* Who may be listed twice.
MayRepeat == IF Disturbed THEN Own ELSE {}

\* Blocks over a set are blocks over a larger one.
LEMMA Widened ==
    \A A, B, D, E, c : A \subseteq B /\ D \subseteq E /\ c \in Seq(BlockIn(A, D))
                          => c \in Seq(BlockIn(B, E))
<1> SUFFICES ASSUME NEW A, NEW B, NEW D, NEW E, A \subseteq B, D \subseteq E
             PROVE  BlockIn(A, D) \subseteq BlockIn(B, E)
  BY Wider
<1>1. \A s : s \in Seq(A) => s \in Seq(B)
  BY Wider
<1>2. {s \in Seq(A) : Twice(s) \subseteq D} \subseteq {s \in Seq(B) : Twice(s) \subseteq E}
  BY <1>1
<1> QED BY <1>2 DEF BlockIn

\* The channel is loaded.
LEMMA Loaded ==
    ASSUME Types, Lists
    PROVE  /\ entry # Unloaded /\ entry \in Seq(BlockIn(1..clock, MayRepeat))
           /\ 1..clock \in SUBSET Nat
<1>1. 1..clock \in SUBSET Nat
  BY Clocks
<1>2. entry \in Seq(BlockIn(1..clock, MayRepeat))
  BY DEF Lists, MayRepeat
<1>3. BlockIn(1..clock, MayRepeat) \subseteq [order : Seq(Nat), recent : BOOLEAN, oldest : BOOLEAN]
  <2>1. \A s : s \in Seq(1..clock) => s \in Seq(Nat)
    BY <1>1, Wider
  <2> QED BY <2>1 DEF BlockIn
<1>4. entry \in Seq([order : Seq(Nat), recent : BOOLEAN, oldest : BOOLEAN])
  BY <1>2, <1>3, Wider
<1> QED BY <1>1, <1>2, <1>4, ConstantsAssumption

\* Posts are stored for good.
LEMMA StoredKept ==
    ASSUME Types, [Next]_vars
    PROVE  /\ Stored \subseteq Stored' /\ \A id \in Stored : createdFor'[id] = createdFor[id]
           /\ 1..clock \subseteq 1..clock'
           /\ Disturbed' <=> Disturbed
           /\ MayRepeat \subseteq MayRepeat'
<1>1. /\ Stored \subseteq Stored' /\ \A id \in Stored : createdFor'[id] = createdFor[id]
      /\ 1..clock \subseteq 1..clock'
  <2>1. CASE Write
    BY <2>1, Clocks DEF Write, Stored
  <2>2. ASSUME NEW pending \in Written \cup {NoPost}, Create(pending)
        PROVE  /\ Stored \subseteq Stored' /\ \A id \in Stored : createdFor'[id] = createdFor[id]
               /\ 1..clock \subseteq 1..clock'
    BY <2>2, TypesCreate
  <2>3. CASE OtherPost
    BY <2>2, <2>3 DEF OtherPost
  <2>4. ASSUME NEW k \in Time, Accept(k)
        PROVE  /\ Stored \subseteq Stored' /\ \A id \in Stored : createdFor'[id] = createdFor[id]
               /\ 1..clock \subseteq 1..clock'
    <3>1. k \in Written
      BY <2>4 DEF Accept, Written
    <3>2. CASE Exists(k)
      BY <2>4, <3>2 DEF Accept, server, Stored
    <3>3. CASE ~ Exists(k)
      BY <2>2, <2>4, <3>1, <3>3 DEF Accept
    <3> QED BY <3>2, <3>3
  <2>5. ASSUME UNCHANGED server
        PROVE  /\ Stored \subseteq Stored' /\ \A id \in Stored : createdFor'[id] = createdFor[id]
               /\ 1..clock \subseteq 1..clock'
    BY <2>5 DEF server, Stored
  <2>6. ASSUME NEW k \in Time,
               \/ Retry(k) \/ Cancel(k) \/ Fail(k) \/ Dismiss(k)
               \/ ReceiveCreated(k) \/ ReceiveFailure(k) \/ ReceiveDismissal(k)
        PROVE  UNCHANGED server
    BY <2>6 DEF Retry, Cancel, Fail, Dismiss, ReceiveCreated, ReceiveFailure, ReceiveDismissal
  <2>7. CASE ReceiveEvent \/ Disconnect \/ Reconnect \/ AnswerSync \/ ReceiveSync
    <3>1. UNCHANGED server
      BY <2>7 DEF ReceiveEvent, Disconnect, Reconnect, AnswerSync, ReceiveSync
    <3> QED BY <2>5, <3>1
  <2>8. ASSUME NEW target \in Time, OpenPermalink(target) PROVE UNCHANGED server
    BY <2>8 DEF OpenPermalink
  <2>9. CASE UNCHANGED vars
    BY <2>5, <2>9 DEF vars
  <2> QED BY <2>1, <2>3, <2>4, <2>5, <2>6, <2>7, <2>8, <2>9 DEF Next
<1>2. may' = may
  BY DEF Next, vars, Write, Retry, Cancel, Accept, Fail, Dismiss, ReceiveCreated,
         ReceiveFailure, ReceiveDismissal, OtherPost, ReceiveEvent, Disconnect, Reconnect,
         AnswerSync, ReceiveSync, OpenPermalink
<1>3. Own \subseteq Own'
  BY <1>1 DEF Own
<1> QED BY <1>1, <1>2, <1>3 DEF Disturbed, MayRepeat

\* A set of posts of the server is finite.
LEMMA Finitely ==
    ASSUME Types, NEW S \in SUBSET Stored
    PROVE  IsFiniteSet(S) /\ S \in SUBSET Nat /\ S \in SUBSET (1..clock)
<1>1. clock \in Nat /\ S \in SUBSET (1..clock)
  BY Clocks DEF Types
<1>2. IsFiniteSet(1..clock)
  BY <1>1, FS_Interval
<1>3. 1..clock \in SUBSET Nat
  BY <1>1
<1>4. IsFiniteSet(S)
  BY <1>1, <1>2, FS_Subset
<1> QED BY <1>1, <1>3, <1>4

\* Every step keeps the blocks in order: only a post that Disturbed is about is ever listed
\* twice, one action of the reducer after the other.
LEMMA ListsNext == Inv /\ [Next]_vars => Lists'
<1> SUFFICES ASSUME Inv, [Next]_vars PROVE entry' \in Seq(BlockIn(1..clock', MayRepeat'))
  BY DEF Lists, MayRepeat
<1> DEFINE A == 1..clock
           D == MayRepeat
<1>0. Types /\ Lists
  BY DEF Inv
<1>1. /\ entry # Unloaded /\ entry \in Seq(BlockIn(A, D)) /\ A \in SUBSET Nat
      /\ Written \subseteq A /\ Stored \subseteq A
  BY <1>0, Loaded DEF Types
<1>2. SUFFICES ASSUME ~ Write PROVE entry' \in Seq(BlockIn(A, D))
  <2>1. A \subseteq 1..clock' /\ D \subseteq MayRepeat'
    BY <1>0, StoredKept
  <2>2. entry \in Seq(BlockIn(1..clock', MayRepeat'))
    BY <1>1, <2>1, Widened
  <2>3. ASSUME Write PROVE entry' \in Seq(BlockIn(1..clock', MayRepeat'))
    <3>1. clock' \in 1..clock' /\ 1..clock' \in SUBSET Nat
      BY <1>0, <2>3, Clocks DEF Write
    <3> DEFINE B == 1..clock'
               E == MayRepeat'
               k == clock'
    <3>2. entry' = P!ReceivedNewPost(entry, k, k)
      BY <2>3 DEF Write, ReceivedNewPost
    <3>3. entry \in Seq(BlockIn(B, E)) /\ B \in SUBSET Nat /\ k \in B
      BY <2>2, <3>1
    <3>4. entry # Unloaded
      BY <1>1
    <3> HIDE DEF B, E, k, A, D
    <3>5. entry' \in Seq(BlockIn(B, E))
      BY <3>2, <3>3, <3>4, NewPost
    <3> QED BY <3>5 DEF B, E
  <2>4. ASSUME entry' \in Seq(BlockIn(A, D)) PROVE entry' \in Seq(BlockIn(1..clock', MayRepeat'))
    BY <2>1, <2>4, Widened
  <2> QED BY <2>3, <2>4
<1> HIDE DEF A, D
<1>3. ASSUME NEW k \in Time, Retry(k) PROVE entry' \in Seq(BlockIn(A, D))
  <2>1. k \in A /\ entry' = P!ReceivedNewPost(entry, k, k)
    BY <1>0, <1>1, <1>3 DEF Retry, ReceivedNewPost, Types
  <2> QED BY <1>1, <2>1, NewPost
<1>4. ASSUME NEW k \in Time, Cancel(k) \/ ReceiveDismissal(k)
      PROVE  entry' \in Seq(BlockIn(A, D))
  <2>1. entry' = P!PostsRemoved(entry, {k})
    BY <1>4 DEF Cancel, ReceiveDismissal, PostRemoved
  <2> QED BY <1>1, <2>1, PostsGone
<1>5. ASSUME NEW k \in Time, ReceiveCreated(k) PROVE entry' \in Seq(BlockIn(A, D))
  <2> DEFINE id == PostOf(k)
  <2>1. id \in Stored /\ createdFor[id] = k
    BY <1>0, <1>5 DEF ReceiveCreated, Types, Exists, PostOf
  <2>2. entry' = P!ReceivedPost(entry, id, k)
    BY <1>5 DEF ReceiveCreated, ReceivedPost
  <2> HIDE DEF id
  <2>3. id \in A /\ k # NoPost
    BY <1>0, <1>1, <2>1, Clocks
  <2>4. id \in Own
    BY <2>1, <2>3 DEF Own
  <2>5. id \in D \/ \A i \in DOMAIN entry : k \in ToSet(entry[i].order)
                                              => id \notin ToSet(entry[i].order)
    <3>1. CASE Disturbed
      BY <2>4, <3>1 DEF MayRepeat, D
    <3>2. CASE ~ Disturbed
      <4>1. id \in Listed => k \notin Listed
        BY <2>1, <2>4, <3>2 DEF Inv, Calm
      <4>2. \A i \in DOMAIN entry : ToSet(entry[i].order) \subseteq Listed
        BY DEF Listed
      <4> QED BY <4>1, <4>2
    <3> QED BY <3>1, <3>2
  <2> QED BY <1>1, <2>2, <2>3, <2>5, PostTakesPlace
<1>6. ASSUME NEW k \in Time, ReceiveFailure(k) PROVE entry' \in Seq(BlockIn(A, D))
  <2>1. entry' = P!ReceivedPost(entry, k, k) /\ k # NoPost /\ k \in A
    BY <1>0, <1>1, <1>6, Clocks DEF ReceiveFailure, ReceivedPost, Written
  <2> QED BY <1>1, <2>1, PostReceived
<1>7. CASE ReceiveEvent
  <2> DEFINE id == Head(events)
             pending == createdFor[id]
  <2>1. id \in Stored
    BY <1>0, <1>7 DEF ReceiveEvent, Types
  <2>2. entry' = P!ReceivedNewPost(entry, id, pending)
    BY <1>7 DEF ReceiveEvent, ReceivedNewPost
  <2>3. id \in A
    BY <1>1, <2>1
  <2> HIDE DEF id, pending
  <2> QED BY <1>1, <2>2, <2>3, NewPost
<1>8. CASE ReceiveSync
  <2>1. PICK reply \in sync \ {NoReply} :
           entry' = P!ReceivedPostsSince(entry, NewestFirst(reply))
    BY <1>8 DEF ReceiveSync
  <2>2. reply \in SUBSET Stored
    BY <1>0 DEF Types
  <2>3. NewestFirst(reply) \in Seq(A) /\ Twice(NewestFirst(reply)) = {}
    <3>1. reply \in SUBSET Nat /\ IsFiniteSet(reply) /\ reply \subseteq A
      BY <1>0, <2>2, Finitely DEF A
    <3> QED BY <3>1, Listing, Wider
  <2> QED BY <1>1, <2>1, <2>3, PostsSince
<1>9. ASSUME NEW target \in Time, OpenPermalink(target) PROVE entry' \in Seq(BlockIn(A, D))
  <2> DEFINE page == {id \in Stored : Cardinality(Between(target, id)) <= 1}
             recent == \A id \in Stored : id <= Max(page)
             oldest == 1 \in page
  <2>1. entry' = P!ReceivedPostsInChannel(entry, NewestFirst(page), recent, oldest)
    BY <1>9 DEF OpenPermalink
  <2>2. recent \in BOOLEAN /\ oldest \in BOOLEAN /\ page \in SUBSET Stored
    OBVIOUS
  <2> HIDE DEF page, recent, oldest
  <2>3. NewestFirst(page) \in Seq(A) /\ Twice(NewestFirst(page)) = {}
    <3>1. page \in SUBSET Nat /\ IsFiniteSet(page) /\ page \subseteq A
      BY <1>0, <2>2, Finitely DEF A
    <3> QED BY <3>1, Listing, Wider
  <2> QED BY <1>1, <2>1, <2>2, <2>3, PageReceived
<1>10. ASSUME NEW k \in Time, Accept(k) \/ Fail(k) \/ Dismiss(k)
       PROVE  entry' \in Seq(BlockIn(A, D))
  <2>1. entry' = entry
    BY <1>10 DEF Accept, Fail, Dismiss, client
  <2> QED BY <1>1, <2>1
<1>11. CASE OtherPost \/ Disconnect \/ Reconnect \/ AnswerSync \/ UNCHANGED vars
  <2>1. entry' = entry
    BY <1>11 DEF OtherPost, Disconnect, Reconnect, AnswerSync, client, vars
  <2> QED BY <1>1, <2>1
<1> QED BY <1>2, <1>3, <1>4, <1>5, <1>6, <1>7, <1>8, <1>9, <1>10, <1>11 DEF Next

\* What the reducers do to the one block of an undisturbed behaviour.
LEMMA OneNewPost ==
    \A A, D, c, id, pending :
       /\ A \in SUBSET Nat /\ c \in Seq(BlockIn(A, D)) /\ c # Unloaded /\ id \in A
       /\ Len(c) = 1 /\ c[1].recent /\ D = {}
       => TakesPlace(c, P!ReceivedNewPost(c, id, pending), id, pending)
BY NewPost

\* RECEIVED_POST in a channel of one block.
LEMMA OnePostReceived ==
    \A A, D, c, id, pending :
       /\ A \in SUBSET Nat /\ c \in Seq(BlockIn(A, D)) /\ c # Unloaded
       /\ id \in A /\ pending # NoPost
       /\ \/ id = pending
          \/ \A i \in DOMAIN c : pending \in ToSet(c[i].order) => id \notin ToSet(c[i].order)
       /\ Len(c) = 1 /\ c[1].recent /\ D = {}
       => TakesPlace(c, P!ReceivedPost(c, id, pending), id, pending)
BY PostReceived

\* POST_REMOVED in a channel of one block.
LEMMA OnePostGone ==
    \A A, D, c, gone :
       /\ A \in SUBSET Nat /\ c \in Seq(BlockIn(A, D)) /\ c # Unloaded
       /\ Len(c) = 1 /\ c[1].recent /\ D = {}
       => Leaves(c, P!PostsRemoved(c, gone), gone)
BY PostsGone

\* What the lists show, in the one block.
LEMMA OneBlock ==
    ASSUME Len(entry) = 1, NEW T, entry \in Seq(T)
    PROVE  Listed = thread \cup ToSet(entry[1].order)
<1>1. DOMAIN entry = {1}
  OBVIOUS
<1> QED BY <1>1 DEF Listed

\* A post of the user keeps to its pending post through a step that stores nothing.
LEMMA CalmKept ==
    ASSUME Types, Calm, ~ Disturbed, UNCHANGED createdFor, UNCHANGED sync, connected' = connected,
           Len(entry') = 1, entry'[1].recent,
           \A id \in Own :
              LET k == createdFor[id] IN
              /\ request'[k] \in {"created", "none"}
              /\ request'[k] = "none" \/ id \in posts' => k \notin failed'
              /\ id \in Listed' \/ request'[k] = "none" => k \notin Listed'
    PROVE  Calm'
<1>1. createdFor' = createdFor /\ Own' = Own
  BY DEF Own, Stored
<1> QED BY <1>1 DEF Calm

\* Every step keeps a calm channel calm: whichever of the answer and the event of a post
\* comes first takes the pending post away, and the other does not bring it back.
LEMMA CalmNext == Inv /\ [Next]_vars /\ Types' /\ Lists' => Calm'
<1> SUFFICES ASSUME Inv, [Next]_vars, Types', Lists', ~ Disturbed PROVE Calm'
  <2>1. Inv /\ [Next]_vars => (Disturbed' <=> Disturbed)
    BY StoredKept DEF Inv
  <2> QED BY <2>1 DEF Calm
<1>0. Types /\ Lists /\ Sending /\ Calm
  BY DEF Inv
<1>1. /\ connected /\ sync = {} /\ Len(entry) = 1 /\ entry[1].recent
      /\ \A id \in Own : /\ request[createdFor[id]] \in {"created", "none"}
                         /\ request[createdFor[id]] = "none" \/ id \in posts
                              => createdFor[id] \notin failed
                         /\ id \in Listed \/ request[createdFor[id]] = "none"
                              => createdFor[id] \notin Listed
  BY <1>0 DEF Calm
<1> DEFINE D == MayRepeat
<1>2. /\ entry # Unloaded /\ entry \in Seq(BlockIn(1..clock, D)) /\ 1..clock \in SUBSET Nat
      /\ D = {}
  BY <1>0, Loaded DEF MayRepeat
<1> HIDE DEF D
<1>3. /\ Written \subseteq 1..clock /\ Stored \subseteq 1..clock /\ Written \cap Stored = {}
      /\ failed \subseteq Written /\ request \in [Time -> States]
      /\ thread \subseteq 1..clock /\ posts \subseteq 1..clock /\ 1..clock \subseteq Time
      /\ \A k \in Time : k # NoPost
  BY <1>0, Clocks DEF Types, States
<1>4. /\ Listed = thread \cup ToSet(entry[1].order) /\ Listed \subseteq 1..clock
      /\ entry[1].order \in Seq(1..clock)
  <2>1. Listed = thread \cup ToSet(entry[1].order)
    BY <1>1, <1>2, OneBlock
  <2>2. entry[1].order \in Seq(1..clock)
    BY <1>1, <1>2, Blocks
  <2>3. ToSet(entry[1].order) \subseteq 1..clock
    BY <2>2, Within
  <2> QED BY <1>3, <2>1, <2>2, <2>3
<1>5. \A id \in Own : /\ id \in Stored /\ createdFor[id] \in Written /\ createdFor[id] \in Time
                      /\ createdFor[id] # id
  BY <1>0, <1>3 DEF Own, Types
<1>6. ASSUME NEW shown, Len(entry') = 1, ToSet(entry'[1].order) \subseteq shown,
             thread' \subseteq shown
      PROVE  Listed' \subseteq shown
  <2>1. entry' \in Seq(BlockIn(1..clock, MayRepeat))'
    BY DEF Lists, MayRepeat
  <2>2. DOMAIN entry' = {1}
    BY <1>6, <2>1
  <2> QED BY <1>6, <2>2 DEF Listed
<1>7. may \cap {"disconnect", "lost answer", "permalink"} = {}
  BY DEF Disturbed
<1>8. ASSUME NEW id \in 1..clock', NEW pending, 1..clock' \in SUBSET Nat,
             1..clock \subseteq 1..clock',
             entry' = P!ReceivedNewPost(entry, id, pending),
             thread' = ReplacePending(thread, id, pending)
      PROVE  /\ Len(entry') = 1 /\ entry'[1].recent
             /\ Listed' \subseteq (Listed \cup {id}) \ (IF pending = id THEN {} ELSE {pending})
  <2> DEFINE B == 1..clock'
             c == entry
             next == P!ReceivedNewPost(c, id, pending)
  <2>1. c \in Seq(BlockIn(B, D)) /\ c # Unloaded /\ B \in SUBSET Nat /\ id \in B
    <3>1. 1..clock \subseteq B /\ B \in SUBSET Nat /\ id \in B
      BY <1>8
    <3>2. c \in Seq(BlockIn(1..clock, D)) /\ c # Unloaded /\ D \subseteq D
      BY <1>2
    <3> HIDE DEF B, c
    <3> QED BY <3>1, <3>2, Widened
  <2>2. Len(c) = 1 /\ c[1].recent /\ D = {}
    BY <1>1, <1>2
  <2> HIDE DEF B, c
  <2>3. /\ Len(next) = 1 /\ next[1].recent
        /\ ToSet(next[1].order) \subseteq
              (ToSet(c[1].order) \cup {id}) \ (IF pending = id THEN {} ELSE {pending})
    <3>1. TakesPlace(c, next, id, pending)
      BY <2>1, <2>2, OneNewPost
    <3> QED BY <3>1 DEF TakesPlace
  <2>4. entry' = next
    BY <1>8 DEF c
  <2> HIDE DEF next
  <2> DEFINE shown == (Listed \cup {id}) \ (IF pending = id THEN {} ELSE {pending})
  <2>5. ToSet(entry'[1].order) \subseteq shown /\ thread' \subseteq shown
    BY <1>4, <1>8, <2>3, <2>4 DEF ReplacePending, c
  <2> HIDE DEF shown
  <2>6. Listed' \subseteq shown
    BY <1>6, <2>3, <2>4, <2>5
  <2> QED BY <2>3, <2>4, <2>6 DEF shown
<1>9. ASSUME NEW k, entry' = P!PostsRemoved(entry, {k}), thread' = thread \ {k}
      PROVE  Len(entry') = 1 /\ entry'[1].recent /\ Listed' \subseteq Listed \ {k}
  <2> DEFINE A == 1..clock
             c == entry
             next == P!PostsRemoved(c, {k})
  <2>1. c \in Seq(BlockIn(A, D)) /\ c # Unloaded /\ A \in SUBSET Nat
    BY <1>2
  <2>2. Len(c) = 1 /\ c[1].recent /\ D = {}
    BY <1>1, <1>2
  <2> HIDE DEF A, c
  <2>3. /\ Len(next) = 1 /\ next[1].recent
        /\ ToSet(next[1].order) = ToSet(c[1].order) \ {k}
    <3>1. Leaves(c, next, {k})
      BY <2>1, <2>2, OnePostGone
    <3> QED BY <3>1 DEF Leaves
  <2>4. entry' = next
    BY <1>9 DEF c
  <2> HIDE DEF next
  <2>5. ToSet(entry'[1].order) \subseteq Listed \ {k} /\ thread' \subseteq Listed \ {k}
    BY <1>4, <1>9, <2>3, <2>4 DEF c
  <2>6. Listed' \subseteq Listed \ {k}
    BY <1>6, <2>3, <2>4, <2>5
  <2> QED BY <2>3, <2>4, <2>6
<1>10. ASSUME NEW id \in 1..clock, NEW k, k # NoPost,
              id = k \/ (k \in Listed => id \notin Listed),
              entry' = P!ReceivedPost(entry, id, k),
              thread' = ReplacePending(thread, id, k)
       PROVE  /\ Len(entry') = 1 /\ entry'[1].recent
              /\ Listed' \subseteq (Listed \cup {id}) \ (IF k = id THEN {} ELSE {k})
  <2> DEFINE A == 1..clock
             c == entry
             next == P!ReceivedPost(c, id, k)
  <2>1. c \in Seq(BlockIn(A, D)) /\ c # Unloaded /\ A \in SUBSET Nat /\ id \in A
    BY <1>2
  <2>2. Len(c) = 1 /\ c[1].recent /\ D = {} /\ DOMAIN c = {1}
    BY <1>1, <1>2
  <2>3. id = k \/ \A i \in DOMAIN c : k \in ToSet(c[i].order) => id \notin ToSet(c[i].order)
    BY <1>4, <1>10, <2>2
  <2> HIDE DEF A, c
  <2>4. /\ Len(next) = 1 /\ next[1].recent
        /\ ToSet(next[1].order) \subseteq
              (ToSet(c[1].order) \cup {id}) \ (IF k = id THEN {} ELSE {k})
    <3>1. TakesPlace(c, next, id, k)
      BY <1>10, <2>1, <2>2, <2>3, OnePostReceived
    <3> QED BY <3>1 DEF TakesPlace
  <2>5. entry' = next
    BY <1>10 DEF c
  <2> HIDE DEF next
  <2> DEFINE shown == (Listed \cup {id}) \ (IF k = id THEN {} ELSE {k})
  <2>6. ToSet(entry'[1].order) \subseteq shown /\ thread' \subseteq shown
    BY <1>4, <1>10, <2>4, <2>5 DEF ReplacePending, c
  <2> HIDE DEF shown
  <2>7. Listed' \subseteq shown
    BY <1>6, <2>4, <2>5, <2>6
  <2> QED BY <2>4, <2>5, <2>7 DEF shown
<1>11. CASE Write
  <2>1. /\ clock' \in 1..clock' /\ 1..clock' \in SUBSET Nat /\ 1..clock \subseteq 1..clock'
        /\ clock' \notin 1..clock
    BY <1>0, <1>11, Clocks DEF Write
  <2>2. /\ Len(entry') = 1 /\ entry'[1].recent /\ Listed' \subseteq Listed \cup {clock'}
    BY <1>8, <1>11, <2>1 DEF Write, ReceivedNewPost
  <2>3. \A id \in Own : /\ request'[createdFor[id]] = request[createdFor[id]]
                        /\ id # clock' /\ createdFor[id] # clock'
    BY <1>3, <1>5, <1>11, <2>1 DEF Write
  <2>4. UNCHANGED <<createdFor, sync, connected, failed>> /\ posts' \subseteq posts \cup {clock'}
    BY <1>11 DEF Write, ReceivedNewPost, HandlePostReceived, ReplacePending, socket
  <2> QED BY <1>0, <1>1, <2>2, <2>3, <2>4, CalmKept
<1>12. ASSUME NEW k \in Time, Retry(k) PROVE Calm'
  <2>1. k \in Written /\ k \in failed /\ k \notin pendingPostIds /\ k \in 1..clock
    BY <1>3, <1>12 DEF Retry, isPostIdSending
  <2>2. request[k] = "none"
    BY <1>0, <2>1 DEF Sending
  <2>3. \A id \in Own : createdFor[id] # k /\ id # k
    BY <1>1, <1>3, <1>5, <2>1, <2>2
  <2>4. /\ clock' = clock /\ UNCHANGED <<createdFor, sync, connected, failed>>
        /\ posts' \subseteq posts \cup {k}
    BY <1>12 DEF Retry, ReceivedNewPost, HandlePostReceived, ReplacePending, server, socket
  <2>5. /\ Len(entry') = 1 /\ entry'[1].recent /\ Listed' \subseteq Listed \cup {k}
    BY <1>2, <1>8, <1>12, <2>1, <2>4 DEF Retry, ReceivedNewPost
  <2>6. \A id \in Own : request'[createdFor[id]] = request[createdFor[id]]
    BY <1>3, <1>5, <1>12, <2>3 DEF Retry
  <2> QED BY <1>0, <1>1, <2>3, <2>4, <2>5, <2>6, CalmKept
<1>13. ASSUME NEW k \in Time, Cancel(k) PROVE Calm'
  <2>1. Len(entry') = 1 /\ entry'[1].recent /\ Listed' \subseteq Listed \ {k}
    BY <1>9, <1>13 DEF Cancel, PostRemoved
  <2>2. /\ UNCHANGED <<createdFor, sync, connected, request>> /\ failed' \subseteq failed
        /\ posts' \subseteq posts
    BY <1>13 DEF Cancel, PostRemoved, server, socket
  <2> QED BY <1>0, <1>1, <2>1, <2>2, CalmKept
<1>14. ASSUME NEW k \in Time, Fail(k) \/ Dismiss(k) PROVE Calm'
  <2>1. request[k] = "sent"
    BY <1>7, <1>14 DEF Fail, Dismiss
  <2>2. \A id \in Own : createdFor[id] # k
    BY <1>1, <2>1
  <2>3. \A id \in Own : request'[createdFor[id]] = request[createdFor[id]]
    BY <1>3, <1>5, <1>14, <2>2 DEF Fail, Dismiss
  <2>4. UNCHANGED <<createdFor, sync, connected, entry, thread, posts, failed>>
    BY <1>14 DEF Fail, Dismiss, server, socket, client
  <2>5. Listed' = Listed
    BY <2>4 DEF Listed
  <2> QED BY <1>0, <1>1, <2>3, <2>4, <2>5, CalmKept
<1>15. ASSUME NEW pending \in Written \cup {NoPost}, Create(pending), UNCHANGED <<sync, client>>,
              pending # NoPost => request'[pending] = "created" /\ ~ Exists(pending),
              \A k \in Time : k # pending => request'[k] = request[k]
       PROVE  Calm'
  <2>1. /\ clock' \notin 1..clock
        /\ Stored' = Stored \cup {clock'}
        /\ \A id \in Stored : createdFor'[id] = createdFor[id]
        /\ createdFor'[clock'] = pending
    BY <1>0, <1>15, TypesCreate
  <2>2. UNCHANGED <<sync, connected, entry, thread, posts, failed>>
    BY <1>15 DEF Create, client
  <2>3. Listed' = Listed
    BY <2>2 DEF Listed
  <2>4. ASSUME NEW id \in Own'
        PROVE  /\ request'[createdFor'[id]] \in {"created", "none"}
               /\ request'[createdFor'[id]] = "none" \/ id \in posts'
                    => createdFor'[id] \notin failed'
               /\ id \in Listed' \/ request'[createdFor'[id]] = "none"
                    => createdFor'[id] \notin Listed'
    <3>1. CASE id = clock'
      <4>1. pending # NoPost /\ createdFor'[id] = pending
        BY <2>1, <2>4, <3>1 DEF Own
      <4>2. id \notin Listed' /\ id \notin posts'
        BY <1>3, <1>4, <2>1, <2>2, <2>3, <3>1
      <4> QED BY <1>15, <4>1, <4>2
    <3>2. CASE id # clock'
      <4>1. id \in Own /\ createdFor'[id] = createdFor[id]
        BY <2>1, <2>4, <3>2 DEF Own
      <4>2. createdFor[id] # pending
        <5>1. pending # NoPost => ~ Exists(pending)
          BY <1>15
        <5> QED BY <1>5, <4>1, <5>1 DEF Exists, Own
      <4>3. request'[createdFor[id]] = request[createdFor[id]]
        BY <1>5, <1>15, <4>1, <4>2
      <4> QED BY <1>1, <2>2, <2>3, <4>1, <4>3
    <3> QED BY <3>1, <3>2
  <2> QED BY <1>1, <2>2, <2>4 DEF Calm
<1>16. ASSUME NEW k \in Time, Accept(k) PROVE Calm'
  <2>1. request[k] = "sent" /\ k \in Written /\ request' = [request EXCEPT ![k] = "created"]
    BY <1>16 DEF Accept, Written
  <2>2. ~ Exists(k)
    <3>1. \A id \in Own : createdFor[id] # k
      BY <1>1, <2>1
    <3> QED BY <1>3, <3>1 DEF Exists, Own
  <2>3. Create(k) /\ UNCHANGED <<sync, client>>
    BY <1>16, <2>2 DEF Accept
  <2>4. request'[k] = "created" /\ \A j \in Time : j # k => request'[j] = request[j]
    BY <1>3, <2>1
  <2> QED BY <1>15, <2>1, <2>2, <2>3, <2>4
<1>17. CASE OtherPost
  BY <1>15, <1>17 DEF OtherPost
<1>18. ASSUME NEW k \in Time, ReceiveCreated(k) PROVE Calm'
  <2> DEFINE id0 == PostOf(k)
  <2>1. id0 \in Stored /\ createdFor[id0] = k
    BY <1>0, <1>18 DEF ReceiveCreated, Types, Exists, PostOf
  <2>2. /\ entry' = P!ReceivedPost(entry, id0, k) /\ thread' = ReplacePending(thread, id0, k)
        /\ request' = [request EXCEPT ![k] = "none"] /\ failed' = failed \cap posts'
        /\ HandlePostReceived(id0, k)
        /\ UNCHANGED <<createdFor, sync, connected>>
    BY <1>18 DEF ReceiveCreated, ReceivedPost, Answered, server, socket
  <2> HIDE DEF id0
  <2>3. id0 \in Own /\ id0 # k /\ id0 \in 1..clock /\ k # NoPost
    BY <1>3, <1>5, <2>1 DEF Own
  <2>4. k \in Listed => id0 \notin Listed
    BY <1>1, <2>1, <2>3
  <2>5. Len(entry') = 1 /\ entry'[1].recent /\ Listed' \subseteq (Listed \cup {id0}) \ {k}
    BY <1>10, <2>2, <2>3, <2>4
  <2>6. request'[k] = "none" /\ \A j \in Time : j # k => request'[j] = request[j]
    BY <1>3, <2>2
  <2>7. failed' \subseteq failed /\ posts' \subseteq posts \cup {id0} /\ k \notin failed'
    <3>1. CASE posts' = ReplacePending(posts, id0, k)
      BY <2>2, <2>3, <3>1 DEF ReplacePending
    <3>2. CASE id0 \in posts /\ UNCHANGED posts
      BY <1>1, <2>1, <2>2, <2>3, <3>2
    <3> QED BY <2>2, <3>1, <3>2 DEF HandlePostReceived
  <2>8. ASSUME NEW id \in Own
        PROVE  LET j == createdFor[id] IN
               /\ request'[j] \in {"created", "none"}
               /\ request'[j] = "none" \/ id \in posts' => j \notin failed'
               /\ id \in Listed' \/ request'[j] = "none" => j \notin Listed'
    <3>1. CASE createdFor[id] = k
      BY <2>2, <2>5, <2>6, <2>7, <3>1
    <3>2. CASE createdFor[id] # k
      <4>1. request'[createdFor[id]] = request[createdFor[id]] /\ id # id0
        BY <1>5, <2>1, <2>6, <3>2
      <4>2. createdFor[id] # id0
        BY <1>3, <1>5, <2>1
      <4> QED BY <1>1, <2>2, <2>5, <2>7, <4>1, <4>2
    <3> QED BY <3>1, <3>2
  <2> QED BY <1>0, <2>2, <2>5, <2>8, CalmKept
<1>19. ASSUME NEW k \in Time, ReceiveFailure(k) PROVE Calm'
  <2>1. k \in Written /\ k \in 1..clock /\ k # NoPost
    BY <1>3, <1>19 DEF ReceiveFailure, Written
  <2>2. \A id \in Own : createdFor[id] # k /\ id # k
    BY <1>1, <1>3, <1>5, <1>19, <2>1 DEF ReceiveFailure
  <2>3. /\ entry' = P!ReceivedPost(entry, k, k) /\ thread' = ReplacePending(thread, k, k)
        /\ request' = [request EXCEPT ![k] = "none"] /\ failed' = failed \cup {k}
        /\ posts' \subseteq posts \cup {k}
        /\ UNCHANGED <<createdFor, sync, connected>>
    BY <1>19 DEF ReceiveFailure, ReceivedPost, HandlePostReceived, ReplacePending, Answered, server,
                 socket
  <2>4. Len(entry') = 1 /\ entry'[1].recent /\ Listed' \subseteq Listed \cup {k}
    BY <1>10, <2>1, <2>3
  <2>5. \A id \in Own : request'[createdFor[id]] = request[createdFor[id]]
    BY <1>3, <1>5, <2>2, <2>3
  <2> QED BY <1>0, <1>1, <2>2, <2>3, <2>4, <2>5, CalmKept
<1>20. ASSUME NEW k \in Time, ReceiveDismissal(k) PROVE Calm'
  <2>1. \A id \in Own : createdFor[id] # k
    BY <1>1, <1>20 DEF ReceiveDismissal
  <2>2. Len(entry') = 1 /\ entry'[1].recent /\ Listed' \subseteq Listed \ {k}
    BY <1>9, <1>20 DEF ReceiveDismissal, PostRemoved
  <2>3. /\ request' = [request EXCEPT ![k] = "none"] /\ failed' \subseteq failed
        /\ posts' \subseteq posts
        /\ UNCHANGED <<createdFor, sync, connected>>
    BY <1>20 DEF ReceiveDismissal, PostRemoved, Answered, server, socket
  <2>4. \A id \in Own : request'[createdFor[id]] = request[createdFor[id]]
    BY <1>3, <1>5, <2>1, <2>3
  <2> QED BY <1>0, <1>1, <2>2, <2>3, <2>4, CalmKept
<1>21. CASE ReceiveEvent
  <2> DEFINE id0 == Head(events)
             p == createdFor[id0]
  <2>1. id0 \in Stored
    BY <1>0, <1>21 DEF ReceiveEvent, Types
  <2>2. /\ entry' = P!ReceivedNewPost(entry, id0, p) /\ thread' = ReplacePending(thread, id0, p)
        /\ failed' = failed \cap posts' /\ HandlePostReceived(id0, p)
        /\ clock' = clock /\ UNCHANGED <<createdFor, sync, connected, request>>
    BY <1>21 DEF ReceiveEvent, ReceivedNewPost, server
  <2>3. p = createdFor[id0] /\ p \in Written \cup {NoPost} /\ id0 \in 1..clock
    BY <1>0, <1>3, <2>1 DEF Types
  <2> HIDE DEF id0, p
  <2>4. p # id0
    BY <1>3, <2>1, <2>3
  <2>5. Len(entry') = 1 /\ entry'[1].recent /\ Listed' \subseteq (Listed \cup {id0}) \ {p}
    BY <1>2, <1>8, <2>2, <2>3, <2>4
  <2>6. /\ failed' \subseteq failed /\ posts' \subseteq posts \cup {id0}
        /\ p # NoPost => p \notin failed'
    <3>1. CASE posts' = ReplacePending(posts, id0, p)
      BY <2>2, <2>4, <3>1 DEF ReplacePending
    <3>2. CASE id0 \in posts /\ UNCHANGED posts
      BY <1>1, <2>1, <2>2, <2>3, <3>2 DEF Own
    <3> QED BY <2>2, <3>1, <3>2 DEF HandlePostReceived
  <2>7. ASSUME NEW id \in Own
        PROVE  LET j == createdFor[id] IN
               /\ request'[j] \in {"created", "none"}
               /\ request'[j] = "none" \/ id \in posts' => j \notin failed'
               /\ id \in Listed' \/ request'[j] = "none" => j \notin Listed'
    <3>1. createdFor[id] # id0
      BY <1>3, <1>5, <2>1
    <3>2. id = id0 => createdFor[id] = p
      BY <2>3
    <3>3. createdFor[id] = p => createdFor[id] \notin Listed'
      BY <2>5
    <3>4. createdFor[id] # NoPost
      BY DEF Own
    <3> QED BY <1>1, <2>2, <2>5, <2>6, <3>1, <3>2, <3>3, <3>4
  <2> QED BY <1>0, <2>2, <2>5, <2>7, CalmKept
<1>22. CASE Disconnect \/ Reconnect \/ AnswerSync \/ ReceiveSync
  <2>1. "disconnect" \notin may /\ NoReply \notin sync /\ sync \ {NoReply} = {}
    BY <1>1, <1>7
  <2> QED BY <1>1, <1>22, <2>1 DEF Disconnect, Reconnect, AnswerSync, ReceiveSync
<1>23. ASSUME NEW target \in Time, OpenPermalink(target) PROVE Calm'
  BY <1>7, <1>23 DEF OpenPermalink
<1>24. CASE UNCHANGED vars
  <2>1. UNCHANGED <<createdFor, sync, connected, entry, thread, posts, failed, request>>
    BY <1>24 DEF vars, server, socket, client
  <2>2. Listed' = Listed
    BY <2>1 DEF Listed
  <2> QED BY <1>0, <1>1, <2>1, <2>2, CalmKept
<1> QED BY <1>11, <1>12, <1>13, <1>14, <1>16, <1>17, <1>18, <1>19, <1>20, <1>21, <1>22,
           <1>23, <1>24 DEF Next

\* The invariant holds at first.
LEMMA InvInit == Init => Inv
<1> SUFFICES ASSUME Init PROVE Inv
  OBVIOUS
<1>1. Types
  BY TypesInit
<1>2. Stored = {1} /\ createdFor[1] = NoPost /\ clock = 1 /\ 1..clock = {1}
  BY DEF Init, Stored
<1>3. Own = {}
  BY <1>2 DEF Own
<1>4. entry = <<P!Block(<<1>>, TRUE, TRUE)>>
  BY DEF Init
<1>5. Lists
  <2> DEFINE b == P!Block(<<1>>, TRUE, TRUE)
             D == IF Disturbed THEN Own ELSE {}
  <2>1. <<1>> \in Seq(1..clock) /\ Twice(<<1>>) = {}
    BY <1>2, One
  <2>2. b \in BlockIn(1..clock, D)
    BY <2>1, Blocks
  <2> HIDE DEF b, D
  <2>3. <<b>> \in Seq(BlockIn(1..clock, D))
    BY <2>2
  <2> QED BY <1>4, <2>3 DEF Lists, b, D
<1>6. Sending
  <2>1. failed = {}
    BY DEF Init
  <2> QED BY <2>1 DEF Sending
<1>7. Calm
  <2>1. Len(entry) = 1 /\ entry[1].recent
    BY <1>4 DEF P!Block
  <2>2. connected /\ sync = {}
    BY DEF Init
  <2> QED BY <1>3, <2>1, <2>2 DEF Calm
<1> QED BY <1>1, <1>5, <1>6, <1>7 DEF Inv

\* Every step keeps the invariant.
LEMMA InvNext == Inv /\ [Next]_vars => Inv'
<1> SUFFICES ASSUME Inv, [Next]_vars PROVE Inv'
  OBVIOUS
<1>1. Types /\ Sending
  BY DEF Inv
<1>2. Types' /\ Lists' /\ Sending'
  BY <1>1, TypesNext, ListsNext, SendingNext
<1>3. Calm'
  BY <1>2, CalmNext
<1> QED BY <1>2, <1>3 DEF Inv

\* The invariant holds always.
LEMMA InvHolds == Spec => []Inv
BY InvInit, InvNext, PTL DEF Spec

\* The invariant says of every block what EachPostOnce says.
LEMMA InvEachPostOnce == Inv => EachPostOnce
<1> SUFFICES ASSUME Inv, NEW i \in DOMAIN entry,
                    NEW j \in DOMAIN entry[i].order, NEW k \in DOMAIN entry[i].order,
                    j # k, entry[i].order[j] = entry[i].order[k]
             PROVE  /\ Disturbed
                    /\ entry[i].order[j] \in Stored /\ createdFor[entry[i].order[j]] # NoPost
  BY DEF EachPostOnce, Disturbed
<1>1. Types /\ Lists
  BY DEF Inv
<1>2. entry \in Seq(BlockIn(1..clock, MayRepeat))
  BY <1>1, Loaded
<1>3. entry[i] \in BlockIn(1..clock, MayRepeat)
  BY <1>2
<1>4. Twice(entry[i].order) \subseteq MayRepeat
  BY <1>3, Blocks
<1>5. entry[i].order[j] \in Twice(entry[i].order)
  BY Elements
<1> QED BY <1>4, <1>5 DEF MayRepeat, Own

\* And of a pending post and what came of it what PendingOrCreated says.
LEMMA InvPendingOrCreated == Inv => PendingOrCreated
<1> SUFFICES ASSUME Inv, ~ Disturbed, NEW id \in Stored, id \in Listed
             PROVE  createdFor[id] \notin Listed
  BY DEF PendingOrCreated, Disturbed
<1>1. Types /\ Lists /\ Calm
  BY DEF Inv
<1>2. CASE createdFor[id] # NoPost
  <2>1. id \in Own
    BY <1>2 DEF Own
  <2> QED BY <1>1, <2>1 DEF Calm
<1>3. CASE createdFor[id] = NoPost
  <2>1. entry \in Seq(BlockIn(1..clock, MayRepeat))
    BY <1>1, Loaded
  <2>2. \A i \in DOMAIN entry : entry[i].order \in Seq(1..clock)
    BY <2>1, Blocks
  <2>3. \A i \in DOMAIN entry : ToSet(entry[i].order) \subseteq 1..clock
    BY <2>2, Within
  <2>4. Listed \subseteq 1..clock
    BY <1>1, <2>3 DEF Listed, Types
  <2>5. NoPost \notin 1..clock
    BY <1>1, Clocks
  <2> QED BY <1>3, <2>4, <2>5
<1> QED BY <1>2, <1>3

-----------------------------------------------------------------------------
(* The theorems.                                                           *)

\* Every variable has its type, at all times.
THEOREM TypeCorrect == Spec => []Types
<1>1. Inv => Types
  BY DEF Inv
<1> QED BY <1>1, InvHolds, PTL

\* The lists show the posts of others once, and every post once as long as nothing brings a
\* post of the user beside its pending post: whatever the requests, the answers, the
\* events, the synchronisations and the pages do, in whatever order.
THEOREM EachOnce == Spec => []EachPostOnce
BY InvHolds, InvEachPostOnce, PTL

\* The post takes the place of its pending post, which does not come back: not through a
\* retry, a late answer, a failure or an event.
THEOREM PendingGoes == Spec => []PendingOrCreated
BY InvHolds, InvPendingOrCreated, PTL

\* No post is sent while it is being sent.
THEOREM SentOnce == Spec => SentOnceAtATime
<1>1. Inv /\ [Next]_vars =>
         [\A k \in Written : request'[k] = "sent" => request[k] \in {"none", "sent"}]_vars
  BY SentStep DEF Inv
<1> QED BY <1>1, InvHolds, PTL DEF Spec, SentOnceAtATime


-----------------------------------------------------------------------------
(* The debounced events, by which posts reach the reducers.                *)

USE DEF DebounceAssumption

\* Only a closure whose timer runs and whose count is reached has a queue.
QueueIsBehindTimer == queue # <<>> => Queueing

\* The inductive invariant.
DebounceInv == DebounceTypeOK /\ QueueIsBehindTimer /\ InOrder

\* An event that is not queued finds an empty queue.
LEMMA NothingQueued ==
    ASSUME DebounceInv, ~ Queueing PROVE queue = <<>>
BY DEF DebounceInv, QueueIsBehindTimer

\* The elements of two sequences put together.
LEMMA Concatenation ==
    ASSUME NEW S, NEW s \in Seq(S), NEW q \in Seq(S)
    PROVE  /\ s \o q \in Seq(S)
           /\ Len(s) \in Nat /\ Len(q) \in Nat
           /\ Len(s \o q) = Len(s) + Len(q)
           /\ \A i \in 1..Len(s) : (s \o q)[i] = s[i]
           /\ \A i \in 1..Len(q) : (s \o q)[Len(s) + i] = q[i]
OBVIOUS

\* The events of a sequence are among those it is made of.
LEMMA EventsAreElements == ASSUME NEW S, NEW s \in Seq(S) PROVE Events(s) \subseteq S
<1>1. \A i \in DOMAIN s : s[i] \in S
  OBVIOUS
<1> QED
  BY <1>1 DEF Events

\* Two sequences together are the numbers up to n.
UpTo(s, q, n) ==
    /\ Len(s) + Len(q) = n
    /\ \A i \in 1..n : (s \o q)[i] = i

\* What is handled and then what is queued are the numbers up to the last received.
LEMMA InOrderUpTo == InOrder <=> UpTo(handled, queue, received)
BY DEF InOrder, UpTo

\* Where the elements then stand.
LEMMA Numbered ==
    ASSUME NEW S, NEW s \in Seq(S), NEW q \in Seq(S), NEW n \in Nat, UpTo(s, q, n)
    PROVE  /\ Len(s) + Len(q) = n
           /\ \A i \in 1..Len(s) : s[i] = i
           /\ \A i \in 1..Len(q) : q[i] = Len(s) + i
<1>1. Len(s) + Len(q) = n /\ Len(s) \in Nat /\ Len(q) \in Nat
  BY DEF UpTo
<1>2. ASSUME NEW i \in 1..Len(s) PROVE s[i] = i
  <2>1. (s \o q)[i] = s[i]
    BY Concatenation
  <2>2. i \in 1..n
    BY <1>1
  <2> QED
    BY <2>1, <2>2 DEF UpTo
<1>3. ASSUME NEW i \in 1..Len(q) PROVE q[i] = Len(s) + i
  <2>1. (s \o q)[Len(s) + i] = q[i]
    BY Concatenation
  <2>2. Len(s) + i \in 1..n
    BY <1>1
  <2> QED
    BY <2>1, <2>2 DEF UpTo
<1> QED
  BY <1>1, <1>2, <1>3

\* Where the queued events stand in the order of receipt.
LEMMA QueuedAreLast ==
    ASSUME DebounceInv
    PROVE  /\ received = Len(handled) + Len(queue)
           /\ \A i \in 1..Len(queue) : queue[i] = Len(handled) + i
<1>1. UpTo(handled, queue, received)
  BY InOrderUpTo DEF DebounceInv
<1>2. /\ handled \in Seq(1..received) /\ queue \in Seq(1..received)
      /\ received \in Nat
  BY DEF DebounceInv, DebounceTypeOK
<1> QED
  BY <1>1, <1>2, Numbered

\* One more event at the end keeps the order.
LEMMA OneMore ==
    ASSUME NEW n \in Nat, NEW s \in Seq(1..n), NEW q \in Seq(1..n), UpTo(s, q, n),
           NEW longer, longer = Append(q, n + 1)
    PROVE  /\ s \in Seq(1..(n + 1))
           /\ longer \in Seq(1..(n + 1))
           /\ UpTo(s, longer, n + 1)
<1>1. 1..n \subseteq 1..(n + 1) /\ n + 1 \in 1..(n + 1)
  OBVIOUS
<1>2. s \in Seq(1..(n + 1)) /\ q \in Seq(1..(n + 1))
  BY <1>1
<1>3. /\ longer \in Seq(1..(n + 1)) /\ Len(longer) = Len(q) + 1
      /\ \A i \in 1..Len(q) : longer[i] = q[i]
      /\ longer[Len(q) + 1] = n + 1
  BY <1>1, <1>2
<1>4. Len(s) \in Nat /\ Len(q) \in Nat /\ Len(s) + Len(q) = n
  BY Numbered
<1>5. /\ \A i \in 1..Len(s) : s[i] = i
      /\ \A i \in 1..Len(q) : q[i] = Len(s) + i
  BY Numbered
<1>6. /\ \A i \in 1..Len(s) : (s \o longer)[i] = s[i]
      /\ \A i \in 1..Len(longer) : (s \o longer)[Len(s) + i] = longer[i]
  BY <1>2, <1>3, Concatenation
<1>7. ASSUME NEW i \in 1..(n + 1) PROVE (s \o longer)[i] = i
  <2>1. CASE i \in 1..Len(s)
    BY <1>5, <1>6, <2>1
  <2>2. CASE i \in (Len(s) + 1)..n
    <3>1. PICK j \in 1..Len(q) : i = Len(s) + j
      <4>1. i - Len(s) \in 1..Len(q) /\ i = Len(s) + (i - Len(s))
        BY <1>4, <2>2
      <4> QED
        BY <4>1
    <3>2. longer[j] = i
      BY <1>3, <1>5, <3>1
    <3>3. j \in 1..Len(longer)
      BY <1>3, <1>4, <3>1
    <3> QED
      BY <1>6, <3>1, <3>2, <3>3
  <2>3. CASE i = n + 1
    <3>1. \A a, b \in Nat : a + b + 1 = a + (b + 1)
      OBVIOUS
    <3>2. i = Len(s) + (Len(q) + 1)
      BY <1>4, <2>3, <3>1
    <3>3. Len(q) + 1 \in 1..Len(longer)
      <4>1. Len(q) + 1 \in 1..(Len(q) + 1)
        BY <1>4
      <4> QED
        BY <1>3, <4>1
    <3>4. (s \o longer)[Len(s) + (Len(q) + 1)] = longer[Len(q) + 1]
      BY <1>6, <3>3
    <3> QED
      BY <1>3, <2>3, <3>4, <3>2
  <2>4. i \in 1..Len(s) \/ i \in (Len(s) + 1)..n \/ i = n + 1
    BY <1>4
  <2> QED
    BY <2>1, <2>2, <2>3, <2>4
<1>8. Len(s) + Len(longer) = n + 1
  BY <1>3, <1>4
<1> QED
  BY <1>2, <1>3, <1>7, <1>8 DEF UpTo

\* The invariant holds at first.
LEMMA DebounceInvInitially == ASSUME DebounceAssumption PROVE DebounceInit => DebounceInv
BY DEF DebounceInit, DebounceInv, DebounceTypeOK, QueueIsBehindTimer, InOrder

\* Every branch of the closure, and the timer, keep it.
LEMMA DebounceInvPreserved == ASSUME DebounceAssumption PROVE DebounceInv /\ [DebounceNext]_debounceVars => DebounceInv'
<1> SUFFICES ASSUME DebounceInv, [DebounceNext]_debounceVars PROVE DebounceInv'
  OBVIOUS
<1>1. CASE ApplyAtOnce
  <2>1. queue = <<>>
    BY <1>1, NothingQueued DEF ApplyAtOnce
  <2>2. /\ received' = received + 1 /\ timeout' = Wait /\ queue' = queue
        /\ handled' = Append(handled, received + 1)
        /\ count' = count + 1 /\ lost' = lost
    BY <1>1 DEF ApplyAtOnce, Receive
  <2>3. handled \in Seq(1..received) /\ received \in Nat
    BY DEF DebounceInv, DebounceTypeOK
  <2>4. /\ handled = handled \o <<>> /\ handled = <<>> \o handled
        /\ Len(<<>>) = 0 /\ <<>> \in Seq(1..received)
    BY <2>3
  <2>5. Len(handled) = received /\ \A i \in 1..received : handled[i] = i
    BY <2>1, <2>3, <2>4 DEF DebounceInv, InOrder
  <2>6. UpTo(<<>>, handled, received)
    BY <2>4, <2>5, <2>3 DEF UpTo
  <2>7. handled' \in Seq(1..received') /\ UpTo(<<>>, handled', received')
    <3>1. handled' = Append(handled, received + 1) /\ received' = received + 1
      BY <2>2
    <3>2. handled' \in Seq(1..(received + 1)) /\ UpTo(<<>>, handled', received + 1)
      BY <2>3, <2>4, <2>6, <3>1, OneMore
    <3> QED
      BY <3>1, <3>2
  <2>8. InOrder'
    <3>1. <<>> \o handled' = handled' /\ handled' \o <<>> = handled'
      BY <2>7
    <3>2. Len(handled') + 0 = received' /\ queue' = <<>>
      BY <2>1, <2>2, <2>4, <2>7 DEF UpTo
    <3> QED
      BY <2>4, <2>7, <3>1, <3>2 DEF InOrder, UpTo
  <2>9. DebounceTypeOK'
    BY <2>1, <2>2, <2>7 DEF DebounceInv, DebounceTypeOK
  <2>10. QueueIsBehindTimer'
    BY <2>1, <2>2 DEF QueueIsBehindTimer
  <2> QED
    BY <2>8, <2>9, <2>10 DEF DebounceInv
<1>2. CASE Enqueue
  <2>1. /\ received' = received + 1 /\ timeout' = Wait
        /\ queue' = Append(queue, received + 1) /\ Len(queue) < QueueLimit
        /\ UNCHANGED <<count, handled, lost>> /\ count > Limit
    BY <1>2 DEF Enqueue, Receive, Queueing
  <2>2. /\ handled \in Seq(1..received') /\ queue' \in Seq(1..received')
        /\ UpTo(handled, queue', received')
    BY <2>1, OneMore, InOrderUpTo DEF DebounceInv, DebounceTypeOK
  <2>3. Len(queue') = Len(queue) + 1 /\ Len(queue) \in Nat
    BY <2>1 DEF DebounceInv, DebounceTypeOK
  <2>4. DebounceTypeOK'
    BY <2>1, <2>2, <2>3 DEF DebounceInv, DebounceTypeOK
  <2>5. QueueIsBehindTimer'
    BY <2>1 DEF QueueIsBehindTimer, Queueing
  <2>6. InOrder'
    BY <2>1, <2>2 DEF InOrder, UpTo
  <2> QED
    BY <2>4, <2>5, <2>6 DEF DebounceInv
<1>3. CASE GiveUp
  <2> DEFINE longer == Append(queue, received + 1)
  <2>1. /\ received' = received + 1 /\ timeout' = Wait /\ queue' = <<>>
        /\ handled' = handled \o longer
        /\ lost' = lost \cup Events(longer)
        /\ UNCHANGED count
    BY <1>3 DEF GiveUp, Receive
  <2>2. /\ handled \in Seq(1..received') /\ longer \in Seq(1..received')
        /\ UpTo(handled, longer, received')
    BY <2>1, OneMore, InOrderUpTo DEF DebounceInv, DebounceTypeOK
  <2> HIDE DEF longer
  <2>3. handled' \in Seq(1..received') /\ Len(handled') = received'
    BY <2>1, <2>2, Concatenation DEF UpTo
  <2>4. handled' \o queue' = handled' /\ Len(queue') = 0
    BY <2>1, <2>3
  <2>5. InOrder'
    BY <2>1, <2>2, <2>3, <2>4 DEF InOrder, UpTo
  <2>6. Events(longer) \subseteq 1..received'
    BY <2>2, EventsAreElements
  <2>7. DebounceTypeOK'
    <3>1. 1..received \subseteq 1..received' /\ received' \in Nat
      BY <2>1 DEF DebounceInv, DebounceTypeOK
    <3>2. lost' \subseteq 1..received'
      BY <2>1, <2>6, <3>1 DEF DebounceInv, DebounceTypeOK
    <3> QED
      BY <2>1, <2>3, <3>1, <3>2 DEF DebounceInv, DebounceTypeOK
  <2>8. QueueIsBehindTimer'
    BY <2>1 DEF QueueIsBehindTimer
  <2> QED
    BY <2>5, <2>7, <2>8 DEF DebounceInv
<1>4. CASE triggered
  <2>1. /\ handled' = handled \o queue /\ queue' = <<>> /\ timeout' = NoTimeout
        /\ count' = 0 /\ UNCHANGED <<received, lost>>
    BY <1>4 DEF triggered
  <2>2. handled \o queue \in Seq(1..received)
    BY Concatenation DEF DebounceInv, DebounceTypeOK
  <2>3. handled' \o queue' = handled' /\ Len(queue') = 0
    BY <2>1, <2>2
  <2>4. DebounceTypeOK'
    BY <2>1, <2>2 DEF DebounceInv, DebounceTypeOK
  <2>5. Len(handled') = received
    BY <2>1, Concatenation DEF DebounceInv, DebounceTypeOK, InOrder
  <2>6. InOrder'
    <3>1. received' = received /\ handled' \o queue' = handled \o queue
      BY <2>1, <2>3
    <3>2. \A i \in 1..received : (handled \o queue)[i] = i
      BY DEF DebounceInv, InOrder
    <3>3. Len(handled') + Len(queue') = received
      BY <2>3, <2>5 DEF DebounceInv, DebounceTypeOK
    <3> QED
      BY <3>1, <3>2, <3>3 DEF InOrder
  <2> QED
    BY <2>1, <2>4, <2>6 DEF DebounceInv, QueueIsBehindTimer
<1>5. CASE Tick
  BY <1>5 DEF Tick, DebounceInv, DebounceTypeOK, InOrder, QueueIsBehindTimer, Queueing
<1>6. CASE UNCHANGED debounceVars
  BY <1>6 DEF debounceVars, DebounceInv, DebounceTypeOK, InOrder, QueueIsBehindTimer, Queueing
<1> QED
  BY <1>1, <1>2, <1>3, <1>4, <1>5, <1>6 DEF DebounceNext

\* The events are handled in the order they were received in, each once, whatever
\* the limits and the timing; the types of the closure's variables hold.
THEOREM KeepsOrder == ASSUME DebounceAssumption PROVE DebounceSpec => [](DebounceTypeOK /\ InOrder)
<1>1. DebounceInv => DebounceTypeOK /\ InOrder
  BY DEF DebounceInv
<1> QED
  BY <1>1, DebounceInvInitially, DebounceInvPreserved, PTL DEF DebounceSpec

-----------------------------------------------------------------------------

\* What GiveUp loses is a run of QueueLimit + 1 events, the newest ones.
LEMMA GivenUp ==
    ASSUME DebounceAssumption, DebounceInv, GiveUp
    PROVE  LET first == Len(handled) + 1 IN
           /\ first \in 1..(received + 1)
           /\ first + QueueLimit = received + 1
           /\ Events(Append(queue, received + 1)) = first..(first + QueueLimit)
<1> DEFINE first == Len(handled) + 1
<1>1. Len(queue) = QueueLimit /\ queue \in Seq(1..received) /\ received \in Nat
      /\ Len(handled) \in Nat
  BY DebounceAssumption DEF GiveUp, DebounceInv, DebounceTypeOK
<1>2. first + QueueLimit = received + 1
  BY <1>1, QueuedAreLast, DebounceAssumption
<1>3. \A i \in 1..(QueueLimit + 1) : Append(queue, received + 1)[i] = Len(handled) + i
  BY <1>1, <1>2, QueuedAreLast, DebounceAssumption
<1>4. DOMAIN Append(queue, received + 1) = 1..(QueueLimit + 1)
  BY <1>1
<1>5. Events(Append(queue, received + 1)) =
         {Len(handled) + i : i \in 1..(QueueLimit + 1)}
  BY <1>3, <1>4 DEF Events
<1>6. \A e \in first..(first + QueueLimit) :
         e = Len(handled) + (e - Len(handled)) /\ e - Len(handled) \in 1..(QueueLimit + 1)
  BY <1>1, DebounceAssumption
<1>7. {Len(handled) + i : i \in 1..(QueueLimit + 1)} = first..(first + QueueLimit)
  <2>1. \A i \in 1..(QueueLimit + 1) : Len(handled) + i \in first..(first + QueueLimit)
    BY <1>1, DebounceAssumption
  <2>2. {Len(handled) + i : i \in 1..(QueueLimit + 1)} \subseteq first..(first + QueueLimit)
    BY <2>1
  <2>3. first..(first + QueueLimit) \subseteq {Len(handled) + i : i \in 1..(QueueLimit + 1)}
    BY <1>6
  <2> QED
    BY <2>2, <2>3
<1>8. first \in 1..(received + 1)
  BY <1>1, <1>2, DebounceAssumption
<1>9. Events(Append(queue, received + 1)) = first..(first + QueueLimit)
  BY <1>5, <1>7
<1> QED
  BY <1>2, <1>8, <1>9

\* An event is only given up with QueueLimit others that came next to it.
THEOREM LosesRuns == ASSUME DebounceAssumption PROVE DebounceSpec => []LostTogether
<1>1. DebounceInit => LostTogether
  BY DEF DebounceInit, LostTogether
<1>2. DebounceInv /\ LostTogether /\ [DebounceNext]_debounceVars => LostTogether'
  <2> SUFFICES ASSUME DebounceInv, LostTogether, [DebounceNext]_debounceVars PROVE LostTogether'
    OBVIOUS
  <2>1. received \in Nat /\ received' \in Nat /\ received' >= received
    BY DEF DebounceInv, DebounceTypeOK, DebounceNext, ApplyAtOnce, Enqueue, GiveUp, triggered, Tick,
           Receive, debounceVars
  <2>2. 1..received \subseteq 1..received'
    BY <2>1
  <2>3. CASE lost' = lost
    BY <2>2, <2>3 DEF LostTogether
  <2>4. CASE GiveUp
    <3> DEFINE new == Len(handled) + 1
    <3>1. lost' = lost \cup (new..(new + QueueLimit)) /\ new \in 1..received'
      BY <2>4, GivenUp DEF GiveUp, Receive
    <3> SUFFICES ASSUME NEW e \in lost'
                 PROVE  \E first \in 1..received' :
                           /\ e \in first..(first + QueueLimit)
                           /\ first..(first + QueueLimit) \subseteq lost'
      BY DEF LostTogether
    <3>2. CASE e \in lost
      BY <2>2, <3>1, <3>2 DEF LostTogether
    <3>3. CASE e \in new..(new + QueueLimit)
      BY <3>1, <3>3
    <3> QED
      BY <3>1, <3>2, <3>3
  <2> QED
    BY <2>3, <2>4 DEF DebounceNext, ApplyAtOnce, Enqueue, triggered, Tick, debounceVars
<1> QED
  BY <1>1, <1>2, DebounceInvInitially, DebounceInvPreserved, PTL DEF DebounceSpec

-----------------------------------------------------------------------------
(* PostDeduplication.                                                      *)

\* The markers are no requests and differ from each other where they are compared.
LEMMA Distinct ==
    /\ Absent \notin Request /\ Unknown \notin Request /\ NoneSaved \notin Request
    /\ Waiting \notin Request /\ Error \notin Request
    /\ Absent # Unknown /\ Waiting # Error
BY DistinctAssumption

\* The types hold in every reachable state, under any disturbance.
THEOREM ServerTypeCorrect == ServerSpec => []TypeOK
<1>1. ServerInit => TypeOK
  BY DEF ServerInit, TypeOK, Places
<1>2. TypeOK /\ [ServerNext]_serverVars => TypeOK'
  <2> SUFFICES ASSUME TypeOK, [ServerNext]_serverVars PROVE TypeOK'
    OBVIOUS
  <2> USE DEF TypeOK, Places, GoTo, AnswerWith
  <2>1. ASSUME NEW r \in Request, Get(r) PROVE TypeOK'
    <3>1. UNCHANGED <<cache, saved, disturbed>>
      BY <2>1 DEF Get
    <3>2. \E place \in Places : pc' = [pc EXCEPT ![r] = place]
      BY <2>1 DEF Get
    <3>3. \/ UNCHANGED answer
          \/ \E a \in Request \cup {Error} : answer' = [answer EXCEPT ![r] = a]
      BY <2>1 DEF Get
    <3> QED
      BY <3>1, <3>2, <3>3
  <2>2. ASSUME NEW r \in Request, Record(r) PROVE TypeOK'
    BY <2>2 DEF Record
  <2>3. ASSUME NEW r \in Request, Reject(r) PROVE TypeOK'
    BY <2>3 DEF Reject
  <2>4. ASSUME NEW r \in Request, Save(r) PROVE TypeOK'
    BY <2>4 DEF Save
  <2>5. ASSUME NEW r \in Request, MapToPost(r) PROVE TypeOK'
    BY <2>5 DEF MapToPost
  <2>6. ASSUME NEW r \in Request, FailLate(r) PROVE TypeOK'
    BY <2>6 DEF FailLate
  <2>7. ASSUME NEW r \in Request, Succeed(r) PROVE TypeOK'
    <3>1. UNCHANGED <<saved, disturbed>> /\ pc' = [pc EXCEPT ![r] = "done"]
      BY <2>7 DEF Succeed
    <3>2. cache' \in Request \cup {Absent, Unknown}
      BY <2>7 DEF Succeed
    <3>3. \E a \in Request \cup {Error} : answer' = [answer EXCEPT ![r] = a]
      BY <2>7 DEF Succeed
    <3> QED
      BY <3>1, <3>2, <3>3
  <2>8. ASSUME NEW r \in Request, Undo(r) PROVE TypeOK'
    BY <2>8 DEF Undo
  <2>9. CASE Expire
    BY <2>9 DEF Expire
  <2>10. CASE UNCHANGED serverVars
    BY <2>10 DEF serverVars
  <2> QED
    BY <2>1, <2>2, <2>3, <2>4, <2>5, <2>6, <2>7, <2>8, <2>9, <2>10 DEF ServerNext
<1> QED
  BY <1>1, <1>2, PTL DEF ServerSpec

-----------------------------------------------------------------------------

\* What may be answered has been saved: the entry of the cache, if it is a
\* post, and the posts of the requests that are about to succeed.
EntryIsSaved ==
    /\ AnswersAreSaved
    /\ cache \in Request => cache \in saved
    /\ \A r \in Request : pc[r] \in {"map", "finish"} => r \in saved

\* An answer that is a post is a post of the database, whatever happens: races,
\* failures of the cache, expired entries and late failures included.
THEOREM AnswersSaved == ServerSpec => []AnswersAreSaved
<1> USE DEF EntryIsSaved, AnswersAreSaved
<1>1. ServerInit => EntryIsSaved
  BY Distinct DEF ServerInit
<1>2. TypeOK /\ EntryIsSaved /\ [ServerNext]_serverVars => EntryIsSaved'
  <2> SUFFICES ASSUME TypeOK, EntryIsSaved, [ServerNext]_serverVars PROVE EntryIsSaved'
    OBVIOUS
  <2> USE Distinct DEF TypeOK, Places, GoTo, AnswerWith
  <2>1. ASSUME NEW r \in Request, Get(r) PROVE EntryIsSaved'
    <3>1. UNCHANGED <<cache, saved, disturbed>>
      BY <2>1 DEF Get
    <3>2. CASE pc' = [pc EXCEPT ![r] = "record"] /\ UNCHANGED answer
      BY <3>1, <3>2
    <3>3. CASE pc' = [pc EXCEPT ![r] = "save"] /\ UNCHANGED answer
      BY <3>1, <3>3
    <3>4. CASE pc' = [pc EXCEPT ![r] = "done"]
                 /\ answer' = [answer EXCEPT ![r] = Error]
      BY <3>1, <3>4
    <3>5. CASE pc' = [pc EXCEPT ![r] = "done"] /\ cache \in Request
                 /\ answer' = [answer EXCEPT ![r] = cache]
      BY <3>1, <3>5
    <3> QED
      BY <2>1, <3>2, <3>3, <3>4, <3>5 DEF Get
  <2>2. ASSUME NEW r \in Request, Record(r) PROVE EntryIsSaved'
    <3>1. CASE pc' = [pc EXCEPT ![r] = "save"] /\ cache' = Unknown /\ UNCHANGED answer
      BY <2>2, <3>1 DEF Record
    <3>2. CASE pc' = [pc EXCEPT ![r] = "done"] /\ UNCHANGED cache
                 /\ answer' = [answer EXCEPT ![r] = Error]
      BY <2>2, <3>2 DEF Record
    <3> QED
      BY <2>2, <3>1, <3>2 DEF Record
  <2>3. ASSUME NEW r \in Request, Reject(r) PROVE EntryIsSaved'
    BY <2>3 DEF Reject
  <2>4. ASSUME NEW r \in Request, Save(r) PROVE EntryIsSaved'
    BY <2>4 DEF Save
  <2>5. ASSUME NEW r \in Request, MapToPost(r) PROVE EntryIsSaved'
    BY <2>5 DEF MapToPost
  <2>6. ASSUME NEW r \in Request, FailLate(r) PROVE EntryIsSaved'
    BY <2>6 DEF FailLate
  <2>7. ASSUME NEW r \in Request, Succeed(r) PROVE EntryIsSaved'
    <3>1. r \in saved /\ UNCHANGED saved
      BY <2>7 DEF Succeed
    <3>2. CASE pc' = [pc EXCEPT ![r] = "done"] /\ cache' = r
                 /\ answer' = [answer EXCEPT ![r] = r]
      BY <3>1, <3>2
    <3>3. CASE pc' = [pc EXCEPT ![r] = "done"] /\ UNCHANGED cache
                 /\ answer' = [answer EXCEPT ![r] = Error]
      BY <3>1, <3>3
    <3> QED
      BY <2>7, <3>2, <3>3 DEF Succeed
  <2>8. ASSUME NEW r \in Request, Undo(r) PROVE EntryIsSaved'
    BY <2>8 DEF Undo
  <2>9. CASE Expire
    BY <2>9 DEF Expire
  <2>10. CASE UNCHANGED serverVars
    BY <2>10 DEF serverVars
  <2> QED
    BY <2>1, <2>2, <2>3, <2>4, <2>5, <2>6, <2>7, <2>8, <2>9, <2>10 DEF ServerNext
<1> QED
  BY <1>1, <1>2, ServerTypeCorrect, PTL DEF ServerSpec

-----------------------------------------------------------------------------

\* Where the request is: between the read of an absent entry and its answer.
Working(r) == pc[r] \in {"record", "save", "map", "finish", "undo"}

\* The inductive invariant of an undisturbed server: one request at most is at
\* work, and the entry says how far it is and what was saved.
EntryTellsWho ==
    /\ \A r, q \in Request : Working(r) /\ Working(q) => r = q
    /\ \A r \in Request :
          /\ pc[r] = "record" => cache = Absent
          /\ pc[r] \in {"save", "undo"} => cache = Unknown /\ saved = {}
          /\ pc[r] = "map" => cache = Unknown /\ saved = {r}
          /\ pc[r] = "finish" => cache = r
          /\ pc[r] # "done" => answer[r] = Waiting
    /\ cache = Absent => saved = {}
    /\ cache = Unknown => \E r \in Request : pc[r] \in {"save", "map", "undo"}
    /\ cache \in Request => saved = {cache}

LEMMA EntryTellsWhoInvariant == ServerSpec => [](disturbed = {} => EntryTellsWho)
<1> USE DEF EntryTellsWho, Working
<1>1. ServerInit => EntryTellsWho
  BY Distinct DEF ServerInit
<1>2. TypeOK /\ (disturbed = {} => EntryTellsWho) /\ [ServerNext]_serverVars => (disturbed = {} => EntryTellsWho)'
  <2> SUFFICES ASSUME TypeOK, disturbed = {} => EntryTellsWho, [ServerNext]_serverVars, disturbed' = {}
               PROVE  EntryTellsWho'
    OBVIOUS
  <2>0. UNCHANGED disturbed
    BY DEF ServerNext, Get, Record, Reject, Save, MapToPost, FailLate, Succeed, Undo, Expire, serverVars
  <2>a. disturbed = {} /\ EntryTellsWho
    BY <2>0
  <2> USE <2>a
  <2> USE Distinct DEF TypeOK, Places, GoTo, AnswerWith
  <2>1. ASSUME NEW r \in Request, Get(r) PROVE EntryTellsWho'
    <3>1. UNCHANGED <<cache, saved>> /\ pc[r] = "start"
      BY <2>1 DEF Get
    <3>2. CASE cache = Absent /\ pc' = [pc EXCEPT ![r] = "record"] /\ UNCHANGED answer
      <4>1. \A q \in Request : ~ Working(q)
        BY <2>1, <3>2 DEF Get
      <4> QED
        BY <3>1, <3>2, <4>1
    <3>3. CASE pc' = [pc EXCEPT ![r] = "done"]
                 /\ \E a : answer' = [answer EXCEPT ![r] = a]
      BY <3>1, <3>3
    <3> QED
      BY <2>1, <3>2, <3>3 DEF Get
  <2>2. ASSUME NEW r \in Request, Record(r) PROVE EntryTellsWho'
    BY <2>2 DEF Record
  <2>3. ASSUME NEW r \in Request, Reject(r) PROVE EntryTellsWho'
    BY <2>3 DEF Reject
  <2>4. ASSUME NEW r \in Request, Save(r) PROVE EntryTellsWho'
    BY <2>4 DEF Save
  <2>5. ASSUME NEW r \in Request, MapToPost(r) PROVE EntryTellsWho'
    BY <2>5 DEF MapToPost
  <2>6. ASSUME NEW r \in Request, FailLate(r) PROVE EntryTellsWho'
    BY <2>6 DEF FailLate
  <2>7. ASSUME NEW r \in Request, Succeed(r) PROVE EntryTellsWho'
    BY <2>7 DEF Succeed
  <2>8. ASSUME NEW r \in Request, Undo(r) PROVE EntryTellsWho'
    BY <2>8 DEF Undo
  <2>9. CASE Expire
    BY <2>9 DEF Expire
  <2>10. CASE UNCHANGED serverVars
    BY <2>10 DEF serverVars
  <2> QED
    BY <2>1, <2>2, <2>3, <2>4, <2>5, <2>6, <2>7, <2>8, <2>9, <2>10 DEF ServerNext
<1> QED
  BY <1>1, <1>2, ServerTypeCorrect, PTL DEF ServerSpec

\* Undisturbed, the server saves one post for a pending_post_id at most, and its
\* entry, once nobody is at work, tells what was saved.
THEOREM OnePost == ServerSpec => [](AtMostOnePost /\ IdleEntryIsTrue)
<1>1. TypeOK /\ (disturbed = {} => EntryTellsWho) => AtMostOnePost /\ IdleEntryIsTrue
  <2> SUFFICES ASSUME TypeOK, EntryTellsWho PROVE AtMostOnePost /\ IdleEntryIsTrue
    BY DEF AtMostOnePost, IdleEntryIsTrue
  <2> USE Distinct DEF TypeOK, EntryTellsWho, Working, AtMostOnePost
  <2>1. CASE cache = Absent
    BY <2>1 DEF IdleEntryIsTrue
  <2>2. CASE cache = Unknown
    BY <2>2 DEF IdleEntryIsTrue, Idle
  <2>3. CASE cache \in Request
    BY <2>3 DEF IdleEntryIsTrue
  <2> QED
    BY <2>1, <2>2, <2>3
<1> QED
  BY <1>1, ServerTypeCorrect, EntryTellsWhoInvariant, PTL

-----------------------------------------------------------------------------

\* The post of the abstract specification, where one post was saved.
LEMMA OneSavedPost == ASSUME NEW p \in Request, saved = {p} PROVE SavedPost = p
BY DEF SavedPost

\* Undisturbed, the requests for one pending_post_id do what the abstract
\* specification allows: saving is Create, an answer is Respond, every other step
\* of deduplicateCreatePost and CreatePost is a stutter.
THEOREM Implements == ServerSpec => ImplementsIdempotentPost
<1>1. ServerInit => Idempotent!Init
  BY DEF ServerInit, SavedPost, Idempotent!Init
<1>2. TypeOK /\ (disturbed = {} => EntryTellsWho) /\ [ServerNext]_serverVars
        => [disturbed = {} => [Idempotent!Next]_(Idempotent!vars)]_serverVars
  <2> SUFFICES ASSUME TypeOK, EntryTellsWho, [ServerNext]_serverVars, disturbed = {}
               PROVE  [Idempotent!Next]_(Idempotent!vars)
    OBVIOUS
  <2>1. ASSUME UNCHANGED <<saved, answer>> PROVE UNCHANGED Idempotent!vars
    BY <2>1 DEF Idempotent!vars, SavedPost
  <2>2. ASSUME NEW r \in Request, pc[r] # "done", UNCHANGED saved,
               \E a : /\ answer' = [answer EXCEPT ![r] = a]
                      /\ a = Error \/ (a \in Request /\ saved = {a})
        PROVE  Idempotent!Respond(r)
    <3>1. answer[r] = Waiting /\ UNCHANGED SavedPost
      BY <2>2 DEF EntryTellsWho, SavedPost
    <3>2. CASE answer' = [answer EXCEPT ![r] = Error]
      BY <2>2, <3>1, <3>2 DEF Idempotent!Respond
    <3>3. ASSUME NEW a \in Request, saved = {a}, answer' = [answer EXCEPT ![r] = a]
          PROVE  Idempotent!Respond(r)
      <4>1. SavedPost = a /\ a # NoneSaved
        BY <3>3, OneSavedPost, Distinct
      <4> QED
        BY <2>2, <3>1, <3>3, <4>1 DEF Idempotent!Respond
    <3> QED
      BY <2>2, <3>2, <3>3
  <2> USE DEF GoTo, AnswerWith
  <2>3. ASSUME NEW r \in Request, Get(r)
        PROVE  UNCHANGED Idempotent!vars \/ Idempotent!Respond(r)
    <3>1. UNCHANGED saved /\ pc[r] = "start"
      BY <2>3 DEF Get
    <3>2. \/ UNCHANGED answer
          \/ \E a : /\ answer' = [answer EXCEPT ![r] = a]
                    /\ a = Error \/ (a \in Request /\ cache = a)
      BY <2>3 DEF Get, TypeOK
    <3> QED
      BY <2>1, <2>2, <3>1, <3>2 DEF EntryTellsWho
  <2>4. ASSUME NEW r \in Request, Save(r) PROVE Idempotent!Create(r)
    <3>1. saved = {} /\ saved' = {r} /\ UNCHANGED answer /\ answer[r] = Waiting
      BY <2>4 DEF Save, EntryTellsWho
    <3>2. SavedPost = NoneSaved /\ SavedPost' = r
      BY <3>1 DEF SavedPost
    <3> QED
      BY <3>1, <3>2 DEF Idempotent!Create
  <2>5. ASSUME NEW r \in Request, Succeed(r) PROVE Idempotent!Respond(r)
    <3>1. /\ UNCHANGED saved /\ saved = {r} /\ pc[r] = "finish"
          /\ answer' = [answer EXCEPT ![r] = r] \/ answer' = [answer EXCEPT ![r] = Error]
      BY <2>5 DEF Succeed, EntryTellsWho
    <3> QED
      BY <2>2, <3>1
  <2>6. ASSUME NEW r \in Request, Undo(r) PROVE Idempotent!Respond(r)
    <3>1. UNCHANGED saved /\ pc[r] = "undo" /\ answer' = [answer EXCEPT ![r] = Error]
      BY <2>6 DEF Undo
    <3> QED
      BY <2>2, <3>1
  <2>7. ASSUME NEW r \in Request,
               Record(r) \/ Reject(r) \/ MapToPost(r) \/ FailLate(r)
        PROVE  UNCHANGED <<saved, answer>>
    BY <2>7 DEF Record, Reject, MapToPost, FailLate
  <2>8. CASE Expire \/ UNCHANGED serverVars
    BY <2>1, <2>8 DEF Expire, serverVars
  <2> QED
    BY <2>1, <2>3, <2>4, <2>5, <2>6, <2>7, <2>8 DEF ServerNext, Idempotent!Next
<1> QED
  BY <1>1, <1>2, ServerTypeCorrect, EntryTellsWhoInvariant, PTL
     DEF ServerSpec, ImplementsIdempotentPost
=============================================================================
