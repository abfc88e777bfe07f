-------------------------- MODULE ChannelPosts_proofs --------------------------
(***************************************************************************)
(* Proofs about the posts of a channel as the web application loads them,  *)
(* for every page size, every scenario and any length of time: the blocks  *)
(* stay in order, one of them at most is the end of the channel, what is   *)
(* missing inside a block was lost with its event or is under way, and the *)
(* next synchronisation begins below all that the recent block lacks.      *)
(*                                                                         *)
(* First come the list operators of the reducer, then the merging of       *)
(* blocks and what each received action makes of them, then the pages that *)
(* the server picks, then the inductive invariant, action by action.       *)
(***************************************************************************)
EXTENDS ChannelPosts, ListLemmas

-----------------------------------------------------------------------------
(* What the reducer's list operators do.                                   *)

\* The cardinality that PostsInChannel uses is the one of this module.
LEMMA SameCardinality == ASSUME NEW S PROVE P!Cardinality(S) = Cardinality(S)
BY DEF P!Cardinality, Cardinality

\* Array.filter picks the positions it is given.
LEMMA FilterPicks ==
    ASSUME NEW T, NEW s \in Seq(T), NEW I \in SUBSET DOMAIN s
    PROVE  Picks(P!Filter(s, I), s, I)
<1> DEFINE R == {q \in I \X I : q[1] < q[2]}
           p == P!Enumerate(I, LAMBDA x, y : x < y)
<1>1. IsFiniteSet(I) /\ I \in SUBSET Nat
  BY Positions
<1>2. \A x, y \in I : <<x, y>> \in R <=> x < y
  OBVIOUS
<1> HIDE DEF R
<1>3. Orders(R, I)
  BY <1>1, <1>2 DEF Orders
<1>4. \A x \in I : P!Cardinality({y \in I \ {x} : y < x}) = Cardinality(Below(R, I, x))
  <2>1. \A x \in I : {y \in I \ {x} : y < x} = Below(R, I, x)
    BY <1>2 DEF Below
  <2> QED BY <2>1, SameCardinality
<1>5. \A k \in 1..P!Cardinality(I) :
         \E x \in I : P!Cardinality({y \in I \ {x} : y < x}) = k - 1
  BY <1>1, <1>3, <1>4, Ranks, SameCardinality
<1>6. p = [k \in 1..P!Cardinality(I) |-> p[k]]
  <2> DEFINE Chosen(k) == CHOOSE x \in I : P!Cardinality({y \in I \ {x} : y < x}) = k - 1
  <2>1. p = [k \in 1..P!Cardinality(I) |-> Chosen(k)]
    BY DEF P!Enumerate
  <2> HIDE DEF Chosen, p
  <2> QED BY <2>1
<1>7. \A k \in 1..P!Cardinality(I) :
         p[k] \in I /\ P!Cardinality({y \in I \ {p[k]} : y < p[k]}) = k - 1
  BY <1>5 DEF P!Enumerate
<1>8. P!Filter(s, I) = [k \in DOMAIN p |-> s[p[k]]]
  BY DEF P!Filter
<1> HIDE DEF p
<1>9. Enumerates(p, I)
  <2>1. \A k \in 1..Cardinality(I) : p[k] \in I /\ Cardinality(Below(R, I, p[k])) = k - 1
    BY <1>4, <1>7, SameCardinality
  <2>2. p = [k \in 1..Cardinality(I) |-> p[k]]
    BY <1>6, SameCardinality
  <2> QED BY <1>1, <1>3, <2>1, <2>2, ByRank
<1> QED BY <1>8, <1>9 DEF Picks

\* Array.sort by the newest first picks every position, and the list falls.
LEMMA SortNewer ==
    ASSUME NEW s \in Seq(Nat)
    PROVE  /\ Picks(P!Sort(s, P!Newer), s, DOMAIN s)
           /\ Twice(s) = {} => Descending(P!Sort(s, P!Newer))
<1> DEFINE I == DOMAIN s
           B == {q \in I \X I : P!Newer(s[q[1]], s[q[2]])}
           R == StableOrder(B, I)
           Precedes(i, j) == P!Newer(s[i], s[j]) \/ (i < j /\ ~ P!Newer(s[j], s[i]))
           p == P!Enumerate(I, Precedes)
           t == P!Sort(s, P!Newer)
<1>1. IsFiniteSet(I) /\ I \in SUBSET Nat
  BY Positions
<1>2. \A i, j \in I : <<i, j>> \in B <=> s[i] > s[j]
  BY DEF P!Newer, IdentityOf
<1>3. \A i \in I : s[i] \in Nat
  OBVIOUS
<1>4. \A i, j \in I : <<i, j>> \in R <=> Precedes(i, j)
  BY DEF StableOrder
<1> HIDE DEF B, I, p
<1>5. Orders(R, I)
  <2>1. \A i, j \in I : i # j /\ <<i, j>> \in B => <<j, i>> \notin B
    BY <1>2, <1>3
  <2>2. \A i, j, k \in I : i # j /\ j # k /\ i # k /\ <<i, k>> \in B
                            => <<i, j>> \in B \/ <<j, k>> \in B
    BY <1>2, <1>3
  <2> QED BY <1>1, <2>1, <2>2, StableOrders
<1>6. \A i, j \in I : i # j /\ <<i, j>> \in R => s[i] >= s[j]
  <2>1. \A i, j \in I : <<i, j>> \in R => <<i, j>> \in B \/ <<j, i>> \notin B
    BY DEF StableOrder
  <2> HIDE DEF R
  <2> SUFFICES ASSUME NEW i \in I, NEW j \in I, i # j, <<i, j>> \in R PROVE s[i] >= s[j]
    OBVIOUS
  <2>2. s[i] \in Nat /\ s[j] \in Nat
    BY <1>3
  <2>3. <<i, j>> \in B \/ <<j, i>> \notin B
    BY <2>1
  <2>4. s[i] > s[j] \/ ~ (s[j] > s[i])
    BY <1>2, <2>3
  <2> QED BY <2>2, <2>4
<1> HIDE DEF R, Precedes
<1>7. \A x \in I : P!Cardinality({y \in I \ {x} : Precedes(y, x)}) = Cardinality(Below(R, I, x))
  <2>1. \A x \in I : {y \in I \ {x} : Precedes(y, x)} = Below(R, I, x)
    BY <1>4 DEF Below
  <2> QED BY <2>1, SameCardinality
<1>8. \A k \in 1..P!Cardinality(I) :
         \E x \in I : P!Cardinality({y \in I \ {x} : Precedes(y, x)}) = k - 1
  <2>1. \A k \in 1..Cardinality(I) : \E x \in I : Cardinality(Below(R, I, x)) = k - 1
    BY <1>1, <1>5, RankTaken
  <2> QED BY <2>1, <1>7, SameCardinality
<1>9. p = [k \in 1..P!Cardinality(I) |-> p[k]]
  <2> DEFINE Chosen(k) == CHOOSE x \in I : P!Cardinality({y \in I \ {x} : Precedes(y, x)}) = k - 1
  <2>1. p = [k \in 1..P!Cardinality(I) |-> Chosen(k)]
    BY DEF P!Enumerate, p
  <2> HIDE DEF Chosen, p
  <2> QED BY <2>1
<1>10. \A k \in 1..P!Cardinality(I) :
         p[k] \in I /\ P!Cardinality({y \in I \ {p[k]} : Precedes(y, p[k])}) = k - 1
  BY <1>8 DEF P!Enumerate, p
<1>11. t = [k \in DOMAIN p |-> s[p[k]]]
  BY DEF P!Sort, Precedes, I, p
<1>12. Enumerates(p, I) /\ \A k, l \in DOMAIN p : k < l => <<p[k], p[l]>> \in R
  <2>1. \A k \in 1..Cardinality(I) : p[k] \in I /\ Cardinality(Below(R, I, p[k])) = k - 1
    BY <1>7, <1>10, SameCardinality
  <2>2. p = [k \in 1..Cardinality(I) |-> p[k]]
    BY <1>9, SameCardinality
  <2> HIDE DEF R
  <2> QED BY <1>1, <1>5, <2>1, <2>2, ByRank
<1> HIDE DEF t
<1>13. Picks(t, s, DOMAIN s) /\ PicksBy(t, s, DOMAIN s, R)
  BY <1>11, <1>12 DEF Picks, PicksBy, I
<1>14. Twice(s) = {} => Descending(t)
  BY <1>6, <1>13, PickedFalls DEF I
<1> QED BY <1>13, <1>14 DEF t

\* So does Array.sort by comparePosts, as no post is pending.
LEMMA SortComparePosts ==
    ASSUME NEW s \in Seq(Nat)
    PROVE  /\ Picks(P!Sort(s, P!ComparePosts), s, DOMAIN s)
           /\ Twice(s) = {} => Descending(P!Sort(s, P!ComparePosts))
<1> DEFINE I == DOMAIN s
           B == {q \in I \X I : P!ComparePosts(s[q[1]], s[q[2]])}
           R == StableOrder(B, I)
           Precedes(i, j) == P!ComparePosts(s[i], s[j]) \/ (i < j /\ ~ P!ComparePosts(s[j], s[i]))
           p == P!Enumerate(I, Precedes)
           t == P!Sort(s, P!ComparePosts)
<1>1. IsFiniteSet(I) /\ I \in SUBSET Nat
  BY Positions
<1>2. \A i, j \in I : <<i, j>> \in B <=> s[i] > s[j]
  BY DEF P!ComparePosts, P!Newer, IdentityOf, NeverPending
<1>3. \A i \in I : s[i] \in Nat
  OBVIOUS
<1>4. \A i, j \in I : <<i, j>> \in R <=> Precedes(i, j)
  BY DEF StableOrder
<1> HIDE DEF B, I, p
<1>5. Orders(R, I)
  <2>1. \A i, j \in I : i # j /\ <<i, j>> \in B => <<j, i>> \notin B
    BY <1>2, <1>3
  <2>2. \A i, j, k \in I : i # j /\ j # k /\ i # k /\ <<i, k>> \in B
                            => <<i, j>> \in B \/ <<j, k>> \in B
    BY <1>2, <1>3
  <2> QED BY <1>1, <2>1, <2>2, StableOrders
<1>6. \A i, j \in I : i # j /\ <<i, j>> \in R => s[i] >= s[j]
  <2>1. \A i, j \in I : <<i, j>> \in R => <<i, j>> \in B \/ <<j, i>> \notin B
    BY DEF StableOrder
  <2> HIDE DEF R
  <2> SUFFICES ASSUME NEW i \in I, NEW j \in I, i # j, <<i, j>> \in R PROVE s[i] >= s[j]
    OBVIOUS
  <2>2. s[i] \in Nat /\ s[j] \in Nat
    BY <1>3
  <2>3. <<i, j>> \in B \/ <<j, i>> \notin B
    BY <2>1
  <2>4. s[i] > s[j] \/ ~ (s[j] > s[i])
    BY <1>2, <2>3
  <2> QED BY <2>2, <2>4
<1> HIDE DEF R, Precedes
<1>7. \A x \in I : P!Cardinality({y \in I \ {x} : Precedes(y, x)}) = Cardinality(Below(R, I, x))
  <2>1. \A x \in I : {y \in I \ {x} : Precedes(y, x)} = Below(R, I, x)
    BY <1>4 DEF Below
  <2> QED BY <2>1, SameCardinality
<1>8. \A k \in 1..P!Cardinality(I) :
         \E x \in I : P!Cardinality({y \in I \ {x} : Precedes(y, x)}) = k - 1
  <2>1. \A k \in 1..Cardinality(I) : \E x \in I : Cardinality(Below(R, I, x)) = k - 1
    BY <1>1, <1>5, RankTaken
  <2> QED BY <2>1, <1>7, SameCardinality
<1>9. p = [k \in 1..P!Cardinality(I) |-> p[k]]
  <2> DEFINE Chosen(k) == CHOOSE x \in I : P!Cardinality({y \in I \ {x} : Precedes(y, x)}) = k - 1
  <2>1. p = [k \in 1..P!Cardinality(I) |-> Chosen(k)]
    BY DEF P!Enumerate, p
  <2> HIDE DEF Chosen, p
  <2> QED BY <2>1
<1>10. \A k \in 1..P!Cardinality(I) :
         p[k] \in I /\ P!Cardinality({y \in I \ {p[k]} : Precedes(y, p[k])}) = k - 1
  BY <1>8 DEF P!Enumerate, p
<1>11. t = [k \in DOMAIN p |-> s[p[k]]]
  BY DEF P!Sort, Precedes, I, p
<1>12. Enumerates(p, I) /\ \A k, l \in DOMAIN p : k < l => <<p[k], p[l]>> \in R
  <2>1. \A k \in 1..Cardinality(I) : p[k] \in I /\ Cardinality(Below(R, I, p[k])) = k - 1
    BY <1>7, <1>10, SameCardinality
  <2>2. p = [k \in 1..Cardinality(I) |-> p[k]]
    BY <1>9, SameCardinality
  <2> HIDE DEF R
  <2> QED BY <1>1, <1>5, <2>1, <2>2, ByRank
<1> HIDE DEF t
<1>13. Picks(t, s, DOMAIN s) /\ PicksBy(t, s, DOMAIN s, R)
  BY <1>11, <1>12 DEF Picks, PicksBy, I
<1>14. Twice(s) = {} => Descending(t)
  BY <1>6, <1>13, PickedFalls DEF I
<1> QED BY <1>13, <1>14 DEF t

\* And the sort of blocks, none of them empty, by the newest post they start with.
LEMMA SortBlocks ==
    ASSUME NEW T, NEW s \in Seq(T),
           \A i, j \in DOMAIN s : i # j => s[i].order \in Seq(Nat) /\ s[i].order # <<>>
    PROVE  LET t == P!Sort(s, LAMBDA a, b : P!StartsAt(a) > P!StartsAt(b)) IN
           /\ Picks(t, s, DOMAIN s)
           /\ \A k, l \in DOMAIN t : k < l => P!StartsAt(t[k]) >= P!StartsAt(t[l])
<1> DEFINE I == DOMAIN s
           B == {q \in I \X I : P!StartsAt(s[q[1]]) > P!StartsAt(s[q[2]])}
           R == StableOrder(B, I)
           Precedes(i, j) == P!StartsAt(s[i]) > P!StartsAt(s[j])
                             \/ (i < j /\ ~ (P!StartsAt(s[j]) > P!StartsAt(s[i])))
           p == P!Enumerate(I, Precedes)
           t == P!Sort(s, LAMBDA a, b : P!StartsAt(a) > P!StartsAt(b))
<1>1. IsFiniteSet(I) /\ I \in SUBSET Nat
  BY Positions
<1>2. \A i, j \in I : <<i, j>> \in B <=> P!StartsAt(s[i]) > P!StartsAt(s[j])
  OBVIOUS
<1>3. \A i, j \in I : i # j => P!StartsAt(s[i]) \in Nat
  BY DEF P!StartsAt, IdentityOf
<1>4. \A i, j \in I : <<i, j>> \in R <=> Precedes(i, j)
  BY DEF StableOrder
<1> HIDE DEF B, I, p
<1>5. Orders(R, I)
  <2>1. \A i, j \in I : i # j /\ <<i, j>> \in B => <<j, i>> \notin B
    BY <1>2, <1>3
  <2>2. \A i, j, k \in I : i # j /\ j # k /\ i # k /\ <<i, k>> \in B
                            => <<i, j>> \in B \/ <<j, k>> \in B
    BY <1>2, <1>3
  <2> QED BY <1>1, <2>1, <2>2, StableOrders
<1>6. \A i, j \in I : i # j /\ <<i, j>> \in R => P!StartsAt(s[i]) >= P!StartsAt(s[j])
  <2>1. \A i, j \in I : <<i, j>> \in R => <<i, j>> \in B \/ <<j, i>> \notin B
    BY DEF StableOrder
  <2> HIDE DEF R
  <2> SUFFICES ASSUME NEW i \in I, NEW j \in I, i # j, <<i, j>> \in R PROVE P!StartsAt(s[i]) >= P!StartsAt(s[j])
    OBVIOUS
  <2>2. P!StartsAt(s[i]) \in Nat /\ P!StartsAt(s[j]) \in Nat
    BY <1>3
  <2>3. <<i, j>> \in B \/ <<j, i>> \notin B
    BY <2>1
  <2>4. P!StartsAt(s[i]) > P!StartsAt(s[j]) \/ ~ (P!StartsAt(s[j]) > P!StartsAt(s[i]))
    BY <1>2, <2>3
  <2> QED BY <2>2, <2>4
<1> HIDE DEF R, Precedes
<1>7. \A x \in I : P!Cardinality({y \in I \ {x} : Precedes(y, x)}) = Cardinality(Below(R, I, x))
  <2>1. \A x \in I : {y \in I \ {x} : Precedes(y, x)} = Below(R, I, x)
    BY <1>4 DEF Below
  <2> QED BY <2>1, SameCardinality
<1>8. \A k \in 1..P!Cardinality(I) :
         \E x \in I : P!Cardinality({y \in I \ {x} : Precedes(y, x)}) = k - 1
  <2>1. \A k \in 1..Cardinality(I) : \E x \in I : Cardinality(Below(R, I, x)) = k - 1
    BY <1>1, <1>5, RankTaken
  <2> QED BY <2>1, <1>7, SameCardinality
<1>9. p = [k \in 1..P!Cardinality(I) |-> p[k]]
  <2> DEFINE Chosen(k) == CHOOSE x \in I : P!Cardinality({y \in I \ {x} : Precedes(y, x)}) = k - 1
  <2>1. p = [k \in 1..P!Cardinality(I) |-> Chosen(k)]
    BY DEF P!Enumerate, p
  <2> HIDE DEF Chosen, p
  <2> QED BY <2>1
<1>10. \A k \in 1..P!Cardinality(I) :
         p[k] \in I /\ P!Cardinality({y \in I \ {p[k]} : Precedes(y, p[k])}) = k - 1
  BY <1>8 DEF P!Enumerate, p
<1>11. t = [k \in DOMAIN p |-> s[p[k]]]
  BY DEF P!Sort, Precedes, I, p
<1>12. Enumerates(p, I) /\ \A k, l \in DOMAIN p : k < l => <<p[k], p[l]>> \in R
  <2>1. \A k \in 1..Cardinality(I) : p[k] \in I /\ Cardinality(Below(R, I, p[k])) = k - 1
    BY <1>7, <1>10, SameCardinality
  <2>2. p = [k \in 1..Cardinality(I) |-> p[k]]
    BY <1>9, SameCardinality
  <2> HIDE DEF R
  <2> QED BY <1>1, <1>5, <2>1, <2>2, ByRank
<1> HIDE DEF t
<1>13. Picks(t, s, DOMAIN s)
  BY <1>11, <1>12 DEF Picks, I
<1>14. ASSUME NEW k \in DOMAIN t, NEW l \in DOMAIN t, k < l
       PROVE  P!StartsAt(t[k]) >= P!StartsAt(t[l])
  <2>1. PICK n \in Nat : /\ p \in [1..n -> I]
                         /\ \A i, j \in 1..n : p[i] = p[j] => i = j
    BY <1>12 DEF Enumerates
  <2>2. /\ p[k] \in I /\ p[l] \in I /\ p[k] # p[l] /\ <<p[k], p[l]>> \in R
        /\ t[k] = s[p[k]] /\ t[l] = s[p[l]]
    BY <1>11, <1>12, <1>14, <2>1
  <2> QED BY <1>6, <2>2
<1> QED BY <1>13, <1>14 DEF t

\* A finite set of posts, listed from the newest.
LEMMA Listing ==
    ASSUME NEW S \in SUBSET Nat, IsFiniteSet(S)
    PROVE  /\ NewestFirst(S) \in Seq(S) /\ ToSet(NewestFirst(S)) = S
           /\ Twice(NewestFirst(S)) = {} /\ Descending(NewestFirst(S))
<1> DEFINE R == {q \in S \X S : q[1] > q[2]}
           p == P!Enumerate(S, LAMBDA x, y : x > y)
<1>1. \A x, y \in S : <<x, y>> \in R <=> x > y
  OBVIOUS
<1> HIDE DEF R, p
<1>2. Orders(R, S)
  BY <1>1 DEF Orders
<1>3. \A x \in S : P!Cardinality({y \in S \ {x} : y > x}) = Cardinality(Below(R, S, x))
  <2>1. \A x \in S : {y \in S \ {x} : y > x} = Below(R, S, x)
    BY <1>1 DEF Below
  <2> QED BY <2>1, SameCardinality
<1>4. \A k \in 1..P!Cardinality(S) :
         \E x \in S : P!Cardinality({y \in S \ {x} : y > x}) = k - 1
  <2>1. \A k \in 1..Cardinality(S) : \E x \in S : Cardinality(Below(R, S, x)) = k - 1
    BY <1>2, RankTaken
  <2> QED BY <2>1, <1>3, SameCardinality
<1>5. p = [k \in 1..P!Cardinality(S) |-> p[k]]
  <2> DEFINE Chosen(k) == CHOOSE x \in S : P!Cardinality({y \in S \ {x} : y > x}) = k - 1
  <2>1. p = [k \in 1..P!Cardinality(S) |-> Chosen(k)]
    BY DEF P!Enumerate, p
  <2> HIDE DEF Chosen
  <2> QED BY <2>1
<1>6. \A k \in 1..P!Cardinality(S) :
         p[k] \in S /\ P!Cardinality({y \in S \ {p[k]} : y > p[k]}) = k - 1
  BY <1>4 DEF P!Enumerate, p
<1>7. Enumerates(p, S) /\ \A k, l \in DOMAIN p : k < l => <<p[k], p[l]>> \in R
  <2>1. \A k \in 1..Cardinality(S) : p[k] \in S /\ Cardinality(Below(R, S, p[k])) = k - 1
    BY <1>3, <1>6, SameCardinality
  <2>2. p = [k \in 1..Cardinality(S) |-> p[k]]
    BY <1>5, SameCardinality
  <2> QED BY <1>2, <2>1, <2>2, ByRank
<1>8. PICK n \in Nat : /\ p \in [1..n -> S]
                       /\ \A x \in S : \E k \in 1..n : p[k] = x
                       /\ \A k, l \in 1..n : p[k] = p[l] => k = l
  BY <1>7 DEF Enumerates
<1>9. p \in Seq(S) /\ ToSet(p) = S /\ Twice(p) = {}
  <2>1. p \in Seq(S) /\ DOMAIN p = 1..n
    BY <1>8
  <2>2. ToSet(p) = S
    <3>1. ASSUME NEW x \in S PROVE x \in ToSet(p)
      BY <1>8, <2>1, Elements
    <3>2. ASSUME NEW x \in ToSet(p) PROVE x \in S
      <4>1. PICK k \in DOMAIN p : p[k] = x
        BY Elements
      <4> QED BY <1>8, <2>1, <4>1
    <3> QED BY <3>1, <3>2
  <2>3. \A x : x \notin Twice(p)
    BY <1>8, <2>1, Elements
  <2> QED BY <2>1, <2>2, <2>3
<1>11. Descending(p)
  <2>1. \A k \in DOMAIN p : p[k] \in S
    BY <1>9
  <2> QED BY <1>1, <1>7, <2>1 DEF Descending
<1>10. NewestFirst(S) = p
  BY DEF NewestFirst, p
<1> QED BY <1>9, <1>10, <1>11

-----------------------------------------------------------------------------
(* The blocks of a channel.                                                *)

\* The first of some positions.
LEMMA First ==
    ASSUME NEW T, NEW s \in Seq(T), NEW I \in SUBSET (1..Len(s)), I # {}
    PROVE  P!Min(I) \in I
<1>1. \E x \in I : \A y \in I : x <= y
  BY Least
<1> QED BY <1>1 DEF P!Min

\* A block that lists posts of A, and none twice.
BlockIn(A) == [order : {s \in Seq(A) : Twice(s) = {}}, recent : BOOLEAN, oldest : BOOLEAN]

\* The parts of a block, and what makes one.
LEMMA BlockParts ==
    ASSUME NEW A
    PROVE  /\ \A b \in BlockIn(A) : /\ b.order \in Seq(A) /\ Twice(b.order) = {}
                                    /\ b.recent \in BOOLEAN /\ b.oldest \in BOOLEAN
           /\ \A s \in Seq(A), recent, oldest \in BOOLEAN : Twice(s) = {} =>
                 /\ P!Block(s, recent, oldest) \in BlockIn(A)
                 /\ P!Block(s, recent, oldest).order = s
                 /\ P!Block(s, recent, oldest).recent = recent
BY DEF BlockIn, P!Block

\* A block gets another order.
Reorder(c, r, s) == [c EXCEPT ![r].order = s]

\* Only the order of that block changes.
LEMMA Reordered ==
    \A A, c, r, s :
       c \in Seq(BlockIn(A)) /\ r \in DOMAIN c /\ s \in Seq(A) /\ Twice(s) = {}
       => /\ Reorder(c, r, s) \in Seq(BlockIn(A))
          /\ DOMAIN Reorder(c, r, s) = DOMAIN c /\ Len(Reorder(c, r, s)) = Len(c)
          /\ Reorder(c, r, s)[r].order = s /\ Reorder(c, r, s)[r].recent = c[r].recent
          /\ \A i \in DOMAIN c : i # r => Reorder(c, r, s)[i] = c[i]
<1> SUFFICES ASSUME NEW A, NEW c \in Seq(BlockIn(A)), NEW r \in DOMAIN c,
                    NEW s \in Seq(A), Twice(s) = {}
             PROVE  LET next == [c EXCEPT ![r].order = s] IN
                    /\ next \in Seq(BlockIn(A))
                    /\ DOMAIN next = DOMAIN c /\ Len(next) = Len(c)
                    /\ next[r].order = s /\ next[r].recent = c[r].recent
                    /\ \A i \in DOMAIN c : i # r => next[i] = c[i]
  BY DEF Reorder
<1> DEFINE b == [c[r] EXCEPT !.order = s]
<1>1. c[r] \in BlockIn(A)
  OBVIOUS
<1>2. b \in BlockIn(A) /\ b.order = s /\ b.recent = c[r].recent
  BY <1>1 DEF BlockIn
<1>3. [c EXCEPT ![r].order = s] = [c EXCEPT ![r] = b]
  OBVIOUS
<1> HIDE DEF b
<1>4. /\ [c EXCEPT ![r] = b] \in Seq(BlockIn(A))
      /\ DOMAIN [c EXCEPT ![r] = b] = DOMAIN c
      /\ Len([c EXCEPT ![r] = b]) = Len(c)
      /\ [c EXCEPT ![r] = b][r] = b
      /\ \A i \in DOMAIN c : i # r => [c EXCEPT ![r] = b][i] = c[i]
  BY <1>2
<1> QED BY <1>2, <1>3, <1>4

\* The recent block.
LEMMA RecentOne ==
    ASSUME NEW A, NEW c \in Seq(BlockIn(A))
    PROVE  /\ P!RecentIndex(c) # 0 => /\ P!RecentIndex(c) \in DOMAIN c
                                      /\ c[P!RecentIndex(c)].recent
           /\ P!RecentIndex(c) = 0 => \A i \in DOMAIN c : ~ c[i].recent
<1> DEFINE I == {i \in 1..Len(c) : c[i].recent}
<1>1. P!RecentIndex(c) = IF I # {} THEN P!Min(I) ELSE 0
  BY DEF P!RecentIndex, P!SelectInSeq
<1>2. I # {} => P!Min(I) \in I
  <2> HIDE DEF I
  <2>1. I \in SUBSET (1..Len(c))
    BY DEF I
  <2> QED BY <2>1, First
<1>3. DOMAIN c = 1..Len(c) /\ Len(c) \in Nat
  OBVIOUS
<1> QED BY <1>1, <1>2, <1>3

\* The newest block of those that are not empty, what it lists, and what it does not.
Above(a, b) == \A p \in ToSet(a.order), q \in ToSet(b.order) : p > q
Inside(a, b) == ToSet(a.order) \subseteq ToSet(b.order) /\ (a.recent => b.recent)
Grows(a, b) == ToSet(a.order) \subseteq ToSet(b.order) /\ (b.recent => a.recent)
Falls(b) == b.order # <<>> /\ Descending(b.order)
Gap(S, h) == h \notin S /\ (\E p \in S : p < h) /\ (\E p \in S : p > h)

\* The ends of a block that falls.
LEMMA BlockEnds ==
    ASSUME NEW A \in SUBSET Nat, NEW b \in BlockIn(A), Falls(b)
    PROVE  /\ P!StartsAt(b) \in ToSet(b.order) /\ P!EndsAt(b) \in ToSet(b.order)
           /\ P!StartsAt(b) = Head(b.order) /\ P!EndsAt(b) = Last(b.order)
           /\ \A p \in ToSet(b.order) : p \in A /\ p <= P!StartsAt(b) /\ P!EndsAt(b) <= p
<1>1. b.order \in Seq(Nat) /\ b.order \in Seq(A)
  BY BlockParts, Wider
<1>2. Head(b.order) = b.order[1] /\ Last(b.order) = b.order[Len(b.order)]
  BY <1>1 DEF Falls, Last
<1>3. P!StartsAt(b) = Head(b.order) /\ P!EndsAt(b) = Last(b.order)
  BY DEF P!StartsAt, P!EndsAt, IdentityOf, P!Last, Last
<1>4. \A p \in ToSet(b.order) : p \in A
  BY <1>1, Within
<1> QED BY <1>1, <1>2, <1>3, <1>4, Ends DEF Falls

\* mergePostOrder adds the posts that are not listed yet.
LEMMA OrderMerged ==
    ASSUME NEW A \in SUBSET Nat, NEW left \in Seq(A), NEW right \in Seq(A),
           Twice(left) = {}, Twice(right) = {}
    PROVE  LET o == P!MergePostOrder(left, right) IN
           /\ o \in Seq(A) /\ Twice(o) = {}
           /\ ToSet(o) = ToSet(left) \cup ToSet(right)
           /\ Descending(left) => Descending(o)
<1> DEFINE I == {i \in DOMAIN right : ~ P!Contains(left, right[i])}
           f == P!Filter(right, I)
           o == left \o f
           sorted == P!Sort(o, P!Newer)
<1>1. P!MergePostOrder(left, right) = IF f = <<>> THEN left ELSE sorted
  BY DEF P!MergePostOrder
<1>2. I \in SUBSET DOMAIN right
  OBVIOUS
<1>3. \A i \in DOMAIN right : i \in I <=> right[i] \notin ToSet(left)
  <2>1. DOMAIN left = 1..Len(left)
    OBVIOUS
  <2> QED BY <2>1, Elements DEF P!Contains
<1> HIDE DEF I
<1>4. Picks(f, right, I)
  BY <1>2, FilterPicks
<1> HIDE DEF f
<1>5. /\ f \in Seq(A) /\ ToSet(f) = {right[i] : i \in I} /\ Twice(f) = {}
      /\ f = <<>> <=> I = {}
  BY <1>2, <1>4, Picked
<1>6. ToSet(left) \cap ToSet(f) = {} /\ ToSet(left) \cup ToSet(f) = ToSet(left) \cup ToSet(right)
  <2>1. ToSet(left) \cap ToSet(f) = {}
    BY <1>2, <1>3, <1>5
  <2>2. \A x \in ToSet(f) : x \in ToSet(right)
    BY <1>2, <1>5, Elements
  <2>3. \A x \in ToSet(right) : x \in ToSet(left) \cup ToSet(f)
    BY <1>3, <1>5, Elements
  <2> QED BY <2>1, <2>2, <2>3
<1>7. /\ o \in Seq(A) /\ ToSet(o) = ToSet(left) \cup ToSet(f)
      /\ Twice(o) = {}
  <2>1. /\ o \in Seq(A) /\ ToSet(o) = ToSet(left) \cup ToSet(f)
        /\ Twice(o) \subseteq Twice(left) \cup Twice(f) \cup (ToSet(left) \cap ToSet(f))
    BY <1>5, Concatenated
  <2> QED BY <1>5, <1>6, <2>1
<1> HIDE DEF o
<1>8. /\ sorted \in Seq(A) /\ ToSet(sorted) = ToSet(o) /\ Twice(sorted) = {}
      /\ Descending(sorted)
  <2>1. o \in Seq(Nat)
    BY <1>7, Wider
  <2>2. Picks(sorted, o, DOMAIN o) /\ (Twice(o) = {} => Descending(sorted))
    BY <2>1, SortNewer
  <2> HIDE DEF sorted
  <2>3. sorted \in Seq(A) /\ ToSet(sorted) = {o[i] : i \in DOMAIN o} /\ Twice(sorted) \subseteq Twice(o)
    BY <1>7, <2>2, Picked
  <2>4. ToSet(o) = {o[i] : i \in DOMAIN o}
    BY DEF ToSet
  <2> QED BY <1>7, <2>2, <2>3, <2>4
<1> HIDE DEF sorted
<1>9. CASE f = <<>>
  <2>1. ToSet(f) = {}
    BY <1>5, <1>9
  <2> QED BY <1>1, <1>6, <1>9, <2>1
<1>10. CASE f # <<>>
  BY <1>1, <1>6, <1>7, <1>8, <1>10
<1> QED BY <1>9, <1>10

\* One step of the merge puts a block behind the others, or into the last of them.
LEMMA MergedNext ==
    ASSUME NEW A \in SUBSET Nat, NEW merged \in Seq(BlockIn(A)), NEW b \in BlockIn(A)
    PROVE  LET m == P!MergeNext(merged, b)
               n == Len(merged)
           IN  /\ m \in Seq(BlockIn(A))
               /\ \/ /\ m = Append(merged, b)
                     /\ n = 0 \/ P!EndsAt(merged[n]) > P!StartsAt(b)
                  \/ /\ n # 0 /\ ~ (P!EndsAt(merged[n]) > P!StartsAt(b))
                     /\ Len(m) = n /\ \A k \in 1..n : k # n => m[k] = merged[k]
                     /\ ToSet(m[n].order) = ToSet(merged[n].order) \cup ToSet(b.order)
                     /\ m[n].recent = (merged[n].recent \/ b.recent)
                     /\ Descending(merged[n].order) => Descending(m[n].order)
<1> DEFINE n == Len(merged)
           a == P!Last(merged)
           o == P!MergePostOrder(a.order, b.order)
           both == P!Block(o, a.recent \/ b.recent, a.oldest \/ b.oldest)
<1>0. n \in Nat /\ (merged = <<>> <=> n = 0) /\ a = merged[n]
  BY DEF P!Last
<1>1. CASE merged = <<>> \/ P!EndsAt(a) > P!StartsAt(b)
  <2>1. P!MergeNext(merged, b) = Append(merged, b)
    BY <1>1 DEF P!MergeNext
  <2>2. Append(merged, b) \in Seq(BlockIn(A))
    OBVIOUS
  <2> QED BY <1>0, <1>1, <2>1, <2>2
<1>2. CASE ~ (merged = <<>> \/ P!EndsAt(a) > P!StartsAt(b))
  <2> DEFINE m == Append(P!Front(merged), both)
  <2>1. P!MergeNext(merged, b) = m
    BY <1>2 DEF P!MergeNext
  <2>2. n \in Nat \ {0} /\ n \in DOMAIN merged
    BY <1>0, <1>2
  <2>3. a \in BlockIn(A)
    BY <1>0, <2>2
  <2>4. /\ a.order \in Seq(A) /\ Twice(a.order) = {}
        /\ a.recent \in BOOLEAN /\ a.oldest \in BOOLEAN
        /\ b.order \in Seq(A) /\ Twice(b.order) = {}
        /\ b.recent \in BOOLEAN /\ b.oldest \in BOOLEAN
    BY <2>3, BlockParts
  <2>5. /\ P!Front(merged) \in Seq(BlockIn(A)) /\ Len(P!Front(merged)) = n - 1
        /\ \A k \in 1..(n - 1) : P!Front(merged)[k] = merged[k]
    <3> DEFINE l == n - 1
               u == SubSeq(merged, 1, l)
    <3>1. P!Front(merged) = u
      BY DEF P!Front
    <3>2. l \in Nat /\ l <= Len(merged)
      BY <2>2
    <3> HIDE DEF l
    <3>3. u \in Seq(BlockIn(A)) /\ Len(u) = l /\ \A k \in 1..l : u[k] = merged[k]
      BY <3>2
    <3> HIDE DEF u
    <3> QED BY <3>1, <3>3 DEF l
  <2> HIDE DEF a
  <2>6. /\ o \in Seq(A) /\ Twice(o) = {}
        /\ ToSet(o) = ToSet(a.order) \cup ToSet(b.order)
        /\ Descending(a.order) => Descending(o)
    BY <2>4, OrderMerged
  <2> HIDE DEF o
  <2>7. both \in BlockIn(A) /\ both.order = o /\ both.recent = (a.recent \/ b.recent)
    BY <2>4, <2>6 DEF BlockIn, P!Block
  <2> HIDE DEF both
  <2>8. /\ m \in Seq(BlockIn(A)) /\ Len(m) = n /\ m[n] = both
        /\ \A k \in 1..n : k # n => m[k] = merged[k]
    BY <2>2, <2>5, <2>7
  <2> HIDE DEF m
  <2> QED BY <1>0, <1>2, <2>1, <2>2, <2>6, <2>7, <2>8
<1> QED BY <1>1, <1>2

\* The merge, block by block.
IsMerge(f, next) ==
    f = [i \in 0..Len(next) |-> IF i = 0 THEN <<>> ELSE P!MergeNext(f[i - 1], next[i])]

\* The function by which MergePostBlocks merges one block after the other exists, since
\* there is one up to every block: the fact about recursion that has to be proved.
LEMMA MergeExists ==
    ASSUME NEW T, NEW next \in Seq(T)
    PROVE  \E f : IsMerge(f, next)
<1> DEFINE n == Len(next)
           Upto(m) == \E f : f = [i \in 0..m |-> IF i = 0 THEN <<>>
                                                ELSE P!MergeNext(f[i - 1], next[i])]
           Gaps == {m \in Nat : ~ Upto(m)}
<1>1. Upto(0)
  <2> DEFINE f == [i \in 0..0 |-> <<>>]
  <2>1. f = [i \in 0..0 |-> IF i = 0 THEN <<>> ELSE P!MergeNext(f[i - 1], next[i])]
    OBVIOUS
  <2> HIDE DEF f
  <2> QED BY <2>1
<1>2. ASSUME NEW m \in Nat, Upto(m) PROVE Upto(m + 1)
  <2>1. PICK f : f = [i \in 0..m |-> IF i = 0 THEN <<>> ELSE P!MergeNext(f[i - 1], next[i])]
    BY <1>2
  <2> DEFINE g == [i \in 0..(m + 1) |-> IF i = m + 1 THEN P!MergeNext(f[m], next[m + 1])
                                                     ELSE f[i]]
  <2>2. ASSUME NEW i \in 0..(m + 1)
        PROVE  g[i] = IF i = 0 THEN <<>> ELSE P!MergeNext(g[i - 1], next[i])
    <3>1. CASE i = 0
      <4>1. g[0] = f[0]
        OBVIOUS
      <4>2. f[0] = <<>>
        BY <2>1
      <4> QED BY <3>1, <4>1, <4>2
    <3>2. CASE i = m + 1
      <4>1. i - 1 = m /\ g[m] = f[m] /\ g[i] = P!MergeNext(f[m], next[m + 1])
        BY <3>2
      <4> QED BY <3>2, <4>1
    <3>3. CASE i # 0 /\ i # m + 1
      <4>1. i \in 0..m /\ i - 1 \in 0..(m + 1) /\ i - 1 # m + 1
        BY <3>3
      <4>2. g[i] = f[i] /\ g[i - 1] = f[i - 1]
        BY <3>3, <4>1
      <4>3. f[i] = P!MergeNext(f[i - 1], next[i])
        BY <2>1, <3>3, <4>1
      <4> QED BY <3>3, <4>2, <4>3
    <3> QED BY <3>1, <3>2, <3>3
  <2>3. g = [i \in 0..(m + 1) |-> g[i]]
    OBVIOUS
  <2> HIDE DEF g
  <2>4. g = [i \in 0..(m + 1) |-> IF i = 0 THEN <<>> ELSE P!MergeNext(g[i - 1], next[i])]
    BY <2>2, <2>3
  <2> QED BY <2>4
<1> HIDE DEF Upto
<1>3. Gaps = {}
  <2> SUFFICES ASSUME Gaps # {} PROVE FALSE
    OBVIOUS
  <2>1. PICK m \in Gaps : \A y \in Gaps : m <= y
    BY Least
  <2>2. m # 0
    BY <1>1
  <2>3. m - 1 \in Nat /\ m - 1 \notin Gaps /\ (m - 1) + 1 = m
    BY <2>1, <2>2
  <2>4. Upto(m - 1)
    BY <2>3
  <2> QED BY <1>2, <2>3, <2>4
<1>4. n \in Nat
  OBVIOUS
<1>5. Upto(n)
  BY <1>3, <1>4
<1> QED BY <1>5 DEF Upto, IsMerge

\* What the merge has made of the first j blocks.
Stage(A, m, next, j) ==
    /\ m \in Seq(BlockIn(A)) /\ Len(m) <= j
    /\ Len(m) = j => \A i \in 1..j : m[i] = next[i]
    /\ \A i \in 1..j : \E k \in 1..Len(m) : Inside(next[i], m[k])
    /\ \A k \in 1..Len(m) : \E i \in 1..j : Grows(next[i], m[k])
    /\ \A k \in 1..Len(m) : \A p \in ToSet(m[k].order) : \E i \in 1..j : p \in ToSet(next[i].order)

\* And when all of them fall, and the newest come first.
FallingStage(m, next, j) ==
    /\ \A k \in 1..Len(m) : Falls(m[k])
    /\ \A k, l \in 1..Len(m) : k < l => Above(m[k], m[l])
    /\ \A k \in 1..Len(m), h \in Nat : Gap(ToSet(m[k].order), h) =>
          \E i \in 1..j : Gap(ToSet(next[i].order), h)

Falling(next) ==
    /\ \A i \in DOMAIN next : Falls(next[i])
    /\ \A i, j \in DOMAIN next : i < j => P!StartsAt(next[i]) >= P!StartsAt(next[j])

\* A block behind the others.
LEMMA StageAppends ==
    ASSUME NEW A \in SUBSET Nat, NEW next \in Seq(BlockIn(A)), NEW j \in Nat, j + 1 <= Len(next),
           NEW m, Stage(A, m, next, j)
    PROVE  Stage(A, Append(m, next[j + 1]), next, j + 1)
<1> DEFINE b == next[j + 1]
           n == Len(m)
           m2 == Append(m, b)
<1>1. b \in BlockIn(A)
  OBVIOUS
<1>2. /\ m \in Seq(BlockIn(A)) /\ n \in Nat /\ n <= j
  BY DEF Stage
<1>3. /\ m2 \in Seq(BlockIn(A)) /\ Len(m2) = n + 1
      /\ \A k \in 1..n : m2[k] = m[k]
      /\ m2[n + 1] = b
  <2> HIDE DEF b
  <2> QED BY <1>1, <1>2
<1>4. \A k \in 1..(n + 1) : k \in 1..n \/ k = n + 1
  BY <1>2
<1>5. 1..j \subseteq 1..(j + 1) /\ j + 1 \in 1..(j + 1) /\ 1..n \subseteq 1..(n + 1) /\ n + 1 \in 1..(n + 1)
  BY <1>2
<1>6. \A i \in 1..(j + 1) : i \in 1..j \/ i = j + 1
  OBVIOUS
<1> HIDE DEF m2, n
<1>7. n + 1 = j + 1 => \A i \in 1..(j + 1) : m2[i] = next[i]
  <2> SUFFICES ASSUME n + 1 = j + 1, NEW i \in 1..(j + 1) PROVE m2[i] = next[i]
    OBVIOUS
  <2>1. n = j
    BY <1>2
  <2>2. i \in 1..j => m[i] = next[i]
    BY <2>1 DEF Stage, n
  <2> QED BY <1>3, <1>6, <2>1, <2>2
<1>8. \A i \in 1..(j + 1) : \E k \in 1..(n + 1) : Inside(next[i], m2[k])
  <2> SUFFICES ASSUME NEW i \in 1..(j + 1) PROVE \E k \in 1..(n + 1) : Inside(next[i], m2[k])
    OBVIOUS
  <2>1. CASE i = j + 1
    BY <1>3, <1>5, <2>1 DEF Inside
  <2>2. CASE i \in 1..j
    <3>1. PICK k \in 1..n : Inside(next[i], m[k])
      BY <2>2 DEF Stage, n
    <3> QED BY <1>3, <1>5, <3>1
  <2> QED BY <1>6, <2>1, <2>2
<1>9. \A k \in 1..(n + 1) : \E i \in 1..(j + 1) : Grows(next[i], m2[k])
  <2> SUFFICES ASSUME NEW k \in 1..(n + 1) PROVE \E i \in 1..(j + 1) : Grows(next[i], m2[k])
    OBVIOUS
  <2>1. CASE k = n + 1
    BY <1>3, <1>5, <2>1 DEF Grows
  <2>2. CASE k \in 1..n
    <3>1. PICK i \in 1..j : Grows(next[i], m[k])
      BY <2>2 DEF Stage, n
    <3> QED BY <1>3, <1>5, <2>2, <3>1
  <2> QED BY <1>4, <2>1, <2>2
<1>10. \A k \in 1..(n + 1) : \A p \in ToSet(m2[k].order) :
           \E i \in 1..(j + 1) : p \in ToSet(next[i].order)
  <2> SUFFICES ASSUME NEW k \in 1..(n + 1), NEW p \in ToSet(m2[k].order)
               PROVE  \E i \in 1..(j + 1) : p \in ToSet(next[i].order)
    OBVIOUS
  <2>1. CASE k = n + 1
    BY <1>3, <1>5, <2>1
  <2>2. CASE k \in 1..n
    <3>1. PICK i \in 1..j : p \in ToSet(next[i].order)
      BY <1>3, <2>2 DEF Stage, n
    <3> QED BY <1>5, <3>1
  <2> QED BY <1>4, <2>1, <2>2
<1>11. n + 1 <= j + 1
  BY <1>2
<1> QED BY <1>3, <1>7, <1>8, <1>9, <1>10, <1>11 DEF Stage, m2

\* A block that goes into the last of the others.
LEMMA StageUnites ==
    ASSUME NEW A \in SUBSET Nat, NEW next \in Seq(BlockIn(A)), NEW j \in Nat, j + 1 <= Len(next),
           NEW m, Stage(A, m, next, j), Len(m) # 0,
           NEW m2 \in Seq(BlockIn(A)), Len(m2) = Len(m),
           \A k \in 1..Len(m) : k # Len(m) => m2[k] = m[k],
           ToSet(m2[Len(m)].order) = ToSet(m[Len(m)].order) \cup ToSet(next[j + 1].order),
           m2[Len(m)].recent = (m[Len(m)].recent \/ next[j + 1].recent)
    PROVE  Stage(A, m2, next, j + 1)
<1> DEFINE n == Len(m)
           b == next[j + 1]
<1>1. n \in Nat \ {0} /\ n <= j
  BY DEF Stage
<1>2. 1..j \subseteq 1..(j + 1) /\ j + 1 \in 1..(j + 1) /\ n \in 1..n
  BY <1>1
<1>3. \A i \in 1..(j + 1) : i \in 1..j \/ i = j + 1
  OBVIOUS
<1>4. /\ \A k \in 1..n : k # n => m2[k] = m[k]
      /\ ToSet(m2[n].order) = ToSet(m[n].order) \cup ToSet(b.order)
      /\ m2[n].recent = (m[n].recent \/ b.recent)
      /\ Len(m2) = n
  OBVIOUS
<1>5. \A k \in 1..n : Inside(m[k], m2[k])
  BY <1>4 DEF Inside
<1> HIDE DEF b, n
<1>6. \A i \in 1..(j + 1) : \E k \in 1..n : Inside(next[i], m2[k])
  <2> SUFFICES ASSUME NEW i \in 1..(j + 1) PROVE \E k \in 1..n : Inside(next[i], m2[k])
    OBVIOUS
  <2>1. CASE i = j + 1
    BY <1>2, <1>4, <2>1 DEF Inside, b
  <2>2. CASE i \in 1..j
    <3>1. PICK k \in 1..n : Inside(next[i], m[k])
      BY <2>2 DEF Stage, n
    <3> QED BY <1>5, <3>1 DEF Inside
  <2> QED BY <1>3, <2>1, <2>2
<1>7. \A k \in 1..n : \E i \in 1..(j + 1) : Grows(next[i], m2[k])
  <2> SUFFICES ASSUME NEW k \in 1..n PROVE \E i \in 1..(j + 1) : Grows(next[i], m2[k])
    OBVIOUS
  <2>1. PICK i \in 1..j : Grows(next[i], m[k])
    BY DEF Stage, n
  <2>2. CASE k # n
    BY <1>2, <1>4, <2>1, <2>2
  <2>3. CASE k = n /\ m[n].recent
    BY <1>2, <1>4, <2>1, <2>3 DEF Grows
  <2>4. CASE k = n /\ ~ m[n].recent
    BY <1>2, <1>4, <2>4 DEF Grows, b
  <2> QED BY <2>2, <2>3, <2>4
<1>8. \A k \in 1..n : \A p \in ToSet(m2[k].order) : \E i \in 1..(j + 1) : p \in ToSet(next[i].order)
  <2> SUFFICES ASSUME NEW k \in 1..n, NEW p \in ToSet(m2[k].order)
               PROVE  \E i \in 1..(j + 1) : p \in ToSet(next[i].order)
    OBVIOUS
  <2>1. p \in ToSet(m[k].order) \/ p \in ToSet(next[j + 1].order)
    BY <1>4 DEF b
  <2>2. p \in ToSet(m[k].order) => \E i \in 1..j : p \in ToSet(next[i].order)
    BY DEF Stage, n
  <2> QED BY <1>2, <2>1, <2>2
<1>9. n <= j + 1 /\ n # j + 1
  BY <1>1
<1> QED BY <1>4, <1>6, <1>7, <1>8, <1>9 DEF Stage

\* A block behind the others, all of which are newer.
LEMMA FallsAppends ==
    ASSUME NEW A \in SUBSET Nat, NEW next \in Seq(BlockIn(A)), NEW j \in Nat, j + 1 <= Len(next),
           NEW m, Stage(A, m, next, j), Falling(next), FallingStage(m, next, j),
           Len(m) = 0 \/ P!EndsAt(m[Len(m)]) > P!StartsAt(next[j + 1])
    PROVE  FallingStage(Append(m, next[j + 1]), next, j + 1)
<1> DEFINE b == next[j + 1]
           n == Len(m)
           m2 == Append(m, b)
<1>1. b \in BlockIn(A) /\ j + 1 \in DOMAIN next
  OBVIOUS
<1>2. m \in Seq(BlockIn(A)) /\ n \in Nat
  BY DEF Stage
<1>3. /\ Len(m2) = n + 1 /\ m2[n + 1] = b
      /\ \A k \in 1..n : m2[k] = m[k]
  <2> HIDE DEF b
  <2> QED BY <1>1, <1>2
<1>4. \A k \in 1..(n + 1) : k \in 1..n \/ k = n + 1
  BY <1>2
<1>5. 1..j \subseteq 1..(j + 1) /\ j + 1 \in 1..(j + 1)
  OBVIOUS
<1>6. Falls(b)
  BY <1>1 DEF Falling
<1>7. \A k \in 1..n : m[k] \in BlockIn(A) /\ Falls(m[k])
  BY <1>2 DEF FallingStage
<1>8. n = 0 \/ P!EndsAt(m[n]) > P!StartsAt(b)
  OBVIOUS
<1>9. \A k, l \in 1..n : k < l => Above(m[k], m[l])
  BY DEF FallingStage
<1>10. \A k \in 1..n, h \in Nat : Gap(ToSet(m[k].order), h) =>
          \E i \in 1..j : Gap(ToSet(next[i].order), h)
  BY DEF FallingStage
<1>11. Len(m2) = n + 1 /\ b = next[j + 1]
  BY <1>3
<1> HIDE DEF m2, n, b
<1>12. \A k \in 1..(n + 1) : Falls(m2[k])
  BY <1>3, <1>4, <1>6, <1>7
<1>13. \A k \in 1..n : Above(m[k], b)
  <2> SUFFICES ASSUME NEW k \in 1..n, NEW p \in ToSet(m[k].order), NEW q \in ToSet(b.order)
               PROVE  p > q
    BY DEF Above
  <2>1. n \in 1..n
    BY <1>2
  <2>2. /\ P!EndsAt(m[n]) \in ToSet(m[n].order) /\ P!EndsAt(m[n]) \in Nat
        /\ \A x \in ToSet(m[n].order) : P!EndsAt(m[n]) <= x
    BY <1>7, <2>1, BlockEnds
  <2>3. q <= P!StartsAt(b) /\ q \in Nat /\ P!StartsAt(b) \in Nat
    BY <1>1, <1>6, BlockEnds
  <2>4. p \in Nat
    BY <1>7, BlockEnds
  <2>5. P!EndsAt(m[n]) > P!StartsAt(b)
    BY <1>8, <2>1
  <2>6. CASE k = n
    BY <2>2, <2>3, <2>4, <2>5, <2>6
  <2>7. CASE k # n
    <3>1. k < n
      BY <1>2, <2>7
    <3>2. p > P!EndsAt(m[n])
      BY <1>9, <2>1, <2>2, <3>1 DEF Above
    <3> QED BY <2>2, <2>3, <2>4, <2>5, <3>2
  <2> QED BY <2>6, <2>7
<1>14. \A k, l \in 1..(n + 1) : k < l => Above(m2[k], m2[l])
  <2> SUFFICES ASSUME NEW k \in 1..(n + 1), NEW l \in 1..(n + 1), k < l PROVE Above(m2[k], m2[l])
    OBVIOUS
  <2>1. k \in 1..n
    BY <1>2
  <2>2. CASE l = n + 1
    BY <1>3, <1>13, <2>1, <2>2
  <2>3. CASE l \in 1..n
    BY <1>3, <1>9, <2>1, <2>3
  <2> QED BY <1>4, <2>2, <2>3
<1>15. \A k \in 1..(n + 1), h \in Nat : Gap(ToSet(m2[k].order), h) =>
          \E i \in 1..(j + 1) : Gap(ToSet(next[i].order), h)
  <2> SUFFICES ASSUME NEW k \in 1..(n + 1), NEW h \in Nat, Gap(ToSet(m2[k].order), h)
               PROVE  \E i \in 1..(j + 1) : Gap(ToSet(next[i].order), h)
    OBVIOUS
  <2>1. CASE k = n + 1
    BY <1>3, <1>5, <1>11, <2>1
  <2>2. CASE k \in 1..n
    BY <1>3, <1>5, <1>10, <2>2
  <2> QED BY <1>4, <2>1, <2>2
<1> QED BY <1>11, <1>12, <1>14, <1>15 DEF FallingStage, m2

\* A block that overlaps the last of the others.
LEMMA FallsUnites ==
    ASSUME NEW A \in SUBSET Nat, NEW next \in Seq(BlockIn(A)), NEW j \in Nat, j + 1 <= Len(next),
           NEW m, Stage(A, m, next, j), Falling(next), FallingStage(m, next, j),
           Len(m) # 0, ~ (P!EndsAt(m[Len(m)]) > P!StartsAt(next[j + 1])),
           NEW m2 \in Seq(BlockIn(A)), Len(m2) = Len(m),
           \A k \in 1..Len(m) : k # Len(m) => m2[k] = m[k],
           ToSet(m2[Len(m)].order) = ToSet(m[Len(m)].order) \cup ToSet(next[j + 1].order),
           Descending(m[Len(m)].order) => Descending(m2[Len(m)].order)
    PROVE  FallingStage(m2, next, j + 1)
<1> DEFINE n == Len(m)
           a == m[n]
           b == next[j + 1]
           E == P!EndsAt(a)
           T == P!StartsAt(b)
<1>1. /\ m \in Seq(BlockIn(A)) /\ n \in Nat \ {0} /\ n \in 1..n
      /\ b \in BlockIn(A) /\ j + 1 \in DOMAIN next /\ j + 1 \in 1..(j + 1)
      /\ 1..j \subseteq DOMAIN next /\ 1..j \subseteq 1..(j + 1)
  <2>1. m \in Seq(BlockIn(A))
    BY DEF Stage
  <2>2. n \in Nat \ {0} /\ n \in 1..n
    BY <2>1
  <2>3. DOMAIN next = 1..Len(next) /\ Len(next) \in Nat
    OBVIOUS
  <2>4. j + 1 \in DOMAIN next /\ j + 1 \in 1..(j + 1) /\ 1..j \subseteq DOMAIN next
        /\ 1..j \subseteq 1..(j + 1)
    BY <2>3
  <2>5. b \in BlockIn(A)
    BY <2>4
  <2> QED BY <2>1, <2>2, <2>4, <2>5
<1>2. /\ \A k \in 1..n : k # n => m2[k] = m[k]
      /\ ToSet(m2[n].order) = ToSet(a.order) \cup ToSet(b.order)
      /\ Descending(a.order) => Descending(m2[n].order)
      /\ Len(m2) = n /\ ~ (E > T) /\ b = next[j + 1] /\ a = m[n]
  OBVIOUS
<1>3. \A k \in 1..n : m[k] \in BlockIn(A) /\ Falls(m[k])
  BY <1>1 DEF FallingStage
<1>4. \A k, l \in 1..n : k < l => Above(m[k], m[l])
  BY DEF FallingStage
<1>5. \A k \in 1..n, h \in Nat : Gap(ToSet(m[k].order), h) =>
          \E i \in 1..j : Gap(ToSet(next[i].order), h)
  BY DEF FallingStage
<1>6. Falls(b)
  BY <1>1 DEF Falling
<1>7. PICK i \in 1..j : ToSet(next[i].order) \subseteq ToSet(a.order)
  BY <1>1 DEF Stage, Grows
<1> HIDE DEF a, b, n
<1>8. a \in BlockIn(A) /\ Falls(a)
  BY <1>1, <1>2, <1>3
<1>9. /\ P!StartsAt(a) \in ToSet(a.order) /\ E \in ToSet(a.order)
      /\ \A p \in ToSet(a.order) : p \in Nat /\ p <= P!StartsAt(a) /\ E <= p
  <2> HIDE DEF E
  <2>1. /\ P!StartsAt(a) \in ToSet(a.order) /\ P!EndsAt(a) \in ToSet(a.order)
        /\ \A p \in ToSet(a.order) : p \in A /\ p <= P!StartsAt(a) /\ P!EndsAt(a) <= p
    BY <1>8, BlockEnds
  <2> QED BY <2>1 DEF E
<1>10. T \in ToSet(b.order) /\ \A p \in ToSet(b.order) : p \in Nat /\ p <= T
  <2> HIDE DEF T
  <2>1. /\ P!StartsAt(b) \in ToSet(b.order)
        /\ \A p \in ToSet(b.order) : p \in A /\ p <= P!StartsAt(b)
    BY <1>1, <1>6, BlockEnds
  <2> QED BY <2>1 DEF T
<1>11. P!StartsAt(next[i]) \in ToSet(a.order) /\ P!StartsAt(next[i]) >= T
  <2>1. next[i] \in BlockIn(A) /\ Falls(next[i])
    BY <1>1 DEF Falling
  <2>2. P!StartsAt(next[i]) \in ToSet(next[i].order)
    BY <2>1, BlockEnds
  <2>3. i \in DOMAIN next /\ i < j + 1
    BY <1>1
  <2> QED BY <1>1, <1>2, <1>7, <2>2, <2>3 DEF Falling, T
<1> HIDE DEF E, T
<1>12. E <= T
  BY <1>2, <1>9, <1>10
<1>13. \A k \in 1..n : Falls(m2[k])
  <2>1. m2[n].order # <<>>
    <3>1. ToSet(<<>>) = {}
      BY DEF ToSet
    <3> QED BY <1>2, <1>10, <3>1
  <2>2. Descending(m2[n].order)
    BY <1>2, <1>8 DEF Falls
  <2> QED BY <1>2, <1>3, <2>1, <2>2 DEF Falls
<1>14. \A k, l \in 1..n : k < l => Above(m2[k], m2[l])
  <2> SUFFICES ASSUME NEW k \in 1..n, NEW l \in 1..n, k < l PROVE Above(m2[k], m2[l])
    OBVIOUS
  <2>1. k # n /\ k < n
    BY <1>1
  <2>2. Above(m[k], m[l]) /\ Above(m[k], a) /\ m2[k] = m[k]
    BY <1>1, <1>2, <1>4, <2>1
  <2>3. CASE l # n
    BY <1>2, <2>2, <2>3
  <2>4. CASE l = n
    <3> SUFFICES ASSUME NEW p \in ToSet(m[k].order), NEW q \in ToSet(m2[n].order) PROVE p > q
      BY <2>2, <2>4 DEF Above
    <3>1. p \in Nat
      BY <1>3, BlockEnds
    <3>2. CASE q \in ToSet(a.order)
      BY <2>2, <3>2 DEF Above
    <3>3. CASE q \in ToSet(b.order)
      <4>1. p > P!StartsAt(next[i])
        BY <1>11, <2>2 DEF Above
      <4>2. q \in Nat /\ T \in Nat /\ q <= T
        BY <1>10, <3>3
      <4>3. P!StartsAt(next[i]) \in Nat /\ P!StartsAt(next[i]) >= T
        BY <1>9, <1>11
      <4> QED BY <3>1, <4>1, <4>2, <4>3
    <3> QED BY <1>2, <3>2, <3>3
  <2> QED BY <2>3, <2>4
<1>15. \A k \in 1..n, h \in Nat : Gap(ToSet(m2[k].order), h) =>
          \E l \in 1..(j + 1) : Gap(ToSet(next[l].order), h)
  <2> SUFFICES ASSUME NEW k \in 1..n, NEW h \in Nat, Gap(ToSet(m2[k].order), h)
               PROVE  \E l \in 1..(j + 1) : Gap(ToSet(next[l].order), h)
    OBVIOUS
  <2>1. CASE k # n
    BY <1>1, <1>2, <1>5, <2>1
  <2>2. CASE k = n
    <3> DEFINE S == ToSet(a.order)
               B == ToSet(b.order)
    <3>1. PICK lo \in S \cup B, hi \in S \cup B : lo < h /\ hi > h /\ h \notin S /\ h \notin B
      BY <1>2, <2>2 DEF Gap
    <3> HIDE DEF S, B
    <3>2. P!StartsAt(a) > h
      BY <1>9, <1>10, <1>11, <3>1 DEF S, B
    <3>3. CASE h > E
      <4>1. Gap(ToSet(a.order), h)
        BY <1>9, <3>1, <3>2, <3>3 DEF Gap, S
      <4> QED BY <1>1, <1>2, <1>5, <4>1
    <3>4. CASE ~ (h > E)
      <4>1. h < E
        BY <1>9, <3>1, <3>4 DEF S
      <4>2. lo \in B /\ T \in B /\ T > h
        BY <1>9, <1>10, <1>12, <3>1, <4>1 DEF S, B
      <4>3. Gap(ToSet(b.order), h)
        BY <3>1, <4>2 DEF Gap, B
      <4> QED BY <1>1, <1>2, <4>3
    <3> QED BY <3>3, <3>4
  <2> QED BY <2>1, <2>2
<1> QED BY <1>2, <1>13, <1>14, <1>15 DEF FallingStage

\* Every stage of the merge keeps what it has been given, and its blocks apart.
LEMMA MergeStages ==
    ASSUME NEW A \in SUBSET Nat, NEW next \in Seq(BlockIn(A)), NEW f, IsMerge(f, next)
    PROVE  /\ Stage(A, f[Len(next)], next, Len(next))
           /\ Falling(next) => FallingStage(f[Len(next)], next, Len(next))
<1> DEFINE n == Len(next)
           Right(m) == Stage(A, f[m], next, m) /\ (Falling(next) => FallingStage(f[m], next, m))
           Wrong == {m \in 0..n : ~ Right(m)}
<1>1. n \in Nat
  OBVIOUS
<1>2. \A i \in 0..n : f[i] = IF i = 0 THEN <<>> ELSE P!MergeNext(f[i - 1], next[i])
  BY DEF IsMerge
<1>3. Right(0)
  <2>1. f[0] = <<>>
    BY <1>1, <1>2
  <2>2. Len(<<>>) = 0 /\ <<>> \in Seq(BlockIn(A)) /\ 1..0 = {}
    OBVIOUS
  <2> QED BY <2>1, <2>2 DEF Stage, FallingStage
<1>4. ASSUME NEW j \in Nat, j + 1 <= n, Right(j) PROVE Right(j + 1)
  <2> DEFINE m == f[j]
             b == next[j + 1]
             m2 == P!MergeNext(m, b)
  <2>1. j + 1 \in 0..n /\ j + 1 # 0 /\ (j + 1) - 1 = j
    BY <1>1, <1>4
  <2>2. f[j + 1] = m2
    BY <1>2, <2>1
  <2>3. Stage(A, m, next, j) /\ (Falling(next) => FallingStage(m, next, j))
    BY <1>4
  <2>4. m \in Seq(BlockIn(A)) /\ b \in BlockIn(A) /\ j + 1 <= Len(next)
    <3>1. m \in Seq(BlockIn(A))
      BY <2>3 DEF Stage
    <3>2. b \in BlockIn(A)
      BY <1>4
    <3> QED BY <1>4, <3>1, <3>2
  <2> HIDE DEF m, n, Right
  <2>5. /\ m2 \in Seq(BlockIn(A))
        /\ \/ /\ m2 = Append(m, b)
              /\ Len(m) = 0 \/ P!EndsAt(m[Len(m)]) > P!StartsAt(b)
           \/ /\ Len(m) # 0 /\ ~ (P!EndsAt(m[Len(m)]) > P!StartsAt(b))
              /\ Len(m2) = Len(m) /\ \A k \in 1..Len(m) : k # Len(m) => m2[k] = m[k]
              /\ ToSet(m2[Len(m)].order) = ToSet(m[Len(m)].order) \cup ToSet(b.order)
              /\ m2[Len(m)].recent = (m[Len(m)].recent \/ b.recent)
              /\ Descending(m[Len(m)].order) => Descending(m2[Len(m)].order)
    BY <2>4, MergedNext
  <2> HIDE DEF m2
  <2>6. CASE m2 = Append(m, b) /\ (Len(m) = 0 \/ P!EndsAt(m[Len(m)]) > P!StartsAt(b))
    <3>1. Stage(A, Append(m, b), next, j + 1)
      BY <2>3, <2>4, StageAppends
    <3>2. ASSUME Falling(next) PROVE FallingStage(Append(m, b), next, j + 1)
      BY <2>3, <2>4, <2>6, <3>2, FallsAppends
    <3> QED BY <2>2, <2>6, <3>1, <3>2 DEF Right
  <2>7. CASE ~ (m2 = Append(m, b) /\ (Len(m) = 0 \/ P!EndsAt(m[Len(m)]) > P!StartsAt(b)))
    <3>1. /\ Len(m) # 0 /\ ~ (P!EndsAt(m[Len(m)]) > P!StartsAt(b))
          /\ Len(m2) = Len(m) /\ \A k \in 1..Len(m) : k # Len(m) => m2[k] = m[k]
          /\ ToSet(m2[Len(m)].order) = ToSet(m[Len(m)].order) \cup ToSet(b.order)
          /\ m2[Len(m)].recent = (m[Len(m)].recent \/ b.recent)
          /\ Descending(m[Len(m)].order) => Descending(m2[Len(m)].order)
      BY <2>5, <2>7
    <3>2. Stage(A, m2, next, j + 1)
      BY <2>3, <2>4, <2>5, <3>1, StageUnites
    <3>3. ASSUME Falling(next) PROVE FallingStage(m2, next, j + 1)
      BY <2>3, <2>4, <2>5, <3>1, <3>3, FallsUnites
    <3> QED BY <2>2, <3>2, <3>3 DEF Right
  <2> QED BY <2>6, <2>7
<1>5. Wrong = {}
  <2> SUFFICES ASSUME Wrong # {} PROVE FALSE
    OBVIOUS
  <2> HIDE DEF Right
  <2>1. Wrong \in SUBSET Nat
    BY <1>1
  <2>2. PICK m \in Wrong : \A y \in Wrong : m <= y
    <3> HIDE DEF Wrong
    <3> QED BY <2>1, Least
  <2>3. m \in 0..n /\ ~ Right(m)
    BY <2>2
  <2>4. m # 0
    BY <1>3, <2>3
  <2> DEFINE j == m - 1
  <2>5. j \in Nat /\ j + 1 <= n /\ j \in 0..n /\ j + 1 = m /\ j < m
    BY <1>1, <2>3, <2>4
  <2> HIDE DEF j
  <2>6. Right(j)
    <3>1. j \notin Wrong
      BY <2>1, <2>2, <2>5
    <3> QED BY <2>5, <3>1
  <2> QED BY <1>4, <2>3, <2>5, <2>6
<1>6. Right(n)
  <2> HIDE DEF Right
  <2> QED BY <1>1, <1>5
<1> QED BY <1>6

\* The blocks of a list lie apart: of any two, all posts of one are newer.
Apart(c) == \A i, j \in DOMAIN c : i # j => Above(c[i], c[j]) \/ Above(c[j], c[i])

\* What the merge of blocks is for.
MergedTo(blocks, m) ==
    /\ \A k \in DOMAIN m : Falls(m[k])
    /\ Apart(m)
    /\ \A i \in DOMAIN blocks : blocks[i].order # <<>> =>
          \E k \in DOMAIN m : Inside(blocks[i], m[k])
    /\ \A k \in DOMAIN m : \E i \in DOMAIN blocks : Grows(blocks[i], m[k])
    /\ \A k \in DOMAIN m : \A p \in ToSet(m[k].order) :
          \E i \in DOMAIN blocks : p \in ToSet(blocks[i].order)
    /\ \A k \in DOMAIN m : \A h \in Nat : Gap(ToSet(m[k].order), h) =>
          \E i \in DOMAIN blocks : Gap(ToSet(blocks[i].order), h)

\* Blocks that each list the newest post first, and of which an empty one would go.
Mergeable(blocks) ==
    /\ \A i \in DOMAIN blocks : Descending(blocks[i].order)
    /\ \A i \in DOMAIN blocks : blocks[i].order = <<>> => ~ blocks[i].recent
    /\ \E i \in DOMAIN blocks : blocks[i].order # <<>>

\* mergePostBlocks.
LEMMA BlocksMerged ==
    ASSUME NEW A \in SUBSET Nat, NEW blocks \in Seq(BlockIn(A)), ~ P!MergeThrows(blocks)
    PROVE  /\ P!MergePostBlocks(blocks) \in Seq(BlockIn(A))
           /\ Len(blocks) = 1 => P!MergePostBlocks(blocks) = blocks
           /\ Mergeable(blocks) => MergedTo(blocks, P!MergePostBlocks(blocks))
<1> DEFINE I == {i \in DOMAIN blocks : blocks[i].order # <<>> \/ blocks[i].recent}
           kept == P!RemoveNonRecentEmptyPostBlocks(blocks)
           next == P!Sort(kept, LAMBDA a, b : P!StartsAt(a) > P!StartsAt(b))
           merged == CHOOSE f : IsMerge(f, next)
           all == merged[Len(next)]
           n == Len(next)
<1>1. I \in SUBSET DOMAIN blocks
  OBVIOUS
<1>2. Picks(kept, blocks, I)
  <2>1. kept = P!Filter(blocks, I)
    BY DEF P!RemoveNonRecentEmptyPostBlocks
  <2> HIDE DEF kept, I
  <2> QED BY <1>1, <2>1, FilterPicks
<1>3. \A i \in DOMAIN blocks : i \in I <=> blocks[i].order # <<>> \/ blocks[i].recent
  OBVIOUS
<1>4. P!MergePostBlocks(blocks) = IF next = <<>> \/ Len(all) = Len(blocks) THEN blocks ELSE all
  BY DEF P!MergePostBlocks, IsMerge
<1>5. Len(kept) > 1 => \A i \in DOMAIN kept : kept[i].order # <<>>
  BY DEF P!MergeThrows
<1> HIDE DEF kept, I
<1>6. /\ kept \in Seq(BlockIn(A)) /\ Len(kept) <= Len(blocks)
      /\ Len(kept) = Len(blocks) => I = DOMAIN blocks
      /\ I = DOMAIN blocks => Len(kept) = Len(blocks)
      /\ I # {} <=> kept # <<>>
  <2>1. /\ kept \in Seq(BlockIn(A)) /\ Len(kept) <= Len(blocks)
        /\ Len(kept) = Len(blocks) => I = DOMAIN blocks
        /\ I = DOMAIN blocks => Len(kept) = Len(blocks)
    BY <1>1, <1>2, PickedLength
  <2>2. I # {} <=> kept # <<>>
    BY <1>1, <1>2, Picked
  <2> QED BY <2>1, <2>2
<1>7. \A i \in DOMAIN kept : kept[i].order \in Seq(Nat)
  <2> SUFFICES ASSUME NEW i \in DOMAIN kept PROVE kept[i].order \in Seq(Nat)
    OBVIOUS
  <2>1. kept[i] \in BlockIn(A)
    BY <1>6
  <2>2. kept[i].order \in Seq(A)
    BY <2>1, BlockParts
  <2> QED BY <2>2, Wider
<1>8. \A i, j \in DOMAIN kept : i # j => kept[i].order \in Seq(Nat) /\ kept[i].order # <<>>
  <2>1. \A i, j \in DOMAIN kept : i # j => Len(kept) > 1
    BY <1>6
  <2> QED BY <1>5, <1>7, <2>1
<1>9. /\ Picks(next, kept, DOMAIN kept)
      /\ \A k, l \in DOMAIN next : k < l => P!StartsAt(next[k]) >= P!StartsAt(next[l])
  BY <1>6, <1>8, SortBlocks
<1> HIDE DEF next
<1>10. next \in Seq(BlockIn(A)) /\ n = Len(kept) /\ (next = <<>> <=> kept = <<>>)
  <2>1. next \in Seq(BlockIn(A)) /\ Len(next) = Len(kept)
    BY <1>6, <1>9, PickedLength
  <2> QED BY <1>6, <2>1
<1>11. IsMerge(merged, next)
  BY <1>10, MergeExists
<1> HIDE DEF merged
<1>12. Stage(A, all, next, n) /\ (Falling(next) => FallingStage(all, next, n))
  BY <1>10, <1>11, MergeStages
<1> HIDE DEF all, n
<1>13. all \in Seq(BlockIn(A)) /\ Len(all) <= n
  BY <1>12 DEF Stage
<1>14. P!MergePostBlocks(blocks) \in Seq(BlockIn(A))
  BY <1>4, <1>13
<1>15. n \in Nat /\ Len(all) \in Nat /\ DOMAIN next = 1..n /\ DOMAIN all = 1..Len(all)
  BY <1>10, <1>13 DEF n
<1>16. ASSUME Len(blocks) = 1 PROVE P!MergePostBlocks(blocks) = blocks
  <2>1. CASE next = <<>>
    BY <1>4, <2>1
  <2>2. CASE next # <<>>
    <3>1. n = 1
      BY <1>6, <1>10, <1>15, <1>16, <2>2 DEF n
    <3>2. \E k \in 1..Len(all) : Inside(next[1], all[k])
      BY <1>12, <3>1 DEF Stage
    <3>3. Len(all) = 1
      BY <1>13, <1>15, <3>1, <3>2
    <3> QED BY <1>4, <1>16, <3>3
  <2> QED BY <2>1, <2>2
<1>17. ASSUME Mergeable(blocks) PROVE MergedTo(blocks, P!MergePostBlocks(blocks))
  <2>1. /\ \A i \in DOMAIN blocks : Descending(blocks[i].order)
        /\ \A i \in DOMAIN blocks : i \in I <=> blocks[i].order # <<>>
        /\ \A i \in I : i \in DOMAIN blocks /\ Falls(blocks[i])
    BY <1>1, <1>3, <1>17 DEF Mergeable, Falls
  <2>2. I # {} /\ next # <<>>
    <3>1. I # {}
      BY <1>17, <2>1 DEF Mergeable
    <3> QED BY <1>6, <1>10, <3>1
  <2>3. /\ \A k \in DOMAIN next : \E i \in I : next[k] = blocks[i]
        /\ \A i \in I : \E k \in DOMAIN next : next[k] = blocks[i]
        /\ \A i, j \in I : i # j =>
              \E k, l \in DOMAIN next : k # l /\ next[k] = blocks[i] /\ next[l] = blocks[j]
    <3>1. Gives(kept, blocks, I)
      BY <1>1, <1>2, PickedPairs
    <3>2. Gives(next, kept, DOMAIN kept)
      BY <1>6, <1>9, PickedPairs
    <3>3. ASSUME NEW i \in I, NEW j \in I, i # j
          PROVE  \E k, l \in DOMAIN next : k # l /\ next[k] = blocks[i] /\ next[l] = blocks[j]
      <4>1. PICK k \in DOMAIN kept, l \in DOMAIN kept :
               k # l /\ kept[k] = blocks[i] /\ kept[l] = blocks[j]
        BY <3>1, <3>3 DEF Gives
      <4>2. PICK u \in DOMAIN next, v \in DOMAIN next :
               u # v /\ next[u] = kept[k] /\ next[v] = kept[l]
        BY <3>2, <4>1 DEF Gives
      <4> QED BY <4>1, <4>2
    <3>4. \A k \in DOMAIN next : \E i \in I : next[k] = blocks[i]
      BY <3>1, <3>2 DEF Gives
    <3>5. \A i \in I : \E k \in DOMAIN next : next[k] = blocks[i]
      BY <3>1, <3>2 DEF Gives
    <3> QED BY <3>3, <3>4, <3>5
  <2>4. Falling(next)
    <3>1. \A k \in DOMAIN next : Falls(next[k])
      BY <2>1, <2>3
    <3> QED BY <1>9, <3>1 DEF Falling
  <2>5. FallingStage(all, next, n)
    BY <1>12, <2>4
  <2>6. CASE Len(all) = Len(blocks)
    <3>1. P!MergePostBlocks(blocks) = blocks
      BY <1>4, <2>6
    <3>2. n = Len(all) /\ I = DOMAIN blocks
      <4>1. Len(kept) \in Nat /\ Len(blocks) \in Nat
        BY <1>6
      <4>2. Len(kept) = Len(blocks)
        <5>1. n = Len(kept) /\ Len(kept) <= Len(blocks) /\ Len(all) <= n
          BY <1>6, <1>10, <1>13
        <5>2. n \in Nat /\ Len(all) \in Nat
          BY <1>15
        <5>3. \A u, v, w \in Nat : v <= w /\ w <= u /\ u = v => v = w
          OBVIOUS
        <5> QED BY <2>6, <4>1, <5>1, <5>2, <5>3
      <4> QED BY <1>6, <1>10, <2>6, <4>2
    <3>3. \A k \in 1..n : all[k] = next[k]
      BY <1>12, <3>2 DEF Stage
    <3>4. Apart(blocks)
      <4> SUFFICES ASSUME NEW i \in DOMAIN blocks, NEW j \in DOMAIN blocks, i # j
                   PROVE  Above(blocks[i], blocks[j]) \/ Above(blocks[j], blocks[i])
        BY DEF Apart
      <4>1. PICK k \in DOMAIN next, l \in DOMAIN next :
               k # l /\ next[k] = blocks[i] /\ next[l] = blocks[j]
        BY <2>3, <3>2
      <4>2. k < l \/ l < k
        BY <1>15, <4>1
      <4>3. \A u, v \in 1..n : u < v => Above(all[u], all[v])
        BY <2>5, <3>2 DEF FallingStage
      <4> QED BY <1>15, <3>3, <4>1, <4>2, <4>3
    <3>5. \A i \in DOMAIN blocks : Inside(blocks[i], blocks[i]) /\ Grows(blocks[i], blocks[i])
      BY DEF Inside, Grows
    <3> QED BY <2>1, <3>1, <3>2, <3>4, <3>5 DEF MergedTo
  <2>7. CASE Len(all) # Len(blocks)
    <3>1. P!MergePostBlocks(blocks) = all
      BY <1>4, <2>2, <2>7
    <3>2. \A k \in DOMAIN all : Falls(all[k])
      BY <1>15, <2>5 DEF FallingStage
    <3>3. Apart(all)
      <4>1. \A u, v \in DOMAIN all : u < v => Above(all[u], all[v])
        BY <1>15, <2>5 DEF FallingStage
      <4>2. \A u, v \in DOMAIN all : u # v => u < v \/ v < u
        BY <1>15
      <4> QED BY <4>1, <4>2 DEF Apart
    <3>4. ASSUME NEW i \in DOMAIN blocks, blocks[i].order # <<>>
          PROVE  \E k \in DOMAIN all : Inside(blocks[i], all[k])
      <4>1. PICK k \in 1..n : next[k] = blocks[i]
        BY <1>15, <2>1, <2>3, <3>4
      <4>2. \E l \in 1..Len(all) : Inside(next[k], all[l])
        BY <1>12 DEF Stage
      <4> QED BY <1>15, <4>1, <4>2
    <3>5. ASSUME NEW k \in DOMAIN all
          PROVE  \E i \in DOMAIN blocks : Grows(blocks[i], all[k])
      <4>1. PICK l \in 1..n : Grows(next[l], all[k])
        BY <1>12, <1>15 DEF Stage
      <4>2. PICK i \in I : next[l] = blocks[i]
        BY <1>15, <2>3
      <4> QED BY <1>1, <4>1, <4>2
    <3>6. ASSUME NEW k \in DOMAIN all, NEW p \in ToSet(all[k].order)
          PROVE  \E i \in DOMAIN blocks : p \in ToSet(blocks[i].order)
      <4>1. PICK l \in 1..n : p \in ToSet(next[l].order)
        BY <1>12, <1>15 DEF Stage
      <4>2. PICK i \in I : next[l] = blocks[i]
        BY <1>15, <2>3
      <4> QED BY <1>1, <4>1, <4>2
    <3>7. ASSUME NEW k \in DOMAIN all, NEW h \in Nat, Gap(ToSet(all[k].order), h)
          PROVE  \E i \in DOMAIN blocks : Gap(ToSet(blocks[i].order), h)
      <4>1. PICK l \in 1..n : Gap(ToSet(next[l].order), h)
        BY <1>15, <2>5, <3>7 DEF FallingStage
      <4>2. PICK i \in I : next[l] = blocks[i]
        BY <1>15, <2>3
      <4> QED BY <1>1, <4>1, <4>2
    <3> QED BY <3>1, <3>2, <3>3, <3>4, <3>5, <3>6, <3>7 DEF MergedTo
  <2> QED BY <2>6, <2>7
<1> QED BY <1>14, <1>16, <1>17

\* The recent block lies above the others.
Ordered(c) ==
    /\ \A i \in DOMAIN c : Descending(c[i].order)
    /\ Apart(c)
    /\ \A i, j \in DOMAIN c : i # j /\ c[i].recent => ~ c[j].recent /\ Above(c[i], c[j])

\* An empty block is the only one, of a channel without posts.
EmptyAlone(c) == \A i \in DOMAIN c : c[i].order = <<>> => Len(c) = 1 /\ c[i].recent

Tidy(c) == Ordered(c) /\ EmptyAlone(c)

\* The posts of A that lie between those of a block, or above the recent block, are in K.
Settled(c, A, K) ==
    /\ \A i \in DOMAIN c, q \in A : Gap(ToSet(c[i].order), q) => q \in K
    /\ \A i \in DOMAIN c, q \in A :
          c[i].recent /\ c[i].order # <<>> /\ (\A p \in ToSet(c[i].order) : p < q) => q \in K

\* Some post is in every recent block, and in every block that has a newer one.
Topped(blocks) ==
    (\E i \in DOMAIN blocks : blocks[i].recent) =>
       \E x \in Nat : \A i \in DOMAIN blocks :
          /\ blocks[i].recent => x \in ToSet(blocks[i].order)
          /\ x \in ToSet(blocks[i].order) \/ \A p \in ToSet(blocks[i].order) : p <= x

\* Then the merge leaves one recent block, above all the others.
LEMMA MergedTidy ==
    ASSUME NEW A \in SUBSET Nat, NEW blocks \in Seq(BlockIn(A)), NEW m \in Seq(BlockIn(A)),
           MergedTo(blocks, m), Topped(blocks)
    PROVE  Tidy(m)
<1>1. \A k \in DOMAIN m : Falls(m[k])
  BY DEF MergedTo
<1>2. \A k, l \in DOMAIN m : k # l => Above(m[k], m[l]) \/ Above(m[l], m[k])
  BY DEF MergedTo, Apart
<1>3. \A k \in DOMAIN m : \A p \in ToSet(m[k].order) : p \in Nat
  <2> SUFFICES ASSUME NEW k \in DOMAIN m, NEW p \in ToSet(m[k].order) PROVE p \in Nat
    OBVIOUS
  <2>1. m[k] \in BlockIn(A)
    OBVIOUS
  <2>2. m[k].order \in Seq(A)
    BY <2>1, BlockParts
  <2> QED BY <2>2, Within
<1>4. \A k \in DOMAIN m : m[k].order # <<>> /\ Descending(m[k].order)
  BY <1>1 DEF Falls
<1>5. ASSUME NEW k \in DOMAIN m, NEW l \in DOMAIN m, k # l, m[k].recent
      PROVE  ~ m[l].recent /\ Above(m[k], m[l])
  <2>1. \A h \in DOMAIN m : \E i \in DOMAIN blocks : Grows(blocks[i], m[h])
    BY DEF MergedTo
  <2>2. \E i \in DOMAIN blocks : blocks[i].recent
    BY <1>5, <2>1 DEF Grows
  <2>3. PICK x \in Nat : \A i \in DOMAIN blocks :
           /\ blocks[i].recent => x \in ToSet(blocks[i].order)
           /\ x \in ToSet(blocks[i].order) \/ \A p \in ToSet(blocks[i].order) : p <= x
    BY <2>2 DEF Topped
  <2>4. \A h \in DOMAIN m : m[h].recent => x \in ToSet(m[h].order)
    BY <2>1, <2>3 DEF Grows
  <2>5. x \in ToSet(m[k].order)
    BY <1>5, <2>4
  <2>6. x \notin ToSet(m[l].order)
    <3> SUFFICES ASSUME x \in ToSet(m[l].order) PROVE FALSE
      OBVIOUS
    <3>1. Above(m[k], m[l]) \/ Above(m[l], m[k])
      BY <1>2, <1>5
    <3>2. x > x
      BY <2>5, <3>1 DEF Above
    <3> QED BY <3>2
  <2>7. ASSUME Above(m[l], m[k]) PROVE ToSet(m[l].order) = {}
    <3> SUFFICES ASSUME NEW p \in ToSet(m[l].order) PROVE FALSE
      OBVIOUS
    <3>1. p > x /\ p \in Nat
      BY <1>3, <2>5, <2>7 DEF Above
    <3>2. PICK i \in DOMAIN blocks : p \in ToSet(blocks[i].order)
      BY DEF MergedTo
    <3>3. x \in ToSet(blocks[i].order)
      BY <2>3, <3>1, <3>2
    <3>4. blocks[i].order # <<>>
      <4>1. ToSet(<<>>) = {}
        BY DEF ToSet
      <4> QED BY <3>2, <4>1
    <3>5. PICK h \in DOMAIN m : Inside(blocks[i], m[h])
      BY <3>4 DEF MergedTo
    <3>6. x \in ToSet(m[h].order) /\ p \in ToSet(m[h].order)
      BY <3>2, <3>3, <3>5 DEF Inside
    <3>7. h # l
      BY <2>6, <3>6
    <3> QED BY <1>2, <3>1, <3>6, <3>7 DEF Above
  <2>8. Above(m[k], m[l])
    BY <1>2, <1>5, <2>7 DEF Above
  <2> QED BY <2>4, <2>6, <2>8
<1>6. Ordered(m)
  BY <1>2, <1>4, <1>5 DEF Ordered, Apart
<1> QED BY <1>4, <1>6 DEF Tidy, EmptyAlone

\* An empty recent block cannot be merged with a block that is not empty.
LEMMA EmptyThrows ==
    ASSUME NEW A, NEW blocks \in Seq(BlockIn(A)), NEW i \in DOMAIN blocks, NEW j \in DOMAIN blocks,
           blocks[i].order = <<>>, blocks[i].recent, blocks[j].order # <<>>
    PROVE  P!MergeThrows(blocks)
<1> DEFINE I == {k \in DOMAIN blocks : blocks[k].order # <<>> \/ blocks[k].recent}
           kept == P!RemoveNonRecentEmptyPostBlocks(blocks)
<1>1. I \in SUBSET DOMAIN blocks /\ i \in I /\ j \in I /\ i # j
  OBVIOUS
<1>2. kept = P!Filter(blocks, I)
  BY DEF P!RemoveNonRecentEmptyPostBlocks
<1> HIDE DEF kept, I
<1>3. Picks(kept, blocks, I)
  BY <1>1, <1>2, FilterPicks
<1>4. Gives(kept, blocks, I) /\ kept \in Seq(BlockIn(A))
  BY <1>1, <1>3, PickedPairs, Picked
<1>5. PICK k \in DOMAIN kept, l \in DOMAIN kept : k # l /\ kept[k] = blocks[i]
  BY <1>1, <1>4 DEF Gives
<1>6. Len(kept) > 1
  BY <1>4, <1>5
<1> QED BY <1>5, <1>6 DEF P!MergeThrows, kept

\* What the posts of a page have in common: none of the channel lies between them, and
\* none above those of a page that reaches the newest post.
Tops(S, A) == \A p \in S, q \in A : q \in S \/ q < p
Convex(S, A) == \A q \in A : ~ Gap(S, q)
Page(b, A) ==
    /\ b \in BlockIn(A) /\ Falls(b)
    /\ Convex(ToSet(b.order), A)
    /\ b.recent => Tops(ToSet(b.order), A)

\* A list with one block more.
LEMMA OneMore ==
    ASSUME NEW T, NEW u \in Seq(T), NEW b \in T
    PROVE  LET more == Append(u, b) IN
           /\ more \in Seq(T) /\ Len(u) \in Nat
           /\ DOMAIN u = 1..Len(u) /\ DOMAIN more = 1..(Len(u) + 1)
           /\ \A i \in 1..Len(u) : more[i] = u[i]
           /\ more[Len(u) + 1] = b
           /\ \A i \in 1..(Len(u) + 1) : i \in 1..Len(u) \/ i = Len(u) + 1
           /\ 1..Len(u) \subseteq 1..(Len(u) + 1) /\ Len(u) + 1 \in 1..(Len(u) + 1)
OBVIOUS

\* A page that touches the recent block or lies below it is merged with the others.
LEMMA PageAdded ==
    ASSUME NEW A \in SUBSET Nat, NEW u \in Seq(BlockIn(A)), Ordered(u),
           NEW b, Page(b, A), ~ P!MergeThrows(Append(u, b)),
           \A i \in DOMAIN u : u[i].recent /\ u[i].order # <<>> =>
              \E a \in ToSet(b.order), t \in ToSet(u[i].order) : a <= t
    PROVE  LET m == P!MergePostBlocks(Append(u, b)) IN
           /\ m \in Seq(BlockIn(A)) /\ MergedTo(Append(u, b), m) /\ Tidy(m)
           /\ \A K : Settled(u, A, K) => Settled(m, A, K)
<1> DEFINE n == Len(u)
           blocks == Append(u, b)
           m == P!MergePostBlocks(blocks)
<1>1. /\ b \in BlockIn(A) /\ Falls(b) /\ b.order # <<>> /\ Descending(b.order)
      /\ Convex(ToSet(b.order), A)
      /\ b.recent => Tops(ToSet(b.order), A)
  BY DEF Page, Falls
<1>2. /\ blocks \in Seq(BlockIn(A)) /\ n \in Nat
      /\ DOMAIN u = 1..n /\ DOMAIN blocks = 1..(n + 1)
      /\ \A i \in 1..n : blocks[i] = u[i]
      /\ blocks[n + 1] = b
      /\ \A i \in 1..(n + 1) : i \in 1..n \/ i = n + 1
      /\ 1..n \subseteq 1..(n + 1) /\ n + 1 \in 1..(n + 1)
  BY <1>1, OneMore
<1>3. ~ P!MergeThrows(blocks)
  OBVIOUS
<1> HIDE DEF blocks, n
<1>4. \A i \in DOMAIN blocks : blocks[i].order = <<>> => ~ blocks[i].recent
  BY <1>1, <1>2, <1>3, EmptyThrows
<1>5. \A i \in DOMAIN blocks : Descending(blocks[i].order)
  BY <1>1, <1>2 DEF Ordered
<1>6. Mergeable(blocks)
  BY <1>1, <1>2, <1>4, <1>5 DEF Mergeable
<1>7. \A i \in DOMAIN blocks : blocks[i] \in BlockIn(A) /\ \A p \in ToSet(blocks[i].order) : p \in A
  <2> SUFFICES ASSUME NEW i \in DOMAIN blocks
               PROVE  blocks[i] \in BlockIn(A) /\ \A p \in ToSet(blocks[i].order) : p \in A
    OBVIOUS
  <2>1. blocks[i] \in BlockIn(A)
    BY <1>2
  <2>2. blocks[i].order \in Seq(A)
    BY <2>1, BlockParts
  <2> QED BY <2>1, <2>2, Within
<1>8. ASSUME NEW i \in 1..n, u[i].recent
      PROVE  \E x \in Nat : \A j \in DOMAIN blocks :
                /\ blocks[j].recent => x \in ToSet(blocks[j].order)
                /\ x \in ToSet(blocks[j].order) \/ \A p \in ToSet(blocks[j].order) : p <= x
  <2>1. u[i] \in BlockIn(A) /\ Falls(u[i]) /\ u[i].order # <<>>
    BY <1>2, <1>4, <1>5, <1>7, <1>8 DEF Falls
  <2> DEFINE x == P!StartsAt(u[i])
  <2>2. /\ x \in ToSet(u[i].order) /\ \A p \in ToSet(u[i].order) : p <= x
    BY <2>1, BlockEnds
  <2>3. x \in A /\ x \in Nat
    BY <1>2, <1>7, <2>2
  <2> HIDE DEF x
  <2>4. PICK a \in ToSet(b.order), t \in ToSet(u[i].order) : a <= t
    BY <1>2, <1>8, <2>1
  <2>5. a \in Nat /\ t \in Nat /\ a <= x
    <3>1. a \in Nat /\ t \in Nat
      BY <1>2, <1>7, <2>4
    <3>2. t <= x
      BY <2>2, <2>4
    <3> QED BY <2>3, <2>4, <3>1, <3>2
  <2>6. b.recent => x \in ToSet(b.order)
    BY <1>1, <2>3, <2>4, <2>5 DEF Tops
  <2>7. ASSUME x \notin ToSet(b.order), NEW p \in ToSet(b.order) PROVE p <= x
    <3>1. a < x
      BY <2>3, <2>4, <2>5, <2>7
    <3>2. ~ (p > x)
      BY <1>1, <2>3, <2>4, <2>7, <3>1 DEF Convex, Gap
    <3>3. p \in Nat
      BY <1>2, <1>7, <2>7
    <3> QED BY <2>3, <3>2, <3>3
  <2>8. ASSUME NEW j \in 1..n, j # i
        PROVE  ~ u[j].recent /\ \A p \in ToSet(u[j].order) : p <= x
    <3>1. ~ u[j].recent /\ Above(u[i], u[j])
      BY <1>2, <1>8, <2>8 DEF Ordered
    <3>2. \A p \in ToSet(u[j].order) : x > p /\ p \in Nat
      BY <1>2, <1>7, <2>2, <3>1 DEF Above
    <3> QED BY <2>3, <3>1, <3>2
  <2>9. ASSUME NEW j \in DOMAIN blocks
        PROVE  /\ blocks[j].recent => x \in ToSet(blocks[j].order)
               /\ x \in ToSet(blocks[j].order) \/ \A p \in ToSet(blocks[j].order) : p <= x
    <3>1. CASE j = n + 1
      BY <1>2, <2>6, <2>7, <3>1
    <3>2. CASE j \in 1..n /\ j # i
      BY <1>2, <2>8, <3>2
    <3>3. CASE j = i
      BY <1>2, <2>2, <3>3
    <3> QED BY <1>2, <3>1, <3>2, <3>3
  <2> QED BY <2>3, <2>9
<1>9. ASSUME b.recent, \A i \in 1..n : ~ u[i].recent
      PROVE  \E x \in Nat : \A j \in DOMAIN blocks :
                /\ blocks[j].recent => x \in ToSet(blocks[j].order)
                /\ x \in ToSet(blocks[j].order) \/ \A p \in ToSet(blocks[j].order) : p <= x
  <2> DEFINE x == P!StartsAt(b)
  <2>1. x \in ToSet(b.order) /\ \A p \in ToSet(b.order) : p <= x
    BY <1>1, BlockEnds
  <2>2. x \in A /\ x \in Nat
    BY <1>2, <1>7, <2>1
  <2> HIDE DEF x
  <2>3. \A p \in A : p <= x
    <3> SUFFICES ASSUME NEW p \in A PROVE p <= x
      OBVIOUS
    <3>1. Tops(ToSet(b.order), A)
      BY <1>1, <1>9
    <3>2. p \in ToSet(b.order) \/ p < x
      BY <2>1, <3>1 DEF Tops
    <3>3. p \in Nat
      BY <1>2
    <3>4. CASE p \in ToSet(b.order)
      BY <2>1, <3>4
    <3>5. CASE p < x
      BY <2>2, <3>3, <3>5
    <3> QED BY <3>2, <3>4, <3>5
  <2>4. ASSUME NEW j \in DOMAIN blocks
        PROVE  /\ blocks[j].recent => x \in ToSet(blocks[j].order)
               /\ \A p \in ToSet(blocks[j].order) : p <= x
    <3>1. \A p \in ToSet(blocks[j].order) : p <= x
      BY <1>7, <2>3
    <3>2. blocks[j].recent => j = n + 1
      BY <1>2, <1>9
    <3> QED BY <1>2, <2>1, <3>1, <3>2
  <2> QED BY <2>2, <2>4
<1>10. Topped(blocks)
  <2> SUFFICES ASSUME NEW i \in DOMAIN blocks, blocks[i].recent
               PROVE  \E x \in Nat : \A j \in DOMAIN blocks :
                         /\ blocks[j].recent => x \in ToSet(blocks[j].order)
                         /\ x \in ToSet(blocks[j].order) \/ \A p \in ToSet(blocks[j].order) : p <= x
    BY DEF Topped
  <2>1. CASE \E j \in 1..n : u[j].recent
    BY <1>8, <2>1
  <2>2. CASE ~ \E j \in 1..n : u[j].recent
    <3>1. b.recent
      BY <1>2, <2>2
    <3> QED BY <1>9, <2>2, <3>1
  <2> QED BY <2>1, <2>2
<1>11. m \in Seq(BlockIn(A)) /\ MergedTo(blocks, m)
  BY <1>2, <1>3, <1>6, BlocksMerged
<1> HIDE DEF m
<1>12. Tidy(m)
  BY <1>2, <1>10, <1>11, MergedTidy
<1>13. ASSUME NEW K, Settled(u, A, K) PROVE Settled(m, A, K)
  <2>1. \A i \in DOMAIN blocks, q \in A : Gap(ToSet(blocks[i].order), q) => q \in K
    <3>1. \A i \in 1..n, q \in A : Gap(ToSet(u[i].order), q) => q \in K
      BY <1>2, <1>13 DEF Settled
    <3>2. \A q \in A : ~ Gap(ToSet(b.order), q)
      BY <1>1 DEF Convex
    <3> QED BY <1>2, <3>1, <3>2
  <2>2. ASSUME NEW k \in DOMAIN m, NEW q \in A, Gap(ToSet(m[k].order), q) PROVE q \in K
    <3>1. \E i \in DOMAIN blocks : Gap(ToSet(blocks[i].order), q)
      BY <1>11, <2>2 DEF MergedTo
    <3> QED BY <2>1, <3>1
  <2>3. ASSUME NEW k \in DOMAIN m, NEW q \in A, m[k].recent, \A p \in ToSet(m[k].order) : p < q
        PROVE  q \in K
    <3>1. PICK i \in DOMAIN blocks : Grows(blocks[i], m[k])
      BY <1>11 DEF MergedTo
    <3>2. blocks[i].recent /\ \A p \in ToSet(blocks[i].order) : p < q
      BY <2>3, <3>1 DEF Grows
    <3>3. blocks[i].order # <<>>
      BY <1>4, <3>2
    <3>4. CASE i \in 1..n
      BY <1>2, <1>13, <3>2, <3>3, <3>4 DEF Settled
    <3>5. CASE i = n + 1
      <4>1. P!StartsAt(b) \in ToSet(b.order)
        BY <1>1, BlockEnds
      <4>2. Tops(ToSet(b.order), A) /\ \A p \in ToSet(b.order) : p < q /\ p \in Nat
        BY <1>1, <1>2, <1>7, <3>2, <3>5
      <4>3. q \in ToSet(b.order) \/ q < P!StartsAt(b)
        BY <4>1, <4>2 DEF Tops
      <4> QED BY <4>1, <4>2, <4>3
    <3> QED BY <1>2, <3>4, <3>5
  <2> QED BY <2>2, <2>3 DEF Settled
<1> QED BY <1>11, <1>12, <1>13 DEF blocks, m

\* Without an empty recent block nothing throws.
LEMMA NothingThrows ==
    ASSUME NEW A, NEW blocks \in Seq(BlockIn(A)),
           \A i \in DOMAIN blocks : blocks[i].recent => blocks[i].order # <<>>
    PROVE  ~ P!MergeThrows(blocks)
<1> DEFINE I == {k \in DOMAIN blocks : blocks[k].order # <<>> \/ blocks[k].recent}
           kept == P!RemoveNonRecentEmptyPostBlocks(blocks)
<1>1. I \in SUBSET DOMAIN blocks /\ \A i \in I : blocks[i].order # <<>>
  OBVIOUS
<1>2. kept = P!Filter(blocks, I)
  BY DEF P!RemoveNonRecentEmptyPostBlocks
<1> HIDE DEF kept, I
<1>3. Picks(kept, blocks, I)
  BY <1>1, <1>2, FilterPicks
<1>4. Gives(kept, blocks, I)
  BY <1>1, <1>3, PickedPairs
<1>5. \A i \in DOMAIN kept : kept[i].order # <<>>
  BY <1>1, <1>4 DEF Gives
<1> QED BY <1>5 DEF P!MergeThrows, kept

-----------------------------------------------------------------------------
(* The reducer's cases.                                                    *)

\* Only the order of one block is another.
Redone(c, next, r, s) ==
    /\ r \in DOMAIN c /\ DOMAIN next = DOMAIN c /\ Len(next) = Len(c)
    /\ next[r].order = s /\ next[r].recent = c[r].recent
    /\ \A i \in DOMAIN c : i # r => next[i] = c[i]

\* RECEIVED_POSTS_SINCE adds what is newer than the oldest post of the recent block.
LEMMA SinceReceived ==
    ASSUME NEW A \in SUBSET Nat, NEW c, P!BlocksOf(c) \in Seq(BlockIn(A)),
           NEW order \in Seq(A), Twice(order) = {}
    PROVE  LET L == P!BlocksOf(c)
               r == P!RecentIndex(L)
               next == P!ReceivedPostsSince(c, order)
           IN  \/ /\ next = c
                  /\ r # 0 /\ order # <<>> /\ L[r].order # <<>> =>
                        \A p \in ToSet(order) : p > P!EndsAt(L[r]) => p \in ToSet(L[r].order)
               \/ /\ r # 0 /\ order # <<>> /\ L[r].order # <<>> /\ c = L
                  /\ next \in Seq(BlockIn(A)) /\ Redone(L, next, r, next[r].order)
                  /\ Descending(next[r].order)
                  /\ ToSet(next[r].order) =
                        ToSet(L[r].order) \cup {p \in ToSet(order) : p > P!EndsAt(L[r])}
<1> DEFINE L == P!BlocksOf(c)
           r == P!RecentIndex(L)
           next == P!ReceivedPostsSince(c, order)
           old == L[r].order
           e == P!EndsAt(L[r])
           new == {i \in DOMAIN order : order[i] > e /\ ~ P!Contains(old, order[i])}
           o1 == P!Filter(order, new) \o old
           o2 == P!Sort(o1, P!ComparePosts)
           added == Reorder(L, r, o1)
           sorted == Reorder(added, r, o2)
<1>1. L \in Seq(BlockIn(A)) /\ (r # 0 => r \in DOMAIN L /\ L[r].recent)
  <2> HIDE DEF L
  <2> QED BY RecentOne DEF L
<1>2. CASE r = 0 \/ order = <<>>
  <2>1. next = c
    BY <1>2 DEF P!ReceivedPostsSince
  <2> QED BY <1>2, <2>1
<1>3. CASE r # 0 /\ order # <<>> /\ old = <<>>
  <2>1. c = L
    <3>1. L = <<>> => r = 0
      BY <1>1
    <3> QED BY <1>3, <3>1 DEF P!BlocksOf
  <2>2. next = c
    BY <1>3, <2>1 DEF P!ReceivedPostsSince
  <2> QED BY <1>3, <2>2
<1>4. CASE r # 0 /\ order # <<>> /\ old # <<>>
  <2>1. c = L
    <3>1. L = <<>> => r = 0
      BY <1>1
    <3> QED BY <1>4, <3>1 DEF P!BlocksOf
  <2>2. next = IF new = {} THEN c ELSE Reorder(added, r, P!Sort(added[r].order, P!ComparePosts))
    <3>1. \A i \in DOMAIN order : (IdentityOf(order[i]) > e <=> order[i] > e)
      BY DEF IdentityOf
    <3>2. new = {i \in DOMAIN order : IdentityOf(order[i]) > e /\ ~ P!Contains(old, order[i])}
      BY <3>1
    <3> HIDE DEF e
    <3>3. c[r] = L[r]
      BY <2>1
    <3> HIDE DEF L
    <3> QED BY <1>4, <2>1, <3>2, <3>3 DEF P!ReceivedPostsSince, Reorder, e, L
  <2> HIDE DEF next, r, L
  <2>3. old \in Seq(A) /\ Twice(old) = {}
    <3>1. L[r] \in BlockIn(A)
      BY <1>1, <1>4
    <3> QED BY <3>1, BlockParts
  <2> HIDE DEF old, e
  <2>4. \A i \in DOMAIN order : i \in new <=> order[i] > e /\ order[i] \notin ToSet(old)
    <3>1. DOMAIN old = 1..Len(old)
      BY <2>3
    <3> QED BY <3>1, Elements DEF P!Contains
  <2>5. new \in SUBSET DOMAIN order
    OBVIOUS
  <2> HIDE DEF new
  <2>6. CASE new = {}
    <3>1. ASSUME NEW p \in ToSet(order), p > e PROVE p \in ToSet(old)
      <4>1. PICK i \in DOMAIN order : order[i] = p
        BY Elements
      <4> QED BY <2>4, <2>6, <3>1, <4>1
    <3> QED BY <2>2, <2>6, <3>1 DEF old, e, r, L, next
  <2>7. CASE new # {}
    <3> DEFINE f == P!Filter(order, new)
    <3>1. Picks(f, order, new)
      BY <2>5, FilterPicks
    <3> HIDE DEF f
    <3>2. f \in Seq(A) /\ ToSet(f) = {order[i] : i \in new} /\ Twice(f) = {}
      BY <2>5, <3>1, Picked
    <3>3. ToSet(f) \cap ToSet(old) = {}
      BY <2>4, <2>5, <3>2
    <3>4. /\ f \o old \in Seq(A) /\ ToSet(f \o old) = ToSet(f) \cup ToSet(old)
          /\ Twice(f \o old) \subseteq Twice(f) \cup Twice(old) \cup (ToSet(f) \cap ToSet(old))
      BY <2>3, <3>2, Concatenated
    <3>5. o1 = f \o old
      BY DEF f
    <3> HIDE DEF o1
    <3>6. o1 \in Seq(A) /\ Twice(o1) = {} /\ ToSet(o1) = ToSet(f) \cup ToSet(old) /\ o1 \in Seq(Nat)
      <4>1. o1 \in Seq(A) /\ Twice(o1) = {} /\ ToSet(o1) = ToSet(f) \cup ToSet(old)
        BY <2>3, <3>2, <3>3, <3>4, <3>5
      <4> QED BY <4>1, Wider
    <3>7. Picks(o2, o1, DOMAIN o1) /\ Descending(o2)
      BY <3>6, SortComparePosts
    <3> HIDE DEF o2
    <3>8. o2 \in Seq(A) /\ Twice(o2) = {} /\ ToSet(o2) = ToSet(o1)
      <4>1. o2 \in Seq(A) /\ ToSet(o2) = {o1[i] : i \in DOMAIN o1} /\ Twice(o2) \subseteq Twice(o1)
        BY <3>6, <3>7, Picked
      <4> QED BY <3>6, <4>1 DEF ToSet
    <3>9. /\ added \in Seq(BlockIn(A)) /\ DOMAIN added = DOMAIN L /\ Len(added) = Len(L)
          /\ added[r].order = o1 /\ added[r].recent = L[r].recent
          /\ \A i \in DOMAIN L : i # r => added[i] = L[i]
      BY <1>1, <1>4, <3>6, Reordered
    <3> HIDE DEF added
    <3>10. next = sorted
      BY <2>2, <2>7, <3>9 DEF o2
    <3>11. /\ sorted \in Seq(BlockIn(A)) /\ DOMAIN sorted = DOMAIN added /\ Len(sorted) = Len(added)
           /\ sorted[r].order = o2 /\ sorted[r].recent = added[r].recent
           /\ \A i \in DOMAIN added : i # r => sorted[i] = added[i]
      BY <1>1, <1>4, <3>8, <3>9, Reordered
    <3> HIDE DEF sorted
    <3>12. Redone(L, sorted, r, o2)
      BY <1>1, <1>4, <3>9, <3>11 DEF Redone
    <3>13. ToSet(o2) = ToSet(old) \cup {p \in ToSet(order) : p > e}
      <4>1. \A p \in ToSet(f) : p \in ToSet(order) /\ p > e
        BY <2>4, <2>5, <3>2, Elements
      <4>2. ASSUME NEW p \in ToSet(order), p > e PROVE p \in ToSet(f) \cup ToSet(old)
        <5>1. PICK i \in DOMAIN order : order[i] = p
          BY Elements
        <5> QED BY <2>4, <3>2, <4>2, <5>1
      <4> QED BY <3>6, <3>8, <4>1, <4>2
    <3> QED BY <1>4, <2>1, <3>7, <3>10, <3>11, <3>12, <3>13 DEF old, e, r, L, next
  <2> QED BY <2>6, <2>7
<1> QED BY <1>2, <1>3, <1>4

\* RECEIVED_NEW_POST puts the post in front of the recent block, or into a new one.
LEMMA EventReceived ==
    ASSUME NoPost \notin Nat,
           NEW A \in SUBSET Nat, NEW c \in Seq(BlockIn(A)), c # Unloaded, NEW p \in A
    PROVE  LET r == P!RecentIndex(c)
               next == P!ReceivedNewPost(c, p, NoPost)
           IN  /\ next \in Seq(BlockIn(A))
               /\ r = 0 => /\ DOMAIN next = 1..(Len(c) + 1)
                           /\ \A i \in 1..Len(c) : next[i] = c[i]
                           /\ next[Len(c) + 1].order = <<p>> /\ next[Len(c) + 1].recent
               /\ r # 0 => \/ p \in ToSet(c[r].order) /\ next = c
                           \/ p \notin ToSet(c[r].order) /\ Redone(c, next, r, <<p>> \o c[r].order)
<1> DEFINE r0 == P!RecentIndex(c)
           b == P!Block(<<>>, TRUE, FALSE)
           n == Len(c)
           marked == IF r0 = 0 THEN Append(c, b) ELSE c
           r == P!RecentIndex(marked)
           old == marked[r].order
           o == IF P!Contains(old, p) THEN old ELSE <<p>> \o old
           added == Reorder(marked, r, o)
<1>1. /\ r0 # 0 => r0 \in DOMAIN c /\ c[r0].recent
      /\ r0 = 0 => \A i \in DOMAIN c : ~ c[i].recent
  BY RecentOne
<1> HIDE DEF r0
<1>2. b \in BlockIn(A) /\ b.order = <<>> /\ b.recent
  <2>1. <<>> \in Seq(A) /\ Twice(<<>>) = {}
    BY DEF Twice
  <2> QED BY <2>1, BlockParts
<1> HIDE DEF b
<1>3. /\ Append(c, b) \in Seq(BlockIn(A)) /\ n \in Nat
      /\ DOMAIN c = 1..n /\ DOMAIN Append(c, b) = 1..(n + 1)
      /\ \A i \in 1..n : Append(c, b)[i] = c[i]
      /\ Append(c, b)[n + 1] = b
      /\ \A i \in 1..(n + 1) : i \in 1..n \/ i = n + 1
      /\ n + 1 \in 1..(n + 1) /\ n + 1 \notin 1..n
  <2>1. n \in Nat /\ n + 1 \notin 1..n
    OBVIOUS
  <2> QED BY <1>2, <2>1, OneMore
<1>4. marked \in Seq(BlockIn(A)) /\ (r0 # 0 => marked = c) /\ (r0 = 0 => marked = Append(c, b))
  BY <1>3
<1> HIDE DEF marked, n
<1>5. /\ r # 0 => r \in DOMAIN marked /\ marked[r].recent
      /\ r = 0 => \A i \in DOMAIN marked : ~ marked[i].recent
  BY <1>4, RecentOne
<1>6. (r0 # 0 => r = r0) /\ (r0 = 0 => r = n + 1)
  <2>1. r0 # 0 => r = r0
    BY <1>4 DEF r0
  <2> HIDE DEF r
  <2>2. ASSUME r0 = 0 PROVE r = n + 1
    <3>1. r # 0
      BY <1>2, <1>3, <1>4, <1>5, <2>2
    <3>2. r \in 1..(n + 1) /\ Append(c, b)[r].recent
      BY <1>3, <1>4, <1>5, <2>2, <3>1
    <3>3. r \notin 1..n
      BY <1>1, <1>3, <2>2, <3>2
    <3> QED BY <1>3, <3>2, <3>3
  <2> QED BY <2>1, <2>2
<1>7. P!ReceivedNewPost(c, p, NoPost) =
         IF NoPost # p /\ P!Contains(added[r].order, NoPost)
         THEN [([added EXCEPT ![r].order = P!RemoveFirst(@, NoPost)])
                  EXCEPT ![r].order = P!Sort(@, P!ComparePosts)]
         ELSE added
  BY DEF P!ReceivedNewPost, Reorder, marked, b, r0
<1> HIDE DEF r
<1>8. r \in DOMAIN marked
  BY <1>1, <1>3, <1>4, <1>6
<1>9. old \in Seq(A) /\ Twice(old) = {}
  <2>1. marked[r] \in BlockIn(A)
    BY <1>4, <1>8
  <2> QED BY <2>1, BlockParts
<1> HIDE DEF old
<1>10. P!Contains(old, p) <=> p \in ToSet(old)
  <2>1. DOMAIN old = 1..Len(old)
    BY <1>9
  <2> QED BY <2>1, Elements DEF P!Contains
<1>11. p \notin ToSet(old) => <<p>> \o old \in Seq(A) /\ Twice(<<p>> \o old) = {}
  <2> SUFFICES ASSUME p \notin ToSet(old) PROVE <<p>> \o old \in Seq(A) /\ Twice(<<p>> \o old) = {}
    OBVIOUS
  <2>1. <<p>> \in Seq(A) /\ ToSet(<<p>>) = {p} /\ Twice(<<p>>) = {}
    BY One
  <2>2. /\ <<p>> \o old \in Seq(A)
        /\ Twice(<<p>> \o old) \subseteq
              Twice(<<p>>) \cup Twice(old) \cup (ToSet(<<p>>) \cap ToSet(old))
    BY <1>9, <2>1, Concatenated
  <2> QED BY <1>9, <2>1, <2>2
<1>12. o \in Seq(A) /\ Twice(o) = {} /\ (p \in ToSet(old) => o = old)
       /\ (p \notin ToSet(old) => o = <<p>> \o old)
  BY <1>9, <1>10, <1>11
<1> HIDE DEF o
<1>13. /\ added \in Seq(BlockIn(A)) /\ DOMAIN added = DOMAIN marked /\ Len(added) = Len(marked)
       /\ added[r].order = o /\ added[r].recent = marked[r].recent
       /\ \A i \in DOMAIN marked : i # r => added[i] = marked[i]
  BY <1>4, <1>8, <1>12, Reordered
<1>14. P!ReceivedNewPost(c, p, NoPost) = added
  <2>1. ~ P!Contains(o, NoPost)
    <3>1. DOMAIN o = 1..Len(o) /\ \A i \in DOMAIN o : o[i] \in Nat
      <4>1. o \in Seq(A)
        BY <1>12
      <4>2. o \in Seq(Nat)
        BY <4>1, Wider
      <4> HIDE DEF added
      <4> QED BY <4>2
    <3> QED BY <3>1 DEF P!Contains
  <2>2. ~ P!Contains(added[r].order, NoPost)
    BY <1>13, <2>1
  <2> QED BY <1>7, <2>2
<1>15. ASSUME r0 = 0
       PROVE  /\ DOMAIN added = 1..(n + 1) /\ \A i \in 1..n : added[i] = c[i]
              /\ added[n + 1].order = <<p>> /\ added[n + 1].recent
  <2>1. r = n + 1 /\ marked = Append(c, b)
    BY <1>4, <1>6, <1>15
  <2>2. old = <<>>
    BY <1>2, <1>3, <2>1 DEF old
  <2>3. ToSet(<<>>) = {} /\ <<p>> \o <<>> = <<p>>
    BY DEF ToSet
  <2>4. o = <<p>>
    BY <1>12, <2>2, <2>3
  <2>5. \A i \in 1..n : i # r
    BY <1>3, <2>1
  <2> HIDE DEF added
  <2>6. DOMAIN added = 1..(n + 1)
    BY <1>3, <1>13, <2>1
  <2>7. added[n + 1].order = <<p>> /\ added[n + 1].recent
    BY <1>2, <1>3, <1>13, <2>1, <2>4
  <2>8. ASSUME NEW i \in 1..n PROVE added[i] = c[i]
    <3>1. i \in DOMAIN marked /\ i # r
      BY <1>3, <2>1, <2>5
    <3> QED BY <1>3, <1>13, <2>1, <3>1
  <2> QED BY <2>6, <2>7, <2>8
<1>16. ASSUME r0 # 0
       PROVE  \/ p \in ToSet(c[r0].order) /\ added = c
              \/ p \notin ToSet(c[r0].order) /\ Redone(c, added, r0, <<p>> \o c[r0].order)
  <2>1. r = r0 /\ marked = c /\ old = c[r0].order
    BY <1>4, <1>6, <1>16 DEF old
  <2>2. CASE p \in ToSet(old)
    <3>1. o = c[r].order
      BY <1>12, <2>1, <2>2
    <3>2. added = [c EXCEPT ![r].order = c[r].order]
      BY <2>1, <3>1 DEF Reorder
    <3>3. c[r] \in BlockIn(A)
      BY <1>4, <1>8, <2>1
    <3>4. [c[r] EXCEPT !.order = c[r].order] = c[r]
      BY <3>3 DEF BlockIn
    <3>5. [c EXCEPT ![r].order = c[r].order] = [c EXCEPT ![r] = [c[r] EXCEPT !.order = c[r].order]]
      OBVIOUS
    <3>6. [c EXCEPT ![r] = c[r]] = c
      OBVIOUS
    <3> QED BY <2>1, <2>2, <3>2, <3>4, <3>5, <3>6
  <2>3. CASE p \notin ToSet(old)
    <3> HIDE DEF added
    <3> QED BY <1>8, <1>12, <1>13, <2>1, <2>3 DEF Redone
  <2> QED BY <2>1, <2>2, <2>3
<1> QED BY <1>13, <1>14, <1>15, <1>16 DEF r0, n

\* The posts of a block are posts.
LEMMA PostsOf ==
    ASSUME NEW A, NEW c \in Seq(BlockIn(A)), NEW i \in DOMAIN c
    PROVE  /\ c[i] \in BlockIn(A) /\ c[i].order \in Seq(A) /\ ToSet(c[i].order) \subseteq A
           /\ c[i].order = <<>> <=> ToSet(c[i].order) = {}
<1>1. c[i] \in BlockIn(A)
  OBVIOUS
<1>2. c[i].order \in Seq(A)
  BY <1>1, BlockParts
<1>3. c[i].order # <<>> => c[i].order[1] \in ToSet(c[i].order)
  BY <1>2 DEF ToSet
<1>4. ToSet(<<>>) = {}
  BY DEF ToSet
<1> QED BY <1>1, <1>2, <1>3, <1>4, Within

\* The recent block gets newer posts.
LEMMA RedoneTidy ==
    ASSUME NEW A \in SUBSET Nat, NEW c \in Seq(BlockIn(A)), Tidy(c),
           NEW r, NEW s \in Seq(A), NEW next, Redone(c, next, r, s), c[r].recent, Descending(s),
           s # <<>>,
           \A p \in ToSet(s), j \in DOMAIN c : p \in ToSet(c[r].order) \/ j = r
              \/ \A q \in ToSet(c[j].order) : p > q
    PROVE  Tidy(next)
<1>1. /\ r \in DOMAIN c /\ DOMAIN next = DOMAIN c /\ Len(next) = Len(c)
      /\ next[r].order = s /\ next[r].recent
      /\ \A i \in DOMAIN c : i # r => next[i] = c[i]
  BY DEF Redone
<1>2. /\ \A i \in DOMAIN c : Descending(c[i].order)
      /\ \A i, j \in DOMAIN c : i # j => Above(c[i], c[j]) \/ Above(c[j], c[i])
      /\ \A i, j \in DOMAIN c : i # j /\ c[i].recent => ~ c[j].recent /\ Above(c[i], c[j])
      /\ \A i \in DOMAIN c : c[i].order = <<>> => Len(c) = 1 /\ c[i].recent
  BY DEF Tidy, Ordered, Apart, EmptyAlone
<1>3. ASSUME NEW j \in DOMAIN c, j # r PROVE ~ c[j].recent /\ Above(next[r], c[j])
  <2>1. ~ c[j].recent /\ Above(c[r], c[j])
    BY <1>1, <1>2, <1>3
  <2> QED BY <1>1, <1>3, <2>1 DEF Above
<1>4. \A i \in DOMAIN next : Descending(next[i].order)
  BY <1>1, <1>2
<1>5. \A i, j \in DOMAIN next : i # j => Above(next[i], next[j]) \/ Above(next[j], next[i])
  <2> SUFFICES ASSUME NEW i \in DOMAIN c, NEW j \in DOMAIN c, i # j
               PROVE  Above(next[i], next[j]) \/ Above(next[j], next[i])
    BY <1>1
  <2>1. CASE i = r
    BY <1>1, <1>3, <2>1
  <2>2. CASE j = r
    BY <1>1, <1>3, <2>2
  <2>3. CASE i # r /\ j # r
    BY <1>1, <1>2, <2>3
  <2> QED BY <2>1, <2>2, <2>3
<1>6. \A i, j \in DOMAIN next : i # j /\ next[i].recent => ~ next[j].recent /\ Above(next[i], next[j])
  <2> SUFFICES ASSUME NEW i \in DOMAIN c, NEW j \in DOMAIN c, i # j, next[i].recent
               PROVE  ~ next[j].recent /\ Above(next[i], next[j])
    BY <1>1
  <2>1. i = r
    BY <1>1, <1>3
  <2> QED BY <1>1, <1>3, <2>1
<1>7. \A i \in DOMAIN next : next[i].order # <<>>
  <2>1. ASSUME NEW i \in DOMAIN c, i # r PROVE next[i].order # <<>>
    BY <1>1, <1>2, <1>3, <2>1
  <2> QED BY <1>1, <2>1
<1> QED BY <1>4, <1>5, <1>6, <1>7 DEF Tidy, Ordered, Apart, EmptyAlone

\* A first recent block is started by a post that is newer than all that are loaded.
LEMMA StartedTidy ==
    ASSUME NEW A \in SUBSET Nat, NEW c \in Seq(BlockIn(A)), Tidy(c), NEW next, NEW p \in A,
           \A i \in DOMAIN c : ~ c[i].recent /\ \A q \in ToSet(c[i].order) : p > q,
           DOMAIN next = 1..(Len(c) + 1), \A i \in 1..Len(c) : next[i] = c[i],
           next[Len(c) + 1].order = <<p>>, next[Len(c) + 1].recent
    PROVE  Tidy(next)
<1> DEFINE n == Len(c)
<1>1. n \in Nat /\ DOMAIN c = 1..n
  OBVIOUS
<1>2. /\ DOMAIN next = 1..(n + 1) /\ \A i \in 1..n : next[i] = c[i]
      /\ next[n + 1].order = <<p>> /\ next[n + 1].recent
  OBVIOUS
<1> HIDE DEF n
<1>3. \A i \in 1..(n + 1) : i \in 1..n \/ i = n + 1
  BY <1>1
<1>4. /\ \A i \in 1..n : Descending(c[i].order)
      /\ \A i, j \in 1..n : i # j => Above(c[i], c[j]) \/ Above(c[j], c[i])
      /\ \A i \in 1..n : c[i].order # <<>> /\ ~ c[i].recent
  BY <1>1 DEF Tidy, Ordered, Apart, EmptyAlone
<1>5. ToSet(<<p>>) = {p} /\ Descending(<<p>>) /\ <<p>> # <<>>
  BY DEF ToSet, Descending
<1>6. \A i \in 1..n : Above(next[n + 1], c[i])
  BY <1>1, <1>2, <1>5 DEF Above
<1>7. \A i \in 1..(n + 1) : Descending(next[i].order) /\ next[i].order # <<>>
  BY <1>2, <1>3, <1>4, <1>5
<1>8. \A i, j \in 1..(n + 1) : i # j => Above(next[i], next[j]) \/ Above(next[j], next[i])
  BY <1>2, <1>3, <1>4, <1>6
<1>9. \A i, j \in 1..(n + 1) : i # j /\ next[i].recent => ~ next[j].recent /\ Above(next[i], next[j])
  BY <1>2, <1>3, <1>4, <1>6
<1> QED BY <1>2, <1>7, <1>8, <1>9 DEF Tidy, Ordered, Apart, EmptyAlone

\* An entry that is a list of blocks is not that of a channel that was never loaded.
LEMMA Loading ==
    ASSUME Unloaded \notin Seq([order : Seq(Nat), recent : BOOLEAN, oldest : BOOLEAN]),
           NEW A \in SUBSET Nat, NEW m \in Seq(BlockIn(A))
    PROVE  m # Unloaded /\ P!BlocksOf(m) = m
<1>1. BlockIn(A) \subseteq [order : Seq(Nat), recent : BOOLEAN, oldest : BOOLEAN]
  BY Wider DEF BlockIn
<1>2. m \in Seq([order : Seq(Nat), recent : BOOLEAN, oldest : BOOLEAN])
  BY <1>1, Wider
<1> QED BY <1>2 DEF P!BlocksOf

\* The list a page is merged with: the block that was the recent one loses its mark to a
\* page that is.
Unmarked(c, recent) ==
    IF recent /\ P!RecentIndex(c) # 0 THEN [c EXCEPT ![P!RecentIndex(c)].recent = FALSE] ELSE c

\* Taking the mark of a recent block away changes no list.
LEMMA UnmarkedBlocks ==
    ASSUME NEW A, NEW c \in Seq(BlockIn(A)), NEW recent \in BOOLEAN
    PROVE  LET u == Unmarked(c, recent) IN
           /\ u \in Seq(BlockIn(A)) /\ DOMAIN u = DOMAIN c
           /\ \A i \in DOMAIN c : u[i].order = c[i].order /\ (u[i].recent => c[i].recent)
           /\ recent /\ P!RecentIndex(c) # 0 => ~ u[P!RecentIndex(c)].recent
           /\ ~ recent => u = c
<1> DEFINE r == P!RecentIndex(c)
           u == Unmarked(c, recent)
<1>1. r # 0 => r \in DOMAIN c
  BY RecentOne
<1>2. CASE ~ (recent /\ r # 0)
  <2>1. u = c
    BY <1>2 DEF Unmarked
  <2> QED BY <1>2, <2>1
<1>3. CASE recent /\ r # 0
  <2> DEFINE m == [c[r] EXCEPT !.recent = FALSE]
  <2>1. c[r] \in BlockIn(A) /\ r \in DOMAIN c
    BY <1>1, <1>3
  <2>2. m \in BlockIn(A) /\ m.order = c[r].order /\ ~ m.recent
    BY <2>1 DEF BlockIn
  <2>3. u = [c EXCEPT ![r] = m]
    BY <1>3 DEF Unmarked
  <2> HIDE DEF m, u, r
  <2>4. /\ u \in Seq(BlockIn(A)) /\ DOMAIN u = DOMAIN c /\ u[r] = m
        /\ \A i \in DOMAIN c : i # r => u[i] = c[i]
    BY <2>1, <2>2, <2>3
  <2> QED BY <1>3, <2>2, <2>4 DEF u, r
<1> QED BY <1>2, <1>3

\* Every post that was loaded still is.
Carried(c, next) ==
    \A i \in DOMAIN c : \A p \in ToSet(c[i].order) :
       \E k \in DOMAIN next : p \in ToSet(next[k].order)

\* The lists a page may be merged with.
LEMMA UnmarkedOrdered ==
    ASSUME NEW A \in SUBSET Nat, NEW c \in Seq(BlockIn(A)), Tidy(c), NEW recent \in BOOLEAN
    PROVE  /\ Ordered(Unmarked(c, recent))
           /\ \A K : Settled(c, A, K) => Settled(Unmarked(c, recent), A, K)
           /\ recent => \A i \in DOMAIN c : ~ Unmarked(c, recent)[i].recent
<1> DEFINE u == Unmarked(c, recent)
           r == P!RecentIndex(c)
<1>1. /\ u \in Seq(BlockIn(A)) /\ DOMAIN u = DOMAIN c
      /\ \A i \in DOMAIN c : u[i].order = c[i].order /\ (u[i].recent => c[i].recent)
      /\ recent /\ r # 0 => ~ u[r].recent
      /\ ~ recent => u = c
  BY UnmarkedBlocks
<1>2. /\ r # 0 => r \in DOMAIN c /\ c[r].recent
      /\ r = 0 => \A i \in DOMAIN c : ~ c[i].recent
  BY RecentOne
<1> HIDE DEF u, r
<1>3. /\ \A i \in DOMAIN c : Descending(c[i].order)
      /\ \A i, j \in DOMAIN c : i # j => Above(c[i], c[j]) \/ Above(c[j], c[i])
      /\ \A i, j \in DOMAIN c : i # j /\ c[i].recent => ~ c[j].recent /\ Above(c[i], c[j])
  BY DEF Tidy, Ordered, Apart
<1>4. Ordered(u)
  <2>1. \A i, j \in DOMAIN c : Above(c[i], c[j]) => Above(u[i], u[j])
    BY <1>1 DEF Above
  <2> QED BY <1>1, <1>3, <2>1 DEF Ordered, Apart
<1>5. ASSUME NEW K, Settled(c, A, K) PROVE Settled(u, A, K)
  BY <1>1, <1>5 DEF Settled
<1>6. ASSUME recent, NEW i \in DOMAIN c PROVE ~ u[i].recent
  <2>1. ASSUME u[i].recent PROVE FALSE
    <3>1. c[i].recent
      BY <1>1, <2>1
    <3>2. r # 0 /\ i # r
      BY <1>1, <1>2, <1>6, <2>1, <3>1
    <3> QED BY <1>2, <1>3, <3>1, <3>2
  <2> QED BY <2>1
<1> QED BY <1>4, <1>5, <1>6 DEF u

\* A page leaves the blocks in order, and what was loaded.
LEMMA PageTidy ==
    ASSUME Unloaded \notin Seq([order : Seq(Nat), recent : BOOLEAN, oldest : BOOLEAN]),
           NEW A \in SUBSET Nat, NEW c \in Seq(BlockIn(A)), Tidy(c), NEW recent \in BOOLEAN,
           NEW b, Page(b, A), ~ P!MergeThrows(Append(Unmarked(c, recent), b)),
           \A i \in DOMAIN c : ~ recent /\ c[i].recent /\ c[i].order # <<>> =>
              \E a \in ToSet(b.order), t \in ToSet(c[i].order) : a <= t
    PROVE  LET m == P!MergePostBlocks(Append(Unmarked(c, recent), b)) IN
           /\ m \in Seq(BlockIn(A)) /\ P!BlocksOf(m) = m /\ Tidy(m)
           /\ MergedTo(Append(Unmarked(c, recent), b), m)
           /\ \A K : Settled(c, A, K) => Settled(m, A, K)
           /\ Carried(c, m)
<1> DEFINE u == Unmarked(c, recent)
           blocks == Append(u, b)
           m == P!MergePostBlocks(blocks)
<1>1. /\ u \in Seq(BlockIn(A)) /\ DOMAIN u = DOMAIN c
      /\ \A i \in DOMAIN c : u[i].order = c[i].order /\ (u[i].recent => c[i].recent)
  BY UnmarkedBlocks
<1>2. /\ Ordered(u) /\ \A K : Settled(c, A, K) => Settled(u, A, K)
      /\ recent => \A i \in DOMAIN c : ~ u[i].recent
  BY UnmarkedOrdered
<1>3. ~ P!MergeThrows(Append(u, b))
  OBVIOUS
<1> HIDE DEF u
<1>4. \A i \in DOMAIN u : u[i].recent /\ u[i].order # <<>> =>
         \E a \in ToSet(b.order), t \in ToSet(u[i].order) : a <= t
  BY <1>1, <1>2
<1>5. /\ m \in Seq(BlockIn(A)) /\ MergedTo(blocks, m) /\ Tidy(m)
      /\ \A K : Settled(u, A, K) => Settled(m, A, K)
  BY <1>1, <1>2, <1>3, <1>4, PageAdded
<1>6. P!BlocksOf(m) = m
  BY <1>5, Loading
<1>7. Carried(c, m)
  <2> SUFFICES ASSUME NEW i \in DOMAIN c, NEW p \in ToSet(c[i].order)
               PROVE  \E k \in DOMAIN m : p \in ToSet(m[k].order)
    BY DEF Carried
  <2>1. i \in DOMAIN blocks /\ blocks[i] = u[i]
    <3>1. b \in BlockIn(A)
      BY DEF Page
    <3> QED BY <1>1, <3>1, OneMore
  <2>2. blocks[i].order = c[i].order
    BY <1>1, <2>1
  <2>3. c[i].order # <<>>
    BY PostsOf
  <2>4. PICK k \in DOMAIN m : Inside(blocks[i], m[k])
    BY <1>5, <2>1, <2>2, <2>3 DEF MergedTo
  <2> QED BY <2>2, <2>4 DEF Inside
<1> QED BY <1>2, <1>5, <1>6, <1>7 DEF u

\* A post that a recent block should have, and one that is newer than all it has.
Lacks(b, q) == q \notin ToSet(b.order) /\ (b.order = <<>> \/ \E p \in ToSet(b.order) : p < q)
Beyond(b, q) == \A p \in ToSet(b.order) : p < q

\* The blocks but the recent one have every post of the time they span.
Whole(c, A) == \A i \in DOMAIN c : ~ c[i].recent => Convex(ToSet(c[i].order), A)

\* What a merge leaves a recent block without is what it was without before.
LEMMA PageLacks ==
    ASSUME NEW A \in SUBSET Nat, NEW u \in Seq(BlockIn(A)), NEW b, Page(b, A),
           ~ P!MergeThrows(Append(u, b)), Whole(u, A),
           NEW m \in Seq(BlockIn(A)), MergedTo(Append(u, b), m)
    PROVE  /\ Whole(m, A)
           /\ \A k \in DOMAIN m : m[k].recent =>
                 /\ b.recent \/ \E i \in DOMAIN u : u[i].recent
                 /\ \A q \in A : Lacks(m[k], q) =>
                       \E i \in DOMAIN u : /\ u[i].recent /\ Lacks(u[i], q)
                                           /\ Beyond(u[i], q) => Beyond(m[k], q)
<1> DEFINE n == Len(u)
           blocks == Append(u, b)
<1>1. /\ b \in BlockIn(A) /\ Falls(b) /\ b.order # <<>> /\ Convex(ToSet(b.order), A)
      /\ b.recent => Tops(ToSet(b.order), A)
  BY DEF Page, Falls
<1>2. /\ blocks \in Seq(BlockIn(A)) /\ n \in Nat
      /\ DOMAIN u = 1..n /\ DOMAIN blocks = 1..(n + 1)
      /\ \A i \in 1..n : blocks[i] = u[i]
      /\ blocks[n + 1] = b
      /\ \A i \in 1..(n + 1) : i \in 1..n \/ i = n + 1
      /\ 1..n \subseteq 1..(n + 1) /\ n + 1 \in 1..(n + 1)
  BY <1>1, OneMore
<1>3. ~ P!MergeThrows(blocks)
  OBVIOUS
<1> HIDE DEF blocks, n
<1>4. \A i \in DOMAIN blocks : blocks[i].recent => blocks[i].order # <<>>
  BY <1>1, <1>2, <1>3, EmptyThrows
<1>5. MergedTo(blocks, m)
  BY DEF blocks
<1>6. \A k \in DOMAIN m : Falls(m[k]) /\ \E i \in DOMAIN blocks : Grows(blocks[i], m[k])
  BY <1>5 DEF MergedTo
<1>7. ASSUME NEW k \in DOMAIN m, NEW q \in A, Gap(ToSet(m[k].order), q)
      PROVE  \E i \in 1..n : u[i].recent /\ Gap(ToSet(u[i].order), q)
  <2>1. \E i \in DOMAIN blocks : Gap(ToSet(blocks[i].order), q)
    BY <1>5, <1>7 DEF MergedTo
  <2>2. ~ Gap(ToSet(b.order), q)
    BY <1>1 DEF Convex
  <2>3. PICK i \in 1..n : Gap(ToSet(u[i].order), q)
    BY <1>2, <2>1, <2>2
  <2>4. u[i].recent
    BY <1>2, <2>3 DEF Whole, Convex
  <2> QED BY <2>3, <2>4
<1>8. Whole(m, A)
  <2> SUFFICES ASSUME NEW k \in DOMAIN m, NEW q \in A, Gap(ToSet(m[k].order), q)
               PROVE  m[k].recent
    BY DEF Whole, Convex
  <2>1. PICK i \in 1..n : u[i].recent /\ Gap(ToSet(u[i].order), q)
    BY <1>7
  <2>2. i \in DOMAIN blocks /\ blocks[i] = u[i]
    BY <1>2
  <2>3. PICK l \in DOMAIN m : Inside(u[i], m[l])
    BY <1>4, <1>5, <2>1, <2>2 DEF MergedTo
  <2>4. m[l].recent
    BY <2>1, <2>3 DEF Inside
  <2>5. ASSUME k # l PROVE FALSE
    <3>1. PICK p1 \in ToSet(m[l].order), p2 \in ToSet(m[l].order) : p1 < q /\ p2 > q
      BY <2>1, <2>3 DEF Gap, Inside
    <3>2. PICK p3 \in ToSet(m[k].order), p4 \in ToSet(m[k].order) : p3 < q /\ p4 > q
      BY DEF Gap
    <3>3. p1 \in Nat /\ p2 \in Nat /\ p3 \in Nat /\ p4 \in Nat
      BY PostsOf
    <3>4. Above(m[k], m[l]) \/ Above(m[l], m[k])
      BY <1>5, <2>5 DEF MergedTo, Apart
    <3>5. p3 > p2 \/ p1 > p4
      BY <3>4 DEF Above
    <3> QED BY <3>1, <3>2, <3>3, <3>5
  <2> QED BY <2>4, <2>5
<1>9. ASSUME NEW k \in DOMAIN m, m[k].recent
      PROVE  b.recent \/ \E i \in DOMAIN u : u[i].recent
  <2>1. PICK i \in DOMAIN blocks : Grows(blocks[i], m[k])
    BY <1>6
  <2>2. blocks[i].recent
    BY <1>9, <2>1 DEF Grows
  <2> QED BY <1>2, <2>2
<1>10. ASSUME NEW k \in DOMAIN m, m[k].recent, NEW q \in A, Lacks(m[k], q)
       PROVE  \E i \in DOMAIN u : /\ u[i].recent /\ Lacks(u[i], q)
                                  /\ Beyond(u[i], q) => Beyond(m[k], q)
  <2>1. q \notin ToSet(m[k].order) /\ \E p \in ToSet(m[k].order) : p < q
    BY <1>6, <1>10 DEF Lacks, Falls
  <2>2. CASE Gap(ToSet(m[k].order), q)
    <3>1. PICK i \in 1..n : u[i].recent /\ Gap(ToSet(u[i].order), q)
      BY <1>7, <2>2
    <3>2. Lacks(u[i], q)
      BY <3>1 DEF Gap, Lacks
    <3>3. ~ Beyond(u[i], q)
      <4>1. PICK p \in ToSet(u[i].order) : p > q
        BY <3>1 DEF Gap
      <4>2. p \in Nat
        BY <1>2, PostsOf
      <4> QED BY <4>1, <4>2 DEF Beyond
    <3> QED BY <1>2, <3>1, <3>2, <3>3
  <2>3. CASE ~ Gap(ToSet(m[k].order), q)
    <3>1. Beyond(m[k], q)
      <4> SUFFICES ASSUME NEW p \in ToSet(m[k].order) PROVE p < q
        BY DEF Beyond
      <4>1. ~ (p > q) /\ p # q
        BY <2>1, <2>3 DEF Gap
      <4>2. p \in Nat
        BY PostsOf
      <4> QED BY <4>1, <4>2
    <3>2. PICK i \in DOMAIN blocks : Grows(blocks[i], m[k])
      BY <1>6
    <3>3. blocks[i].recent /\ Beyond(blocks[i], q) /\ blocks[i].order # <<>>
      BY <1>4, <1>10, <3>1, <3>2 DEF Grows, Beyond
    <3>4. \E p \in ToSet(blocks[i].order) : p \in Nat /\ p < q
      <4>1. ToSet(blocks[i].order) # {} /\ ToSet(blocks[i].order) \subseteq A
        BY <1>2, <3>3, PostsOf
      <4> QED BY <3>3, <4>1 DEF Beyond
    <3>5. q \notin ToSet(blocks[i].order)
      BY <3>3 DEF Beyond
    <3>6. CASE i \in 1..n
      <4>1. u[i].recent /\ Lacks(u[i], q)
        BY <1>2, <3>3, <3>4, <3>5, <3>6 DEF Lacks
      <4> QED BY <1>2, <3>1, <3>6, <4>1
    <3>7. CASE i = n + 1
      <4>1. Tops(ToSet(b.order), A)
        BY <1>1, <1>2, <3>3, <3>7
      <4>2. PICK p \in ToSet(b.order) : p \in Nat /\ p < q
        BY <1>2, <3>4, <3>7
      <4>3. q < p
        BY <1>2, <3>5, <3>7, <4>1, <4>2 DEF Tops
      <4> QED BY <4>2, <4>3
    <3> QED BY <1>2, <3>6, <3>7
  <2> QED BY <2>2, <2>3
<1> QED BY <1>8, <1>9, <1>10

-----------------------------------------------------------------------------
(* The inductive invariant.                                                *)

\* A request is a record of these fields.
Shaped(r) == r = [field \in {"kind", "anchor", "time", "prefetch", "reply"} |-> r[field]]

Around == {"latest", "unread", "around"}

\* What an answer consists of.  A page that precedes or follows a post does not contain it.
Answered(r, A) ==
    LET order == r.reply.order IN
    /\ order \in Seq(A) /\ Twice(order) = {}
    /\ r.reply.recent \in BOOLEAN /\ r.reply.oldest \in BOOLEAN
    /\ r.kind = "before" => \A p \in ToSet(order) : p < r.anchor
    /\ r.kind = "after" => \A p \in ToSet(order) : p > r.anchor

\* A request and its answer, of a channel with the posts A, at a time.
Typed(r, A, now) ==
    /\ Shaped(r)
    /\ r.kind \in Around \cup {"before", "after", "since"}
    /\ r.kind \in {"before", "after", "around"} => r.anchor \in A /\ r.time = 0
    /\ r.kind = "since" => r.anchor \in Nat /\ r.anchor <= r.time /\ r.time # 0
    /\ r.time \in 0..now
    /\ r.reply # NoReply => Answered(r, A)

\* Types: a post is the time of its creation, and a block lists a post once.
Types ==
    /\ scenario \in Scenarios
    /\ clock \in Nat \ {0}
    /\ Channel \subseteq 1..clock
    /\ updateAt \in [Channel -> Nat] /\ \A p \in Channel : updateAt[p] >= p
    /\ connected \in BOOLEAN
    /\ events \in Seq(Channel)
    /\ lastDisconnectAt \in 0..clock
    /\ entry = Unloaded \/ entry \in Seq(BlockIn(Channel))
    /\ lastGetPosts \in 0..clock
    /\ \A r \in requests : Typed(r, Channel, clock)
    /\ held \subseteq Channel
    /\ lost \subseteq Channel
    /\ unstamped \in BOOLEAN /\ detached \in BOOLEAN /\ truncated \in BOOLEAN

\* A post is in some block.
Listed(c, p) == \E i \in DOMAIN c : p \in ToSet(c[i].order)

\* Posts that are missing for a reason: their event was lost or is still to come.
Known == lost \cup ToSet(events)

\* The blocks are in order, and only posts that are known to be missing are.
Shape == Tidy(BlockList) /\ Settled(BlockList, Channel, Known)

\* Events on their way are newer than all that is loaded, and come in order.
Upcoming ==
    /\ \A i, j \in DOMAIN events : i < j => events[i] < events[j]
    /\ \A p \in ToSet(events), q \in Channel : Listed(BlockList, q) => q < p
    /\ events # <<>> => \A q \in Channel : q > Head(events) => q \in Known

\* Events and replies are never under way together.
Quiet ==
    /\ held = {}
    /\ events # <<>> => \A r \in requests : r.reply = NoReply
    /\ Overtaking => events = <<>> /\ clock >= MaxClock

\* What the posts of a reply have in common.
Replied(r, A) ==
    LET S == ToSet(r.reply.order) IN
    /\ Descending(r.reply.order)
    /\ r.kind = "latest" \/ r.reply.recent => Tops(S, A)
    /\ r.kind \in Around => Convex(S, A)
    /\ r.kind \in {"before", "after"} => Convex(S \cup {r.anchor}, A)
    /\ S = {} /\ r.kind \in Around => r.reply.recent /\ A = {}

\* The replies under way are still what the server would answer, and the posts that pages
\* before and after them were asked for are still loaded.
Faithful ==
    \A r \in requests : /\ r.reply # NoReply => Replied(r, Channel)
                        /\ r.kind \in {"before", "after"} => Listed(BlockList, r.anchor)

\* The reply of a synchronisation has every post since its start.
Complete(r, A) == \A q \in A : q > r.anchor => q \in ToSet(r.reply.order)

\* What the stamps say.  The recent block was stamped; what it lacks is newer than the stamp
\* and than where any sync under way begins, and a sync that was answered brings all of it;
\* and while the connection has been up since the stamp, it lacks only what is still to come.
Repairable ==
    /\ \A r \in requests : r.kind = "since" /\ r.reply # NoReply => Complete(r, Channel)
    /\ Whole(BlockList, Channel)
    /\ \A r \in requests : r.reply # NoReply /\ r.time >= lastDisconnectAt => connected
    /\ \A i \in DOMAIN BlockList : BlockList[i].recent =>
          /\ lastGetPosts # 0
          /\ lastGetPosts >= lastDisconnectAt => connected
          /\ \A q \in Channel : Lacks(BlockList[i], q) =>
                /\ q > lastGetPosts
                /\ \A r \in requests : r.kind = "since" => q > r.anchor
                /\ lastGetPosts >= lastDisconnectAt => Beyond(BlockList[i], q) /\ q \in ToSet(events)

\* The condition under which the stamps are right.
Stamped == Undisturbed /\ ~ unstamped /\ ~ OfflineLoads /\ ~ truncated

\* The inductive invariant.
Inv ==
    /\ Types
    /\ Undisturbed => Shape /\ Upcoming /\ Quiet /\ Faithful
    /\ Stamped => Repairable

\* What is assumed of the constants, in the form the proofs use.
LEMMA Assumptions ==
    /\ PerPage \in Nat \ {0} /\ NoPost \notin Nat
    /\ Unloaded \notin Seq([order : Seq(Nat), recent : BOOLEAN, oldest : BOOLEAN])
    /\ \A s \in Scenarios : s.existing \in Nat /\ s.end \in Nat
BY ConstantsAssumption

\* What is disturbed stays so, and neither an unstamped block nor a reply that was cut short
\* is forgotten.
LEMMA Calmer ==
    ASSUME [Next]_vars, Types
    PROVE  /\ Undisturbed' => Undisturbed
           /\ Stamped' => Stamped
           /\ scenario' = scenario
<1>1. /\ scenario' = scenario /\ (detached => detached') /\ (unstamped => unstamped')
      /\ truncated => truncated'
  BY DEF Next, vars, server, socket, posts, screen, history, CreatePost, EditPost, Disconnect,
         Reconnect, OpenChannel, CloseChannel, Prefetch, DelayedPrefetch, LoadMore, OpenPermalink,
         Answer, ReceiveReply, ReceiveThrows, Fail, ReceiveEvent, HoldEvent, ApplyHeld, DropHeld,
         ApplyNewPost, Types
<1>2. Overtaken' = Overtaken /\ OfflineLoads' = OfflineLoads
  BY <1>1 DEF Overtaken, Overtaking, OfflineLoads
<1> QED BY <1>1, <1>2 DEF Undisturbed, Stamped

\* The blocks of the channel.
LEMMA BlocksTyped ==
    ASSUME Types
    PROVE  /\ BlockList \in Seq(BlockIn(Channel)) /\ Channel \in SUBSET Nat
           /\ BlockList = P!BlocksOf(entry)
           /\ entry # Unloaded => BlockList = entry
           /\ entry = Unloaded => BlockList = <<>>
           /\ \A b : b \in Blocks <=> \E i \in DOMAIN BlockList : BlockList[i] = b
<1>1. BlockList = P!BlocksOf(entry)
  BY DEF BlockList
<1>2. entry = Unloaded => BlockList = <<>>
  BY <1>1 DEF P!BlocksOf
<1>3. entry # Unloaded => BlockList = entry
  BY <1>1 DEF P!BlocksOf
<1>4. BlockList \in Seq(BlockIn(Channel))
  <2>1. <<>> \in Seq(BlockIn(Channel))
    OBVIOUS
  <2>2. entry = Unloaded \/ entry \in Seq(BlockIn(Channel))
    BY DEF Types
  <2> QED BY <1>2, <1>3, <2>1, <2>2
<1>5. Channel \in SUBSET Nat
  BY DEF Types
<1>6. \A b : b \in Blocks <=> \E i \in DOMAIN BlockList : BlockList[i] = b
  BY DEF Blocks, BlockList
<1> QED BY <1>1, <1>2, <1>3, <1>4, <1>5, <1>6

-----------------------------------------------------------------------------
(* What the browser asks for.                                              *)

\* A request that is sent now.
Fresh(r) ==
    /\ Shaped(r)
    /\ r.reply = NoReply
    /\ r.kind \in Around \cup {"before", "after", "since"}
    /\ r.time \in {0, clock}
    /\ r.kind \in {"before", "after", "around"} => r.time = 0
    /\ r.kind \in {"before", "after"} => Listed(BlockList, r.anchor)
    /\ r.kind = "around" => r.anchor \in Channel
    /\ r.kind = "since" =>
          /\ r.time = clock
          /\ \E b \in Blocks : b.order # <<>> /\ r.anchor = SyncRequest(Head(b.order)).anchor

\* The state but for the requests, what is shown, and a connection that comes back.
Asks ==
    /\ UNCHANGED <<server, events, lastDisconnectAt, posts, history, scenario>>
    /\ connected' \in BOOLEAN /\ (connected => connected')
    /\ \A r \in requests' : r \in requests \/ Fresh(r)

\* What a request is.
LEMMA RequestParts ==
    \A kind, anchor, stamp :
       LET r == Request(kind, anchor, stamp) IN
       /\ Shaped(r) /\ r.kind = kind /\ r.anchor = anchor /\ r.reply = NoReply
       /\ r.time = IF stamp THEN clock ELSE 0
BY DEF Request, Shaped

\* And a synchronisation.
LEMMA SyncParts ==
    \A since :
       LET r == SyncRequest(since) IN
       /\ Shaped(r) /\ r.kind = "since" /\ r.reply = NoReply /\ r.time = clock
       /\ r.anchor = IF lastGetPosts # 0 /\ lastGetPosts < lastDisconnectAt
                     THEN lastGetPosts ELSE since
BY DEF SyncRequest, Request, Shaped

\* A load that is marked as a prefetch.
LEMMA Prefetched ==
    \A s : Shaped(s) =>
       LET t == [s EXCEPT !.prefetch = TRUE] IN
       Shaped(t) /\ t.kind = s.kind /\ t.anchor = s.anchor /\ t.reply = s.reply /\ t.time = s.time
BY DEF Shaped

\* A synchronisation from a block, and a load of another kind.
LEMMA FreshSync ==
    ASSUME NEW b \in Blocks, b.order # <<>>
    PROVE  /\ Fresh(SyncRequest(Head(b.order)))
           /\ Fresh([SyncRequest(Head(b.order)) EXCEPT !.prefetch = TRUE])
<1> DEFINE s == SyncRequest(Head(b.order))
           t == [s EXCEPT !.prefetch = TRUE]
<1>1. Shaped(s) /\ s.kind = "since" /\ s.reply = NoReply /\ s.time = clock
  BY SyncParts
<1>2. Fresh(s)
  BY <1>1 DEF Fresh
<1> HIDE DEF s
<1>3. /\ Shaped(t) /\ t.kind = s.kind /\ t.anchor = s.anchor /\ t.reply = s.reply
      /\ t.time = s.time
  BY <1>1, Prefetched
<1>4. s.anchor = SyncRequest(Head(b.order)).anchor
  BY DEF s
<1> HIDE DEF t
<1>5. Fresh(t)
  BY <1>1, <1>3, <1>4 DEF Fresh
<1> QED BY <1>2, <1>5 DEF s, t

\* The request that opening the channel or prefetching it makes has no reply yet and is
\* stamped below the clock.
LEMMA FreshLoad ==
    \A kind \in {"latest", "unread"}, stamp \in BOOLEAN :
       /\ Fresh(Request(kind, NoPost, stamp))
       /\ Fresh([Request(kind, NoPost, stamp) EXCEPT !.prefetch = TRUE])
<1> SUFFICES ASSUME NEW kind \in {"latest", "unread"}, NEW stamp \in BOOLEAN
             PROVE  /\ Fresh(Request(kind, NoPost, stamp))
                    /\ Fresh([Request(kind, NoPost, stamp) EXCEPT !.prefetch = TRUE])
  OBVIOUS
<1> DEFINE s == Request(kind, NoPost, stamp)
           t == [s EXCEPT !.prefetch = TRUE]
<1>1. Shaped(s) /\ s.kind = kind /\ s.reply = NoReply /\ s.time = IF stamp THEN clock ELSE 0
  BY RequestParts
<1> HIDE DEF s
<1>2. Fresh(s)
  BY <1>1 DEF Fresh, Around
<1>3. Shaped(t) /\ t.kind = s.kind /\ t.reply = s.reply /\ t.time = s.time
  BY <1>1, Prefetched
<1> HIDE DEF t
<1>4. Fresh(t)
  BY <1>1, <1>3 DEF Fresh, Around
<1> QED BY <1>2, <1>4 DEF s, t

\* The requests the browser sends.
LEMMA AsksOfActions ==
    ASSUME Types,
           \/ Reconnect \/ OpenChannel \/ CloseChannel \/ Prefetch \/ DelayedPrefetch
           \/ \E p \in Channel : OpenPermalink(p)
           \/ \E b \in Blocks : LoadMore(b)
    PROVE  Asks
<1> USE DEF server, posts, history, screen, socket
<1>1. \A r : Fresh(r) /\ Send(r) => \A s \in requests' : s \in requests \/ Fresh(s)
  BY DEF Send
<1>2. \A b \in RecentPosts : b \in Blocks /\ b.order # <<>>
  BY DEF RecentPosts, RecentBlocks
<1>3. connected \in BOOLEAN
  BY DEF Types
<1>4. CASE Reconnect
  <2>1. \A s \in requests' : s \in requests \/ Fresh(s)
    BY <1>1, <1>2, <1>4, FreshSync, FreshLoad DEF Reconnect, SyncOnReconnect
  <2> QED BY <1>4, <2>1 DEF Reconnect, Asks
<1>5. CASE OpenChannel
  <2>1. \A s \in requests' : s \in requests \/ Fresh(s)
    BY <1>1, <1>2, <1>5, FreshSync, FreshLoad DEF OpenChannel
  <2> QED BY <1>3, <1>5, <2>1 DEF OpenChannel, Asks
<1>6. CASE CloseChannel
  BY <1>3, <1>6 DEF CloseChannel, Asks
<1>7. CASE Prefetch
  <2>1. \A s \in requests' : s \in requests \/ Fresh(s)
    BY <1>1, <1>2, <1>7, FreshSync, FreshLoad DEF Prefetch, SendPrefetch
  <2> QED BY <1>3, <1>7, <2>1 DEF Prefetch, Asks
<1>8. CASE DelayedPrefetch
  <2>1. \A s \in requests' : s \in requests \/ Fresh(s)
    BY <1>1, <1>8, FreshLoad DEF DelayedPrefetch, SendPrefetch
  <2> QED BY <1>3, <1>8, <2>1 DEF DelayedPrefetch, Asks
<1>9. ASSUME NEW p \in Channel, OpenPermalink(p) PROVE Asks
  <2> DEFINE s == Request("around", p, FALSE)
  <2>1. Shaped(s) /\ s.kind = "around" /\ s.anchor = p /\ s.reply = NoReply /\ s.time = 0
    BY DEF Request, Shaped
  <2> HIDE DEF s
  <2>2. Fresh(s)
    BY <2>1 DEF Fresh, Around
  <2>3. Send(s)
    BY <1>9 DEF OpenPermalink, s
  <2> QED BY <1>1, <1>3, <1>9, <2>2, <2>3 DEF OpenPermalink, Asks
<1>10. ASSUME NEW b \in Blocks, LoadMore(b) PROVE Asks
  <2> DEFINE s == Request("before", P!Last(b.order), FALSE)
             t == Request("after", Head(b.order), FALSE)
  <2>1. /\ Shaped(s) /\ s.kind = "before" /\ s.anchor = P!Last(b.order) /\ s.reply = NoReply
        /\ s.time = 0
        /\ Shaped(t) /\ t.kind = "after" /\ t.anchor = Head(b.order) /\ t.reply = NoReply
        /\ t.time = 0
    BY DEF Request, Shaped
  <2>2. Send(s) \/ Send(t)
    BY <1>10 DEF LoadMore, Last, P!Last
  <2> HIDE DEF s, t
  <2>3. Listed(BlockList, P!Last(b.order)) /\ Listed(BlockList, Head(b.order))
    <3>1. PICK i \in DOMAIN BlockList : BlockList[i] = b
      BY BlocksTyped
    <3>2. b.order \in Seq(Channel) /\ b.order # <<>>
      <4>1. BlockList[i].order \in Seq(Channel)
        BY BlocksTyped, PostsOf
      <4> QED BY <1>10, <3>1, <4>1 DEF LoadMore
    <3>3. Head(b.order) = b.order[1] /\ P!Last(b.order) = b.order[Len(b.order)]
      BY <3>2 DEF P!Last
    <3>4. 1 \in DOMAIN b.order /\ Len(b.order) \in DOMAIN b.order
      BY <3>2
    <3>5. b.order[1] \in ToSet(b.order) /\ b.order[Len(b.order)] \in ToSet(b.order)
      BY <3>4 DEF ToSet
    <3> QED BY <3>1, <3>3, <3>5 DEF Listed
  <2>4. Fresh(s) /\ Fresh(t)
    BY <2>1, <2>3 DEF Fresh
  <2> QED BY <1>1, <1>3, <1>10, <2>2, <2>4 DEF LoadMore, Asks
<1> QED BY <1>4, <1>5, <1>6, <1>7, <1>8, <1>9, <1>10

-----------------------------------------------------------------------------
(* The invariant holds in the beginning, and what the browser asks for     *)
(* keeps it.                                                               *)

\* The beginning: nothing is loaded and nothing under way.
LEMMA InvInit == Init => Inv
<1> SUFFICES ASSUME Init PROVE Inv
  OBVIOUS
<1> USE DEF Init
<1>1. scenario.existing \in Nat /\ scenario.end \in Nat
  BY Assumptions
<1>2. clock \in Nat \ {0} /\ clock >= scenario.existing /\ Channel = 1..scenario.existing
  BY <1>1 DEF Channel
<1>3. Types
  <2>1. updateAt \in [Channel -> Nat] /\ \A p \in Channel : updateAt[p] = p
    BY <1>2
  <2>2. events \in Seq(Channel)
    OBVIOUS
  <2>3. Channel \subseteq 1..clock /\ lastDisconnectAt \in 0..clock /\ lastGetPosts \in 0..clock
    BY <1>1, <1>2
  <2>4. \A p \in Channel : updateAt[p] >= p
    BY <1>2, <2>1
  <2> QED BY <1>1, <1>2, <2>1, <2>2, <2>3, <2>4 DEF Types
<1>4. BlockList = <<>> /\ DOMAIN BlockList = {} /\ ToSet(events) = {}
  BY DEF BlockList, P!BlocksOf, ToSet
<1>5. Undisturbed => Shape /\ Upcoming /\ Quiet /\ Faithful
  <2>1. Shape
    BY <1>4 DEF Shape, Tidy, Ordered, Apart, EmptyAlone, Settled
  <2>2. Upcoming
    BY <1>4 DEF Upcoming, Listed
  <2>3. Undisturbed => Quiet
    BY <1>1, <1>2 DEF Undisturbed, Overtaken, Quiet, MaxClock
  <2>4. Faithful
    BY DEF Faithful
  <2> QED BY <2>1, <2>2, <2>3, <2>4
<1>6. Repairable
  BY <1>4 DEF Repairable, Whole
<1> QED BY <1>3, <1>5, <1>6 DEF Inv

\* What the properties are about, when neither the posts nor the blocks change.
LEMMA SameBlocks ==
    ASSUME UNCHANGED <<updateAt, entry>>
    PROVE  /\ Channel' = Channel /\ BlockList' = BlockList /\ Blocks' = Blocks
           /\ RecentPosts' = RecentPosts
BY DEF Channel, BlockList, Blocks, RecentPosts, RecentBlocks, P!BlocksOf

\* A request that is sent has a type.
LEMMA FreshTyped ==
    ASSUME Types, NEW r, Fresh(r)
    PROVE  Typed(r, Channel, clock)
<1>1. clock \in Nat \ {0} /\ lastGetPosts \in 0..clock /\ Channel \subseteq 1..clock
  BY DEF Types
<1>2. \A p : Listed(BlockList, p) => p \in Channel
  BY BlocksTyped, PostsOf DEF Listed
<1>3. ASSUME r.kind = "since"
      PROVE  r.anchor \in Nat /\ r.anchor <= r.time /\ r.time # 0
  <2>1. PICK b \in Blocks : b.order # <<>> /\ r.anchor = SyncRequest(Head(b.order)).anchor
    BY <1>3 DEF Fresh
  <2>2. PICK i \in DOMAIN BlockList : BlockList[i] = b
    BY BlocksTyped
  <2>3. b.order \in Seq(Channel)
    BY <2>2, BlocksTyped, PostsOf
  <2>4. Head(b.order) \in Channel
    BY <2>1, <2>3
  <2>5. r.anchor = lastGetPosts \/ r.anchor = Head(b.order)
    BY <2>1, SyncParts
  <2>6. r.time = clock
    BY <1>3 DEF Fresh
  <2>7. Head(b.order) \in 1..clock
    BY <1>1, <2>4
  <2>8. r.anchor \in 0..clock
    BY <1>1, <2>5, <2>7
  <2> QED BY <1>1, <2>6, <2>8
<1>4. r.time \in 0..clock
  BY <1>1 DEF Fresh
<1> QED BY <1>2, <1>3, <1>4 DEF Fresh, Typed

\* A synchronisation begins before all that the recent block lacks.
LEMMA SyncBegins ==
    ASSUME Types, Shape, Repairable,
           NEW i \in DOMAIN BlockList, BlockList[i].recent,
           NEW q \in Channel, Lacks(BlockList[i], q),
           NEW b \in Blocks, b.order # <<>>
    PROVE  q > SyncRequest(Head(b.order)).anchor
<1> DEFINE R == BlockList[i]
<1>1. clock \in Nat /\ lastGetPosts \in 0..clock /\ lastDisconnectAt \in 0..clock
      /\ Channel \subseteq Nat
  BY DEF Types
<1>2. /\ lastGetPosts # 0 /\ q > lastGetPosts
      /\ lastGetPosts >= lastDisconnectAt => Beyond(R, q)
  BY DEF Repairable
<1>3. CASE lastGetPosts < lastDisconnectAt
  BY <1>2, <1>3, SyncParts
<1>4. CASE lastGetPosts >= lastDisconnectAt
  <2>1. SyncRequest(Head(b.order)).anchor = Head(b.order)
    BY <1>1, <1>4, SyncParts
  <2>2. PICK j \in DOMAIN BlockList : BlockList[j] = b
    BY BlocksTyped
  <2>3. b.order \in Seq(Channel)
    BY <2>2, BlocksTyped, PostsOf
  <2>4. Head(b.order) \in ToSet(b.order) /\ Head(b.order) \in Nat
    <3>1. 1 \in DOMAIN b.order /\ Head(b.order) = b.order[1] /\ b.order[1] \in Channel
      BY <2>3
    <3> QED BY <3>1, <1>1 DEF ToSet
  <2>5. CASE j = i
    BY <1>2, <1>4, <2>1, <2>2, <2>4, <2>5 DEF Beyond
  <2>6. CASE j # i
    <3>1. Above(R, b)
      BY <2>2, <2>6 DEF Shape, Tidy, Ordered
    <3>2. R.order # <<>>
      <4>1. BlockList \in Seq(BlockIn(Channel))
        BY BlocksTyped
      <4>2. DOMAIN BlockList = 1..Len(BlockList) /\ Len(BlockList) \in Nat
        BY <4>1
      <4>3. Len(BlockList) # 1
        BY <2>6, <4>2
      <4> QED BY <4>3 DEF Shape, Tidy, EmptyAlone
    <3>3. PICK p \in ToSet(R.order) : TRUE
      <4>1. R.order = <<>> <=> ToSet(R.order) = {}
        BY BlocksTyped, PostsOf
      <4> QED BY <3>2, <4>1
    <3>4. p \in Nat
      BY <1>1, <3>3, BlocksTyped, PostsOf
    <3>5. Head(b.order) < p /\ p < q
      BY <1>2, <1>4, <2>4, <3>1, <3>3, <3>4 DEF Above, Beyond
    <3> QED BY <1>1, <2>1, <2>4, <3>4, <3>5
  <2> QED BY <2>5, <2>6
<1> QED BY <1>1, <1>3, <1>4

\* Asking the server for posts preserves the invariant: it only adds fresh requests.
LEMMA InvAsks ==
    ASSUME Inv, Asks
    PROVE  Inv'
<1> USE DEF server, posts, history
<1>1. /\ UNCHANGED <<clock, updateAt, events, lastDisconnectAt, entry, lastGetPosts, held,
                     lost, unstamped, detached, truncated, scenario>>
      /\ connected' \in BOOLEAN /\ (connected => connected')
      /\ \A r \in requests' : r \in requests \/ Fresh(r)
  BY DEF Asks
<1>2. Channel' = Channel /\ BlockList' = BlockList
  BY <1>1, SameBlocks
<1>3. Types'
  <2>1. \A r \in requests' : Typed(r, Channel, clock)
    BY <1>1, FreshTyped DEF Inv, Types
  <2>2. \A r \in requests' : Typed(r, Channel', clock')
    BY <1>1, <1>2, <2>1
  <2> QED BY <1>1, <1>2, <2>2 DEF Inv, Types
<1>4. (Undisturbed' <=> Undisturbed) /\ (Stamped' <=> Stamped)
  BY <1>1 DEF Undisturbed, Stamped, Overtaken, Overtaking, OfflineLoads
<1>5. ASSUME Undisturbed
      PROVE  Shape' /\ Upcoming' /\ Quiet' /\ Faithful'
  <2>1. Shape /\ Upcoming /\ Quiet /\ Faithful
    BY <1>5 DEF Inv
  <2>2. Shape'
    BY <1>1, <1>2, <2>1 DEF Shape, Known
  <2>3. Upcoming'
    BY <1>1, <1>2, <2>1 DEF Upcoming, Known
  <2>4. Quiet'
    BY <1>1, <2>1 DEF Quiet, Fresh, Overtaking, MaxClock
  <2>5. Faithful'
    BY <1>1, <1>2, <2>1 DEF Faithful, Fresh, Replied
  <2> QED BY <2>2, <2>3, <2>4, <2>5
<1>6. ASSUME Stamped
      PROVE  Repairable'
  <2>1. Types /\ Shape /\ Repairable
    BY <1>6 DEF Inv, Stamped
  <2>2. \A r \in requests' : r.reply # NoReply /\ r.time >= lastDisconnectAt' => connected'
    BY <1>1, <2>1 DEF Repairable, Fresh
  <2>3. ASSUME NEW i \in DOMAIN BlockList, BlockList[i].recent,
               NEW q \in Channel, Lacks(BlockList[i], q),
               NEW r \in requests', r.kind = "since"
        PROVE  q > r.anchor
    <3>1. CASE r \in requests
      BY <2>1, <2>3, <3>1 DEF Repairable
    <3>2. CASE Fresh(r)
      BY <2>1, <2>3, <3>2, SyncBegins DEF Fresh
    <3> QED BY <1>1, <3>1, <3>2
  <2>4. \A r \in requests' : r.kind = "since" /\ r.reply # NoReply => Complete(r, Channel)
    BY <1>1, <2>1 DEF Repairable, Fresh
  <2> QED BY <1>1, <1>2, <2>1, <2>2, <2>3, <2>4 DEF Repairable
<1> QED BY <1>3, <1>4, <1>5, <1>6 DEF Inv

-----------------------------------------------------------------------------
(* The server and the connection.                                          *)

\* An edit changes the time of a post's last change, and no block.
LEMMA InvEditPost ==
    ASSUME Inv, NEW p \in Channel, EditPost(p)
    PROVE  Inv'
<1> USE DEF socket, posts, screen, history
<1>1. /\ clock \in Nat \ {0} /\ clock' = clock + 1
      /\ updateAt' = [updateAt EXCEPT ![p] = clock']
      /\ UNCHANGED <<connected, events, lastDisconnectAt, entry, lastGetPosts, held, requests,
                     lost, unstamped, detached, truncated, scenario>>
  BY DEF EditPost, Inv, Types
<1>2. Channel' = Channel /\ Channel \subseteq 1..clock
  BY <1>1 DEF Channel, Inv, Types
<1>3. BlockList' = BlockList
  BY <1>1 DEF BlockList, P!BlocksOf
<1>4. Types'
  <2>1. \A r \in requests : Typed(r, Channel, clock')
    BY <1>1 DEF Inv, Types, Typed
  <2>2. updateAt' \in [Channel -> Nat] /\ \A q \in Channel : updateAt'[q] >= q
    BY <1>1, <1>2 DEF Inv, Types
  <2>3. lastDisconnectAt \in 0..clock' /\ lastGetPosts \in 0..clock' /\ Channel \subseteq 1..clock'
    BY <1>1, <1>2 DEF Inv, Types
  <2> QED BY <1>1, <1>2, <2>1, <2>2, <2>3 DEF Inv, Types
<1>5. (Undisturbed' <=> Undisturbed) /\ (Stamped' <=> Stamped)
  BY <1>1 DEF Undisturbed, Stamped, Overtaken, Overtaking, OfflineLoads
<1>6. Undisturbed => Shape' /\ Upcoming' /\ Quiet' /\ Faithful'
  <2>1. Shape => Shape'
    BY <1>1, <1>2, <1>3 DEF Shape, Known
  <2>2. Upcoming => Upcoming'
    BY <1>1, <1>2, <1>3 DEF Upcoming, Known
  <2>3. Quiet => Quiet'
    <3>1. scenario.end \in Nat
      BY Assumptions DEF Inv, Types
    <3> QED BY <1>1, <3>1 DEF Quiet, Overtaking, MaxClock
  <2>4. Faithful => Faithful'
    BY <1>1, <1>2, <1>3 DEF Faithful, Replied
  <2> QED BY <2>1, <2>2, <2>3, <2>4 DEF Inv
<1>7. Stamped => Repairable'
  BY <1>1, <1>2, <1>3 DEF Inv, Repairable
<1> QED BY <1>4, <1>5, <1>6, <1>7 DEF Inv

\* While nothing overtakes, no reply is under way when time passes for all to see.
LEMMA NothingUnderWay ==
    ASSUME Inv, Undisturbed, clock < MaxClock, Overtaking \/ NoReplyUnderWay
    PROVE  NoReplyUnderWay /\ ~ Overtaking
<1>1. clock \in Nat /\ MaxClock \in Nat
  BY Assumptions DEF Inv, Types, MaxClock
<1> QED BY <1>1 DEF Inv, Quiet

\* The events that had not arrived are lost; what they carried is later than the last
\* synchronisation, and so is found by the next one.
LEMMA InvDisconnect ==
    ASSUME Inv, Disconnect
    PROVE  Inv'
<1> USE DEF posts
<1>1. /\ clock \in Nat \ {0} /\ clock' = clock + 1 /\ clock < MaxClock
      /\ connected' = FALSE /\ events' = <<>> /\ lastDisconnectAt' = clock'
      /\ lost' = lost \cup ToSet(events)
      /\ UNCHANGED <<updateAt, entry, lastGetPosts, held, requests, unstamped, detached,
                     truncated, scenario>>
  BY DEF Disconnect, Inv, Types
<1>2. Channel' = Channel /\ BlockList' = BlockList
  BY <1>1, SameBlocks
<1>3. Types'
  <2>1. \A r \in requests : Typed(r, Channel, clock')
    BY <1>1 DEF Inv, Types, Typed
  <2>2. lastDisconnectAt' \in 0..clock' /\ lastGetPosts \in 0..clock' /\ Channel \subseteq 1..clock'
    BY <1>1 DEF Inv, Types
  <2>3. ToSet(events) \subseteq Channel
    BY Within DEF Inv, Types
  <2>4. events' \in Seq(Channel)
    BY <1>1
  <2>5. connected' \in BOOLEAN /\ lost' \subseteq Channel /\ clock' \in Nat \ {0}
    <3>1. connected' \in BOOLEAN
      BY <1>1
    <3>2. lost' \subseteq Channel
      BY <1>1, <2>3 DEF Inv, Types
    <3>3. clock' \in Nat \ {0}
      BY <1>1
    <3> QED BY <3>1, <3>2, <3>3
  <2> QED BY <1>1, <1>2, <2>1, <2>2, <2>4, <2>5 DEF Inv, Types
<1>4. (Undisturbed' <=> Undisturbed) /\ (Stamped' <=> Stamped)
  BY <1>1 DEF Undisturbed, Stamped, Overtaken, Overtaking, OfflineLoads
<1>5. ToSet(events') = {}
  BY <1>1 DEF ToSet
<1>6. ASSUME Undisturbed
      PROVE  Shape' /\ Upcoming' /\ Quiet' /\ Faithful'
  <2>1. NoReplyUnderWay /\ ~ Overtaking
    BY <1>6, NothingUnderWay DEF Disconnect
  <2>2. Shape /\ Upcoming /\ Quiet /\ Faithful
    BY <1>6 DEF Inv
  <2>3. Known' = Known
    BY <1>1, <1>5 DEF Known
  <2>4. Shape'
    BY <1>1, <1>2, <2>2, <2>3 DEF Shape
  <2>5. Upcoming'
    BY <1>1, <1>5 DEF Upcoming
  <2>6. Quiet'
    BY <1>1, <2>1, <2>2 DEF Quiet, Overtaking
  <2>7. Faithful'
    BY <1>1, <1>2, <2>1, <2>2 DEF Faithful, NoReplyUnderWay
  <2> QED BY <2>4, <2>5, <2>6, <2>7
<1>7. ASSUME Stamped
      PROVE  Repairable'
  <2>1. Repairable
    BY <1>7 DEF Inv
  <2>2. ~ (lastGetPosts >= lastDisconnectAt')
    BY <1>1 DEF Inv, Types
  <2>3. \A r \in requests : ~ (r.time >= lastDisconnectAt')
    BY <1>1 DEF Inv, Types, Typed
  <2> QED BY <1>1, <1>2, <2>1, <2>2, <2>3 DEF Repairable
<1> QED BY <1>3, <1>4, <1>6, <1>7 DEF Inv

\* What has a type keeps it when posts are added and time passes.
LEMMA TypedLater ==
    ASSUME NEW A, NEW B, A \subseteq B, NEW now \in Nat, NEW later \in Nat, now <= later
    PROVE  /\ \A r : Typed(r, A, now) => Typed(r, B, later)
           /\ BlockIn(A) \subseteq BlockIn(B)
           /\ Seq(BlockIn(A)) \subseteq Seq(BlockIn(B))
<1>1. \A s : s \in Seq(A) => s \in Seq(B)
  BY Wider
<1>2. \A r : Answered(r, A) => Answered(r, B)
  BY <1>1 DEF Answered
<1>3. \A r : Typed(r, A, now) => Typed(r, B, later)
  BY <1>2 DEF Typed
<1>4. BlockIn(A) \subseteq BlockIn(B)
  BY <1>1 DEF BlockIn
<1>5. Seq(BlockIn(A)) \subseteq Seq(BlockIn(B))
  BY <1>4, Wider
<1> QED BY <1>3, <1>4, <1>5

\* A new post is later than all that any block or reply lists; its event is under way or
\* lost.
LEMMA InvCreatePost ==
    ASSUME Inv, CreatePost
    PROVE  Inv'
<1> USE DEF posts
<1> DEFINE n == clock + 1
<1>1. /\ clock \in Nat \ {0} /\ clock' = n /\ clock < MaxClock
      /\ updateAt' = [p \in Channel \cup {n} |-> IF p = n THEN p ELSE updateAt[p]]
      /\ events' = IF connected THEN Append(events, n) ELSE events
      /\ lost' = IF connected THEN lost ELSE lost \cup {n}
      /\ UNCHANGED <<connected, lastDisconnectAt, entry, lastGetPosts, held, requests, unstamped,
                     detached, truncated, scenario>>
  BY DEF CreatePost, Inv, Types
<1>2. Channel' = Channel \cup {n}
  BY <1>1 DEF Channel
<1>3. BlockList' = BlockList
  BY <1>1 DEF BlockList, P!BlocksOf
<1>4. Channel \subseteq 1..clock /\ \A q \in Channel : q \in Nat /\ q < n
  BY <1>1 DEF Inv, Types
<1>5. events \in Seq(Channel) /\ ToSet(events) \subseteq Channel
  BY Within DEF Inv, Types
<1>6. /\ events' \in Seq(Channel')
      /\ ToSet(events') = ToSet(events) \cup (IF connected THEN {n} ELSE {})
  <2>1. events \in Seq(Channel') /\ <<n>> \in Seq(Channel') /\ ToSet(<<n>>) = {n}
    BY <1>2, <1>5, Wider, One
  <2>2. Append(events, n) = events \o <<n>>
    BY <2>1
  <2>3. Append(events, n) \in Seq(Channel') /\ ToSet(Append(events, n)) = ToSet(events) \cup {n}
    <3>1. /\ events \o <<n>> \in Seq(Channel')
          /\ ToSet(events \o <<n>>) = ToSet(events) \cup ToSet(<<n>>)
      BY <2>1, Concatenated
    <3> QED BY <2>1, <2>2, <3>1
  <2> QED BY <1>1, <2>1, <2>3
<1>7. Known' = Known \cup {n}
  BY <1>1, <1>6 DEF Known
<1>8. Types'
  <2>1. \A r \in requests : Typed(r, Channel', clock')
    <3>1. Channel \subseteq Channel' /\ clock \in Nat /\ clock' \in Nat /\ clock <= clock'
      BY <1>1, <1>2
    <3>2. \A r : Typed(r, Channel, clock) => Typed(r, Channel', clock')
      BY <3>1, TypedLater
    <3> QED BY <3>2 DEF Inv, Types
  <2>2. lastDisconnectAt \in 0..clock' /\ lastGetPosts \in 0..clock' /\ Channel' \subseteq 1..clock'
    BY <1>1, <1>2, <1>4 DEF Inv, Types
  <2>3. entry = Unloaded \/ entry \in Seq(BlockIn(Channel'))
    BY <1>1, <1>2, TypedLater DEF Inv, Types
  <2>4. updateAt' \in [Channel' -> Nat] /\ \A q \in Channel' : updateAt'[q] >= q
    <3>1. \A q \in Channel' : updateAt'[q] \in Nat /\ updateAt'[q] >= q
      BY <1>1, <1>2 DEF Inv, Types
    <3> QED BY <1>1, <1>2, <3>1
  <2>5. held \subseteq Channel' /\ lost' \subseteq Channel'
    BY <1>1, <1>2 DEF Inv, Types
  <2> QED BY <1>1, <1>6, <2>1, <2>2, <2>3, <2>4, <2>5 DEF Inv, Types
<1>9. (Undisturbed' <=> Undisturbed) /\ (Stamped' <=> Stamped)
  BY <1>1 DEF Undisturbed, Stamped, Overtaken, Overtaking, OfflineLoads
<1>10. \A i \in DOMAIN BlockList : \A p \in ToSet(BlockList[i].order) : p \in Nat /\ p < n
  <2>1. \A i \in DOMAIN BlockList : ToSet(BlockList[i].order) \subseteq Channel
    BY BlocksTyped, PostsOf DEF Inv
  <2> QED BY <1>4, <2>1
<1>11. \A i \in DOMAIN BlockList : ~ Gap(ToSet(BlockList[i].order), n)
  <2>1. n \in Nat
    BY <1>1
  <2> HIDE DEF n
  <2> SUFFICES ASSUME NEW i \in DOMAIN BlockList PROVE ~ Gap(ToSet(BlockList[i].order), n)
    OBVIOUS
  <2>2. \A p \in ToSet(BlockList[i].order) : ~ (p > n)
    BY <1>10, <2>1
  <2> QED BY <2>2 DEF Gap
<1>12. Undisturbed => NoReplyUnderWay /\ ~ Overtaking
  BY NothingUnderWay DEF CreatePost
<1>13. ASSUME Undisturbed
       PROVE  Shape' /\ Upcoming' /\ Quiet' /\ Faithful'
  <2>1. Shape /\ Upcoming /\ Quiet /\ Faithful
    BY <1>13 DEF Inv
  <2>2. Shape'
    <3>1. Settled(BlockList, Channel', Known')
      BY <1>2, <1>7, <1>11, <2>1 DEF Shape, Settled
    <3> QED BY <1>3, <2>1, <3>1 DEF Shape
  <2>3. Upcoming'
    <3>1. ASSUME NEW i \in DOMAIN events', NEW j \in DOMAIN events', i < j
          PROVE  events'[i] < events'[j]
      <4>1. \A k \in DOMAIN events : events[k] \in Channel /\ events[k] < n
        <5>1. \A k \in DOMAIN events : events[k] \in Channel
          BY <1>5
        <5> QED BY <1>4, <5>1
      <4>2. CASE ~ connected
        BY <1>1, <2>1, <3>1, <4>2 DEF Upcoming
      <4>3. CASE connected
        <5>1. /\ events' = Append(events, n) /\ DOMAIN events = 1..Len(events)
              /\ Len(events) \in Nat /\ DOMAIN events' = 1..(Len(events) + 1)
          BY <1>1, <1>5, <4>3
        <5>2. \A k \in 1..Len(events) : events'[k] = events[k]
          BY <1>5, <5>1
        <5>3. events'[Len(events) + 1] = n
          BY <1>5, <5>1
        <5>4. i \in 1..Len(events)
          BY <3>1, <5>1
        <5>5. CASE j = Len(events) + 1
          BY <4>1, <5>1, <5>2, <5>3, <5>4, <5>5
        <5>6. CASE j \in 1..Len(events)
          BY <2>1, <3>1, <5>1, <5>2, <5>4, <5>6 DEF Upcoming
        <5> QED BY <5>1, <5>5, <5>6
      <4> QED BY <4>2, <4>3
    <3>2. ASSUME NEW p \in ToSet(events'), NEW q \in Channel', Listed(BlockList, q)
          PROVE  q < p
      <4>1. q \in Channel /\ q < n
        <5>1. PICK i \in DOMAIN BlockList : q \in ToSet(BlockList[i].order)
          BY <3>2 DEF Listed
        <5>2. q \in Nat /\ q < n
          BY <1>10, <5>1
        <5>3. q # n
          BY <1>1, <5>2
        <5> QED BY <1>2, <5>2, <5>3
      <4>2. CASE p \in ToSet(events)
        BY <2>1, <3>2, <4>1, <4>2 DEF Upcoming
      <4> QED BY <1>6, <4>1, <4>2
    <3>3. ASSUME events' # <<>>, NEW q \in Channel', q > Head(events')
          PROVE  q \in Known'
      <4>1. CASE q = n
        BY <1>7, <4>1
      <4>2. CASE q \in Channel /\ events # <<>>
        <5>1. Head(events') = Head(events)
          BY <1>1, <1>5, <4>2
        <5> QED BY <1>7, <2>1, <3>3, <4>2, <5>1 DEF Upcoming
      <4>3. CASE q \in Channel /\ events = <<>>
        <5>1. Head(events') = n
          BY <1>1, <3>3, <4>3
        <5> QED BY <1>1, <1>4, <3>3, <4>3, <5>1
      <4> QED BY <1>2, <4>1, <4>2, <4>3
    <3> QED BY <1>3, <3>1, <3>2, <3>3 DEF Upcoming
  <2>4. Quiet'
    BY <1>1, <1>12, <1>13, <2>1 DEF Quiet, Overtaking, NoReplyUnderWay
  <2>5. Faithful'
    BY <1>1, <1>3, <1>12, <1>13, <2>1 DEF Faithful, NoReplyUnderWay
  <2> QED BY <2>2, <2>3, <2>4, <2>5
<1>14. ASSUME Stamped
       PROVE  Repairable'
  <2>1. Repairable
    BY <1>14 DEF Inv
  <2>2. NoReplyUnderWay
    BY <1>12, <1>14 DEF Stamped
  <2>3. Whole(BlockList, Channel')
    BY <1>2, <1>11, <2>1 DEF Repairable, Whole, Convex
  <2>4. ASSUME NEW i \in DOMAIN BlockList, BlockList[i].recent, NEW q \in Channel',
               Lacks(BlockList[i], q)
        PROVE  /\ q > lastGetPosts
               /\ \A r \in requests : r.kind = "since" => q > r.anchor
               /\ lastGetPosts >= lastDisconnectAt =>
                     Beyond(BlockList[i], q) /\ q \in ToSet(events')
    <3>1. CASE q \in Channel
      BY <1>6, <2>1, <2>4, <3>1 DEF Repairable
    <3>2. CASE q = n
      <4>1. n > lastGetPosts
        BY <1>1 DEF Inv, Types
      <4>2. \A r \in requests : r.kind = "since" => n > r.anchor
        BY <1>1 DEF Inv, Types, Typed
      <4>3. Beyond(BlockList[i], n)
        BY <1>10 DEF Beyond
      <4>4. lastGetPosts >= lastDisconnectAt => n \in ToSet(events')
        BY <1>6, <2>1, <2>4 DEF Repairable
      <4> QED BY <3>2, <4>1, <4>2, <4>3, <4>4
    <3> QED BY <1>2, <3>1, <3>2
  <2> QED BY <1>1, <1>3, <2>1, <2>2, <2>3, <2>4 DEF Repairable, NoReplyUnderWay
<1> QED BY <1>8, <1>9, <1>13, <1>14 DEF Inv

-----------------------------------------------------------------------------
(* The pages of the server.                                                *)

\* The elements of a set that few others come before: with one, those before it are among
\* them, and they are missing only when there is nothing to choose from.
LEMMA Nearest ==
    ASSUME NEW S \in SUBSET Nat, IsFiniteSet(S)
    PROVE  /\ Newest(S) \subseteq S /\ Oldest(S) \subseteq S
           /\ \A p \in Newest(S), q \in S : q > p => q \in Newest(S)
           /\ \A p \in Oldest(S), q \in S : q < p => q \in Oldest(S)
           /\ S # {} => Newest(S) # {}
<1> DEFINE up(p) == {q \in S : q > p}
           down(p) == {q \in S : q < p}
<1>1. Newest(S) = {p \in S : Cardinality(up(p)) < PerPage}
  BY DEF Newest, Closest
<1>2. Oldest(S) = {p \in S : Cardinality(down(p)) < PerPage}
  BY DEF Oldest, Closest
<1>3. \A T \in SUBSET S : IsFiniteSet(T) /\ Cardinality(T) \in Nat
  BY FS_Subset, FS_CardinalityType
<1>4. PerPage \in Nat \ {0}
  BY Assumptions
<1>5. ASSUME NEW p \in Newest(S), NEW q \in S, q > p
      PROVE  q \in Newest(S)
  <2>1. up(q) \subseteq up(p) /\ up(p) \in SUBSET S /\ up(q) \in SUBSET S
    <3>1. p \in Nat /\ q \in Nat
      BY <1>1, <1>5
    <3>2. \A x \in S : x \in Nat /\ (x > q => x > p)
      BY <1>5, <3>1
    <3> QED BY <3>2
  <2>2. Cardinality(up(q)) <= Cardinality(up(p))
    BY <1>3, <2>1, FS_Subset
  <2>3. Cardinality(up(p)) < PerPage
    BY <1>1
  <2> HIDE DEF up
  <2>4. Cardinality(up(q)) < PerPage
    BY <1>3, <1>4, <2>1, <2>2, <2>3
  <2> QED BY <1>1, <1>5, <2>4
<1>6. ASSUME NEW p \in Oldest(S), NEW q \in S, q < p
      PROVE  q \in Oldest(S)
  <2>1. down(q) \subseteq down(p) /\ down(p) \in SUBSET S /\ down(q) \in SUBSET S
    <3>1. p \in Nat /\ q \in Nat
      BY <1>2, <1>6
    <3>2. \A x \in S : x \in Nat /\ (x < q => x < p)
      BY <1>6, <3>1
    <3> QED BY <3>2
  <2>2. Cardinality(down(q)) <= Cardinality(down(p))
    BY <1>3, <2>1, FS_Subset
  <2>3. Cardinality(down(p)) < PerPage
    BY <1>2
  <2> HIDE DEF down
  <2>4. Cardinality(down(q)) < PerPage
    BY <1>3, <1>4, <2>1, <2>2, <2>3
  <2> QED BY <1>2, <1>6, <2>4
<1>7. ASSUME S # {}
      PROVE  Newest(S) # {}
  <2> DEFINE p == NewestFirst(S)[1]
  <2>1. /\ NewestFirst(S) \in Seq(S) /\ ToSet(NewestFirst(S)) = S /\ Descending(NewestFirst(S))
    BY Listing
  <2>2. NewestFirst(S) # <<>>
    BY <1>7, <2>1 DEF ToSet
  <2>3. NewestFirst(S) \in Seq(Nat)
    BY <2>1, Wider
  <2>4. p \in S /\ \A q \in S : q <= p
    BY <2>1, <2>2, <2>3, Ends
  <2>5. up(p) = {}
    <3> HIDE DEF p
    <3>1. \A q \in S : ~ (q > p)
      BY <2>4
    <3> QED BY <3>1
  <2>6. Cardinality(up(p)) = 0
    BY <2>5, FS_EmptySet
  <2> HIDE DEF up, p
  <2>7. p \in Newest(S)
    BY <1>1, <1>4, <2>4, <2>6
  <2> QED BY <2>7
<1> QED BY <1>1, <1>2, <1>5, <1>6, <1>7

\* The posts of a channel are finitely many, and so are those of a page.
LEMMA FinitelyMany ==
    ASSUME Types
    PROVE  /\ Channel \in SUBSET Nat
           /\ \A S \in SUBSET Channel : IsFiniteSet(S) /\ S \in SUBSET Nat
<1>1. Channel \subseteq 1..clock /\ clock \in Nat
  BY DEF Types
<1>2. IsFiniteSet(1..clock)
  BY <1>1, FS_Interval
<1>3. Channel \subseteq Nat
  BY <1>1
<1>4. ASSUME NEW S \in SUBSET Channel
      PROVE  IsFiniteSet(S) /\ S \in SUBSET Nat
  <2>1. S \in SUBSET (1..clock)
    BY <1>1
  <2> QED BY <1>2, <1>3, <2>1, FS_Subset
<1> QED BY <1>3, <1>4

\* What a page consists of, by what was asked for.
Served(kind, anchor, S) ==
    /\ S \subseteq Channel
    /\ kind = "latest" => Tops(S, Channel)
    /\ kind \in Around => Convex(S, Channel) /\ (S = {} => Channel = {})
    /\ kind \in {"before", "after"} => Convex(S \cup {anchor}, Channel)
    /\ kind = "before" => \A p \in S : p < anchor
    /\ kind = "after" => \A p \in S : p > anchor
    /\ kind = "since" /\ S = ChangedSince(anchor) => \A q \in Channel : q > anchor => q \in S

\* The posts before and after a post.
LEMMA BeforeAndAfter ==
    ASSUME Types, NEW a \in Channel
    PROVE  LET before == Newest({q \in Channel : q < a})
               after == Oldest({q \in Channel : q > a})
           IN  /\ before \subseteq Channel /\ \A p \in before : p < a
               /\ after \subseteq Channel /\ \A p \in after : p > a
               /\ \A p \in before, q \in Channel : p < q /\ q < a => q \in before
               /\ \A p \in after, q \in Channel : a < q /\ q < p => q \in after
<1> DEFINE B == {q \in Channel : q < a}
           F == {q \in Channel : q > a}
<1>1. Channel \in SUBSET Nat
  BY FinitelyMany
<1>2. B \in SUBSET Channel /\ F \in SUBSET Channel
  OBVIOUS
<1>3. B \in SUBSET Nat /\ F \in SUBSET Nat /\ IsFiniteSet(B) /\ IsFiniteSet(F)
  BY <1>2, FinitelyMany
<1>4. Newest(B) \subseteq B /\ \A p \in Newest(B), q \in B : q > p => q \in Newest(B)
  BY <1>3, Nearest
<1>5. Oldest(F) \subseteq F /\ \A p \in Oldest(F), q \in F : q < p => q \in Oldest(F)
  BY <1>3, Nearest
<1>6. \A p \in Newest(B), q \in Channel : p < q /\ q < a => q \in Newest(B)
  <2> SUFFICES ASSUME NEW p \in Newest(B), NEW q \in Channel, p < q, q < a
               PROVE  q \in Newest(B)
    OBVIOUS
  <2>1. p \in Nat /\ q \in Nat /\ q \in B /\ q > p
    BY <1>1, <1>4
  <2> QED BY <1>4, <2>1
<1>7. \A p \in Oldest(F), q \in Channel : a < q /\ q < p => q \in Oldest(F)
  <2> SUFFICES ASSUME NEW p \in Oldest(F), NEW q \in Channel, a < q, q < p
               PROVE  q \in Oldest(F)
    OBVIOUS
  <2>1. p \in Nat /\ q \in Nat /\ a \in Nat /\ q \in F
    BY <1>1, <1>5
  <2> QED BY <1>5, <2>1
<1> QED BY <1>4, <1>5, <1>6, <1>7

\* The page around a post.
LEMMA AroundServed ==
    ASSUME Types, NEW a \in Channel
    PROVE  LET S == Newest({q \in Channel : q < a}) \cup {a} \cup Oldest({q \in Channel : q > a})
           IN  S \subseteq Channel /\ Convex(S, Channel) /\ S # {}
<1> DEFINE B == Newest({q \in Channel : q < a})
           F == Oldest({q \in Channel : q > a})
           S == B \cup {a} \cup F
<1>1. /\ B \subseteq Channel /\ \A p \in B : p < a
      /\ F \subseteq Channel /\ \A p \in F : p > a
      /\ \A p \in B, q \in Channel : p < q /\ q < a => q \in B
      /\ \A p \in F, q \in Channel : a < q /\ q < p => q \in F
  BY BeforeAndAfter
<1>2. Channel \in SUBSET Nat
  BY FinitelyMany
<1> HIDE DEF B, F
<1>3. ASSUME NEW q \in Channel, Gap(S, q)
      PROVE  FALSE
  <2>1. q \notin B /\ q \notin F /\ q # a
    BY <1>3 DEF Gap
  <2>2. PICK x \in S : x < q
    BY <1>3 DEF Gap
  <2>3. PICK y \in S : y > q
    BY <1>3 DEF Gap
  <2>4. x \in Nat /\ y \in Nat /\ q \in Nat /\ a \in Nat
    BY <1>1, <1>2
  <2>5. CASE q < a
    <3>1. x \notin F /\ x # a
      BY <1>1, <2>2, <2>4, <2>5
    <3> QED BY <1>1, <2>1, <2>2, <2>5, <3>1
  <2>6. CASE q > a
    <3>1. y \notin B /\ y # a
      BY <1>1, <2>3, <2>4, <2>6
    <3> QED BY <1>1, <2>1, <2>3, <2>4, <2>6, <3>1
  <2> QED BY <2>1, <2>4, <2>5, <2>6
<1>4. S \subseteq Channel /\ Convex(S, Channel) /\ S # {}
  BY <1>1, <1>3 DEF Convex
<1> QED BY <1>4 DEF B, F

\* A page that the server picks has the shape of its kind of request.
LEMMA PagesServed ==
    ASSUME Types, NEW r, Typed(r, Channel, clock), NEW S \in Pages(r)
    PROVE  Served(r.kind, r.anchor, S)
<1>1. Channel \in SUBSET Nat /\ IsFiniteSet(Channel)
  BY FinitelyMany
<1>2. r.kind \in {"latest", "unread", "around", "before", "after", "since"}
  BY DEF Typed, Around
<1>3. CASE r.kind = "latest"
  <2>1. S = Newest(Channel)
    BY <1>3 DEF Pages
  <2>2. /\ S \subseteq Channel /\ \A p \in S, q \in Channel : q > p => q \in S
        /\ Channel # {} => S # {}
    BY <1>1, <2>1, Nearest
  <2>3. Tops(S, Channel)
    <3>1. \A p \in S, q \in Channel : q \in S \/ q < p
      BY <1>1, <2>2
    <3> QED BY <3>1 DEF Tops
  <2>4. Convex(S, Channel)
    <3>1. \A q \in Channel : ~ Gap(S, q)
      BY <1>1, <2>2 DEF Gap
    <3> QED BY <3>1 DEF Convex
  <2> QED BY <1>3, <2>2, <2>3, <2>4 DEF Served
<1>4. CASE r.kind = "unread"
  <2>1. \/ Channel = {} /\ S = {}
        \/ \E a \in Channel : S = Newest({q \in Channel : q < a}) \cup {a}
                                     \cup Oldest({q \in Channel : q > a})
    BY <1>4 DEF Pages
  <2>2. S \subseteq Channel /\ Convex(S, Channel) /\ (S = {} => Channel = {})
    BY <2>1, AroundServed DEF Convex
  <2> QED BY <1>4, <2>2 DEF Served
<1>5. CASE r.kind = "around"
  <2>1. S = Newest({q \in Channel : q < r.anchor}) \cup {r.anchor}
                \cup Oldest({q \in Channel : q > r.anchor})
    BY <1>5 DEF Pages
  <2>2. S \subseteq Channel /\ Convex(S, Channel) /\ S # {}
    BY <1>5, <2>1, AroundServed DEF Typed
  <2> QED BY <1>5, <2>2 DEF Served
<1>6. CASE r.kind = "before"
  <2> DEFINE a == r.anchor
  <2>1. S = Newest({q \in Channel : q < a}) /\ a \in Channel
    BY <1>6 DEF Pages, Typed
  <2>2. /\ S \subseteq Channel /\ \A p \in S : p < a
        /\ \A p \in S, q \in Channel : p < q /\ q < a => q \in S
    BY <2>1, BeforeAndAfter
  <2>3. \A q \in Channel : ~ Gap(S \cup {a}, q)
    <3> SUFFICES ASSUME NEW q \in Channel, Gap(S \cup {a}, q) PROVE FALSE
      OBVIOUS
    <3>1. PICK x \in S \cup {a} : x < q
      BY DEF Gap
    <3>2. PICK y \in S \cup {a} : y > q
      BY DEF Gap
    <3>3. x \in Nat /\ y \in Nat /\ q \in Nat /\ a \in Nat /\ y <= a
      <4>1. x \in Channel /\ y \in Channel
        BY <2>1, <2>2
      <4>2. x \in Nat /\ y \in Nat /\ q \in Nat /\ a \in Nat
        BY <1>1, <2>1, <4>1
      <4> HIDE DEF a
      <4> QED BY <2>2, <4>2
    <3>4. x \in S /\ q < a
      BY <3>1, <3>2, <3>3
    <3> QED BY <2>2, <3>1, <3>4 DEF Gap
  <2> QED BY <1>6, <2>2, <2>3 DEF Served, Convex, Around
<1>7. CASE r.kind = "after"
  <2> DEFINE a == r.anchor
  <2>1. S = Oldest({q \in Channel : q > a}) /\ a \in Channel
    BY <1>7 DEF Pages, Typed
  <2>2. /\ S \subseteq Channel /\ \A p \in S : p > a
        /\ \A p \in S, q \in Channel : a < q /\ q < p => q \in S
    BY <2>1, BeforeAndAfter
  <2>3. \A q \in Channel : ~ Gap(S \cup {a}, q)
    <3> SUFFICES ASSUME NEW q \in Channel, Gap(S \cup {a}, q) PROVE FALSE
      OBVIOUS
    <3>1. PICK x \in S \cup {a} : x < q
      BY DEF Gap
    <3>2. PICK y \in S \cup {a} : y > q
      BY DEF Gap
    <3>3. x \in Nat /\ y \in Nat /\ q \in Nat /\ a \in Nat /\ x >= a
      <4>1. x \in Channel /\ y \in Channel
        BY <2>1, <2>2
      <4>2. x \in Nat /\ y \in Nat /\ q \in Nat /\ a \in Nat
        BY <1>1, <2>1, <4>1
      <4> HIDE DEF a
      <4> QED BY <2>2, <4>2
    <3>4. y \in S /\ a < q /\ q < y
      BY <3>1, <3>2, <3>3
    <3> QED BY <2>2, <3>4 DEF Gap
  <2> QED BY <1>7, <2>2, <2>3 DEF Served, Convex, Around
<1>8. CASE r.kind = "since"
  <2>1. S \subseteq ChangedSince(r.anchor)
    BY <1>8 DEF Pages
  <2>2. \A p \in Channel : updateAt[p] \in Nat /\ updateAt[p] >= p
    BY DEF Types
  <2>3. r.anchor \in Nat
    BY <1>8 DEF Typed
  <2>4. \A q \in Channel : q > r.anchor => q \in ChangedSince(r.anchor)
    BY <1>1, <2>2, <2>3 DEF ChangedSince
  <2>5. S \subseteq Channel
    BY <2>1 DEF ChangedSince
  <2> QED BY <1>8, <2>4, <2>5 DEF Served, Around
<1> QED BY <1>2, <1>3, <1>4, <1>5, <1>6, <1>7, <1>8

\* What a request is when it was answered.
LEMMA AnsweredParts ==
    \A r, y : Shaped(r) =>
       LET t == [r EXCEPT !.reply = y] IN
       /\ Shaped(t) /\ t.kind = r.kind /\ t.anchor = r.anchor /\ t.time = r.time /\ t.reply = y
BY DEF Shaped

\* An answer is what the server has.
LEMMA AnswerServed ==
    ASSUME Types, NEW r, Typed(r, Channel, clock), NEW S \in Pages(r), NEW y \in Replies(S)
    PROVE  LET t == [r EXCEPT !.reply = y] IN
           /\ Typed(t, Channel, clock)
           /\ "cursor" \notin scenario.may => Replied(t, Channel)
           /\ r.kind = "since" /\ S = ChangedSince(r.anchor) => Complete(t, Channel)
           /\ t.kind = r.kind /\ t.anchor = r.anchor /\ t.time = r.time
<1> DEFINE t == [r EXCEPT !.reply = y]
           order == NewestFirst(S)
<1>1. Shaped(r)
  BY DEF Typed
<1>2. /\ Shaped(t) /\ t.kind = r.kind /\ t.anchor = r.anchor /\ t.time = r.time
      /\ t.reply = y
  BY <1>1, AnsweredParts
<1>3. Served(r.kind, r.anchor, S)
  BY PagesServed
<1>4. S \in SUBSET Nat /\ IsFiniteSet(S) /\ S \subseteq Channel
  BY <1>3, FinitelyMany DEF Served
<1>5. order \in Seq(S) /\ ToSet(order) = S /\ Twice(order) = {} /\ Descending(order)
  BY <1>4, Listing
<1>6. order \in Seq(Channel)
  BY <1>4, <1>5, Wider
<1>7. /\ y.order = order /\ y.oldest \in BOOLEAN /\ y.recent \in BOOLEAN
      /\ "cursor" \notin scenario.may => y.recent = Tops(S, Channel)
  <2> DEFINE top == \A p \in S, q \in Channel : q \in S \/ q < p
             bottom == \A p \in S, q \in Channel : q \in S \/ q > p
  <2>1. PICK noNext \in Misread, noPrev \in Misread :
           y = [order |-> order, recent |-> noNext \/ top, oldest |-> noPrev \/ bottom]
    BY DEF Replies
  <2>2. top = Tops(S, Channel)
    BY DEF Tops
  <2>3. /\ noNext \in BOOLEAN /\ noPrev \in BOOLEAN
        /\ "cursor" \notin scenario.may => noNext = FALSE
    BY DEF Misread
  <2>4. top \in BOOLEAN /\ bottom \in BOOLEAN
    OBVIOUS
  <2> HIDE DEF top, bottom, order
  <2> QED BY <2>1, <2>2, <2>3, <2>4
<1> HIDE DEF t, order
<1>8. Answered(t, Channel)
  BY <1>2, <1>3, <1>5, <1>6, <1>7 DEF Answered, Served
<1>9. Typed(t, Channel, clock)
  BY <1>2, <1>8 DEF Typed
<1>10. ASSUME "cursor" \notin scenario.may PROVE Replied(t, Channel)
  <2>1. S = {} => Tops(S, Channel)
    BY DEF Tops
  <2> QED BY <1>2, <1>3, <1>5, <1>7, <1>10, <2>1 DEF Replied, Served
<1>11. ASSUME r.kind = "since", S = ChangedSince(r.anchor) PROVE Complete(t, Channel)
  <2>1. \A q \in Channel : q > r.anchor => q \in S
    BY <1>3, <1>11 DEF Served
  <2>2. t.anchor = r.anchor /\ ToSet(t.reply.order) = S
    BY <1>2, <1>5, <1>7
  <2> QED BY <2>1, <2>2 DEF Complete
<1> QED BY <1>2, <1>9, <1>10, <1>11 DEF t

\* The reply is computed from the posts of this moment: all that exist are listed in it or
\* outside its range.
LEMMA InvAnswer ==
    ASSUME Inv, NEW r \in requests, Answer(r)
    PROVE  Inv'
<1> USE DEF server, socket, posts, screen, history
<1>1. /\ UNCHANGED <<clock, updateAt, connected, events, lastDisconnectAt, entry, lastGetPosts,
                     held, lost, unstamped, detached, scenario>>
      /\ connected \/ OfflineLoads
      /\ Overtaking \/ events = <<>>
  BY DEF Answer
<1>2. PICK S \in Pages(r) :
         /\ \E y \in Replies(S) : requests' = (requests \ {r}) \cup {[r EXCEPT !.reply = y]}
         /\ truncated' = (truncated \/ (r.kind = "since" /\ S # ChangedSince(r.anchor)))
  BY DEF Answer
<1>2a. PICK y \in Replies(S) : requests' = (requests \ {r}) \cup {[r EXCEPT !.reply = y]}
  BY <1>2
<1> DEFINE t == [r EXCEPT !.reply = y]
<1>3. Types /\ Typed(r, Channel, clock)
  BY DEF Inv, Types
<1>4. /\ Typed(t, Channel, clock) /\ ("cursor" \notin scenario.may => Replied(t, Channel))
      /\ r.kind = "since" /\ S = ChangedSince(r.anchor) => Complete(t, Channel)
      /\ t.kind = r.kind /\ t.anchor = r.anchor /\ t.time = r.time
  BY <1>3, AnswerServed
<1>5. Channel' = Channel /\ BlockList' = BlockList
  BY <1>1, SameBlocks
<1>6. \A s \in requests' : s \in requests \/ s = t
  BY <1>2a
<1> HIDE DEF t
<1>7. Types'
  <2>1. \A s \in requests' : Typed(s, Channel', clock')
    BY <1>1, <1>4, <1>5, <1>6 DEF Inv, Types
  <2>2. truncated' \in BOOLEAN
    BY <1>2, <1>3 DEF Types
  <2> QED BY <1>1, <1>5, <2>1, <2>2 DEF Inv, Types
<1>8. /\ Undisturbed' <=> Undisturbed
      /\ Stamped' => Stamped /\ (r.kind = "since" => S = ChangedSince(r.anchor))
  BY <1>1, <1>2, <1>3 DEF Undisturbed, Stamped, Overtaken, Overtaking, OfflineLoads, Types
<1>9. ASSUME Undisturbed
      PROVE  Shape' /\ Upcoming' /\ Quiet' /\ Faithful'
  <2>1. Shape /\ Upcoming /\ Quiet /\ Faithful
    BY <1>9 DEF Inv
  <2>2. Shape'
    BY <1>1, <1>5, <2>1 DEF Shape, Known
  <2>3. Upcoming'
    BY <1>1, <1>5, <2>1 DEF Upcoming, Known
  <2>4. Quiet'
    BY <1>1, <2>1 DEF Quiet, Overtaking, MaxClock
  <2>5. Faithful'
    <3>3. \A s \in requests' : s.reply # NoReply => Replied(s, Channel)
      BY <1>4, <1>6, <1>9, <2>1 DEF Faithful, Undisturbed
    <3>4. \A s \in requests' : s.kind \in {"before", "after"} => Listed(BlockList, s.anchor)
      BY <1>4, <1>6, <2>1 DEF Faithful
    <3> QED BY <1>5, <3>3, <3>4 DEF Faithful
  <2> QED BY <2>2, <2>3, <2>4, <2>5
<1>10. ASSUME Stamped'
       PROVE  Repairable'
  <2>1. Repairable
    BY <1>8, <1>10 DEF Inv
  <2>2. connected
    BY <1>1, <1>8, <1>10 DEF Stamped
  <2>3. \A s \in requests' : \E x \in requests : s.kind = x.kind /\ s.anchor = x.anchor
    BY <1>4, <1>6
  <2>4. \A s \in requests' : s.kind = "since" /\ s.reply # NoReply => Complete(s, Channel)
    BY <1>4, <1>6, <1>8, <1>10, <2>1 DEF Repairable
  <2> QED BY <1>1, <1>5, <2>1, <2>2, <2>3, <2>4 DEF Repairable
<1> QED BY <1>7, <1>8, <1>9, <1>10 DEF Inv

-----------------------------------------------------------------------------
(* A new post is received.                                                 *)

\* A post in front of a list.
LEMMA InFront ==
    ASSUME NEW A \in SUBSET Nat, NEW s \in Seq(A), Descending(s), NEW p \in A,
           \A q \in ToSet(s) : q < p
    PROVE  LET t == <<p>> \o s IN
           /\ t \in Seq(A) /\ t # <<>> /\ ToSet(t) = ToSet(s) \cup {p} /\ Descending(t)
<1> DEFINE t == <<p>> \o s
<1>1. <<p>> \in Seq(A) /\ ToSet(<<p>>) = {p}
  BY One
<1>2. t \in Seq(A) /\ ToSet(t) = {p} \cup ToSet(s)
  BY <1>1, Concatenated
<1>3. Len(s) \in Nat /\ DOMAIN s = 1..Len(s) /\ DOMAIN t = 1..(Len(s) + 1) /\ t # <<>>
  BY <1>1
<1>4. t[1] = p /\ \A i \in DOMAIN t : i # 1 => i - 1 \in DOMAIN s /\ t[i] = s[i - 1]
  BY <1>1
<1>5. \A i \in DOMAIN s : s[i] \in ToSet(s) /\ s[i] \in Nat
  BY Within DEF ToSet
<1> HIDE DEF t
<1>6. ASSUME NEW i \in DOMAIN t, NEW j \in DOMAIN t, i < j
      PROVE  t[i] > t[j]
  <2>1. j # 1 /\ j - 1 \in DOMAIN s /\ t[j] = s[j - 1]
    BY <1>3, <1>4, <1>6
  <2>2. CASE i = 1
    BY <1>4, <1>5, <2>1, <2>2
  <2>3. CASE i # 1
    <3>1. i - 1 \in DOMAIN s /\ t[i] = s[i - 1] /\ i - 1 < j - 1
      BY <1>3, <1>4, <1>6, <2>3
    <3> QED BY <2>1, <3>1 DEF Descending
  <2> QED BY <2>2, <2>3
<1>7. Descending(t)
  BY <1>6 DEF Descending
<1> QED BY <1>2, <1>3, <1>7 DEF t

\* A post that is newer than all that are loaded leaves the blocks in order.
LEMMA EventTidy ==
    ASSUME NoPost \notin Nat,
           NEW A \in SUBSET Nat, NEW c \in Seq(BlockIn(A)), c # Unloaded, Tidy(c), NEW p \in A,
           \A i \in DOMAIN c : \A q \in ToSet(c[i].order) : q < p
    PROVE  LET next == P!ReceivedNewPost(c, p, NoPost) IN
           /\ next \in Seq(BlockIn(A)) /\ Tidy(next) /\ Carried(c, next)
           /\ \A k \in DOMAIN next : \A x \in ToSet(next[k].order) :
                 x = p \/ \E i \in DOMAIN c : x \in ToSet(c[i].order)
           /\ \A k \in DOMAIN next :
                 \/ k \in DOMAIN c /\ next[k] = c[k] /\ ~ next[k].recent
                 \/ /\ next[k].recent
                    /\ P!RecentIndex(c) = 0 /\ ToSet(next[k].order) = {p}
                 \/ /\ k \in DOMAIN c /\ k = P!RecentIndex(c)
                    /\ c[k].recent /\ next[k].recent
                    /\ ToSet(next[k].order) = ToSet(c[k].order) \cup {p}
<1> DEFINE r == P!RecentIndex(c)
           next == P!ReceivedNewPost(c, p, NoPost)
<1>1. /\ next \in Seq(BlockIn(A))
      /\ r = 0 => /\ DOMAIN next = 1..(Len(c) + 1)
                  /\ \A i \in 1..Len(c) : next[i] = c[i]
                  /\ next[Len(c) + 1].order = <<p>> /\ next[Len(c) + 1].recent
      /\ r # 0 => \/ p \in ToSet(c[r].order) /\ next = c
                  \/ p \notin ToSet(c[r].order) /\ Redone(c, next, r, <<p>> \o c[r].order)
  BY EventReceived
<1>2. (r # 0 => r \in DOMAIN c /\ c[r].recent) /\ (r = 0 => \A i \in DOMAIN c : ~ c[i].recent)
  BY RecentOne
<1> HIDE DEF r, next
<1>3. /\ Ordered(c) /\ Len(c) \in Nat /\ DOMAIN c = 1..Len(c)
      /\ \A i \in DOMAIN c : \A q \in ToSet(c[i].order) : q \in Nat
  <2>1. \A i \in DOMAIN c : ToSet(c[i].order) \subseteq A
    BY PostsOf
  <2>2. \A i \in DOMAIN c : \A q \in ToSet(c[i].order) : q \in Nat
    BY <2>1
  <2>3. Len(c) \in Nat /\ DOMAIN c = 1..Len(c)
    OBVIOUS
  <2> QED BY <2>2, <2>3 DEF Tidy
<1>4. CASE r = 0
  <2>1. /\ DOMAIN next = 1..(Len(c) + 1) /\ \A i \in 1..Len(c) : next[i] = c[i]
        /\ next[Len(c) + 1].order = <<p>> /\ next[Len(c) + 1].recent
    BY <1>1, <1>4
  <2>2. \A i \in DOMAIN c : ~ c[i].recent /\ \A q \in ToSet(c[i].order) : p > q
    BY <1>2, <1>3, <1>4
  <2>3. Tidy(next)
    BY <2>1, <2>2, StartedTidy
  <2>4. ToSet(<<p>>) = {p}
    BY One
  <2>5. \A k \in DOMAIN next : k \in DOMAIN c \/ k = Len(c) + 1
    BY <1>3, <2>1
  <2>6. \A k \in DOMAIN c : k \in DOMAIN next /\ next[k] = c[k]
    BY <1>3, <2>1
  <2>7. Carried(c, next)
    BY <2>6 DEF Carried
  <2> QED BY <1>1, <1>4, <2>1, <2>2, <2>3, <2>4, <2>5, <2>6, <2>7 DEF r, next
<1>5. CASE r # 0
  <2> DEFINE s == <<p>> \o c[r].order
  <2>1. p \notin ToSet(c[r].order)
    <3>1. \A q \in ToSet(c[r].order) : q < p
      BY <1>2, <1>5
    <3>2. ~ (p < p)
      OBVIOUS
    <3> QED BY <3>1, <3>2
  <2>2. Redone(c, next, r, s)
    BY <1>1, <1>5, <2>1
  <2>3. c[r].order \in Seq(A) /\ Descending(c[r].order)
    BY <1>2, <1>3, <1>5, PostsOf DEF Ordered
  <2>4. s \in Seq(A) /\ s # <<>> /\ ToSet(s) = ToSet(c[r].order) \cup {p} /\ Descending(s)
    BY <1>2, <1>5, <2>3, InFront
  <2> HIDE DEF s
  <2>5. \A x \in ToSet(s), j \in DOMAIN c : x \in ToSet(c[r].order) \/ j = r
              \/ \A q \in ToSet(c[j].order) : x > q
    BY <1>3, <2>4
  <2>6. Tidy(next)
    BY <1>2, <1>5, <2>2, <2>4, <2>5, RedoneTidy
  <2>7. /\ DOMAIN next = DOMAIN c /\ r \in DOMAIN c /\ next[r].order = s /\ next[r].recent = c[r].recent
        /\ \A i \in DOMAIN c : i # r => next[i] = c[i]
    BY <2>2 DEF Redone
  <2>8. Carried(c, next)
    BY <2>4, <2>7 DEF Carried
  <2>9. \A k \in DOMAIN c : k # r => ~ c[k].recent
    BY <1>2, <1>3, <1>5 DEF Ordered
  <2> QED BY <1>1, <1>2, <1>5, <2>4, <2>6, <2>7, <2>8, <2>9 DEF r, next
<1> QED BY <1>4, <1>5

\* What is missing then was missing before, but for the post itself.
LEMMA EventSettled ==
    ASSUME NoPost \notin Nat,
           NEW A \in SUBSET Nat, NEW c \in Seq(BlockIn(A)), c # Unloaded, Tidy(c), NEW p \in A,
           \A i \in DOMAIN c : \A q \in ToSet(c[i].order) : q < p,
           NEW K, Settled(c, A, K), \A q \in A : q > p => q \in K
    PROVE  Settled(P!ReceivedNewPost(c, p, NoPost), A, K \ {p})
<1> DEFINE next == P!ReceivedNewPost(c, p, NoPost)
<1>1. \A k \in DOMAIN next :
         \/ k \in DOMAIN c /\ next[k] = c[k] /\ ~ next[k].recent
         \/ next[k].recent /\ P!RecentIndex(c) = 0 /\ ToSet(next[k].order) = {p}
         \/ /\ k \in DOMAIN c /\ k = P!RecentIndex(c) /\ c[k].recent /\ next[k].recent
            /\ ToSet(next[k].order) = ToSet(c[k].order) \cup {p}
  BY EventTidy, ZenonT(40)
<1>2. next \in Seq(BlockIn(A))
  BY EventTidy
<1>3. \A i \in DOMAIN c : \A q \in ToSet(c[i].order) : q \in Nat /\ q < p
  <2>1. \A i \in DOMAIN c : ToSet(c[i].order) \subseteq A
    BY PostsOf
  <2> QED BY <2>1
<1> HIDE DEF next
<1>4. ASSUME NEW k \in DOMAIN next, NEW q \in A, Gap(ToSet(next[k].order), q)
      PROVE  q \in K \ {p}
  <2>1. CASE k \in DOMAIN c /\ next[k] = c[k]
    <3>1. q \in K
      BY <1>4, <2>1 DEF Settled
    <3>2. q # p
      BY <1>3, <1>4, <2>1 DEF Gap
    <3> QED BY <3>1, <3>2
  <2>2. CASE ToSet(next[k].order) = {p}
    BY <1>4, <2>2 DEF Gap
  <2>3. CASE k \in DOMAIN c /\ c[k].recent /\ ToSet(next[k].order) = ToSet(c[k].order) \cup {p}
    <3> DEFINE S == ToSet(c[k].order)
    <3>1. q \notin S /\ q # p
      BY <1>4, <2>3 DEF Gap
    <3>2. PICK x \in S \cup {p} : x < q
      BY <1>4, <2>3 DEF Gap
    <3>3. PICK y \in S \cup {p} : y > q
      BY <1>4, <2>3 DEF Gap
    <3>4. x \in S /\ \A z \in S : z \in Nat /\ z < p
      BY <1>3, <2>3, <3>2, <3>3
    <3>6. CASE \A z \in S : ~ (z > q)
      <4>1. \A z \in S : z < q
        BY <3>1, <3>4, <3>6
      <4>2. c[k].order # <<>>
        BY <2>3, <3>4, PostsOf
      <4> QED BY <2>3, <3>1, <4>1, <4>2 DEF Settled
    <3>7. CASE \E z \in S : z > q
      BY <2>3, <3>1, <3>2, <3>4, <3>7 DEF Settled, Gap
    <3> QED BY <3>6, <3>7
  <2> QED BY <1>1, <2>1, <2>2, <2>3
<1>5. ASSUME NEW k \in DOMAIN next, NEW q \in A, next[k].recent, next[k].order # <<>>,
             \A x \in ToSet(next[k].order) : x < q
      PROVE  q \in K \ {p}
  <2>1. p \in ToSet(next[k].order)
    BY <1>1, <1>5
  <2>2. p < q
    BY <1>5, <2>1
  <2>3. q \in K /\ q # p
    BY <2>2
  <2> QED BY <2>3
<1>6. Settled(next, A, K \ {p})
  BY <1>4, <1>5 DEF Settled
<1> QED BY <1>6 DEF next

\* And the recent block lacks no more than it did.
LEMMA EventLacks ==
    ASSUME NoPost \notin Nat,
           NEW A \in SUBSET Nat, NEW c \in Seq(BlockIn(A)), c # Unloaded, Tidy(c), NEW p \in A,
           \A i \in DOMAIN c : \A q \in ToSet(c[i].order) : q < p,
           P!RecentIndex(c) # 0, Whole(c, A)
    PROVE  LET next == P!ReceivedNewPost(c, p, NoPost) IN
           /\ Whole(next, A)
           /\ \A k \in DOMAIN next : next[k].recent =>
                 /\ k \in DOMAIN c /\ c[k].recent
                 /\ \A q \in A : Lacks(next[k], q) =>
                       /\ Lacks(c[k], q)
                       /\ q # p
                       /\ q > p /\ Beyond(c[k], q) => Beyond(next[k], q)
<1> DEFINE next == P!ReceivedNewPost(c, p, NoPost)
           r == P!RecentIndex(c)
<1>1. r \in DOMAIN c /\ c[r].recent
  BY RecentOne
<1>2. next \in Seq(BlockIn(A)) /\ Redone(c, next, r, <<p>> \o c[r].order)
  <2>1. p \notin ToSet(c[r].order)
    <3>1. \A q \in ToSet(c[r].order) : q < p
      BY <1>1
    <3>2. ~ (p < p)
      OBVIOUS
    <3> QED BY <3>1, <3>2
  <2> QED BY <2>1, EventReceived
<1>3. /\ c[r].order \in Seq(A) /\ ToSet(c[r].order) \subseteq A
      /\ (c[r].order = <<>> <=> ToSet(c[r].order) = {}) /\ Descending(c[r].order)
  BY <1>1, PostsOf DEF Tidy, Ordered
<1>4. LET t == <<p>> \o c[r].order IN t # <<>> /\ ToSet(t) = ToSet(c[r].order) \cup {p}
  <2>1. \A q \in ToSet(c[r].order) : q < p
    BY <1>1
  <2> QED BY <1>3, <2>1, InFront
<1> HIDE DEF next, r
<1>5. /\ DOMAIN next = DOMAIN c /\ next[r].recent = c[r].recent
      /\ next[r].order # <<>> /\ ToSet(next[r].order) = ToSet(c[r].order) \cup {p}
      /\ \A i \in DOMAIN c : i # r => next[i] = c[i]
  BY <1>2, <1>4 DEF Redone
<1>6. \A i \in DOMAIN c : i # r => ~ c[i].recent
  BY <1>1 DEF Tidy, Ordered
<1>7. Whole(next, A)
  BY <1>1, <1>5, <1>6 DEF Whole
<1>8. ASSUME NEW q \in A, Lacks(next[r], q)
      PROVE  /\ Lacks(c[r], q)
             /\ q # p
             /\ q > p /\ Beyond(c[r], q) => Beyond(next[r], q)
  <2>1. q \notin ToSet(c[r].order) /\ q # p
    BY <1>5, <1>8 DEF Lacks
  <2>2. PICK x \in ToSet(c[r].order) \cup {p} : x < q
    BY <1>5, <1>8 DEF Lacks
  <2>3. \A y \in ToSet(c[r].order) : y \in Nat /\ y < p
    BY <1>1, <1>3
  <2>4. CASE x \in ToSet(c[r].order)
    BY <2>1, <2>2, <2>4, <1>5 DEF Lacks, Beyond
  <2>5. CASE x = p
    <3>1. \A y \in ToSet(c[r].order) : y < q
      BY <2>2, <2>3, <2>5
    <3> QED BY <1>3, <1>5, <2>1, <3>1 DEF Lacks, Beyond
  <2> QED BY <2>2, <2>4, <2>5
<1> QED BY <1>1, <1>5, <1>6, <1>7, <1>8 DEF next

\* What a new post does to what is typed.
LEMMA NewPostTyped ==
    ASSUME Types, NEW p \in Channel, ApplyNewPost(p), updateAt' = updateAt
    PROVE  /\ Channel' = Channel
           /\ entry' = Unloaded \/ entry' \in Seq(BlockIn(Channel))
           /\ lost' \subseteq Channel
           /\ unstamped' \in BOOLEAN /\ detached' \in BOOLEAN /\ truncated' \in BOOLEAN
<1>1. /\ entry' = P!ReceivedNewPost(entry, p, NoPost)
      /\ lost' = IF entry = Unloaded THEN lost \cup {p} ELSE lost
      /\ unstamped' = (unstamped \/ (entry # Unloaded /\ RecentBlocks = {}))
      /\ detached' = detached /\ truncated' = truncated
  BY DEF ApplyNewPost
<1>2. entry = Unloaded => entry' = Unloaded
  BY <1>1 DEF P!ReceivedNewPost
<1>3. ASSUME entry # Unloaded PROVE entry' \in Seq(BlockIn(Channel))
  <2>1. entry \in Seq(BlockIn(Channel)) /\ Channel \in SUBSET Nat
    BY <1>3, BlocksTyped
  <2> QED BY <1>1, <1>3, <2>1, Assumptions, EventReceived
<1>4. unstamped' \in BOOLEAN
  BY <1>1
<1>5. detached' \in BOOLEAN /\ truncated' \in BOOLEAN /\ lost' \subseteq Channel
  BY <1>1 DEF Types
<1> QED BY <1>2, <1>3, <1>4, <1>5 DEF Channel

\* The front of a list, and the rest.
LEMMA Rest ==
    ASSUME NEW T, NEW s \in Seq(T), s # <<>>
    PROVE  /\ Head(s) \in T /\ Tail(s) \in Seq(T) /\ Head(s) \in ToSet(s)
           /\ Head(s) = s[1] /\ 1 \in DOMAIN s /\ Len(Tail(s)) = Len(s) - 1
           /\ \A i \in DOMAIN Tail(s) : i + 1 \in DOMAIN s /\ Tail(s)[i] = s[i + 1] /\ i + 1 > 1
                 /\ i \in Nat
           /\ ToSet(s) = {Head(s)} \cup ToSet(Tail(s))
<1>1. /\ Head(s) \in T /\ Tail(s) \in Seq(T) /\ Head(s) = s[1] /\ 1 \in DOMAIN s
      /\ Len(Tail(s)) = Len(s) - 1 /\ Len(s) \in Nat /\ DOMAIN s = 1..Len(s)
      /\ DOMAIN Tail(s) = 1..(Len(s) - 1)
  OBVIOUS
<1>2. \A i \in 1..(Len(s) - 1) : Tail(s)[i] = s[i + 1]
  OBVIOUS
<1>3. \A i \in DOMAIN Tail(s) : i + 1 \in DOMAIN s /\ Tail(s)[i] = s[i + 1] /\ i + 1 > 1 /\ i \in Nat
  BY <1>1, <1>2
<1>4. Head(s) \in ToSet(s)
  BY <1>1, Elements
<1>5. ASSUME NEW x \in ToSet(Tail(s)) PROVE x \in ToSet(s)
  <2>1. PICK i \in DOMAIN Tail(s) : Tail(s)[i] = x
    BY Elements
  <2>2. i + 1 \in DOMAIN s /\ s[i + 1] = x
    BY <1>3, <2>1
  <2> QED BY <2>2, Elements
<1>6. ASSUME NEW x \in ToSet(s), x # Head(s) PROVE x \in ToSet(Tail(s))
  <2>1. PICK i \in DOMAIN s : s[i] = x
    BY Elements
  <2>2. i \in 2..Len(s)
    BY <1>1, <1>6, <2>1
  <2>3. i - 1 \in DOMAIN Tail(s) /\ Tail(s)[i - 1] = x
    <3>1. i - 1 \in 1..(Len(s) - 1) /\ (i - 1) + 1 = i
      BY <1>1, <2>2
    <3> QED BY <1>1, <1>2, <2>1, <3>1
  <2> QED BY <2>3, Elements
<1> QED BY <1>1, <1>3, <1>4, <1>5, <1>6

\* An event adds its post on top of the recent block, or holds it while no block is recent.
LEMMA InvReceiveEvent ==
    ASSUME Inv, ReceiveEvent
    PROVE  Inv'
<1> USE DEF server, screen
<1> DEFINE p == Head(events)
<1>1. /\ events # <<>> /\ events' = Tail(events) /\ ApplyNewPost(p)
      /\ UNCHANGED <<clock, updateAt, connected, lastDisconnectAt, lastGetPosts, held, requests,
                     scenario>>
  BY DEF ReceiveEvent
<1>2. Types /\ events \in Seq(Channel)
  BY DEF Inv, Types
<1>3. /\ p \in Channel /\ Tail(events) \in Seq(Channel) /\ p \in ToSet(events)
      /\ p = events[1] /\ 1 \in DOMAIN events /\ Len(Tail(events)) = Len(events) - 1
      /\ \A i \in DOMAIN Tail(events) : i + 1 \in DOMAIN events /\ Tail(events)[i] = events[i + 1]
            /\ i + 1 > 1 /\ i \in Nat
      /\ ToSet(events) = {p} \cup ToSet(Tail(events))
  BY <1>1, <1>2, Rest
<1>4. /\ entry' = P!ReceivedNewPost(entry, p, NoPost)
      /\ lost' = IF entry = Unloaded THEN lost \cup {p} ELSE lost
      /\ unstamped' = (unstamped \/ (entry # Unloaded /\ RecentBlocks = {}))
      /\ detached' = detached /\ truncated' = truncated
  BY <1>1 DEF ApplyNewPost
<1> HIDE DEF p
<1>5. /\ Channel' = Channel
      /\ entry' = Unloaded \/ entry' \in Seq(BlockIn(Channel))
      /\ lost' \subseteq Channel
      /\ unstamped' \in BOOLEAN /\ detached' \in BOOLEAN /\ truncated' \in BOOLEAN
  BY <1>1, <1>2, <1>3, NewPostTyped
<1>6. Types'
  <2>1. \A r \in requests' : Typed(r, Channel', clock')
    BY <1>1, <1>2, <1>5 DEF Types
  <2> QED BY <1>1, <1>2, <1>3, <1>5, <2>1 DEF Types
<1>7. (Undisturbed' <=> Undisturbed) /\ (Stamped' => Stamped /\ ~ unstamped')
  BY <1>1, <1>2, <1>4 DEF Undisturbed, Stamped, Overtaken, Overtaking, OfflineLoads, Types
<1>8. /\ BlockList \in Seq(BlockIn(Channel)) /\ Channel \in SUBSET Nat
      /\ entry # Unloaded => BlockList = entry
      /\ entry = Unloaded => BlockList = <<>>
  BY <1>2, BlocksTyped
<1>9. entry = Unloaded => entry' = entry /\ BlockList' = <<>>
  BY <1>4 DEF P!ReceivedNewPost, BlockList, P!BlocksOf
<1>10. entry # Unloaded => /\ BlockList' = P!ReceivedNewPost(BlockList, p, NoPost)
                           /\ BlockList # Unloaded
  <2>1. ASSUME entry # Unloaded PROVE entry' # Unloaded
    <3>1. entry' \in Seq(BlockIn(Channel))
      BY <1>3, <1>4, <1>8, <2>1, Assumptions, EventReceived
    <3> QED BY <1>8, <3>1, Assumptions, Loading
  <2> QED BY <1>4, <1>8, <2>1 DEF BlockList, P!BlocksOf
<1>11. Known \ {p} \subseteq Known' /\ (entry = Unloaded => Known \subseteq Known')
  BY <1>1, <1>3, <1>4 DEF Known
<1>12. ASSUME Undisturbed
       PROVE  /\ Shape /\ Upcoming /\ Quiet /\ Faithful
              /\ \A i \in DOMAIN BlockList : \A q \in ToSet(BlockList[i].order) : q < p
              /\ \A q \in Channel : q > p => q \in Known
              /\ \A q \in ToSet(Tail(events)) : q > p
  <2>1. Shape /\ Upcoming /\ Quiet /\ Faithful
    BY <1>12 DEF Inv
  <2>2. ASSUME NEW i \in DOMAIN BlockList, NEW q \in ToSet(BlockList[i].order)
        PROVE  q < p
    <3>1. q \in Channel
      BY <1>8, PostsOf
    <3> QED BY <1>3, <2>1, <3>1 DEF Upcoming, Listed
  <2>3. ASSUME NEW q \in ToSet(Tail(events))
        PROVE  q > p
    <3>1. PICK i \in DOMAIN Tail(events) : Tail(events)[i] = q
      BY Elements
    <3>2. i + 1 \in DOMAIN events /\ q = events[i + 1] /\ 1 < i + 1
      BY <1>3, <3>1
    <3>3. p < q
      BY <1>3, <2>1, <3>2 DEF Upcoming
    <3>4. p \in Nat /\ q \in Nat
      BY <1>3, <1>8, Within
    <3> QED BY <3>3, <3>4
  <2> QED BY <1>1, <2>1, <2>2, <2>3 DEF Upcoming, p
<1>13. ASSUME Undisturbed
       PROVE  Shape' /\ (\A x : Listed(BlockList, x) => Listed(BlockList, x)')
              /\ (\A x : Listed(BlockList, x)' => x = p \/ Listed(BlockList, x))
  <2>1. CASE entry = Unloaded
    <3>1. Shape'
      BY <1>5, <1>8, <1>9, <2>1 DEF Shape, Tidy, Ordered, Apart, EmptyAlone, Settled
    <3> QED BY <1>8, <1>9, <2>1, <3>1 DEF Listed
  <2>2. CASE entry # Unloaded
    <3> DEFINE next == P!ReceivedNewPost(BlockList, p, NoPost)
    <3>1. Tidy(BlockList) /\ Settled(BlockList, Channel, Known)
      BY <1>12, <1>13 DEF Shape
    <3>2. /\ Tidy(next) /\ Carried(BlockList, next)
          /\ \A k \in DOMAIN next : \A x \in ToSet(next[k].order) :
                x = p \/ \E i \in DOMAIN BlockList : x \in ToSet(BlockList[i].order)
      <4>1. /\ NoPost \notin Nat /\ p \in Channel /\ BlockList # Unloaded
            /\ \A i \in DOMAIN BlockList : \A q \in ToSet(BlockList[i].order) : q < p
        BY <1>3, <1>10, <1>12, <1>13, <2>2, Assumptions
      <4>2. BlockList \in Seq(BlockIn(Channel)) /\ Channel \in SUBSET Nat /\ Tidy(BlockList)
        BY <1>8, <3>1
      <4>3. Tidy(next) /\ Carried(BlockList, next)
        BY <4>1, <4>2, EventTidy
      <4>4. \A k \in DOMAIN next : \A x \in ToSet(next[k].order) :
               x = p \/ \E i \in DOMAIN BlockList : x \in ToSet(BlockList[i].order)
        BY <4>1, <4>2, EventTidy
      <4> QED BY <4>3, <4>4
    <3>3. Settled(next, Channel, Known \ {p})
      BY <1>3, <1>8, <1>10, <1>12, <1>13, <2>2, <3>1, Assumptions, EventSettled
    <3> HIDE DEF next
    <3>4. BlockList' = next
      BY <1>10, <2>2 DEF next
    <3>5. Settled(next, Channel, Known')
      BY <1>11, <3>3 DEF Settled
    <3> QED BY <1>5, <3>2, <3>4, <3>5 DEF Shape, Carried, Listed
  <2> QED BY <2>1, <2>2
<1>14. ASSUME Undisturbed
       PROVE  Upcoming' /\ Quiet' /\ Faithful'
  <2>1. Upcoming'
    <3>1. ASSUME NEW i \in DOMAIN Tail(events), NEW j \in DOMAIN Tail(events), i < j
          PROVE  Tail(events)[i] < Tail(events)[j]
      <4>1. i + 1 < j + 1
        BY <1>3, <3>1
      <4> QED BY <1>3, <1>12, <1>14, <3>1, <4>1 DEF Upcoming
    <3>2. ASSUME NEW x \in ToSet(Tail(events)), NEW q \in Channel, Listed(BlockList, q)'
          PROVE  q < x
      <4>1. CASE q = p
        <5>1. x \in Nat /\ p \in Nat
          BY <1>3, <1>8, Within
        <5> QED BY <1>12, <1>14, <4>1, <5>1
      <4>2. CASE Listed(BlockList, q)
        BY <1>3, <1>12, <1>14, <4>2 DEF Upcoming
      <4> QED BY <1>13, <1>14, <3>2, <4>1, <4>2
    <3>3. ASSUME Tail(events) # <<>>, NEW q \in Channel, q > Head(Tail(events))
          PROVE  q \in Known'
      <4>1. Head(Tail(events)) \in ToSet(Tail(events)) /\ Head(Tail(events)) \in Channel
        BY <1>3, <3>3, Rest
      <4>2. Head(Tail(events)) \in Nat /\ q \in Nat /\ p \in Nat
        BY <1>3, <1>8, <4>1
      <4>3. q > p
        BY <1>12, <1>14, <3>3, <4>1, <4>2
      <4> QED BY <1>11, <1>12, <1>14, <4>2, <4>3
    <3> QED BY <1>1, <1>5, <3>1, <3>2, <3>3 DEF Upcoming
  <2>2. Quiet'
    BY <1>1, <1>12, <1>14 DEF Quiet, Overtaking, MaxClock
  <2>3. Faithful'
    <3>1. \A r \in requests : r.reply = NoReply
      BY <1>1, <1>12, <1>14 DEF Quiet
    <3> QED BY <1>1, <1>12, <1>13, <1>14, <3>1 DEF Faithful
  <2> QED BY <2>1, <2>2, <2>3
<1>15. ASSUME Stamped, ~ unstamped'
       PROVE  Repairable'
  <2>1. Undisturbed /\ Repairable
    BY <1>15 DEF Inv, Stamped
  <2>2. CASE entry = Unloaded
    BY <1>1, <1>5, <1>9, <2>1, <2>2 DEF Repairable, Whole
  <2>3. CASE entry # Unloaded
    <3>1. P!RecentIndex(BlockList) # 0
      <4>1. RecentBlocks # {}
        BY <1>4, <1>15, <2>3
      <4>2. PICK b \in Blocks : b.recent
        BY <4>1 DEF RecentBlocks
      <4>3. \E i \in DOMAIN BlockList : BlockList[i].recent
        BY <1>2, <4>2, BlocksTyped
      <4> QED BY <1>8, <4>3, RecentOne
    <3> DEFINE next == P!ReceivedNewPost(BlockList, p, NoPost)
    <3>2. Tidy(BlockList) /\ Whole(BlockList, Channel)
      BY <1>12, <2>1 DEF Shape, Repairable
    <3>3. /\ Whole(next, Channel)
          /\ \A k \in DOMAIN next : next[k].recent =>
                /\ k \in DOMAIN BlockList /\ BlockList[k].recent
                /\ \A q \in Channel : Lacks(next[k], q) =>
                      /\ Lacks(BlockList[k], q)
                      /\ q # p
                      /\ q > p /\ Beyond(BlockList[k], q) => Beyond(next[k], q)
      BY <1>3, <1>8, <1>10, <1>12, <2>1, <2>3, <3>1, <3>2, Assumptions, EventLacks
    <3> HIDE DEF next
    <3>4. BlockList' = next
      BY <1>10, <2>3 DEF next
    <3>5. ASSUME NEW k \in DOMAIN next, next[k].recent, NEW q \in Channel, Lacks(next[k], q)
          PROVE  /\ q > lastGetPosts
                 /\ \A r \in requests : r.kind = "since" => q > r.anchor
                 /\ lastGetPosts >= lastDisconnectAt => Beyond(next[k], q) /\ q \in ToSet(events')
      <4>1. k \in DOMAIN BlockList /\ BlockList[k].recent /\ Lacks(BlockList[k], q)
        BY <3>3, <3>5
      <4>2. ASSUME lastGetPosts >= lastDisconnectAt
            PROVE  Beyond(next[k], q) /\ q \in ToSet(events')
        <5>1. Beyond(BlockList[k], q) /\ q \in ToSet(events)
          BY <2>1, <4>1, <4>2 DEF Repairable
        <5>2. CASE q # p
          <6>1. q \in ToSet(Tail(events))
            BY <1>3, <5>1, <5>2
          <6> QED BY <1>1, <1>12, <2>1, <3>3, <3>5, <5>1, <5>2, <6>1
        <5>3. CASE q = p
          BY <3>3, <3>5, <5>3
        <5> QED BY <5>2, <5>3
      <4> QED BY <2>1, <4>1, <4>2 DEF Repairable
    <3> QED BY <1>1, <1>5, <2>1, <3>3, <3>4, <3>5 DEF Repairable
  <2> QED BY <2>2, <2>3
<1> QED BY <1>6, <1>7, <1>12, <1>13, <1>14, <1>15 DEF Inv

\* Events that wait for their thread come only where the order of blocks is not claimed.
LEMMA InvHeld ==
    ASSUME Inv, HoldEvent \/ \E p \in held : ApplyHeld(p) \/ DropHeld(p)
    PROVE  Inv'
<1> USE DEF server, socket, screen, history
<1>1. Types
  BY DEF Inv
<1>2. ~ Undisturbed
  BY DEF Inv, Undisturbed, HoldEvent, Quiet
<1>3. /\ scenario' = scenario /\ detached' = detached
      /\ UNCHANGED <<clock, updateAt, connected, lastDisconnectAt, lastGetPosts, requests>>
  BY DEF HoldEvent, ApplyHeld, DropHeld, ApplyNewPost
<1>4. ~ Undisturbed' /\ ~ Stamped'
  BY <1>2, <1>3 DEF Undisturbed, Stamped, Overtaken, Overtaking
<1>5. Channel' = Channel
  BY <1>3 DEF Channel
<1>6. \A r \in requests' : Typed(r, Channel', clock')
  BY <1>1, <1>3, <1>5 DEF Types
<1>7. CASE HoldEvent
  <2>1. /\ events # <<>> /\ events' = Tail(events) /\ held' = held \cup {Head(events)}
        /\ UNCHANGED <<entry, lost, unstamped, detached, truncated>>
    BY <1>7 DEF HoldEvent
  <2>2. events' \in Seq(Channel) /\ held' \subseteq Channel
    BY <1>1, <2>1, Rest DEF Types
  <2> QED BY <1>1, <1>3, <1>4, <1>5, <1>6, <2>1, <2>2 DEF Inv, Types
<1>8. ASSUME NEW p \in held, ApplyHeld(p) PROVE Inv'
  <2>1. held' = held \ {p} /\ ApplyNewPost(p) /\ events' = events
    BY <1>8 DEF ApplyHeld
  <2>2. /\ entry' = Unloaded \/ entry' \in Seq(BlockIn(Channel))
        /\ lost' \subseteq Channel
        /\ unstamped' \in BOOLEAN /\ detached' \in BOOLEAN /\ truncated' \in BOOLEAN
    BY <1>1, <1>3, <2>1, NewPostTyped DEF Types
  <2> QED BY <1>1, <1>3, <1>4, <1>5, <1>6, <2>1, <2>2 DEF Inv, Types
<1>9. ASSUME NEW p \in held, DropHeld(p) PROVE Inv'
  <2>1. /\ held' = held \ {p} /\ lost' = lost \cup {p}
        /\ UNCHANGED <<events, entry, unstamped, detached, truncated>>
    BY <1>9 DEF DropHeld
  <2> QED BY <1>1, <1>3, <1>4, <1>5, <1>6, <2>1 DEF Inv, Types
<1> QED BY <1>7, <1>8, <1>9

-----------------------------------------------------------------------------
(* A reply is received.                                                    *)

\* The block that a page makes, and whether it takes the mark from the recent block.
PageBlock(r) ==
    LET order == r.reply.order IN
    IF r.kind = "before" THEN P!Block(<<r.anchor>> \o order, FALSE, r.reply.oldest)
    ELSE IF r.kind = "after" THEN P!Block(Append(order, r.anchor), r.reply.recent, FALSE)
    ELSE P!Block(order, r.kind = "latest" \/ r.reply.recent, r.reply.oldest)
Takes(r) == r.kind \in Around /\ (r.kind = "latest" \/ r.reply.recent)
AddedTo(L, r) == Append(Unmarked(L, Takes(r)), PageBlock(r))

\* The block that a page becomes.
LEMMA PageBlockParts ==
    ASSUME NEW A \in SUBSET Nat, NEW now, NEW r, Typed(r, A, now), r.reply # NoReply,
           r.kind # "since"
    PROVE  LET b == PageBlock(r)
               S == ToSet(r.reply.order)
           IN  /\ b \in BlockIn(A) /\ Takes(r) \in BOOLEAN
               /\ r.kind \in Around => /\ b.order = r.reply.order
                                       /\ b.recent = Takes(r)
               /\ r.kind \in {"before", "after"} =>
                     /\ ToSet(b.order) = S \cup {r.anchor} /\ b.order # <<>> /\ ~ Takes(r)
                     /\ b.recent = (r.kind = "after" /\ r.reply.recent)
               /\ Descending(r.reply.order) => Descending(b.order)
<1> DEFINE order == r.reply.order
           S == ToSet(order)
           b == PageBlock(r)
<1>1. /\ order \in Seq(A) /\ Twice(order) = {} /\ r.reply.recent \in BOOLEAN
      /\ r.reply.oldest \in BOOLEAN
      /\ r.kind = "before" => \A p \in S : p < r.anchor
      /\ r.kind = "after" => \A p \in S : p > r.anchor
      /\ r.kind \in {"before", "after"} => r.anchor \in A
      /\ r.kind \in {"latest", "unread", "around", "before", "after"}
  BY DEF Typed, Answered, Around
<1>2. Takes(r) \in BOOLEAN
  BY <1>1 DEF Takes
<1>3. S \subseteq A
  BY <1>1, Within
<1>7. \A s \in Seq(A), mark, end \in BOOLEAN : Twice(s) = {} =>
         /\ P!Block(s, mark, end) \in BlockIn(A)
         /\ P!Block(s, mark, end).order = s
         /\ P!Block(s, mark, end).recent = mark
  BY BlockParts
<1> HIDE DEF order, S
<1>4. CASE r.kind \in Around
  <2> DEFINE recent == r.kind = "latest" \/ r.reply.recent
  <2>1. b = P!Block(order, recent, r.reply.oldest)
    BY <1>4 DEF PageBlock, Around, order
  <2>2. recent \in BOOLEAN /\ Takes(r) = recent
    BY <1>1, <1>4 DEF Takes
  <2> HIDE DEF b, recent
  <2>3. b \in BlockIn(A) /\ b.order = order /\ b.recent = recent
    <3>1. order \in Seq(A) /\ Twice(order) = {} /\ r.reply.oldest \in BOOLEAN
      BY <1>1
    <3> QED BY <1>7, <2>1, <2>2, <3>1, Zenon
  <2> QED BY <1>2, <1>4, <2>2, <2>3 DEF b, order, Around
<1>5. CASE r.kind = "before"
  <2> DEFINE t == <<r.anchor>> \o order
  <2>1. b = P!Block(t, FALSE, r.reply.oldest) /\ ~ Takes(r)
    BY <1>5 DEF PageBlock, Takes, Around, order
  <2>2. <<r.anchor>> \in Seq(A) /\ ToSet(<<r.anchor>>) = {r.anchor} /\ Twice(<<r.anchor>>) = {}
    BY <1>1, <1>5, One
  <2>3. /\ t \in Seq(A) /\ ToSet(t) = {r.anchor} \cup ToSet(order)
        /\ Twice(t) \subseteq Twice(<<r.anchor>>) \cup Twice(order) \cup ({r.anchor} \cap ToSet(order))
    BY <1>1, <2>2, Concatenated
  <2>4. t # <<>>
    BY <2>3
  <2>5. r.anchor \notin S
    <3>1. r.anchor \in Nat
      BY <1>1, <1>5
    <3> QED BY <1>1, <1>5, <3>1
  <2>6. Descending(order) => Descending(t)
    BY <1>1, <1>5, InFront DEF S
  <2> HIDE DEF t, b
  <2>7. Twice(t) = {}
    BY <1>1, <2>2, <2>3, <2>5 DEF S
  <2>8. b \in BlockIn(A) /\ b.order = t /\ b.recent = FALSE
    <3>1. r.reply.oldest \in BOOLEAN /\ t \in Seq(A) /\ FALSE \in BOOLEAN
      BY <1>1, <2>3
    <3>2. b = P!Block(t, FALSE, r.reply.oldest)
      BY <2>1
    <3> QED BY <1>7, <2>7, <3>1, <3>2, Zenon
  <2> QED BY <1>2, <1>5, <2>1, <2>3, <2>4, <2>6, <2>8 DEF b, order, S, Around
<1>6. CASE r.kind = "after"
  <2> DEFINE t == Append(order, r.anchor)
  <2>1. b = P!Block(t, r.reply.recent, FALSE) /\ ~ Takes(r)
    BY <1>6 DEF PageBlock, Takes, Around, order
  <2>2. <<r.anchor>> \in Seq(A) /\ ToSet(<<r.anchor>>) = {r.anchor} /\ Twice(<<r.anchor>>) = {}
    BY <1>1, <1>6, One
  <2>3. t = order \o <<r.anchor>>
    BY <1>1, <2>2
  <2>4. /\ order \o <<r.anchor>> \in Seq(A)
        /\ ToSet(order \o <<r.anchor>>) = ToSet(order) \cup ToSet(<<r.anchor>>)
        /\ Twice(order \o <<r.anchor>>)
              \subseteq Twice(order) \cup Twice(<<r.anchor>>)
                           \cup (ToSet(order) \cap ToSet(<<r.anchor>>))
    BY <1>1, <2>2, Concatenated
  <2>5. r.anchor \notin S
    <3>1. r.anchor \in Nat
      BY <1>1, <1>6
    <3> QED BY <1>1, <1>6, <3>1
  <2>6. ASSUME Descending(order) PROVE Descending(t)
    <3>1. /\ DOMAIN order = 1..Len(order) /\ Len(order) \in Nat
          /\ DOMAIN t = 1..(Len(order) + 1) /\ t[Len(order) + 1] = r.anchor
          /\ \A i \in 1..Len(order) : t[i] = order[i]
      BY <1>1, <1>6
    <3>2. \A i \in 1..Len(order) : order[i] > r.anchor
      <4>1. \A i \in 1..Len(order) : order[i] \in S
        BY <3>1, Elements DEF S
      <4> QED BY <1>1, <1>6, <4>1
    <3> HIDE DEF t
    <3>3. ASSUME NEW i \in DOMAIN t, NEW j \in DOMAIN t, i < j PROVE t[i] > t[j]
      <4>1. i \in 1..Len(order)
        BY <3>1, <3>3
      <4>2. CASE j = Len(order) + 1
        BY <3>1, <3>2, <4>1, <4>2
      <4>3. CASE j \in 1..Len(order)
        BY <2>6, <3>1, <3>3, <4>1, <4>3 DEF Descending
      <4> QED BY <3>1, <4>2, <4>3
    <3> QED BY <3>3 DEF Descending
  <2>7. t # <<>>
    BY <1>1, <1>6
  <2> HIDE DEF t, b
  <2>8. Twice(t) = {} /\ t \in Seq(A) /\ ToSet(t) = S \cup {r.anchor}
    BY <1>1, <2>2, <2>3, <2>4, <2>5 DEF S
  <2>9. b \in BlockIn(A) /\ b.order = t /\ b.recent = r.reply.recent
    <3>1. r.reply.recent \in BOOLEAN /\ FALSE \in BOOLEAN
      BY <1>1
    <3>2. b = P!Block(t, r.reply.recent, FALSE)
      BY <2>1
    <3> QED BY <1>7, <2>8, <3>1, <3>2, Zenon
  <2> QED BY <1>1, <1>2, <1>6, <2>1, <2>6, <2>7, <2>8, <2>9 DEF b, order, S, Around
<1> QED BY <1>1, <1>4, <1>5, <1>6 DEF Around

\* What the reducer makes of a page: it keeps what it has, or merges the page with it.
LEMMA PageReduced ==
    ASSUME Types, NEW r, Typed(r, Channel, clock), r.reply # NoReply, r.kind # "since"
    PROVE  LET added == AddedTo(BlockList, r)
               i == P!RecentIndex(BlockList)
           IN  /\ added \in Seq(BlockIn(Channel))
               /\ \/ /\ Reduced(r) = entry
                     /\ r.kind \in Around =>
                           \/ r.reply.order = <<>> /\ entry # Unloaded
                           \/ P!MergeThrows(added)
                           \/ Takes(r) /\ i # 0 /\ Len(BlockList[i].order) = Len(r.reply.order)
                  \/ /\ Reduced(r) = P!MergePostBlocks(added) /\ ~ P!MergeThrows(added)
                     /\ r.reply.order = <<>> => entry = Unloaded /\ r.kind \in Around
<1> DEFINE L == BlockList
           added == AddedTo(L, r)
           b == PageBlock(r)
           order == r.reply.order
<1>1. L \in Seq(BlockIn(Channel)) /\ Channel \in SUBSET Nat /\ L = P!BlocksOf(entry)
  BY BlocksTyped
<1>2. /\ b \in BlockIn(Channel) /\ Takes(r) \in BOOLEAN
      /\ r.kind \in {"before", "after"} => ~ Takes(r)
  BY <1>1, PageBlockParts
<1>3. added \in Seq(BlockIn(Channel))
  <2>1. Unmarked(L, Takes(r)) \in Seq(BlockIn(Channel))
    BY <1>1, <1>2, UnmarkedBlocks
  <2> QED BY <1>2, <2>1, OneMore DEF AddedTo
<1>4. r.kind \in {"latest", "unread", "around", "before", "after"} /\ r.reply.recent \in BOOLEAN
  BY DEF Typed, Answered, Around
<1>5. CASE r.kind \in Around
  <2>1. /\ Reduced(r) = P!ReceivedPostsInChannel(entry, order, Takes(r), r.reply.oldest)
        /\ b = P!Block(order, Takes(r), r.reply.oldest)
    <3>1. CASE r.kind = "latest"
      <4>1. Takes(r) = TRUE
        BY <1>5, <3>1 DEF Takes
      <4>2. Reduced(r) = P!ReceivedPostsInChannel(entry, order, TRUE, r.reply.oldest)
        BY <3>1 DEF Reduced
      <4>3. b = P!Block(order, TRUE, r.reply.oldest)
        BY <3>1 DEF PageBlock
      <4> QED BY <4>1, <4>2, <4>3
    <3>2. CASE r.kind \in {"unread", "around"}
      <4>1. Takes(r) = r.reply.recent
        BY <1>4, <1>5, <3>2 DEF Takes
      <4>2. Reduced(r) = P!ReceivedPostsInChannel(entry, order, r.reply.recent, r.reply.oldest)
        BY <3>2 DEF Reduced
      <4>3. b = P!Block(order, r.kind = "latest" \/ r.reply.recent, r.reply.oldest)
        BY <3>2 DEF PageBlock
      <4>4. (r.kind = "latest" \/ r.reply.recent) = r.reply.recent
        BY <1>4, <3>2
      <4> QED BY <4>1, <4>2, <4>3, <4>4
    <3> QED BY <1>5, <3>1, <3>2 DEF Around
  <2>2. LET next == P!ReceivedPostsInChannel(entry, order, Takes(r), r.reply.oldest)
            sum == Append(Unmarked(L, Takes(r)), P!Block(order, Takes(r), r.reply.oldest))
            i == P!RecentIndex(L)
        IN  \/ /\ next = entry
               /\ \/ order = <<>> /\ entry # Unloaded
                  \/ P!MergeThrows(sum)
                  \/ Takes(r) /\ i # 0 /\ Len(L[i].order) = Len(order)
            \/ /\ next = P!MergePostBlocks(sum) /\ ~ P!MergeThrows(sum)
               /\ order = <<>> => entry = Unloaded
    BY <1>1, <1>2 DEF P!ReceivedPostsInChannel, P!AddBlock, Unmarked
  <2> QED BY <1>3, <1>5, <2>1, <2>2 DEF AddedTo
<1>6. CASE r.kind \in {"before", "after"}
  <2>1. Unmarked(L, Takes(r)) = L
    BY <1>1, <1>2, <1>6, UnmarkedBlocks
  <2>2. LET before == Append(L, P!Block(<<r.anchor>> \o order, FALSE, r.reply.oldest))
            after == Append(L, P!Block(Append(order, r.anchor), r.reply.recent, FALSE))
            nextB == P!ReceivedPostsBefore(entry, order, r.anchor, r.reply.oldest)
            nextA == P!ReceivedPostsAfter(entry, order, r.anchor, r.reply.recent)
        IN  /\ \/ nextB = entry
               \/ nextB = P!MergePostBlocks(before) /\ ~ P!MergeThrows(before) /\ order # <<>>
            /\ \/ nextA = entry
               \/ nextA = P!MergePostBlocks(after) /\ ~ P!MergeThrows(after) /\ order # <<>>
    BY <1>1 DEF P!ReceivedPostsBefore, P!ReceivedPostsAfter, P!AddBlock
  <2>3. r.kind \notin Around
    BY <1>6 DEF Around
  <2>4. r.kind = "before" =>
           /\ b = P!Block(<<r.anchor>> \o order, FALSE, r.reply.oldest)
           /\ Reduced(r) = P!ReceivedPostsBefore(entry, order, r.anchor, r.reply.oldest)
    BY DEF PageBlock, Reduced
  <2>5. r.kind = "after" =>
           /\ b = P!Block(Append(order, r.anchor), r.reply.recent, FALSE)
           /\ Reduced(r) = P!ReceivedPostsAfter(entry, order, r.anchor, r.reply.recent)
    BY DEF PageBlock, Reduced
  <2> QED BY <1>3, <1>6, <2>1, <2>2, <2>3, <2>4, <2>5 DEF AddedTo
<1> QED BY <1>4, <1>5, <1>6 DEF Around

\* The entry keeps its type.
LEMMA ReplyTyped ==
    ASSUME Types, NEW r, Typed(r, Channel, clock), r.reply # NoReply
    PROVE  Reduced(r) = Unloaded \/ Reduced(r) \in Seq(BlockIn(Channel))
<1>1. entry = Unloaded \/ entry \in Seq(BlockIn(Channel))
  BY DEF Types
<1>2. CASE r.kind # "since"
  <2> DEFINE added == AddedTo(BlockList, r)
  <2>1. /\ added \in Seq(BlockIn(Channel))
        /\ \/ Reduced(r) = entry
           \/ Reduced(r) = P!MergePostBlocks(added) /\ ~ P!MergeThrows(added)
    BY <1>2, PageReduced
  <2>2. Channel \in SUBSET Nat
    BY BlocksTyped
  <2> HIDE DEF added
  <2>3. ~ P!MergeThrows(added) => P!MergePostBlocks(added) \in Seq(BlockIn(Channel))
    BY <2>1, <2>2, BlocksMerged
  <2> QED BY <1>1, <2>1, <2>3
<1>3. CASE r.kind = "since"
  <2>1. Reduced(r) = P!ReceivedPostsSince(entry, r.reply.order)
    BY <1>3 DEF Reduced
  <2>2. r.reply.order \in Seq(Channel) /\ Twice(r.reply.order) = {}
    BY DEF Typed, Answered
  <2>3. /\ Channel \in SUBSET Nat /\ BlockList \in Seq(BlockIn(Channel))
        /\ BlockList = P!BlocksOf(entry)
    BY BlocksTyped
  <2>4. \/ P!ReceivedPostsSince(entry, r.reply.order) = entry
        \/ P!ReceivedPostsSince(entry, r.reply.order) \in Seq(BlockIn(Channel))
    BY <2>2, <2>3, SinceReceived
  <2> QED BY <1>1, <2>1, <2>4
<1> QED BY <1>2, <1>3

\* What is asked of a reply before it is received, while the order of blocks is claimed.
Expected(r) ==
    /\ Typed(r, Channel, clock) /\ r.reply # NoReply /\ Replied(r, Channel)
    /\ r.kind \in {"before", "after"} => Listed(BlockList, r.anchor)
    /\ ~ Detaches(r)

\* A page consists of neighbours, and touches the recent block or lies below it.
LEMMA PagePlaced ==
    ASSUME Types, Shape, NEW r, Expected(r), r.kind # "since", r.reply.order # <<>>
    PROVE  /\ Page(PageBlock(r), Channel)
           /\ \A i \in DOMAIN BlockList :
                 ~ Takes(r) /\ BlockList[i].recent /\ BlockList[i].order # <<>> =>
                    \E a \in ToSet(PageBlock(r).order), t \in ToSet(BlockList[i].order) : a <= t
<1> DEFINE L == BlockList
           b == PageBlock(r)
           order == r.reply.order
           S == ToSet(order)
<1>1. /\ L \in Seq(BlockIn(Channel)) /\ Channel \in SUBSET Nat
      /\ \A x : x \in Blocks <=> \E i \in DOMAIN L : L[i] = x
  BY BlocksTyped
<1>2. Typed(r, Channel, clock) /\ r.reply # NoReply /\ Replied(r, Channel) /\ ~ Detaches(r)
  BY DEF Expected
<1>3. /\ b \in BlockIn(Channel) /\ Takes(r) \in BOOLEAN
      /\ r.kind \in Around => b.order = order /\ b.recent = Takes(r)
      /\ r.kind \in {"before", "after"} =>
            /\ ToSet(b.order) = S \cup {r.anchor} /\ b.order # <<>> /\ ~ Takes(r)
            /\ b.recent = (r.kind = "after" /\ r.reply.recent)
      /\ Descending(order) => Descending(b.order)
  BY <1>1, <1>2, PageBlockParts
<1>4. r.kind \in Around \/ r.kind \in {"before", "after"}
  BY <1>2 DEF Typed
<1>5. /\ order \in Seq(Channel) /\ S \subseteq Channel /\ Descending(order)
      /\ order \in Seq(Nat)
      /\ r.reply.recent \in BOOLEAN
      /\ r.kind = "after" => (\A p \in S : p > r.anchor) /\ r.anchor \in Channel
      /\ r.kind \in {"before", "after"} => r.anchor \in Channel
  <2>1. order \in Seq(Channel)
    BY <1>2 DEF Typed, Answered
  <2>2. S \subseteq Channel /\ order \in Seq(Nat)
    BY <1>1, <2>1, Within, Wider
  <2> QED BY <1>2, <2>1, <2>2, SMTT(30) DEF Typed, Answered, Replied
<1>6. b.order # <<>> /\ Falls(b)
  BY <1>3, <1>4, <1>5 DEF Falls
<1>7. /\ r.kind \in Around => Convex(S, Channel)
      /\ r.kind \in {"before", "after"} => Convex(S \cup {r.anchor}, Channel)
      /\ r.kind = "latest" \/ r.reply.recent => Tops(S, Channel)
  BY <1>2 DEF Replied
<1>8. PICK x \in S : TRUE
  <2>1. order[1] \in S
    BY <1>5, Elements
  <2> QED BY <2>1
<1> HIDE DEF b, order, S
<1>9. Convex(ToSet(b.order), Channel)
  BY <1>3, <1>4, <1>7 DEF S
<1>10. ASSUME b.recent PROVE Tops(ToSet(b.order), Channel)
  <2>1. CASE r.kind \in Around
    BY <1>3, <1>7, <1>10, <2>1 DEF Takes, S
  <2>2. CASE r.kind \in {"before", "after"}
    <3>1. r.kind = "after" /\ r.reply.recent /\ Tops(S, Channel)
      BY <1>3, <1>7, <1>10, <2>2
    <3>2. ASSUME NEW p \in S \cup {r.anchor}, NEW q \in Channel
          PROVE  q \in S \cup {r.anchor} \/ q < p
      <4>1. CASE p \in S
        BY <3>1, <4>1 DEF Tops
      <4>2. CASE p = r.anchor /\ q \notin S \cup {r.anchor}
        <5>1. q < x
          BY <1>8, <3>1, <4>2 DEF Tops
        <5>2. ~ Gap(S \cup {r.anchor}, q)
          BY <1>7, <2>2 DEF Convex
        <5>3. ~ (r.anchor < q)
          BY <1>5, <1>8, <4>2, <5>1, <5>2, <1>1 DEF Gap
        <5>4. q \in Nat /\ r.anchor \in Nat /\ q # r.anchor
          BY <1>1, <1>5, <3>1, <4>2
        <5>5. q < r.anchor
          BY <5>3, <5>4
        <5> QED BY <4>2, <5>5
      <4> QED BY <4>1, <4>2
    <3> QED BY <1>3, <2>2, <3>2 DEF Tops
  <2> QED BY <1>4, <2>1, <2>2
<1>11. Page(b, Channel)
  BY <1>3, <1>6, <1>9, <1>10 DEF Page
<1>12. ASSUME NEW i \in DOMAIN L, ~ Takes(r), L[i].recent, L[i].order # <<>>
       PROVE  \E a \in ToSet(b.order), t \in ToSet(L[i].order) : a <= t
  <2>1. /\ L[i].order \in Seq(Channel) /\ Head(L[i].order) = L[i].order[1]
        /\ Head(L[i].order) \in ToSet(L[i].order) /\ ToSet(L[i].order) \subseteq Channel
    <3>1. L[i].order \in Seq(Channel) /\ ToSet(L[i].order) \subseteq Channel
      BY <1>1, PostsOf
    <3>2. Head(L[i].order) = L[i].order[1] /\ L[i].order[1] \in ToSet(L[i].order)
      BY <1>12, <3>1, Elements
    <3> QED BY <3>1, <3>2
  <2>2. CASE r.kind \in {"before", "after"}
    <3>1. PICK j \in DOMAIN L : r.anchor \in ToSet(L[j].order)
      BY <2>2 DEF Expected, Listed
    <3>2. r.anchor \in ToSet(b.order)
      BY <1>3, <2>2
    <3>3. r.anchor \in Nat /\ Head(L[i].order) \in Nat
      BY <1>1, <1>5, <2>1, <2>2
    <3>4. CASE j = i
      <4>1. r.anchor <= r.anchor
        BY <3>3
      <4> QED BY <3>1, <3>2, <3>4, <4>1
    <3>5. CASE j # i
      <4>1. Above(L[i], L[j])
        BY <1>12, <3>5 DEF Shape, Tidy, Ordered
      <4>2. Head(L[i].order) > r.anchor
        BY <2>1, <3>1, <4>1 DEF Above
      <4>3. r.anchor <= Head(L[i].order)
        BY <3>3, <4>2
      <4> QED BY <2>1, <3>2, <4>3
    <3> QED BY <3>4, <3>5
  <2>3. CASE r.kind \in Around
    <3>1. r.kind \in {"unread", "around"} /\ ~ r.reply.recent
      BY <1>12, <2>3 DEF Takes, Around
    <3>2. L[i] \in RecentPosts
      BY <1>1, <1>12 DEF RecentPosts, RecentBlocks
    <3>3. ~ (Last(order) > Head(L[i].order))
      BY <1>2, <3>1, <3>2 DEF Detaches, order
    <3>4. Last(order) \in ToSet(b.order) /\ Last(order) \in Nat
      <4>1. Last(order) = order[Len(order)] /\ Len(order) \in DOMAIN order /\ order # <<>>
        BY <1>5 DEF Last, order
      <4>2. order[Len(order)] \in ToSet(order)
        BY <4>1, Elements
      <4> QED BY <1>1, <1>3, <1>5, <2>3, <4>1, <4>2 DEF S
    <3>5. Head(L[i].order) \in Nat
      BY <1>1, <2>1
    <3>6. Last(order) <= Head(L[i].order)
      BY <3>3, <3>4, <3>5
    <3> QED BY <2>1, <3>4, <3>6
  <2> QED BY <1>4, <2>2, <2>3
<1> QED BY <1>11, <1>12 DEF b

\* What a page leaves.
LEMMA PageReplyTidy ==
    ASSUME Types, Shape, NEW r, Expected(r), r.kind # "since"
    PROVE  LET next == P!BlocksOf(Reduced(r)) IN
           Tidy(next) /\ Settled(next, Channel, Known) /\ Carried(BlockList, next)
<1> DEFINE next == P!BlocksOf(Reduced(r))
           added == AddedTo(BlockList, r)
           b == PageBlock(r)
<1>1. /\ BlockList \in Seq(BlockIn(Channel)) /\ Channel \in SUBSET Nat
      /\ BlockList = P!BlocksOf(entry) /\ (entry = Unloaded => BlockList = <<>>)
  BY BlocksTyped
<1>2. Tidy(BlockList) /\ Settled(BlockList, Channel, Known)
  BY DEF Shape
<1>3. Typed(r, Channel, clock) /\ r.reply # NoReply /\ Replied(r, Channel)
  BY DEF Expected
<1>4. /\ b \in BlockIn(Channel) /\ Takes(r) \in BOOLEAN
      /\ r.kind \in Around => b.order = r.reply.order /\ b.recent = Takes(r)
  BY <1>1, <1>3, PageBlockParts
<1>5. \/ Reduced(r) = entry
      \/ /\ Reduced(r) = P!MergePostBlocks(added) /\ ~ P!MergeThrows(added)
         /\ r.reply.order = <<>> => entry = Unloaded /\ r.kind \in Around
  BY <1>3, PageReduced
<1>6. CASE Reduced(r) = entry
  <2>1. next = BlockList
    BY <1>1, <1>6
  <2>2. Carried(BlockList, BlockList)
    BY DEF Carried
  <2> QED BY <1>2, <2>1, <2>2
<1>7. CASE /\ Reduced(r) = P!MergePostBlocks(added) /\ ~ P!MergeThrows(added)
           /\ r.reply.order # <<>>
  <2>1. /\ Page(b, Channel)
        /\ \A i \in DOMAIN BlockList :
              ~ Takes(r) /\ BlockList[i].recent /\ BlockList[i].order # <<>> =>
                 \E a \in ToSet(b.order), t \in ToSet(BlockList[i].order) : a <= t
    BY <1>7, PagePlaced
  <2>2. added = Append(Unmarked(BlockList, Takes(r)), b)
    BY DEF AddedTo
  <2> HIDE DEF b
  <2>3. LET m == P!MergePostBlocks(Append(Unmarked(BlockList, Takes(r)), b)) IN
        /\ P!BlocksOf(m) = m /\ Tidy(m)
        /\ \A K : Settled(BlockList, Channel, K) => Settled(m, Channel, K)
        /\ Carried(BlockList, m)
    BY <1>1, <1>2, <1>4, <1>7, <2>1, <2>2, Assumptions, PageTidy
  <2> QED BY <1>2, <1>7, <2>2, <2>3
<1>8. CASE /\ Reduced(r) = P!MergePostBlocks(added) /\ ~ P!MergeThrows(added)
           /\ r.reply.order = <<>> /\ entry = Unloaded /\ r.kind \in Around
  <2>1. entry = Unloaded /\ r.kind \in Around /\ BlockList = <<>>
    BY <1>1, <1>8
  <2>2. b.order = <<>> /\ b.recent
    <3>1. ToSet(r.reply.order) = {}
      BY <1>8 DEF ToSet
    <3>2. Takes(r)
      BY <1>3, <2>1, <3>1 DEF Replied, Takes
    <3> QED BY <1>4, <1>8, <2>1, <3>2
  <2>3. Unmarked(BlockList, Takes(r)) = <<>>
    <3> DEFINE u == Unmarked(BlockList, Takes(r))
    <3>1. u \in Seq(BlockIn(Channel)) /\ DOMAIN u = DOMAIN BlockList
      BY <1>1, <1>4, UnmarkedBlocks
    <3> HIDE DEF u
    <3>2. DOMAIN u = {}
      BY <2>1, <3>1
    <3>3. u = <<>>
      BY <3>1, <3>2
    <3> QED BY <3>3 DEF u
  <2>4. added = <<b>>
    BY <2>3 DEF AddedTo
  <2>5. <<b>> \in Seq(BlockIn(Channel)) /\ Len(<<b>>) = 1
    BY <1>4
  <2> HIDE DEF b, added
  <2>6. P!MergePostBlocks(<<b>>) = <<b>>
    BY <1>1, <1>8, <2>4, <2>5, BlocksMerged
  <2>7. next = <<b>>
    <3>1. P!BlocksOf(<<b>>) = <<b>>
      BY <1>1, <2>5, Assumptions, Loading
    <3> QED BY <1>8, <2>4, <2>6, <3>1
  <2>8. DOMAIN next = {1} /\ next[1] = b /\ Len(next) = 1 /\ ToSet(b.order) = {}
    <3>1. DOMAIN <<b>> = {1} /\ <<b>>[1] = b /\ Len(<<b>>) = 1
      OBVIOUS
    <3>2. ToSet(b.order) = {}
      BY <2>2 DEF ToSet
    <3> QED BY <2>7, <3>1, <3>2
  <2> HIDE DEF next
  <2>9. Ordered(next)
    <3>1. Descending(b.order)
      BY <2>2 DEF Descending
    <3> QED BY <2>8, <3>1 DEF Ordered, Apart
  <2>10. EmptyAlone(next) /\ Settled(next, Channel, Known)
    BY <2>2, <2>8 DEF EmptyAlone, Settled, Gap
  <2>11. Carried(BlockList, next)
    BY <2>1 DEF Carried
  <2> QED BY <2>9, <2>10, <2>11 DEF Tidy, next
<1> QED BY <1>5, <1>6, <1>7, <1>8

\* What a synchronisation leaves.
LEMMA SinceReplyTidy ==
    ASSUME Types, Shape, NEW r, Expected(r), r.kind = "since"
    PROVE  LET next == P!BlocksOf(Reduced(r)) IN
           Tidy(next) /\ Settled(next, Channel, Known) /\ Carried(BlockList, next)
<1> DEFINE L == BlockList
           i == P!RecentIndex(L)
           m == Reduced(r)
           S == ToSet(r.reply.order)
<1>1. /\ L \in Seq(BlockIn(Channel)) /\ Channel \in SUBSET Nat /\ L = P!BlocksOf(entry)
  BY BlocksTyped
<1>2. Tidy(L) /\ Settled(L, Channel, Known)
  BY DEF Shape
<1>3. r.reply.order \in Seq(Channel) /\ Twice(r.reply.order) = {} /\ S \subseteq Channel
  <2>1. r.reply.order \in Seq(Channel) /\ Twice(r.reply.order) = {}
    BY DEF Expected, Typed, Answered
  <2> QED BY <2>1, Within
<1>4. m = P!ReceivedPostsSince(entry, r.reply.order)
  BY DEF Reduced
<1>5. \/ m = entry
      \/ /\ i # 0 /\ r.reply.order # <<>> /\ L[i].order # <<>> /\ entry = L
         /\ m \in Seq(BlockIn(Channel)) /\ Redone(L, m, i, m[i].order)
         /\ Descending(m[i].order)
         /\ ToSet(m[i].order) = ToSet(L[i].order) \cup {p \in S : p > P!EndsAt(L[i])}
  BY <1>1, <1>3, <1>4, SinceReceived, SMTT(30)
<1> HIDE DEF m
<1>6. CASE m = entry
  <2>1. Carried(L, L)
    BY DEF Carried
  <2> QED BY <1>1, <1>2, <1>6, <2>1 DEF m
<1>7. CASE /\ i # 0 /\ r.reply.order # <<>> /\ L[i].order # <<>> /\ entry = L
           /\ m \in Seq(BlockIn(Channel)) /\ Redone(L, m, i, m[i].order)
           /\ Descending(m[i].order)
           /\ ToSet(m[i].order) = ToSet(L[i].order) \cup {p \in S : p > P!EndsAt(L[i])}
  <2> HIDE DEF i
  <2>1. i \in DOMAIN L /\ L[i].recent
    BY <1>1, <1>7, RecentOne DEF i
  <2>2. P!BlocksOf(m) = m
    BY <1>1, <1>7, Assumptions, Loading
  <2> DEFINE R == L[i]
             e == P!EndsAt(R)
             s == m[i].order
  <2>3. /\ R \in BlockIn(Channel) /\ Falls(R) /\ ToSet(R.order) \subseteq Channel
        /\ e \in ToSet(R.order) /\ \A p \in ToSet(R.order) : p \in Nat /\ e <= p
    <3>1. R \in BlockIn(Channel) /\ ToSet(R.order) \subseteq Channel
      BY <1>1, <2>1, PostsOf
    <3>2. Falls(R)
      BY <1>2, <1>7, <2>1 DEF Falls, Tidy, Ordered
    <3>3. e \in ToSet(R.order) /\ \A p \in ToSet(R.order) : e <= p
      BY <1>1, <3>1, <3>2, BlockEnds
    <3> QED BY <1>1, <3>1, <3>2, <3>3
  <2>4. i \in DOMAIN m /\ DOMAIN m = DOMAIN L /\ m[i].recent /\ \A j \in DOMAIN L : j # i => m[j] = L[j]
    BY <1>7, <2>1 DEF Redone
  <2>5. s \in Seq(Channel) /\ s # <<>>
    <3>1. s \in Seq(Channel) /\ (s = <<>> <=> ToSet(s) = {})
      BY <1>7, <2>4, PostsOf
    <3> QED BY <1>7, <2>3, <3>1
  <2> HIDE DEF R, e, s
  <2>6. /\ ToSet(s) = ToSet(R.order) \cup {p \in S : p > e} /\ Descending(s)
        /\ Redone(L, m, i, s) /\ R.recent
    BY <1>7, <2>1 DEF R, e, s
  <2>7. \A p \in ToSet(s), j \in DOMAIN L : p \in ToSet(R.order) \/ j = i
           \/ \A q \in ToSet(L[j].order) : p > q
    <3> SUFFICES ASSUME NEW p \in ToSet(s), NEW j \in DOMAIN L, p \notin ToSet(R.order), j # i,
                        NEW q \in ToSet(L[j].order)
                 PROVE  p > q
      OBVIOUS
    <3>1. p > e /\ p \in Nat
      BY <1>1, <1>3, <2>6
    <3>2. Above(R, L[j])
      BY <1>2, <2>1 DEF Tidy, Ordered, R
    <3>3. e > q /\ e \in Nat
      BY <2>3, <3>2 DEF Above
    <3>4. q \in Nat
      <4>1. ToSet(L[j].order) \subseteq Channel
        BY <1>1, PostsOf
      <4> QED BY <1>1, <4>1
    <3> QED BY <3>1, <3>3, <3>4
  <2>8. Tidy(m)
    BY <1>1, <1>2, <2>5, <2>6, <2>7, RedoneTidy DEF R
  <2>9. Carried(L, m)
    BY <2>1, <2>4, <2>6 DEF Carried, R, s
  <2>10. \A q \in Channel : q > e /\ q \notin ToSet(R.order) => q \in Known
    <3> SUFFICES ASSUME NEW q \in Channel, q > e, q \notin ToSet(R.order) PROVE q \in Known
      OBVIOUS
    <3>1. CASE \E y \in ToSet(R.order) : y > q
      <4>1. Gap(ToSet(R.order), q)
        BY <1>1, <2>3, <3>1 DEF Gap
      <4> QED BY <1>2, <2>1, <4>1 DEF Settled, R
    <3>2. CASE \A y \in ToSet(R.order) : ~ (y > q)
      <4>1. \A y \in ToSet(R.order) : y < q
        BY <1>1, <2>3, <3>2
      <4> QED BY <1>2, <1>7, <2>1, <4>1 DEF Settled, R
    <3> QED BY <3>1, <3>2
  <2>11. \A p \in ToSet(s) : p \in Nat /\ e <= p
    <3>1. \A p \in S : p \in Nat
      BY <1>1, <1>3
    <3>2. e \in Nat
      BY <2>3
    <3> HIDE DEF S
    <3> QED BY <2>3, <2>6, <3>1, <3>2
  <2>12. Settled(m, Channel, Known)
    <3>1. ASSUME NEW k \in DOMAIN m, NEW q \in Channel, Gap(ToSet(m[k].order), q)
          PROVE  q \in Known
      <4>1. CASE k = i
        <5>1. q \notin ToSet(s) /\ \E p \in ToSet(s) : p < q
          BY <3>1, <4>1 DEF Gap, s
        <5>2. q > e /\ q \notin ToSet(R.order)
          BY <1>1, <2>3, <2>6, <2>11, <5>1
        <5> QED BY <2>10, <5>2
      <4>2. CASE k # i
        BY <1>2, <2>4, <3>1, <4>2 DEF Settled
      <4> QED BY <4>1, <4>2
    <3>2. ASSUME NEW k \in DOMAIN m, NEW q \in Channel, m[k].recent, m[k].order # <<>>,
                 \A p \in ToSet(m[k].order) : p < q
          PROVE  q \in Known
      <4>1. CASE k = i
        <5>1. e < q /\ q \notin ToSet(R.order)
          BY <2>3, <2>6, <3>2, <4>1 DEF s
        <5>2. e \in Nat /\ q \in Nat
          BY <1>1, <2>3
        <5> QED BY <2>10, <5>1, <5>2
      <4>2. CASE k # i
        BY <1>2, <2>4, <3>2, <4>2 DEF Settled
      <4> QED BY <4>1, <4>2
    <3> QED BY <3>1, <3>2 DEF Settled
  <2> QED BY <2>2, <2>8, <2>9, <2>12 DEF m
<1> QED BY <1>5, <1>6, <1>7

\* So every reply leaves the blocks in order.
LEMMA ReplyTidy ==
    ASSUME Types, Shape, NEW r, Expected(r)
    PROVE  LET next == P!BlocksOf(Reduced(r)) IN
           Tidy(next) /\ Settled(next, Channel, Known) /\ Carried(BlockList, next)
<1>1. CASE r.kind = "since"
  BY <1>1, SinceReplyTidy
<1>2. CASE r.kind # "since"
  BY <1>2, PageReplyTidy
<1> QED BY <1>1, <1>2

\* A reply that is received makes the recent block lack nothing, or nothing more.
\* First a page that is merged with the blocks.
LEMMA PageReplyRepairs ==
    ASSUME Types, Shape, Repairable, NEW r \in requests, Expected(r), r.kind # "since",
           r.reply.order # <<>>, ~ P!MergeThrows(AddedTo(BlockList, r)),
           Marks(r) => r.time # 0 /\ RecentPosts = {}
    PROVE  LET m == P!MergePostBlocks(AddedTo(BlockList, r)) IN
           /\ Whole(m, Channel)
           /\ \A k \in DOMAIN m : m[k].recent =>
                 \/ Marks(r) /\ \A q \in Channel : ~ Lacks(m[k], q)
                 \/ /\ ~ Marks(r) /\ \E i \in DOMAIN BlockList : BlockList[i].recent
                    /\ \A q \in Channel : Lacks(m[k], q) =>
                          \E i \in DOMAIN BlockList :
                             /\ BlockList[i].recent /\ Lacks(BlockList[i], q)
                             /\ Beyond(BlockList[i], q) => Beyond(m[k], q)
<1> DEFINE L == BlockList
           b == PageBlock(r)
           u == Unmarked(L, Takes(r))
           m == P!MergePostBlocks(Append(u, b))
<1>1. /\ L \in Seq(BlockIn(Channel)) /\ Channel \in SUBSET Nat
      /\ \A x : x \in Blocks <=> \E i \in DOMAIN L : L[i] = x
  BY BlocksTyped
<1>2. Typed(r, Channel, clock) /\ r.reply # NoReply
  BY DEF Expected
<1>3. /\ b \in BlockIn(Channel) /\ Takes(r) \in BOOLEAN
      /\ r.kind \in Around => b.recent = Takes(r)
      /\ r.kind \in {"before", "after"} =>
            ~ Takes(r) /\ b.recent = (r.kind = "after" /\ r.reply.recent)
  BY <1>1, <1>2, PageBlockParts
<1>4. /\ Page(b, Channel)
      /\ \A i \in DOMAIN L : ~ Takes(r) /\ L[i].recent /\ L[i].order # <<>> =>
            \E a \in ToSet(b.order), t \in ToSet(L[i].order) : a <= t
  BY PagePlaced
<1>5. AddedTo(L, r) = Append(u, b)
  BY DEF AddedTo
<1>6. Tidy(L) /\ Whole(L, Channel)
  BY DEF Shape, Repairable
<1>7. r.kind \in {"latest", "unread", "around", "before", "after"}
  BY <1>2 DEF Typed, Around
<1>8. b.recent = Marks(r)
  BY <1>3, <1>7, <1>2 DEF Marks, Takes, Around
<1>9. Marks(r) => r.kind \in Around /\ Takes(r)
  <2>1. Marks(r) => r.kind # "after"
    BY <1>2 DEF Typed
  <2> QED BY <1>3, <1>7, <1>8, <2>1 DEF Around
<1> HIDE DEF b
<1>10. /\ u \in Seq(BlockIn(Channel)) /\ DOMAIN u = DOMAIN L
       /\ \A i \in DOMAIN L : u[i].order = L[i].order /\ (u[i].recent => L[i].recent)
       /\ ~ Takes(r) => u = L
  BY <1>1, <1>3, UnmarkedBlocks
<1>11. Takes(r) => \A i \in DOMAIN L : ~ u[i].recent
  BY <1>1, <1>3, <1>6, UnmarkedOrdered
<1>12. m \in Seq(BlockIn(Channel)) /\ MergedTo(Append(u, b), m)
  BY <1>1, <1>3, <1>4, <1>5, <1>6, Assumptions, PageTidy
<1>13. Whole(u, Channel)
  <2>1. CASE ~ Takes(r)
    BY <1>6, <1>10, <2>1
  <2>2. CASE Takes(r)
    <3>1. \A i \in DOMAIN L : L[i].recent => L[i].order = <<>>
      <4>1. ASSUME NEW i \in DOMAIN L, L[i].recent, L[i].order # <<>> PROVE L[i] \in RecentPosts
        BY <1>1, <4>1 DEF RecentPosts, RecentBlocks
      <4>2. Marks(r)
        BY <1>2, <1>3, <1>8, <2>2 DEF Takes
      <4> QED BY <4>1, <4>2
    <3>2. \A i \in DOMAIN L : L[i].recent => Convex(ToSet(L[i].order), Channel)
      <4>1. \A i \in DOMAIN L : L[i].order = <<>> => ToSet(L[i].order) = {}
        BY <1>1, PostsOf
      <4> QED BY <3>1, <4>1 DEF Convex, Gap
    <3> QED BY <1>6, <1>10, <3>2 DEF Whole
  <2> QED BY <2>1, <2>2
<1> HIDE DEF m, u
<1>14. ~ P!MergeThrows(Append(u, b))
  BY <1>5
<1> HIDE DEF L
<1>15. /\ Whole(m, Channel)
       /\ \A k \in DOMAIN m : m[k].recent =>
             /\ b.recent \/ \E i \in DOMAIN u : u[i].recent
             /\ \A q \in Channel : Lacks(m[k], q) =>
                   \E i \in DOMAIN u : /\ u[i].recent /\ Lacks(u[i], q)
                                       /\ Beyond(u[i], q) => Beyond(m[k], q)
  BY <1>1, <1>4, <1>10, <1>12, <1>13, <1>14, PageLacks
<1>16. ASSUME NEW k \in DOMAIN m, m[k].recent
       PROVE  \/ Marks(r) /\ \A q \in Channel : ~ Lacks(m[k], q)
              \/ /\ ~ Marks(r) /\ \E i \in DOMAIN L : L[i].recent
                 /\ \A q \in Channel : Lacks(m[k], q) =>
                       \E i \in DOMAIN L : /\ L[i].recent /\ Lacks(L[i], q)
                                           /\ Beyond(L[i], q) => Beyond(m[k], q)
  <2>1. CASE Marks(r)
    BY <1>9, <1>10, <1>11, <1>15, <1>16, <2>1
  <2>2. CASE ~ Marks(r)
    <3>1. ~ Takes(r)
      BY <1>2, <1>3, <1>8, <2>2 DEF Takes
    <3>2. u = L
      BY <1>10, <3>1
    <3> QED BY <1>8, <1>15, <1>16, <2>2, <3>2
  <2> QED BY <2>1, <2>2
<1> QED BY <1>5, <1>15, <1>16 DEF m, L

\* Then a synchronisation.
LEMMA SinceReplyRepairs ==
    ASSUME Types, Shape, Repairable, NEW r \in requests, Expected(r), r.kind = "since", ~ Throws(r)
    PROVE  LET next == P!BlocksOf(Reduced(r)) IN
           /\ Whole(next, Channel)
           /\ \A k \in DOMAIN next : next[k].recent =>
                 /\ \E i \in DOMAIN BlockList : BlockList[i].recent
                 /\ \A q \in Channel : ~ Lacks(next[k], q)
<1> DEFINE L == BlockList
           i == P!RecentIndex(L)
           m == Reduced(r)
           S == ToSet(r.reply.order)
           R == L[i]
           e == P!EndsAt(R)
<1>1. /\ L \in Seq(BlockIn(Channel)) /\ Channel \in SUBSET Nat /\ L = P!BlocksOf(entry)
      /\ \A x : x \in Blocks <=> \E j \in DOMAIN L : L[j] = x
  BY BlocksTyped
<1>2. Tidy(L) /\ Whole(L, Channel)
  BY DEF Shape, Repairable
<1>3. r.reply.order \in Seq(Channel) /\ Twice(r.reply.order) = {}
  BY DEF Expected, Typed, Answered
<1>4. m = P!ReceivedPostsSince(entry, r.reply.order)
  BY DEF Reduced
<1>5. \/ /\ m = entry
         /\ i # 0 /\ r.reply.order # <<>> /\ R.order # <<>> =>
               \A p \in S : p > e => p \in ToSet(R.order)
      \/ /\ i # 0 /\ r.reply.order # <<>> /\ R.order # <<>> /\ entry = L
         /\ m \in Seq(BlockIn(Channel)) /\ Redone(L, m, i, m[i].order)
         /\ Descending(m[i].order)
         /\ ToSet(m[i].order) = ToSet(R.order) \cup {p \in S : p > e}
  <2>1. LET next == P!ReceivedPostsSince(entry, r.reply.order)
            L0 == P!BlocksOf(entry)
            i0 == P!RecentIndex(L0)
        IN
        \/ /\ next = entry
           /\ i0 # 0 /\ r.reply.order # <<>> /\ L0[i0].order # <<>> =>
                 \A p \in ToSet(r.reply.order) : p > P!EndsAt(L0[i0]) => p \in ToSet(L0[i0].order)
        \/ /\ i0 # 0 /\ r.reply.order # <<>> /\ L0[i0].order # <<>> /\ entry = L0
           /\ next \in Seq(BlockIn(Channel)) /\ Redone(L0, next, i0, next[i0].order)
           /\ Descending(next[i0].order)
           /\ ToSet(next[i0].order) =
                 ToSet(L0[i0].order) \cup {p \in ToSet(r.reply.order) : p > P!EndsAt(L0[i0])}
    <3>1. P!BlocksOf(entry) \in Seq(BlockIn(Channel)) /\ Channel \in SUBSET Nat
      BY <1>1
    <3> QED BY <1>3, <3>1, SinceReceived, ZenonT(60)
  <2> HIDE DEF m
  <2> QED BY <1>1, <1>4, <2>1
<1>6. i # 0 => i \in DOMAIN L /\ R.recent
  BY <1>1, RecentOne
<1>7. \A k \in DOMAIN L : L[k].recent => k = i
  <2>1. ASSUME NEW k \in DOMAIN L, L[k].recent PROVE k = i
    <3>1. i \in DOMAIN L /\ L[i].recent
      BY <1>1, <2>1, RecentOne
    <3> QED BY <1>2, <2>1, <3>1 DEF Tidy, Ordered
  <2> QED BY <2>1
<1>8. i # 0 /\ r.reply.order # <<>> => R.order # <<>>
  <2>1. i # 0 => R \in RecentBlocks
    BY <1>1, <1>6 DEF RecentBlocks
  <2> QED BY <2>1 DEF Throws
<1>9. \A q \in Channel : i # 0 /\ Lacks(R, q) => q \in S
  <2>1. \A q \in Channel : q > r.anchor => q \in S
    BY DEF Expected, Repairable, Complete
  <2>2. \A q \in Channel : i # 0 /\ Lacks(R, q) => q > r.anchor
    BY <1>6 DEF Repairable
  <2> QED BY <2>1, <2>2
<1>10. i # 0 /\ R.order # <<>> =>
          /\ e \in Nat /\ \A p \in ToSet(R.order) : p \in Nat /\ e <= p
  <2> SUFFICES ASSUME i # 0, R.order # <<>>
               PROVE  e \in Nat /\ \A p \in ToSet(R.order) : p \in Nat /\ e <= p
    OBVIOUS
  <2>1. R \in BlockIn(Channel) /\ ToSet(R.order) \subseteq Channel
    BY <1>1, <1>6, PostsOf
  <2>2. Falls(R)
    BY <1>2, <1>6 DEF Falls, Tidy, Ordered
  <2>3. e \in ToSet(R.order) /\ \A p \in ToSet(R.order) : e <= p
    BY <1>1, <2>1, <2>2, BlockEnds
  <2> QED BY <1>1, <2>1, <2>3
<1>11. r.reply.order = <<>> => S = {}
  BY DEF ToSet
<1> HIDE DEF m, R, e, i, S
<1>12. CASE /\ m = entry
            /\ i # 0 /\ r.reply.order # <<>> /\ R.order # <<>> =>
                  \A p \in S : p > e => p \in ToSet(R.order)
  <2>1. P!BlocksOf(m) = L
    BY <1>1, <1>12
  <2>2. ASSUME NEW k \in DOMAIN L, L[k].recent, NEW q \in Channel, Lacks(L[k], q) PROVE FALSE
    <3>1. k = i /\ L[k] = R /\ i # 0
      BY <1>1, <1>7, <2>2 DEF R
    <3>2. q \in S /\ r.reply.order # <<>> /\ R.order # <<>>
      BY <1>8, <1>9, <1>11, <2>2, <3>1
    <3>3. PICK p \in ToSet(R.order) : p < q
      BY <2>2, <3>1, <3>2 DEF Lacks
    <3>4. e \in Nat /\ p \in Nat /\ e <= p /\ q \in Nat
      BY <1>1, <1>10, <3>1, <3>2, <3>3
    <3>5. q > e
      BY <3>3, <3>4
    <3>6. q \in ToSet(R.order)
      BY <1>12, <3>1, <3>2, <3>5
    <3> QED BY <2>2, <3>1, <3>6 DEF Lacks
  <2> QED BY <1>2, <2>1, <2>2 DEF m
<1>13. CASE /\ i # 0 /\ r.reply.order # <<>> /\ R.order # <<>> /\ entry = L
            /\ m \in Seq(BlockIn(Channel)) /\ Redone(L, m, i, m[i].order)
            /\ ToSet(m[i].order) = ToSet(R.order) \cup {p \in S : p > e}
  <2>1. P!BlocksOf(m) = m
    BY <1>1, <1>13, Assumptions, Loading
  <2>2. i \in DOMAIN m /\ DOMAIN m = DOMAIN L /\ m[i].recent /\ \A j \in DOMAIN L : j # i => m[j] = L[j]
    BY <1>6, <1>13 DEF Redone, R
  <2>3. \A k \in DOMAIN m : m[k].recent => k = i
    BY <1>7, <2>2
  <2>4. Whole(m, Channel)
    BY <1>2, <2>2 DEF Whole
  <2>5. ASSUME NEW q \in Channel, Lacks(m[i], q) PROVE FALSE
    <3>1. q \notin ToSet(R.order) /\ ~ (q \in S /\ q > e)
      BY <1>13, <2>5 DEF Lacks
    <3>2. m[i].order # <<>>
      <4>1. R.order = <<>> <=> ToSet(R.order) = {}
        BY <1>1, <1>6, <1>13, PostsOf DEF R
      <4>2. m[i].order = <<>> <=> ToSet(m[i].order) = {}
        BY <1>13, <2>2, PostsOf
      <4> QED BY <1>13, <4>1, <4>2
    <3>3. PICK p \in ToSet(m[i].order) : p < q
      BY <2>5, <3>2 DEF Lacks
    <3>4. e \in Nat /\ q \in Nat /\ p \in Nat /\ e <= p
      <4>1. p \in ToSet(R.order) \/ (p \in S /\ p > e)
        BY <1>13, <3>3
      <4>2. p \in S => p \in Nat
        BY <1>1, <1>3, Within DEF S
      <4> QED BY <1>1, <1>10, <1>13, <4>1, <4>2
    <3>5. q > e
      BY <3>3, <3>4
    <3>6. PICK x \in ToSet(R.order) : TRUE
      <4>1. ToSet(R.order) # {}
        BY <1>1, <1>6, <1>13, PostsOf DEF R
      <4> QED BY <4>1
    <3>7. CASE \E y \in ToSet(R.order) : y < q
      <4>1. Lacks(R, q)
        BY <3>1, <3>7 DEF Lacks
      <4> QED BY <1>9, <1>13, <3>1, <3>5, <4>1
    <3>8. CASE \A y \in ToSet(R.order) : ~ (y < q)
      <4>1. e \in ToSet(R.order)
        <5>1. R \in BlockIn(Channel) /\ Falls(R)
          <6>1. R \in BlockIn(Channel)
            BY <1>1, <1>6, <1>13, PostsOf DEF R
          <6> QED BY <1>2, <1>6, <1>13, <6>1 DEF Falls, Tidy, Ordered, R
        <5> QED BY <1>1, <5>1, BlockEnds DEF e
      <4> QED BY <3>5, <3>4, <3>8, <4>1
    <3> QED BY <3>7, <3>8
  <2>6. \E j \in DOMAIN L : L[j].recent
    BY <1>6, <1>13 DEF R
  <2> QED BY <2>1, <2>2, <2>3, <2>4, <2>5, <2>6 DEF m
<1> QED BY <1>5, <1>12, <1>13

\* The reply is one that the stamp of the channel moves to.
Stamps(r) == r.time # 0 /\ (r.kind = "unread" => r.reply.recent)

\* So every reply either stamps the recent block, which lacks nothing then, or leaves it no
\* worse than it was.
LEMMA ReplyRepairs ==
    ASSUME Types, Shape, Repairable, NEW r \in requests, Expected(r), ~ Throws(r),
           Marks(r) => r.time # 0 /\ RecentPosts = {}
    PROVE  LET next == P!BlocksOf(Reduced(r)) IN
           /\ Whole(next, Channel)
           /\ \A k \in DOMAIN next : next[k].recent =>
                 \/ Stamps(r) /\ \A q \in Channel : ~ Lacks(next[k], q)
                 \/ /\ ~ Stamps(r) /\ \E i \in DOMAIN BlockList : BlockList[i].recent
                    /\ \A q \in Channel : Lacks(next[k], q) =>
                          \E i \in DOMAIN BlockList :
                             /\ BlockList[i].recent /\ Lacks(BlockList[i], q)
                             /\ Beyond(BlockList[i], q) => Beyond(next[k], q)
<1> DEFINE L == BlockList
           m == Reduced(r)
           added == AddedTo(L, r)
           b == PageBlock(r)
           order == r.reply.order
<1>1. /\ L \in Seq(BlockIn(Channel)) /\ Channel \in SUBSET Nat /\ L = P!BlocksOf(entry)
      /\ entry = Unloaded => L = <<>>
      /\ \A x : x \in Blocks <=> \E j \in DOMAIN L : L[j] = x
  BY BlocksTyped
<1>2. Typed(r, Channel, clock) /\ r.reply # NoReply /\ Replied(r, Channel)
  BY DEF Expected
<1>3. r.kind \in {"latest", "unread", "around", "before", "after", "since"}
  BY <1>2 DEF Typed, Around
<1>4. Tidy(L) /\ Whole(L, Channel)
  BY DEF Shape, Repairable
<1>5. r.kind = "since" => Stamps(r)
  BY <1>2 DEF Typed, Stamps
<1>6. r.kind \in {"before", "after", "around"} => r.time = 0
  BY <1>2 DEF Typed
<1>7. Marks(r) => Stamps(r) /\ r.kind \in {"latest", "unread"} /\ Takes(r)
  BY <1>6 DEF Marks, Stamps, Takes, Around
<1>8. Stamps(r) /\ ~ Marks(r) /\ r.kind # "since" => order = <<>> /\ entry # Unloaded
  BY <1>3, <1>6 DEF Marks, Stamps
<1>9. order = <<>> /\ r.kind \in Around => Channel = {} /\ r.reply.recent
  <2>1. order = <<>> => ToSet(order) = {}
    BY DEF ToSet
  <2> QED BY <1>2, <2>1 DEF Replied
<1>10. Stamps(r) /\ r.kind # "since" => r.kind \in Around
  BY <1>3, <1>6 DEF Stamps, Around
<1>11. CASE r.kind = "since"
  <2>1. Whole(P!BlocksOf(m), Channel)
    BY <1>11, SinceReplyRepairs
  <2>2. \A k \in DOMAIN P!BlocksOf(m) : P!BlocksOf(m)[k].recent =>
           \A q \in Channel : ~ Lacks(P!BlocksOf(m)[k], q)
    BY <1>11, SinceReplyRepairs
  <2> QED BY <1>5, <1>11, <2>1, <2>2
<1>12. r.kind # "since" =>
          \/ /\ m = entry
             /\ r.kind \in Around =>
                   \/ order = <<>> /\ entry # Unloaded
                   \/ P!MergeThrows(added)
                   \/ /\ Takes(r) /\ P!RecentIndex(L) # 0
                      /\ Len(L[P!RecentIndex(L)].order) = Len(order)
          \/ /\ m = P!MergePostBlocks(added) /\ ~ P!MergeThrows(added)
             /\ order = <<>> => entry = Unloaded /\ r.kind \in Around
  BY <1>2, PageReduced
<1>13. order \in Seq(Channel)
  BY <1>2 DEF Typed, Answered
<1> HIDE DEF m, added, b
<1>14. CASE /\ m = entry /\ r.kind # "since"
            /\ r.kind \in Around =>
                  \/ order = <<>> /\ entry # Unloaded
                  \/ P!MergeThrows(added)
                  \/ /\ Takes(r) /\ P!RecentIndex(L) # 0
                     /\ Len(L[P!RecentIndex(L)].order) = Len(order)
  <2>1. P!BlocksOf(m) = L
    BY <1>1, <1>14
  <2>2. ASSUME Marks(r) PROVE entry = Unloaded
    <3> SUFFICES ASSUME entry # Unloaded PROVE FALSE
      OBVIOUS
    <3>1. order # <<>> /\ r.kind \in Around /\ Takes(r)
      BY <1>7, <2>2 DEF Marks, Around
    <3>2. \A i \in DOMAIN L : L[i].recent => L[i].order = <<>>
      <4>1. ASSUME NEW i \in DOMAIN L, L[i].recent, L[i].order # <<>> PROVE L[i] \in RecentPosts
        BY <1>1, <4>1 DEF RecentPosts, RecentBlocks
      <4> QED BY <2>2, <4>1
    <3>3. CASE P!RecentIndex(L) # 0 /\ Len(L[P!RecentIndex(L)].order) = Len(order)
      <4>1. P!RecentIndex(L) \in DOMAIN L /\ L[P!RecentIndex(L)].recent
        BY <1>1, <3>3, RecentOne
      <4>2. L[P!RecentIndex(L)].order = <<>>
        BY <3>2, <4>1
      <4> QED BY <1>13, <3>1, <3>3, <4>2
    <3>4. CASE P!MergeThrows(added)
      <4> DEFINE u == Unmarked(L, Takes(r))
      <4>1. b \in BlockIn(Channel) /\ Takes(r) \in BOOLEAN /\ b.order = order
        BY <1>1, <1>2, <1>14, <3>1, PageBlockParts DEF b
      <4>2. u \in Seq(BlockIn(Channel)) /\ DOMAIN u = DOMAIN L
        BY <1>1, <4>1, UnmarkedBlocks
      <4>3. \A i \in DOMAIN L : ~ u[i].recent
        BY <1>1, <1>4, <3>1, <4>1, UnmarkedOrdered
      <4>4. added = Append(u, b)
        BY DEF added, AddedTo, b
      <4> HIDE DEF u
      <4>5. /\ added \in Seq(BlockIn(Channel)) /\ DOMAIN added = 1..(Len(u) + 1)
            /\ DOMAIN u = 1..Len(u)
            /\ \A i \in 1..Len(u) : added[i] = u[i]
            /\ added[Len(u) + 1] = b
            /\ \A i \in 1..(Len(u) + 1) : i \in 1..Len(u) \/ i = Len(u) + 1
        BY <4>1, <4>2, <4>4, OneMore
      <4>6. \A i \in DOMAIN added : added[i].recent => added[i].order # <<>>
        BY <3>1, <4>1, <4>2, <4>3, <4>5
      <4> QED BY <3>4, <4>5, <4>6, NothingThrows
    <3> QED BY <1>14, <3>1, <3>3, <3>4
  <2>3. ASSUME NEW k \in DOMAIN L, L[k].recent
        PROVE  \/ Stamps(r) /\ \A q \in Channel : ~ Lacks(L[k], q)
               \/ /\ ~ Stamps(r)
                  /\ \A q \in Channel : Lacks(L[k], q) =>
                        \E i \in DOMAIN L : /\ L[i].recent /\ Lacks(L[i], q)
                                            /\ Beyond(L[i], q) => Beyond(L[k], q)
    <3>1. entry # Unloaded
      BY <1>1, <2>3
    <3>2. ~ Marks(r)
      BY <2>2, <3>1
    <3>3. Stamps(r) => Channel = {}
      BY <1>8, <1>9, <1>10, <1>14, <3>2
    <3> QED BY <2>3, <3>3
  <2> QED BY <1>4, <2>1, <2>3 DEF m
<1>15. CASE m = P!MergePostBlocks(added) /\ ~ P!MergeThrows(added) /\ r.kind # "since"
            /\ (order = <<>> => entry = Unloaded /\ r.kind \in Around)
  <2>1. added \in Seq(BlockIn(Channel))
    BY <1>2, <1>15, PageReduced DEF added
  <2>2. m \in Seq(BlockIn(Channel))
    BY <1>1, <1>15, <2>1, BlocksMerged
  <2>3. P!BlocksOf(m) = m
    BY <1>1, <2>2, Assumptions, Loading
  <2>4. CASE order # <<>>
    <3>1. /\ Whole(m, Channel)
          /\ \A k \in DOMAIN m : m[k].recent =>
                \/ Marks(r) /\ \A q \in Channel : ~ Lacks(m[k], q)
                \/ /\ ~ Marks(r) /\ \E i \in DOMAIN L : L[i].recent
                   /\ \A q \in Channel : Lacks(m[k], q) =>
                         \E i \in DOMAIN L :
                            /\ L[i].recent /\ Lacks(L[i], q)
                            /\ Beyond(L[i], q) => Beyond(m[k], q)
      BY <1>15, <2>4, PageReplyRepairs DEF added
    <3>2. Stamps(r) <=> Marks(r)
      BY <1>7, <1>8, <1>15, <2>4
    <3> QED BY <2>3, <3>1, <3>2 DEF m
  <2>5. CASE order = <<>>
    <3>1. Channel = {} /\ Stamps(r)
      <4>1. r.kind \in Around /\ entry = Unloaded /\ Channel = {} /\ r.reply.recent
        BY <1>9, <1>15, <2>5
      <4>2. Marks(r)
        BY <4>1 DEF Marks, Around
      <4> QED BY <1>7, <4>1, <4>2
    <3>2. Whole(m, Channel)
      BY <3>1 DEF Whole, Convex
    <3> QED BY <2>3, <3>1, <3>2 DEF m
  <2> QED BY <2>4, <2>5
<1> QED BY <1>11, <1>12, <1>14, <1>15

\* A reply is merged: the heart of the proof, for which the lemmas above take one part of
\* the invariant each.
LEMMA InvReceiveReply ==
    ASSUME Inv, NEW r \in requests, ReceiveReply(r)
    PROVE  Inv'
<1> USE DEF server, socket
<1> DEFINE next == P!BlocksOf(Reduced(r))
<1>1. /\ r.reply # NoReply /\ ~ Throws(r) /\ requests' = requests \ {r}
      /\ entry' = Reduced(r)
      /\ lastGetPosts' = IF Stamps(r) THEN r.time ELSE lastGetPosts
      /\ unstamped' = (unstamped \/ (Marks(r) /\ (r.time = 0 \/ RecentPosts # {})))
      /\ detached' = (detached \/ Detaches(r))
      /\ UNCHANGED <<clock, updateAt, connected, events, lastDisconnectAt, held, lost, truncated,
                     scenario>>
  BY DEF ReceiveReply, Finish, Stamps
<1>2. Types /\ Typed(r, Channel, clock)
  BY DEF Inv, Types
<1>3. Channel' = Channel /\ BlockList' = next
  BY <1>1 DEF Channel, BlockList
<1>4. Types'
  <2>1. Reduced(r) = Unloaded \/ Reduced(r) \in Seq(BlockIn(Channel))
    BY <1>1, <1>2, ReplyTyped
  <2>2. lastGetPosts' \in 0..clock
    BY <1>1, <1>2 DEF Types, Typed
  <2>3. unstamped' \in BOOLEAN /\ detached' \in BOOLEAN
    <3>1. Marks(r) \in BOOLEAN /\ Detaches(r) \in BOOLEAN
      BY DEF Marks, Detaches
    <3> QED BY <1>1, <1>2, <3>1 DEF Types
  <2>4. \A s \in requests' : Typed(s, Channel', clock')
    BY <1>1, <1>2, <1>3 DEF Types
  <2> QED BY <1>1, <1>2, <1>3, <2>1, <2>2, <2>3, <2>4 DEF Types
<1>5. /\ Undisturbed' => Undisturbed /\ ~ Detaches(r)
      /\ Stamped' => /\ Stamped /\ Undisturbed'
                     /\ Marks(r) => r.time # 0 /\ RecentPosts = {}
  BY <1>1, <1>2 DEF Undisturbed, Stamped, Overtaken, Overtaking, OfflineLoads, Types
<1> HIDE DEF next
<1>6. ASSUME Undisturbed'
      PROVE  /\ Shape /\ Upcoming /\ Quiet /\ Faithful /\ Expected(r)
             /\ Shape' /\ Upcoming' /\ Quiet' /\ Faithful'
  <2>1. Shape /\ Upcoming /\ Quiet /\ Faithful
    BY <1>5, <1>6 DEF Inv
  <2>2. Expected(r)
    BY <1>1, <1>2, <1>5, <1>6, <2>1 DEF Expected, Faithful
  <2>3. Tidy(next) /\ Settled(next, Channel, Known) /\ Carried(BlockList, next)
    BY <1>2, <2>1, <2>2, ReplyTidy DEF next
  <2>4. events = <<>>
    BY <1>1, <2>1 DEF Quiet
  <2>5. Known' = Known
    BY <1>1 DEF Known
  <2>6. Shape'
    BY <1>3, <2>3, <2>5 DEF Shape
  <2>7. Upcoming'
    <3>1. events' = <<>>
      BY <1>1, <2>4
    <3>2. ToSet(events') = {}
      BY <3>1 DEF ToSet
    <3> QED BY <3>1, <3>2 DEF Upcoming
  <2>8. Quiet'
    BY <1>1, <2>1, <2>4 DEF Quiet, Overtaking, MaxClock
  <2>9. Faithful'
    <3>1. \A s \in requests : s.kind \in {"before", "after"} => Listed(next, s.anchor)
      BY <2>1, <2>3 DEF Faithful, Listed, Carried
    <3>2. \A s \in requests : s.reply # NoReply => Replied(s, Channel)
      BY <2>1 DEF Faithful
    <3>3. \A s \in requests' : s.kind \in {"before", "after"} => Listed(BlockList', s.anchor)
      BY <1>1, <1>3, <3>1
    <3> QED BY <1>1, <1>3, <3>2, <3>3 DEF Faithful, Listed
  <2> QED BY <2>1, <2>2, <2>6, <2>7, <2>8, <2>9
<1>7. ASSUME Stamped'
      PROVE  Repairable'
  <2>1. Repairable
    BY <1>5, <1>7 DEF Inv
  <2>2. Shape /\ Expected(r) /\ (Marks(r) => r.time # 0 /\ RecentPosts = {})
    BY <1>5, <1>6, <1>7
  <2>3. /\ Whole(next, Channel)
        /\ \A k \in DOMAIN next : next[k].recent =>
              \/ Stamps(r) /\ \A q \in Channel : ~ Lacks(next[k], q)
              \/ /\ ~ Stamps(r) /\ \E i \in DOMAIN BlockList : BlockList[i].recent
                 /\ \A q \in Channel : Lacks(next[k], q) =>
                       \E i \in DOMAIN BlockList :
                          /\ BlockList[i].recent /\ Lacks(BlockList[i], q)
                          /\ Beyond(BlockList[i], q) => Beyond(next[k], q)
    BY <1>1, <1>2, <2>1, <2>2, ReplyRepairs DEF next
  <2>4. \A s \in requests' : s.reply # NoReply /\ s.time >= lastDisconnectAt' => connected'
    BY <1>1, <2>1 DEF Repairable
  <2>5. ASSUME NEW k \in DOMAIN next, next[k].recent
        PROVE  /\ lastGetPosts' # 0
               /\ lastGetPosts' >= lastDisconnectAt' => connected'
               /\ \A q \in Channel : Lacks(next[k], q) =>
                     /\ q > lastGetPosts'
                     /\ \A s \in requests' : s.kind = "since" => q > s.anchor
                     /\ lastGetPosts' >= lastDisconnectAt' =>
                           Beyond(next[k], q) /\ q \in ToSet(events')
    <3>1. CASE Stamps(r) /\ \A q \in Channel : ~ Lacks(next[k], q)
      <4>1. lastGetPosts' = r.time /\ r.time # 0
        BY <1>1, <3>1 DEF Stamps
      <4>2. r.time >= lastDisconnectAt => connected
        BY <1>1, <2>1 DEF Repairable
      <4> QED BY <1>1, <3>1, <4>1, <4>2
    <3>2. CASE /\ ~ Stamps(r) /\ \E i \in DOMAIN BlockList : BlockList[i].recent
               /\ \A q \in Channel : Lacks(next[k], q) =>
                     \E i \in DOMAIN BlockList :
                        /\ BlockList[i].recent /\ Lacks(BlockList[i], q)
                        /\ Beyond(BlockList[i], q) => Beyond(next[k], q)
      <4>1. lastGetPosts' = lastGetPosts /\ requests' \subseteq requests
        BY <1>1, <3>2
      <4>2. lastGetPosts # 0 /\ (lastGetPosts >= lastDisconnectAt => connected)
        BY <2>1, <3>2 DEF Repairable
      <4>3. ASSUME NEW q \in Channel, Lacks(next[k], q)
            PROVE  /\ q > lastGetPosts
                   /\ \A s \in requests' : s.kind = "since" => q > s.anchor
                   /\ lastGetPosts >= lastDisconnectAt =>
                         Beyond(next[k], q) /\ q \in ToSet(events)
        <5>1. PICK i \in DOMAIN BlockList :
                 /\ BlockList[i].recent /\ Lacks(BlockList[i], q)
                 /\ Beyond(BlockList[i], q) => Beyond(next[k], q)
          BY <3>2, <4>3
        <5> QED BY <2>1, <4>1, <5>1 DEF Repairable
      <4> QED BY <1>1, <4>1, <4>2, <4>3
    <3> QED BY <2>3, <2>5, <3>1, <3>2
  <2>6. \A s \in requests' : s.kind = "since" /\ s.reply # NoReply => Complete(s, Channel)
    BY <1>1, <2>1 DEF Repairable
  <2> QED BY <1>1, <1>3, <2>3, <2>4, <2>5, <2>6 DEF Repairable
<1> QED BY <1>4, <1>6, <1>7 DEF Inv

\* The other steps: a reply that cannot be received, a request that fails, nothing at all.
LEMMA InvOthers ==
    ASSUME Inv,
           \/ \E r \in requests : ReceiveThrows(r) \/ Fail(r)
           \/ UNCHANGED vars
    PROVE  Inv'
<1> USE DEF server, socket, posts, screen, history
<1>1. connected \in BOOLEAN
  BY DEF Inv, Types
<1>2. ASSUME NEW r \in requests, ReceiveThrows(r) PROVE Asks
  BY <1>1, <1>2 DEF ReceiveThrows, Asks
<1>3. ASSUME NEW r \in requests, Fail(r) PROVE Asks
  BY <1>1, <1>3 DEF Fail, Finish, Asks
<1>4. ASSUME UNCHANGED vars PROVE Asks
  BY <1>1, <1>4 DEF vars, Asks
<1> QED BY <1>2, <1>3, <1>4, InvAsks

\* Every step preserves the invariant.
LEMMA InvNext ==
    ASSUME Inv, [Next]_vars
    PROVE  Inv'
<1>1. Types
  BY DEF Inv
<1>2. CASE CreatePost
  BY <1>2, InvCreatePost
<1>3. ASSUME NEW p \in Channel, EditPost(p) PROVE Inv'
  BY <1>3, InvEditPost
<1>4. ASSUME NEW p \in Channel, OpenPermalink(p) PROVE Inv'
  BY <1>1, <1>4, AsksOfActions, InvAsks
<1>5. CASE Disconnect
  BY <1>5, InvDisconnect
<1>6. CASE Reconnect \/ OpenChannel \/ CloseChannel \/ Prefetch \/ DelayedPrefetch
  BY <1>1, <1>6, AsksOfActions, InvAsks
<1>7. ASSUME NEW b \in Blocks, LoadMore(b) PROVE Inv'
  BY <1>1, <1>7, AsksOfActions, InvAsks
<1>8. ASSUME NEW r \in requests, Answer(r) PROVE Inv'
  BY <1>8, InvAnswer
<1>9. ASSUME NEW r \in requests, ReceiveReply(r) PROVE Inv'
  BY <1>9, InvReceiveReply
<1>10. ASSUME NEW r \in requests, ReceiveThrows(r) \/ Fail(r) PROVE Inv'
  BY <1>10, InvOthers
<1>11. CASE ReceiveEvent
  BY <1>11, InvReceiveEvent
<1>12. CASE HoldEvent \/ \E p \in held : ApplyHeld(p) \/ DropHeld(p)
  BY <1>12, InvHeld
<1>13. CASE UNCHANGED vars
  BY <1>13, InvOthers
<1> QED
  BY <1>2, <1>3, <1>4, <1>5, <1>6, <1>7, <1>8, <1>9, <1>10, <1>11, <1>12, <1>13 DEF Next

\* The invariant holds at all times.
LEMMA InvHolds == Spec => []Inv
<1>1. Inv /\ [Next]_vars => Inv'
  BY InvNext
<1> QED BY <1>1, InvInit, PTL DEF Spec

-----------------------------------------------------------------------------
(* The theorems.                                                           *)

\* Every variable has its type, at all times: the posts of a block are posts of the channel,
\* each listed once.
THEOREM TypeCorrect == Spec => []Types
<1>1. Inv => Types
  BY DEF Inv
<1> QED BY <1>1, InvHolds, PTL

\* The invariant implies that the blocks are in order,
LEMMA InvOrderedBlocks ==
    ASSUME Inv
    PROVE  OrderedBlocks
<1>1. Types
  BY DEF Inv
<1>2. /\ BlockList \in Seq(BlockIn(Channel))
      /\ \A b : b \in Blocks <=> \E i \in DOMAIN BlockList : BlockList[i] = b
  BY <1>1, BlocksTyped
<1>3. ASSUME NEW b \in Blocks PROVE IsInjective(b.order)
  <2>1. b \in BlockIn(Channel)
    BY <1>2, PostsOf
  <2>2. Twice(b.order) = {}
    BY <2>1, BlockParts
  <2> QED BY <2>2 DEF Twice, IsInjective
<1>4. ASSUME Undisturbed
      PROVE  /\ \A b \in Blocks : \A i, j \in DOMAIN b.order : i < j => b.order[i] > b.order[j]
             /\ \A i, j \in DOMAIN BlockList : i # j =>
                   ToSet(BlockList[i].order) \cap ToSet(BlockList[j].order) = {}
  <2>1. Ordered(BlockList) /\ Channel \in SUBSET Nat
    BY <1>1, <1>4, BlocksTyped DEF Inv, Shape, Tidy
  <2>2. ASSUME NEW i \in DOMAIN BlockList, NEW j \in DOMAIN BlockList, i # j,
               NEW p \in ToSet(BlockList[i].order), p \in ToSet(BlockList[j].order)
        PROVE  FALSE
    <3>1. p \in Nat
      BY <1>2, <2>1, PostsOf
    <3>2. p > p
      BY <2>1, <2>2 DEF Ordered, Apart, Above
    <3> QED BY <3>1, <3>2
  <2> QED BY <1>2, <2>1, <2>2 DEF Ordered, Descending
<1> QED BY <1>3, <1>4 DEF OrderedBlocks

\* A block lists a post once; as long as nothing is disturbed it lists its posts newest
\* first and shares none with another block.
THEOREM BlocksInOrder == Spec => []OrderedBlocks
BY InvOrderedBlocks, InvHolds, PTL

\* that one block at most is the recent one and reaches the newest post,
LEMMA InvOneRecentNewest ==
    ASSUME Inv
    PROVE  OneRecentNewest
<1> SUFFICES ASSUME Undisturbed
             PROVE  /\ Cardinality(RecentBlocks) <= 1
                    /\ \A b \in RecentPosts : \A other \in Blocks :
                          other.order # <<>> => Head(other.order) <= Head(b.order)
  BY DEF OneRecentNewest
<1>1. Types /\ Ordered(BlockList)
  BY DEF Inv, Shape, Tidy
<1>2. /\ BlockList \in Seq(BlockIn(Channel)) /\ Channel \in SUBSET Nat
      /\ \A b : b \in Blocks <=> \E i \in DOMAIN BlockList : BlockList[i] = b
  BY <1>1, BlocksTyped
<1>3. \A b, c \in RecentBlocks : b = c
  <2> SUFFICES ASSUME NEW b \in RecentBlocks, NEW c \in RecentBlocks PROVE b = c
    OBVIOUS
  <2>1. PICK i \in DOMAIN BlockList : BlockList[i] = b
    BY <1>2 DEF RecentBlocks
  <2>2. PICK j \in DOMAIN BlockList : BlockList[j] = c
    BY <1>2 DEF RecentBlocks
  <2>3. BlockList[i].recent /\ BlockList[j].recent
    BY <2>1, <2>2 DEF RecentBlocks
  <2>4. i = j
    BY <1>1, <2>3 DEF Ordered
  <2> QED BY <2>1, <2>2, <2>4
<1>4. Cardinality(RecentBlocks) <= 1
  <2>1. CASE RecentBlocks = {}
    BY <2>1, FS_EmptySet
  <2>2. CASE RecentBlocks # {}
    <3>1. PICK b : b \in RecentBlocks
      BY <2>2
    <3>2. RecentBlocks = {b}
      BY <1>3, <3>1
    <3>3. Cardinality({b}) = 1
      BY FS_Singleton
    <3> QED BY <3>2, <3>3
  <2> QED BY <2>1, <2>2
<1>5. ASSUME NEW b \in RecentPosts, NEW other \in Blocks, other.order # <<>>
      PROVE  Head(other.order) <= Head(b.order)
  <2>1. PICK i \in DOMAIN BlockList : BlockList[i] = b
    BY <1>2 DEF RecentPosts, RecentBlocks
  <2>2. PICK j \in DOMAIN BlockList : BlockList[j] = other
    BY <1>2
  <2>3. b.recent /\ b.order # <<>>
    BY DEF RecentPosts, RecentBlocks
  <2>4. /\ b.order \in Seq(Channel) /\ other.order \in Seq(Channel)
    BY <1>2, <2>1, <2>2, PostsOf
  <2>5. /\ Head(b.order) = b.order[1] /\ 1 \in DOMAIN b.order
        /\ Head(other.order) = other.order[1] /\ 1 \in DOMAIN other.order
    BY <1>5, <2>3, <2>4
  <2>6. Head(b.order) \in ToSet(b.order) /\ Head(other.order) \in ToSet(other.order)
    BY <2>5 DEF ToSet
  <2>7. Head(b.order) \in Nat /\ Head(other.order) \in Nat
    BY <1>2, <2>4, <2>6, Within
  <2>8. CASE i = j
    BY <2>1, <2>2, <2>7, <2>8
  <2>9. CASE i # j
    <3>1. Above(b, other)
      BY <1>1, <2>1, <2>2, <2>3, <2>9 DEF Ordered
    <3>2. Head(b.order) > Head(other.order)
      BY <2>6, <3>1 DEF Above
    <3> QED BY <2>7, <3>2
  <2> QED BY <2>8, <2>9
<1> QED BY <1>4, <1>5

\* As long as nothing is disturbed one block at most is the recent one, and it has the
\* newest post of all that is loaded.
THEOREM OneEndOfChannel == Spec => []OneRecentNewest
BY InvOneRecentNewest, InvHolds, PTL

\* Membership of a list.
LEMMA HasPost ==
    \A b, p : Has(b, p) <=> p \in ToSet(b.order)
BY DEF Has, Contains, ToSet

\* that what is missing inside a block was lost or is under way,
LEMMA InvHoles ==
    ASSUME Inv
    PROVE  HolesOnlyFromLostEvents
<1> SUFFICES ASSUME Undisturbed, NEW b \in Blocks, NEW p \in Holes(b)
             PROVE  p \in lost \cup ToSet(events)
  BY DEF HolesOnlyFromLostEvents
<1>1. Types /\ Settled(BlockList, Channel, Known)
  BY DEF Inv, Shape
<1>2. PICK i \in DOMAIN BlockList : BlockList[i] = b
  BY <1>1, BlocksTyped
<1>3. b.order \in Seq(Channel)
  BY <1>1, <1>2, BlocksTyped, PostsOf
<1>4. /\ p \in Channel /\ b.order # <<>> /\ p > Last(b.order) /\ p < Head(b.order)
      /\ p \notin ToSet(b.order)
  BY HasPost DEF Holes
<1>5. /\ Last(b.order) = b.order[Len(b.order)] /\ Len(b.order) \in DOMAIN b.order
      /\ Head(b.order) = b.order[1] /\ 1 \in DOMAIN b.order
  BY <1>3, <1>4 DEF Last
<1>6. Last(b.order) \in ToSet(b.order) /\ Head(b.order) \in ToSet(b.order)
  BY <1>5 DEF ToSet
<1>7. Last(b.order) \in Nat /\ Head(b.order) \in Nat /\ p \in Nat
  BY <1>1, <1>3, <1>4, <1>6, BlocksTyped, Within
<1>8. Gap(ToSet(b.order), p)
  BY <1>4, <1>6, <1>7 DEF Gap
<1>9. p \in Known
  BY <1>1, <1>2, <1>4, <1>8 DEF Settled
<1> QED BY <1>9 DEF Known

\* As long as nothing is disturbed a post is missing inside a block only if its event was
\* lost or is still to come, whatever pages, events and synchronisations come in between.
THEOREM HolesAreLostEvents == Spec => []HolesOnlyFromLostEvents
BY InvHoles, InvHolds, PTL

\* and that the next synchronisation begins below all that is missing.
LEMMA InvSyncRepairs ==
    ASSUME Inv
    PROVE  StampedSyncRepairs
<1> SUFFICES ASSUME Undisturbed, ~ unstamped, ~ OfflineLoads, ~ truncated,
                    NEW b \in RecentPosts, NEW p \in Missing(b)
             PROVE  p > SyncRequest(Head(b.order)).anchor
  BY DEF StampedSyncRepairs
<1>1. Types /\ Shape /\ Repairable
  BY DEF Inv, Stamped
<1>2. b \in Blocks /\ b.recent /\ b.order # <<>>
  BY DEF RecentPosts, RecentBlocks
<1>3. PICK i \in DOMAIN BlockList : BlockList[i] = b
  BY <1>1, <1>2, BlocksTyped
<1>4. b.order \in Seq(Channel)
  BY <1>1, <1>3, BlocksTyped, PostsOf
<1>5. p \in Channel /\ p > Last(b.order) /\ p \notin ToSet(b.order)
  BY HasPost DEF Missing
<1>6. Last(b.order) = b.order[Len(b.order)] /\ Len(b.order) \in DOMAIN b.order
  BY <1>2, <1>4 DEF Last
<1>7. Last(b.order) \in ToSet(b.order)
  BY <1>6 DEF ToSet
<1>8. Last(b.order) \in Nat /\ p \in Nat
  BY <1>1, <1>4, <1>5, <1>7, BlocksTyped, Within
<1>9. Lacks(b, p)
  BY <1>5, <1>7, <1>8 DEF Lacks
<1> QED BY <1>1, <1>2, <1>3, <1>5, <1>9, SyncBegins

\* As long as nothing is disturbed, loads are stamped, none is made while the connection is
\* down and no synchronisation was cut short by its limit, the next one begins below every
\* post that the recent block lacks.
THEOREM SyncsRepair == Spec => []StampedSyncRepairs
BY InvSyncRepairs, InvHolds, PTL

=============================================================================
