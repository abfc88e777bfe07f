---------------------- MODULE ReliableWebSocket_proofs ----------------------
(***************************************************************************)
(* Proofs about ReliableWebSocket, for any number of connections, ids,     *)
(* channels, events and failures and any size of the channels and the dead *)
(* queue: the client gets the user's events in order, each at most once,   *)
(* and without a silent gap, and the system implements EventStream.        *)
(*                                                                         *)
(* The first part is about sequences of numbered messages and knows        *)
(* nothing of the system; then come the dead queue, the records on the     *)
(* network and the hub, whose own invariants are those of WebHub_proofs;   *)
(* then the invariant, and one lemma per step that keeps it.               *)
(***************************************************************************)
EXTENDS ReliableWebSocket, WellFoundedInduction, TLAPS

-----------------------------------------------------------------------------
(* What is on its way to the client.  A stream is a sequence of messages; at *)
(* tells which event each of them is, E is the number the client expects.    *)

\* The messages with numbers from E on and below e, without the hello.
Lacking(E, e) == {x \in Nat : x # 0 /\ E <= x /\ x < e}

\* They are events of lo + 1 .. hi, in the order produced.
Ordered(at, E, e, lo, hi) ==
    \A x \in Lacking(E, e) :
       lo < at[x] /\ at[x] <= hi /\ \A y \in Lacking(E, x) : at[y] < at[x]

\* Together with the events of B they are all events up to k.
Covered(at, E, e, B, k) ==
    \A n \in Nat : 1 <= n /\ n <= k => n \in B \/ \E y \in Lacking(E, e) : at[y] = n

\* What is older than one of them is in B or comes before it.
GapFree(at, E, e, B) == \A x \in Lacking(E, e) : Covered(at, E, x, B, at[x] - 1)

Numbers == [Nat -> Nat]

\* Less of a stream is ordered and free of gaps if more of it is.
LEMMA Shorter ==
    ASSUME NEW at \in Numbers, NEW E \in Nat, NEW e \in Nat, NEW f \in Nat, f <= e,
           NEW lo, NEW hi, NEW B
    PROVE  /\ Ordered(at, E, e, lo, hi) => Ordered(at, E, f, lo, hi)
           /\ GapFree(at, E, e, B) => GapFree(at, E, f, B)
BY DEF Ordered, GapFree, Lacking

\* Events produced and events excused since do no harm.
LEMMA Grown ==
    ASSUME NEW at \in Numbers, NEW E \in Nat, NEW e \in Nat,
           NEW lo \in Nat, NEW hi \in Nat, NEW top \in Nat, hi <= top, NEW B, NEW C, B \subseteq C
    PROVE  /\ Ordered(at, E, e, lo, hi) => Ordered(at, E, e, lo, top)
           /\ GapFree(at, E, e, B) => GapFree(at, E, e, C)
           /\ \A k : Covered(at, E, e, B, k) => Covered(at, E, e, C, k)
<1>1. Ordered(at, E, e, lo, hi) => Ordered(at, E, e, lo, top)
  BY DEF Ordered, Lacking, Numbers
<1>2. \A f, k : Covered(at, E, f, B, k) => Covered(at, E, f, C, k)
  BY DEF Covered
<1>3. GapFree(at, E, e, B) => GapFree(at, E, e, C)
  BY <1>2 DEF GapFree
<1> QED BY <1>1, <1>2, <1>3

\* Only the numbers below e matter.
LEMMA CoveredAlike ==
    ASSUME NEW at \in Numbers, NEW bt \in Numbers, NEW E \in Nat, NEW e \in Nat,
           \A x \in Nat : x < e => bt[x] = at[x], NEW B, NEW k, Covered(at, E, e, B, k)
    PROVE  Covered(bt, E, e, B, k)
<1>1. \A y \in Lacking(E, e) : y \in Nat /\ bt[y] = at[y]
  BY DEF Lacking
<1> QED BY <1>1 DEF Covered

\* Only the events below the end matter.
LEMMA Agreeing ==
    ASSUME NEW at \in Numbers, NEW bt \in Numbers, NEW E \in Nat, NEW e \in Nat,
           \A x \in Nat : x < e => bt[x] = at[x], NEW lo, NEW hi, NEW B
    PROVE  /\ Ordered(at, E, e, lo, hi) => Ordered(bt, E, e, lo, hi)
           /\ GapFree(at, E, e, B) => GapFree(bt, E, e, B)
<1>1. \A f \in Nat : f <= e => \A y \in Lacking(E, f) : y \in Nat /\ bt[y] = at[y]
  BY DEF Lacking
<1>2. \A f \in Nat : \A k : f <= e /\ Covered(at, E, f, B, k) => Covered(bt, E, f, B, k)
  BY <1>1 DEF Covered
<1>3. \A x \in Lacking(E, e) : x \in Nat /\ x <= e
  BY DEF Lacking
<1>4. Ordered(at, E, e, lo, hi) => Ordered(bt, E, e, lo, hi)
  BY <1>1, <1>3 DEF Ordered
<1>5. GapFree(at, E, e, B) => GapFree(bt, E, e, B)
  BY <1>1, <1>2, <1>3 DEF GapFree
<1> QED BY <1>4, <1>5

\* The client takes the message it expects.
LEMMA Taken ==
    ASSUME NEW at \in Numbers, NEW E \in Nat \ {0}, NEW e \in Nat, E < e,
           NEW lo \in Nat, NEW hi \in Nat, NEW B
    PROVE  /\ Ordered(at, E, e, lo, hi) => /\ lo < at[E] /\ at[E] <= hi
                                           /\ Ordered(at, E + 1, e, at[E], hi)
           /\ GapFree(at, E, e, B) => /\ \A n \in Nat : 1 <= n /\ n < at[E] => n \in B
                                      /\ GapFree(at, E + 1, e, B \cup {at[E]})
           /\ \A k : Covered(at, E, e, B, k) => Covered(at, E + 1, e, B \cup {at[E]}, k)
<1>1. E \in Lacking(E, e) /\ Lacking(E, E) = {} /\ at[E] \in Nat
  BY DEF Lacking, Numbers
<1>2. \A f : Lacking(E, f) \subseteq Lacking(E + 1, f) \cup {E} /\ Lacking(E + 1, f) \subseteq Lacking(E, f)
  BY DEF Lacking
<1>3. \A x \in Lacking(E + 1, e) : E \in Lacking(E, x)
  BY DEF Lacking
<1>4. \A f, k : Covered(at, E, f, B, k) => Covered(at, E + 1, f, B \cup {at[E]}, k)
  BY <1>2 DEF Covered
<1>5. Ordered(at, E, e, lo, hi) => /\ lo < at[E] /\ at[E] <= hi
                                   /\ Ordered(at, E + 1, e, at[E], hi)
  BY <1>1, <1>2, <1>3 DEF Ordered
<1>6. GapFree(at, E, e, B) => /\ \A n \in Nat : 1 <= n /\ n < at[E] => n \in B
                              /\ GapFree(at, E + 1, e, B \cup {at[E]})
  <2> SUFFICES ASSUME GapFree(at, E, e, B)
               PROVE  /\ \A n \in Nat : 1 <= n /\ n < at[E] => n \in B
                      /\ GapFree(at, E + 1, e, B \cup {at[E]})
    OBVIOUS
  <2>1. Covered(at, E, E, B, at[E] - 1)
    BY <1>1 DEF GapFree
  <2>2. \A n \in Nat : 1 <= n /\ n < at[E] => n <= at[E] - 1
    BY <1>1
  <2>3. \A n \in Nat : 1 <= n /\ n < at[E] => n \in B
    BY <1>1, <2>1, <2>2 DEF Covered
  <2>4. GapFree(at, E + 1, e, B \cup {at[E]})
    BY <1>2, <1>4 DEF GapFree
  <2> QED BY <2>3, <2>4
<1> QED BY <1>4, <1>5, <1>6

\* The hello has no event to itself.
LEMMA HelloLacksNothing == \A e : Lacking(0, e) = Lacking(1, e)
BY DEF Lacking

\* A hello as number 0 of a stream that only has events queued.
LEMMA Greeted ==
    ASSUME NEW at, NEW e, NEW lo, NEW hi, NEW B
    PROVE  /\ Ordered(at, 0, e, lo, hi) => Ordered(at, 1, e, lo, hi)
           /\ GapFree(at, 0, e, B) => GapFree(at, 1, e, B)
           /\ \A k : Covered(at, 0, e, B, k) => Covered(at, 1, e, B, k)
BY HelloLacksNothing DEF Ordered, GapFree, Covered

\* Message m leaves the stream without a number of its own; those behind it move up.
Without(at, m) == [x \in Nat |-> IF x < m THEN at[x] ELSE at[x + 1]]

\* A number is spent on an event that does not encode, which is excused.
LEMMA Skipped ==
    ASSUME NEW at \in Numbers, NEW E \in Nat, NEW m \in Nat \ {0}, NEW e \in Nat,
           E <= m, m < e, NEW lo \in Nat, NEW hi \in Nat, NEW B
    PROVE  /\ Without(at, m) \in Numbers
           /\ Ordered(at, E, e, lo, hi) => Ordered(Without(at, m), E, e - 1, lo, hi)
           /\ GapFree(at, E, e, B) => GapFree(Without(at, m), E, e - 1, B \cup {at[m]})
           /\ \A k : Covered(at, E, e, B, k) => Covered(Without(at, m), E, e - 1, B \cup {at[m]}, k)
<1> DEFINE bt == Without(at, m)
           Old(x) == IF x < m THEN x ELSE x + 1
<1>1. bt \in Numbers /\ \A x \in Nat : bt[x] = at[Old(x)]
  BY DEF Without, Numbers
<1>2. \A f \in Nat : \A x \in Lacking(E, f) : Old(x) \in Lacking(E, f + 1) /\ x \in Nat
  BY DEF Lacking
<1>3. \A x \in Nat : \A y \in Lacking(E, x) : Old(y) \in Lacking(E, Old(x))
  BY DEF Lacking
<1> DEFINE New(y) == IF y < m THEN y ELSE y - 1
<1>4. \A f \in Nat : m <= f => \A y \in Lacking(E, f + 1) : y # m => New(y) \in Lacking(E, f) /\ New(y) \in Nat /\ Old(New(y)) = y
  BY DEF Lacking
<1>5. \A f \in Nat : f <= m => \A y \in Lacking(E, f) : y \in Nat /\ Old(y) = y
  BY DEF Lacking
<1> HIDE DEF bt, Old, New
<1>6. ASSUME Ordered(at, E, e, lo, hi) PROVE Ordered(bt, E, e - 1, lo, hi)
  <2> SUFFICES ASSUME NEW x \in Lacking(E, e - 1)
               PROVE  lo < bt[x] /\ bt[x] <= hi /\ \A y \in Lacking(E, x) : bt[y] < bt[x]
    BY DEF Ordered
  <2>1. x \in Nat /\ Old(x) \in Lacking(E, e)
    BY <1>2
  <2>2. \A y \in Lacking(E, x) : y \in Nat /\ Old(y) \in Lacking(E, Old(x))
    BY <1>2, <1>3, <2>1
  <2> QED BY <1>1, <1>6, <2>1, <2>2 DEF Ordered
<1>7. ASSUME NEW f \in Nat, m <= f, NEW k, Covered(at, E, f + 1, B, k)
      PROVE  Covered(bt, E, f, B \cup {at[m]}, k)
  BY <1>1, <1>4, <1>7 DEF Covered
<1>8. ASSUME NEW f \in Nat, f <= m, NEW k, Covered(at, E, f, B, k)
      PROVE  Covered(bt, E, f, B \cup {at[m]}, k)
  BY <1>1, <1>5, <1>8 DEF Covered
<1>9. ASSUME GapFree(at, E, e, B) PROVE GapFree(bt, E, e - 1, B \cup {at[m]})
  <2> SUFFICES ASSUME NEW x \in Lacking(E, e - 1)
               PROVE  Covered(bt, E, x, B \cup {at[m]}, bt[x] - 1)
    BY DEF GapFree
  <2>1. x \in Nat /\ Old(x) \in Lacking(E, e)
    BY <1>2
  <2>2. Covered(at, E, Old(x), B, bt[x] - 1)
    BY <1>1, <1>9, <2>1 DEF GapFree
  <2>3. CASE x < m
    <3>1. Old(x) = x /\ x <= m
      BY <2>1, <2>3 DEF Old
    <3> QED BY <1>8, <2>1, <2>2, <3>1
  <2>4. CASE ~ (x < m)
    <3>1. Old(x) = x + 1 /\ m <= x
      BY <2>1, <2>4 DEF Old
    <3> QED BY <1>7, <2>1, <2>2, <3>1
  <2> QED BY <2>3, <2>4
<1>10. ASSUME NEW k, Covered(at, E, e, B, k) PROVE Covered(bt, E, e - 1, B \cup {at[m]}, k)
  <2>1. e - 1 \in Nat /\ m <= e - 1 /\ (e - 1) + 1 = e
    OBVIOUS
  <2>2. Covered(at, E, (e - 1) + 1, B, k)
    BY <1>10, <2>1
  <2> QED BY <1>7, <2>1, <2>2
<1> QED BY <1>1, <1>6, <1>9, <1>10 DEF bt

\* Event k joins the stream at its end.
LEMMA Extended ==
    ASSUME NEW at \in Numbers, NEW E \in Nat, NEW e \in Nat \ {0}, E <= e,
           NEW lo \in Nat, NEW hi \in Nat, lo <= hi, NEW B
    PROVE  LET bt == [at EXCEPT ![e] = hi + 1]
           IN  /\ bt \in Numbers
               /\ Ordered(at, E, e, lo, hi) => Ordered(bt, E, e + 1, lo, hi + 1)
               /\ GapFree(at, E, e, B) /\ Covered(at, E, e, B, hi) => GapFree(bt, E, e + 1, B)
               /\ Covered(at, E, e, B, hi) => Covered(bt, E, e + 1, B, hi + 1)
<1> DEFINE bt == [at EXCEPT ![e] = hi + 1]
<1>1. bt \in Numbers /\ bt[e] = hi + 1 /\ \A x \in Nat : x < e => bt[x] = at[x]
  BY DEF Numbers
<1> HIDE DEF bt
<1>2. \A x \in Lacking(E, e + 1) : x = e \/ x \in Lacking(E, e)
  BY DEF Lacking
<1>3. \A f : \A y \in Lacking(E, f) : y \in Nat /\ y < f
  BY DEF Lacking
<1>4. e \in Lacking(E, e + 1) /\ Lacking(E, e) \subseteq Lacking(E, e + 1)
  BY DEF Lacking
<1>5. ASSUME Ordered(at, E, e, lo, hi) PROVE Ordered(bt, E, e + 1, lo, hi + 1)
  <2>1. Ordered(bt, E, e, lo, hi)
    BY <1>1, <1>5, Agreeing
  <2>2. Ordered(bt, E, e, lo, hi + 1)
    BY <1>1, <2>1, Grown
  <2>3. \A y \in Lacking(E, e) : bt[y] < hi + 1
    BY <1>1, <1>3, <2>1 DEF Ordered, Numbers
  <2> QED BY <1>1, <1>2, <2>2, <2>3 DEF Ordered
<1>6. ASSUME Covered(at, E, e, B, hi) PROVE Covered(bt, E, e, B, hi) /\ Covered(bt, E, e + 1, B, hi + 1)
  <2>1. Covered(bt, E, e, B, hi)
    BY <1>1, <1>6, CoveredAlike
  <2> QED BY <1>1, <1>4, <2>1 DEF Covered
<1>7. ASSUME GapFree(at, E, e, B), Covered(at, E, e, B, hi) PROVE GapFree(bt, E, e + 1, B)
  <2>1. GapFree(bt, E, e, B)
    BY <1>1, <1>7, Agreeing
  <2>2. Covered(bt, E, e, B, bt[e] - 1)
    BY <1>1, <1>6, <1>7
  <2> QED BY <1>2, <2>1, <2>2 DEF GapFree
<1> QED BY <1>1, <1>5, <1>6, <1>7 DEF bt

\* A client that has loaded everything lacks nothing.
LEMMA Loaded ==
    ASSUME NEW at \in Numbers, NEW E \in Nat, NEW e \in Nat, NEW lo, NEW hi \in Nat,
           NEW B, 1 .. hi \subseteq B
    PROVE  /\ Covered(at, E, e, B, hi)
           /\ Ordered(at, E, e, lo, hi) => GapFree(at, E, e, B)
<1>1. \A f : \A k \in Int : k <= hi => Covered(at, E, f, B, k)
  BY DEF Covered
<1>2. Ordered(at, E, e, lo, hi) => \A x \in Lacking(E, e) : at[x] - 1 \in Int /\ at[x] - 1 <= hi
  BY DEF Ordered, Lacking, Numbers
<1> QED BY <1>1, <1>2 DEF GapFree

\* A stream that starts over with a hello goes on with what was queued.
From(at, m) == [x \in Nat |-> at[m + x - 1]]

\* The numbers from m on, counted from 1 again after a hello.
LEMMA StartedOver ==
    ASSUME NEW at \in Numbers, NEW E \in Nat, NEW m \in Nat \ {0}, E <= m, NEW l \in Nat,
           NEW lo, NEW hi, Ordered(at, E, m + l, lo, hi)
    PROVE  /\ [x \in Nat |-> IF x = 0 THEN 0 ELSE From(at, m)[x]] \in Numbers
           /\ Ordered([x \in Nat |-> IF x = 0 THEN 0 ELSE From(at, m)[x]], 0, 1 + l, lo, hi)
<1> DEFINE bt == [x \in Nat |-> IF x = 0 THEN 0 ELSE From(at, m)[x]]
<1>1. \A x \in Nat \ {0} : m + x - 1 \in Nat /\ From(at, m)[x] = at[m + x - 1]
  BY DEF From
<1>2. bt \in Numbers /\ \A x \in Nat \ {0} : bt[x] = at[m + x - 1]
  BY <1>1 DEF Numbers
<1> HIDE DEF bt
<1>3. \A x \in Lacking(0, 1 + l) : x \in Nat \ {0} /\ m + x - 1 \in Lacking(E, m + l)
  BY DEF Lacking
<1>4. \A x \in Nat \ {0} : \A y \in Lacking(0, x) : y \in Nat \ {0} /\ m + y - 1 \in Lacking(E, m + x - 1)
  BY DEF Lacking
<1>5. Ordered(bt, 0, 1 + l, lo, hi)
  BY <1>2, <1>3, <1>4 DEF Ordered
<1> QED BY <1>2, <1>5 DEF bt

-----------------------------------------------------------------------------
(* The dead queue of a channel.  rec is the record of all messages written   *)
(* to the channel since its dead queue was last cleared, t their count.      *)

Records == [seq : Nat, msg : Hub!Messages]

\* The dead queue holds the end of the record.
Ring(dq, p, rec, t) ==
    /\ t < deadQueueSize => p = t
    /\ \A i \in DQ!Slot :
         dq[i] = IF i < p THEN rec[t - p + i]
                 ELSE IF t < deadQueueSize THEN Nil
                 ELSE rec[t - p - deadQueueSize + i]

\* The first m messages of the record have their own numbers; those behind them come
\* after a number that was spent on no message, and are not what a client expects.
Numbered(rec, t, m) ==
    /\ m <= t
    /\ \A x \in Nat : x < m => rec[x].seq = x
    /\ \A x \in Nat : m <= x /\ x < t => rec[x].seq > m

\* What an entry of the dead queue consists of.
LEMMA RecordParts ==
    /\ \A r \in Records : r.seq \in Nat /\ r.msg \in Hub!Messages /\ r = [seq |-> r.seq, msg |-> r.msg]
    /\ \A s \in Nat, x \in Hub!Messages : [seq |-> s, msg |-> x] \in Records
BY DEF Records

\* A set of numbers with an element has a least one.
LEMMA LeastNumber ==
    ASSUME NEW T, T \subseteq Nat, T # {}
    PROVE  \E x \in T : \A y \in T : x <= y
<1>1. PICK x \in T : \A y \in T : ~ (<<y, x>> \in OpToRel(<, Nat))
  BY WFMin, NatLessThanWellFounded
<1>2. \A y, z \in Nat : <<y, z>> \in OpToRel(<, Nat) <=> y < z
  BY DEF OpToRel
<1>3. \A y \in T : ~ (y < x)
  BY <1>1, <1>2
<1> QED BY <1>3

USE ReliableWebSocketAssumption

\* The slots of the ring as numbers.
LEMMA SlotFacts ==
    /\ deadQueueSize \in Nat /\ deadQueueSize >= 2
    /\ \A i : i \in DQ!Slot <=> i \in Nat /\ i < deadQueueSize
BY DEF DQ!Slot

\* addToDeadQueue moves the pointer to the slot of the next record.
LEMMA NextSlot ==
    ASSUME NEW p \in DQ!Slot
    PROVE  DQ!NextPointer(p) = IF p = deadQueueSize - 1 THEN 0 ELSE p + 1
<1>1. CASE p = deadQueueSize - 1
  BY <1>1 DEF DQ!NextPointer, DQ!Slot
<1>2. CASE p < deadQueueSize - 1
  BY <1>2 DEF DQ!NextPointer, DQ!Slot
<1> QED BY <1>1, <1>2 DEF DQ!Slot

\* Records that share a slot are a whole ring apart.
LEMMA RoundTheRing ==
    \A k \in Nat : k < 2 * deadQueueSize =>
       k % deadQueueSize = IF k < deadQueueSize THEN k ELSE k - deadQueueSize
<1> SUFFICES ASSUME NEW k \in Nat, k < 2 * deadQueueSize
             PROVE  k % deadQueueSize = IF k < deadQueueSize THEN k ELSE k - deadQueueSize
  OBVIOUS
<1>1. CASE k < deadQueueSize
  BY <1>1
<1>2. CASE k >= deadQueueSize
  <2>1. k - deadQueueSize \in 0 .. deadQueueSize - 1
    BY <1>2
  <2> QED BY <1>2, <2>1
<1> QED BY <1>1, <1>2

\* An empty queue holds an empty record.
LEMMA RingCleared == \A rec : Ring(DQ!EmptyQueue, 0, rec, 0)
BY SlotFacts DEF Ring, DQ!EmptyQueue

\* What is added to the queue is added to the record.
LEMMA RingAdded ==
    ASSUME NEW dq \in [DQ!Slot -> Records \cup {Nil}], NEW p \in DQ!Slot, NEW rec \in [Nat -> Records],
           NEW t \in Nat, Ring(dq, p, rec, t), NEW evt \in Records
    PROVE  /\ DQ!addToDeadQueue(dq, p, evt) \in [DQ!Slot -> Records \cup {Nil}]
           /\ DQ!NextPointer(p) \in DQ!Slot
           /\ [rec EXCEPT ![t] = evt] \in [Nat -> Records]
           /\ Ring(DQ!addToDeadQueue(dq, p, evt), DQ!NextPointer(p), [rec EXCEPT ![t] = evt], t + 1)
<1> DEFINE dq2 == DQ!addToDeadQueue(dq, p, evt)
           p2 == DQ!NextPointer(p)
           rec2 == [rec EXCEPT ![t] = evt]
           K == deadQueueSize
<1>0. K \in Nat /\ K >= 2 /\ p \in Nat /\ p < K
  BY SlotFacts
<1>1. /\ dq2 \in [DQ!Slot -> Records \cup {Nil}]
      /\ \A i \in DQ!Slot : dq2[i] = IF i = p THEN evt ELSE dq[i]
  BY DEF DQ!addToDeadQueue
<1>2. /\ rec2 \in [Nat -> Records]
      /\ rec2[t] = evt /\ \A x \in Nat : x # t => rec2[x] = rec[x]
  OBVIOUS
<1>3. p2 = (IF p = K - 1 THEN 0 ELSE p + 1) /\ p2 \in DQ!Slot
  BY <1>0, NextSlot, SlotFacts
<1> HIDE DEF dq2, p2, rec2
<1>4. t < K => p = t
  BY DEF Ring
<1>5. t + 1 < K => p2 = t + 1
  BY <1>0, <1>3, <1>4
<1>6. ASSUME NEW i \in DQ!Slot
      PROVE  dq2[i] = IF i < p2 THEN rec2[(t + 1) - p2 + i]
                      ELSE IF t + 1 < K THEN Nil
                      ELSE rec2[(t + 1) - p2 - K + i]
  <2>0. i \in Nat /\ i < K
    BY SlotFacts
  <2>1. dq[i] = IF i < p THEN rec[t - p + i] ELSE IF t < K THEN Nil ELSE rec[t - p - K + i]
    BY DEF Ring
  <2>2. CASE i = p
    <3>1. CASE p = K - 1
      <4>1. p2 = 0 /\ ~ (t + 1 < K) /\ (t + 1) - p2 - K + i = t /\ ~ (i < p2)
        BY <1>0, <1>3, <1>4, <2>0, <2>2, <3>1
      <4> QED BY <1>1, <1>2, <2>2, <4>1
    <3>2. CASE p # K - 1
      <4>1. p2 = p + 1 /\ (t + 1) - p2 + i = t /\ i < p2
        BY <1>0, <1>3, <2>0, <2>2, <3>2
      <4> QED BY <1>1, <1>2, <2>2, <4>1
    <3> QED BY <3>1, <3>2
  <2>3. CASE i # p
    <3>0. dq2[i] = dq[i]
      BY <1>1, <2>3
    <3>1. CASE p = K - 1
      <4>1. p2 = 0 /\ i < p /\ ~ (t + 1 < K) /\ ~ (i < p2) /\ (t + 1) - p2 - K + i = t - p + i
            /\ t - p + i \in Nat /\ t - p + i # t
        BY <1>0, <1>3, <1>4, <2>0, <2>3, <3>1
      <4> QED BY <1>2, <2>1, <3>0, <4>1
    <3>2. CASE p # K - 1 /\ i < p
      <4>1. p2 = p + 1 /\ i < p2 /\ (t + 1) - p2 + i = t - p + i /\ t - p + i \in Nat /\ t - p + i # t
        BY <1>0, <1>3, <1>4, <2>0, <2>3, <3>2
      <4> QED BY <1>2, <2>1, <3>0, <3>2, <4>1
    <3>3. CASE p # K - 1 /\ ~ (i < p)
      <4>1. p2 = p + 1 /\ ~ (i < p2)
        BY <1>0, <1>3, <2>0, <2>3, <3>3
      <4>2. CASE t < K
        <5>1. t + 1 < K
          BY <1>0, <1>4, <3>3, <4>2
        <5> QED BY <2>1, <3>0, <3>3, <4>1, <4>2, <5>1
      <4>3. CASE ~ (t < K)
        <5>1. ~ (t + 1 < K) /\ (t + 1) - p2 - K + i = t - p - K + i /\ t - p - K + i \in Nat
              /\ t - p - K + i # t
          BY <1>0, <2>0, <3>3, <4>1, <4>3
        <5> QED BY <1>2, <2>1, <3>0, <3>3, <4>1, <4>3, <5>1
      <4> QED BY <4>2, <4>3
    <3> QED BY <3>1, <3>2, <3>3
  <2> QED BY <2>2, <2>3
<1>7. Ring(dq2, p2, rec2, t + 1)
  BY <1>5, <1>6 DEF Ring
<1> QED BY <1>1, <1>2, <1>3, <1>7 DEF dq2, p2, rec2

\* The slot of each kept message.
LEMMA RingSlots ==
    ASSUME NEW dq \in [DQ!Slot -> Records \cup {Nil}], NEW p \in DQ!Slot, NEW rec \in [Nat -> Records],
           NEW t \in Nat, Ring(dq, p, rec, t)
    PROVE  /\ \A i \in DQ!Slot : dq[i] # Nil =>
                \E x \in Nat : /\ x < t /\ t <= x + deadQueueSize /\ dq[i] = rec[x]
                               /\ x = (IF i < p THEN t - p + i ELSE t - p - deadQueueSize + i)
           /\ t >= 1 => /\ ~ (p = 0 /\ dq[0] = Nil)
                        /\ dq[DQ!LastSlot(p)] = rec[t - 1]
           /\ dq[p] = Nil <=> t < deadQueueSize
<1>0. /\ p \in Nat /\ p < deadQueueSize /\ deadQueueSize \in Nat /\ deadQueueSize >= 2
      /\ \A x \in Nat : rec[x] # Nil
      /\ 0 \in DQ!Slot
  BY SlotFacts, NilAssumption DEF Records
<1>1. /\ t < deadQueueSize => p = t
      /\ \A i \in DQ!Slot :
           dq[i] = IF i < p THEN rec[t - p + i]
                   ELSE IF t < deadQueueSize THEN Nil
                   ELSE rec[t - p - deadQueueSize + i]
  BY DEF Ring
<1>2. ASSUME NEW i \in DQ!Slot, dq[i] # Nil
      PROVE  \E x \in Nat : /\ x < t /\ t <= x + deadQueueSize /\ dq[i] = rec[x]
                            /\ x = (IF i < p THEN t - p + i ELSE t - p - deadQueueSize + i)
  <2>0. i \in Nat /\ i < deadQueueSize
    BY SlotFacts
  <2>1. CASE i < p
    <3>1. t - p + i \in Nat /\ t - p + i < t /\ t <= t - p + i + deadQueueSize
      BY <1>0, <1>1, <2>0, <2>1
    <3> QED BY <1>1, <2>1, <3>1
  <2>2. CASE ~ (i < p)
    <3>1. ~ (t < deadQueueSize) /\ dq[i] = rec[t - p - deadQueueSize + i]
      BY <1>1, <1>2, <2>2
    <3>2. t - p - deadQueueSize + i \in Nat /\ t - p - deadQueueSize + i < t
          /\ t <= t - p - deadQueueSize + i + deadQueueSize
      BY <1>0, <2>0, <2>2, <3>1
    <3> QED BY <2>2, <3>1, <3>2
  <2> QED BY <2>1, <2>2
<1>3. ASSUME t >= 1 PROVE ~ (p = 0 /\ dq[0] = Nil) /\ dq[DQ!LastSlot(p)] = rec[t - 1]
  <2>1. CASE p = 0
    <3>1. ~ (t < deadQueueSize) /\ t - p - deadQueueSize + 0 \in Nat
      BY <1>0, <1>1, <1>3, <2>1
    <3>2. dq[0] # Nil
      BY <1>0, <1>1, <2>1, <3>1
    <3>3. deadQueueSize - 1 \in DQ!Slot /\ ~ (deadQueueSize - 1 < p)
          /\ t - p - deadQueueSize + (deadQueueSize - 1) = t - 1
      BY <1>0, <2>1, SlotFacts
    <3>4. dq[deadQueueSize - 1] = rec[t - 1]
      BY <1>1, <3>1, <3>3
    <3> QED BY <2>1, <3>2, <3>4 DEF DQ!LastSlot
  <2>2. CASE p # 0
    <3>1. p - 1 \in DQ!Slot /\ p - 1 < p /\ t - p + (p - 1) = t - 1
      BY <1>0, <2>2, SlotFacts
    <3> QED BY <1>1, <2>2, <3>1 DEF DQ!LastSlot
  <2> QED BY <2>1, <2>2
<1>4. dq[p] = Nil <=> t < deadQueueSize
  <2>1. ~ (p < p) /\ (~ (t < deadQueueSize) => t - p - deadQueueSize + p \in Nat)
    BY <1>0
  <2> QED BY <1>0, <1>1, <2>1
<1> QED BY <1>2, <1>3, <1>4

\* A client to which no loss is reported has all there is, and nothing was spent.
LEMMA UpToDate ==
    ASSUME NEW dq \in [DQ!Slot -> Records \cup {Nil}], NEW p \in DQ!Slot, NEW rec \in [Nat -> Records],
           NEW t \in Nat, NEW m \in Nat, Ring(dq, p, rec, t), Numbered(rec, t, m),
           NEW s \in Nat \ {0}, s <= m, ~ DQ!hasMsgLoss(dq, p, s)
    PROVE  t = m /\ s = m
<1>1. t >= 1 /\ m <= t /\ t - 1 \in Nat
  BY DEF Numbered
<1>2. dq[DQ!LastSlot(p)] = rec[t - 1] /\ ~ (p = 0 /\ dq[0] = Nil)
  BY <1>1, RingSlots
<1>3. rec[t - 1].seq = s - 1
  BY <1>2 DEF DQ!hasMsgLoss
<1>4. /\ t - 1 < m => rec[t - 1].seq = t - 1
      /\ m <= t - 1 => rec[t - 1].seq > m
  BY <1>1 DEF Numbered
<1> QED BY <1>1, <1>3, <1>4

\* The slot in which a number the client may want is found.
LEMMA Found ==
    ASSUME NEW dq \in [DQ!Slot -> Records \cup {Nil}], NEW p \in DQ!Slot, NEW rec \in [Nat -> Records],
           NEW t \in Nat, NEW m \in Nat, Ring(dq, p, rec, t), Numbered(rec, t, m),
           NEW s \in Nat, s <= m, DQ!isInDeadQueue(dq, s)
    PROVE  /\ DQ!IndexInDeadQueue(dq, s) \in DQ!Slot
           /\ dq[0] # Nil
           /\ s < m /\ t <= s + deadQueueSize
           /\ s = (IF DQ!IndexInDeadQueue(dq, s) < p THEN t - p + DQ!IndexInDeadQueue(dq, s)
                   ELSE t - p - deadQueueSize + DQ!IndexInDeadQueue(dq, s))
<1> DEFINE i == DQ!IndexInDeadQueue(dq, s)
<1>1. i \in DQ!Slot /\ DQ!IsSlotOf(dq, s, i)
  BY DEF DQ!isInDeadQueue, DQ!IndexInDeadQueue
<1> HIDE DEF i
<1>2. i \in Nat /\ i \in 0 .. i /\ 0 \in 0 .. i
  BY <1>1, SlotFacts
<1>3. dq[i] # Nil /\ dq[0] # Nil /\ dq[i].seq = s
  BY <1>1, <1>2 DEF DQ!IsSlotOf
<1>4. PICK x \in Nat : /\ x < t /\ t <= x + deadQueueSize /\ dq[i] = rec[x]
                       /\ x = (IF i < p THEN t - p + i ELSE t - p - deadQueueSize + i)
  BY <1>1, <1>3, RingSlots
<1>5. x < m /\ x = s
  BY <1>3, <1>4 DEF Numbered
<1> QED BY <1>1, <1>3, <1>4, <1>5 DEF i

\* From that slot on the queue holds the messages from the wanted one to the newest;
\* if it has rolled over, the oldest one comes next.
LEMMA SlotsAhead ==
    ASSUME NEW dq \in [DQ!Slot -> Records \cup {Nil}], NEW p \in DQ!Slot, NEW rec \in [Nat -> Records],
           NEW t \in Nat, Ring(dq, p, rec, t), NEW i \in DQ!Slot, dq[i] # Nil,
           NEW s \in Nat, s < t, t <= s + deadQueueSize,
           s = IF i < p THEN t - p + i ELSE t - p - deadQueueSize + i
    PROVE  /\ \A k \in Nat : s + k < t => dq[(i + k) % deadQueueSize] = rec[s + k]
           /\ t < deadQueueSize => p - i = t - s
           /\ t >= deadQueueSize => dq[(i + (t - s)) % deadQueueSize] = rec[t - deadQueueSize]
<1> DEFINE K == deadQueueSize
           Place(j) == IF j < p THEN t - p + j ELSE t - p - K + j
           At(k) == IF i + k < K THEN i + k ELSE (i + k) - K
<1>0. /\ p \in Nat /\ p < K /\ i \in Nat /\ i < K /\ K \in Nat /\ K >= 2
      /\ t < K => p = t
      /\ \A j \in DQ!Slot : dq[j] = IF j < p THEN rec[t - p + j] ELSE IF t < K THEN Nil ELSE rec[t - p - K + j]
  BY SlotFacts DEF Ring
<1>1. t < K => i < p
  BY <1>0
<1>2. ASSUME NEW k \in Nat, k <= K
      PROVE  (i + k) % K = At(k) /\ At(k) \in DQ!Slot /\ At(k) \in Nat
  <2>1. i + k \in Nat /\ i + k < 2 * K
    BY <1>0, <1>2
  <2>2. (i + k) % K = At(k)
    <3>1. \A n \in Nat : n < 2 * K => n % K = IF n < K THEN n ELSE n - K
      BY RoundTheRing
    <3> HIDE DEF K
    <3>2. (i + k) % K = IF i + k < K THEN i + k ELSE (i + k) - K
      BY <2>1, <3>1
    <3> QED BY <1>0, <2>1, <3>2
  <2>3. At(k) \in Nat /\ At(k) < K
    BY <1>0, <2>1
  <2> QED BY <2>2, <2>3, SlotFacts
<1>3. ASSUME NEW k \in Nat, s + k < t PROVE dq[(i + k) % K] = rec[s + k]
  <2>1. k <= K /\ s + k \in Nat
    BY <1>0, <1>3
  <2>2. Place(At(k)) = s + k /\ (t < K => At(k) < p)
    <3>1. CASE i < p
      <4>1. s = t - p + i /\ i + k < p
        BY <1>0, <1>3, <3>1
      <4> QED BY <1>0, <4>1
    <3>2. CASE ~ (i < p)
      <4>1. s = t - p - K + i /\ ~ (t < K) /\ i + k < p + K
        BY <1>0, <1>1, <1>3, <3>2
      <4>2. CASE i + k < K
        BY <1>0, <3>2, <4>1, <4>2
      <4>3. CASE ~ (i + k < K)
        BY <1>0, <3>2, <4>1, <4>3
      <4> QED BY <4>2, <4>3
    <3> QED BY <3>1, <3>2
  <2>3. At(k) \in DQ!Slot /\ (i + k) % K = At(k)
    BY <1>2, <2>1
  <2>4. dq[At(k)] = rec[Place(At(k))]
    BY <1>0, <2>2, <2>3
  <2> QED BY <2>2, <2>3, <2>4
<1>4. t < K => p - i = t - s
  BY <1>0, <1>1
<1>5. ASSUME t >= K PROVE dq[(i + (t - s)) % K] = rec[t - K]
  <2>1. t - s \in Nat /\ t - s <= K
    BY <1>0
  <2>2. At(t - s) = p
    <3>1. CASE i < p
      BY <1>0, <3>1
    <3>2. CASE ~ (i < p)
      BY <1>0, <3>2
    <3> QED BY <3>1, <3>2
  <2>3. (i + (t - s)) % K = p
    BY <1>2, <2>1, <2>2
  <2>4. dq[p] = rec[t - p - K + p] /\ t - p - K + p = t - K
    BY <1>0, <1>5
  <2> QED BY <2>3, <2>4
<1> QED BY <1>3, <1>4, <1>5

\* drainDeadQueue writes the record from the wanted message on, up to the end of the
\* numbered part, and beyond it if there is more.
LEMMA Drained ==
    ASSUME NEW dq \in [DQ!Slot -> Records \cup {Nil}], NEW p \in DQ!Slot, NEW rec \in [Nat -> Records],
           NEW t \in Nat, NEW m \in Nat, Ring(dq, p, rec, t), Numbered(rec, t, m),
           NEW s \in Nat, s <= m, DQ!isInDeadQueue(dq, s)
    PROVE  LET msgs == DQ!drainDeadQueue(dq, p, DQ!IndexInDeadQueue(dq, s))
           IN  /\ msgs \in Seq(Records)
               /\ s + Len(msgs) <= t /\ m <= s + Len(msgs)
               /\ m < t => m < s + Len(msgs)
               /\ \A j \in 1 .. Len(msgs) : msgs[j] = rec[s + j - 1]
<1> DEFINE K == deadQueueSize
           i == DQ!IndexInDeadQueue(dq, s)
           n == DQ!DrainLength(dq, p, i)
           Drop(k) == dq[(i + k - 1) % K].seq > dq[(i + k) % K].seq
<1>0. K \in Nat /\ K >= 2 /\ \A x \in Nat : rec[x] \in Records /\ rec[x].seq \in Nat
  BY SlotFacts, RecordParts
<1>1. /\ i \in DQ!Slot /\ dq[0] # Nil /\ s < m /\ t <= s + K
      /\ s = IF i < p THEN t - p + i ELSE t - p - K + i
  BY Found
<1> HIDE DEF i
<1>2. m <= t /\ s < t
  BY <1>1 DEF Numbered
<1>3. dq[i] # Nil
  <2>1. DQ!IsSlotOf(dq, s, i)
    BY DEF DQ!isInDeadQueue, DQ!IndexInDeadQueue, i
  <2>2. i \in 0 .. i
    BY <1>1, SlotFacts
  <2> QED BY <2>1, <2>2 DEF DQ!IsSlotOf
<1>4. /\ \A k \in Nat : s + k < t => dq[(i + k) % K] = rec[s + k]
      /\ t < K => p - i = t - s
      /\ t >= K => dq[(i + (t - s)) % K] = rec[t - K]
  BY <1>1, <1>2, <1>3, SlotsAhead
<1>5. i \in Nat
  BY <1>1, SlotFacts
<1>6. n \in Nat /\ s + n <= t /\ m <= s + n /\ (m < t => m < s + n)
  <2>1. CASE t < K
    <3>1. n = t - s
      BY <1>1, <1>4, <2>1, RingSlots DEF DQ!DrainLength
    <3> QED BY <1>1, <1>2, <3>1
  <2>2. CASE ~ (t < K)
    <3>1. n = DQ!RolledOverLength(dq, i)
      BY <1>1, <2>2, RingSlots DEF DQ!DrainLength
    <3>2. \A k \in Nat \ {0} : s + k <= t => dq[(i + k - 1) % K] = rec[s + (k - 1)]
      <4> SUFFICES ASSUME NEW k \in Nat \ {0}, s + k <= t PROVE dq[(i + k - 1) % K] = rec[s + (k - 1)]
        OBVIOUS
      <4>1. k - 1 \in Nat /\ s + (k - 1) < t /\ i + (k - 1) = i + k - 1
        BY <1>5
      <4>2. dq[(i + (k - 1)) % K] = rec[s + (k - 1)]
        BY <1>4, <4>1
      <4> QED BY <4>1, <4>2
    <3>3. t - s \in 1 .. K /\ t - s \in Nat \ {0} /\ s + (t - s) <= t
      BY <1>1, <1>2
    <3>4. Drop(t - s)
      <4>1. dq[(i + (t - s) - 1) % K] = rec[s + ((t - s) - 1)] /\ s + ((t - s) - 1) = t - 1 /\ t - 1 \in Nat
        BY <1>2, <3>2, <3>3
      <4>2. dq[(i + (t - s)) % K] = rec[t - K] /\ t - K \in Nat /\ t - K < m
        BY <1>0, <1>1, <1>2, <1>4, <2>2
      <4>3. rec[t - K].seq = t - K
        BY <4>2 DEF Numbered
      <4>4. rec[t - 1].seq > t - K
        <5>1. t - 1 < m => rec[t - 1].seq = t - 1
          BY <4>1 DEF Numbered
        <5>2. ~ (t - 1 < m) => rec[t - 1].seq > m
          BY <1>2, <4>1 DEF Numbered
        <5> QED BY <1>0, <4>1, <4>2, <5>1, <5>2
      <4> QED BY <4>1, <4>2, <4>3, <4>4
    <3>5. \A k \in Nat : s + k < t => dq[(i + k) % K].seq = rec[s + k].seq
      BY <1>4
    <3>6. \A k \in Nat \ {0} : s + k < t /\ Drop(k) => ~ (s + k < m) /\ s + k # m
      <4> SUFFICES ASSUME NEW k \in Nat \ {0}, s + k < t, Drop(k) PROVE ~ (s + k < m) /\ s + k # m
        OBVIOUS
      <4>1. rec[s + (k - 1)].seq > rec[s + k].seq
        BY <3>2, <3>5
      <4>2. s + (k - 1) \in Nat /\ s + k \in Nat /\ s + (k - 1) < s + k
        OBVIOUS
      <4>3. s + k < m => rec[s + k].seq = s + k
        BY <4>2 DEF Numbered
      <4>4. s + k <= m => rec[s + (k - 1)].seq = s + (k - 1)
        BY <4>2 DEF Numbered
      <4>5. s + k = m => rec[s + k].seq > m
        BY <4>2 DEF Numbered
      <4> QED BY <1>0, <4>1, <4>2, <4>3, <4>4, <4>5
    <3> DEFINE Rising(k) == dq[(i + k - 1) % K].seq <= dq[(i + k) % K].seq
               Is(k) == k \in 1 .. K /\ Drop(k) /\ \A l \in 1 .. k - 1 : Rising(l)
    <3>7. \A k \in Nat \ {0} : s + k <= t => (Drop(k) <=> ~ Rising(k))
      <4> SUFFICES ASSUME NEW k \in Nat \ {0}, s + k <= t
                   PROVE  dq[(i + k - 1) % K].seq \in Nat /\ dq[(i + k) % K].seq \in Nat
        OBVIOUS
      <4>1. k - 1 \in Nat /\ s + (k - 1) \in Nat
        OBVIOUS
      <4>2. dq[(i + k - 1) % K].seq \in Nat
        BY <1>0, <3>2, <4>1
      <4>3. dq[(i + k) % K].seq \in Nat
        <5>1. CASE s + k < t
          BY <1>0, <3>5, <5>1
        <5>2. CASE ~ (s + k < t)
          <6>1. k = t - s /\ t - K \in Nat
            BY <1>0, <2>2, <5>2
          <6> QED BY <1>0, <1>4, <2>2, <6>1
        <5> QED BY <5>1, <5>2
      <4> QED BY <4>2, <4>3
    <3>8. \E k : Is(k)
      <4> DEFINE T == {k \in 1 .. t - s : Drop(k)}
      <4>1. T \subseteq Nat /\ t - s \in T
        BY <3>3, <3>4
      <4> HIDE DEF Drop
      <4>2. PICK k \in T : \A l \in T : k <= l
        BY <4>1, LeastNumber
      <4>3. k \in 1 .. K /\ Drop(k) /\ k \in 1 .. t - s
        BY <3>3, <4>2
      <4>4. \A l \in 1 .. k - 1 : l \in Nat \ {0} /\ s + l <= t /\ l \in 1 .. t - s /\ ~ (k <= l)
        BY <1>2, <4>3
      <4>5. \A l \in 1 .. k - 1 : Rising(l)
        BY <3>7, <4>2, <4>4
      <4> QED BY <4>3, <4>5
    <3>9. Is(n)
      <4>1. n = CHOOSE k \in 1 .. K : Drop(k) /\ \A l \in 1 .. k - 1 : Rising(l)
        BY <3>1 DEF DQ!RolledOverLength
      <4> QED BY <3>8, <4>1
    <3> HIDE DEF n, Drop, Rising
    <3>10. n \in Nat \ {0} /\ s + n <= t
      <4>1. n \in 1 .. K /\ Drop(n) /\ \A l \in 1 .. n - 1 : Rising(l)
        BY <3>9
      <4>2. ~ Rising(t - s)
        BY <3>3, <3>4, <3>7
      <4>3. t - s \notin 1 .. n - 1
        BY <4>1, <4>2
      <4> QED BY <1>0, <1>2, <3>3, <4>1, <4>3
    <3>11. Drop(n)
      BY <3>9
    <3>12. s + n < t => ~ (s + n < m) /\ s + n # m
      BY <3>6, <3>10, <3>11
    <3> QED BY <1>2, <3>10, <3>12
  <2> QED BY <2>1, <2>2
<1> DEFINE msgs == DQ!drainDeadQueue(dq, p, i)
<1>7. msgs = [j \in 1 .. n |-> dq[(i + j - 1) % K]]
  BY DEF DQ!drainDeadQueue
<1> HIDE DEF n
<1>8. \A j \in 1 .. n : dq[(i + j - 1) % K] = rec[s + j - 1] /\ rec[s + j - 1] \in Records
  <2> SUFFICES ASSUME NEW j \in 1 .. n PROVE dq[(i + j - 1) % K] = rec[s + j - 1] /\ rec[s + j - 1] \in Records
    OBVIOUS
  <2>1. j - 1 \in Nat /\ s + (j - 1) < t /\ i + (j - 1) = i + j - 1 /\ s + (j - 1) = s + j - 1 /\ s + (j - 1) \in Nat
    BY <1>5, <1>6
  <2>2. dq[(i + (j - 1)) % K] = rec[s + (j - 1)]
    BY <1>4, <2>1
  <2> QED BY <1>0, <2>1, <2>2
<1>9. msgs \in Seq(Records) /\ Len(msgs) = n
  BY <1>6, <1>7, <1>8
<1>10. \A j \in 1 .. n : msgs[j] = rec[s + j - 1]
  BY <1>7, <1>8
<1> HIDE DEF msgs
<1> QED BY <1>6, <1>9, <1>10 DEF msgs, i

-----------------------------------------------------------------------------
(* A stream as its client and its connection see it. *)

\* Message x of stream id.
Msg(at, id, x) == IF x = 0 THEN Hub!Hello(id) ELSE Event(at[x])

\* s is on its way to a client that expects number E: the numbered part from E on,
\* then messages the client will not accept.
Carries(at, id, E, m, s) ==
    /\ m = 0 => s = <<>>
    /\ \A j \in 1 .. Len(s) :
         /\ E + (j - 1) < m => s[j] = [seq |-> E + (j - 1), msg |-> Msg(at, id, E + (j - 1))]
         /\ E + (j - 1) >= m => s[j].seq > m /\ s[j].msg.type = "event"

\* What has been written is the numbered part, and events behind it.
Recorded(at, id, rec, t, m) ==
    /\ \A x \in Nat : x < m => rec[x].msg = Msg(at, id, x)
    /\ \A x \in Nat : m <= x /\ x < t => rec[x].msg.type = "event"

\* What waits in the channel comes after the numbered part.
Queued(at, id, m, q) == \A j \in 1 .. Len(q) : q[j] = Msg(at, id, m + (j - 1))

\* The kinds of messages: hellos, the answer to a request, and events.
LEMMA MessageTypes ==
    /\ \A id : Hub!Hello(id).type = "hello" /\ Hub!Hello(id).id = id
    /\ \A n : Event(n).type = "event" /\ Event(n).n = n
    /\ \A at, id : Msg(at, id, 0) = Hub!Hello(id)
    /\ \A at, id : \A x \in Nat \ {0} : Msg(at, id, x) = Event(at[x])
BY DEF Hub!Hello, Event, Msg

\* Head, tail and a record put at the end of a sequence.
LEMMA SequenceParts ==
    ASSUME NEW S, NEW s \in Seq(S)
    PROVE  /\ Len(s) \in Nat
           /\ s = <<>> <=> Len(s) = 0
           /\ s # <<>> => /\ Head(s) = s[1] /\ Head(s) \in S
                          /\ Tail(s) \in Seq(S) /\ Len(Tail(s)) = Len(s) - 1
                          /\ \A j \in 1 .. Len(s) - 1 : Tail(s)[j] = s[j + 1]
           /\ \A r \in S : /\ s \o <<r>> \in Seq(S) /\ Len(s \o <<r>>) = Len(s) + 1
                           /\ (s \o <<r>>)[Len(s) + 1] = r
                           /\ \A j \in 1 .. Len(s) : (s \o <<r>>)[j] = s[j]
                           /\ Append(s, r) = s \o <<r>>
OBVIOUS

\* The first message of a channel is taken from it.
LEMMA QueueTaken ==
    ASSUME NEW at \in Numbers, NEW id, NEW m \in Nat, NEW S, NEW q \in Seq(S), q # <<>>,
           Queued(at, id, m, q)
    PROVE  /\ Head(q) = Msg(at, id, m)
           /\ Queued(at, id, m + 1, Tail(q))
           /\ m # 0 => Queued(Without(at, m), id, m, Tail(q))
<1>1. Len(q) \in Nat \ {0} /\ Head(q) = q[1] /\ Len(Tail(q)) = Len(q) - 1
      /\ \A j \in 1 .. Len(q) - 1 : Tail(q)[j] = q[j + 1]
  BY SequenceParts
<1>2. q[1] = Msg(at, id, m + (1 - 1)) /\ m + (1 - 1) = m
  BY <1>1 DEF Queued
<1>3. ASSUME NEW j \in 1 .. Len(Tail(q))
      PROVE  Tail(q)[j] = Msg(at, id, m + j) /\ m + j \in Nat
  <2>1. j + 1 \in 1 .. Len(q) /\ m + ((j + 1) - 1) = m + j
    BY <1>1
  <2>2. q[j + 1] = Msg(at, id, m + ((j + 1) - 1))
    BY <2>1 DEF Queued
  <2> QED BY <1>1, <2>1, <2>2
<1>4. Queued(at, id, m + 1, Tail(q))
  <2>1. \A j \in 1 .. Len(Tail(q)) : (m + 1) + (j - 1) = m + j
    BY <1>1
  <2> QED BY <1>3, <2>1 DEF Queued
<1>5. ASSUME m # 0 PROVE Queued(Without(at, m), id, m, Tail(q))
  <2> SUFFICES ASSUME NEW j \in 1 .. Len(Tail(q))
               PROVE  Msg(at, id, m + j) = Msg(Without(at, m), id, m + (j - 1))
    BY <1>3 DEF Queued
  <2>1. m + (j - 1) \in Nat \ {0} /\ ~ (m + (j - 1) < m) /\ (m + (j - 1)) + 1 = m + j /\ m + j \in Nat \ {0}
    BY <1>1, <1>5
  <2>2. Without(at, m)[m + (j - 1)] = at[m + j]
    BY <2>1 DEF Without
  <2> QED BY <2>1, <2>2, MessageTypes
<1> QED BY <1>1, <1>2, <1>4, <1>5

\* An event is put into a channel.
LEMMA QueueGrown ==
    ASSUME NEW at \in Numbers, NEW id, NEW m \in Nat, NEW S, NEW q \in Seq(S), m + Len(q) >= 1,
           Queued(at, id, m, q), NEW n \in Nat, Event(n) \in S
    PROVE  Queued([at EXCEPT ![m + Len(q)] = n], id, m, Append(q, Event(n)))
<1> DEFINE e == m + Len(q)
           bt == [at EXCEPT ![e] = n]
<1>1. /\ Len(q) \in Nat /\ Len(Append(q, Event(n))) = Len(q) + 1
      /\ Append(q, Event(n))[Len(q) + 1] = Event(n)
      /\ \A j \in 1 .. Len(q) : Append(q, Event(n))[j] = q[j]
  BY SequenceParts
<1>0. e \in Nat \ {0}
  BY <1>1
<1>2. bt[e] = n /\ \A x \in Nat : x # e => bt[x] = at[x]
  <2> HIDE DEF e
  <2> QED BY <1>0 DEF Numbers
<1> HIDE DEF bt
<1> SUFFICES ASSUME NEW j \in 1 .. Len(q) + 1
             PROVE  Append(q, Event(n))[j] = Msg(bt, id, m + (j - 1))
  BY <1>1 DEF Queued, bt
<1>3. CASE j = Len(q) + 1
  <2>1. m + (j - 1) = e
    BY <1>1, <1>3
  <2> HIDE DEF e
  <2>2. Msg(bt, id, e) = Event(n)
    BY <1>0, <1>2, MessageTypes
  <2> QED BY <1>1, <1>3, <2>1, <2>2
<1>4. CASE j \in 1 .. Len(q)
  <2>1. m + (j - 1) \in Nat /\ m + (j - 1) # e
    BY <1>1, <1>4
  <2>2. bt[m + (j - 1)] = at[m + (j - 1)]
    BY <1>2, <2>1
  <2>3. q[j] = Msg(at, id, m + (j - 1))
    BY <1>4 DEF Queued
  <2> QED BY <1>1, <1>4, <2>2, <2>3 DEF Msg
<1> QED BY <1>1, <1>3, <1>4

\* Only the numbers below m matter to what was written and what is on its way.
LEMMA WrittenAlike ==
    ASSUME NEW at \in Numbers, NEW bt \in Numbers, NEW m \in Nat, \A x \in Nat : x < m => bt[x] = at[x],
           NEW id
    PROVE  /\ \A E \in Nat : \A s : Carries(at, id, E, m, s) => Carries(bt, id, E, m, s)
           /\ \A rec, t : Recorded(at, id, rec, t, m) => Recorded(bt, id, rec, t, m)
<1>1. \A x \in Nat : x < m => Msg(bt, id, x) = Msg(at, id, x)
  BY DEF Msg
<1>2. ASSUME NEW E \in Nat, NEW s, Carries(at, id, E, m, s) PROVE Carries(bt, id, E, m, s)
  <2>1. \A j \in 1 .. Len(s) : E + (j - 1) \in Nat
    OBVIOUS
  <2> QED BY <1>1, <1>2, <2>1 DEF Carries
<1>3. ASSUME NEW rec, NEW t, Recorded(at, id, rec, t, m) PROVE Recorded(bt, id, rec, t, m)
  BY <1>1, <1>3 DEF Recorded
<1> QED BY <1>2, <1>3

\* The write pump puts message m on the stream.
LEMMA MessageCarried ==
    ASSUME NEW at, NEW id, NEW E \in Nat, NEW m \in Nat, NEW s \in Seq(Records),
           Carries(at, id, E, m, s), NEW r \in Records, r = [seq |-> m, msg |-> Msg(at, id, m)]
    PROVE  /\ E + Len(s) <= m => Carries(at, id, E, m + 1, s)
           /\ E + Len(s) = m => Carries(at, id, E, m + 1, s \o <<r>>)
<1>1. /\ Len(s) \in Nat /\ Len(s \o <<r>>) = Len(s) + 1 /\ (s \o <<r>>)[Len(s) + 1] = r
      /\ \A j \in 1 .. Len(s) : (s \o <<r>>)[j] = s[j]
  BY SequenceParts
<1>2. ASSUME E + Len(s) <= m, NEW j \in 1 .. Len(s)
      PROVE  E + (j - 1) < m /\ s[j] = [seq |-> E + (j - 1), msg |-> Msg(at, id, E + (j - 1))]
  BY <1>1, <1>2 DEF Carries
<1>3. ASSUME E + Len(s) <= m PROVE Carries(at, id, E, m + 1, s)
  <2>1. \A j \in 1 .. Len(s) : ~ (E + (j - 1) >= m + 1)
    BY <1>2, <1>3, <1>1
  <2>2. m + 1 # 0
    OBVIOUS
  <2> QED BY <1>2, <1>3, <2>1, <2>2 DEF Carries
<1>4. ASSUME E + Len(s) = m PROVE Carries(at, id, E, m + 1, s \o <<r>>)
  <2> SUFFICES ASSUME NEW j \in 1 .. Len(s) + 1
               PROVE  /\ ~ (E + (j - 1) >= m + 1)
                      /\ (s \o <<r>>)[j] = [seq |-> E + (j - 1), msg |-> Msg(at, id, E + (j - 1))]
    <3>1. m + 1 # 0
      OBVIOUS
    <3> QED BY <1>1, <3>1 DEF Carries
  <2>1. ~ (E + (j - 1) >= m + 1)
    BY <1>1, <1>4
  <2>2. CASE j = Len(s) + 1
    <3>1. E + (j - 1) = m
      BY <1>1, <1>4, <2>2
    <3> QED BY <1>1, <2>1, <2>2, <3>1
  <2>3. CASE j \in 1 .. Len(s)
    BY <1>1, <1>2, <1>4, <2>1, <2>3
  <2> QED BY <1>1, <2>2, <2>3
<1> QED BY <1>3, <1>4

\* It puts an event on the stream after a number was spent.
LEMMA UnnumberedCarried ==
    ASSUME NEW at, NEW id, NEW E \in Nat, NEW m \in Nat \ {0}, NEW s \in Seq(Records),
           Carries(at, id, E, m, s), E + Len(s) >= m,
           NEW r \in Records, r.seq > m, r.msg.type = "event"
    PROVE  Carries(at, id, E, m, s \o <<r>>)
<1>1. /\ Len(s) \in Nat /\ Len(s \o <<r>>) = Len(s) + 1 /\ (s \o <<r>>)[Len(s) + 1] = r
      /\ \A j \in 1 .. Len(s) : (s \o <<r>>)[j] = s[j]
  BY SequenceParts
<1> SUFFICES ASSUME NEW j \in 1 .. Len(s) + 1
             PROVE  /\ E + (j - 1) < m => (s \o <<r>>)[j] = [seq |-> E + (j - 1), msg |-> Msg(at, id, E + (j - 1))]
                    /\ E + (j - 1) >= m => (s \o <<r>>)[j].seq > m /\ (s \o <<r>>)[j].msg.type = "event"
  BY <1>1 DEF Carries
<1>2. CASE j = Len(s) + 1
  <2>1. ~ (E + (j - 1) < m)
    BY <1>1, <1>2
  <2> QED BY <1>1, <1>2, <2>1
<1>3. CASE j \in 1 .. Len(s)
  <2>1. (s \o <<r>>)[j] = s[j]
    BY <1>1, <1>3
  <2> QED BY <1>3, <2>1 DEF Carries
<1> QED BY <1>1, <1>2, <1>3

\* What drainDeadQueue writes, as far as it gets, to a client that expects E.
LEMMA RecordCarried ==
    ASSUME NEW at, NEW id, NEW E \in Nat, NEW m \in Nat \ {0}, NEW t \in Nat,
           NEW rec \in [Nat -> Records], Recorded(at, id, rec, t, m), Numbered(rec, t, m),
           NEW s \in Seq(Records), E + Len(s) <= t, \A j \in 1 .. Len(s) : s[j] = rec[E + (j - 1)]
    PROVE  Carries(at, id, E, m, s)
<1> SUFFICES ASSUME NEW j \in 1 .. Len(s)
             PROVE  /\ E + (j - 1) < m => s[j] = [seq |-> E + (j - 1), msg |-> Msg(at, id, E + (j - 1))]
                    /\ E + (j - 1) >= m => s[j].seq > m /\ s[j].msg.type = "event"
  BY DEF Carries
<1>1. E + (j - 1) \in Nat /\ E + (j - 1) < t /\ s[j] = rec[E + (j - 1)]
  <2>1. Len(s) \in Nat
    BY SequenceParts
  <2> QED BY <2>1
<1>2. rec[E + (j - 1)] = [seq |-> rec[E + (j - 1)].seq, msg |-> rec[E + (j - 1)].msg]
  BY <1>1, RecordParts
<1>3. CASE E + (j - 1) < m
  BY <1>1, <1>2, <1>3 DEF Recorded, Numbered
<1>4. CASE ~ (E + (j - 1) < m)
  BY <1>1, <1>4 DEF Recorded, Numbered
<1> QED BY <1>3, <1>4

\* What arrives first has the number the client expects, or is not for it.
LEMMA CarriedFirst ==
    ASSUME NEW at, NEW id, NEW E \in Nat, NEW m \in Nat, E < m, NEW s \in Seq(Records),
           s # <<>>, Carries(at, id, E, m, s)
    PROVE  Head(s) = [seq |-> E, msg |-> Msg(at, id, E)]
<1>1. Len(s) \in Nat \ {0} /\ Head(s) = s[1]
  BY SequenceParts
<1>2. 1 \in 1 .. Len(s) /\ E + (1 - 1) = E
  BY <1>1
<1> QED BY <1>1, <1>2 DEF Carries

\* A record sent behind the others carries the next number, or one that is never asked for.
LEMMA CarriedBeyond ==
    ASSUME NEW at, NEW id, NEW m \in Nat, NEW s \in Seq(Records), s # <<>>, Carries(at, id, m, m, s)
    PROVE  m # 0 /\ Head(s).seq # m /\ Head(s).msg.type = "event"
<1>1. Len(s) \in Nat \ {0} /\ Head(s) = s[1] /\ Head(s) \in Records
  BY SequenceParts
<1>2. \A j \in 1 .. Len(s) : m + (j - 1) >= m => s[j].seq > m /\ s[j].msg.type = "event"
  BY DEF Carries
<1>3. Head(s).seq > m /\ Head(s).msg.type = "event"
  <2>1. 1 \in 1 .. Len(s) /\ m + (1 - 1) >= m
    BY <1>1
  <2> QED BY <1>1, <1>2, <2>1
<1>4. m # 0
  BY DEF Carries
<1> QED BY <1>1, <1>3, <1>4, RecordParts

\* It takes it, and expects what comes next.
LEMMA CarriedOn ==
    ASSUME NEW at, NEW id, NEW E \in Nat, NEW m \in Nat, NEW s \in Seq(Records),
           s # <<>>, Carries(at, id, E, m, s)
    PROVE  Carries(at, id, E + 1, m, Tail(s))
<1>1. Len(s) \in Nat \ {0} /\ Len(Tail(s)) = Len(s) - 1
      /\ \A j \in 1 .. Len(s) - 1 : Tail(s)[j] = s[j + 1]
  BY SequenceParts
<1>2. m # 0
  BY DEF Carries
<1>3. ASSUME NEW j \in 1 .. Len(Tail(s))
      PROVE  /\ (E + 1) + (j - 1) < m => Tail(s)[j] = [seq |-> (E + 1) + (j - 1), msg |-> Msg(at, id, (E + 1) + (j - 1))]
             /\ (E + 1) + (j - 1) >= m => Tail(s)[j].seq > m /\ Tail(s)[j].msg.type = "event"
  <2>1. j + 1 \in 1 .. Len(s) /\ E + ((j + 1) - 1) = (E + 1) + (j - 1) /\ Tail(s)[j] = s[j + 1]
    BY <1>1
  <2>2. /\ E + ((j + 1) - 1) < m => s[j + 1] = [seq |-> E + ((j + 1) - 1), msg |-> Msg(at, id, E + ((j + 1) - 1))]
        /\ E + ((j + 1) - 1) >= m => s[j + 1].seq > m /\ s[j + 1].msg.type = "event"
    BY <2>1 DEF Carries
  <2> QED BY <2>1, <2>2
<1>4. Carries(at, id, E + 1, m, Tail(s))
  BY <1>2, <1>3 DEF Carries
<1> QED BY <1>4

\* Message m joins the record, with or without its own number.
LEMMA RecordedOn ==
    ASSUME NEW at \in Numbers, NEW id, NEW rec \in [Nat -> Records], NEW m \in Nat, NEW t \in Nat,
           Numbered(rec, t, m), NEW r \in Records
    PROVE  /\ r.seq = m /\ t = m => Numbered([rec EXCEPT ![t] = r], t + 1, m + 1)
           /\ r.seq > m => Numbered([rec EXCEPT ![t] = r], t + 1, m)
           /\ Recorded(at, id, rec, t, m) /\ r.msg = Msg(at, id, m) /\ t = m
                => Recorded(at, id, [rec EXCEPT ![t] = r], t + 1, m + 1)
           /\ Recorded(at, id, rec, t, m) /\ r.msg.type = "event"
                => Recorded(at, id, [rec EXCEPT ![t] = r], t + 1, m)
<1> DEFINE rec2 == [rec EXCEPT ![t] = r]
<1>1. rec2[t] = r /\ \A x \in Nat : x # t => rec2[x] = rec[x]
  OBVIOUS
<1> HIDE DEF rec2
<1>2. m <= t
  BY DEF Numbered
<1>3. r.seq = m /\ t = m => Numbered(rec2, t + 1, m + 1)
  BY <1>1 DEF Numbered
<1>4. r.seq > m => Numbered(rec2, t + 1, m)
  BY <1>1 DEF Numbered
<1>5. Recorded(at, id, rec, t, m) /\ r.msg = Msg(at, id, m) /\ t = m => Recorded(at, id, rec2, t + 1, m + 1)
  BY <1>1 DEF Recorded
<1>6. Recorded(at, id, rec, t, m) /\ r.msg.type = "event" => Recorded(at, id, rec2, t + 1, m)
  BY <1>1, <1>2 DEF Recorded
<1> QED BY <1>3, <1>4, <1>5, <1>6 DEF rec2

-----------------------------------------------------------------------------
(* The hub in this system takes the steps of WebHub, whose invariants hold   *)
(* here as well.                                                             *)

HP == INSTANCE WebHub_proofs WITH
    Users <- {User}, Broadcasts <- {Event(n) : n \in 1 .. MaxEvents},
    hub <- "running", toClose <- {}, closing <- {}, rechallenged <- ~ TRUE

HubOK == HP!Typed /\ HP!Owned /\ HP!Identified

\* The constants of the hub are as its proofs assume them.
LEMMA HubConstants ==
    /\ sendQueueSize \in Nat \ {0}
    /\ sendSlowWarn \in 1 .. sendQueueSize
    /\ \A e \in {Event(n) : n \in 1 .. MaxEvents} : e.minor \in BOOLEAN
    /\ NoConn \notin Conns
    /\ NoUser \notin {User}
    /\ NoId \notin ConnIds
    /\ NoChannel \notin Channels
<1>1. ASSUME NEW e \in {Event(n) : n \in 1 .. MaxEvents} PROVE e.minor \in BOOLEAN
  <2>1. PICK n \in 1 .. MaxEvents : e = Event(n)
    OBVIOUS
  <2>2. Event(n).minor = (n \in MinorEvents)
    BY DEF Event
  <2>3. (n \in MinorEvents) \in BOOLEAN
    OBVIOUS
  <2> QED BY <2>1, <2>2, <2>3, Zenon
<1> QED BY <1>1

\* The hub's own steps keep its invariants (WebHub_proofs).
LEMMA HubKept == HubOK /\ [HP!Next]_HP!vars => HubOK'
<1>1. HP!Typed /\ [HP!Next]_HP!vars => HP!Typed'
  BY HP!NextTyped, HubConstants DEF HP!HubAssumption
<1>2. HP!Typed /\ HP!Owned /\ [HP!Next]_HP!vars => HP!Owned'
  BY HP!NextOwned, HubConstants DEF HP!HubAssumption
<1>3. HP!Typed /\ HP!Owned /\ HP!Identified /\ [HP!Next]_HP!vars => HP!Identified'
  BY HP!NextIdentified, HubConstants DEF HP!HubAssumption
<1> QED BY <1>1, <1>2, <1>3 DEF HubOK

\* They hold at the start.
LEMMA HubStarts == Hub!Init => HubOK
<1>0. Hub!Init => HP!Init
  BY DEF Hub!Init, HP!Init
<1>1. HP!Init => HP!Typed
  BY HP!InitTyped, HubConstants DEF HP!HubAssumption
<1>2. HP!Init => HP!Owned
  BY HP!InitOwned, HubConstants DEF HP!HubAssumption
<1>3. HP!Init => HP!Identified
  BY HP!InitIdentified, HubConstants DEF HP!HubAssumption
<1> QED BY <1>0, <1>1, <1>2, <1>3 DEF HubOK

\* The hub's messages are the same in both instances.
LEMMA SameMessages == HP!Messages = Hub!Messages
BY DEF HP!Messages, Hub!Messages, HP!Hello, Hub!Hello, HP!Response, Hub!Response

\* A step of the handler is one of the hub's module,
LEMMA SameHandler ==
    /\ \A c, u, id : Hub!ConnectFresh(c, u, id) => HP!ConnectFresh(c, u, id)
    /\ \A c, u, id : Hub!ConnectReuse(c, u, id) => HP!ConnectReuse(c, u, id)
    /\ \A c, u, id, new : Hub!ConnectNotFound(c, u, id, new) => HP!ConnectNotFound(c, u, id, new)
    /\ \A c : Hub!HandlerRegister(c) => HP!HandlerRegister(c)
    /\ \A c : Hub!HandlerRegisterFails(c) => HP!HandlerRegisterFails(c)
    /\ \A c : Hub!Pump(c) => HP!Pump(c)
    /\ \A c : Hub!ReadPumpEnds(c) => HP!ReadPumpEnds(c)
    /\ \A c : Hub!Unregister(c) => HP!Unregister(c)
    /\ \A c : Hub!SessionLapses(c) => HP!SessionLapses(c)
<1> USE DEF Hub!Build, HP!Build, Hub!NewIds, HP!NewIds, Hub!UsedIds, HP!UsedIds, Hub!NewChannels, HP!NewChannels,
            Hub!hubVars, HP!hubVars, Hub!indexVars, HP!indexVars, Hub!pumpVars, HP!pumpVars,
            Hub!identVars, HP!identVars, Hub!chanVars, HP!chanVars
<1>1. \A c, u, id : Hub!ConnectFresh(c, u, id) => HP!ConnectFresh(c, u, id)
  BY DEF Hub!ConnectFresh, HP!ConnectFresh
<1>2. \A c, u, id : Hub!ConnectReuse(c, u, id) => HP!ConnectReuse(c, u, id)
  BY DEF Hub!ConnectReuse, HP!ConnectReuse, Hub!Inactive, HP!Inactive, Hub!ForUser, HP!ForUser,
         Hub!IndexRemove, HP!IndexRemove, Hub!HubRunning, HP!HubRunning
<1>3. \A c, u, id, new : Hub!ConnectNotFound(c, u, id, new) => HP!ConnectNotFound(c, u, id, new)
  BY <1>1 DEF Hub!ConnectNotFound, HP!ConnectNotFound, Hub!Inactive, HP!Inactive, Hub!ForUser, HP!ForUser,
         Hub!StopClosed, HP!StopClosed
<1>4. \A c : Hub!HandlerRegister(c) => HP!HandlerRegister(c)
  BY DEF Hub!HandlerRegister, HP!HandlerRegister, Hub!Register, HP!Register, Hub!HubRunning, HP!HubRunning,
         Hub!IndexAdd, HP!IndexAdd, Hub!Greet, HP!Greet, Hub!Hello, HP!Hello
<1>5. \A c : Hub!HandlerRegisterFails(c) => HP!HandlerRegisterFails(c)
  BY DEF Hub!HandlerRegisterFails, HP!HandlerRegisterFails, Hub!HubRunning, HP!HubRunning
<1>6. \A c : Hub!Pump(c) => HP!Pump(c)
  BY DEF Hub!Pump, HP!Pump
<1>7. \A c : Hub!ReadPumpEnds(c) => HP!ReadPumpEnds(c)
  BY DEF Hub!ReadPumpEnds, HP!ReadPumpEnds
<1>8. \A c : Hub!Unregister(c) => HP!Unregister(c)
  BY DEF Hub!Unregister, HP!Unregister, Hub!HubRunning, HP!HubRunning, Hub!StopClosed, HP!StopClosed
<1>9. \A c : Hub!SessionLapses(c) => HP!SessionLapses(c)
  BY DEF Hub!SessionLapses, HP!SessionLapses, Hub!HubRunning, HP!HubRunning, Hub!Request, HP!Request
<1> QED BY <1>1, <1>2, <1>3, <1>4, <1>5, <1>6, <1>7, <1>8, <1>9

\* and so is one of the write pump,
LEMMA SameWriter ==
    /\ \A c : Hub!WriterResumes(c) => HP!WriterResumes(c)
    /\ \A c : Hub!WriterRestarts(c) => HP!WriterRestarts(c)
    /\ \A c : Hub!WriterSends(c) => HP!WriterSends(c)
    /\ \A c : Hub!WriterSkips(c) => HP!WriterSkips(c)
    /\ \A c : Hub!WriterSeesClosed(c) => HP!WriterSeesClosed(c)
    /\ \A c : Hub!WriterStops(c) => HP!WriterStops(c)
<1> USE DEF Hub!WriterDone, HP!WriterDone, Hub!hubVars, HP!hubVars, Hub!indexVars, HP!indexVars,
            Hub!pumpVars, HP!pumpVars, Hub!identVars, HP!identVars, Hub!chanVars, HP!chanVars
<1>1. \A c : Hub!WriterResumes(c) => HP!WriterResumes(c)
  BY DEF Hub!WriterResumes, HP!WriterResumes
<1>2. \A c : Hub!WriterRestarts(c) => HP!WriterRestarts(c)
  BY DEF Hub!WriterRestarts, HP!WriterRestarts, Hub!NewIds, HP!NewIds, Hub!UsedIds, HP!UsedIds
<1>3. \A c : Hub!WriterSends(c) => HP!WriterSends(c)
  BY DEF Hub!WriterSends, HP!WriterSends
<1>4. \A c : Hub!WriterSkips(c) => HP!WriterSkips(c)
  BY DEF Hub!WriterSkips, HP!WriterSkips
<1>5. \A c : Hub!WriterSeesClosed(c) => HP!WriterSeesClosed(c)
  BY DEF Hub!WriterSeesClosed, HP!WriterSeesClosed
<1>6. \A c : Hub!WriterStops(c) => HP!WriterStops(c)
  BY DEF Hub!WriterStops, HP!WriterStops
<1> QED BY <1>1, <1>2, <1>3, <1>4, <1>5, <1>6

\* and one of the hub.
LEMMA SameHubCases ==
    /\ \A T, F, m : Hub!Broadcast(T, F, m) => HP!Broadcast(T, F, m)
    /\ \A S : Hub!Reap(S) => HP!Reap(S)
    /\ \A u : Hub!InvalidateUserFails(u) => HP!InvalidateUserFails(u)
    /\ Hub!Recover => HP!Recover
    /\ \A c : Hub!Release(c) => HP!Release(c)
<1> USE DEF Hub!hubVars, HP!hubVars, Hub!indexVars, HP!indexVars,
            Hub!pumpVars, HP!pumpVars, Hub!identVars, HP!identVars, Hub!chanVars, HP!chanVars,
            Hub!HubRunning, HP!HubRunning, Hub!ForUser, HP!ForUser, Hub!IndexRemove, HP!IndexRemove
<1>1. \A T, F, m : Hub!Broadcast(T, F, m) => HP!Broadcast(T, F, m)
  BY DEF Hub!Broadcast, HP!Broadcast, Hub!Enqueue, HP!Enqueue,
         Hub!ShouldSendEvent, HP!ShouldSendEvent
<1>2. \A S : Hub!Reap(S) => HP!Reap(S)
  BY DEF Hub!Reap, HP!Reap
<1>3. \A u : Hub!InvalidateUserFails(u) => HP!InvalidateUserFails(u)
  BY DEF Hub!InvalidateUserFails, HP!InvalidateUserFails
<1>4. Hub!Recover => HP!Recover
  BY DEF Hub!Recover, HP!Recover
<1>5. \A c : Hub!Release(c) => HP!Release(c)
  BY DEF Hub!Release, HP!Release
<1> QED BY <1>1, <1>2, <1>3, <1>4, <1>5

\* The types of what this module adds to the hub.
StreamTyped ==
    /\ Sequence \in [Conns -> Nat]
    /\ deadQueue \in [Channels -> [DQ!Slot -> Records \cup {Nil}]]
    /\ deadQueuePointer \in [Channels -> DQ!Slot]
    /\ conn \in Conns \cup {NoConn} /\ connectionId \in ConnIds \cup {NoId} /\ serverSequence \in Nat
    /\ requests \in SUBSET [conn : Conns, id : ConnIds \cup {NoId}, seq : Nat]
    /\ linkUp \in BOOLEAN /\ net \in Seq(Records)
    /\ produced \in 0 .. MaxEvents /\ delivered \in Seq(Nat)
    /\ loaded \in [ConnIds -> 0 .. MaxEvents] /\ \A id \in ConnIds : loaded[id] <= produced

\* What the hub's invariants say, spelled out.
HubShape ==
    /\ byUserId \in [{User} -> SUBSET Conns] /\ byConnection \in SUBSET Conns /\ byUserId[User] = byConnection
    /\ byConnectionId \in [ConnIds -> Conns \cup {NoConn}]
    /\ phase \in [Conns -> {"free", "built", "registered", "pumping", "readDone", "finished"}]
    /\ writer \in [Conns -> {"idle", "start", "loop", "done"}]
    /\ sockOpen \in [Conns -> BOOLEAN] /\ Active \in [Conns -> BOOLEAN]
    /\ UserId \in [Conns -> {User, NoUser}]
    /\ connectionID \in [Conns -> ConnIds \cup {NoId}]
    /\ send \in [Conns -> Channels \cup {NoChannel}]
    /\ reuseCount \in [Conns -> {0, 1}]
    /\ queue \in [Channels -> Seq(Hub!Messages)]
    /\ lapsed \in SUBSET Conns
    /\ \A c \in Conns : phase[c] # "free" => connectionID[c] \in ConnIds /\ send[c] \in Channels
    /\ \A c \in byConnection : phase[c] \notin {"free", "built"}
    /\ \A c \in byConnection : ~ Active[c] => phase[c] = "finished" /\ writer[c] = "done"
    /\ \A c, d \in Hub!Owners : send[c] = send[d] => c = d
    /\ \A c, d \in Hub!Owners : connectionID[c] = connectionID[d] => c = d

\* The hub's invariants, spelled out.
LEMMA HubFacts == HubOK => HubShape
<1> SUFFICES ASSUME HubOK PROVE HubShape
  OBVIOUS
<1>1. /\ byUserId \in [{User} -> SUBSET Conns] /\ byConnection \in SUBSET Conns
      /\ byConnectionId \in [ConnIds -> Conns \cup {NoConn}]
      /\ phase \in [Conns -> {"free", "built", "registered", "pumping", "readDone", "finished"}]
      /\ writer \in [Conns -> {"idle", "start", "loop", "done"}]
      /\ sockOpen \in [Conns -> BOOLEAN] /\ Active \in [Conns -> BOOLEAN]
      /\ connectionID \in [Conns -> ConnIds \cup {NoId}]
      /\ send \in [Conns -> Channels \cup {NoChannel}]
      /\ reuseCount \in [Conns -> {0, 1}]
      /\ queue \in [Channels -> Seq(Hub!Messages)]
      /\ lapsed \in SUBSET Conns
  BY SameMessages DEF HubOK, HP!Typed, HP!TypeOK
<1>2. UserId \in [Conns -> {User, NoUser}]
  <2>1. {User} \cup {NoUser} = {User, NoUser}
    OBVIOUS
  <2> QED BY <2>1 DEF HubOK, HP!Typed, HP!TypeOK
<1>3. /\ \A c \in Conns : phase[c] # "free" => connectionID[c] \in ConnIds /\ send[c] \in Channels
      /\ \A c \in byConnection : phase[c] \notin {"free", "built"} /\ UserId[c] # NoUser
  BY DEF HubOK, HP!Typed, HP!Complete, HP!Registered
<1>4. byUserId[User] = byConnection
  <2>1. byUserId[User] = {c \in byConnection : UserId[c] = User}
    BY DEF HubOK, HP!Typed, HP!IndexesAgree
  <2> QED BY <1>1, <1>2, <1>3, <2>1
<1>5. \A c \in byConnection : ~ Active[c] => phase[c] = "finished" /\ writer[c] = "done"
  BY DEF HubOK, HP!Owned, HP!InactiveMeansFinished
<1>6. HP!Owners = Hub!Owners
  BY DEF HP!Owners, Hub!Owners
<1>7. /\ \A c, d \in Hub!Owners : send[c] = send[d] => c = d
      /\ \A c, d \in Hub!Owners : connectionID[c] = connectionID[d] => c = d
  BY <1>6 DEF HubOK, HP!Owned, HP!SoleOwner, HP!Identified, HP!IdsUnique
<1> QED BY <1>1, <1>2, <1>3, <1>4, <1>5, <1>7 DEF HubShape

\* Ids and channels that are handed out are in no owner's hands.
LEMMA NewOnes ==
    ASSUME HubShape
    PROVE  /\ FreshIds \subseteq ConnIds
           /\ \A id \in FreshIds : /\ id # connectionId /\ \A r \in requests : r.id # id
                                    /\ \A c \in Conns : phase[c] # "free" => connectionID[c] # id
           /\ Hub!NewChannels \subseteq Channels
           /\ \A ch \in Hub!NewChannels : \A c \in Conns : phase[c] # "free" => send[c] # ch
<1> USE DEF HubShape
<1>1. FreshIds \subseteq ConnIds
  BY DEF FreshIds, Hub!NewIds
<1>2. \A id \in FreshIds : id # connectionId /\ \A r \in requests : r.id # id
  BY DEF FreshIds
<1>3. \A id \in FreshIds : \A c \in Conns : phase[c] # "free" => connectionID[c] # id
  BY DEF FreshIds, Hub!NewIds, Hub!UsedIds
<1>4. Hub!NewChannels \subseteq Channels
  BY DEF Hub!NewChannels
<1>5. \A ch \in Hub!NewChannels : \A c \in Conns : phase[c] # "free" => send[c] # ch
  BY DEF Hub!NewChannels
<1> QED BY <1>1, <1>2, <1>3, <1>4, <1>5

\* Owners of channels have an id and a channel; the index consists of owners.
LEMMA OwnerFacts ==
    ASSUME HubShape
    PROVE  /\ Hub!Owners \subseteq Conns
           /\ \A c \in Hub!Owners : phase[c] # "free" /\ connectionID[c] \in ConnIds /\ send[c] \in Channels
           /\ \A c \in Conns : phase[c] \in {"built", "registered", "pumping", "readDone"} => c \in Hub!Owners
           /\ byConnection \subseteq Hub!Owners
<1> USE DEF HubShape
<1>1. Hub!Owners \subseteq Conns /\ byConnection \subseteq Hub!Owners
  BY DEF Hub!Owners
<1>2. \A c \in Hub!Owners : phase[c] # "free"
  BY DEF Hub!Owners
<1>3. \A c \in Conns : phase[c] \in {"built", "registered", "pumping", "readDone"} => c \in Hub!Owners
  BY DEF Hub!Owners
<1> QED BY <1>1, <1>2, <1>3

-----------------------------------------------------------------------------
(* The hub's invariants hold in this system. *)

\* Collecting a connection differs from the hub's own: its stale entries go with it.
LEMMA HubCollects == ASSUME HubOK, NEW c \in Conns, Collect(c) PROVE HubOK'
<1>0. /\ HubShape
      /\ phase[c] = "finished" /\ c \notin byConnection
      /\ phase' = [phase EXCEPT ![c] = "free"] /\ writer' = [writer EXCEPT ![c] = "idle"]
      /\ Active' = [Active EXCEPT ![c] = FALSE] /\ UserId' = [UserId EXCEPT ![c] = NoUser]
      /\ connectionID' = [connectionID EXCEPT ![c] = NoId]
      /\ send' = [send EXCEPT ![c] = NoChannel] /\ reuseCount' = [reuseCount EXCEPT ![c] = 0]
      /\ UNCHANGED <<byUserId, byConnection, sockOpen, queue, closed>>
      /\ lapsed' = lapsed \ {c}
      /\ byConnectionId' = [id \in ConnIds |-> IF byConnectionId[id] = c THEN NoConn ELSE byConnectionId[id]]
  BY HubFacts DEF Collect, Hub!Release, Hub!chanVars
<1>1. HP!TypeOK'
  BY <1>0 DEF HubOK, HP!Typed, HP!TypeOK, HubShape
<1>2. HP!Complete' /\ HP!Registered'
  BY <1>0 DEF HubOK, HP!Typed, HP!TypeOK, HP!Complete, HP!Registered
<1>3. HP!IndexesAgree'
  BY <1>0 DEF HubOK, HP!Typed, HP!TypeOK, HP!IndexesAgree
<1>4. HP!Owners' = HP!Owners /\ c \notin HP!Owners
  BY <1>0 DEF HP!Owners, HubShape
<1>5. \A d \in HP!Owners : d \in Conns /\ d # c /\ send'[d] = send[d] /\ connectionID'[d] = connectionID[d]
                             /\ connectionID[d] \in ConnIds
  BY <1>0, <1>4 DEF HP!Owners, HubShape
<1>6. HP!SoleOwner' /\ HP!IdsUnique'
  BY <1>4, <1>5 DEF HubOK, HP!Owned, HP!SoleOwner, HP!Identified, HP!IdsUnique
<1>7. HP!InactiveMeansFinished'
  BY <1>0 DEF HubOK, HP!Owned, HP!InactiveMeansFinished, HubShape
<1>8. HP!EntriesCurrent'
  BY <1>0, <1>4, <1>5 DEF HubOK, HP!Identified, HP!EntriesCurrent
<1> QED BY <1>1, <1>2, <1>3, <1>6, <1>7, <1>8 DEF HubOK, HP!Typed, HP!Owned, HP!Identified

\* Every step here keeps the hub's invariants.
LEMMA HubStep == StreamTyped /\ HubOK /\ [Next]_vars => HubOK'
<1> SUFFICES ASSUME StreamTyped, HubOK, [Next]_vars PROVE HubOK'
  OBVIOUS
<1>0. HubShape
  BY HubFacts
<1>1. ASSUME [HP!Next]_HP!vars PROVE HubOK'
  BY <1>1, HubKept
<1>2. ASSUME UNCHANGED hubVars PROVE HubOK'
  BY <1>1, <1>2 DEF hubVars, HP!vars, HP!hubVars, HP!indexVars, HP!pumpVars, HP!identVars, HP!chanVars
<1>3. ASSUME NEW c \in Conns, HP!Handler(c) \/ HP!Writer(c) PROVE HubOK'
  BY <1>1, <1>3 DEF HP!Next
<1>4. ASSUME HP!HubCase PROVE HubOK'
  BY <1>1, <1>4 DEF HP!Next
<1>5. ASSUME NEW c \in Conns, Handler(c) PROVE HubOK'
  BY <1>3, <1>5, SameHandler DEF Handler, Register, RegisterFails, Pump, ReadPumpEnds, SessionLapses,
                                 Unregister, HP!Handler
<1>6. ASSUME NEW c \in Conns, Writer(c) PROVE HubOK'
  BY <1>3, <1>6, SameWriter DEF Writer, StartLossless, StartDraining, StartOver, Send, EncodeError, SeeClosed,
                                StopWriting, HP!Writer
<1>7. ASSUME NEW r \in requests, Accept(r) PROVE HubOK'
  <2>1. r.conn \in Conns /\ r.id \in ConnIds \cup {NoId}
    BY DEF StreamTyped
  <2>2. ASSUME NEW id \in FreshIds, Hub!ConnectFresh(r.conn, User, id) PROVE HubOK'
    BY <1>0, <1>3, <2>1, <2>2, SameHandler, NewOnes DEF HP!Handler
  <2>3. ASSUME NEW id \in FreshIds, r.id # NoId, Hub!ConnectNotFound(r.conn, User, r.id, id) PROVE HubOK'
    BY <1>0, <1>3, <2>1, <2>3, SameHandler, NewOnes DEF HP!Handler
  <2>4. ASSUME Hub!ConnectReuse(r.conn, User, r.id) PROVE HubOK'
    <3>1. r.id \in ConnIds
      <4>1. PICK old \in Hub!Inactive(User, r.id) : TRUE
        BY <2>4 DEF Hub!ConnectReuse
      <4>2. old \in byConnection /\ connectionID[old] = r.id
        BY <1>0 DEF Hub!Inactive, Hub!ForUser, HubShape
      <4> QED BY <1>0, <4>2, OwnerFacts
    <3> QED BY <1>3, <2>1, <2>4, <3>1, SameHandler DEF HP!Handler
  <2> QED BY <1>7, <2>2, <2>3, <2>4 DEF Accept
<1>8. ASSUME Broadcast PROVE HubOK'
  <2>0. produced + 1 \in 1 .. MaxEvents
    BY <1>8 DEF Broadcast, StreamTyped
  <2>1. Event(produced + 1) \in {Event(n) : n \in 1 .. MaxEvents}
    BY <2>0, Zenon
  <2>2. PICK F \in SUBSET Hub!ForUser(User) : HP!Broadcast(Hub!ForUser(User), F, Event(produced + 1))
    BY <1>8, SameHubCases DEF Broadcast
  <2>3. Hub!ForUser(User) \in HP!EventTargets
    BY DEF HP!EventTargets, HP!ForUser, Hub!ForUser
  <2> QED BY <1>4, <2>1, <2>2, <2>3 DEF HP!HubCase
<1>9. ASSUME NEW c \in Conns, Reap(c) PROVE HubOK'
  <2>1. HP!Reap({c}) /\ {c} \in SUBSET byConnection
    BY <1>9, SameHubCases DEF Reap, Hub!Reap
  <2> QED BY <1>4, <2>1 DEF HP!HubCase
<1>10. ASSUME InvalidateUserFails \/ Recover PROVE HubOK'
  BY <1>4, <1>10, SameHubCases DEF InvalidateUserFails, Recover, HP!HubCase
<1>11. ASSUME NEW c \in Conns, Collect(c) PROVE HubOK'
  BY <1>11, HubCollects
<1>12. ASSUME \/ \E c \in Conns : Dial(c)
              \/ \E r \in requests : LoseRequest(r)
              \/ Break \/ ClientCloses \/ Receive \/ UNCHANGED vars
       PROVE  HubOK'
  BY <1>2, <1>12 DEF Dial, LoseRequest, Break, ClientCloses, Receive, vars
<1> QED BY <1>5, <1>6, <1>7, <1>8, <1>9, <1>10, <1>11, <1>12 DEF Next

-----------------------------------------------------------------------------
(* The inductive invariant.  For every stream the client knows, or is being  *)
(* told of, and for every owner of a channel, there is an assignment of      *)
(* events to numbers that explains what is in the dead queue, in the         *)
(* channel, and on the network.                                              *)

\* The client's connection carries stream id.
InNet(id) == linkUp /\ conn # NoConn /\ phase[conn] # "free" /\ connectionID[conn] = id

Relevant(id) == id \in ConnIds /\ (id = connectionId \/ InNet(id))

\* The number the client expects next on stream id.
Expected(id) == IF id = connectionId THEN serverSequence ELSE 0

\* The events the client need not find on the stream: those it knows, those excused,
\* and, on a new stream, those it will load when it gets the hello.
Base(id) ==
    seen \cup dropped \cup unencodable \cup skipped \cup unchecked
    \cup (IF id = connectionId THEN {}
          ELSE 1 .. (IF connectionId = NoId THEN loaded[id] ELSE produced))

Latest == Abstract!Latest(delivered)

\* Numbers up to m exist on stream id; what is on its way is in order, without a gap.
Stream(at, id, m) ==
    /\ Expected(id) <= m
    /\ Ordered(at, Expected(id), m, Latest, produced)
    /\ GapFree(at, Expected(id), m, Base(id))
    /\ InNet(id) => Carries(at, id, Expected(id), m, net)

\* The numbers of an owner's dead queue, and of what may be asked of it.
NumbersView(c, rec, t, m) ==
    /\ Ring(deadQueue[send[c]], deadQueuePointer[send[c]], rec, t)
    /\ Numbered(rec, t, m)
    /\ writer[c] \in {"idle", "start"} => Sequence[c] <= m /\ (Sequence[c] = 0 => t = 0)
    /\ writer[c] = "loop" => Sequence[c] >= m /\ (t > m => Sequence[c] > m)
    /\ \A r \in requests : r.id = connectionID[c] => 1 <= r.seq /\ r.seq <= m

\* The hub puts the user's events into the connection's channel, or excuses them.
Live(c) == c \in byConnection \/ (phase[c] = "built" /\ reuseCount[c] # 0)

End(c, m) == m + Len(queue[send[c]])

\* The write pump's number n and what is on its way to the client of its connection.
Link(w, n, E, s, t, m) ==
    /\ w \in {"idle", "start"} => n = E /\ s = <<>>
    /\ w = "loop" => IF t = m THEN E + Len(s) = m ELSE E + Len(s) > m

Content(c, at, rec, t, m) ==
    /\ m = 0 => t = 0 /\ Sequence[c] = 0
    /\ Recorded(at, connectionID[c], rec, t, m)
    /\ Queued(at, connectionID[c], m, queue[send[c]])
    /\ phase[c] = "built" /\ reuseCount[c] = 0 => m = 0 /\ queue[send[c]] = <<>>
    /\ LinkUp(c) => Link(writer[c], Sequence[c], Expected(connectionID[c]), net, t, m)
    /\ InNet(connectionID[c]) /\ t = m => Expected(connectionID[c]) + Len(net) <= m
    /\ Ordered(at, Expected(connectionID[c]), End(c, m), Latest, produced)
    /\ t = m => GapFree(at, Expected(connectionID[c]), End(c, m), Base(connectionID[c]))
    /\ t = m /\ Live(c) /\ End(c, m) >= 1 =>
         Covered(at, Expected(connectionID[c]), End(c, m), Base(connectionID[c]), produced)

Owns(c, at, rec, t, m) ==
    /\ NumbersView(c, rec, t, m)
    /\ Relevant(connectionID[c]) => Stream(at, connectionID[c], m) /\ Content(c, at, rec, t, m)

Served(c) ==
    \E at \in Numbers, rec \in [Nat -> Records] : \E t, m \in Nat : Owns(c, at, rec, t, m)

Explained(id) == \E at \in Numbers : \E m \in Nat : Stream(at, id, m)

Streams ==
    /\ \A c \in Hub!Owners : Served(c)
    /\ \A id \in ConnIds : Relevant(id) => Explained(id)

PumpsInOrder ==
    \A c \in Conns :
       /\ phase[c] \in {"free", "built", "registered"} => writer[c] = "idle"
       /\ phase[c] \in {"pumping", "readDone"} => writer[c] # "idle"
       /\ phase[c] = "finished" => writer[c] \in {"idle", "done"}

ClientInOrder ==
    /\ connectionId = NoId <=> serverSequence = 0
    /\ ~ linkUp => net = <<>>
    /\ conn = NoConn => ~ linkUp
    /\ linkUp /\ conn # NoConn /\ phase[conn] = "free" => net = <<>>
    /\ Latest <= produced

RequestsInOrder ==
    \A r \in requests :
       /\ phase[r.conn] = "free"
       /\ \A q \in requests : q.conn = r.conn => q = r
       /\ LinkUp(r.conn) => r.id = connectionId /\ r.seq = serverSequence /\ net = <<>>

\* A connection of the index has its hello, or needs none, or has lost its session.
HelloSent ==
    /\ \A c \in byConnection : c \in lapsed \/ Sequence[c] # 0 \/ queue[send[c]] # <<>>
    /\ \A c \in Conns : phase[c] = "built" /\ reuseCount[c] # 0 => Sequence[c] # 0

IInv == /\ StreamTyped /\ HubOK /\ PumpsInOrder /\ ClientInOrder /\ RequestsInOrder
        /\ Streams /\ HelloSent /\ NoSilentGap

-----------------------------------------------------------------------------
(* What a step leaves alone. *)

\* The client's view of stream id does not change, but for events excused.
Quiet(id) ==
    Relevant(id)' => /\ Relevant(id)
                     /\ Expected(id)' = Expected(id) /\ Base(id) \subseteq Base(id)'
                     /\ Latest' = Latest /\ produced <= produced'
                     /\ InNet(id)' => InNet(id) /\ net' = net

\* A connection that has not been told of its stream.
Ungreeted(d) == phase[d] = "built" /\ reuseCount[d] = 0

\* Nor does owner d's, but for a write pump that starts or ends.
Undisturbed(d) ==
    /\ d \in Hub!Owners
    /\ UNCHANGED <<connectionID[d], send[d], Sequence[d], reuseCount[d]>>
    /\ deadQueue'[send[d]] = deadQueue[send[d]] /\ deadQueuePointer'[send[d]] = deadQueuePointer[send[d]]
    /\ queue'[send[d]] = queue[send[d]]
    /\ phase'[d] = "built" => phase[d] = "built"
    /\ writer'[d] \in {writer[d], "done"} \/ (writer[d] = "idle" /\ writer'[d] = "start")
    /\ LinkUp(d)' => LinkUp(d) /\ net' = net
    /\ \/ Live(d)' => Live(d) /\ \A n \in Nat : produced < n /\ n <= produced' => n \in Base(connectionID[d])'
       \/ Ungreeted(d)
    /\ \A r \in requests' : r.id = connectionID[d] =>
         \/ r \in requests
         \/ Relevant(r.id) /\ r.seq = Expected(r.id) /\ r.seq >= 1

\* The numbers of the client's view.
LEMMA Bounds ==
    StreamTyped => /\ Latest \in Nat /\ produced \in Nat /\ Len(net) \in Nat
                   /\ \A id : Expected(id) \in Nat
<1> SUFFICES ASSUME StreamTyped
             PROVE  /\ Latest \in Nat /\ produced \in Nat /\ Len(net) \in Nat
                    /\ \A id : Expected(id) \in Nat
  OBVIOUS
<1>1. Latest \in Nat
  <2>1. delivered \in Seq(Nat) /\ (delivered # <<>> => delivered[Len(delivered)] \in Nat)
    BY DEF StreamTyped
  <2> QED BY <2>1 DEF Latest, Abstract!Latest
<1>2. \A id : Expected(id) \in Nat
  BY DEF Expected, StreamTyped
<1>3. Len(net) \in Nat /\ produced \in Nat
  BY SequenceParts DEF StreamTyped
<1> QED BY <1>1, <1>2, <1>3

\* A stream the step is quiet about stays explained as it was.
LEMMA KeptStream ==
    ASSUME StreamTyped, StreamTyped', NEW id, Quiet(id), Relevant(id)',
           NEW at \in Numbers, NEW m \in Nat, Stream(at, id, m)
    PROVE  Stream(at, id, m)'
<1>1. Latest \in Nat /\ produced \in Nat /\ Expected(id) \in Nat
  BY Bounds
<1>2. produced' \in Nat
  BY DEF StreamTyped
<1>3. /\ Expected(id)' = Expected(id) /\ Latest' = Latest /\ Base(id) \subseteq Base(id)'
      /\ produced <= produced' /\ (InNet(id)' => InNet(id) /\ net' = net)
  BY DEF Quiet
<1>4. /\ Expected(id) <= m
      /\ Ordered(at, Expected(id), m, Latest, produced)
      /\ GapFree(at, Expected(id), m, Base(id))
      /\ InNet(id) => Carries(at, id, Expected(id), m, net)
  BY DEF Stream
<1>5. /\ Ordered(at, Expected(id), m, Latest, produced')
      /\ GapFree(at, Expected(id), m, Base(id)')
  BY <1>1, <1>2, <1>3, <1>4, Grown
<1>6. InNet(id)' => Carries(at, id, Expected(id)', m, net')
  BY <1>3, <1>4
<1> QED BY <1>3, <1>4, <1>5, <1>6 DEF Stream

\* An owner it does not disturb keeps its numbers.
LEMMA KeptOwner ==
    ASSUME StreamTyped, StreamTyped', HubShape, NEW d, Undisturbed(d),
           NEW id, id = connectionID[d], Quiet(id),
           NEW at \in Numbers, NEW rec \in [Nat -> Records], NEW t \in Nat, NEW m \in Nat,
           Owns(d, at, rec, t, m)
    PROVE  Owns(d, at, rec, t, m)'
<1> PICK ch, q, E, e : ch = send[d] /\ q = queue[ch] /\ E = Expected(id) /\ e = m + Len(q)
  OBVIOUS
<1>0. /\ d \in Hub!Owners /\ id \in ConnIds /\ ch \in Channels /\ q \in Seq(Hub!Messages)
      /\ Len(q) \in Nat /\ d \in Conns
  BY OwnerFacts, SequenceParts DEF Undisturbed, HubShape
<1>1. /\ connectionID'[d] = id /\ send'[d] = ch /\ Sequence'[d] = Sequence[d] /\ reuseCount'[d] = reuseCount[d]
      /\ deadQueue'[ch] = deadQueue[ch] /\ deadQueuePointer'[ch] = deadQueuePointer[ch] /\ queue'[ch] = q
      /\ phase'[d] = "built" => phase[d] = "built"
      /\ writer'[d] \in {writer[d], "done"} \/ (writer[d] = "idle" /\ writer'[d] = "start")
      /\ LinkUp(d)' => LinkUp(d) /\ net' = net
      /\ \/ Live(d)' => Live(d) /\ \A n \in Nat : produced < n /\ n <= produced' => n \in Base(id)'
         \/ Ungreeted(d)
      /\ \A r \in requests' : r.id = id => \/ r \in requests
                                           \/ Relevant(id) /\ r.seq = Expected(id) /\ r.seq >= 1
  BY DEF Undisturbed
<1>2. NumbersView(d, rec, t, m) /\ (Relevant(id) => Stream(at, id, m) /\ Content(d, at, rec, t, m))
  BY DEF Owns
<1>3. NumbersView(d, rec, t, m)'
  <2>1. /\ Ring(deadQueue[ch], deadQueuePointer[ch], rec, t) /\ Numbered(rec, t, m)
        /\ writer[d] \in {"idle", "start"} => Sequence[d] <= m /\ (Sequence[d] = 0 => t = 0)
        /\ writer[d] = "loop" => Sequence[d] >= m /\ (t > m => Sequence[d] > m)
        /\ \A r \in requests : r.id = id => 1 <= r.seq /\ r.seq <= m
    BY <1>2 DEF NumbersView
  <2>2. Relevant(id) => Expected(id) <= m
    BY <1>2 DEF Stream
  <2>3. \A r \in requests' : r.id = id => 1 <= r.seq /\ r.seq <= m
    <3> SUFFICES ASSUME NEW r \in requests', r.id = id PROVE 1 <= r.seq /\ r.seq <= m
      OBVIOUS
    <3>1. r \in requests => 1 <= r.seq /\ r.seq <= m
      BY <2>1
    <3>2. r \in requests \/ (Relevant(id) /\ r.seq = Expected(id) /\ r.seq >= 1)
      BY <1>1
    <3>3. CASE Relevant(id) /\ r.seq = Expected(id) /\ r.seq >= 1
      BY <2>2, <3>3
    <3> QED BY <3>1, <3>2, <3>3
  <2>4. /\ writer'[d] \in {"idle", "start"} => Sequence'[d] <= m /\ (Sequence'[d] = 0 => t = 0)
        /\ writer'[d] = "loop" => Sequence'[d] >= m /\ (t > m => Sequence'[d] > m)
    BY <1>1, <2>1
  <2> QED BY <1>1, <2>1, <2>3, <2>4 DEF NumbersView
<1>4. ASSUME Relevant(id)' PROVE Stream(at, id, m)' /\ Content(d, at, rec, t, m)'
  <2>0. Quiet(id) /\ Relevant(id)
    BY <1>4 DEF Quiet
  <2>1. /\ Expected(id)' = E /\ Latest' = Latest /\ Base(id) \subseteq Base(id)' /\ produced <= produced'
        /\ InNet(id)' => InNet(id) /\ net' = net
    BY <1>4, <2>0 DEF Quiet
  <2>2. Stream(at, id, m)'
    BY <1>2, <1>4, <2>0, KeptStream
  <2>3. /\ m = 0 => t = 0 /\ Sequence[d] = 0
        /\ Recorded(at, id, rec, t, m)
        /\ Queued(at, id, m, q)
        /\ phase[d] = "built" /\ reuseCount[d] = 0 => m = 0 /\ q = <<>>
        /\ LinkUp(d) => Link(writer[d], Sequence[d], E, net, t, m)
        /\ InNet(id) /\ t = m => E + Len(net) <= m
        /\ Ordered(at, E, e, Latest, produced)
        /\ t = m => GapFree(at, E, e, Base(id))
        /\ t = m /\ Live(d) /\ e >= 1 => Covered(at, E, e, Base(id), produced)
    BY <1>2, <2>0 DEF Content, End
  <2>4. Latest \in Nat /\ produced \in Nat /\ produced' \in Nat /\ E \in Nat /\ e \in Nat
    <3>1. produced' \in Nat
      BY DEF StreamTyped
    <3>2. e \in Nat
      BY <1>0
    <3> QED BY <3>1, <3>2, Bounds
  <2>5. LinkUp(d)' => Link(writer'[d], Sequence'[d], E, net', t, m)
    BY <1>1, <2>3 DEF Link
  <2>a. Ordered(at, E, e, Latest, produced) /\ (t = m => GapFree(at, E, e, Base(id)))
    BY <2>3
  <2>b. PICK lo, hi, top, B, C :
          lo \in Nat /\ hi \in Nat /\ top \in Nat /\ lo = Latest /\ hi = produced
          /\ top = produced' /\ B = Base(id) /\ C = Base(id)'
    BY <2>4
  <2>c. /\ lo \in Nat /\ hi \in Nat /\ top \in Nat
        /\ hi <= top /\ B \subseteq C /\ E \in Nat /\ e \in Nat
    BY <2>1, <2>4, <2>b
  <2>d. /\ Ordered(at, E, e, lo, hi) => Ordered(at, E, e, lo, top)
        /\ GapFree(at, E, e, B) => GapFree(at, E, e, C)
        /\ \A k : Covered(at, E, e, B, k) => Covered(at, E, e, C, k)
    BY <2>c, Grown
  <2>6. /\ Ordered(at, E, e, Latest, produced')
        /\ t = m => GapFree(at, E, e, Base(id)')
    BY <2>a, <2>b, <2>d
  <2>7. ASSUME t = m, Live(d)', e >= 1 PROVE Covered(at, E, e, Base(id)', produced')
    <3>a. ~ Ungreeted(d)
      <4>1. Len(<<>>) = 0
        OBVIOUS
      <4> QED BY <2>3, <2>7, <4>1 DEF Ungreeted
    <3>0. Covered(at, E, e, Base(id), produced)
      BY <1>1, <2>3, <2>7, <3>a
    <3>1. Covered(at, E, e, Base(id)', produced)
      BY <2>b, <2>d, <3>0
    <3>2. \A n \in Nat : produced < n /\ n <= produced' => n \in Base(id)'
      BY <1>1, <2>7, <3>a
    <3>3. \A n \in Nat : n <= produced \/ produced < n
      BY <2>4
    <3> QED BY <3>1, <3>2, <3>3 DEF Covered
  <2>8. /\ m = 0 => t = 0 /\ Sequence'[d] = 0
        /\ phase'[d] = "built" /\ reuseCount'[d] = 0 => m = 0 /\ q = <<>>
        /\ InNet(id)' /\ t = m => E + Len(net') <= m
    BY <1>1, <2>1, <2>3
  <2>9. connectionID'[d] = id /\ queue'[send'[d]] = q /\ Expected(id)' = E /\ Latest' = Latest
    BY <1>1, <2>1
  <2>10. Content(d, at, rec, t, m)'
    BY <2>3, <2>5, <2>6, <2>7, <2>8, <2>9 DEF Content, End
  <2> QED BY <2>2, <2>10
<1>5. connectionID'[d] = id
  BY <1>1
<1> QED BY <1>3, <1>4, <1>5 DEF Owns

\* A step that disturbs no owner keeps the streams.
LEMMA StreamsKept ==
    ASSUME StreamTyped, StreamTyped', HubShape, Streams,
           \A id \in ConnIds : Quiet(id), \A d \in Hub!Owners' : Undisturbed(d)
    PROVE  Streams'
<1>1. ASSUME NEW d \in Hub!Owners' PROVE Served(d)'
  <2> PICK id : id = connectionID[d]
    OBVIOUS
  <2>1. d \in Hub!Owners /\ id \in ConnIds
    BY OwnerFacts DEF Undisturbed
  <2>2. PICK at \in Numbers, rec \in [Nat -> Records] : \E t, m \in Nat : Owns(d, at, rec, t, m)
    BY <2>1 DEF Streams, Served
  <2>3. PICK t \in Nat, m \in Nat : Owns(d, at, rec, t, m)
    BY <2>2
  <2>4. Owns(d, at, rec, t, m)'
    BY <2>1, <2>3, KeptOwner
  <2> QED BY <2>4 DEF Served
<1>2. ASSUME NEW id \in ConnIds, Relevant(id)' PROVE Explained(id)'
  <2>1. Relevant(id)
    BY <1>2 DEF Quiet
  <2>2. PICK at \in Numbers, m \in Nat : Stream(at, id, m)
    BY <2>1 DEF Streams, Explained
  <2>3. Stream(at, id, m)'
    BY <1>2, <2>2, KeptStream
  <2> QED BY <2>3 DEF Explained
<1> QED BY <1>1, <1>2 DEF Streams

\* A step that disturbs one stream keeps them if it explains that one.
LEMMA StreamsServed ==
    ASSUME StreamTyped, StreamTyped', HubShape, Streams, NEW id0,
           \A id \in ConnIds : id # id0 => Quiet(id),
           \A d \in Hub!Owners' : connectionID'[d] # id0 => Undisturbed(d),
           \A d \in Hub!Owners' : connectionID'[d] = id0 => Served(d)',
           id0 \in ConnIds => (Relevant(id0)' => Explained(id0)')
    PROVE  Streams'
<1>1. ASSUME NEW d \in Hub!Owners', connectionID'[d] # id0 PROVE Served(d)'
  <2> PICK id : id = connectionID[d]
    OBVIOUS
  <2>1. d \in Hub!Owners /\ id \in ConnIds /\ connectionID'[d] = id
    BY <1>1, OwnerFacts DEF Undisturbed
  <2>2. Quiet(id)
    BY <1>1, <2>1
  <2>3. PICK at \in Numbers, rec \in [Nat -> Records] : \E t, m \in Nat : Owns(d, at, rec, t, m)
    BY <2>1 DEF Streams, Served
  <2>4. PICK t \in Nat, m \in Nat : Owns(d, at, rec, t, m)
    BY <2>3
  <2>5. Owns(d, at, rec, t, m)'
    BY <1>1, <2>2, <2>4, KeptOwner
  <2> QED BY <2>5 DEF Served
<1>2. ASSUME NEW id \in ConnIds, Relevant(id)', id # id0 PROVE Explained(id)'
  <2>1. Relevant(id)
    BY <1>2 DEF Quiet
  <2>2. PICK at \in Numbers, m \in Nat : Stream(at, id, m)
    BY <2>1 DEF Streams, Explained
  <2>3. Stream(at, id, m)'
    BY <1>2, <2>2, KeptStream
  <2> QED BY <2>3 DEF Explained
<1> QED BY <1>1, <1>2 DEF Streams

\* A step that disturbs one owner keeps them if it serves that owner.
LEMMA OwnerServed ==
    ASSUME StreamTyped, StreamTyped', HubShape, HubShape', Streams,
           NEW c \in Hub!Owners', Served(c)',
           \A id \in ConnIds : id # connectionID'[c] => Quiet(id),
           \A d \in Hub!Owners' : d # c => Undisturbed(d)
    PROVE  Streams'
<1> PICK id0 : id0 = connectionID'[c]
  OBVIOUS
<1>1. \A d \in Hub!Owners' : connectionID'[d] = id0 => d = c
  BY DEF HubShape
<1>2. Relevant(id0)' => Explained(id0)'
  BY DEF Served, Owns, Explained
<1>3. \A d \in Hub!Owners' : connectionID'[d] = id0 => Served(d)'
  BY <1>1
<1> QED BY <1>1, <1>2, <1>3, StreamsServed

-----------------------------------------------------------------------------
(* What every step keeps: types, and the order in which things happen. *)

\* Events and hellos are known by their event and by their id.
LEMMA EventsOf ==
    /\ \A x \in Hub!Messages : x.type = "event" => x.n \in Nat /\ x = Event(x.n)
    /\ \A x \in Hub!Messages : x.type = "hello" => x.id \in ConnIds /\ x = Hub!Hello(x.id)
    /\ \A n \in 1 .. MaxEvents : Event(n) \in Hub!Messages
    /\ \A id \in ConnIds : Hub!Hello(id) \in Hub!Messages
<1> USE DEF Hub!Messages
<1>1. ASSUME NEW x \in Hub!Messages, x.type = "event" PROVE x.n \in Nat /\ x = Event(x.n)
  <2>1. \A id : x # Hub!Hello(id)
    BY <1>1 DEF Hub!Hello
  <2>2. x # Hub!Response
    BY <1>1 DEF Hub!Response
  <2>3. PICK n \in 1 .. MaxEvents : x = Event(n)
    BY <2>1, <2>2
  <2> QED BY <2>3, MessageTypes
<1>2. ASSUME NEW x \in Hub!Messages, x.type = "hello" PROVE x.id \in ConnIds /\ x = Hub!Hello(x.id)
  <2>1. \A n : x # Event(n)
    BY <1>2 DEF Event
  <2>2. x # Hub!Response
    BY <1>2 DEF Hub!Response
  <2>3. PICK id \in ConnIds : x = Hub!Hello(id)
    BY <2>1, <2>2
  <2> QED BY <2>3, MessageTypes
<1> QED BY <1>1, <1>2

\* What is written is typed if it is made of records.
LEMMA WriteTyped ==
    ASSUME net \in Seq(Records), NEW c, NEW msgs \in Seq(Records), Write(c, msgs)
    PROVE  net' \in Seq(Records)
BY DEF Write

\* One write leaves records on the network.
LEMMA OutcomeTyped ==
    ASSUME net \in Seq(Records), NEW c, NEW r \in Records, WriteOutcome(c, r)
    PROVE  net' \in Seq(Records)
<1>1. <<r>> \in Seq(Records)
  OBVIOUS
<1> QED BY <1>1, WriteTyped DEF WriteOutcome

\* The operations of the dead queue keep to its slots.
LEMMA SlotsTyped ==
    /\ DQ!EmptyQueue \in [DQ!Slot -> Records \cup {Nil}] /\ 0 \in DQ!Slot
    /\ \A p \in DQ!Slot : DQ!NextPointer(p) \in DQ!Slot
    /\ \A dq \in [DQ!Slot -> Records \cup {Nil}], p \in DQ!Slot, r \in Records :
          DQ!addToDeadQueue(dq, p, r) \in [DQ!Slot -> Records \cup {Nil}]
<1>1. DQ!EmptyQueue \in [DQ!Slot -> Records \cup {Nil}] /\ 0 \in DQ!Slot
  BY SlotFacts DEF DQ!EmptyQueue
<1>2. \A p \in DQ!Slot : DQ!NextPointer(p) \in DQ!Slot
  BY NextSlot, SlotFacts
<1>3. \A dq \in [DQ!Slot -> Records \cup {Nil}], p \in DQ!Slot, r \in Records :
          DQ!addToDeadQueue(dq, p, r) \in [DQ!Slot -> Records \cup {Nil}]
  BY DEF DQ!addToDeadQueue
<1> QED BY <1>1, <1>2, <1>3

\* A connection whose write pump runs.
LEMMA AtWork ==
    ASSUME HubShape, PumpsInOrder, NEW c \in Conns, writer[c] \in {"start", "loop"}
    PROVE  /\ phase[c] \in {"pumping", "readDone"} /\ c \in Hub!Owners
           /\ connectionID[c] \in ConnIds /\ send[c] \in Channels
           /\ queue[send[c]] \in Seq(Hub!Messages) /\ Len(queue[send[c]]) \in Nat
           /\ queue[send[c]] # <<>> => Head(queue[send[c]]) \in Hub!Messages
<1>0. phase[c] \in {"free", "built", "registered", "pumping", "readDone", "finished"}
  BY DEF HubShape
<1>1. phase[c] \in {"pumping", "readDone"}
  BY <1>0 DEF PumpsInOrder
<1>2. c \in Hub!Owners /\ connectionID[c] \in ConnIds /\ send[c] \in Channels
  BY <1>1, OwnerFacts DEF HubShape
<1>3. queue[send[c]] \in Seq(Hub!Messages)
  BY <1>2 DEF HubShape
<1>4. /\ Len(queue[send[c]]) \in Nat
      /\ queue[send[c]] # <<>> => Head(queue[send[c]]) \in Hub!Messages
  BY <1>3, SequenceParts
<1> QED BY <1>1, <1>2, <1>3, <1>4

\* Draining apart, every step keeps the types.
LEMMA StreamTypedKept ==
    ASSUME StreamTyped, PumpsInOrder, HubShape, HubShape', [Next]_vars, \A c \in Conns : ~ StartDraining(c)
    PROVE  StreamTyped'
<1>0. /\ Sequence \in [Conns -> Nat]
      /\ deadQueue \in [Channels -> [DQ!Slot -> Records \cup {Nil}]]
      /\ deadQueuePointer \in [Channels -> DQ!Slot]
      /\ conn \in Conns \cup {NoConn} /\ connectionId \in ConnIds \cup {NoId} /\ serverSequence \in Nat
      /\ requests \in SUBSET [conn : Conns, id : ConnIds \cup {NoId}, seq : Nat]
      /\ linkUp \in BOOLEAN /\ net \in Seq(Records)
      /\ produced \in 0 .. MaxEvents /\ delivered \in Seq(Nat)
      /\ loaded \in [ConnIds -> 0 .. MaxEvents] /\ \A id \in ConnIds : loaded[id] <= produced
  BY DEF StreamTyped
<1>a. Sequence \in [Conns -> Nat]
  BY <1>0
<1>b. deadQueue \in [Channels -> [DQ!Slot -> Records \cup {Nil}]]
  BY <1>0
<1>c. deadQueuePointer \in [Channels -> DQ!Slot]
  BY <1>0
<1>d. linkUp \in BOOLEAN
  BY <1>0
<1>e. net \in Seq(Records)
  BY <1>0
<1>f. loaded \in [ConnIds -> 0 .. MaxEvents] /\ \A id \in ConnIds : loaded[id] <= produced
  BY <1>0
<1>g. delivered \in Seq(Nat)
  BY <1>0
<1>1. ASSUME UNCHANGED <<streamVars, clientVars, netVars, produced, delivered, loaded>> PROVE StreamTyped'
  BY <1>0, <1>1 DEF StreamTyped, streamVars, clientVars, netVars
<1>2. ASSUME UNCHANGED <<streamVars, clientVars, netVars, eventVars>> PROVE StreamTyped'
  BY <1>1, <1>2 DEF eventVars
<1>3. ASSUME NEW c \in Conns, Dial(c) PROVE StreamTyped'
  <2>1. requests' \in SUBSET [conn : Conns, id : ConnIds \cup {NoId}, seq : Nat]
    BY <1>0, <1>3 DEF Dial
  <2>2. /\ conn' = c /\ net' = <<>> /\ linkUp' = TRUE
        /\ UNCHANGED <<streamVars, connectionId, serverSequence, produced, delivered, loaded>>
    BY <1>3 DEF Dial, Client!Initialize, eventVars
  <2> QED BY <1>0, <2>1, <2>2 DEF StreamTyped, streamVars
<1>4. ASSUME NEW c \in Conns, Register(c) PROVE StreamTyped'
  <2>1. loaded' \in [ConnIds -> 0 .. MaxEvents] /\ \A id \in ConnIds : loaded'[id] <= produced
    <3>1. produced \in 0 .. MaxEvents /\ \A id \in ConnIds : loaded[id] \in 0 .. MaxEvents /\ loaded[id] <= produced
      BY <1>0
    <3>2. loaded' = loaded \/ loaded' = [loaded EXCEPT ![connectionID[c]] = produced]
      BY <1>4 DEF Register
    <3>3. CASE loaded' = [loaded EXCEPT ![connectionID[c]] = produced]
      <4>1. loaded' \in [ConnIds -> 0 .. MaxEvents]
        BY <1>f, <3>1, <3>3
      <4>2. \A id \in ConnIds : loaded'[id] = loaded[id] \/ loaded'[id] = produced
        BY <1>f, <3>3
      <4> QED BY <3>1, <4>1, <4>2
    <3> QED BY <1>f, <3>2, <3>3
  <2>2. UNCHANGED <<streamVars, clientVars, netVars, produced, delivered>>
    BY <1>4 DEF Register
  <2> QED BY <1>0, <2>1, <2>2 DEF StreamTyped, streamVars, clientVars, netVars
<1>5. ASSUME NEW c \in Conns, \/ RegisterFails(c) \/ Pump(c) \/ ReadPumpEnds(c) \/ SessionLapses(c) \/ Unregister(c)
                              \/ StartLossless(c) \/ SeeClosed(c) \/ StopWriting(c) \/ Reap(c)
      PROVE  StreamTyped'
  BY <1>2, <1>5 DEF RegisterFails, Pump, ReadPumpEnds, SessionLapses, Unregister, StartLossless, SeeClosed, StopWriting, Reap
<1>6. ASSUME NEW c \in Conns, StartOver(c) PROVE StreamTyped'
  <2>1. connectionID'[c] \in ConnIds
    BY <1>6, NewOnes DEF StartOver
  <2>2. [seq |-> 0, msg |-> Hub!Hello(connectionID'[c])] \in Records
    BY <2>1, EventsOf, RecordParts
  <2>3. net' \in Seq(Records)
    BY <1>0, <1>6, <2>2, OutcomeTyped DEF StartOver
  <2>4. /\ DQ!addToDeadQueue(DQ!EmptyQueue, 0, [seq |-> 0, msg |-> Hub!Hello(connectionID'[c])])
             \in [DQ!Slot -> Records \cup {Nil}]
        /\ DQ!NextPointer(0) \in DQ!Slot
    BY <2>2, SlotsTyped
  <2>5. /\ deadQueue' \in [Channels -> [DQ!Slot -> Records \cup {Nil}]]
        /\ deadQueuePointer' \in [Channels -> DQ!Slot]
        /\ Sequence' \in [Conns -> Nat]
    BY <1>0, <1>6, <2>4 DEF StartOver
  <2>6. UNCHANGED <<clientVars, requests, linkUp, produced, delivered, loaded>>
    BY <1>6 DEF StartOver, eventVars
  <2> QED BY <1>0, <2>3, <2>5, <2>6 DEF StreamTyped, clientVars
<1>7. ASSUME NEW c \in Conns, Send(c) PROVE StreamTyped'
  <2>0. writer[c] = "loop" /\ queue[send[c]] # <<>>
    BY <1>7 DEF Send, Hub!WriterSends
  <2>1. send[c] \in Channels /\ Sequence[c] \in Nat /\ Head(queue[send[c]]) \in Hub!Messages
    BY <1>0, <2>0, AtWork
  <2>2. [seq |-> Sequence[c], msg |-> Head(queue[send[c]])] \in Records
    BY <2>1, RecordParts
  <2>3. net' \in Seq(Records)
    BY <1>0, <1>7, <2>2, OutcomeTyped DEF Send
  <2>4. /\ DQ!addToDeadQueue(deadQueue[send[c]], deadQueuePointer[send[c]],
                             [seq |-> Sequence[c], msg |-> Head(queue[send[c]])])
             \in [DQ!Slot -> Records \cup {Nil}]
        /\ DQ!NextPointer(deadQueuePointer[send[c]]) \in DQ!Slot
    BY <1>0, <2>1, <2>2, SlotsTyped
  <2>5. /\ deadQueue' \in [Channels -> [DQ!Slot -> Records \cup {Nil}]]
        /\ deadQueuePointer' \in [Channels -> DQ!Slot]
        /\ Sequence' \in [Conns -> Nat]
    <3>1. /\ Sequence' = [Sequence EXCEPT ![c] = @ + 1]
          /\ deadQueue' = [deadQueue EXCEPT ![send[c]] =
               DQ!addToDeadQueue(@, deadQueuePointer[send[c]], [seq |-> Sequence[c], msg |-> Head(queue[send[c]])])]
          /\ deadQueuePointer' = [deadQueuePointer EXCEPT ![send[c]] = DQ!NextPointer(@)]
      BY <1>7 DEF Send
    <3>2. deadQueue' \in [Channels -> [DQ!Slot -> Records \cup {Nil}]]
      BY <1>b, <2>4, <3>1
    <3>3. deadQueuePointer' \in [Channels -> DQ!Slot]
      BY <1>c, <2>4, <3>1
    <3>4. Sequence' \in [Conns -> Nat]
      BY <1>a, <3>1
    <3> QED BY <3>2, <3>3, <3>4
  <2>6. UNCHANGED <<clientVars, requests, linkUp, produced, delivered, loaded>>
    BY <1>7 DEF Send, eventVars
  <2> QED BY <1>0, <2>3, <2>5, <2>6 DEF StreamTyped, clientVars
<1>8. ASSUME NEW c \in Conns, EncodeError(c) PROVE StreamTyped'
  <2>1. Sequence' \in [Conns -> Nat]
    BY <1>0, <1>8 DEF EncodeError
  <2>2. UNCHANGED <<deadQueue, deadQueuePointer, clientVars, netVars, produced, delivered, loaded>>
    BY <1>8 DEF EncodeError
  <2> QED BY <1>0, <2>1, <2>2 DEF StreamTyped, clientVars, netVars
<1>9. ASSUME NEW c \in Conns, Collect(c) PROVE StreamTyped'
  <2>1. Sequence' \in [Conns -> Nat]
    BY <1>0, <1>9 DEF Collect
  <2>2. UNCHANGED <<deadQueue, deadQueuePointer, clientVars, netVars, produced, delivered, loaded>>
    BY <1>9 DEF Collect, eventVars
  <2> QED BY <1>0, <2>1, <2>2 DEF StreamTyped, clientVars, netVars
<1>10. ASSUME NEW r \in requests, Accept(r) PROVE StreamTyped'
  <2>1. /\ requests' \in SUBSET [conn : Conns, id : ConnIds \cup {NoId}, seq : Nat]
        /\ UNCHANGED <<clientVars, linkUp, net, produced, delivered, loaded>>
    BY <1>0, <1>10 DEF Accept, eventVars
  <2>2. r.conn \in Conns /\ r.seq \in Nat
    BY <1>0
  <2>3. Sequence' \in [Conns -> Nat]
    BY <1>0, <1>10, <2>2 DEF Accept
  <2>4. /\ deadQueue' \in [Channels -> [DQ!Slot -> Records \cup {Nil}]]
        /\ deadQueuePointer' \in [Channels -> DQ!Slot]
    <3>1. \/ UNCHANGED <<deadQueue, deadQueuePointer>>
          \/ /\ deadQueue' = [deadQueue EXCEPT ![send'[r.conn]] = DQ!EmptyQueue]
             /\ deadQueuePointer' = [deadQueuePointer EXCEPT ![send'[r.conn]] = 0]
      BY <1>10 DEF Accept
    <3>2. PICK ch : \/ UNCHANGED <<deadQueue, deadQueuePointer>>
                    \/ /\ deadQueue' = [deadQueue EXCEPT ![ch] = DQ!EmptyQueue]
                       /\ deadQueuePointer' = [deadQueuePointer EXCEPT ![ch] = 0]
      BY <3>1
    <3>3. deadQueue' \in [Channels -> [DQ!Slot -> Records \cup {Nil}]]
      BY <1>b, <3>2, SlotsTyped
    <3>4. deadQueuePointer' \in [Channels -> DQ!Slot]
      BY <1>c, <3>2, SlotsTyped
    <3> QED BY <3>3, <3>4
  <2> QED BY <1>0, <2>1, <2>3, <2>4 DEF StreamTyped, clientVars
<1>11. ASSUME NEW r \in requests, LoseRequest(r) PROVE StreamTyped'
  <2>1. /\ requests' \in SUBSET [conn : Conns, id : ConnIds \cup {NoId}, seq : Nat]
        /\ UNCHANGED <<streamVars, clientVars, linkUp, net, produced, delivered, loaded>>
    BY <1>0, <1>11 DEF LoseRequest, eventVars
  <2> QED BY <1>0, <2>1 DEF StreamTyped, clientVars, streamVars
<1>12. ASSUME Break \/ ClientCloses PROVE StreamTyped'
  <2>1. /\ conn' = conn \/ conn' = NoConn
        /\ linkUp' = FALSE /\ net' = <<>>
        /\ UNCHANGED <<streamVars, connectionId, serverSequence, requests, produced, delivered, loaded>>
    BY <1>12 DEF Break, ClientCloses, Client!OnClose, clientVars, eventVars
  <2>2. conn' \in Conns \cup {NoConn}
    BY <1>0, <2>1
  <2>3. linkUp' \in BOOLEAN
    BY <2>1, Zenon
  <2>4. net' \in Seq(Records)
    BY <2>1
  <2> QED BY <1>0, <2>1, <2>2, <2>3, <2>4 DEF StreamTyped, streamVars
<1>13. ASSUME Receive PROVE StreamTyped'
  <2>0. net # <<>> /\ Head(net) \in Records /\ Tail(net) \in Seq(Records)
    BY <1>0, <1>13, SequenceParts DEF Receive, ReceiveHello, ReceiveEvent
  <2>1. /\ net' \in Seq(Records) /\ linkUp' \in BOOLEAN
        /\ UNCHANGED <<streamVars, requests, produced, loaded>>
    <3>1. \/ net' = Tail(net) /\ linkUp' = linkUp
          \/ net' = <<>> /\ linkUp' = FALSE
      BY <1>13 DEF Receive
    <3>2. UNCHANGED <<streamVars, requests, produced, loaded>>
      BY <1>13 DEF Receive
    <3>3. linkUp' \in BOOLEAN
      BY <1>d, <3>1, Zenon
    <3>4. net' = Tail(net) \/ net' = <<>>
      BY <3>1, Zenon
    <3>5. net' \in Seq(Records)
      <4>1. Tail(net) \in Seq(Records)
        BY <2>0
      <4>2. <<>> \in Seq(Records)
        OBVIOUS
      <4> QED BY <3>4, <4>1, <4>2
    <3> QED BY <3>2, <3>3, <3>5
  <2>2. Head(net).seq \in Nat /\ Head(net).msg \in Hub!Messages
    BY <2>0, RecordParts
  <2>3. CASE ReceiveHello
    <3>1. Client!OnHello(Head(net).msg.id, Head(net).seq) /\ Head(net).msg.type = "hello" /\ delivered' = delivered
      BY <2>3 DEF ReceiveHello
    <3>2. Head(net).msg.id \in ConnIds
      BY <2>2, <3>1, EventsOf
    <3>3. conn' \in Conns \cup {NoConn} /\ connectionId' \in ConnIds \cup {NoId} /\ serverSequence' \in Nat
      BY <1>0, <2>2, <3>1, <3>2 DEF Client!OnHello, Client!CheckSequence
    <3> QED BY <1>0, <2>1, <3>1, <3>3 DEF StreamTyped, streamVars
  <2>4. CASE ReceiveEvent
    <3>1. /\ Client!OnEvent(Head(net).seq) /\ Head(net).msg.type = "event"
          /\ delivered' = delivered \/ delivered' = Append(delivered, Head(net).msg.n)
      BY <2>4 DEF ReceiveEvent
    <3>2. Head(net).msg.n \in Nat
      BY <2>2, <3>1, EventsOf
    <3>3. conn' \in Conns \cup {NoConn} /\ connectionId' \in ConnIds \cup {NoId} /\ serverSequence' \in Nat
      BY <1>0, <2>2, <3>1 DEF Client!OnEvent, Client!CheckSequence
    <3>4. delivered' \in Seq(Nat)
      <4>1. PICK n \in Nat : n = Head(net).msg.n
        BY <3>2
      <4>2. Append(delivered, n) \in Seq(Nat)
        BY <1>g
      <4> QED BY <1>g, <3>1, <4>1, <4>2
    <3> QED BY <1>0, <2>1, <3>3, <3>4 DEF StreamTyped, streamVars
  <2> QED BY <1>13, <2>3, <2>4 DEF Receive
<1>14. ASSUME Broadcast PROVE StreamTyped'
  <2>1. /\ produced' \in 0 .. MaxEvents /\ produced <= produced' /\ produced \in Nat
        /\ UNCHANGED <<streamVars, clientVars, netVars, delivered, loaded>>
    BY <1>0, <1>14 DEF Broadcast
  <2>2. \A id \in ConnIds : loaded[id] <= produced'
    <3>1. \A id \in ConnIds : loaded[id] \in Nat /\ loaded[id] <= produced
      BY <1>0
    <3> QED BY <2>1, <3>1
  <2> QED BY <1>0, <2>1, <2>2 DEF StreamTyped, streamVars, clientVars, netVars
<1>15. ASSUME InvalidateUserFails \/ Recover \/ UNCHANGED vars PROVE StreamTyped'
  BY <1>2, <1>15 DEF InvalidateUserFails, Recover, vars
<1> QED BY <1>3, <1>4, <1>5, <1>6, <1>7, <1>8, <1>9, <1>10, <1>11, <1>12, <1>13, <1>14, <1>15
        DEF Next, Handler, Writer

\* How far a connection's goroutines are.
LEMMA PumpsKept == ASSUME StreamTyped, HubShape, PumpsInOrder, [Next]_vars PROVE PumpsInOrder'
<1>0. /\ phase \in [Conns -> {"free", "built", "registered", "pumping", "readDone", "finished"}]
      /\ writer \in [Conns -> {"idle", "start", "loop", "done"}]
  BY DEF HubShape
<1>1. ASSUME UNCHANGED <<phase, writer>> PROVE PumpsInOrder'
  BY <1>1 DEF PumpsInOrder
<1>2. ASSUME NEW c \in Conns, NEW p, phase' = [phase EXCEPT ![c] = p],
             NEW w, writer' = [writer EXCEPT ![c] = w],
             p \in {"free", "built", "registered"} => w = "idle",
             p \in {"pumping", "readDone"} => w # "idle",
             p = "finished" => w \in {"idle", "done"}
      PROVE  PumpsInOrder'
  <2> SUFFICES ASSUME NEW d \in Conns
               PROVE  /\ phase'[d] \in {"free", "built", "registered"} => writer'[d] = "idle"
                      /\ phase'[d] \in {"pumping", "readDone"} => writer'[d] # "idle"
                      /\ phase'[d] = "finished" => writer'[d] \in {"idle", "done"}
    BY DEF PumpsInOrder
  <2>1. CASE d = c
    BY <1>0, <1>2, <2>1
  <2>2. CASE d # c
    <3>1. phase'[d] = phase[d] /\ writer'[d] = writer[d]
      BY <1>0, <1>2, <2>2
    <3> QED BY <3>1 DEF PumpsInOrder
  <2> QED BY <2>1, <2>2
<1>3. \A c \in Conns : writer = [writer EXCEPT ![c] = writer[c]] /\ phase = [phase EXCEPT ![c] = phase[c]]
  BY <1>0
<1>4. ASSUME NEW c \in Conns, NEW p, phase' = [phase EXCEPT ![c] = p], writer' = writer,
             p \in {"free", "built", "registered"} => writer[c] = "idle",
             p \in {"pumping", "readDone"} => writer[c] # "idle",
             p = "finished" => writer[c] \in {"idle", "done"}
      PROVE  PumpsInOrder'
  BY <1>2, <1>3, <1>4
<1>5. ASSUME NEW c \in Conns, writer[c] \in {"start", "loop"}, phase' = phase,
             NEW w \in {"loop", "done"}, writer' = [writer EXCEPT ![c] = w]
      PROVE  PumpsInOrder'
  <2>1. phase[c] \in {"pumping", "readDone"}
    BY <1>0, <1>5 DEF PumpsInOrder
  <2> QED BY <1>2, <1>3, <1>5, <2>1
<1>6. ASSUME NEW c \in Conns, NEW id, NEW ch, NEW a, NEW n, phase[c] = "free", Hub!Build(c, User, id, ch, a, n)
      PROVE  PumpsInOrder'
  <2>1. phase' = [phase EXCEPT ![c] = "built"] /\ writer' = writer /\ writer[c] = "idle"
    BY <1>6 DEF Hub!Build, PumpsInOrder
  <2> QED BY <1>4, <2>1
<1>7. ASSUME NEW r \in requests, Accept(r) PROVE PumpsInOrder'
  <2>1. r.conn \in Conns
    BY DEF StreamTyped
  <2>2. phase[r.conn] = "free" /\ \E id, ch, a, n : Hub!Build(r.conn, User, id, ch, a, n)
    BY <1>7 DEF Accept, Hub!ConnectFresh, Hub!ConnectNotFound, Hub!ConnectReuse
  <2> QED BY <1>6, <2>1, <2>2
<1>8. ASSUME NEW c \in Conns, Register(c) PROVE PumpsInOrder'
  <2>1. phase[c] = "built" /\ phase' = [phase EXCEPT ![c] = "registered"] /\ writer' = writer
    BY <1>8 DEF Register, Hub!HandlerRegister
  <2> QED BY <1>4, <2>1 DEF PumpsInOrder
<1>9. ASSUME NEW c \in Conns, RegisterFails(c) PROVE PumpsInOrder'
  <2>1. phase[c] = "built" /\ phase' = [phase EXCEPT ![c] = "finished"] /\ writer' = writer
    BY <1>9 DEF RegisterFails, Hub!HandlerRegisterFails
  <2> QED BY <1>4, <2>1 DEF PumpsInOrder
<1>10. ASSUME NEW c \in Conns, Pump(c) PROVE PumpsInOrder'
  <2>1. phase' = [phase EXCEPT ![c] = "pumping"] /\ writer' = [writer EXCEPT ![c] = "start"]
    BY <1>10 DEF Pump, Hub!Pump
  <2>2. PICK p, w : p = "pumping" /\ w = "start"
    OBVIOUS
  <2>3. /\ p \in {"free", "built", "registered"} => w = "idle"
        /\ p \in {"pumping", "readDone"} => w # "idle"
        /\ p = "finished" => w \in {"idle", "done"}
    BY <2>2
  <2> QED BY <1>2, <2>1, <2>2, <2>3
<1>11. ASSUME NEW c \in Conns, ReadPumpEnds(c) PROVE PumpsInOrder'
  <2>1. phase[c] = "pumping" /\ phase' = [phase EXCEPT ![c] = "readDone"] /\ writer' = writer
    BY <1>11 DEF ReadPumpEnds, Hub!ReadPumpEnds
  <2> QED BY <1>4, <2>1 DEF PumpsInOrder
<1>12. ASSUME NEW c \in Conns, Unregister(c) PROVE PumpsInOrder'
  <2>1. writer[c] = "done" /\ phase' = [phase EXCEPT ![c] = "finished"] /\ writer' = writer
    BY <1>12 DEF Unregister, Hub!Unregister
  <2> QED BY <1>4, <2>1 DEF PumpsInOrder
<1>13. ASSUME NEW c \in Conns, Writer(c) PROVE PumpsInOrder'
  <2>1. CASE Send(c) \/ EncodeError(c)
    <3>1. /\ writer[c] \in {"start", "loop"} /\ phase' = phase
          /\ writer' = writer \/ writer' = [writer EXCEPT ![c] = "done"]
      BY <2>1 DEF Send, EncodeError, Hub!WriterSends, Hub!WriterSkips, Hub!WriterDone, Hub!pumpVars
    <3> QED BY <1>1, <1>5, <3>1
  <2>2. CASE StartLossless(c) \/ StartDraining(c) \/ StartOver(c) \/ SeeClosed(c) \/ StopWriting(c)
    <3>1. /\ writer[c] \in {"start", "loop"} /\ phase' = phase
          /\ writer' = [writer EXCEPT ![c] = "loop"] \/ writer' = [writer EXCEPT ![c] = "done"]
      BY <2>2 DEF StartLossless, StartDraining, StartOver, SeeClosed, StopWriting, Hub!WriterResumes,
                  Hub!WriterRestarts, Hub!WriterSeesClosed, Hub!WriterStops, Hub!WriterDone
    <3> QED BY <1>5, <3>1
  <2> QED BY <1>13, <2>1, <2>2 DEF Writer
<1>14. ASSUME NEW c \in Conns, Collect(c) PROVE PumpsInOrder'
  <2>1. phase' = [phase EXCEPT ![c] = "free"] /\ writer' = [writer EXCEPT ![c] = "idle"]
    BY <1>14 DEF Collect, Hub!Release
  <2>2. PICK p, w : p = "free" /\ w = "idle"
    OBVIOUS
  <2>3. /\ p \in {"free", "built", "registered"} => w = "idle"
        /\ p \in {"pumping", "readDone"} => w # "idle"
        /\ p = "finished" => w \in {"idle", "done"}
    BY <2>2
  <2> QED BY <1>2, <2>1, <2>2, <2>3
<1>15. ASSUME \/ \E c \in Conns : Dial(c) \/ Reap(c)
              \/ \E r \in requests : LoseRequest(r)
              \/ Break \/ ClientCloses \/ Receive \/ Broadcast \/ InvalidateUserFails \/ Recover
              \/ \E c \in Conns : SessionLapses(c)
              \/ UNCHANGED vars
       PROVE  PumpsInOrder'
  <2>1. UNCHANGED <<phase, writer>>
    BY <1>15 DEF Dial, Reap, LoseRequest, Break, ClientCloses, Receive, Broadcast, InvalidateUserFails, Recover,
                 SessionLapses, Hub!SessionLapses,
                 vars, hubVars, Hub!Reap, Hub!Broadcast, Hub!InvalidateUserFails, Hub!Recover,
                 Hub!pumpVars
  <2> QED BY <1>1, <2>1
<1> QED BY <1>7, <1>8, <1>9, <1>10, <1>11, <1>12, <1>13, <1>14, <1>15 DEF Next, Handler

\* What goes onto the network goes to a client whose connection is served.
LEMMA Writes ==
    ASSUME HubShape, PumpsInOrder, NEW c \in Conns, NEW msgs, Write(c, msgs), writer[c] \in {"start", "loop"}
    PROVE  net' = net \/ (linkUp /\ conn = c /\ phase[c] \in {"pumping", "readDone"})
BY AtWork DEF Write, LinkUp

\* The write pump changes nothing of the client, and the network only if it is the client's.
LEMMA WriterWrites ==
    ASSUME HubShape, PumpsInOrder, NEW c \in Conns, Writer(c)
    PROVE  /\ net' = net \/ (linkUp /\ conn = c /\ phase[c] \in {"pumping", "readDone"})
           /\ phase' = phase
           /\ UNCHANGED <<clientVars, requests, linkUp, delivered, produced>>
<1>1. ASSUME StartLossless(c) \/ EncodeError(c) \/ SeeClosed(c) \/ StopWriting(c)
      PROVE  UNCHANGED <<phase, net, clientVars, requests, linkUp, delivered, produced>>
  BY <1>1 DEF StartLossless, EncodeError, SeeClosed, StopWriting, Hub!WriterResumes, Hub!WriterSkips, Hub!pumpVars,
              Hub!WriterSeesClosed, Hub!WriterStops, Hub!WriterDone, netVars, eventVars
<1>2. ASSUME Send(c) \/ StartOver(c) \/ StartDraining(c)
      PROVE  /\ UNCHANGED <<phase, clientVars, requests, linkUp, delivered, produced>>
             /\ writer[c] \in {"start", "loop"}
             /\ net' = net \/ \E msgs : Write(c, msgs)
  <2>1. CASE Send(c)
    BY <2>1 DEF Send, Hub!WriterSends, Hub!WriterDone, Hub!pumpVars, WriteOutcome, eventVars
  <2>2. CASE StartOver(c)
    BY <2>2 DEF StartOver, Hub!WriterRestarts, Hub!WriterDone, Hub!pumpVars, WriteOutcome, eventVars
  <2>3. CASE StartDraining(c)
    BY <2>3 DEF StartDraining, Hub!WriterResumes, Hub!WriterStops, Hub!WriterDone, Hub!pumpVars, eventVars
  <2> QED BY <1>2, <2>1, <2>2, <2>3
<1> QED BY <1>1, <1>2, Writes DEF Writer

\* What every step but those of the client and of the handler leaves alone.
LEMMA ClientUntouched ==
    ASSUME HubShape, PumpsInOrder, NEW c \in Conns, Handler(c) \/ Writer(c) \/ Reap(c) \/ Collect(c)
    PROVE  /\ UNCHANGED <<clientVars, requests, linkUp, delivered, produced>>
           /\ net' = net \/ (linkUp /\ conn = c /\ phase[c] \in {"pumping", "readDone"})
           /\ \A d \in Conns : phase[d] = "free" => phase'[d] = "free"
           /\ \A d \in Conns : phase'[d] = "free" => phase[d] = "free" \/ (d = c /\ Collect(c) /\ conn # c)
<1>0. phase \in [Conns -> {"free", "built", "registered", "pumping", "readDone", "finished"}]
  BY DEF HubShape
<1>1. CASE Writer(c)
  BY <1>1, WriterWrites
<1>2. CASE Reap(c)
  BY <1>2 DEF Reap, Hub!Reap, netVars, eventVars, Hub!pumpVars
<1>3. CASE Collect(c)
  BY <1>0, <1>3 DEF Collect, Hub!Release, netVars, eventVars
<1>4. CASE SessionLapses(c)
  BY <1>4 DEF SessionLapses, Hub!SessionLapses, netVars, eventVars, Hub!pumpVars
<1>5. CASE Register(c) \/ Pump(c) \/ RegisterFails(c) \/ ReadPumpEnds(c) \/ Unregister(c)
  <2>1. UNCHANGED <<clientVars, requests, linkUp, net, delivered, produced>>
    BY <1>5 DEF Register, Pump, RegisterFails, ReadPumpEnds, Unregister, netVars, eventVars
  <2>2. phase[c] # "free" /\ \E p : p # "free" /\ phase' = [phase EXCEPT ![c] = p]
    BY <1>5 DEF Register, Pump, RegisterFails, ReadPumpEnds, Unregister, Hub!HandlerRegister, Hub!Pump,
                Hub!HandlerRegisterFails, Hub!ReadPumpEnds, Hub!Unregister
  <2> QED BY <1>0, <2>1, <2>2
<1> QED BY <1>1, <1>2, <1>3, <1>4, <1>5 DEF Handler

\* The hub changes nothing of the client and of the network.
LEMMA HubUntouched ==
    ASSUME Broadcast \/ InvalidateUserFails \/ Recover \/ UNCHANGED vars
    PROVE  UNCHANGED <<clientVars, requests, linkUp, net, delivered, phase, writer>> /\ (produced' = produced \/ produced' = produced + 1)
BY DEF Broadcast, InvalidateUserFails, Recover, Hub!Broadcast, Hub!InvalidateUserFails,
       Hub!Recover, Hub!pumpVars, netVars, eventVars, vars, hubVars

\* The handler of a request builds its connection and changes nothing of the client.
LEMMA AcceptTouches ==
    ASSUME HubShape, StreamTyped, NEW r \in requests, Accept(r)
    PROVE  /\ UNCHANGED <<clientVars, linkUp, net, delivered, produced>> /\ requests' = requests \ {r}
           /\ r.conn \in Conns /\ phase[r.conn] = "free"
           /\ \A d \in Conns : phase'[d] = IF d = r.conn THEN "built" ELSE phase[d]
<1>1. r.conn \in Conns
  BY DEF StreamTyped
<1>2. phase[r.conn] = "free" /\ phase' = [phase EXCEPT ![r.conn] = "built"]
  BY DEF Accept, Hub!ConnectFresh, Hub!ConnectNotFound, Hub!ConnectReuse, Hub!Build
<1>3. UNCHANGED <<clientVars, linkUp, net, delivered, produced>> /\ requests' = requests \ {r}
  BY DEF Accept, eventVars
<1> QED BY <1>1, <1>2, <1>3 DEF HubShape

\* An upgrade request on its way belongs to a connection nobody has built yet.
LEMMA RequestsKept ==
    ASSUME StreamTyped, HubShape, PumpsInOrder, RequestsInOrder, [Next]_vars
    PROVE  RequestsInOrder'
<1>0. \A r \in requests : /\ phase[r.conn] = "free" /\ r.conn \in Conns
                          /\ \A q \in requests : q.conn = r.conn => q = r
                          /\ LinkUp(r.conn) => r.id = connectionId /\ r.seq = serverSequence /\ net = <<>>
  BY DEF RequestsInOrder, StreamTyped
<1>1. ASSUME requests' \subseteq requests,
             \A r \in requests' : phase'[r.conn] = "free" /\ (LinkUp(r.conn)' => LinkUp(r.conn)),
             (\E r \in requests : LinkUp(r.conn)) => UNCHANGED <<connectionId, serverSequence, net>> \/ ~ linkUp'
                                                       \/ \A r \in requests' : ~ LinkUp(r.conn)
      PROVE  RequestsInOrder'
  <2> SUFFICES ASSUME NEW r \in requests'
               PROVE  /\ phase'[r.conn] = "free"
                      /\ \A q \in requests' : q.conn = r.conn => q = r
                      /\ LinkUp(r.conn)' => r.id = connectionId' /\ r.seq = serverSequence' /\ net' = <<>>
    BY DEF RequestsInOrder
  <2>1. phase'[r.conn] = "free" /\ \A q \in requests' : q.conn = r.conn => q = r
    BY <1>0, <1>1
  <2>2. ASSUME LinkUp(r.conn)' PROVE r.id = connectionId' /\ r.seq = serverSequence' /\ net' = <<>>
    <3>1. LinkUp(r.conn) /\ r \in requests /\ linkUp'
      BY <1>1, <2>2 DEF LinkUp
    <3>2. UNCHANGED <<connectionId, serverSequence, net>>
      BY <1>1, <3>1
    <3> QED BY <1>0, <3>1, <3>2
  <2> QED BY <2>1, <2>2
<1>2. ASSUME NEW c \in Conns, Handler(c) \/ Writer(c) \/ Reap(c) \/ Collect(c) PROVE RequestsInOrder'
  <2>1. /\ UNCHANGED <<clientVars, requests, linkUp>>
        /\ net' = net \/ (linkUp /\ conn = c /\ phase[c] \in {"pumping", "readDone"})
        /\ \A d \in Conns : phase[d] = "free" => phase'[d] = "free"
    BY <1>2, ClientUntouched
  <2>2. \A r \in requests' : phase'[r.conn] = "free" /\ (LinkUp(r.conn)' => LinkUp(r.conn))
    BY <1>0, <2>1 DEF clientVars, LinkUp
  <2>3. (\E r \in requests : LinkUp(r.conn)) => UNCHANGED <<connectionId, serverSequence, net>>
    BY <1>0, <2>1 DEF clientVars, LinkUp
  <2> QED BY <1>1, <2>1, <2>2, <2>3
<1>3. ASSUME NEW c \in Conns, Dial(c) PROVE RequestsInOrder'
  <2>1. /\ phase[c] = "free" /\ c \notin {r.conn : r \in requests}
        /\ conn = NoConn /\ conn' = c /\ UNCHANGED <<connectionId, serverSequence, phase>>
        /\ requests' = requests \cup {[conn |-> c, id |-> connectionId, seq |-> serverSequence]}
        /\ net' = <<>>
    BY <1>3 DEF Dial, Client!Initialize, hubVars
  <2> SUFFICES ASSUME NEW r \in requests'
               PROVE  /\ phase'[r.conn] = "free"
                      /\ \A q \in requests' : q.conn = r.conn => q = r
                      /\ LinkUp(r.conn)' => r.id = connectionId' /\ r.seq = serverSequence' /\ net' = <<>>
    BY DEF RequestsInOrder
  <2>2. CASE r \in requests
    BY <1>0, <2>1, <2>2 DEF LinkUp
  <2>3. CASE r = [conn |-> c, id |-> connectionId, seq |-> serverSequence]
    BY <1>0, <2>1, <2>3 DEF LinkUp
  <2> QED BY <2>1, <2>2, <2>3
<1>4. ASSUME NEW r \in requests, Accept(r) PROVE RequestsInOrder'
  <2>1. /\ UNCHANGED <<clientVars, linkUp, net>> /\ requests' = requests \ {r}
        /\ \A d \in Conns : phase'[d] = IF d = r.conn THEN "built" ELSE phase[d]
    BY <1>4, AcceptTouches
  <2>2. \A q \in requests' : phase'[q.conn] = "free" /\ (LinkUp(q.conn)' => LinkUp(q.conn))
    BY <1>0, <2>1 DEF clientVars, LinkUp
  <2> QED BY <1>1, <2>1, <2>2 DEF clientVars
<1>5. ASSUME NEW r \in requests, LoseRequest(r) PROVE RequestsInOrder'
  <2>1. UNCHANGED <<phase, clientVars, linkUp, net>> /\ requests' = requests \ {r}
    BY <1>5 DEF LoseRequest, hubVars
  <2>2. \A q \in requests' : phase'[q.conn] = "free" /\ (LinkUp(q.conn)' => LinkUp(q.conn))
    BY <1>0, <2>1 DEF clientVars, LinkUp
  <2> QED BY <1>1, <2>1, <2>2 DEF clientVars
<1>6. ASSUME Break \/ ClientCloses PROVE RequestsInOrder'
  <2>1. UNCHANGED <<phase, requests>> /\ ~ linkUp'
    BY <1>6 DEF Break, ClientCloses, hubVars
  <2>2. \A q \in requests' : phase'[q.conn] = "free" /\ (LinkUp(q.conn)' => LinkUp(q.conn))
    BY <1>0, <2>1 DEF LinkUp
  <2> QED BY <1>1, <2>1, <2>2
<1>7. ASSUME Receive PROVE RequestsInOrder'
  <2>1. /\ UNCHANGED <<phase, requests>> /\ net # <<>>
        /\ (conn' = conn /\ linkUp' = linkUp) \/ ~ linkUp'
    BY <1>7 DEF Receive, ReceiveHello, ReceiveEvent, hubVars
  <2>2. \A q \in requests' : phase'[q.conn] = "free" /\ (LinkUp(q.conn)' => LinkUp(q.conn))
    BY <1>0, <2>1 DEF LinkUp
  <2>3. ~ \E q \in requests : LinkUp(q.conn)
    BY <1>0, <2>1
  <2> QED BY <1>1, <2>1, <2>2, <2>3
<1>8. ASSUME Broadcast \/ InvalidateUserFails \/ Recover \/ UNCHANGED vars PROVE RequestsInOrder'
  <2>1. UNCHANGED <<clientVars, requests, linkUp, net, phase>>
    BY <1>8, HubUntouched
  <2>2. \A q \in requests' : phase'[q.conn] = "free" /\ (LinkUp(q.conn)' => LinkUp(q.conn))
    BY <1>0, <2>1 DEF LinkUp, clientVars
  <2> QED BY <1>1, <2>1, <2>2 DEF clientVars
<1> QED BY <1>2, <1>3, <1>4, <1>5, <1>6, <1>7, <1>8 DEF Next

\* Receiving apart, every step keeps the client's view consistent.
LEMMA ClientKept ==
    ASSUME StreamTyped, HubShape, PumpsInOrder, ClientInOrder, [Next]_vars, ~ Receive
    PROVE  ClientInOrder'
<1>0. /\ connectionId = NoId <=> serverSequence = 0
      /\ ~ linkUp => net = <<>>
      /\ conn = NoConn => ~ linkUp
      /\ linkUp /\ conn # NoConn /\ phase[conn] = "free" => net = <<>>
      /\ Latest <= produced
  BY DEF ClientInOrder
<1>1. produced \in Nat /\ conn \in Conns \cup {NoConn} /\ Latest \in Nat
  BY Bounds DEF StreamTyped
<1>2. ASSUME UNCHANGED <<clientVars, linkUp, delivered>>, produced' = produced \/ produced' = produced + 1,
             net' = net \/ (linkUp /\ conn \in Conns /\ phase'[conn] # "free"),
             \A d \in Conns : phase'[d] = "free" /\ d = conn => phase[d] = "free" \/ net = <<>>
      PROVE  ClientInOrder'
  <2>1. Latest' <= produced'
    BY <1>0, <1>1, <1>2 DEF Latest
  <2>2. ~ linkUp' => net' = <<>>
    BY <1>0, <1>2
  <2>3. UNCHANGED <<conn, connectionId, serverSequence, linkUp>>
    BY <1>2 DEF clientVars
  <2>4. linkUp' /\ conn' # NoConn /\ phase'[conn'] = "free" => net' = <<>>
    BY <1>0, <1>1, <1>2, <2>3
  <2> QED BY <1>0, <2>1, <2>2, <2>3, <2>4 DEF ClientInOrder
<1>3. ASSUME NEW c \in Conns, Handler(c) \/ Writer(c) \/ Reap(c) \/ Collect(c) PROVE ClientInOrder'
  <2>1. /\ UNCHANGED <<clientVars, requests, linkUp, delivered, produced>>
        /\ net' = net \/ (linkUp /\ conn = c /\ phase[c] \in {"pumping", "readDone"})
        /\ \A d \in Conns : phase'[d] = "free" => phase[d] = "free" \/ (d = c /\ Collect(c) /\ conn # c)
    BY <1>3, ClientUntouched
  <2>2. net' = net \/ (linkUp /\ conn \in Conns /\ phase'[conn] # "free")
    BY <2>1
  <2> QED BY <1>2, <2>1, <2>2
<1>4. ASSUME NEW c \in Conns, Dial(c) PROVE ClientInOrder'
  <2>1. /\ conn' = c /\ net' = <<>> /\ linkUp' = TRUE
        /\ UNCHANGED <<connectionId, serverSequence, delivered, produced>>
    BY <1>4 DEF Dial, Client!Initialize, eventVars
  <2>2. Latest' <= produced'
    BY <1>0, <2>1 DEF Latest
  <2> QED BY <1>0, <2>1, <2>2 DEF ClientInOrder
<1>5. ASSUME NEW r \in requests, Accept(r) PROVE ClientInOrder'
  <2>1. /\ UNCHANGED <<clientVars, linkUp, net, delivered, produced>>
        /\ \A d \in Conns : phase'[d] = IF d = r.conn THEN "built" ELSE phase[d]
    BY <1>5, AcceptTouches
  <2> QED BY <1>2, <2>1
<1>6. ASSUME NEW r \in requests, LoseRequest(r) PROVE ClientInOrder'
  BY <1>2, <1>6 DEF LoseRequest, hubVars, eventVars
<1>7. ASSUME Break \/ ClientCloses PROVE ClientInOrder'
  <2>1. /\ ~ linkUp' /\ net' = <<>>
        /\ UNCHANGED <<connectionId, serverSequence, delivered, produced>>
    BY <1>7 DEF Break, ClientCloses, Client!OnClose, clientVars, eventVars
  <2>2. Latest' <= produced'
    BY <1>0, <2>1 DEF Latest
  <2> QED BY <1>0, <2>1, <2>2 DEF ClientInOrder
<1>8. ASSUME Broadcast \/ InvalidateUserFails \/ Recover \/ UNCHANGED vars PROVE ClientInOrder'
  BY <1>2, <1>8, HubUntouched
<1> QED BY <1>3, <1>4, <1>5, <1>6, <1>7, <1>8 DEF Next

-----------------------------------------------------------------------------
(* Steps that disturb no owner. *)

\* What the client knows, and what is on the network, as it is.
ViewKept == UNCHANGED <<connectionId, serverSequence, seen, excusedVars, delivered, produced, loaded>>

\* A step that leaves the client's view alone is quiet about a stream the network does not newly carry.
LEMMA QuietWhen ==
    ASSUME StreamTyped, ViewKept, NEW id, InNet(id)' => InNet(id) /\ net' = net
    PROVE  Quiet(id)
<1>1. /\ connectionId' = connectionId /\ serverSequence' = serverSequence /\ seen' = seen
      /\ UNCHANGED <<dropped, unencodable, skipped, unchecked>> /\ delivered' = delivered /\ produced' = produced /\ loaded' = loaded
  BY DEF ViewKept, excusedVars
<1>2. Relevant(id)' => Relevant(id)
  BY <1>1 DEF Relevant
<1>3. Expected(id)' = Expected(id) /\ Base(id)' = Base(id) /\ Latest' = Latest
  BY <1>1 DEF Expected, Base, Latest
<1>4. produced <= produced'
  BY <1>1, Bounds
<1> QED BY <1>1, <1>2, <1>3, <1>4 DEF Quiet

\* What suffices for an owner to be undisturbed.
LEMMA UndisturbedWhen ==
    ASSUME HubShape, StreamTyped, NEW d \in Hub!Owners, produced' = produced, requests' \subseteq requests,
           UNCHANGED <<connectionID[d], send[d], Sequence[d], reuseCount[d], deadQueue, deadQueuePointer, queue>>,
           phase'[d] = "built" => phase[d] = "built",
           writer'[d] \in {writer[d], "done"} \/ (writer[d] = "idle" /\ writer'[d] = "start"),
           LinkUp(d)' => LinkUp(d) /\ net' = net,
           Live(d)' => Live(d) \/ Ungreeted(d)
    PROVE  Undisturbed(d)
<1>1. produced \in Nat
  BY DEF StreamTyped
<1>2. \A n \in Nat : ~ (produced < n /\ n <= produced')
  BY <1>1
<1>3. connectionID'[d] = connectionID[d] /\ send'[d] = send[d] /\ Sequence'[d] = Sequence[d] /\ reuseCount'[d] = reuseCount[d]
  OBVIOUS
<1> QED BY <1>2, <1>3 DEF Undisturbed

\* A step of the goroutines, or of the index, that writes nothing.
LEMMA KeptWhen ==
    ASSUME StreamTyped, StreamTyped', HubShape, Streams, ViewKept,
           UNCHANGED <<connectionID, send, reuseCount, queue, streamVars, conn, netVars>>,
           \A d \in Conns : /\ phase[d] = "free" => phase'[d] = "free"
                            /\ phase[d] = "finished" => phase'[d] = "finished"
                            /\ phase'[d] = "built" => phase[d] = "built"
                            /\ writer'[d] \in {writer[d], "done"} \/ (writer[d] = "idle" /\ writer'[d] = "start"),
           byConnection' \subseteq Conns,
           \A d \in byConnection' : d \in byConnection \/ phase[d] = "built"
    PROVE  Streams'
<1>1. /\ UNCHANGED <<connectionID, send, reuseCount, queue, Sequence, deadQueue, deadQueuePointer>>
      /\ conn' = conn /\ linkUp' = linkUp /\ net' = net /\ requests' = requests
      /\ connectionId' = connectionId /\ produced' = produced /\ conn \in Conns \cup {NoConn}
  BY DEF streamVars, netVars, ViewKept, StreamTyped
<1>2. ASSUME NEW id \in ConnIds PROVE Quiet(id)
  <2>1. InNet(id)' => InNet(id) /\ net' = net
    BY <1>1 DEF InNet
  <2> QED BY <2>1, QuietWhen
<1>3. ASSUME NEW d \in Hub!Owners' PROVE Undisturbed(d)
  <2>1. d \in Conns /\ (phase'[d] \notin {"free", "finished"} \/ d \in byConnection')
    BY <1>3 DEF Hub!Owners
  <2>2. d \in Hub!Owners
    BY <2>1 DEF Hub!Owners
  <2>3. LinkUp(d)' => LinkUp(d) /\ net' = net
    BY <1>1 DEF LinkUp
  <2>4. Live(d)' => Live(d) \/ Ungreeted(d)
    BY <1>1, <2>1 DEF Live, Ungreeted
  <2>5. /\ phase'[d] = "built" => phase[d] = "built"
        /\ writer'[d] \in {writer[d], "done"} \/ (writer[d] = "idle" /\ writer'[d] = "start")
    BY <2>1
  <2>6. UNCHANGED <<connectionID[d], send[d], Sequence[d], reuseCount[d], deadQueue, deadQueuePointer, queue>>
    BY <1>1
  <2> QED BY <1>1, <2>2, <2>3, <2>4, <2>5, <2>6, UndisturbedWhen
<1> QED BY <1>2, <1>3, StreamsKept

\* Steps of a connection's goroutines that touch neither numbers nor messages.
LEMMA StreamsKeptByGoroutines ==
    ASSUME StreamTyped, StreamTyped', HubShape, HubShape', PumpsInOrder, Streams, NEW c \in Conns,
           \/ RegisterFails(c) \/ Pump(c) \/ ReadPumpEnds(c) \/ SessionLapses(c) \/ Unregister(c)
           \/ SeeClosed(c) \/ StopWriting(c)
    PROVE  Streams'
<1>1. UNCHANGED <<byConnection, connectionID, send, reuseCount, queue, streamVars, clientVars, netVars, eventVars>>
  BY DEF RegisterFails, Pump, ReadPumpEnds, SessionLapses, Hub!SessionLapses, Unregister, SeeClosed, StopWriting, Hub!HandlerRegisterFails, Hub!Pump,
         Hub!ReadPumpEnds, Hub!Unregister, Hub!WriterSeesClosed, Hub!WriterStops, Hub!WriterDone,
         Hub!indexVars, Hub!pumpVars, Hub!identVars, Hub!chanVars
<1>2. ViewKept /\ conn' = conn
  BY <1>1 DEF ViewKept, clientVars, eventVars
<1>3. /\ phase' = phase \/ \E p : phase' = [phase EXCEPT ![c] = p] /\ p # "built" /\ phase[c] \notin {"free", "finished"}
      /\ \/ writer' = writer \/ writer' = [writer EXCEPT ![c] = "done"]
         \/ writer' = [writer EXCEPT ![c] = "start"] /\ phase[c] = "registered"
  BY DEF RegisterFails, Pump, ReadPumpEnds, SessionLapses, Hub!SessionLapses, Unregister, SeeClosed, StopWriting, Hub!HandlerRegisterFails, Hub!Pump,
         Hub!ReadPumpEnds, Hub!Unregister, Hub!WriterSeesClosed, Hub!WriterStops, Hub!WriterDone, Hub!pumpVars
<1>4. ASSUME NEW d \in Conns
      PROVE  /\ phase[d] = "free" => phase'[d] = "free"
             /\ phase[d] = "finished" => phase'[d] = "finished"
             /\ phase'[d] = "built" => phase[d] = "built"
             /\ writer'[d] \in {writer[d], "done"} \/ (writer[d] = "idle" /\ writer'[d] = "start")
  <2>0. phase \in [Conns -> {"free", "built", "registered", "pumping", "readDone", "finished"}]
    BY DEF HubShape
  <2>1. /\ phase[d] = "free" => phase'[d] = "free"
        /\ phase[d] = "finished" => phase'[d] = "finished"
        /\ phase'[d] = "built" => phase[d] = "built"
    BY <1>3, <2>0
  <2>2. writer \in [Conns -> {"idle", "start", "loop", "done"}]
    BY DEF HubShape
  <2>3. phase[c] = "registered" => writer[c] = "idle"
    BY DEF PumpsInOrder
  <2>4. writer'[d] = writer[d] \/ writer'[d] = "done" \/ (writer[d] = "idle" /\ writer'[d] = "start")
    BY <1>3, <2>2, <2>3
  <2> QED BY <2>1, <2>4
<1>5. byConnection' \subseteq Conns /\ \A d \in byConnection' : d \in byConnection
  BY <1>1 DEF HubShape
<1> QED BY <1>1, <1>2, <1>4, <1>5, KeptWhen

\* Connections that enter the index without a hello, or leave it.
LEMMA StreamsKeptByIndex ==
    ASSUME StreamTyped, StreamTyped', HubShape, HubShape', PumpsInOrder, Streams,
           \/ \E c \in Conns : Reap(c) \/ (Register(c) /\ (reuseCount[c] # 0 \/ c \in lapsed'))
           \/ InvalidateUserFails \/ Recover
    PROVE  Streams'
<1>1. ASSUME NEW c \in Conns, Register(c), reuseCount[c] # 0 \/ c \in lapsed'
      PROVE  /\ UNCHANGED <<writer, connectionID, send, reuseCount, queue, streamVars, clientVars, netVars, eventVars>>
             /\ phase' = [phase EXCEPT ![c] = "registered"] /\ phase[c] = "built"
             /\ byConnection' = byConnection \cup {c}
  <2>1. Hub!HandlerRegister(c) /\ UNCHANGED <<streamVars, clientVars, netVars, eventVars>>
    BY <1>1 DEF Register, eventVars
  <2>2. queue' = queue
    BY <1>1, <2>1 DEF Hub!HandlerRegister, Hub!Register
  <2>3. /\ UNCHANGED <<writer, connectionID, send, reuseCount>>
        /\ phase' = [phase EXCEPT ![c] = "registered"] /\ phase[c] = "built"
        /\ byConnection' = byConnection \cup {c}
    BY <2>1 DEF Hub!HandlerRegister, Hub!Register, Hub!IndexAdd
  <2> QED BY <2>1, <2>2, <2>3
<1>2. ASSUME (\E c \in Conns : Reap(c)) \/ InvalidateUserFails \/ Recover
      PROVE  /\ UNCHANGED <<phase, writer, connectionID, send, reuseCount, queue, streamVars, clientVars, netVars, eventVars>>
             /\ byConnection' \subseteq byConnection
  BY <1>2 DEF Reap, InvalidateUserFails, Recover, Hub!Reap, Hub!InvalidateUserFails, Hub!Recover, Hub!IndexRemove,
              Hub!pumpVars, Hub!identVars, Hub!chanVars
<1>3. /\ UNCHANGED <<writer, connectionID, send, reuseCount, queue, streamVars, clientVars, netVars, eventVars>>
      /\ \/ phase' = phase /\ byConnection' \subseteq byConnection
         \/ \E c \in Conns : /\ phase' = [phase EXCEPT ![c] = "registered"] /\ phase[c] = "built"
                             /\ byConnection' = byConnection \cup {c}
  BY <1>1, <1>2
<1>4. ViewKept /\ conn' = conn
  BY <1>3 DEF ViewKept, clientVars, eventVars
<1>5. \A d \in Conns : /\ phase[d] = "free" => phase'[d] = "free"
                       /\ phase[d] = "finished" => phase'[d] = "finished"
                       /\ phase'[d] = "built" => phase[d] = "built"
                       /\ writer'[d] \in {writer[d], "done"}
  BY <1>3 DEF HubShape
<1>6. /\ byConnection' \subseteq Conns
      /\ \A d \in byConnection' : d \in byConnection \/ phase[d] = "built"
  BY <1>3 DEF HubShape
<1> QED BY <1>3, <1>4, <1>5, <1>6, KeptWhen

\* The server does nothing; the network is as it is, or gone.
LEMMA KeptApart ==
    ASSUME StreamTyped, StreamTyped', HubShape, Streams, UNCHANGED <<hubVars, streamVars>>, ViewKept,
           (conn' = conn /\ linkUp' = linkUp /\ net' = net) \/ ~ linkUp', requests' \subseteq requests
    PROVE  Streams'
<1>0. /\ UNCHANGED <<byConnection, phase, writer, connectionID, send, reuseCount, queue,
                     Sequence, deadQueue, deadQueuePointer>>
      /\ produced' = produced
  BY DEF hubVars, streamVars, ViewKept
<1>1. ASSUME NEW id \in ConnIds PROVE Quiet(id)
  <2>1. InNet(id)' => InNet(id) /\ net' = net
    BY <1>0 DEF InNet
  <2> QED BY <2>1, QuietWhen
<1>2. ASSUME NEW d \in Hub!Owners' PROVE Undisturbed(d)
  <2>1. d \in Hub!Owners
    BY <1>0, <1>2 DEF Hub!Owners
  <2>2. LinkUp(d)' => LinkUp(d) /\ net' = net
    BY DEF LinkUp
  <2>3. Live(d)' => Live(d)
    BY <1>0 DEF Live
  <2>4. UNCHANGED <<connectionID[d], send[d], Sequence[d], reuseCount[d], deadQueue, deadQueuePointer, queue>>
    BY <1>0
  <2> QED BY <1>0, <2>1, <2>2, <2>3, <2>4, UndisturbedWhen
<1> QED BY <1>1, <1>2, StreamsKept

\* The client connects or gives up, the network fails, a connection is forgotten.
LEMMA StreamsKeptOutside ==
    ASSUME StreamTyped, StreamTyped', HubShape, HubShape', PumpsInOrder, ClientInOrder, Streams,
           \/ \E c \in Conns : Dial(c) \/ Collect(c)
           \/ \E r \in requests : LoseRequest(r)
           \/ Break \/ ClientCloses \/ UNCHANGED vars
    PROVE  Streams'
<1>1. ASSUME NEW c \in Conns, Collect(c) PROVE Streams'
  <2>1. /\ phase[c] = "finished" /\ c \notin byConnection /\ byConnection' = byConnection /\ conn # c
        /\ phase' = [phase EXCEPT ![c] = "free"] /\ writer' = [writer EXCEPT ![c] = "idle"]
        /\ connectionID' = [connectionID EXCEPT ![c] = NoId]
        /\ send' = [send EXCEPT ![c] = NoChannel] /\ reuseCount' = [reuseCount EXCEPT ![c] = 0]
        /\ Sequence' = [Sequence EXCEPT ![c] = 0]
        /\ UNCHANGED <<queue, deadQueue, deadQueuePointer, clientVars, netVars, eventVars>>
    BY <1>1 DEF Collect, Hub!Release, Hub!chanVars
  <2>2. ViewKept /\ conn' = conn /\ linkUp' = linkUp /\ net' = net /\ requests' = requests /\ produced' = produced
    BY <2>1 DEF ViewKept, clientVars, netVars, eventVars
  <2>3. \A d \in Conns : d # c => /\ phase'[d] = phase[d] /\ writer'[d] = writer[d] /\ connectionID'[d] = connectionID[d]
                                  /\ send'[d] = send[d] /\ reuseCount'[d] = reuseCount[d] /\ Sequence'[d] = Sequence[d]
    BY <2>1 DEF HubShape, StreamTyped
  <2>4. phase'[c] = "free"
    BY <2>1 DEF HubShape
  <2>5. ASSUME NEW id \in ConnIds PROVE Quiet(id)
    <3>1. InNet(id)' => InNet(id) /\ net' = net
      BY <2>1, <2>2, <2>3 DEF InNet, StreamTyped
    <3> QED BY <2>2, <3>1, QuietWhen
  <2>6. ASSUME NEW d \in Hub!Owners' PROVE Undisturbed(d)
    <3>1. d \in Conns /\ d # c /\ d \in Hub!Owners
      <4>0. byConnection' = byConnection /\ byConnection \subseteq Conns
        BY <2>1 DEF HubShape
      <4>1. d \in Conns /\ (phase'[d] \notin {"free", "finished"} \/ d \in byConnection)
        BY <2>6, <4>0 DEF Hub!Owners
      <4>2. d # c
        BY <2>1, <2>4, <4>1
      <4>3. phase'[d] = phase[d]
        BY <2>3, <4>1, <4>2
      <4> QED BY <4>1, <4>2, <4>3 DEF Hub!Owners
    <3>2. LinkUp(d)' => LinkUp(d) /\ net' = net
      BY <2>2 DEF LinkUp
    <3>3. Live(d)' => Live(d)
      BY <2>1, <2>3, <3>1 DEF Live
    <3>4. UNCHANGED <<connectionID[d], send[d], Sequence[d], reuseCount[d], deadQueue, deadQueuePointer, queue>>
      BY <2>1, <2>3, <3>1
    <3>5. phase'[d] = phase[d] /\ writer'[d] = writer[d]
      BY <2>3, <3>1
    <3> QED BY <2>2, <3>1, <3>2, <3>3, <3>4, <3>5, UndisturbedWhen
  <2> QED BY <2>5, <2>6, StreamsKept
<1>2. ASSUME NEW c \in Conns, Dial(c) PROVE Streams'
  <2>1. /\ phase[c] = "free" /\ conn' = c
        /\ requests' = requests \cup {[conn |-> c, id |-> connectionId, seq |-> serverSequence]}
        /\ UNCHANGED <<hubVars, streamVars, connectionId, serverSequence, eventVars>>
    BY <1>2 DEF Dial, Client!Initialize
  <2>2. /\ UNCHANGED <<byConnection, phase, writer, connectionID, send, reuseCount, queue,
                       Sequence, deadQueue, deadQueuePointer>>
        /\ ViewKept /\ produced' = produced
    BY <2>1 DEF hubVars, streamVars, ViewKept, eventVars
  <2>3. ASSUME NEW id \in ConnIds PROVE Quiet(id)
    <3>1. ~ InNet(id)'
      BY <2>1, <2>2 DEF InNet
    <3> QED BY <2>2, <3>1, QuietWhen
  <2>4. ASSUME NEW d \in Hub!Owners' PROVE Undisturbed(d)
    <3>1. d \in Hub!Owners /\ connectionID[d] \in ConnIds /\ phase[d] # "free"
      <4>1. d \in Hub!Owners
        BY <2>2, <2>4 DEF Hub!Owners
      <4> QED BY <4>1, OwnerFacts
    <3>2. ~ LinkUp(d)'
      BY <2>1, <3>1 DEF LinkUp
    <3>3. Live(d)' => Live(d)
      BY <2>2 DEF Live
    <3>4. \A n \in Nat : ~ (produced < n /\ n <= produced')
      BY <2>2, Bounds
    <3>5. ASSUME NEW r \in requests', r.id = connectionID[d]
          PROVE  r \in requests \/ (Relevant(r.id) /\ r.seq = Expected(r.id) /\ r.seq >= 1)
      <4>1. CASE r = [conn |-> c, id |-> connectionId, seq |-> serverSequence]
        <5>1. connectionId \in ConnIds /\ r.id = connectionId /\ r.seq = serverSequence
          BY <3>1, <3>5, <4>1
        <5>2. serverSequence # 0 /\ serverSequence \in Nat
          BY <5>1 DEF ClientInOrder, StreamTyped
        <5> QED BY <5>1, <5>2 DEF Relevant, Expected
      <4> QED BY <2>1, <4>1
    <3> QED BY <2>2, <3>1, <3>2, <3>3, <3>4, <3>5 DEF Undisturbed
  <2> QED BY <2>3, <2>4, StreamsKept
<1>3. ASSUME \/ \E r \in requests : LoseRequest(r)
             \/ Break \/ ClientCloses \/ UNCHANGED vars
      PROVE  Streams'
  <2>1. /\ UNCHANGED <<hubVars, streamVars, connectionId, serverSequence, eventVars>>
        /\ (conn' = conn /\ linkUp' = linkUp /\ net' = net) \/ ~ linkUp'
        /\ requests' \subseteq requests
    BY <1>3 DEF LoseRequest, Break, ClientCloses, Client!OnClose, clientVars, netVars, vars
  <2>2. ViewKept
    BY <2>1 DEF ViewKept, eventVars
  <2> QED BY <2>1, <2>2, KeptApart
<1> QED BY <1>1, <1>2, <1>3

-----------------------------------------------------------------------------
(* The client receives. *)

\* A message that the client reads comes from a connection that exists.
LEMMA Reading ==
    ASSUME StreamTyped, HubShape, ClientInOrder, Streams, Receive
    PROVE  /\ net # <<>> /\ net \in Seq(Records) /\ linkUp /\ conn \in Conns /\ phase[conn] # "free"
           /\ connectionID[conn] \in ConnIds /\ InNet(connectionID[conn])
           /\ Relevant(connectionID[conn]) /\ Explained(connectionID[conn])
           /\ \A id : InNet(id) => id = connectionID[conn]
<1>1. net # <<>> /\ net \in Seq(Records)
  BY DEF Receive, ReceiveHello, ReceiveEvent, StreamTyped
<1>2. linkUp /\ conn \in Conns /\ conn # NoConn /\ phase[conn] # "free"
  BY <1>1 DEF ClientInOrder, StreamTyped
<1>3. connectionID[conn] \in ConnIds
  BY <1>2 DEF HubShape
<1>4. InNet(connectionID[conn]) /\ \A id : InNet(id) => id = connectionID[conn]
  BY <1>2 DEF InNet
<1>5. Relevant(connectionID[conn])
  BY <1>3, <1>4 DEF Relevant
<1> QED BY <1>1, <1>2, <1>3, <1>4, <1>5 DEF Streams

\* What arrives first, to a client that takes it and to one that does not.
LEMMA Arriving ==
    ASSUME StreamTyped, HubShape, ClientInOrder, Streams, Receive, NEW id0, id0 = connectionID[conn],
           NEW at \in Numbers, NEW m \in Nat, Stream(at, id0, m), NEW E \in Nat, E = Expected(id0)
    PROVE  /\ m # 0
           /\ E < m => Head(net) = [seq |-> E, msg |-> Msg(at, id0, E)]
           /\ E = m => Head(net).seq # E /\ Head(net).msg.type = "event"
           /\ Carries(at, id0, E + 1, m, Tail(net))
<1>0. net # <<>> /\ net \in Seq(Records) /\ InNet(id0)
  BY Reading
<1> PICK s \in Seq(Records) : s = net
  BY <1>0
<1>1. s # <<>> /\ E <= m /\ Carries(at, id0, E, m, s)
  BY <1>0 DEF Stream
<1>2. Carries(at, id0, E + 1, m, Tail(s))
  BY <1>1, CarriedOn
<1>3. ASSUME E < m PROVE Head(s) = [seq |-> E, msg |-> Msg(at, id0, E)]
  BY <1>1, <1>3, CarriedFirst
<1>4. ASSUME E = m PROVE m # 0 /\ Head(s).seq # E /\ Head(s).msg.type = "event"
  <2>1. Carries(at, id0, m, m, s)
    BY <1>1, <1>4
  <2> QED BY <1>1, <1>4, <2>1, CarriedBeyond
<1>5. E < m \/ E = m
  BY <1>1
<1> QED BY <1>2, <1>3, <1>4, <1>5

\* A hello is the first message of a stream the client does not know yet.
LEMMA HelloRead ==
    ASSUME StreamTyped, HubShape, ClientInOrder, Streams, Receive, ReceiveHello,
           NEW id0, id0 = connectionID[conn], NEW at \in Numbers, NEW m \in Nat, Stream(at, id0, m)
    PROVE  /\ m >= 1 /\ Expected(id0) = 0 /\ id0 # connectionId
           /\ conn' = conn /\ connectionId' = id0 /\ serverSequence' = 1
           /\ net' = Tail(net) /\ linkUp' = linkUp
           /\ Base(id0)' = Base(id0) /\ seen \subseteq seen' /\ Latest' = Latest /\ produced' = produced
           /\ Carries(at, id0, 1, m, Tail(net))
<1>0. /\ net # <<>> /\ net \in Seq(Records) /\ linkUp /\ conn \in Conns /\ id0 \in ConnIds /\ InNet(id0)
      /\ \A id : InNet(id) => id = id0
  BY Reading
<1> PICK E \in Nat : E = Expected(id0)
  BY Bounds
<1>1. E <= m
  BY DEF Stream
<1>2. /\ m # 0
      /\ E < m => Head(net) = [seq |-> E, msg |-> Msg(at, id0, E)]
      /\ E = m => Head(net).msg.type = "event"
      /\ Carries(at, id0, E + 1, m, Tail(net))
  BY Arriving
<1>3. Head(net).msg.type = "hello"
  BY DEF ReceiveHello
<1>4. E < m /\ Head(net).seq = E /\ Head(net).msg = Msg(at, id0, E)
  BY <1>1, <1>2, <1>3
<1>5. E = 0
  BY <1>3, <1>4, MessageTypes
<1>6. Head(net).msg.id = id0 /\ Head(net).seq = 0 /\ Carries(at, id0, 1, m, Tail(net))
  BY <1>2, <1>4, <1>5, MessageTypes
<1>7. id0 # connectionId
  <2>1. id0 # NoId
    BY <1>0
  <2> QED BY <1>5, <2>1 DEF Expected, ClientInOrder
<1>8. connectionId' = id0 /\ Client!CheckSequence(0, IF Client!IsRestart(id0) THEN 0 ELSE serverSequence)
  BY <1>6 DEF ReceiveHello, Client!OnHello
<1>9. (IF Client!IsRestart(id0) THEN 0 ELSE serverSequence) = 0
  BY <1>7 DEF Client!IsRestart, ClientInOrder
<1>10. conn' = conn /\ serverSequence' = 1
  BY <1>8, <1>9 DEF Client!CheckSequence
<1>11. net' = Tail(net) /\ linkUp' = linkUp /\ UNCHANGED <<produced, excusedVars, loaded>>
  BY <1>10 DEF Receive
<1>12. seen' = seen \cup 1 .. (IF connectionId = NoId THEN loaded[id0] ELSE produced) /\ delivered' = delivered
  <2>1. seen' = seen \cup 1 .. (IF Client!IsRestart(id0) THEN produced ELSE loaded[id0]) /\ delivered' = delivered
    BY <1>6 DEF ReceiveHello
  <2> QED BY <1>7, <2>1 DEF Client!IsRestart
<1>13. Base(id0)' = Base(id0)
  BY <1>7, <1>8, <1>11, <1>12 DEF Base, excusedVars
<1>14. Latest' = Latest
  BY <1>12 DEF Latest
<1> QED BY <1>2, <1>5, <1>6, <1>7, <1>8, <1>10, <1>11, <1>12, <1>13, <1>14

\* Who is not concerned by what was read.
LEMMA ReadApart ==
    ASSUME StreamTyped, HubShape, ClientInOrder, Streams, Receive, conn' = conn,
           NEW id0, id0 = connectionID[conn], connectionId' = id0
    PROVE  /\ UNCHANGED <<hubVars, streamVars, requests, produced, linkUp>>
           /\ \A id : InNet(id)' <=> InNet(id)
           /\ \A id \in ConnIds : id # id0 => Quiet(id)
           /\ \A d \in Hub!Owners' : d \in Hub!Owners /\ connectionID'[d] = connectionID[d]
           /\ \A d \in Hub!Owners' : connectionID'[d] # id0 => Undisturbed(d)
<1>0. \A id : InNet(id) => id = id0
  BY Reading
<1>1. UNCHANGED <<hubVars, streamVars, requests, produced, linkUp>>
  BY DEF Receive
<1>2. UNCHANGED <<byConnection, phase, writer, connectionID, send, reuseCount, queue, Sequence, deadQueue, deadQueuePointer>>
  BY <1>1 DEF hubVars, streamVars
<1>3. \A id : InNet(id)' <=> InNet(id)
  BY <1>1, <1>2 DEF InNet
<1>4. \A id \in ConnIds : id # id0 => Quiet(id)
  BY <1>0, <1>3 DEF Quiet, Relevant
<1>5. \A d \in Hub!Owners' : d \in Hub!Owners /\ connectionID'[d] = connectionID[d]
  BY <1>2 DEF Hub!Owners
<1>6. ASSUME NEW d \in Hub!Owners', connectionID'[d] # id0 PROVE Undisturbed(d)
  <2>1. d \in Hub!Owners /\ connectionID[d] # id0
    BY <1>5, <1>6
  <2>2. ~ LinkUp(d)'
    BY <2>1 DEF LinkUp
  <2>3. Live(d)' => Live(d)
    BY <1>2 DEF Live
  <2>4. UNCHANGED <<connectionID[d], send[d], Sequence[d], reuseCount[d], deadQueue, deadQueuePointer, queue>>
    BY <1>2
  <2> QED BY <1>1, <1>2, <2>1, <2>2, <2>3, <2>4, UndisturbedWhen
<1> QED BY <1>1, <1>3, <1>4, <1>5, <1>6

\* The numbers of a dead queue are a matter of the server.
LEMMA NumbersUntouched ==
    ASSUME UNCHANGED <<hubVars, streamVars, requests>>, NEW d, NEW rec, NEW t, NEW m, NumbersView(d, rec, t, m)
    PROVE  NumbersView(d, rec, t, m)'
BY DEF hubVars, streamVars, NumbersView

\* The client reads a hello: the stream is known from its start.
LEMMA StreamsKeptByHello ==
    ASSUME StreamTyped, StreamTyped', HubShape, HubShape', ClientInOrder, Streams, NoSilentGap, Receive, ReceiveHello
    PROVE  Streams' /\ ClientInOrder' /\ NoSilentGap'
<1> PICK id0 : id0 = connectionID[conn]
  OBVIOUS
<1>0. /\ net # <<>> /\ net \in Seq(Records) /\ linkUp /\ conn \in Conns /\ phase[conn] # "free"
      /\ id0 \in ConnIds /\ InNet(id0) /\ Relevant(id0) /\ Explained(id0)
  BY Reading
<1>1. PICK at0 \in Numbers, m0 \in Nat : Stream(at0, id0, m0)
  BY <1>0 DEF Explained
<1>2. /\ Expected(id0) = 0 /\ conn' = conn /\ connectionId' = id0 /\ serverSequence' = 1
      /\ net' = Tail(net) /\ linkUp' = linkUp
      /\ Base(id0)' = Base(id0) /\ seen \subseteq seen' /\ Latest' = Latest /\ produced' = produced
  BY <1>1, HelloRead
<1>3. /\ UNCHANGED <<hubVars, streamVars, requests, produced, linkUp>>
      /\ \A id : InNet(id)' <=> InNet(id)
      /\ \A id \in ConnIds : id # id0 => Quiet(id)
      /\ \A d \in Hub!Owners' : d \in Hub!Owners /\ connectionID'[d] = connectionID[d]
      /\ \A d \in Hub!Owners' : connectionID'[d] # id0 => Undisturbed(d)
  BY <1>2, ReadApart
<1>4. Expected(id0)' = 1
  BY <1>2 DEF Expected
<1>5. ASSUME NEW at \in Numbers, NEW m \in Nat, Stream(at, id0, m) PROVE Stream(at, id0, m)' /\ m >= 1
  <2>1. /\ Ordered(at, 0, m, Latest, produced) /\ GapFree(at, 0, m, Base(id0))
        /\ m >= 1 /\ Carries(at, id0, 1, m, Tail(net))
    BY <1>2, <1>5, HelloRead DEF Stream
  <2>2. Ordered(at, 1, m, Latest, produced) /\ GapFree(at, 1, m, Base(id0))
    BY <2>1, Greeted
  <2> QED BY <1>2, <1>4, <2>1, <2>2 DEF Stream
<1>6. ASSUME NEW d \in Hub!Owners', connectionID'[d] = id0 PROVE Served(d)'
  <2>1. d \in Hub!Owners /\ connectionID[d] = id0 /\ d \in Conns /\ send[d] \in Channels
    BY <1>3, <1>6, OwnerFacts
  <2>2. PICK at \in Numbers, rec \in [Nat -> Records] : \E t, m \in Nat : Owns(d, at, rec, t, m)
    BY <2>1 DEF Streams, Served
  <2>3. PICK t \in Nat, m \in Nat : Owns(d, at, rec, t, m)
    BY <2>2
  <2>4. NumbersView(d, rec, t, m)' /\ Stream(at, id0, m) /\ Content(d, at, rec, t, m)
    BY <1>0, <1>3, <2>1, <2>3, NumbersUntouched DEF Owns
  <2>5. Stream(at, id0, m)' /\ m >= 1
    BY <1>5, <2>4
  <2> PICK q, e : q = queue[send[d]] /\ e = m + Len(q)
    OBVIOUS
  <2>6. /\ m = 0 => t = 0 /\ Sequence[d] = 0
        /\ Recorded(at, id0, rec, t, m)
        /\ Queued(at, id0, m, q)
        /\ phase[d] = "built" /\ reuseCount[d] = 0 => m = 0 /\ q = <<>>
        /\ LinkUp(d) => Link(writer[d], Sequence[d], 0, net, t, m)
        /\ t = m => 0 + Len(net) <= m
        /\ Ordered(at, 0, e, Latest, produced)
        /\ t = m => GapFree(at, 0, e, Base(id0))
        /\ t = m /\ Live(d) /\ e >= 1 => Covered(at, 0, e, Base(id0), produced)
    BY <1>0, <1>2, <2>1, <2>4 DEF Content, End
  <2>7. /\ connectionID'[d] = id0 /\ send'[d] = send[d] /\ queue'[send'[d]] = q /\ Sequence'[d] = Sequence[d]
        /\ writer'[d] = writer[d] /\ phase'[d] = phase[d] /\ reuseCount'[d] = reuseCount[d]
        /\ LinkUp(d)' => LinkUp(d)
        /\ Live(d)' => Live(d)
    BY <1>2, <1>3, <2>1 DEF hubVars, streamVars, LinkUp, Live
  <2>8. Len(net) \in Nat /\ Len(Tail(net)) = Len(net) - 1
    BY <1>0, SequenceParts
  <2>9. LinkUp(d)' => Link(writer'[d], Sequence'[d], 1, net', t, m)
    BY <1>0, <1>2, <2>6, <2>7, <2>8 DEF Link
  <2>10. t = m => 1 + Len(net') <= m
    <3>1. t = m => 0 + Len(net) <= m
      BY <2>6
    <3>2. Len(net') = Len(net) - 1
      BY <1>2, <2>8
    <3> QED BY <2>8, <3>1, <3>2
  <2>11. Ordered(at, 1, e, Latest, produced) /\ (t = m => GapFree(at, 1, e, Base(id0)))
    BY <2>6, Greeted
  <2>12. t = m /\ Live(d)' /\ e >= 1 => Covered(at, 1, e, Base(id0), produced)
    BY <2>6, <2>7, Greeted
  <2>13. /\ m # 0
         /\ phase'[d] = "built" /\ reuseCount'[d] = 0 => m = 0 /\ q = <<>>
    BY <2>5, <2>6, <2>7
  <2>14. Content(d, at, rec, t, m)'
    BY <1>2, <1>4, <2>6, <2>7, <2>9, <2>10, <2>11, <2>12, <2>13 DEF Content, End
  <2> QED BY <2>4, <2>5, <2>7, <2>14 DEF Served, Owns
<1>7. Explained(id0)'
  BY <1>1, <1>5 DEF Explained
<1>8. Streams'
  BY <1>3, <1>6, <1>7, StreamsServed
<1>9. ClientInOrder'
  <2>1. id0 # NoId /\ conn' # NoConn /\ linkUp' /\ phase'[conn'] # "free"
    BY <1>0, <1>2, <1>3 DEF hubVars
  <2>2. Latest' <= produced'
    BY <1>2 DEF ClientInOrder
  <2> QED BY <1>2, <2>1, <2>2 DEF ClientInOrder
<1>10. NoSilentGap'
  <2>1. UNCHANGED <<dropped, unencodable, skipped, unchecked>>
    BY DEF Receive, excusedVars
  <2> QED BY <1>2, <2>1 DEF NoSilentGap, Latest, Abstract!Excused
<1> QED BY <1>8, <1>9, <1>10

\* The last element of a sequence is the one appended.
LEMMA LastAppended ==
    ASSUME NEW S, NEW s \in Seq(S), NEW x \in S
    PROVE  Append(s, x) # <<>> /\ Append(s, x)[Len(Append(s, x))] = x
OBVIOUS

\* An event that is passed on is the one the client expects.
LEMMA EventRead ==
    ASSUME StreamTyped, HubShape, ClientInOrder, Streams, Receive, ReceiveEvent, conn' = conn,
           NEW id0, id0 = connectionID[conn], NEW at \in Numbers, NEW m \in Nat, Stream(at, id0, m)
    PROVE  /\ Expected(id0) # 0 /\ Expected(id0) < m /\ id0 = connectionId /\ Expected(id0) = serverSequence
           /\ connectionId' = connectionId /\ serverSequence' = serverSequence + 1
           /\ net' = Tail(net) /\ linkUp' = linkUp
           /\ at[serverSequence] = Head(net).msg.n
           /\ Base(id0)' = Base(id0) \cup {Head(net).msg.n}
           /\ seen' = seen \cup {Head(net).msg.n} /\ delivered' = Append(delivered, Head(net).msg.n)
           /\ Latest' = Head(net).msg.n /\ UNCHANGED <<produced, dropped, unencodable, skipped, unchecked>>
           /\ Carries(at, id0, serverSequence + 1, m, Tail(net))
<1>0. /\ net # <<>> /\ net \in Seq(Records) /\ conn \in Conns /\ id0 \in ConnIds /\ InNet(id0)
  BY Reading
<1> PICK E \in Nat : E = Expected(id0)
  BY Bounds
<1>1. E <= m
  BY DEF Stream
<1> PICK s : s = net
  OBVIOUS
<1>2. /\ m # 0
      /\ E < m => Head(s) = [seq |-> E, msg |-> Msg(at, id0, E)]
      /\ E = m => Head(s).seq # E
      /\ Carries(at, id0, E + 1, m, Tail(s))
  BY Arriving
<1>3. Head(s).msg.type = "event" /\ Client!OnEvent(Head(s).seq)
  BY DEF ReceiveEvent
<1>4. Head(s).seq = serverSequence /\ serverSequence' = serverSequence + 1 /\ connectionId' = connectionId
  <2>1. conn # NoConn
    BY <1>0
  <2> QED BY <1>3, <2>1 DEF Client!OnEvent, Client!CheckSequence
<1>5. E < m => Head(s).seq = E /\ Head(s).msg = Msg(at, id0, E)
  BY <1>2
<1>6. E < m => E # 0 /\ Head(s).msg.n = at[E]
  BY <1>3, <1>5, MessageTypes
<1>7. id0 = connectionId
  <2>1. SUFFICES ASSUME id0 # connectionId PROVE FALSE
    OBVIOUS
  <2>2. E = 0
    BY <2>1 DEF Expected
  <2> QED BY <1>1, <1>2, <1>6, <2>2
<1>8. E = serverSequence
  BY <1>7 DEF Expected
<1>9. E < m
  BY <1>1, <1>2, <1>4, <1>8
<1>10. net' = Tail(net) /\ linkUp' = linkUp /\ UNCHANGED <<produced, excusedVars, loaded>>
  BY DEF Receive
<1>11. seen' = seen \cup {Head(net).msg.n} /\ delivered' = Append(delivered, Head(net).msg.n)
  BY DEF ReceiveEvent
<1>12. Base(id0)' = Base(id0) \cup {Head(net).msg.n}
  BY <1>4, <1>7, <1>10, <1>11 DEF Base, excusedVars
<1>13. Latest' = Head(net).msg.n
  <2>1. Head(net) \in Records
    BY <1>0
  <2>2. Head(net).msg.n \in Nat
    BY <1>3, <2>1, EventsOf, RecordParts
  <2>3. delivered' # <<>> /\ delivered'[Len(delivered')] = Head(net).msg.n
    <3>1. delivered \in Seq(Nat)
      BY DEF StreamTyped
    <3> PICK n \in Nat : n = Head(net).msg.n
      BY <2>2
    <3>2. Append(delivered, n) # <<>> /\ Append(delivered, n)[Len(Append(delivered, n))] = n
      BY <3>1, LastAppended
    <3> QED BY <1>11, <3>2
  <2> QED BY <2>3 DEF Latest, Abstract!Latest
<1>14. at[serverSequence] = Head(net).msg.n
  BY <1>6, <1>8, <1>9
<1>15. Carries(at, id0, serverSequence + 1, m, Tail(net))
  BY <1>2, <1>8
<1> QED BY <1>4, <1>6, <1>7, <1>8, <1>9, <1>10, <1>11, <1>12, <1>13, <1>14, <1>15
        DEF excusedVars

\* The client reads an event: it is the next one, or the connection is given up.
LEMMA StreamsKeptByEvent ==
    ASSUME StreamTyped, StreamTyped', HubShape, HubShape', ClientInOrder, Streams, NoSilentGap, Receive, ReceiveEvent
    PROVE  Streams' /\ ClientInOrder' /\ NoSilentGap'
<1> PICK id0 : id0 = connectionID[conn]
  OBVIOUS
<1>0. /\ net # <<>> /\ net \in Seq(Records) /\ linkUp /\ conn \in Conns /\ phase[conn] # "free"
      /\ id0 \in ConnIds /\ InNet(id0) /\ Relevant(id0) /\ Explained(id0)
  BY Reading
<1>1. ASSUME conn' # conn PROVE Streams' /\ ClientInOrder' /\ NoSilentGap'
  <2>1. /\ connectionId' = connectionId /\ serverSequence' = serverSequence
        /\ UNCHANGED <<seen, delivered>>
    BY <1>1 DEF ReceiveEvent, Client!OnEvent, Client!CheckSequence
  <2>2. /\ net' = <<>> /\ ~ linkUp'
        /\ UNCHANGED <<hubVars, streamVars, requests, produced, excusedVars, loaded>>
    BY <1>1 DEF Receive
  <2>3. ViewKept
    BY <2>1, <2>2 DEF ViewKept
  <2>4. Streams'
    BY <2>2, <2>3, KeptApart
  <2>5. ClientInOrder'
    <3>1. Latest' <= produced'
      BY <2>1, <2>2 DEF ClientInOrder, Latest
    <3> QED BY <2>1, <2>2, <3>1 DEF ClientInOrder
  <2>6. NoSilentGap'
    BY <2>1, <2>2 DEF NoSilentGap, excusedVars, Abstract!Excused
  <2> QED BY <2>4, <2>5, <2>6
<1>2. ASSUME conn' = conn PROVE Streams' /\ ClientInOrder' /\ NoSilentGap'
  <2> PICK E, n : E = serverSequence /\ n = Head(net).msg.n
    OBVIOUS
  <2>1. PICK at0 \in Numbers, m0 \in Nat : Stream(at0, id0, m0)
    BY <1>0 DEF Explained
  <2>2. /\ E # 0 /\ id0 = connectionId /\ Expected(id0) = E
        /\ connectionId' = connectionId /\ serverSequence' = E + 1 /\ net' = Tail(net) /\ linkUp' = linkUp
        /\ Base(id0)' = Base(id0) \cup {n} /\ seen' = seen \cup {n}
        /\ Latest' = n /\ UNCHANGED <<produced, dropped, unencodable, skipped, unchecked>>
        /\ E < m0 /\ at0[E] = n
    BY <1>2, <2>1, EventRead
  <2>3. E \in Nat /\ produced \in Nat /\ Latest \in Nat /\ Expected(id0)' = E + 1
    BY <2>2, Bounds DEF StreamTyped, Expected
  <2>4. /\ UNCHANGED <<hubVars, streamVars, requests, produced, linkUp>>
        /\ \A id : InNet(id)' <=> InNet(id)
        /\ \A id \in ConnIds : id # id0 => Quiet(id)
        /\ \A d \in Hub!Owners' : d \in Hub!Owners /\ connectionID'[d] = connectionID[d]
        /\ \A d \in Hub!Owners' : connectionID'[d] # id0 => Undisturbed(d)
    <3>1. connectionId' = id0
      BY <2>2
    <3> QED BY <1>2, <3>1, ReadApart
  <2>t. ASSUME NEW at \in Numbers, NEW e \in Nat, E < e, at[E] = n
        PROVE  /\ Ordered(at, E, e, Latest, produced) => n <= produced /\ Ordered(at, E + 1, e, n, produced)
               /\ GapFree(at, E, e, Base(id0)) => /\ \A k \in Nat : 1 <= k /\ k < n => k \in Base(id0)
                                                  /\ GapFree(at, E + 1, e, Base(id0) \cup {n})
               /\ Covered(at, E, e, Base(id0), produced) => Covered(at, E + 1, e, Base(id0) \cup {n}, produced)
    <3> PICK lo, hi, B : lo \in Nat /\ hi \in Nat /\ lo = Latest /\ hi = produced /\ B = Base(id0)
      BY <2>3
    <3>1. E \in Nat \ {0} /\ E < e
      BY <2>2, <2>3, <2>t
    <3>2. Ordered(at, E, e, lo, hi) => at[E] <= hi /\ Ordered(at, E + 1, e, at[E], hi)
      BY <3>1, Taken
    <3>3. GapFree(at, E, e, B) => /\ \A k \in Nat : 1 <= k /\ k < at[E] => k \in B
                                  /\ GapFree(at, E + 1, e, B \cup {at[E]})
      BY <3>1, Taken
    <3>4. Covered(at, E, e, B, hi) => Covered(at, E + 1, e, B \cup {at[E]}, hi)
      BY <3>1, Taken
    <3> QED BY <2>t, <3>2, <3>3, <3>4
  <2>5. ASSUME NEW at \in Numbers, NEW m \in Nat, Stream(at, id0, m)
        PROVE  /\ Stream(at, id0, m)' /\ E < m /\ at[E] = n
               /\ n <= produced /\ \A k \in Nat : 1 <= k /\ k < n => k \in Base(id0)
    <3>1. /\ Ordered(at, E, m, Latest, produced) /\ GapFree(at, E, m, Base(id0))
      BY <2>2, <2>5 DEF Stream
    <3>2. E < m /\ at[E] = n /\ Carries(at, id0, E + 1, m, Tail(net))
      BY <1>2, <2>5, EventRead
    <3>3. n <= produced /\ Ordered(at, E + 1, m, n, produced)
      BY <2>t, <3>1, <3>2
    <3>4. /\ \A k \in Nat : 1 <= k /\ k < n => k \in Base(id0)
          /\ GapFree(at, E + 1, m, Base(id0) \cup {n})
      BY <2>t, <3>1, <3>2
    <3>5. E + 1 <= m
      BY <2>3, <3>2
    <3>6. Stream(at, id0, m)'
      BY <2>2, <2>3, <2>4, <3>2, <3>3, <3>4, <3>5 DEF Stream
    <3> QED BY <3>2, <3>3, <3>4, <3>6
  <2>6. ASSUME NEW d \in Hub!Owners', connectionID'[d] = id0 PROVE Served(d)'
    <3>1. d \in Hub!Owners /\ connectionID[d] = id0 /\ d \in Conns /\ send[d] \in Channels
          /\ queue[send[d]] \in Seq(Hub!Messages)
      BY <2>4, <2>6, OwnerFacts DEF HubShape
    <3>2. PICK at \in Numbers, rec \in [Nat -> Records] : \E t, m \in Nat : Owns(d, at, rec, t, m)
      BY <3>1 DEF Streams, Served
    <3>3. PICK t \in Nat, m \in Nat : Owns(d, at, rec, t, m)
      BY <3>2
    <3>4. NumbersView(d, rec, t, m)' /\ Stream(at, id0, m) /\ Content(d, at, rec, t, m)
      BY <1>0, <2>4, <3>1, <3>3, NumbersUntouched DEF Owns
    <3>5. Stream(at, id0, m)' /\ E < m /\ at[E] = n
      BY <2>5, <3>4
    <3> PICK q, e : q = queue[send[d]] /\ e = m + Len(q)
      OBVIOUS
    <3>a. Len(q) \in Nat /\ e \in Nat /\ E < e
      <4>1. Len(q) \in Nat
        BY <3>1, SequenceParts
      <4> QED BY <2>3, <3>5, <4>1
    <3>6. /\ m = 0 => t = 0 /\ Sequence[d] = 0
          /\ Recorded(at, id0, rec, t, m)
          /\ Queued(at, id0, m, q)
          /\ phase[d] = "built" /\ reuseCount[d] = 0 => m = 0 /\ q = <<>>
          /\ LinkUp(d) => Link(writer[d], Sequence[d], E, net, t, m)
          /\ t = m => E + Len(net) <= m
          /\ Ordered(at, E, e, Latest, produced)
          /\ t = m => GapFree(at, E, e, Base(id0))
          /\ t = m /\ Live(d) /\ e >= 1 => Covered(at, E, e, Base(id0), produced)
      BY <1>0, <2>2, <3>1, <3>4 DEF Content, End
    <3>7. /\ connectionID'[d] = id0 /\ send'[d] = send[d] /\ queue'[send'[d]] = q /\ Sequence'[d] = Sequence[d]
          /\ writer'[d] = writer[d] /\ phase'[d] = phase[d] /\ reuseCount'[d] = reuseCount[d]
          /\ LinkUp(d)' => LinkUp(d)
          /\ Live(d)' => Live(d)
      BY <1>2, <2>4, <3>1 DEF hubVars, streamVars, LinkUp, Live
    <3>8. Len(net) \in Nat /\ Len(net') = Len(net) - 1
      BY <1>0, <2>2, SequenceParts
    <3>9. LinkUp(d)' => Link(writer'[d], Sequence'[d], E + 1, net', t, m)
      <4>1. LinkUp(d)' => Link(writer[d], Sequence[d], E, net, t, m)
        BY <3>6, <3>7
      <4>2. writer'[d] = writer[d] /\ Sequence'[d] = Sequence[d] /\ Len(net) # 0
        BY <1>0, <3>7, SequenceParts
      <4> PICK l \in Nat : l = Len(net) /\ Len(net') = l - 1 /\ l # 0
        BY <3>8, <4>2
      <4>3. ASSUME LinkUp(d)', writer[d] = "loop" PROVE IF t = m THEN (E + 1) + Len(net') = m ELSE (E + 1) + Len(net') > m
        <5>1. IF t = m THEN E + l = m ELSE E + l > m
          BY <4>1, <4>3 DEF Link
        <5> QED BY <2>3, <5>1
      <4>4. ASSUME LinkUp(d)' PROVE writer[d] \notin {"idle", "start"}
        BY <1>0, <4>1, <4>4 DEF Link
      <4> QED BY <4>2, <4>3, <4>4 DEF Link
    <3>10. t = m => (E + 1) + Len(net') <= m
      <4>1. t = m => E + Len(net) <= m
        BY <3>6
      <4> QED BY <2>3, <3>8, <4>1
    <3>11. Ordered(at, E + 1, e, n, produced)
      <4>1. Ordered(at, E, e, Latest, produced)
        BY <3>6
      <4> QED BY <2>t, <3>5, <3>a, <4>1
    <3>12. t = m => GapFree(at, E + 1, e, Base(id0) \cup {n})
      <4>1. t = m => GapFree(at, E, e, Base(id0))
        BY <3>6
      <4> QED BY <2>t, <3>5, <3>a, <4>1
    <3>13. t = m /\ Live(d)' /\ e >= 1 => Covered(at, E + 1, e, Base(id0) \cup {n}, produced)
      <4>1. t = m /\ Live(d)' /\ e >= 1 => Covered(at, E, e, Base(id0), produced)
        BY <3>6, <3>7
      <4> QED BY <2>t, <3>5, <3>a, <4>1
    <3>14. /\ m # 0
           /\ phase'[d] = "built" /\ reuseCount'[d] = 0 => m = 0 /\ q = <<>>
      BY <2>3, <3>5, <3>6, <3>7
    <3>15. Content(d, at, rec, t, m)'
      BY <2>2, <2>3, <3>6, <3>7, <3>9, <3>10, <3>11, <3>12, <3>13, <3>14 DEF Content, End
    <3> QED BY <3>4, <3>5, <3>7, <3>15 DEF Served, Owns
  <2>7. Explained(id0)'
    BY <2>1, <2>5 DEF Explained
  <2>8. Streams'
    BY <2>4, <2>6, <2>7, StreamsServed
  <2>9. n \in Nat /\ n <= produced /\ \A k \in Nat : 1 <= k /\ k < n => k \in Base(id0)
    <3>1. n \in Nat
      BY <2>1, <2>2, <2>3 DEF Numbers
    <3> QED BY <2>1, <2>5, <3>1
  <2>10. ClientInOrder'
    <3>1. conn' # NoConn /\ linkUp' /\ phase'[conn'] # "free"
      BY <1>0, <1>2, <2>2, <2>4 DEF hubVars
    <3>2. serverSequence' # 0 /\ connectionId' # NoId
      BY <1>0, <2>2, <2>3
    <3>3. Latest' <= produced'
      BY <2>2, <2>9
    <3> QED BY <3>1, <3>2, <3>3 DEF ClientInOrder
  <2>11. NoSilentGap'
    <3>1. Base(id0) = seen \cup Abstract!Excused
      BY <2>2 DEF Base, Abstract!Excused
    <3>2. Abstract!Excused' = Abstract!Excused
      BY <2>2 DEF Abstract!Excused
    <3>3. ASSUME NEW k \in 1 .. n PROVE k \in seen' \cup Abstract!Excused'
      BY <2>2, <2>9, <3>1, <3>2
    <3> QED BY <2>2, <3>3 DEF NoSilentGap, Latest
  <2> QED BY <2>8, <2>10, <2>11
<1> QED BY <1>1, <1>2

-----------------------------------------------------------------------------
(* The write pump of one connection. *)

\* It disturbs no other connection and no other stream.
LEMMA OthersApart ==
    ASSUME StreamTyped, HubShape, NEW c \in Hub!Owners,
           UNCHANGED <<byConnection, phase, send, reuseCount, clientVars, requests, linkUp,
                       seen, dropped, skipped, unchecked, delivered, produced, loaded>>,
           unencodable \subseteq unencodable',
           \A d \in Conns : d # c => UNCHANGED <<connectionID[d], writer[d], Sequence[d]>>,
           \A ch \in Channels : ch # send[c] => UNCHANGED <<queue[ch], deadQueue[ch], deadQueuePointer[ch]>>,
           net' = net \/ LinkUp(c)
    PROVE  /\ Hub!Owners' = Hub!Owners
           /\ \A id \in ConnIds : id # connectionID'[c] => Quiet(id)
           /\ \A d \in Hub!Owners' : d # c => Undisturbed(d)
<1>1. Hub!Owners' = Hub!Owners
  BY DEF Hub!Owners
<1>2. ASSUME NEW id \in ConnIds, id # connectionID'[c] PROVE Quiet(id)
  <2>1. InNet(id)' => InNet(id) /\ net' = net
    <3> SUFFICES ASSUME InNet(id)' PROVE InNet(id) /\ net' = net
      OBVIOUS
    <3>1. linkUp /\ conn # NoConn /\ phase[conn] # "free" /\ connectionID'[conn] = id /\ conn # c
      BY <1>2 DEF InNet, clientVars
    <3>2. conn \in Conns
      BY <3>1 DEF StreamTyped
    <3> QED BY <3>1, <3>2 DEF InNet, LinkUp
  <2>2. Base(id) \subseteq Base(id)'
    BY DEF Base, clientVars
  <2>3. Expected(id)' = Expected(id) /\ Latest' = Latest /\ produced <= produced'
    <3>1. produced <= produced
      BY Bounds
    <3> QED BY <3>1 DEF Expected, Latest, clientVars
  <2>4. Relevant(id)' => Relevant(id)
    BY <2>1 DEF Relevant, clientVars
  <2> QED BY <2>1, <2>2, <2>3, <2>4 DEF Quiet
<1>3. ASSUME NEW d \in Hub!Owners', d # c PROVE Undisturbed(d)
  <2>1. d \in Hub!Owners /\ d \in Conns /\ c \in Conns /\ send[d] \in Channels /\ send[d] # send[c]
    BY <1>1, <1>3, OwnerFacts DEF HubShape
  <2>2. UNCHANGED <<connectionID[d], writer[d], Sequence[d]>>
    BY <1>3, <2>1
  <2>3. UNCHANGED <<queue[send[d]], deadQueue[send[d]], deadQueuePointer[send[d]]>>
    BY <2>1
  <2>4. LinkUp(d)' => LinkUp(d) /\ net' = net
    BY <1>3 DEF LinkUp, clientVars
  <2>5. Live(d)' => Live(d) /\ \A n \in Nat : produced < n /\ n <= produced' => n \in Base(connectionID[d])'
    <3>1. \A n \in Nat : ~ (produced < n /\ n <= produced')
      BY Bounds
    <3> QED BY <3>1 DEF Live
  <2> QED BY <2>1, <2>2, <2>3, <2>4, <2>5 DEF Undisturbed
<1> QED BY <1>1, <1>2, <1>3

\* A connection whose write pump runs has its numbers.
LEMMA AtNumbers ==
    ASSUME StreamTyped, HubShape, PumpsInOrder, Streams, NEW c \in Conns, writer[c] \in {"start", "loop"}
    PROVE  /\ \E at \in Numbers, rec \in [Nat -> Records] : \E t, m \in Nat : Owns(c, at, rec, t, m)
           /\ Sequence[c] \in Nat /\ send[c] \in Channels /\ connectionID[c] \in ConnIds /\ c \in Hub!Owners
           /\ deadQueue[send[c]] \in [DQ!Slot -> Records \cup {Nil}] /\ deadQueuePointer[send[c]] \in DQ!Slot
<1>1. c \in Hub!Owners /\ connectionID[c] \in ConnIds /\ send[c] \in Channels
  BY AtWork
<1>2. Served(c)
  BY <1>1 DEF Streams
<1>3. /\ Sequence[c] \in Nat
      /\ deadQueue[send[c]] \in [DQ!Slot -> Records \cup {Nil}] /\ deadQueuePointer[send[c]] \in DQ!Slot
  BY <1>1 DEF StreamTyped
<1> QED BY <1>1, <1>2, <1>3 DEF Served

\* The write pump finds nothing to repeat: the client has everything written so far.
LEMMA StreamsKeptByLossless ==
    ASSUME StreamTyped, StreamTyped', HubShape, HubShape', PumpsInOrder, Streams, NEW c \in Conns, StartLossless(c)
    PROVE  Streams'
<1>0. /\ writer[c] = "start" /\ writer' = [writer EXCEPT ![c] = "loop"]
      /\ UNCHANGED <<streamVars, clientVars, netVars, eventVars>>
      /\ UNCHANGED <<byConnection, phase, connectionID, send, reuseCount, queue>>
      /\ Sequence[c] = 0 \/ (~ InDeadQueue(c) /\ ~ HasMsgLoss(c))
  BY DEF StartLossless, Hub!WriterResumes, Hub!indexVars, Hub!identVars, Hub!chanVars
<1>1. PICK at \in Numbers, rec \in [Nat -> Records] : \E t, m \in Nat : Owns(c, at, rec, t, m)
  BY <1>0, AtNumbers
<1>2. PICK t \in Nat, m \in Nat : Owns(c, at, rec, t, m)
  BY <1>1
<1> PICK id, ch, s, E : id = connectionID[c] /\ ch = send[c] /\ s = Sequence[c] /\ E = Expected(id)
  OBVIOUS
<1>3. /\ s \in Nat /\ ch \in Channels /\ id \in ConnIds /\ c \in Hub!Owners
      /\ deadQueue[ch] \in [DQ!Slot -> Records \cup {Nil}] /\ deadQueuePointer[ch] \in DQ!Slot
  BY <1>0, AtNumbers
<1>4. /\ Ring(deadQueue[ch], deadQueuePointer[ch], rec, t) /\ Numbered(rec, t, m)
      /\ s <= m /\ (s = 0 => t = 0)
      /\ \A r \in requests : r.id = id => 1 <= r.seq /\ r.seq <= m
  BY <1>0, <1>2 DEF Owns, NumbersView
<1>5. t = m /\ s = m
  <2>1. CASE s = 0
    <3>1. m <= t
      BY <1>4 DEF Numbered
    <3> QED BY <1>4, <2>1, <3>1
  <2>2. CASE s # 0
    <3>1. ~ DQ!hasMsgLoss(deadQueue[ch], deadQueuePointer[ch], s)
      BY <1>0, <2>2 DEF HasMsgLoss
    <3> QED BY <1>3, <1>4, <2>2, <3>1, UpToDate
  <2> QED BY <2>1, <2>2
<1>6. writer'[c] = "loop" /\ connectionID'[c] = id /\ send'[c] = ch /\ Sequence'[c] = s
  BY <1>0 DEF streamVars, HubShape
<1>7. NumbersView(c, rec, t, m)'
  BY <1>0, <1>4, <1>5, <1>6 DEF NumbersView, streamVars, netVars
<1>8. ASSUME Relevant(id)' PROVE Stream(at, id, m)' /\ Content(c, at, rec, t, m)'
  <2>1. /\ Relevant(id) /\ Expected(id)' = E /\ Base(id)' = Base(id) /\ Latest' = Latest
        /\ InNet(id)' <=> InNet(id)
    BY <1>0, <1>8 DEF Relevant, InNet, Expected, Base, Latest, clientVars, netVars, eventVars, excusedVars
  <2>2. Stream(at, id, m) /\ Content(c, at, rec, t, m)
    BY <1>2, <2>1 DEF Owns
  <2>3. Stream(at, id, m)'
    BY <1>0, <2>1, <2>2 DEF Stream, netVars, eventVars
  <2>4. LinkUp(c)' => Link(writer'[c], Sequence'[c], E, net', t, m)
    <3> SUFFICES ASSUME LinkUp(c)' PROVE Link(writer'[c], Sequence'[c], E, net', t, m)
      OBVIOUS
    <3>1. Link("start", s, E, net, t, m)
      BY <1>0, <2>2 DEF Content, LinkUp, clientVars, netVars
    <3>2. E = m /\ net' = <<>>
      BY <1>0, <1>5, <3>1 DEF Link, netVars
    <3> QED BY <1>5, <1>6, <3>2 DEF Link
  <2>5. (Live(c)' <=> Live(c)) /\ End(c, m)' = End(c, m)
    BY <1>0 DEF Live, End
  <2>6. Content(c, at, rec, t, m)'
    BY <1>0, <1>6, <2>1, <2>2, <2>4, <2>5 DEF Content, netVars, eventVars
  <2> QED BY <2>3, <2>6
<1>9. Served(c)'
  BY <1>6, <1>7, <1>8 DEF Served, Owns
<1>10. /\ Hub!Owners' = Hub!Owners
       /\ \A i \in ConnIds : i # connectionID'[c] => Quiet(i)
       /\ \A d \in Hub!Owners' : d # c => Undisturbed(d)
  <2>1. \A d \in Conns : d # c => UNCHANGED <<connectionID[d], writer[d], Sequence[d]>>
    BY <1>0 DEF streamVars, HubShape
  <2>2. \A h \in Channels : UNCHANGED <<queue[h], deadQueue[h], deadQueuePointer[h]>>
    BY <1>0 DEF streamVars
  <2> QED BY <1>0, <1>3, <2>1, <2>2, OthersApart DEF netVars, eventVars, excusedVars
<1> QED BY <1>3, <1>9, <1>10, OwnerServed

\* A prefix of a sequence.
LEMMA Front ==
    ASSUME NEW S, NEW s \in Seq(S), NEW n \in 0 .. Len(s)
    PROVE  /\ SubSeq(s, 1, n) \in Seq(S) /\ Len(SubSeq(s, 1, n)) = n
           /\ \A j \in 1 .. n : SubSeq(s, 1, n)[j] = s[j]
           /\ <<>> \o SubSeq(s, 1, n) = SubSeq(s, 1, n)
OBVIOUS

\* What draining writes, ws: messages of the record from the wanted one on, and all
\* there are if it ends well.
Drains(c, rec, t, m, ws) ==
    /\ ws \in Seq(Records) /\ Len(ws) \in Nat /\ <<>> \o ws = ws
    /\ \A j \in 1 .. Len(ws) : ws[j] = rec[Sequence[c] + (j - 1)]
    /\ Sequence[c] < m /\ Sequence[c] + Len(ws) <= t
    /\ Sequence' = [Sequence EXCEPT ![c] = @ + Len(ws)] /\ Write(c, ws)
    /\ \/ writer' = [writer EXCEPT ![c] = "done"]
       \/ /\ writer' = [writer EXCEPT ![c] = "loop"]
          /\ m <= Sequence[c] + Len(ws) /\ (m < t => m < Sequence[c] + Len(ws))

\* The same of a sequence that is what is drained.
LEMMA DrainedMessages ==
    ASSUME NEW dq \in [DQ!Slot -> Records \cup {Nil}], NEW p \in DQ!Slot, NEW rec \in [Nat -> Records],
           NEW t \in Nat, NEW m \in Nat, Ring(dq, p, rec, t), Numbered(rec, t, m),
           NEW s \in Nat, s <= m, DQ!isInDeadQueue(dq, s),
           NEW msgs, msgs = DQ!drainDeadQueue(dq, p, DQ!IndexInDeadQueue(dq, s))
    PROVE  /\ msgs \in Seq(Records)
           /\ s + Len(msgs) <= t /\ m <= s + Len(msgs)
           /\ m < t => m < s + Len(msgs)
           /\ \A j \in 1 .. Len(msgs) : msgs[j] = rec[s + j - 1]
BY Drained

\* drainDeadQueue writes the numbers from the client's on, none left out.
LEMMA Draining ==
    ASSUME StreamTyped, HubShape, PumpsInOrder, Streams, NEW c \in Conns, StartDraining(c),
           NEW at \in Numbers, NEW rec \in [Nat -> Records], NEW t \in Nat, NEW m \in Nat, Owns(c, at, rec, t, m)
    PROVE  \E ws : Drains(c, rec, t, m, ws)
<1>0. writer[c] = "start" /\ InDeadQueue(c)
  BY DEF StartDraining
<1> PICK ch, s, dq, p : ch = send[c] /\ s = Sequence[c] /\ dq = deadQueue[ch] /\ p = deadQueuePointer[ch]
  OBVIOUS
<1>1. /\ s \in Nat /\ dq \in [DQ!Slot -> Records \cup {Nil}] /\ p \in DQ!Slot
  BY <1>0, AtNumbers
<1>2. Ring(dq, p, rec, t) /\ Numbered(rec, t, m) /\ s <= m /\ DQ!isInDeadQueue(dq, s)
  BY <1>0 DEF Owns, NumbersView, InDeadQueue
<1> PICK msgs : msgs = DQ!drainDeadQueue(dq, p, DQ!IndexInDeadQueue(dq, s))
  OBVIOUS
<1>3. /\ msgs \in Seq(Records)
      /\ s + Len(msgs) <= t /\ m <= s + Len(msgs)
      /\ m < t => m < s + Len(msgs)
      /\ \A j \in 1 .. Len(msgs) : msgs[j] = rec[s + j - 1]
  <2>1. Ring(dq, p, rec, t) /\ Numbered(rec, t, m) /\ s <= m /\ DQ!isInDeadQueue(dq, s)
    BY <1>2
  <2>2. dq \in [DQ!Slot -> Records \cup {Nil}] /\ p \in DQ!Slot /\ s \in Nat
    BY <1>1
  <2> QED BY <2>1, <2>2, DrainedMessages
<1>4. s < m
  BY <1>1, <1>2, Found
<1>5. PICK n \in 0 .. Len(msgs) :
        /\ Sequence' = [Sequence EXCEPT ![c] = @ + n]
        /\ Write(c, SubSeq(msgs, 1, n))
        /\ \/ n = Len(msgs) /\ Hub!WriterResumes(c) /\ UNCHANGED faults
           \/ n < Len(msgs) /\ Hub!WriterStops(c) /\ FailureOf(c)
  BY DEF StartDraining
<1>6. Len(msgs) \in Nat
  BY <1>3, SequenceParts
<1> PICK ws : ws = SubSeq(msgs, 1, n)
  OBVIOUS
<1>7. ws \in Seq(Records) /\ Len(ws) = n /\ <<>> \o ws = ws /\ \A j \in 1 .. n : ws[j] = msgs[j]
  BY <1>3, Front
<1>8. n \in Nat /\ n <= Len(msgs) /\ s + n <= t
  BY <1>1, <1>3, <1>6
<1>9. \A j \in 1 .. n : ws[j] = rec[s + (j - 1)]
  <2> SUFFICES ASSUME NEW j \in 1 .. n PROVE ws[j] = rec[s + (j - 1)]
    OBVIOUS
  <2>1. j \in 1 .. Len(msgs) /\ s + j - 1 = s + (j - 1)
    BY <1>1, <1>6, <1>8
  <2>2. ws[j] = msgs[j] /\ msgs[j] = rec[s + j - 1]
    BY <1>3, <1>7, <2>1
  <2> QED BY <2>1, <2>2
<1>10. \/ writer' = [writer EXCEPT ![c] = "done"]
       \/ writer' = [writer EXCEPT ![c] = "loop"] /\ n = Len(msgs)
  BY <1>5 DEF Hub!WriterResumes, Hub!WriterStops, Hub!WriterDone
<1>11. /\ Len(ws) = n /\ <<>> \o ws = ws
       /\ \A j \in 1 .. n : ws[j] = rec[s + (j - 1)]
       /\ s < m /\ s + n <= t
  BY <1>4, <1>7, <1>8, <1>9
<1>12. Sequence' = [Sequence EXCEPT ![c] = @ + n] /\ Write(c, ws)
  BY <1>5
<1>13. \/ writer' = [writer EXCEPT ![c] = "done"]
       \/ writer' = [writer EXCEPT ![c] = "loop"] /\ m <= s + n /\ (m < t => m < s + n)
  BY <1>3, <1>10
<1>14. Drains(c, rec, t, m, ws)
  BY <1>7, <1>8, <1>11, <1>12, <1>13 DEF Drains
<1> QED BY <1>14

\* It writes records.
LEMMA DrainingTyped ==
    ASSUME StreamTyped, HubShape, PumpsInOrder, Streams, NEW c \in Conns, StartDraining(c)
    PROVE  StreamTyped'
<1>1. PICK at \in Numbers, rec \in [Nat -> Records] : \E t, m \in Nat : Owns(c, at, rec, t, m)
  BY AtNumbers DEF StartDraining
<1>2. PICK t \in Nat, m \in Nat : Owns(c, at, rec, t, m)
  BY <1>1
<1> PICK ws : Drains(c, rec, t, m, ws)
  BY <1>2, Draining
<1>3. /\ ws \in Seq(Records) /\ Write(c, ws)
      /\ Sequence' = [Sequence EXCEPT ![c] = @ + Len(ws)] /\ Len(ws) \in Nat
  BY DEF Drains
<1>4. net' \in Seq(Records)
  BY <1>3, WriteTyped DEF StreamTyped
<1>5. Sequence' \in [Conns -> Nat]
  BY <1>3 DEF StreamTyped
<1>6. UNCHANGED <<deadQueue, deadQueuePointer, clientVars, requests, linkUp, produced, delivered, loaded>>
  BY DEF StartDraining, eventVars
<1> QED BY <1>4, <1>5, <1>6 DEF StreamTyped, clientVars

\* The client gets what it has missed from the dead queue.
LEMMA StreamsKeptByDraining ==
    ASSUME StreamTyped, StreamTyped', HubShape, HubShape', PumpsInOrder, Streams, NEW c \in Conns, StartDraining(c)
    PROVE  Streams'
<1>0. /\ writer[c] = "start"
      /\ UNCHANGED <<deadQueue, deadQueuePointer, clientVars, requests, linkUp, eventVars>>
      /\ UNCHANGED <<byConnection, phase, connectionID, send, reuseCount, queue>>
  BY DEF StartDraining, Hub!WriterResumes, Hub!WriterStops, Hub!WriterDone, Hub!indexVars, Hub!identVars, Hub!chanVars
<1>1. PICK at \in Numbers, rec \in [Nat -> Records] : \E t, m \in Nat : Owns(c, at, rec, t, m)
  BY <1>0, AtNumbers
<1>2. PICK t \in Nat, m \in Nat : Owns(c, at, rec, t, m)
  BY <1>1
<1> PICK id, ch, s, E : id = connectionID[c] /\ ch = send[c] /\ s = Sequence[c] /\ E = Expected(id)
  OBVIOUS
<1>3. /\ s \in Nat /\ ch \in Channels /\ id \in ConnIds /\ c \in Hub!Owners /\ E \in Nat
  BY <1>0, AtNumbers, Bounds
<1>d. \E ws : Drains(c, rec, t, m, ws)
  BY <1>2, Draining
<1> PICK ws : Drains(c, rec, t, m, ws)
  BY <1>d
<1> PICK n : n = Len(ws)
  OBVIOUS
<1>4. /\ ws \in Seq(Records) /\ n \in Nat /\ Len(ws) = n /\ <<>> \o ws = ws
      /\ \A j \in 1 .. n : ws[j] = rec[s + (j - 1)]
      /\ s < m /\ s + n <= t
      /\ Sequence' = [Sequence EXCEPT ![c] = @ + n] /\ Write(c, ws)
      /\ \/ writer' = [writer EXCEPT ![c] = "done"]
         \/ /\ writer' = [writer EXCEPT ![c] = "loop"]
            /\ m <= s + n /\ (m < t => m < s + n)
  BY DEF Drains
<1>5. /\ Ring(deadQueue[ch], deadQueuePointer[ch], rec, t) /\ Numbered(rec, t, m)
      /\ \A r \in requests : r.id = id => 1 <= r.seq /\ r.seq <= m
  BY <1>2 DEF Owns, NumbersView
<1>6. /\ writer'[c] \in {"loop", "done"} /\ connectionID'[c] = id /\ send'[c] = ch /\ Sequence'[c] = s + n
      /\ writer'[c] = "loop" => m <= s + n /\ (m < t => m < s + n)
  BY <1>0, <1>4 DEF StreamTyped, HubShape
<1>7. m <= t
  BY <1>5 DEF Numbered
<1>8. NumbersView(c, rec, t, m)'
  <2>1. writer'[c] = "loop" => Sequence'[c] >= m /\ (t > m => Sequence'[c] > m)
    BY <1>3, <1>6
  <2> QED BY <1>0, <1>5, <1>6, <2>1 DEF NumbersView
<1>9. net' = (IF LinkUp(c) THEN net \o ws ELSE net)
  BY <1>4 DEF Write
<1>10. ASSUME Relevant(id)' PROVE Stream(at, id, m)' /\ Content(c, at, rec, t, m)'
  <2>1. /\ Relevant(id) /\ Expected(id)' = E /\ Base(id)' = Base(id) /\ Latest' = Latest
        /\ InNet(id)' <=> InNet(id)
    BY <1>0, <1>10 DEF Relevant, InNet, Expected, Base, Latest, clientVars, eventVars, excusedVars
  <2>2. Stream(at, id, m) /\ Content(c, at, rec, t, m)
    BY <1>2, <2>1 DEF Owns
  <2>3. ASSUME LinkUp(c) PROVE s = E /\ net = <<>> /\ net' = ws
    <3>1. Link("start", s, E, net, t, m)
      BY <1>0, <2>2, <2>3 DEF Content
    <3>2. s = E /\ net = <<>>
      BY <3>1 DEF Link
    <3> QED BY <1>4, <1>9, <2>3, <3>2
  <2>4. ASSUME InNet(id) PROVE Carries(at, id, E, m, net') /\ (t = m => E + Len(net') <= m)
    <3>1. CASE LinkUp(c)
      <4>1. s = E /\ net' = ws
        BY <2>3, <3>1
      <4>2. Recorded(at, id, rec, t, m)
        BY <2>2 DEF Content
      <4>3. Carries(at, id, E, m, ws)
        <5>1. m \in Nat \ {0} /\ E + Len(ws) <= t
          BY <1>3, <1>4, <4>1
        <5>2. \A j \in 1 .. Len(ws) : ws[j] = rec[E + (j - 1)]
          BY <1>4, <4>1
        <5>3. ws \in Seq(Records) /\ Numbered(rec, t, m) /\ E \in Nat
          BY <1>3, <1>4, <1>5
        <5> QED BY <4>2, <5>1, <5>2, <5>3, RecordCarried
      <4> QED BY <1>4, <4>1, <4>3
    <3>2. CASE ~ LinkUp(c)
      <4>1. net' = net
        BY <1>9, <3>2
      <4>2. Carries(at, id, E, m, net) /\ (t = m => E + Len(net) <= m)
        BY <2>2, <2>4 DEF Stream, Content
      <4> QED BY <4>1, <4>2
    <3> QED BY <3>1, <3>2
  <2>5. Stream(at, id, m)'
    BY <1>0, <2>1, <2>2, <2>4 DEF Stream, eventVars
  <2>6. LinkUp(c)' => Link(writer'[c], Sequence'[c], E, net', t, m)
    <3> SUFFICES ASSUME LinkUp(c)' PROVE Link(writer'[c], Sequence'[c], E, net', t, m)
      OBVIOUS
    <3>1. s = E /\ Len(net') = n
      BY <1>0, <1>4, <2>3 DEF LinkUp, clientVars
    <3>2. writer'[c] = "loop" => IF t = m THEN E + Len(net') = m ELSE E + Len(net') > m
      <4>1. s + n <= t
        BY <1>4
      <4>2. writer'[c] = "loop" => m <= s + n /\ (m < t => m < s + n)
        BY <1>6
      <4> PICK l : l = Len(net') /\ l = n
        BY <3>1
      <4>3. writer'[c] = "loop" => IF t = m THEN E + l = m ELSE E + l > m
        BY <1>3, <1>7, <3>1, <4>1, <4>2
      <4> QED BY <4>3
    <3> QED BY <1>6, <3>2 DEF Link
  <2>7. (Live(c)' <=> Live(c)) /\ End(c, m)' = End(c, m)
    BY <1>0 DEF Live, End
  <2>8. m # 0
    BY <1>3, <1>4
  <2>9. Content(c, at, rec, t, m)'
    BY <1>0, <1>6, <2>1, <2>2, <2>4, <2>6, <2>7, <2>8 DEF Content, eventVars
  <2> QED BY <2>5, <2>9
<1>11. Served(c)'
  BY <1>6, <1>8, <1>10 DEF Served, Owns
<1>12. /\ Hub!Owners' = Hub!Owners
       /\ \A i \in ConnIds : i # connectionID'[c] => Quiet(i)
       /\ \A d \in Hub!Owners' : d # c => Undisturbed(d)
  <2>1. \A d \in Conns : d # c => UNCHANGED <<connectionID[d], writer[d], Sequence[d]>>
    BY <1>0, <1>4 DEF StreamTyped, HubShape
  <2>2. \A h \in Channels : UNCHANGED <<queue[h], deadQueue[h], deadQueuePointer[h]>>
    BY <1>0
  <2>3. net' = net \/ LinkUp(c)
    BY <1>9
  <2> QED BY <1>0, <1>3, <2>1, <2>2, <2>3, OthersApart DEF eventVars, excusedVars
<1> QED BY <1>3, <1>11, <1>12, OwnerServed

\* A number taken from the channel is a number given out: the end stays.
LEMMA EndTaken ==
    ASSUME NEW S, NEW q \in Seq(S), q # <<>>, NEW m \in Nat
    PROVE  (m + 1) + Len(Tail(q)) = m + Len(q)
BY SequenceParts

\* What a message that is sent changes.
Sends(c, id, ch, q, evt) ==
    /\ id \in ConnIds /\ ch \in Channels /\ c \in Hub!Owners /\ phase[c] \in {"pumping", "readDone"}
    /\ q \in Seq(Hub!Messages) /\ q # <<>> /\ Sequence[c] \in Nat /\ evt \in Records
    /\ deadQueue[ch] \in [DQ!Slot -> Records \cup {Nil}] /\ deadQueuePointer[ch] \in DQ!Slot
    /\ writer[c] = "loop" /\ connectionID'[c] = id /\ send'[c] = ch
    /\ queue'[ch] = Tail(q) /\ Sequence'[c] = Sequence[c] + 1
    /\ deadQueue'[ch] = DQ!addToDeadQueue(deadQueue[ch], deadQueuePointer[ch], evt)
    /\ deadQueuePointer'[ch] = DQ!NextPointer(deadQueuePointer[ch])
    /\ \/ writer'[c] = "done" /\ net' = net
       \/ writer'[c] = "loop" /\ net' = IF LinkUp(c) THEN net \o <<evt>> ELSE net
    /\ UNCHANGED <<byConnection, phase, connectionID, send, reuseCount, clientVars, requests, linkUp, eventVars>>
    /\ \A d \in Conns : d # c => UNCHANGED <<connectionID[d], writer[d], Sequence[d]>>
    /\ \A h \in Channels : h # ch => UNCHANGED <<queue[h], deadQueue[h], deadQueuePointer[h]>>

\* What Send changes.
LEMMA Sending ==
    ASSUME StreamTyped, HubShape, PumpsInOrder, Streams, NEW c \in Conns, Send(c),
           NEW id, id = connectionID[c], NEW ch, ch = send[c], NEW q, q = queue[ch],
           NEW evt, evt = [seq |-> Sequence[c], msg |-> Head(q)]
    PROVE  Sends(c, id, ch, q, evt)
<1>0. /\ writer[c] = "loop" /\ q # <<>> /\ queue' = [queue EXCEPT ![ch] = Tail(@)]
      /\ writer' = writer \/ writer' = [writer EXCEPT ![c] = "done"]
      /\ UNCHANGED <<byConnection, phase, connectionID, send, reuseCount, clientVars, requests, linkUp, eventVars>>
  BY DEF Send, Hub!WriterSends, Hub!WriterDone, Hub!pumpVars, Hub!indexVars, Hub!identVars
<1>1. /\ Sequence' = [Sequence EXCEPT ![c] = @ + 1]
      /\ deadQueue' = [deadQueue EXCEPT ![ch] = DQ!addToDeadQueue(@, deadQueuePointer[ch], evt)]
      /\ deadQueuePointer' = [deadQueuePointer EXCEPT ![ch] = DQ!NextPointer(@)]
      /\ WriteOutcome(c, evt)
  BY DEF Send
<1>2. /\ id \in ConnIds /\ ch \in Channels /\ c \in Hub!Owners /\ phase[c] \in {"pumping", "readDone"}
      /\ q \in Seq(Hub!Messages) /\ Head(q) \in Hub!Messages
  BY <1>0, AtWork
<1>3. /\ Sequence[c] \in Nat
      /\ deadQueue[ch] \in [DQ!Slot -> Records \cup {Nil}] /\ deadQueuePointer[ch] \in DQ!Slot
  BY <1>0, AtNumbers
<1>4. evt \in Records
  BY <1>2, <1>3, RecordParts
<1>5. \/ writer'[c] = "done" /\ net' = net
      \/ writer'[c] = "loop" /\ net' = IF LinkUp(c) THEN net \o <<evt>> ELSE net
  BY <1>1 DEF WriteOutcome, Write
<1>6. /\ connectionID'[c] = id /\ send'[c] = ch
      /\ queue'[ch] = Tail(q) /\ \A h \in Channels : h # ch => queue'[h] = queue[h]
  BY <1>0, <1>2 DEF HubShape
<1>7. Sequence'[c] = Sequence[c] + 1 /\ \A d \in Conns : d # c => Sequence'[d] = Sequence[d]
  BY <1>1 DEF StreamTyped
<1>8. /\ deadQueue'[ch] = DQ!addToDeadQueue(deadQueue[ch], deadQueuePointer[ch], evt)
      /\ \A h \in Channels : h # ch => deadQueue'[h] = deadQueue[h]
  BY <1>1, <1>2 DEF StreamTyped
<1>9. /\ deadQueuePointer'[ch] = DQ!NextPointer(deadQueuePointer[ch])
      /\ \A h \in Channels : h # ch => deadQueuePointer'[h] = deadQueuePointer[h]
  BY <1>1, <1>2 DEF StreamTyped
<1>10. \A d \in Conns : d # c => writer'[d] = writer[d] /\ connectionID'[d] = connectionID[d]
  BY <1>0 DEF HubShape
<1> QED BY <1>0, <1>2, <1>3, <1>4, <1>5, <1>6, <1>7, <1>8, <1>9, <1>10 DEF Sends

\* A message sent under the number it has on the stream.
LEMMA SentNumbered ==
    ASSUME StreamTyped, HubShape, PumpsInOrder, Streams, NEW c \in Conns, Send(c),
           NEW at \in Numbers, NEW rec \in [Nat -> Records], NEW t \in Nat, NEW m \in Nat,
           Owns(c, at, rec, t, m), Sequence[c] <= m
    PROVE  \E r \in [Nat -> Records] : Owns(c, at, r, t + 1, m + 1)'
<1> PICK id, ch, q : id = connectionID[c] /\ ch = send[c] /\ q = queue[ch]
  OBVIOUS
<1> PICK evt, E : evt = [seq |-> Sequence[c], msg |-> Head(q)] /\ E = Expected(id)
  OBVIOUS
<1> PICK dq, p, r : dq = deadQueue[ch] /\ p = deadQueuePointer[ch] /\ r = [rec EXCEPT ![t] = evt]
  OBVIOUS
<1>s. Sends(c, id, ch, q, evt)
  BY Sending
<1>0. /\ id \in ConnIds /\ ch \in Channels /\ phase[c] \in {"pumping", "readDone"}
      /\ q \in Seq(Hub!Messages) /\ q # <<>> /\ evt \in Records
      /\ dq \in [DQ!Slot -> Records \cup {Nil}] /\ p \in DQ!Slot
      /\ writer[c] = "loop" /\ connectionID'[c] = id /\ send'[c] = ch
      /\ queue'[ch] = Tail(q) /\ Sequence'[c] = Sequence[c] + 1
      /\ deadQueue'[ch] = DQ!addToDeadQueue(dq, p, evt) /\ deadQueuePointer'[ch] = DQ!NextPointer(p)
      /\ \/ writer'[c] = "done" /\ net' = net
         \/ writer'[c] = "loop" /\ net' = IF LinkUp(c) THEN net \o <<evt>> ELSE net
      /\ UNCHANGED <<byConnection, phase, connectionID, send, reuseCount, clientVars, requests, linkUp, eventVars>>
  BY <1>s DEF Sends
<1>1. /\ Ring(dq, p, rec, t) /\ Numbered(rec, t, m)
      /\ Sequence[c] >= m /\ (t > m => Sequence[c] > m)
      /\ \A rq \in requests : rq.id = id => 1 <= rq.seq /\ rq.seq <= m
  BY <1>0 DEF Owns, NumbersView
<1>2. t = m /\ Sequence[c] = m
  <2>1. m <= t
    BY <1>1 DEF Numbered
  <2>2. Sequence[c] \in Nat
    BY <1>s DEF Sends
  <2> QED BY <1>1, <2>1, <2>2
<1>3. /\ r \in [Nat -> Records]
      /\ Ring(DQ!addToDeadQueue(dq, p, evt), DQ!NextPointer(p), r, t + 1)
  BY <1>0, <1>1, RingAdded
<1>4. Numbered(r, t + 1, m + 1)
  <2>1. evt.seq = m
    BY <1>2
  <2> QED BY <1>0, <1>1, <1>2, <2>1, RecordedOn
<1>5. NumbersView(c, r, t + 1, m + 1)'
  <2>1. \A rq \in requests' : rq.id = id => 1 <= rq.seq /\ rq.seq <= m + 1
    <3> SUFFICES ASSUME NEW rq \in requests, rq.id = id PROVE 1 <= rq.seq /\ rq.seq <= m + 1
      BY <1>0
    <3>1. 1 <= rq.seq /\ rq.seq <= m /\ rq.seq \in Nat
      BY <1>1 DEF StreamTyped
    <3> QED BY <3>1
  <2>2. writer'[c] \in {"loop", "done"} /\ Sequence'[c] = m + 1
    BY <1>0, <1>2
  <2>3. Sequence'[c] >= m + 1 /\ (t + 1 > m + 1 => Sequence'[c] > m + 1)
    BY <1>2, <2>2
  <2> QED BY <1>0, <1>3, <1>4, <2>1, <2>2, <2>3 DEF NumbersView
<1>6. ASSUME Relevant(id)' PROVE Stream(at, id, m + 1)' /\ Content(c, at, r, t + 1, m + 1)'
  <2>1. /\ Relevant(id) /\ Expected(id)' = E /\ Base(id)' = Base(id) /\ Latest' = Latest
        /\ InNet(id)' <=> InNet(id)
    BY <1>0, <1>6 DEF Relevant, InNet, Expected, Base, Latest, clientVars, eventVars, excusedVars
  <2>2. Stream(at, id, m) /\ Content(c, at, rec, t, m)
    BY <1>2, <2>1 DEF Owns
  <2>3. E \in Nat /\ E <= m /\ Len(q) \in Nat /\ Len(q) # 0 /\ Len(Tail(q)) = Len(q) - 1 /\ net \in Seq(Records)
        /\ Len(net) \in Nat
    <3>1. E <= m
      BY <2>2 DEF Stream
    <3>2. Len(q) \in Nat /\ Len(q) # 0 /\ Len(Tail(q)) = Len(q) - 1
      BY <1>0, SequenceParts
    <3> QED BY <3>1, <3>2, Bounds DEF StreamTyped
  <2> PICK e \in Nat : e = m + Len(q)
    BY <2>3
  <2>4. /\ Recorded(at, id, rec, t, m) /\ Queued(at, id, m, q)
        /\ LinkUp(c) => Link(writer[c], Sequence[c], E, net, t, m)
        /\ InNet(id) => E + Len(net) <= m
        /\ Ordered(at, E, e, Latest, produced)
        /\ GapFree(at, E, e, Base(id))
        /\ Live(c) => Covered(at, E, e, Base(id), produced)
    <3>1. e >= 1
      BY <2>3
    <3> QED BY <1>2, <2>2, <3>1 DEF Content, End
  <2>5. Head(q) = Msg(at, id, m) /\ Queued(at, id, m + 1, Tail(q))
    <3>1. Queued(at, id, m, q) /\ q \in Seq(Hub!Messages) /\ q # <<>>
      BY <1>0, <2>4
    <3> QED BY <3>1, QueueTaken
  <2>6. evt = [seq |-> m, msg |-> Msg(at, id, m)]
    BY <1>2, <2>5
  <2>7. ASSUME LinkUp(c) PROVE E + Len(net) = m
    BY <1>0, <1>2, <2>4, <2>7 DEF Link
  <2>8. ASSUME InNet(id) PROVE Carries(at, id, E, m + 1, net') /\ E + Len(net') <= m + 1
    <3>1. Carries(at, id, E, m, net) /\ E + Len(net) <= m
      BY <2>2, <2>4, <2>8 DEF Stream
    <3>2. /\ Carries(at, id, E, m + 1, net)
          /\ E + Len(net) = m => Carries(at, id, E, m + 1, net \o <<evt>>)
      <4>1. /\ E + Len(net) <= m => Carries(at, id, E, m + 1, net)
            /\ E + Len(net) = m => Carries(at, id, E, m + 1, net \o <<evt>>)
        BY <1>0, <2>3, <2>6, <3>1, MessageCarried
      <4> QED BY <3>1, <4>1
    <3>3. CASE net' = net
      <4>1. E + Len(net) <= m + 1
        BY <2>3, <3>1
      <4> QED BY <3>2, <3>3, <4>1
    <3>4. CASE net' = net \o <<evt>> /\ LinkUp(c)
      <4>1. E + Len(net) = m
        BY <2>7, <3>4
      <4>2. Len(net \o <<evt>>) = Len(net) + 1
        BY <1>0, <2>3, SequenceParts
      <4>3. E + Len(net \o <<evt>>) <= m + 1
        BY <2>3, <4>1, <4>2
      <4> QED BY <3>2, <3>4, <4>1, <4>3
    <3> QED BY <1>0, <3>3, <3>4
  <2>9. /\ Ordered(at, E, m + 1, Latest, produced) /\ GapFree(at, E, m + 1, Base(id))
    <3>1. m + 1 <= e
      BY <2>3
    <3>2. m + 1 \in Nat /\ E \in Nat
      BY <2>3
    <3>3. /\ Ordered(at, E, e, Latest, produced) => Ordered(at, E, m + 1, Latest, produced)
          /\ GapFree(at, E, e, Base(id)) => GapFree(at, E, m + 1, Base(id))
      BY <3>1, <3>2, Shorter
    <3> QED BY <2>4, <3>3
  <2>10. Stream(at, id, m + 1)'
    <3>1. E <= m + 1
      BY <2>3
    <3> QED BY <1>0, <2>1, <2>8, <2>9, <3>1 DEF Stream, eventVars
  <2>11. Recorded(at, id, r, t + 1, m + 1)
    <3>1. evt.msg = Msg(at, id, m) /\ Recorded(at, id, rec, t, m)
      BY <2>4, <2>6
    <3> QED BY <1>0, <1>1, <1>2, <3>1, RecordedOn
  <2>12. LinkUp(c)' => Link(writer'[c], Sequence'[c], E, net', t + 1, m + 1)
    <3> SUFFICES ASSUME LinkUp(c)', writer'[c] # "done" PROVE Link(writer'[c], Sequence'[c], E, net', t + 1, m + 1)
      BY <1>0 DEF Link
    <3>1. LinkUp(c)
      BY <1>0 DEF LinkUp, clientVars
    <3>2. writer'[c] = "loop" /\ net' = net \o <<evt>>
      BY <1>0, <3>1
    <3>3. Len(net') = Len(net) + 1
      BY <1>0, <2>3, <3>2, SequenceParts
    <3>4. E + Len(net') = m + 1
      BY <2>3, <2>7, <3>1, <3>3
    <3> QED BY <1>2, <3>2, <3>4 DEF Link
  <2>13. (Live(c)' <=> Live(c)) /\ End(c, m + 1)' = e
    <3>1. Live(c)' <=> Live(c)
      BY <1>0 DEF Live
    <3>2. (m + 1) + Len(Tail(q)) = e
      BY <1>0, EndTaken
    <3> QED BY <1>0, <3>1, <3>2 DEF End
  <2>14. /\ m + 1 # 0 /\ phase'[c] # "built"
    BY <1>0
  <2>15. Content(c, at, r, t + 1, m + 1)'
    BY <1>0, <2>1, <2>4, <2>5, <2>8, <2>11, <2>12, <2>13, <2>14 DEF Content, eventVars
  <2> QED BY <2>10, <2>15
<1>7. Owns(c, at, r, t + 1, m + 1)'
  BY <1>0, <1>5, <1>6 DEF Owns
<1> QED BY <1>3, <1>7

\* Message m is taken from the channel but gets no place on the stream.
LEMMA Displaced ==
    ASSUME NEW at \in Numbers, NEW E \in Nat, NEW m \in Nat \ {0}, E <= m, NEW S, NEW q \in Seq(S), q # <<>>,
           NEW lo \in Nat, NEW hi \in Nat, NEW B
    PROVE  /\ Without(at, m) \in Numbers /\ \A x \in Nat : x < m => Without(at, m)[x] = at[x]
           /\ Ordered(at, E, m, lo, hi) => Ordered(Without(at, m), E, m, lo, hi)
           /\ GapFree(at, E, m, B) => GapFree(Without(at, m), E, m, B)
           /\ Ordered(at, E, m + Len(q), lo, hi) => Ordered(Without(at, m), E, m + Len(Tail(q)), lo, hi)
           /\ GapFree(at, E, m + Len(q), B) => GapFree(Without(at, m), E, m + Len(Tail(q)), B \cup {at[m]})
           /\ Covered(at, E, m + Len(q), B, hi) => Covered(Without(at, m), E, m + Len(Tail(q)), B \cup {at[m]}, hi)
<1> PICK bt : bt = Without(at, m)
  OBVIOUS
<1>1. bt \in Numbers /\ \A x \in Nat : x < m => bt[x] = at[x]
  BY DEF Without, Numbers
<1>2. /\ Ordered(at, E, m, lo, hi) => Ordered(bt, E, m, lo, hi)
      /\ GapFree(at, E, m, B) => GapFree(bt, E, m, B)
  BY <1>1, Agreeing
<1> PICK e \in Nat : e = m + Len(q) /\ m < e /\ m + Len(Tail(q)) = e - 1
  <2>1. Len(q) \in Nat /\ Len(q) # 0 /\ Len(Tail(q)) = Len(q) - 1
    BY SequenceParts
  <2> QED BY <2>1
<1>3. /\ Ordered(at, E, e, lo, hi) => Ordered(bt, E, e - 1, lo, hi)
      /\ GapFree(at, E, e, B) => GapFree(bt, E, e - 1, B \cup {at[m]})
      /\ Covered(at, E, e, B, hi) => Covered(bt, E, e - 1, B \cup {at[m]}, hi)
  BY Skipped
<1> QED BY <1>1, <1>2, <1>3

\* A message sent under a number that is not its own.
LEMMA SentUnnumbered ==
    ASSUME StreamTyped, HubShape, PumpsInOrder, Streams, NEW c \in Conns, Send(c),
           NEW at \in Numbers, NEW rec \in [Nat -> Records], NEW t \in Nat, NEW m \in Nat,
           Owns(c, at, rec, t, m), Sequence[c] > m
    PROVE  \E b \in Numbers, r \in [Nat -> Records] : Owns(c, b, r, t + 1, m)'
<1> PICK id, ch, q : id = connectionID[c] /\ ch = send[c] /\ q = queue[ch]
  OBVIOUS
<1> PICK evt, E : evt = [seq |-> Sequence[c], msg |-> Head(q)] /\ E = Expected(id)
  OBVIOUS
<1> PICK dq, p, r : dq = deadQueue[ch] /\ p = deadQueuePointer[ch] /\ r = [rec EXCEPT ![t] = evt]
  OBVIOUS
<1>s. Sends(c, id, ch, q, evt)
  BY Sending
<1>0. /\ id \in ConnIds /\ ch \in Channels /\ phase[c] \in {"pumping", "readDone"}
      /\ q \in Seq(Hub!Messages) /\ q # <<>> /\ evt \in Records /\ Sequence[c] \in Nat
      /\ dq \in [DQ!Slot -> Records \cup {Nil}] /\ p \in DQ!Slot
      /\ writer[c] = "loop" /\ connectionID'[c] = id /\ send'[c] = ch
      /\ queue'[ch] = Tail(q) /\ Sequence'[c] = Sequence[c] + 1
      /\ deadQueue'[ch] = DQ!addToDeadQueue(dq, p, evt) /\ deadQueuePointer'[ch] = DQ!NextPointer(p)
      /\ \/ writer'[c] = "done" /\ net' = net
         \/ writer'[c] = "loop" /\ net' = IF LinkUp(c) THEN net \o <<evt>> ELSE net
      /\ UNCHANGED <<byConnection, phase, connectionID, send, reuseCount, clientVars, requests, linkUp, eventVars>>
  BY <1>s DEF Sends
<1>1. /\ Ring(dq, p, rec, t) /\ Numbered(rec, t, m)
      /\ \A rq \in requests : rq.id = id => 1 <= rq.seq /\ rq.seq <= m
  BY <1>0 DEF Owns, NumbersView
<1>2. m <= t
  BY <1>1 DEF Numbered
<1>3. /\ r \in [Nat -> Records]
      /\ Ring(DQ!addToDeadQueue(dq, p, evt), DQ!NextPointer(p), r, t + 1)
  BY <1>0, <1>1, RingAdded
<1>4. Numbered(r, t + 1, m)
  <2>1. evt.seq > m
    BY <1>0
  <2> QED BY <1>0, <1>1, <2>1, RecordedOn
<1>5. NumbersView(c, r, t + 1, m)'
  <2>1. writer'[c] \in {"loop", "done"} /\ Sequence'[c] >= m /\ Sequence'[c] > m
    BY <1>0
  <2> QED BY <1>0, <1>1, <1>3, <1>4, <2>1 DEF NumbersView
<1>6. (Relevant(id)' <=> Relevant(id)) /\ (InNet(id)' <=> InNet(id)) /\ Expected(id)' = E
      /\ Base(id)' = Base(id) /\ Latest' = Latest
  BY <1>0 DEF Relevant, InNet, Expected, Base, Latest, clientVars, eventVars, excusedVars
<1>7. CASE ~ Relevant(id)
  <2>1. Owns(c, at, r, t + 1, m)'
    BY <1>0, <1>5, <1>6, <1>7 DEF Owns
  <2> QED BY <1>3, <2>1
<1>8. CASE Relevant(id)
  <2> PICK b : b = Without(at, m)
    OBVIOUS
  <2>2. Stream(at, id, m) /\ Content(c, at, rec, t, m)
    BY <1>8 DEF Owns
  <2>3. E \in Nat /\ E <= m /\ net \in Seq(Records) /\ Len(net) \in Nat
    <3>1. E <= m
      BY <2>2 DEF Stream
    <3> QED BY <3>1, Bounds DEF StreamTyped
  <2>4. /\ m = 0 => Sequence[c] = 0
        /\ Recorded(at, id, rec, t, m) /\ Queued(at, id, m, q)
        /\ LinkUp(c) => Link(writer[c], Sequence[c], E, net, t, m)
        /\ Ordered(at, E, m + Len(q), Latest, produced)
    BY <2>2 DEF Content, End
  <2>5. m \in Nat \ {0}
    BY <1>0, <2>4
  <2>6. /\ b \in Numbers /\ \A x \in Nat : x < m => b[x] = at[x]
        /\ Ordered(b, E, m + Len(Tail(q)), Latest, produced)
        /\ Ordered(b, E, m, Latest, produced) /\ GapFree(b, E, m, Base(id))
    <3>1. Ordered(at, E, m, Latest, produced) /\ GapFree(at, E, m, Base(id))
      BY <2>2 DEF Stream
    <3> PICK lo, hi, B : lo \in Nat /\ hi \in Nat /\ lo = Latest /\ hi = produced /\ B = Base(id)
      BY Bounds
    <3>2. /\ b \in Numbers /\ \A x \in Nat : x < m => b[x] = at[x]
          /\ Ordered(at, E, m, lo, hi) => Ordered(b, E, m, lo, hi)
          /\ GapFree(at, E, m, B) => GapFree(b, E, m, B)
          /\ Ordered(at, E, m + Len(q), lo, hi) => Ordered(b, E, m + Len(Tail(q)), lo, hi)
      <4>1. E \in Nat /\ E <= m /\ m \in Nat \ {0} /\ q \in Seq(Hub!Messages) /\ q # <<>>
        BY <1>0, <2>3, <2>5
      <4>2. /\ Ordered(at, E, m, lo, hi) => Ordered(Without(at, m), E, m, lo, hi)
            /\ GapFree(at, E, m, B) => GapFree(Without(at, m), E, m, B)
        BY <4>1, Displaced
      <4>4. Without(at, m) \in Numbers /\ \A x \in Nat : x < m => Without(at, m)[x] = at[x]
        BY DEF Without, Numbers
      <4>3. Ordered(at, E, m + Len(q), lo, hi) => Ordered(Without(at, m), E, m + Len(Tail(q)), lo, hi)
        BY <4>1, Displaced
      <4> QED BY <4>2, <4>3, <4>4
    <3> QED BY <2>4, <3>1, <3>2
  <2>7. Head(q) = Msg(at, id, m) /\ Queued(b, id, m, Tail(q))
    <3>1. Queued(at, id, m, q) /\ q \in Seq(Hub!Messages) /\ q # <<>>
      BY <1>0, <2>4
    <3> QED BY <2>5, <3>1, QueueTaken
  <2>8. evt.msg.type = "event" /\ evt.seq > m
    BY <1>0, <2>5, <2>7, MessageTypes
  <2>9. ASSUME LinkUp(c) PROVE E + Len(net) >= m
    <3>1. IF t = m THEN E + Len(net) = m ELSE E + Len(net) > m
      BY <1>0, <2>4, <2>9 DEF Link
    <3> QED BY <2>3, <3>1
  <2>10. ASSUME InNet(id) PROVE Carries(b, id, E, m, net')
    <3>1. Carries(at, id, E, m, net)
      BY <2>2, <2>10 DEF Stream
    <3>2. Carries(b, id, E, m, net)
      BY <2>3, <2>6, <3>1, WrittenAlike
    <3>3. CASE net' = net
      BY <3>2, <3>3
    <3>4. CASE net' = net \o <<evt>> /\ LinkUp(c)
      <4>1. E + Len(net) >= m
        BY <2>9, <3>4
      <4>2. Carries(b, id, E, m, net \o <<evt>>)
        BY <1>0, <2>3, <2>5, <2>8, <3>2, <4>1, UnnumberedCarried
      <4> QED BY <3>4, <4>2
    <3> QED BY <1>0, <3>3, <3>4
  <2>11. Stream(b, id, m)'
    BY <1>0, <1>6, <2>3, <2>6, <2>10 DEF Stream, eventVars
  <2>12. Recorded(b, id, r, t + 1, m)
    <3>1. Recorded(at, id, r, t + 1, m)
      <4>1. Recorded(at, id, rec, t, m) /\ evt.msg.type = "event" /\ Numbered(rec, t, m) /\ evt \in Records
        BY <1>0, <1>1, <2>4, <2>8
      <4> QED BY <4>1, RecordedOn
    <3> QED BY <2>6, <3>1, WrittenAlike
  <2>13. LinkUp(c)' => Link(writer'[c], Sequence'[c], E, net', t + 1, m)
    <3> SUFFICES ASSUME LinkUp(c)', writer'[c] # "done" PROVE Link(writer'[c], Sequence'[c], E, net', t + 1, m)
      BY <1>0 DEF Link
    <3>1. LinkUp(c)
      BY <1>0 DEF LinkUp, clientVars
    <3>2. writer'[c] = "loop" /\ net' = net \o <<evt>>
      BY <1>0, <3>1
    <3>3. Len(net') = Len(net) + 1
      BY <1>0, <2>3, <3>2, SequenceParts
    <3>4. E + Len(net') > m /\ t + 1 # m
      BY <1>2, <2>3, <2>9, <3>1, <3>3
    <3> QED BY <3>2, <3>4 DEF Link
  <2>14. End(c, m)' = m + Len(Tail(q)) /\ m + Len(Tail(q)) >= 1
    <3>1. Len(Tail(q)) \in Nat
      BY <1>0, SequenceParts
    <3>2. m + Len(Tail(q)) >= 1
      BY <2>5, <3>1
    <3> QED BY <1>0, <3>2 DEF End
  <2>15. m # 0 /\ phase'[c] # "built" /\ t + 1 # m
    BY <1>0, <1>2, <2>5
  <2>16. Content(c, b, r, t + 1, m)'
    BY <1>0, <1>6, <2>6, <2>7, <2>12, <2>13, <2>14, <2>15 DEF Content, eventVars
  <2>17. Owns(c, b, r, t + 1, m)'
    BY <1>0, <1>5, <2>11, <2>16 DEF Owns
  <2> QED BY <1>3, <2>6, <2>17
<1> QED BY <1>7, <1>8

\* A message is numbered, recorded and written.
LEMMA StreamsKeptBySend ==
    ASSUME StreamTyped, StreamTyped', HubShape, HubShape', PumpsInOrder, Streams, NEW c \in Conns, Send(c)
    PROVE  Streams'
<1> PICK id, ch, q, evt : id = connectionID[c] /\ ch = send[c] /\ q = queue[ch]
                          /\ evt = [seq |-> Sequence[c], msg |-> Head(q)]
  OBVIOUS
<1>0. Sends(c, id, ch, q, evt)
  BY Sending
<1>1. /\ writer[c] = "loop" /\ c \in Hub!Owners /\ Sequence[c] \in Nat
      /\ UNCHANGED <<byConnection, phase, connectionID, send, reuseCount, clientVars, requests, linkUp, eventVars>>
      /\ net' = net \/ LinkUp(c)
      /\ \A d \in Conns : d # c => UNCHANGED <<connectionID[d], writer[d], Sequence[d]>>
      /\ \A h \in Channels : h # ch => UNCHANGED <<queue[h], deadQueue[h], deadQueuePointer[h]>>
  BY <1>0 DEF Sends
<1>2. PICK at \in Numbers, rec \in [Nat -> Records] : \E t, m \in Nat : Owns(c, at, rec, t, m)
  BY <1>1, AtNumbers
<1>3. PICK t \in Nat, m \in Nat : Owns(c, at, rec, t, m)
  BY <1>2
<1>4. Served(c)'
  <2>1. t + 1 \in Nat /\ m + 1 \in Nat
    OBVIOUS
  <2>2. CASE Sequence[c] <= m
    <3>1. \E r \in [Nat -> Records] : Owns(c, at, r, t + 1, m + 1)'
      BY <1>3, <2>2, SentNumbered
    <3> QED BY <2>1, <3>1 DEF Served
  <2>3. CASE Sequence[c] > m
    <3>1. \E b \in Numbers, r \in [Nat -> Records] : Owns(c, b, r, t + 1, m)'
      BY <1>3, <2>3, SentUnnumbered
    <3> QED BY <2>1, <3>1 DEF Served
  <2> QED BY <1>1, <2>2, <2>3
<1>5. /\ Hub!Owners' = Hub!Owners
      /\ \A i \in ConnIds : i # connectionID'[c] => Quiet(i)
      /\ \A d \in Hub!Owners' : d # c => Undisturbed(d)
  BY <1>1, OthersApart DEF eventVars, excusedVars
<1> QED BY <1>1, <1>4, <1>5, OwnerServed

\* An event that does not encode is gone from the channel; its number is spent.
Skips(c, id, ch, q) ==
    /\ id \in ConnIds /\ ch \in Channels /\ c \in Hub!Owners /\ phase[c] \in {"pumping", "readDone"}
    /\ q \in Seq(Hub!Messages) /\ q # <<>> /\ Sequence[c] \in Nat /\ Head(q).type = "event"
    /\ writer[c] = "loop" /\ connectionID'[c] = id /\ send'[c] = ch
    /\ queue'[ch] = Tail(q) /\ Sequence'[c] = Sequence[c] + 1
    /\ unencodable' = unencodable \cup {Head(q).n}
    /\ UNCHANGED <<byConnection, phase, connectionID, send, reuseCount, writer, deadQueue, deadQueuePointer>>
    /\ UNCHANGED <<clientVars, netVars, produced, seen, delivered, dropped, skipped, unchecked, loaded>>
    /\ \A d \in Conns : d # c => UNCHANGED Sequence[d]
    /\ \A h \in Channels : h # ch => UNCHANGED queue[h]

\* What EncodeError changes.
LEMMA Skipping ==
    ASSUME StreamTyped, HubShape, PumpsInOrder, Streams, NEW c \in Conns, EncodeError(c),
           NEW id, id = connectionID[c], NEW ch, ch = send[c], NEW q, q = queue[ch]
    PROVE  Skips(c, id, ch, q)
<1>0. /\ writer[c] = "loop" /\ q # <<>> /\ queue' = [queue EXCEPT ![ch] = Tail(@)]
      /\ UNCHANGED <<byConnection, phase, connectionID, send, reuseCount, writer, deadQueue, deadQueuePointer>>
      /\ UNCHANGED <<clientVars, netVars, produced, seen, delivered, dropped, skipped, unchecked, loaded>>
      /\ Sequence' = [Sequence EXCEPT ![c] = @ + 1]
      /\ Head(q).type = "event" /\ unencodable' = unencodable \cup {Head(q).n}
  BY DEF EncodeError, Hub!WriterSkips, Hub!pumpVars, Hub!indexVars, Hub!identVars
<1>1. /\ id \in ConnIds /\ ch \in Channels /\ c \in Hub!Owners /\ phase[c] \in {"pumping", "readDone"}
      /\ q \in Seq(Hub!Messages)
  BY <1>0, AtWork
<1>2. Sequence[c] \in Nat
  BY <1>0, AtNumbers
<1>3. /\ connectionID'[c] = id /\ send'[c] = ch
      /\ queue'[ch] = Tail(q) /\ \A h \in Channels : h # ch => queue'[h] = queue[h]
  BY <1>0, <1>1 DEF HubShape
<1>4. Sequence'[c] = Sequence[c] + 1 /\ \A d \in Conns : d # c => Sequence'[d] = Sequence[d]
  BY <1>0 DEF StreamTyped
<1> QED BY <1>0, <1>1, <1>2, <1>3, <1>4 DEF Skips

\* The numbers of an owner whose event does not encode.
LEMMA SkippedNumbers ==
    ASSUME StreamTyped, HubShape, PumpsInOrder, Streams, NEW c \in Conns, EncodeError(c),
           NEW at \in Numbers, NEW rec \in [Nat -> Records], NEW t \in Nat, NEW m \in Nat,
           Owns(c, at, rec, t, m)
    PROVE  \E b \in Numbers : Owns(c, b, rec, t, m)'
<1> PICK id, ch, q, E : id = connectionID[c] /\ ch = send[c] /\ q = queue[ch] /\ E = Expected(id)
  OBVIOUS
<1>s. Skips(c, id, ch, q)
  BY Skipping
<1>0. /\ id \in ConnIds /\ ch \in Channels /\ phase[c] \in {"pumping", "readDone"}
      /\ q \in Seq(Hub!Messages) /\ q # <<>> /\ Sequence[c] \in Nat /\ Head(q).type = "event"
      /\ writer[c] = "loop" /\ connectionID'[c] = id /\ send'[c] = ch
      /\ queue'[ch] = Tail(q) /\ Sequence'[c] = Sequence[c] + 1
      /\ unencodable' = unencodable \cup {Head(q).n}
      /\ UNCHANGED <<byConnection, phase, connectionID, send, reuseCount, writer, deadQueue, deadQueuePointer>>
      /\ UNCHANGED <<clientVars, netVars, produced, seen, delivered, dropped, skipped, unchecked, loaded>>
  BY <1>s DEF Skips
<1>1. /\ Ring(deadQueue[ch], deadQueuePointer[ch], rec, t) /\ Numbered(rec, t, m) /\ Sequence[c] >= m
      /\ \A rq \in requests : rq.id = id => 1 <= rq.seq /\ rq.seq <= m
  BY <1>0 DEF Owns, NumbersView
<1>5. NumbersView(c, rec, t, m)'
  <2>1. writer'[c] = "loop" /\ Sequence'[c] >= m /\ Sequence'[c] > m
    BY <1>0, <1>1
  <2> QED BY <1>0, <1>1, <2>1 DEF NumbersView, netVars
<1>6. (Relevant(id)' <=> Relevant(id)) /\ (InNet(id)' <=> InNet(id)) /\ Expected(id)' = E /\ Latest' = Latest
      /\ Base(id)' = Base(id) \cup {Head(q).n}
  <2>1. Base(id)' = Base(id) \cup {Head(q).n}
    BY <1>0 DEF Base, clientVars
  <2>2. (Relevant(id)' <=> Relevant(id)) /\ (InNet(id)' <=> InNet(id)) /\ Expected(id)' = E /\ Latest' = Latest
    BY <1>0 DEF Relevant, InNet, Expected, Latest, clientVars, netVars
  <2> QED BY <2>1, <2>2
<1>7. CASE ~ Relevant(id)
  <2>1. Owns(c, at, rec, t, m)'
    BY <1>0, <1>5, <1>6, <1>7 DEF Owns
  <2> QED BY <2>1
<1>8. CASE Relevant(id)
  <2> PICK b, n : b = Without(at, m) /\ n = Head(q).n
    OBVIOUS
  <2>2. Stream(at, id, m) /\ Content(c, at, rec, t, m)
    BY <1>8 DEF Owns
  <2>3. E \in Nat /\ E <= m
    <3>1. E <= m
      BY <2>2 DEF Stream
    <3> QED BY <3>1, Bounds
  <2>4. /\ m = 0 => t = 0 /\ Sequence[c] = 0
        /\ Recorded(at, id, rec, t, m) /\ Queued(at, id, m, q)
        /\ LinkUp(c) => Link(writer[c], Sequence[c], E, net, t, m)
        /\ InNet(id) /\ t = m => E + Len(net) <= m
        /\ Ordered(at, E, m + Len(q), Latest, produced)
        /\ t = m => GapFree(at, E, m + Len(q), Base(id))
        /\ t = m /\ Live(c) => Covered(at, E, m + Len(q), Base(id), produced)
    <3>1. m + Len(q) >= 1
      BY <1>0, SequenceParts
    <3> QED BY <2>2, <3>1 DEF Content, End
  <2>5. Head(q) = Msg(at, id, m) /\ (m # 0 => Queued(Without(at, m), id, m, Tail(q)))
    <3>1. Queued(at, id, m, q) /\ q \in Seq(Hub!Messages) /\ q # <<>>
      BY <1>0, <2>4
    <3> QED BY <3>1, QueueTaken
  <2>6. m \in Nat \ {0}
    BY <1>0, <2>5, MessageTypes
  <2>7. n = at[m] /\ Queued(b, id, m, Tail(q))
    BY <2>5, <2>6, MessageTypes
  <2>8. /\ b \in Numbers /\ \A x \in Nat : x < m => b[x] = at[x]
        /\ Ordered(b, E, m, Latest, produced) /\ GapFree(b, E, m, Base(id) \cup {n})
        /\ Ordered(b, E, m + Len(Tail(q)), Latest, produced)
        /\ t = m => GapFree(b, E, m + Len(Tail(q)), Base(id) \cup {n})
        /\ t = m /\ Live(c) => Covered(b, E, m + Len(Tail(q)), Base(id) \cup {n}, produced)
    <3>1. Ordered(at, E, m, Latest, produced) /\ GapFree(at, E, m, Base(id))
      BY <2>2 DEF Stream
    <3> PICK lo, hi, B : lo \in Nat /\ hi \in Nat /\ lo = Latest /\ hi = produced /\ B = Base(id)
      BY Bounds
    <3>2. E \in Nat /\ E <= m /\ m \in Nat \ {0} /\ q \in Seq(Hub!Messages) /\ q # <<>>
      BY <1>0, <2>3, <2>6
    <3>3. b \in Numbers /\ \A x \in Nat : x < m => b[x] = at[x]
      BY DEF Without, Numbers
    <3>4. /\ Ordered(at, E, m, lo, hi) => Ordered(b, E, m, lo, hi)
          /\ GapFree(at, E, m, B) => GapFree(b, E, m, B)
      BY <3>2, Displaced
    <3>5. Ordered(at, E, m + Len(q), lo, hi) => Ordered(b, E, m + Len(Tail(q)), lo, hi)
      BY <3>2, Displaced
    <3>6. GapFree(at, E, m + Len(q), B) => GapFree(b, E, m + Len(Tail(q)), B \cup {n})
      BY <2>7, <3>2, Displaced
    <3>7. Covered(at, E, m + Len(q), B, hi) => Covered(b, E, m + Len(Tail(q)), B \cup {n}, hi)
      BY <2>7, <3>2, Displaced
    <3>8. GapFree(b, E, m, B) => GapFree(b, E, m, B \cup {n})
      <4>1. hi <= hi /\ B \subseteq B \cup {n} /\ E \in Nat
        BY <3>2
      <4> QED BY <3>3, <4>1, Grown
    <3> QED BY <2>4, <3>1, <3>3, <3>4, <3>5, <3>6, <3>7, <3>8
  <2>10. ASSUME InNet(id) PROVE Carries(b, id, E, m, net)
    <3>1. Carries(at, id, E, m, net)
      BY <2>2, <2>10 DEF Stream
    <3> QED BY <2>3, <2>8, <3>1, WrittenAlike
  <2>11. Stream(b, id, m)'
    BY <1>0, <1>6, <2>3, <2>8, <2>10 DEF Stream, netVars
  <2>12. Recorded(b, id, rec, t, m)
    BY <2>4, <2>8, WrittenAlike
  <2>13. LinkUp(c)' => Link(writer'[c], Sequence'[c], E, net', t, m)
    BY <1>0, <2>4 DEF Link, LinkUp, clientVars, netVars
  <2>14. End(c, m)' = m + Len(Tail(q)) /\ m + Len(Tail(q)) >= 1
    <3>1. Len(Tail(q)) \in Nat
      BY <1>0, SequenceParts
    <3>2. m + Len(Tail(q)) >= 1
      BY <2>6, <3>1
    <3> QED BY <1>0, <3>2 DEF End
  <2>15. m # 0 /\ phase'[c] # "built" /\ (Live(c)' <=> Live(c))
    BY <1>0, <2>6 DEF Live
  <2>16. /\ InNet(id)' /\ t = m => E + Len(net') <= m
         /\ connectionID'[c] = id /\ queue'[send'[c]] = Tail(q)
         /\ Expected(id)' = E /\ Latest' = Latest /\ produced' = produced
         /\ Base(id)' = Base(id) \cup {n}
    BY <1>0, <1>6, <2>4 DEF netVars
  <2>17. Content(c, b, rec, t, m)'
    BY <2>7, <2>8, <2>12, <2>13, <2>14, <2>15, <2>16 DEF Content
  <2>18. Owns(c, b, rec, t, m)'
    BY <1>0, <1>5, <2>11, <2>17 DEF Owns
  <2> QED BY <2>8, <2>18
<1> QED BY <1>7, <1>8

\* An event does not encode.
LEMMA StreamsKeptByError ==
    ASSUME StreamTyped, StreamTyped', HubShape, HubShape', PumpsInOrder, Streams, NEW c \in Conns, EncodeError(c)
    PROVE  Streams'
<1> PICK id, ch, q : id = connectionID[c] /\ ch = send[c] /\ q = queue[ch]
  OBVIOUS
<1>0. Skips(c, id, ch, q)
  BY Skipping
<1>1. /\ writer[c] = "loop" /\ c \in Hub!Owners
      /\ unencodable \subseteq unencodable'
      /\ UNCHANGED <<byConnection, phase, connectionID, send, reuseCount, writer, deadQueue, deadQueuePointer>>
      /\ UNCHANGED <<clientVars, netVars, produced, seen, delivered, dropped, skipped, unchecked, loaded>>
      /\ \A d \in Conns : d # c => UNCHANGED Sequence[d]
      /\ \A h \in Channels : h # ch => UNCHANGED queue[h]
  BY <1>0 DEF Skips
<1>2. PICK at \in Numbers, rec \in [Nat -> Records] : \E t, m \in Nat : Owns(c, at, rec, t, m)
  BY <1>1, AtNumbers
<1>3. PICK t \in Nat, m \in Nat : Owns(c, at, rec, t, m)
  BY <1>2
<1>4. \E b \in Numbers : Owns(c, b, rec, t, m)'
  BY <1>3, SkippedNumbers
<1>5. Served(c)'
  BY <1>4 DEF Served
<1>6. /\ Hub!Owners' = Hub!Owners
      /\ \A i \in ConnIds : i # connectionID'[c] => Quiet(i)
      /\ \A d \in Hub!Owners' : d # c => Undisturbed(d)
  BY <1>1, OthersApart DEF netVars
<1> QED BY <1>1, <1>5, <1>6, OwnerServed

\* No connection has a fresh id.
LEMMA FreshUnheld ==
    \A id \in FreshIds : \A d \in Conns : phase[d] # "free" => connectionID[d] # id
BY DEF FreshIds, Hub!NewIds, Hub!UsedIds

\* A stream that starts over, under a new id, with a hello.
Restarts(c, new, hello, ch) ==
    /\ new \in ConnIds /\ new # connectionId /\ \A r \in requests : r.id # new
    /\ \A d \in Conns : phase[d] # "free" => connectionID[d] # new
    /\ ch \in Channels /\ c \in Hub!Owners /\ phase[c] \in {"pumping", "readDone"}
    /\ hello = [seq |-> 0, msg |-> Hub!Hello(new)] /\ hello \in Records
    /\ writer[c] = "start" /\ Sequence[c] \in Nat \ {0} /\ send'[c] = ch
    /\ connectionID' = [connectionID EXCEPT ![c] = new]
    /\ deadQueue'[ch] = DQ!addToDeadQueue(DQ!EmptyQueue, 0, hello)
    /\ deadQueuePointer'[ch] = DQ!NextPointer(0)
    /\ Sequence'[c] = 1
    /\ \/ writer'[c] = "done" /\ net' = net
       \/ writer'[c] = "loop" /\ net' = IF LinkUp(c) THEN net \o <<hello>> ELSE net
    /\ UNCHANGED <<byConnection, phase, send, reuseCount, queue, clientVars, requests, linkUp, eventVars>>
    /\ \A d \in Conns : d # c => UNCHANGED <<connectionID[d], writer[d], Sequence[d]>>
    /\ \A h \in Channels : h # ch => UNCHANGED <<deadQueue[h], deadQueuePointer[h]>>

\* What StartOver changes.
LEMMA Restarting ==
    ASSUME StreamTyped, HubShape, PumpsInOrder, Streams, NEW c \in Conns, StartOver(c),
           NEW new, new = connectionID'[c], NEW ch, ch = send[c],
           NEW hello, hello = [seq |-> 0, msg |-> Hub!Hello(new)]
    PROVE  Restarts(c, new, hello, ch)
<1>0. /\ writer[c] = "start" /\ Sequence[c] # 0 /\ new \in FreshIds
      /\ Hub!WriterRestarts(c)
      /\ deadQueue' = [deadQueue EXCEPT ![ch] = DQ!addToDeadQueue(DQ!EmptyQueue, 0, hello)]
      /\ deadQueuePointer' = [deadQueuePointer EXCEPT ![ch] = DQ!NextPointer(0)]
      /\ Sequence' = [Sequence EXCEPT ![c] = 1]
      /\ WriteOutcome(c, hello)
      /\ UNCHANGED <<clientVars, requests, linkUp, eventVars>>
  BY DEF StartOver
<1>1. /\ \E id \in Hub!NewIds : connectionID' = [connectionID EXCEPT ![c] = id]
      /\ \/ writer' = [writer EXCEPT ![c] = "loop"]
         \/ writer' = [writer EXCEPT ![c] = "done"]
      /\ UNCHANGED <<phase, byConnection, send, reuseCount, queue>>
  BY <1>0 DEF Hub!WriterRestarts, Hub!WriterDone, Hub!indexVars, Hub!chanVars
<1>2. connectionID' = [connectionID EXCEPT ![c] = new]
  BY <1>1 DEF HubShape
<1>3. /\ new \in ConnIds /\ new # connectionId /\ \A r \in requests : r.id # new
      /\ \A d \in Conns : phase[d] # "free" => connectionID[d] # new
  <2>1. new \in FreshIds
    BY <1>0
  <2>2. new \in ConnIds /\ new # connectionId
    BY <2>1, NewOnes
  <2>3. \A r \in requests : r.id # new
    BY <2>1, NewOnes
  <2>4. \A d \in Conns : phase[d] # "free" => connectionID[d] # new
    BY <2>1, FreshUnheld
  <2> QED BY <2>2, <2>3, <2>4
<1>4. ch \in Channels /\ c \in Hub!Owners /\ phase[c] \in {"pumping", "readDone"}
  BY <1>0, AtWork
<1>5. Sequence[c] \in Nat \ {0}
  BY <1>0, AtNumbers
<1>6. hello \in Records
  BY <1>3, EventsOf, RecordParts
<1>7. \/ writer'[c] = "done" /\ net' = net
      \/ writer'[c] = "loop" /\ net' = IF LinkUp(c) THEN net \o <<hello>> ELSE net
  BY <1>0 DEF WriteOutcome, Write
<1>8. /\ deadQueue'[ch] = DQ!addToDeadQueue(DQ!EmptyQueue, 0, hello)
      /\ deadQueuePointer'[ch] = DQ!NextPointer(0)
      /\ \A h \in Channels : h # ch => deadQueue'[h] = deadQueue[h] /\ deadQueuePointer'[h] = deadQueuePointer[h]
  BY <1>0, <1>4 DEF StreamTyped
<1>9. Sequence'[c] = 1 /\ \A d \in Conns : d # c => Sequence'[d] = Sequence[d]
  BY <1>0 DEF StreamTyped
<1>10. \A d \in Conns : d # c => writer'[d] = writer[d] /\ connectionID'[d] = connectionID[d]
  BY <1>1, <1>2 DEF HubShape
<1> QED BY <1>0, <1>1, <1>2, <1>3, <1>4, <1>5, <1>6, <1>7, <1>8, <1>9, <1>10 DEF Restarts

\* If its client is there, it will load everything produced so far.
Rejoins(c, old, new) ==
    /\ LinkUp(c) /\ InNet(old) /\ Relevant(old) /\ old = connectionId /\ Expected(new)' = 0
    /\ 1 .. produced \subseteq Base(new)'

\* A client that sees the new stream knew the old one.
LEMMA RestartedClient ==
    ASSUME StreamTyped, HubShape, HubShape', PumpsInOrder, Streams, NEW c \in Conns,
           NEW new, NEW hello, NEW ch, ch = send[c], Restarts(c, new, hello, ch), Relevant(new)',
           NEW old, old = connectionID[c]
    PROVE  Rejoins(c, old, new)
<1>0. /\ new # connectionId /\ ch \in Channels /\ c \in Hub!Owners
      /\ \A d \in Conns : phase[d] # "free" => connectionID[d] # new
      /\ writer[c] = "start" /\ Sequence[c] \in Nat \ {0}
      /\ UNCHANGED <<phase, clientVars, linkUp, eventVars>>
      /\ \A d \in Conns : d # c => connectionID'[d] = connectionID[d]
  BY DEF Restarts
<1>1. InNet(new)'
  BY <1>0 DEF Relevant, clientVars
<1>2. conn = c /\ linkUp
  <2>1. linkUp /\ conn # NoConn /\ phase[conn] # "free" /\ connectionID'[conn] = new
    BY <1>0, <1>1 DEF InNet, clientVars
  <2>2. conn \in Conns
    BY <2>1 DEF StreamTyped
  <2> QED BY <1>0, <2>1, <2>2
<1>3. LinkUp(c) /\ InNet(old) /\ old \in ConnIds
  <2>1. phase[c] # "free" /\ connectionID[c] \in ConnIds /\ c # NoConn
    BY <1>0, OwnerFacts
  <2> QED BY <1>2, <2>1 DEF LinkUp, InNet
<1>4. Relevant(old)
  BY <1>3 DEF Relevant
<1>5. PICK at \in Numbers, rec \in [Nat -> Records] : \E t, m \in Nat : Owns(c, at, rec, t, m)
  BY <1>0, AtNumbers
<1>6. PICK t \in Nat, m \in Nat : Owns(c, at, rec, t, m)
  BY <1>5
<1>7. Expected(old) = Sequence[c]
  <2>1. Content(c, at, rec, t, m)
    BY <1>4, <1>6 DEF Owns
  <2>2. Link(writer[c], Sequence[c], Expected(old), net, t, m)
    BY <1>3, <2>1 DEF Content
  <2> QED BY <1>0, <2>2 DEF Link
<1>8. old = connectionId
  BY <1>0, <1>7 DEF Expected
<1>9. connectionId # NoId
  BY <1>3, <1>8
<1>10. Expected(new)' = 0 /\ 1 .. produced \subseteq Base(new)'
  BY <1>0, <1>9 DEF Expected, Base, clientVars, eventVars, excusedVars
<1> QED BY <1>3, <1>4, <1>8, <1>10 DEF Rejoins

\* The numbers of an owner that starts over.
LEMMA RestartedNumbers ==
    ASSUME StreamTyped, HubShape, HubShape', PumpsInOrder, Streams, NEW c \in Conns,
           NEW new, NEW hello, NEW ch, ch = send[c], Restarts(c, new, hello, ch)
    PROVE  \E b \in Numbers, r \in [Nat -> Records] : Owns(c, b, r, 1, 1)'
<1>0. /\ new \in ConnIds /\ ch \in Channels /\ c \in Hub!Owners /\ phase[c] \in {"pumping", "readDone"}
      /\ hello = [seq |-> 0, msg |-> Hub!Hello(new)] /\ hello \in Records
      /\ writer[c] = "start" /\ Sequence[c] \in Nat \ {0} /\ send'[c] = ch
      /\ connectionID'[c] = new
      /\ deadQueue'[ch] = DQ!addToDeadQueue(DQ!EmptyQueue, 0, hello)
      /\ deadQueuePointer'[ch] = DQ!NextPointer(0)
      /\ Sequence'[c] = 1
      /\ \/ writer'[c] = "done" /\ net' = net
         \/ writer'[c] = "loop" /\ net' = IF LinkUp(c) THEN net \o <<hello>> ELSE net
      /\ UNCHANGED <<byConnection, phase, send, reuseCount, queue, clientVars, requests, linkUp, eventVars>>
      /\ \A r \in requests : r.id # new
  BY DEF Restarts, HubShape
<1>1. PICK at \in Numbers, rec \in [Nat -> Records] : \E t, m \in Nat : Owns(c, at, rec, t, m)
  BY <1>0, AtNumbers
<1>2. PICK t \in Nat, m \in Nat : Owns(c, at, rec, t, m)
  BY <1>1
<1> PICK r : r = [rec EXCEPT ![0] = hello]
  OBVIOUS
<1>3. /\ r \in [Nat -> Records] /\ r[0] = hello
      /\ Ring(DQ!addToDeadQueue(DQ!EmptyQueue, 0, hello), DQ!NextPointer(0), r, 1)
  <2>1. /\ DQ!EmptyQueue \in [DQ!Slot -> Records \cup {Nil}] /\ 0 \in DQ!Slot /\ Ring(DQ!EmptyQueue, 0, rec, 0)
    BY SlotsTyped, RingCleared
  <2>2. Ring(DQ!addToDeadQueue(DQ!EmptyQueue, 0, hello), DQ!NextPointer(0), [rec EXCEPT ![0] = hello], 0 + 1)
    BY <1>0, <2>1, RingAdded
  <2>3. r \in [Nat -> Records] /\ r[0] = hello
    BY <1>0
  <2> QED BY <2>2, <2>3
<1>4. Numbered(r, 1, 1)
  <2>1. r[0].seq = 0
    BY <1>0, <1>3
  <2> QED BY <2>1 DEF Numbered
<1>5. NumbersView(c, r, 1, 1)'
  BY <1>0, <1>3, <1>4 DEF NumbersView
<1>6. CASE ~ Relevant(new)'
  <2>1. Owns(c, at, r, 1, 1)'
    BY <1>0, <1>5, <1>6 DEF Owns
  <2> QED BY <1>3, <2>1
<1>7. CASE Relevant(new)'
  <2> PICK old, q, E : old = connectionID[c] /\ q = queue[ch] /\ E = Expected(old)
    OBVIOUS
  <2>1. /\ LinkUp(c) /\ Relevant(old) /\ old = connectionId /\ Expected(new)' = 0
        /\ 1 .. produced \subseteq Base(new)'
    <3>1. Relevant(new)'
      BY <1>7
    <3>2. Rejoins(c, old, new)
      BY <3>1, RestartedClient
    <3> QED BY <3>2 DEF Rejoins
  <2>2. Stream(at, old, m) /\ Content(c, at, rec, t, m)
    BY <1>2, <2>1 DEF Owns
  <2>3. E = Sequence[c] /\ net = <<>>
    <3>1. Link(writer[c], Sequence[c], E, net, t, m)
      BY <2>1, <2>2 DEF Content
    <3> QED BY <1>0, <3>1 DEF Link
  <2>4. E \in Nat /\ E <= m /\ m \in Nat \ {0} /\ q \in Seq(Hub!Messages) /\ Len(q) \in Nat
    <3>1. E <= m
      BY <2>2 DEF Stream
    <3>2. q \in Seq(Hub!Messages)
      BY <1>0 DEF HubShape
    <3> QED BY <1>0, <2>3, <3>1, <3>2, SequenceParts
  <2>5. /\ Ordered(at, E, m + Len(q), Latest, produced) /\ Queued(at, old, m, q)
    BY <2>2 DEF Content, End
  <2> PICK b : b = [x \in Nat |-> IF x = 0 THEN 0 ELSE From(at, m)[x]]
    OBVIOUS
  <2> PICK l \in Nat : l = Len(q)
    BY <2>4
  <2> PICK lo \in Nat, hi \in Nat : lo = Latest /\ hi = produced
    BY Bounds
  <2>6. b \in Numbers /\ Ordered(b, 0, 1 + l, lo, hi)
    <3>1. Ordered(at, E, m + l, lo, hi)
      BY <2>5
    <3> QED BY <2>4, <3>1, StartedOver
  <2> PICK B : B = Base(new)'
    OBVIOUS
  <2>7. Ordered(b, 0, 1, lo, hi)
    <3>1. Lacking(0, 1) = {}
      BY DEF Lacking
    <3> QED BY <3>1 DEF Ordered
  <2>8. \A e \in Nat : Covered(b, 0, e, B, hi) /\ (Ordered(b, 0, e, lo, hi) => GapFree(b, 0, e, B))
    <3>1. 1 .. hi \subseteq B /\ 0 \in Nat
      BY <2>1
    <3> QED BY <2>6, <3>1, Loaded
  <2>9. 1 + l \in Nat /\ GapFree(b, 0, 1, B) /\ GapFree(b, 0, 1 + l, B) /\ Covered(b, 0, 1 + l, B, hi)
    <3>1. 1 \in Nat /\ 1 + l \in Nat
      OBVIOUS
    <3> QED BY <2>6, <2>7, <2>8, <3>1
  <2>10. net' = <<>> \/ net' = <<hello>>
    <3>1. <<>> \o <<hello>> = <<hello>>
      OBVIOUS
    <3> QED BY <1>0, <2>3, <3>1
  <2>11. Carries(b, new, 0, 1, net')
    <3>1. Carries(b, new, 0, 1, <<>>)
      BY DEF Carries
    <3>2. Carries(b, new, 0, 1, <<hello>>)
      <4>1. Len(<<hello>>) = 1 /\ <<hello>>[1] = hello
        OBVIOUS
      <4>2. hello = [seq |-> 0, msg |-> Msg(b, new, 0)]
        BY <1>0, MessageTypes
      <4>3. \A j \in 1 .. 1 : j = 1 /\ 0 + (j - 1) = 0 /\ 0 < 1
        OBVIOUS
      <4> QED BY <4>1, <4>2, <4>3 DEF Carries
    <3> QED BY <2>10, <3>1, <3>2
  <2>12. Latest' = lo /\ produced' = hi
    BY <1>0 DEF Latest, eventVars
  <2>13. Stream(b, new, 1)'
    <3>1. 0 <= 1
      OBVIOUS
    <3> QED BY <2>1, <2>7, <2>9, <2>11, <2>12, <3>1 DEF Stream
  <2>14. Recorded(b, new, r, 1, 1)
    <3>1. r[0].msg = Msg(b, new, 0)
      BY <1>0, <1>3, MessageTypes
    <3>2. \A x \in Nat : x < 1 => x = 0
      OBVIOUS
    <3>3. \A x \in Nat : ~ (1 <= x /\ x < 1)
      OBVIOUS
    <3>4. \A x \in Nat : x < 1 => r[x].msg = Msg(b, new, x)
      BY <3>1, <3>2
    <3> QED BY <3>3, <3>4 DEF Recorded
  <2>15. Queued(b, new, 1, q)
    <3> SUFFICES ASSUME NEW j \in 1 .. Len(q) PROVE q[j] = Msg(b, new, 1 + (j - 1))
      BY DEF Queued
    <3>1. j \in Nat \ {0} /\ m + (j - 1) \in Nat \ {0} /\ 1 + (j - 1) = j /\ m + j - 1 = m + (j - 1)
      BY <2>4
    <3>2. q[j] = Msg(at, old, m + (j - 1))
      BY <2>5 DEF Queued
    <3>3. q[j] = Event(at[m + (j - 1)])
      BY <3>1, <3>2, MessageTypes
    <3>4. b[j] = at[m + (j - 1)]
      BY <3>1 DEF From
    <3>5. Msg(b, new, j) = Event(b[j])
      BY <3>1, MessageTypes
    <3> QED BY <3>1, <3>3, <3>4, <3>5
  <2>16. LinkUp(c)' => Link(writer'[c], Sequence'[c], 0, net', 1, 1)
    <3>1. writer'[c] = "loop" => 0 + Len(net') = 1
      <4>1. <<>> \o <<hello>> = <<hello>> /\ Len(<<hello>>) = 1
        OBVIOUS
      <4>2. writer'[c] = "loop" => net' = <<hello>>
        BY <1>0, <2>1, <2>3, <4>1
      <4> QED BY <4>1, <4>2
    <3> QED BY <1>0, <3>1 DEF Link
  <2>17. 0 + Len(net') <= 1
    <3>1. CASE net' = <<>>
      <4>1. 0 + Len(<<>>) <= 1
        OBVIOUS
      <4> QED BY <3>1, <4>1
    <3>2. CASE net' = <<hello>>
      <4>1. 0 + Len(<<hello>>) <= 1
        OBVIOUS
      <4> QED BY <3>2, <4>1
    <3> QED BY <2>10, <3>1, <3>2
  <2>18. End(c, 1)' = 1 + l /\ 1 + l >= 1
    BY <1>0 DEF End
  <2>19. phase'[c] # "built" /\ queue'[send'[c]] = q /\ connectionID'[c] = new
    BY <1>0
  <2>20. Content(c, b, r, 1, 1)'
    BY <2>1, <2>6, <2>9, <2>12, <2>14, <2>15, <2>16, <2>17, <2>18, <2>19 DEF Content
  <2>21. Owns(c, b, r, 1, 1)'
    BY <1>0, <1>5, <2>13, <2>20 DEF Owns
  <2> QED BY <1>3, <2>6, <2>21
<1> QED BY <1>6, <1>7

\* The client's number is gone, and the stream starts over with a hello.
LEMMA StreamsKeptByRestart ==
    ASSUME StreamTyped, StreamTyped', HubShape, HubShape', PumpsInOrder, Streams, NEW c \in Conns, StartOver(c)
    PROVE  Streams'
<1> PICK new, ch, hello : new = connectionID'[c] /\ ch = send[c] /\ hello = [seq |-> 0, msg |-> Hub!Hello(new)]
  OBVIOUS
<1>0. Restarts(c, new, hello, ch)
  BY Restarting
<1>1. /\ c \in Hub!Owners
      /\ UNCHANGED <<byConnection, phase, send, reuseCount, queue, clientVars, requests, linkUp, eventVars>>
      /\ net' = net \/ LinkUp(c)
      /\ \A d \in Conns : d # c => UNCHANGED <<connectionID[d], writer[d], Sequence[d]>>
      /\ \A h \in Channels : h # ch => UNCHANGED <<deadQueue[h], deadQueuePointer[h]>>
  BY <1>0 DEF Restarts
<1>2. \E b \in Numbers, r \in [Nat -> Records] : Owns(c, b, r, 1, 1)'
  BY <1>0, RestartedNumbers
<1>3. Served(c)'
  <2>1. 1 \in Nat
    OBVIOUS
  <2> QED BY <1>2, <2>1 DEF Served
<1>4. /\ Hub!Owners' = Hub!Owners
      /\ \A i \in ConnIds : i # connectionID'[c] => Quiet(i)
      /\ \A d \in Hub!Owners' : d # c => Undisturbed(d)
  BY <1>1, OthersApart DEF eventVars, excusedVars
<1> QED BY <1>1, <1>3, <1>4, OwnerServed

-----------------------------------------------------------------------------
(* A connection is built. *)

\* A stream without messages is in order.
LEMMA NothingYet ==
    /\ \A at, lo, hi : Ordered(at, 0, 0, lo, hi)
    /\ \A at, B : GapFree(at, 0, 0, B)
    /\ \A at, id : \A E, m \in Nat : Carries(at, id, E, m, <<>>)
    /\ \A at, id, rec : Recorded(at, id, rec, 0, 0)
    /\ \A at, id, m : Queued(at, id, m, <<>>)
    /\ \A rec : Numbered(rec, 0, 0)
<1>1. Lacking(0, 0) = {}
  BY DEF Lacking
<1>2. \A at, lo, hi : Ordered(at, 0, 0, lo, hi)
  BY <1>1 DEF Ordered
<1>3. \A at, B : GapFree(at, 0, 0, B)
  BY <1>1 DEF GapFree
<1>4. \A j : j \notin 1 .. Len(<<>>)
  OBVIOUS
<1>5. \A at, id : \A E, m \in Nat : Carries(at, id, E, m, <<>>)
  BY <1>4 DEF Carries
<1>6. \A at, id, m : Queued(at, id, m, <<>>)
  BY <1>4 DEF Queued
<1>7. \A x \in Nat : ~ (x < 0)
  OBVIOUS
<1>8. \A at, id, rec : Recorded(at, id, rec, 0, 0)
  BY <1>7 DEF Recorded
<1>9. \A rec : Numbered(rec, 0, 0)
  BY <1>7 DEF Numbered
<1> QED BY <1>2, <1>3, <1>5, <1>6, <1>8, <1>9

\* With a new channel and a new id.
Opens(c, id, ch) ==
    /\ c \in Conns /\ id \in ConnIds /\ ch \in Channels
    /\ phase[c] = "free" /\ id # connectionId /\ \A q \in requests : q.id # id
    /\ \A d \in Conns : phase[d] # "free" => connectionID[d] # id /\ send[d] # ch
    /\ phase'[c] = "built" /\ connectionID'[c] = id /\ send'[c] = ch /\ reuseCount'[c] = 0
    /\ queue'[ch] = <<>> /\ Sequence'[c] = 0
    /\ deadQueue'[ch] = DQ!EmptyQueue /\ deadQueuePointer'[ch] = 0
    /\ requests' \subseteq requests
    /\ UNCHANGED <<byConnection, writer, clientVars, linkUp, net, eventVars>>
    /\ \A d \in Conns : d # c =>
         UNCHANGED <<phase[d], connectionID[d], send[d], reuseCount[d], Sequence[d]>>
    /\ \A h \in Channels : h # ch => UNCHANGED <<queue[h], deadQueue[h], deadQueuePointer[h]>>
    /\ LinkUp(c) => net = <<>>

\* No connection has a new channel.
LEMMA FreshChannel ==
    \A ch \in Hub!NewChannels : ch \in Channels /\ \A d \in Conns : phase[d] # "free" => send[d] # ch
BY DEF Hub!NewChannels

\* What accepting a request with a new channel changes.
LEMMA Opening ==
    ASSUME StreamTyped, HubShape, RequestsInOrder, NEW r \in requests, NEW id \in FreshIds,
           Hub!ConnectFresh(r.conn, User, id),
           Sequence' = [Sequence EXCEPT ![r.conn] = 0],
           deadQueue' = [deadQueue EXCEPT ![send'[r.conn]] = DQ!EmptyQueue],
           deadQueuePointer' = [deadQueuePointer EXCEPT ![send'[r.conn]] = 0],
           requests' = requests \ {r}, UNCHANGED <<clientVars, linkUp, net, faults, eventVars>>
    PROVE  \E ch : Opens(r.conn, id, ch)
<1> PICK c : c = r.conn
  OBVIOUS
<1>1. PICK ch \in Hub!NewChannels : Hub!Build(c, User, id, ch, TRUE, 0) /\ queue' = [queue EXCEPT ![ch] = <<>>]
  BY DEF Hub!ConnectFresh
<1>2. /\ phase[c] = "free" /\ UNCHANGED <<byConnection, writer>>
      /\ phase' = [phase EXCEPT ![c] = "built"] /\ connectionID' = [connectionID EXCEPT ![c] = id]
      /\ send' = [send EXCEPT ![c] = ch] /\ reuseCount' = [reuseCount EXCEPT ![c] = 0]
  BY <1>1 DEF Hub!ConnectFresh, Hub!indexVars, Hub!Build
<1>3. c \in Conns
  BY DEF StreamTyped
<1>4. ch \in Channels /\ \A d \in Conns : phase[d] # "free" => send[d] # ch
  BY <1>1, FreshChannel
<1>5. /\ id \in ConnIds /\ id # connectionId
      /\ \A q \in requests : q.id # id
  BY DEF FreshIds, Hub!NewIds
<1>6. \A d \in Conns : phase[d] # "free" => connectionID[d] # id
  BY FreshUnheld
<1>7. /\ phase'[c] = "built" /\ connectionID'[c] = id /\ send'[c] = ch /\ reuseCount'[c] = 0
      /\ \A d \in Conns : d # c => /\ phase'[d] = phase[d] /\ connectionID'[d] = connectionID[d]
                                   /\ send'[d] = send[d] /\ reuseCount'[d] = reuseCount[d]
  BY <1>2, <1>3 DEF HubShape
<1>8. queue'[ch] = <<>> /\ \A h \in Channels : h # ch => queue'[h] = queue[h]
  BY <1>1, <1>4 DEF HubShape
<1>9. Sequence'[c] = 0 /\ \A d \in Conns : d # c => Sequence'[d] = Sequence[d]
  BY <1>3 DEF StreamTyped
<1>10. /\ deadQueue'[ch] = DQ!EmptyQueue /\ deadQueuePointer'[ch] = 0
       /\ \A h \in Channels : h # ch => deadQueue'[h] = deadQueue[h] /\ deadQueuePointer'[h] = deadQueuePointer[h]
  BY <1>4, <1>7 DEF StreamTyped
<1>11. LinkUp(c) => net = <<>>
  BY DEF RequestsInOrder
<1>12. requests' \subseteq requests
  OBVIOUS
<1>13. Opens(c, id, ch)
  BY <1>2, <1>3, <1>4, <1>5, <1>6, <1>7, <1>8, <1>9, <1>10, <1>11, <1>12 DEF Opens
<1> QED BY <1>13

\* The numbers of a connection with a new channel.
LEMMA OpenedNumbers ==
    ASSUME StreamTyped, HubShape, HubShape', PumpsInOrder, NEW c, NEW id, NEW ch, Opens(c, id, ch)
    PROVE  Served(c)'
<1>0. /\ c \in Conns /\ id \in ConnIds /\ phase[c] = "free" /\ id # connectionId /\ \A q \in requests : q.id # id
      /\ \A d \in Conns : phase[d] # "free" => connectionID[d] # id
      /\ phase'[c] = "built" /\ connectionID'[c] = id /\ send'[c] = ch /\ reuseCount'[c] = 0
      /\ queue'[ch] = <<>> /\ Sequence'[c] = 0
      /\ deadQueue'[ch] = DQ!EmptyQueue /\ deadQueuePointer'[ch] = 0
      /\ requests' \subseteq requests /\ UNCHANGED <<byConnection, writer, clientVars, linkUp, net, eventVars>>
      /\ \A d \in Conns : d # c => phase'[d] = phase[d] /\ connectionID'[d] = connectionID[d]
      /\ LinkUp(c) => net = <<>>
  BY DEF Opens
<1> PICK at : at = [x \in Nat |-> 0]
  OBVIOUS
<1> PICK rec : rec = [x \in Nat |-> [seq |-> 0, msg |-> Hub!Hello(id)]]
  OBVIOUS
<1>1. at \in Numbers /\ rec \in [Nat -> Records] /\ 0 \in Nat
  <2>1. [seq |-> 0, msg |-> Hub!Hello(id)] \in Records
    BY <1>0, EventsOf, RecordParts
  <2> QED BY <2>1 DEF Numbers
<1>2. NumbersView(c, rec, 0, 0)'
  <2>1. Ring(DQ!EmptyQueue, 0, rec, 0) /\ Numbered(rec, 0, 0)
    BY RingCleared, NothingYet
  <2>2. writer'[c] # "loop"
    BY <1>0 DEF PumpsInOrder
  <2>3. \A q \in requests' : q.id # id
    BY <1>0
  <2> QED BY <1>0, <2>1, <2>2, <2>3 DEF NumbersView
<1>3. ASSUME Relevant(id)' PROVE Stream(at, id, 0)' /\ Content(c, at, rec, 0, 0)'
  <2>1. InNet(id)'
    BY <1>0, <1>3 DEF Relevant, clientVars
  <2>2. linkUp /\ conn # NoConn /\ phase'[conn] # "free" /\ connectionID'[conn] = id
    BY <1>0, <2>1 DEF InNet, clientVars
  <2>3. conn \in Conns
    BY <2>2 DEF StreamTyped
  <2>4. conn = c
    BY <1>0, <2>2, <2>3
  <2>5. net' = <<>> /\ Expected(id)' = 0
    BY <1>0, <2>2, <2>4 DEF LinkUp, Expected, clientVars
  <2>6. /\ \A lo, hi : Ordered(at, 0, 0, lo, hi)
        /\ \A B : GapFree(at, 0, 0, B)
        /\ Carries(at, id, 0, 0, <<>>) /\ Recorded(at, id, rec, 0, 0) /\ Queued(at, id, 0, <<>>)
    BY NothingYet
  <2>7. Len(<<>>) = 0 /\ 0 + 0 = 0
    OBVIOUS
  <2>8. Stream(at, id, 0)'
    BY <2>5, <2>6 DEF Stream
  <2>9. ~ Live(c)'
    BY <1>0 DEF Live, HubShape
  <2>10. End(c, 0)' = 0
    BY <1>0, <2>7 DEF End
  <2>11. Link(writer'[c], 0, 0, <<>>, 0, 0)
    <3>1. writer'[c] = "idle"
      BY <1>0 DEF PumpsInOrder
    <3> QED BY <3>1 DEF Link
  <2>12. Content(c, at, rec, 0, 0)'
    BY <1>0, <2>5, <2>6, <2>7, <2>9, <2>10, <2>11 DEF Content
  <2> QED BY <2>8, <2>12
<1>4. Owns(c, at, rec, 0, 0)'
  BY <1>0, <1>2, <1>3 DEF Owns
<1> QED BY <1>1, <1>4 DEF Served

\* A connection is built around a new channel.
LEMMA StreamsKeptByOpening ==
    ASSUME StreamTyped, StreamTyped', HubShape, HubShape', PumpsInOrder, Streams,
           NEW c, NEW id0, NEW ch, Opens(c, id0, ch)
    PROVE  Streams'
<1>0. /\ c \in Conns /\ phase[c] = "free"
      /\ \A d \in Conns : phase[d] # "free" => connectionID[d] # id0 /\ send[d] # ch
      /\ phase'[c] = "built" /\ connectionID'[c] = id0
      /\ requests' \subseteq requests /\ UNCHANGED <<byConnection, writer, clientVars, linkUp, net, eventVars>>
      /\ \A d \in Conns : d # c => UNCHANGED <<phase[d], connectionID[d], send[d], reuseCount[d], Sequence[d]>>
      /\ \A h \in Channels : h # ch => UNCHANGED <<queue[h], deadQueue[h], deadQueuePointer[h]>>
  BY DEF Opens
<1>1. ViewKept /\ conn' = conn /\ linkUp' = linkUp /\ net' = net /\ produced' = produced
  BY <1>0 DEF ViewKept, clientVars, eventVars
<1>2. ASSUME NEW id \in ConnIds, id # id0 PROVE Quiet(id)
  <2>1. InNet(id)' => InNet(id) /\ net' = net
    <3> SUFFICES ASSUME InNet(id)' PROVE InNet(id)
      BY <1>1
    <3>1. linkUp /\ conn # NoConn /\ phase'[conn] # "free" /\ connectionID'[conn] = id /\ conn \in Conns
      BY <1>1 DEF InNet, StreamTyped
    <3> QED BY <1>0, <1>2, <3>1 DEF InNet
  <2> QED BY <1>1, <2>1, QuietWhen
<1>3. ASSUME NEW d \in Hub!Owners', d # c PROVE Undisturbed(d)
  <2>1. d \in Conns /\ d \in Hub!Owners
    BY <1>0, <1>3 DEF Hub!Owners, HubShape
  <2>2. phase[d] # "free" /\ send[d] \in Channels /\ send[d] # ch
    BY <1>0, <2>1, OwnerFacts
  <2>3. UNCHANGED <<phase[d], connectionID[d], send[d], reuseCount[d], Sequence[d]>>
    BY <1>0, <1>3, <2>1
  <2>4. UNCHANGED <<queue[send[d]], deadQueue[send[d]], deadQueuePointer[send[d]]>>
    <3> PICK h : h = send[d]
      OBVIOUS
    <3>1. queue'[h] = queue[h] /\ deadQueue'[h] = deadQueue[h] /\ deadQueuePointer'[h] = deadQueuePointer[h]
      BY <1>0, <2>2
    <3>2. send'[d] = h
      BY <2>3
    <3> QED BY <3>1, <3>2
  <2>5. LinkUp(d)' => LinkUp(d) /\ net' = net
    BY <1>1 DEF LinkUp
  <2>6. Live(d)' => Live(d) /\ \A n \in Nat : produced < n /\ n <= produced' => n \in Base(connectionID[d])'
    <3>1. \A n \in Nat : ~ (produced < n /\ n <= produced')
      BY <1>1, Bounds
    <3>2. phase'[d] = phase[d] /\ reuseCount'[d] = reuseCount[d] /\ byConnection' = byConnection
      BY <1>0, <2>3
    <3> QED BY <3>1, <3>2 DEF Live
  <2> QED BY <1>0, <2>1, <2>3, <2>4, <2>5, <2>6 DEF Undisturbed
<1>4. Served(c)' /\ c \in Hub!Owners'
  <2>1. Served(c)'
    BY OpenedNumbers
  <2> QED BY <1>0, <2>1 DEF Hub!Owners
<1> QED BY <1>0, <1>2, <1>3, <1>4, OwnerServed

\* With the channel of one that nobody uses any more.
TakesOver(c, old, r, ch) ==
    /\ c \in Conns /\ old \in byConnection /\ c # old /\ ch \in Channels /\ r \in requests
    /\ phase[c] = "free" /\ phase[old] = "finished"
    /\ connectionID[old] = r.id /\ send[old] = ch
    /\ phase'[c] = "built" /\ connectionID'[c] = r.id /\ send'[c] = ch /\ reuseCount'[c] = 1
    /\ Sequence'[c] = r.seq /\ requests' \subseteq requests
    /\ byConnection' = byConnection \ {old}
    /\ UNCHANGED <<writer, queue, deadQueue, deadQueuePointer, clientVars, linkUp, net, eventVars>>
    /\ \A d \in Conns : d # c =>
         UNCHANGED <<phase[d], connectionID[d], send[d], reuseCount[d], Sequence[d]>>
    /\ LinkUp(c) => r.id = connectionId /\ r.seq = serverSequence /\ net = <<>>

\* What accepting a request that takes over a channel changes.
LEMMA TakingOver ==
    ASSUME StreamTyped, HubShape, RequestsInOrder, NEW r \in requests, Hub!ConnectReuse(r.conn, User, r.id),
           Sequence' = [Sequence EXCEPT ![r.conn] = r.seq],
           UNCHANGED <<deadQueue, deadQueuePointer>>,
           requests' = requests \ {r}, UNCHANGED <<clientVars, linkUp, net, faults, eventVars>>
    PROVE  \E old, ch : TakesOver(r.conn, old, r, ch)
<1> PICK c : c = r.conn
  OBVIOUS
<1>1. PICK old \in Hub!Inactive(User, r.id) : Hub!IndexRemove({old}) /\ Hub!Build(c, User, r.id, send[old], FALSE, 1)
  BY DEF Hub!ConnectReuse
<1> PICK ch : ch = send[old]
  OBVIOUS
<1>2. /\ phase[c] = "free" /\ UNCHANGED <<queue, writer>>
      /\ phase' = [phase EXCEPT ![c] = "built"] /\ connectionID' = [connectionID EXCEPT ![c] = r.id]
      /\ send' = [send EXCEPT ![c] = ch] /\ reuseCount' = [reuseCount EXCEPT ![c] = 1]
  BY <1>1 DEF Hub!ConnectReuse, Hub!chanVars, Hub!Build
<1>3. c \in Conns
  BY DEF StreamTyped
<1>4. old \in byConnection /\ connectionID[old] = r.id /\ ~ Active[old] /\ old \in Conns
  BY <1>1 DEF Hub!Inactive, Hub!ForUser, HubShape
<1>5. phase[old] = "finished" /\ ch \in Channels
  BY <1>4 DEF HubShape
<1>6. byConnection' = byConnection \ {old}
  BY <1>1, <1>4 DEF Hub!IndexRemove
<1>7. /\ phase'[c] = "built" /\ connectionID'[c] = r.id /\ send'[c] = ch /\ reuseCount'[c] = 1
      /\ \A d \in Conns : d # c => /\ phase'[d] = phase[d] /\ connectionID'[d] = connectionID[d]
                                   /\ send'[d] = send[d] /\ reuseCount'[d] = reuseCount[d]
  BY <1>2, <1>3 DEF HubShape
<1>8. Sequence'[c] = r.seq /\ \A d \in Conns : d # c => Sequence'[d] = Sequence[d]
  BY <1>3 DEF StreamTyped
<1>9. LinkUp(c) => r.id = connectionId /\ r.seq = serverSequence /\ net = <<>>
  BY DEF RequestsInOrder
<1>10. c # old
  BY <1>2, <1>5
<1>11. TakesOver(c, old, r, ch)
  BY <1>2, <1>3, <1>4, <1>5, <1>6, <1>7, <1>8, <1>9, <1>10 DEF TakesOver
<1> QED BY <1>11

\* The numbers go with the channel.
LEMMA TakenOverNumbers ==
    ASSUME StreamTyped, HubShape, PumpsInOrder, Streams, NEW c, NEW old, NEW r, NEW ch, TakesOver(c, old, r, ch)
    PROVE  Served(c)'
<1> PICK id, s : id = r.id /\ s = r.seq
  OBVIOUS
<1>0. /\ c \in Conns /\ old \in byConnection /\ ch \in Channels /\ r \in requests
      /\ phase[c] = "free" /\ phase[old] = "finished"
      /\ connectionID[old] = id /\ send[old] = ch
      /\ phase'[c] = "built" /\ connectionID'[c] = id /\ send'[c] = ch /\ reuseCount'[c] = 1
      /\ Sequence'[c] = s /\ requests' \subseteq requests
      /\ UNCHANGED <<writer, queue, deadQueue, deadQueuePointer, clientVars, linkUp, net, eventVars>>
      /\ \A d \in Conns : d # c => phase'[d] = phase[d] /\ connectionID'[d] = connectionID[d]
      /\ LinkUp(c) => id = connectionId /\ s = serverSequence /\ net = <<>>
  BY DEF TakesOver
<1>1. old \in Hub!Owners /\ id \in ConnIds /\ Live(old)
  <2>1. old \in Hub!Owners /\ connectionID[old] \in ConnIds
    BY <1>0, OwnerFacts
  <2> QED BY <1>0, <2>1 DEF Live
<1>2. PICK at \in Numbers, rec \in [Nat -> Records] : \E t, m \in Nat : Owns(old, at, rec, t, m)
  BY <1>1 DEF Streams, Served
<1>3. PICK t \in Nat, m \in Nat : Owns(old, at, rec, t, m)
  BY <1>2
<1>4. /\ Ring(deadQueue[ch], deadQueuePointer[ch], rec, t) /\ Numbered(rec, t, m)
      /\ \A q \in requests : q.id = id => 1 <= q.seq /\ q.seq <= m
  BY <1>0, <1>3 DEF Owns, NumbersView
<1>5. 1 <= s /\ s <= m /\ s \in Nat
  BY <1>0, <1>4 DEF StreamTyped
<1>6. NumbersView(c, rec, t, m)'
  <2>1. writer'[c] = "idle" /\ s # 0
    BY <1>0, <1>5 DEF PumpsInOrder
  <2> QED BY <1>0, <1>4, <1>5, <2>1 DEF NumbersView
<1>7. ASSUME Relevant(id)' PROVE Stream(at, id, m)' /\ Content(c, at, rec, t, m)'
  <2>1. InNet(id)' => InNet(id) \/ net = <<>>
    <3> SUFFICES ASSUME InNet(id)', ~ LinkUp(c) PROVE InNet(id)
      BY <1>0
    <3>1. linkUp /\ conn # NoConn /\ phase'[conn] # "free" /\ connectionID'[conn] = id /\ conn # c
      BY <1>0 DEF InNet, clientVars, LinkUp
    <3>2. conn \in Conns
      BY <3>1 DEF StreamTyped
    <3> QED BY <1>0, <3>1, <3>2 DEF InNet
  <2>2. Relevant(id)
    <3>1. id = connectionId \/ InNet(id)'
      BY <1>0, <1>7 DEF Relevant, clientVars
    <3>2. ASSUME InNet(id)', id # connectionId PROVE InNet(id)
      <4>1. linkUp /\ conn # NoConn /\ phase'[conn] # "free" /\ connectionID'[conn] = id /\ conn # c
        BY <1>0, <3>2 DEF InNet, clientVars, LinkUp
      <4>2. conn \in Conns
        BY <4>1 DEF StreamTyped
      <4> QED BY <1>0, <4>1, <4>2 DEF InNet
    <3> QED BY <1>1, <3>1, <3>2 DEF Relevant
  <2> PICK E : E = Expected(id)
    OBVIOUS
  <2> PICK q : q = queue[ch]
    OBVIOUS
  <2>3. /\ Expected(id)' = E /\ Base(id)' = Base(id) /\ Latest' = Latest /\ produced' = produced /\ net' = net
    BY <1>0 DEF Expected, Base, Latest, clientVars, eventVars, excusedVars
  <2>4. Stream(at, id, m) /\ Content(old, at, rec, t, m)
    BY <1>0, <1>3, <2>2 DEF Owns
  <2>5. /\ E <= m /\ Ordered(at, E, m, Latest, produced) /\ GapFree(at, E, m, Base(id))
        /\ InNet(id) => Carries(at, id, E, m, net)
    BY <2>4 DEF Stream
  <2>6. E \in Nat
    BY Bounds
  <2>7. /\ Recorded(at, id, rec, t, m) /\ Queued(at, id, m, q)
        /\ InNet(id) /\ t = m => E + Len(net) <= m
        /\ Ordered(at, E, m + Len(q), Latest, produced)
        /\ t = m => GapFree(at, E, m + Len(q), Base(id)) /\ Covered(at, E, m + Len(q), Base(id), produced)
    <3>1. m + Len(q) >= 1
      <4>1. Len(q) \in Nat
        BY <1>0, SequenceParts DEF HubShape
      <4> QED BY <1>5, <4>1
    <3> QED BY <1>0, <1>1, <2>4, <3>1 DEF Content, End
  <2>8. InNet(id)' => Carries(at, id, E, m, net)
    <3>1. Carries(at, id, E, m, <<>>)
      BY <2>6, NothingYet
    <3> QED BY <2>1, <2>5, <3>1
  <2>9. Stream(at, id, m)'
    BY <2>3, <2>5, <2>8 DEF Stream
  <2>10. LinkUp(c)' => Link(writer'[c], s, E, net, t, m)
    <3> SUFFICES ASSUME LinkUp(c) PROVE Link(writer'[c], s, E, net, t, m)
      BY <1>0 DEF LinkUp, clientVars
    <3>1. writer'[c] = "idle" /\ net = <<>> /\ s = E
      BY <1>0, <2>3 DEF PumpsInOrder, Expected
    <3> QED BY <3>1 DEF Link
  <2>11. InNet(id)' /\ t = m => E + Len(net) <= m
    <3>1. net = <<>> => E + Len(net) <= m
      <4>1. Len(<<>>) = 0 /\ E + 0 = E
        BY <2>6
      <4> QED BY <2>5, <4>1
    <3> QED BY <2>1, <2>7, <3>1
  <2>12. m # 0 /\ End(c, m)' = m + Len(q)
    BY <1>0, <1>5 DEF End
  <2>13. Content(c, at, rec, t, m)'
    BY <1>0, <2>3, <2>7, <2>10, <2>11, <2>12 DEF Content
  <2> QED BY <2>9, <2>13
<1>8. Owns(c, at, rec, t, m)'
  BY <1>0, <1>6, <1>7 DEF Owns
<1> QED BY <1>8 DEF Served

\* A connection is built around the channel of an inactive one.
LEMMA StreamsKeptByTakeOver ==
    ASSUME StreamTyped, StreamTyped', HubShape, HubShape', PumpsInOrder, Streams,
           NEW c, NEW old, NEW r, NEW ch, TakesOver(c, old, r, ch)
    PROVE  Streams'
<1>0. /\ c \in Conns /\ old \in byConnection /\ phase[old] = "finished" /\ c # old
      /\ phase'[c] = "built" /\ connectionID'[c] = r.id
      /\ requests' \subseteq requests /\ byConnection' = byConnection \ {old}
      /\ UNCHANGED <<writer, queue, deadQueue, deadQueuePointer, clientVars, linkUp, net, eventVars>>
      /\ \A d \in Conns : d # c => UNCHANGED <<phase[d], connectionID[d], send[d], reuseCount[d], Sequence[d]>>
  BY DEF TakesOver
<1>1. ViewKept /\ conn' = conn /\ linkUp' = linkUp /\ net' = net /\ produced' = produced
  BY <1>0 DEF ViewKept, clientVars, eventVars
<1>2. ASSUME NEW id \in ConnIds, id # r.id PROVE Quiet(id)
  <2>1. InNet(id)' => InNet(id) /\ net' = net
    <3> SUFFICES ASSUME InNet(id)' PROVE InNet(id)
      BY <1>1
    <3>1. linkUp /\ conn # NoConn /\ phase'[conn] # "free" /\ connectionID'[conn] = id /\ conn \in Conns
      BY <1>1 DEF InNet, StreamTyped
    <3> QED BY <1>0, <1>2, <3>1 DEF InNet
  <2> QED BY <1>1, <2>1, QuietWhen
<1>3. ASSUME NEW d \in Hub!Owners', d # c PROVE Undisturbed(d)
  <2>1. d \in Conns /\ d \in Hub!Owners
    BY <1>0, <1>3 DEF Hub!Owners, HubShape
  <2>2. UNCHANGED <<phase[d], connectionID[d], send[d], reuseCount[d], Sequence[d]>>
    BY <1>0, <1>3, <2>1
  <2>3. LinkUp(d)' => LinkUp(d) /\ net' = net
    BY <1>1 DEF LinkUp
  <2>4. Live(d)' => Live(d)
    <3>1. phase'[d] = phase[d] /\ reuseCount'[d] = reuseCount[d] /\ byConnection' \subseteq byConnection
      BY <1>0, <2>2
    <3> QED BY <3>1 DEF Live
  <2>5. UNCHANGED <<connectionID[d], send[d], Sequence[d], reuseCount[d], deadQueue, deadQueuePointer, queue>>
    BY <1>0, <2>2
  <2>6. /\ phase'[d] = "built" => phase[d] = "built"
        /\ writer'[d] \in {writer[d], "done"} \/ (writer[d] = "idle" /\ writer'[d] = "start")
    BY <1>0, <2>2
  <2> QED BY <1>0, <1>1, <2>1, <2>3, <2>4, <2>5, <2>6, UndisturbedWhen
<1>4. Served(c)' /\ c \in Hub!Owners'
  <2>1. Served(c)'
    BY TakenOverNumbers
  <2> QED BY <1>0, <2>1 DEF Hub!Owners
<1> QED BY <1>0, <1>2, <1>3, <1>4, OwnerServed

\* A request is accepted.
LEMMA StreamsKeptByAccept ==
    ASSUME StreamTyped, StreamTyped', HubShape, HubShape', PumpsInOrder, RequestsInOrder, Streams,
           NEW r \in requests, Accept(r)
    PROVE  Streams'
<1>0. requests' = requests \ {r} /\ UNCHANGED <<clientVars, linkUp, net, faults, eventVars>>
  BY DEF Accept
<1>1. ASSUME NEW id \in FreshIds, Hub!ConnectFresh(r.conn, User, id),
             Sequence' = [Sequence EXCEPT ![r.conn] = 0],
             deadQueue' = [deadQueue EXCEPT ![send'[r.conn]] = DQ!EmptyQueue],
             deadQueuePointer' = [deadQueuePointer EXCEPT ![send'[r.conn]] = 0]
      PROVE  Streams'
  <2>1. PICK ch : Opens(r.conn, id, ch)
    BY <1>0, <1>1, Opening
  <2> QED BY <2>1, StreamsKeptByOpening
<1>2. ASSUME Hub!ConnectReuse(r.conn, User, r.id), Sequence' = [Sequence EXCEPT ![r.conn] = r.seq],
             UNCHANGED <<deadQueue, deadQueuePointer>>
      PROVE  Streams'
  <2>1. PICK old, ch : TakesOver(r.conn, old, r, ch)
    BY <1>0, <1>2, TakingOver
  <2> QED BY <2>1, StreamsKeptByTakeOver
<1>3. \/ /\ \E id \in FreshIds : Hub!ConnectFresh(r.conn, User, id)
         /\ Sequence' = [Sequence EXCEPT ![r.conn] = 0]
         /\ deadQueue' = [deadQueue EXCEPT ![send'[r.conn]] = DQ!EmptyQueue]
         /\ deadQueuePointer' = [deadQueuePointer EXCEPT ![send'[r.conn]] = 0]
      \/ /\ Hub!ConnectReuse(r.conn, User, r.id)
         /\ Sequence' = [Sequence EXCEPT ![r.conn] = r.seq]
         /\ UNCHANGED <<deadQueue, deadQueuePointer>>
  BY DEF Accept, Hub!ConnectNotFound
<1> QED BY <1>1, <1>2, <1>3

\* The hub greets a connection with a stream of its own.
Greets(c, id, ch) ==
    /\ id \in ConnIds /\ ch \in Channels /\ c \in Hub!Owners /\ id = connectionID[c] /\ ch = send[c]
    /\ phase[c] = "built" /\ reuseCount[c] = 0 /\ phase' = [phase EXCEPT ![c] = "registered"]
    /\ byConnection' = byConnection \cup {c}
    /\ queue' = [queue EXCEPT ![ch] = Append(@, Hub!Hello(id))]
    /\ loaded' = [loaded EXCEPT ![id] = produced]
    /\ UNCHANGED <<writer, connectionID, send, reuseCount, streamVars, clientVars, netVars,
                   produced, seen, delivered, excusedVars>>

\* What registering a connection with a new channel changes, if its session lasts.
LEMMA Greeting ==
    ASSUME HubShape, NEW c \in Conns, Register(c), reuseCount[c] = 0, c \notin lapsed',
           NEW id, id = connectionID[c], NEW ch, ch = send[c]
    PROVE  Greets(c, id, ch)
<1>1. /\ phase[c] = "built" /\ phase' = [phase EXCEPT ![c] = "registered"]
      /\ byConnection' = byConnection \cup {c}
      /\ queue' = [queue EXCEPT ![ch] = Append(@, Hub!Hello(id))]
      /\ UNCHANGED <<writer, connectionID, send, reuseCount>>
  <2>1. /\ phase[c] = "built" /\ phase' = [phase EXCEPT ![c] = "registered"]
        /\ Hub!Register(c, UserId[c]) /\ UNCHANGED <<writer, connectionID, send, reuseCount>>
    BY DEF Register, Hub!HandlerRegister
  <2>2. Hub!Greet(c) /\ byConnection' = byConnection \cup {c}
    BY <2>1 DEF Hub!Register, Hub!IndexAdd
  <2>3. queue' = [queue EXCEPT ![ch] = Append(@, Hub!Hello(id))]
    BY <2>2 DEF Hub!Greet
  <2> QED BY <2>1, <2>2, <2>3
<1>2. /\ loaded' = [loaded EXCEPT ![id] = produced]
      /\ UNCHANGED <<streamVars, clientVars, netVars, produced, seen, delivered, excusedVars>>
  BY DEF Register
<1>3. c \in Hub!Owners /\ id \in ConnIds /\ ch \in Channels
  <2>1. c \in Hub!Owners
    BY <1>1, OwnerFacts
  <2> QED BY <2>1, OwnerFacts
<1> QED BY <1>1, <1>2, <1>3 DEF Greets

\* The numbers of a connection that the hub greets.
LEMMA GreetedNumbers ==
    ASSUME StreamTyped, HubShape, HubShape', PumpsInOrder, ClientInOrder, Streams, NEW c \in Conns,
           NEW id, NEW ch, Greets(c, id, ch)
    PROVE  Served(c)'
<1>0. /\ id \in ConnIds /\ ch \in Channels /\ c \in Hub!Owners /\ id = connectionID[c] /\ ch = send[c]
      /\ phase[c] = "built" /\ reuseCount[c] = 0 /\ phase' = [phase EXCEPT ![c] = "registered"]
      /\ queue' = [queue EXCEPT ![ch] = Append(@, Hub!Hello(id))]
      /\ loaded' = [loaded EXCEPT ![id] = produced]
      /\ UNCHANGED <<writer, connectionID, send, reuseCount, streamVars, clientVars, netVars,
                     produced, seen, delivered, excusedVars>>
  BY DEF Greets
<1>1. PICK at \in Numbers, rec \in [Nat -> Records] : \E t, m \in Nat : Owns(c, at, rec, t, m)
  BY <1>0 DEF Streams, Served
<1>2. PICK t \in Nat, m \in Nat : Owns(c, at, rec, t, m)
  BY <1>1
<1>3. connectionID'[c] = id /\ send'[c] = ch /\ phase'[c] = "registered"
  BY <1>0 DEF HubShape
<1>4. NumbersView(c, rec, t, m)'
  <2>1. NumbersView(c, rec, t, m)
    BY <1>2 DEF Owns
  <2> QED BY <1>0, <2>1 DEF NumbersView, streamVars, netVars
<1>5. ASSUME Relevant(id)' PROVE Stream(at, id, m)' /\ Content(c, at, rec, t, m)'
  <2>1. InNet(id)' <=> InNet(id)
    <3>1. phase' \in [Conns -> {"free", "built", "registered", "pumping", "readDone", "finished"}]
      BY DEF HubShape
    <3>2. \A d \in Conns : phase'[d] # "free" <=> phase[d] # "free"
      BY <1>0 DEF HubShape
    <3>3. conn \in Conns \cup {NoConn}
      BY DEF StreamTyped
    <3> QED BY <1>0, <3>2, <3>3 DEF InNet, clientVars, netVars
  <2>2. Relevant(id)
    BY <1>0, <1>5, <2>1 DEF Relevant, clientVars
  <2>3. Stream(at, id, m) /\ Content(c, at, rec, t, m)
    BY <1>0, <1>2, <2>2 DEF Owns
  <2>4. m = 0 /\ t = 0 /\ queue[ch] = <<>> /\ Sequence[c] = 0
    BY <1>0, <2>3 DEF Content
  <2>5. Expected(id) = 0
    <3>1. Expected(id) <= m /\ Expected(id) \in Nat
      BY <2>3, Bounds DEF Stream
    <3> QED BY <2>4, <3>1
  <2>6. id # connectionId
    <3>1. id # NoId
      BY <1>0
    <3> QED BY <2>5, <3>1 DEF Expected, ClientInOrder
  <2>7. Expected(id)' = 0 /\ Latest' = Latest /\ produced' = produced /\ net' = net
    BY <1>0, <2>6 DEF Expected, Latest, clientVars, netVars
  <2>8. 1 .. produced \subseteq Base(id)'
    <3>1. loaded'[id] = produced
      BY <1>0 DEF StreamTyped
    <3> QED BY <1>0, <2>6, <3>1 DEF Base, clientVars, excusedVars
  <2> PICK B, lo, hi : B = Base(id)' /\ lo = Latest /\ hi = produced
    OBVIOUS
  <2>9. /\ Ordered(at, 0, 0, lo, hi) /\ GapFree(at, 0, 0, B)
        /\ Ordered(at, 0, 1, lo, hi) /\ GapFree(at, 0, 1, B)
    <3>1. Lacking(0, 0) = {} /\ Lacking(0, 1) = {}
      BY DEF Lacking
    <3> QED BY <3>1 DEF Ordered, GapFree
  <2>10. Covered(at, 0, 1, B, hi)
    <3>1. hi \in Nat /\ 1 .. hi \subseteq B /\ 0 \in Nat /\ 1 \in Nat
      BY <2>8, Bounds
    <3> QED BY <3>1, Loaded
  <2>11. Stream(at, id, m)'
    <3>1. InNet(id)' => Carries(at, id, 0, 0, net)
      BY <2>1, <2>3, <2>4, <2>5 DEF Stream
    <3> QED BY <2>4, <2>7, <2>9, <3>1 DEF Stream
  <2>12. queue'[ch] = Append(<<>>, Hub!Hello(id))
    BY <1>0, <2>4 DEF HubShape
  <2>13. Len(Append(<<>>, Hub!Hello(id))) = 1 /\ Append(<<>>, Hub!Hello(id))[1] = Hub!Hello(id)
    OBVIOUS
  <2>14. Queued(at, id, 0, Append(<<>>, Hub!Hello(id)))
    <3>1. \A j \in 1 .. 1 : j = 1 /\ 0 + (j - 1) = 0
      OBVIOUS
    <3>2. Msg(at, id, 0) = Hub!Hello(id)
      BY MessageTypes
    <3> QED BY <2>13, <3>1, <3>2 DEF Queued
  <2>15. End(c, 0)' = 1
    BY <1>3, <2>12, <2>13 DEF End
  <2>16. LinkUp(c)' => Link(writer'[c], Sequence'[c], 0, net, 0, 0)
    <3>1. LinkUp(c)' => LinkUp(c)
      BY <1>0 DEF LinkUp, clientVars, netVars
    <3>2. LinkUp(c) => Link(writer[c], Sequence[c], 0, net, 0, 0)
      BY <1>0, <2>3, <2>4, <2>5 DEF Content
    <3> QED BY <1>0, <3>1, <3>2 DEF streamVars
  <2>17. InNet(id)' => 0 + Len(net) <= 0
    BY <1>0, <2>1, <2>3, <2>4, <2>5 DEF Content
  <2>18. Recorded(at, id, rec, 0, 0) /\ Sequence'[c] = 0
    BY <1>0, <2>4, NothingYet DEF streamVars
  <2>19. 1 >= 1
    OBVIOUS
  <2>20. Content(c, at, rec, t, m)'
    BY <1>3, <2>4, <2>7, <2>9, <2>10, <2>12, <2>14, <2>15, <2>16, <2>17, <2>18, <2>19 DEF Content
  <2> QED BY <2>11, <2>20
<1>6. Owns(c, at, rec, t, m)'
  BY <1>3, <1>4, <1>5 DEF Owns
<1> QED BY <1>6 DEF Served

\* A connection with a new channel is registered and greeted.
LEMMA StreamsKeptByGreeting ==
    ASSUME StreamTyped, StreamTyped', HubShape, HubShape', PumpsInOrder, ClientInOrder, Streams, NEW c \in Conns,
           Register(c), reuseCount[c] = 0, c \notin lapsed'
    PROVE  Streams'
<1> PICK id0, ch : id0 = connectionID[c] /\ ch = send[c]
  OBVIOUS
<1>g. Greets(c, id0, ch)
  BY Greeting
<1>0. /\ id0 \in ConnIds /\ ch \in Channels /\ c \in Hub!Owners
      /\ phase[c] = "built" /\ phase' = [phase EXCEPT ![c] = "registered"]
      /\ byConnection' = byConnection \cup {c}
      /\ queue' = [queue EXCEPT ![ch] = Append(@, Hub!Hello(id0))]
      /\ loaded' = [loaded EXCEPT ![id0] = produced]
      /\ UNCHANGED <<writer, connectionID, send, reuseCount, streamVars, clientVars, netVars,
                     produced, seen, delivered, excusedVars>>
  BY <1>g DEF Greets
<1>1. connectionID'[c] = id0
  BY <1>0
<1>2. \A d \in Conns : (phase'[d] # "free" <=> phase[d] # "free") /\ (d # c => phase'[d] = phase[d])
  BY <1>0 DEF HubShape
<1>3. phase'[c] = "registered"
  BY <1>0 DEF HubShape
<1>4. ASSUME NEW id \in ConnIds, id # id0 PROVE Quiet(id)
  <2>1. InNet(id)' <=> InNet(id)
    <3>1. conn \in Conns \cup {NoConn}
      BY DEF StreamTyped
    <3> QED BY <1>0, <1>2, <3>1 DEF InNet, clientVars, netVars
  <2>2. loaded'[id] = loaded[id]
    BY <1>0, <1>4 DEF StreamTyped
  <2>3. Base(id)' = Base(id)
    BY <1>0, <2>2 DEF Base, clientVars, excusedVars
  <2>4. Expected(id)' = Expected(id) /\ Latest' = Latest /\ net' = net /\ produced' = produced
    BY <1>0 DEF Expected, Latest, clientVars, netVars
  <2>5. produced <= produced
    BY Bounds
  <2>6. Relevant(id)' => Relevant(id)
    BY <1>0, <2>1 DEF Relevant, clientVars
  <2> QED BY <2>1, <2>3, <2>4, <2>5, <2>6 DEF Quiet
<1>5. ASSUME NEW d \in Hub!Owners', d # c PROVE Undisturbed(d)
  <2>1. d \in Conns /\ d \in Hub!Owners
    BY <1>0, <1>2, <1>5 DEF Hub!Owners, HubShape
  <2>2. send[d] # ch /\ send[d] \in Channels
    BY <1>0, <1>5, <1>g, <2>1, OwnerFacts DEF HubShape, Greets
  <2>3. queue'[send[d]] = queue[send[d]]
    BY <1>0, <2>2 DEF HubShape
  <2>4. LinkUp(d)' => LinkUp(d) /\ net' = net
    BY <1>0 DEF LinkUp, clientVars, netVars
  <2>5. Live(d)' => Live(d) /\ \A n \in Nat : produced < n /\ n <= produced' => n \in Base(connectionID[d])'
    <3>1. \A n \in Nat : ~ (produced < n /\ n <= produced')
      BY <1>0, Bounds
    <3>2. phase'[d] = phase[d] /\ (d \in byConnection' <=> d \in byConnection)
      BY <1>0, <1>2, <1>5, <2>1
    <3> QED BY <1>0, <3>1, <3>2 DEF Live
  <2>6. UNCHANGED <<connectionID[d], send[d], Sequence[d], reuseCount[d]>>
        /\ deadQueue'[send[d]] = deadQueue[send[d]] /\ deadQueuePointer'[send[d]] = deadQueuePointer[send[d]]
    BY <1>0 DEF streamVars
  <2>7. /\ phase'[d] = "built" => phase[d] = "built"
        /\ writer'[d] \in {writer[d], "done"}
        /\ requests' = requests
    BY <1>0, <1>2, <1>5, <2>1 DEF netVars
  <2> QED BY <2>1, <2>3, <2>4, <2>5, <2>6, <2>7 DEF Undisturbed
<1>6. Served(c)' /\ c \in Hub!Owners'
  <2>1. Served(c)'
    BY <1>g, GreetedNumbers
  <2> QED BY <1>3, <2>1 DEF Hub!Owners
<1> QED BY <1>1, <1>4, <1>5, <1>6, OwnerServed

-----------------------------------------------------------------------------
(* An event is produced. *)

\* The connections of fed get event k; the others leave the index, or k is excused.
Produces(k, fed) ==
    /\ k = produced + 1 /\ produced' = k /\ k \in 1 .. MaxEvents
    /\ fed \subseteq byConnection \ lapsed
    /\ \A d \in fed : queue'[send[d]] = Append(queue[send[d]], Event(k))
    /\ \A d \in Hub!Owners : d \notin fed => queue'[send[d]] = queue[send[d]]
    /\ \A d \in byConnection' : d \in fed \/ k \in skipped' \cup unchecked'
    /\ byConnection' \subseteq byConnection
    /\ dropped \subseteq dropped' /\ (HandingOver => k \in dropped')
    /\ skipped \subseteq skipped' /\ unchecked \subseteq unchecked'
    /\ UNCHANGED <<phase, writer, connectionID, send, reuseCount, lapsed, streamVars, clientVars, netVars,
                   seen, delivered, unencodable, loaded>>

\* What a broadcast changes.
LEMMA Producing == ASSUME StreamTyped, HubShape, Broadcast PROVE \E fed : Produces(produced + 1, fed)
<1> PICK k : k = produced + 1
  OBVIOUS
<1>1. PICK F \in SUBSET byConnection :
      /\ produced < MaxEvents /\ produced' = k /\ Hub!Broadcast(byConnection, F, Event(k))
      /\ dropped' = IF HandingOver THEN dropped \cup {k} ELSE dropped
      /\ skipped' = IF \E c \in byConnection \ lapsed : ~ Hub!ShouldSendEvent(c, Event(k))
                    THEN skipped \cup {k} ELSE skipped
      /\ unchecked' = IF F \cup (byConnection \cap lapsed) # {} THEN unchecked \cup {k} ELSE unchecked
      /\ UNCHANGED <<streamVars, clientVars, netVars, seen, delivered, unencodable, loaded>>
  BY DEF Broadcast, Hub!ForUser, HubShape
<1>2. produced \in Nat /\ MaxEvents \in Nat /\ k \in 1 .. MaxEvents
  BY <1>1 DEF StreamTyped
<1> PICK T : T = {c \in (byConnection \ F) \cap byConnection : Hub!ShouldSendEvent(c, Event(k))} \cap byConnection
  OBVIOUS
<1>3. T = {c \in byConnection \ F : Hub!ShouldSendEvent(c, Event(k))}
  OBVIOUS
<1> PICK full : full = {c \in T : Len(queue[send[c]]) >= sendQueueSize}
  OBVIOUS
<1> PICK fed : fed = T \ full
  OBVIOUS
<1> PICK served : served = {send[c] : c \in fed}
  OBVIOUS
<1>4. /\ queue' = [ch \in Channels |-> IF ch \in served THEN Append(queue[ch], Event(k)) ELSE queue[ch]]
      /\ Hub!IndexRemove(full)
      /\ UNCHANGED <<phase, writer, connectionID, send, reuseCount, lapsed>>
  <2>1. Hub!Enqueue({c \in (byConnection \ F) \cap byConnection : Hub!ShouldSendEvent(c, Event(k))}, Event(k))
        /\ UNCHANGED <<phase, writer, connectionID, send, reuseCount, lapsed>>
    BY <1>1 DEF Hub!Broadcast, Hub!pumpVars, Hub!identVars
  <2> QED BY <2>1 DEF Hub!Enqueue
<1>5. byConnection' = byConnection \ full
  BY <1>3, <1>4 DEF Hub!IndexRemove
<1>6. fed \subseteq byConnection \ lapsed
  BY <1>3 DEF Hub!ShouldSendEvent
<1>7. \A d \in Hub!Owners : send[d] \in Channels /\ (send[d] \in served <=> d \in fed)
  <2> SUFFICES ASSUME NEW d \in Hub!Owners PROVE send[d] \in Channels /\ (send[d] \in served <=> d \in fed)
    OBVIOUS
  <2>1. send[d] \in Channels
    BY OwnerFacts
  <2>2. ASSUME send[d] \in served PROVE d \in fed
    <3>1. PICK c \in fed : send[d] = send[c]
      BY <2>2
    <3>2. c \in Hub!Owners
      BY <1>6, <3>1, OwnerFacts
    <3>3. c = d
      BY <3>1, <3>2 DEF HubShape
    <3> QED BY <3>1, <3>3
  <2>3. d \in fed => send[d] \in served
    OBVIOUS
  <2> QED BY <2>1, <2>2, <2>3
<1>8. /\ \A d \in fed : queue'[send[d]] = Append(queue[send[d]], Event(k))
      /\ \A d \in Hub!Owners : d \notin fed => queue'[send[d]] = queue[send[d]]
  BY <1>4, <1>6, <1>7, OwnerFacts
<1>9. byConnection' \subseteq byConnection /\ \A d \in byConnection' : d \in fed \/ k \in skipped' \cup unchecked'
  <2> SUFFICES ASSUME NEW d \in byConnection', d \notin fed PROVE k \in skipped' \cup unchecked'
    BY <1>5
  <2>1. d \in byConnection /\ d \notin T
    BY <1>5
  <2>2. CASE d \in F \/ d \in lapsed
    <3>1. F \cup (byConnection \cap lapsed) # {}
      BY <2>1, <2>2
    <3> QED BY <1>1, <3>1
  <2>3. CASE d \notin F /\ d \notin lapsed
    <3>1. ~ Hub!ShouldSendEvent(d, Event(k))
      BY <1>3, <2>1, <2>3
    <3>2. \E c \in byConnection \ lapsed : ~ Hub!ShouldSendEvent(c, Event(k))
      BY <2>1, <2>3, <3>1
    <3> QED BY <1>1, <3>2
  <2> QED BY <2>2, <2>3
<1>10. /\ dropped \subseteq dropped' /\ (HandingOver => k \in dropped')
       /\ skipped \subseteq skipped' /\ unchecked \subseteq unchecked'
  BY <1>1
<1>11. Produces(k, fed)
  BY <1>1, <1>2, <1>4, <1>6, <1>8, <1>9, <1>10 DEF Produces
<1> QED BY <1>11

\* The numbers of an owner that gets the event.
LEMMA FedServed ==
    ASSUME StreamTyped, StreamTyped', HubShape, ClientInOrder, Streams, HelloSent,
           NEW k, NEW fed, Produces(k, fed),
           NEW d \in fed, NEW id, id = connectionID[d], Quiet(id)
    PROVE  Served(d)'
<1> PICK ch, q : ch = send[d] /\ q = queue[ch]
  OBVIOUS
<1>0. /\ k = produced + 1 /\ produced' = k /\ k \in 1 .. MaxEvents
      /\ queue'[ch] = Append(q, Event(k)) /\ d \in byConnection /\ d \notin lapsed /\ d \in Hub!Owners
      /\ UNCHANGED <<phase, writer, connectionID, send, reuseCount, streamVars, clientVars, netVars>>
  BY OwnerFacts DEF Produces
<1>1. /\ ch \in Channels /\ id \in ConnIds /\ d \in Conns /\ q \in Seq(Hub!Messages) /\ Len(q) \in Nat
      /\ connectionID'[d] = id /\ send'[d] = ch
  BY <1>0, OwnerFacts, SequenceParts DEF HubShape
<1>2. PICK at \in Numbers, rec \in [Nat -> Records] : \E t, m \in Nat : Owns(d, at, rec, t, m)
  BY <1>0 DEF Streams, Served
<1>3. PICK t \in Nat, m \in Nat : Owns(d, at, rec, t, m)
  BY <1>2
<1>4. NumbersView(d, rec, t, m)'
  <2>1. NumbersView(d, rec, t, m)
    BY <1>3 DEF Owns
  <2> QED BY <1>0, <2>1 DEF NumbersView, streamVars, netVars
<1>5. CASE ~ Relevant(id)'
  <2>1. Owns(d, at, rec, t, m)'
    BY <1>1, <1>4, <1>5 DEF Owns
  <2> QED BY <2>1 DEF Served
<1>6. CASE Relevant(id)'
  <2>1. /\ Relevant(id) /\ Expected(id)' = Expected(id) /\ Base(id) \subseteq Base(id)' /\ Latest' = Latest
        /\ InNet(id)' => InNet(id) /\ net' = net
    BY <1>6 DEF Quiet
  <2>2. Stream(at, id, m) /\ Content(d, at, rec, t, m)
    BY <1>3, <2>1 DEF Owns
  <2> PICK E, lo, hi, B, C :
         E \in Nat /\ lo \in Nat /\ hi \in Nat /\ E = Expected(id) /\ lo = Latest
         /\ hi = produced /\ B = Base(id) /\ C = Base(id)'
    BY Bounds
  <2> PICK e \in Nat : e = m + Len(q)
    BY <1>1
  <2>3. /\ E <= m /\ Ordered(at, E, m, lo, hi) /\ GapFree(at, E, m, B)
        /\ InNet(id) => Carries(at, id, E, m, net)
    BY <2>2 DEF Stream
  <2>4. Live(d) /\ lo <= hi
    BY <1>0 DEF Live, ClientInOrder
  <2>5. /\ m = 0 => t = 0 /\ Sequence[d] = 0
        /\ Recorded(at, id, rec, t, m) /\ Queued(at, id, m, q)
        /\ LinkUp(d) => Link(writer[d], Sequence[d], E, net, t, m)
        /\ InNet(id) /\ t = m => E + Len(net) <= m
        /\ e >= 1
        /\ Ordered(at, E, e, lo, hi)
        /\ t = m => GapFree(at, E, e, B) /\ Covered(at, E, e, B, hi)
    <3>1. m = 0 => Sequence[d] = 0
      BY <2>2 DEF Content
    <3>2. Sequence[d] # 0 \/ q # <<>>
      BY <1>0 DEF HelloSent
    <3>3. e >= 1
      BY <1>1, <3>1, <3>2
    <3> QED BY <2>2, <2>4, <3>3 DEF Content, End
  <2>6. e \in Nat \ {0} /\ E <= e /\ m <= e
    BY <1>1, <2>3, <2>5
  <2>7. PICK b \in Numbers :
          /\ Ordered(b, E, e + 1, lo, hi + 1)
          /\ t = m => GapFree(b, E, e + 1, B) /\ Covered(b, E, e + 1, B, hi + 1)
          /\ \A x \in Nat : x < m => b[x] = at[x]
          /\ Queued(b, id, m, Append(q, Event(k)))
    <3>b. PICK c : c = [at EXCEPT ![e] = hi + 1]
      OBVIOUS
    <3>1. /\ c \in Numbers
          /\ Ordered(at, E, e, lo, hi) => Ordered(c, E, e + 1, lo, hi + 1)
          /\ GapFree(at, E, e, B) /\ Covered(at, E, e, B, hi) => GapFree(c, E, e + 1, B)
          /\ Covered(at, E, e, B, hi) => Covered(c, E, e + 1, B, hi + 1)
      BY <2>4, <2>6, <3>b, Extended
    <3>2. \A x \in Nat : x # e => c[x] = at[x]
      BY <2>6, <3>b DEF Numbers
    <3>3. \A x \in Nat : x < m => x # e
      BY <2>6
    <3>4. Queued(c, id, m, Append(q, Event(k)))
      <4>1. Event(k) \in Hub!Messages /\ k \in Nat /\ k = hi + 1
        BY <1>0, EventsOf
      <4>2. m + Len(q) >= 1 /\ Queued(at, id, m, q)
        BY <2>5
      <4>3. Queued([at EXCEPT ![m + Len(q)] = k], id, m, Append(q, Event(k)))
        BY <1>1, <4>1, <4>2, QueueGrown
      <4> QED BY <3>b, <4>1, <4>3
    <3>5. \A x \in Nat : x < m => c[x] = at[x]
      BY <3>2, <3>3
    <3> QED BY <2>5, <3>1, <3>4, <3>5
  <2>t. b \in Numbers
    OBVIOUS
  <2>8. \A x \in Nat : x < m => b[x] = at[x]
    BY <2>7
  <2>9. Ordered(b, E, m, lo, hi) /\ GapFree(b, E, m, B)
    <3>1. /\ Ordered(at, E, m, lo, hi) => Ordered(b, E, m, lo, hi)
          /\ GapFree(at, E, m, B) => GapFree(b, E, m, B)
      BY <2>6, <2>t, <2>8, Agreeing
    <3> QED BY <2>3, <3>1
  <2>10. hi + 1 \in Nat /\ hi <= hi + 1 /\ e + 1 \in Nat /\ hi + 1 = produced' /\ B \subseteq C
    BY <1>0, <2>1
  <2>11. Ordered(b, E, m, lo, hi + 1) /\ GapFree(b, E, m, C)
    <3>1. /\ Ordered(b, E, m, lo, hi) => Ordered(b, E, m, lo, hi + 1)
          /\ GapFree(b, E, m, B) => GapFree(b, E, m, C)
      BY <2>7, <2>10, Grown
    <3> QED BY <2>9, <3>1
  <2>12. t = m => GapFree(b, E, e + 1, C) /\ Covered(b, E, e + 1, C, hi + 1)
    <3>1. /\ GapFree(b, E, e + 1, B) => GapFree(b, E, e + 1, C)
          /\ \A n : Covered(b, E, e + 1, B, n) => Covered(b, E, e + 1, C, n)
      BY <2>7, <2>10, Grown
    <3> QED BY <2>7, <3>1
  <2>13. /\ \A s : Carries(at, id, E, m, s) => Carries(b, id, E, m, s)
         /\ Recorded(b, id, rec, t, m)
    <3>1. /\ \A s : Carries(at, id, E, m, s) => Carries(b, id, E, m, s)
          /\ Recorded(at, id, rec, t, m) => Recorded(b, id, rec, t, m)
      BY <1>1, <2>t, <2>8, WrittenAlike
    <3>2. Recorded(at, id, rec, t, m)
      BY <2>5
    <3> QED BY <3>1, <3>2
  <2>14. Queued(b, id, m, Append(q, Event(k)))
    BY <2>7
  <2>15. Stream(b, id, m)'
    <3>1. InNet(id)' => Carries(b, id, E, m, net')
      BY <2>1, <2>3, <2>13
    <3> QED BY <2>1, <2>3, <2>10, <2>11, <3>1 DEF Stream
  <2>16. End(d, m)' = e + 1
    <3>1. Len(Append(q, Event(k))) = Len(q) + 1
      BY <1>1
    <3>2. m + (Len(q) + 1) = e + 1
      BY <1>1
    <3> QED BY <1>0, <1>1, <3>1, <3>2 DEF End
  <2>17. phase'[d] # "built" /\ e + 1 >= 1
    BY <1>0 DEF HubShape
  <2>18. LinkUp(d)' => Link(writer'[d], Sequence'[d], E, net', t, m)
    BY <1>0, <2>5 DEF LinkUp, clientVars, netVars, streamVars
  <2>19. InNet(id)' /\ t = m => E + Len(net') <= m
    BY <2>1, <2>5
  <2>20. Sequence'[d] = Sequence[d]
    BY <1>0 DEF streamVars
  <2>21. Content(d, b, rec, t, m)'
    BY <1>0, <1>1, <2>1, <2>5, <2>7, <2>10, <2>12, <2>13, <2>14, <2>16, <2>17, <2>18, <2>19, <2>20 DEF Content
  <2>22. Owns(d, b, rec, t, m)'
    BY <1>1, <1>4, <2>15, <2>21 DEF Owns
  <2> QED BY <2>7, <2>22 DEF Served
<1> QED BY <1>5, <1>6

\* The hub broadcasts an event to the user.
LEMMA StreamsKeptByBroadcast ==
    ASSUME StreamTyped, StreamTyped', HubShape, ClientInOrder, Streams, HelloSent, Broadcast
    PROVE  Streams'
<1> PICK k : k = produced + 1
  OBVIOUS
<1>p. PICK fed : Produces(k, fed)
  BY Producing
<1>0. /\ produced' = k /\ produced \in Nat
      /\ \A d \in Hub!Owners : d \notin fed => queue'[send[d]] = queue[send[d]]
      /\ \A d \in byConnection' : d \in fed \/ k \in skipped' \cup unchecked'
      /\ byConnection' \subseteq byConnection
      /\ dropped \subseteq dropped' /\ (HandingOver => k \in dropped')
      /\ skipped \subseteq skipped' /\ unchecked \subseteq unchecked'
      /\ UNCHANGED <<phase, writer, connectionID, send, reuseCount, streamVars, clientVars, netVars,
                     seen, delivered, unencodable, loaded>>
  BY <1>p, Bounds DEF Produces
<1>1. ASSUME NEW id \in ConnIds PROVE Quiet(id)
  <2>1. (InNet(id)' <=> InNet(id)) /\ (Relevant(id)' <=> Relevant(id)) /\ Expected(id)' = Expected(id)
        /\ Latest' = Latest /\ net' = net
    BY <1>0 DEF InNet, Relevant, Expected, Latest, clientVars, netVars
  <2>2. produced <= produced'
    BY <1>0
  <2>3. Base(id) \subseteq Base(id)'
    <3>1. 1 .. produced \subseteq 1 .. produced'
      BY <1>0
    <3> QED BY <1>0, <3>1 DEF Base, clientVars
  <2> QED BY <2>1, <2>2, <2>3 DEF Quiet
<1>2. ASSUME NEW d \in Hub!Owners, d \notin fed PROVE Undisturbed(d)
  <2>1. queue'[send[d]] = queue[send[d]]
    BY <1>0, <1>2
  <2>2. (d \in byConnection' => k \in skipped' \cup unchecked') /\ d \in Conns
    BY <1>0, <1>2, OwnerFacts
  <2>3. Live(d)' => Live(d) /\ k \in Base(connectionID[d])'
    <3> SUFFICES ASSUME Live(d)' PROVE Live(d) /\ k \in Base(connectionID[d])'
      OBVIOUS
    <3>1. CASE d \in byConnection'
      BY <1>0, <2>2, <3>1 DEF Live, Base
    <3>2. CASE d \notin byConnection'
      <4>1. phase[d] = "built" /\ reuseCount[d] # 0
        BY <1>0, <3>2 DEF Live
      <4>2. k \in dropped'
        BY <1>0, <2>2, <4>1 DEF HandingOver
      <4> QED BY <4>1, <4>2 DEF Live, Base
    <3> QED BY <3>1, <3>2
  <2>4. \A n \in Nat : produced < n /\ n <= produced' => n = k
    BY <1>0
  <2>5. LinkUp(d)' => LinkUp(d) /\ net' = net
    BY <1>0 DEF LinkUp, clientVars, netVars
  <2>6. UNCHANGED <<connectionID[d], send[d], Sequence[d], reuseCount[d], phase[d], writer[d]>>
        /\ deadQueue'[send[d]] = deadQueue[send[d]] /\ deadQueuePointer'[send[d]] = deadQueuePointer[send[d]]
        /\ requests' = requests
    BY <1>0 DEF streamVars, netVars
  <2> QED BY <2>1, <2>3, <2>4, <2>5, <2>6 DEF Undisturbed
<1>3. ASSUME NEW d \in Hub!Owners' PROVE Served(d)'
  <2>1. d \in Hub!Owners
    BY <1>0, <1>3 DEF Hub!Owners
  <2> PICK id : id = connectionID[d]
    OBVIOUS
  <2>2. id \in ConnIds
    BY <2>1, OwnerFacts
  <2>3. Quiet(id)
    BY <1>1, <2>2
  <2>4. CASE d \in fed
    BY <1>p, <2>1, <2>3, <2>4, FedServed
  <2>5. CASE d \notin fed
    <3>1. Undisturbed(d)
      BY <1>2, <2>1, <2>5
    <3>2. PICK at \in Numbers, rec \in [Nat -> Records] : \E t, m \in Nat : Owns(d, at, rec, t, m)
      BY <2>1 DEF Streams, Served
    <3>3. PICK t \in Nat, m \in Nat : Owns(d, at, rec, t, m)
      BY <3>2
    <3>4. Owns(d, at, rec, t, m)'
      BY <2>3, <3>1, <3>3, KeptOwner
    <3> QED BY <3>4 DEF Served
  <2> QED BY <2>4, <2>5
<1>4. ASSUME NEW id \in ConnIds, Relevant(id)' PROVE Explained(id)'
  <2>1. Quiet(id) /\ Relevant(id)
    BY <1>1, <1>4 DEF Quiet
  <2>2. PICK at \in Numbers, m \in Nat : Stream(at, id, m)
    BY <2>1 DEF Streams, Explained
  <2>3. Stream(at, id, m)'
    BY <1>4, <2>1, <2>2, KeptStream
  <2> QED BY <2>3 DEF Explained
<1> QED BY <1>3, <1>4 DEF Streams

-----------------------------------------------------------------------------
(* The invariant is inductive. *)

\* Outside the client nothing is delivered, and nothing known is forgotten.
LEMMA KnownGrows ==
    ASSUME [Next]_vars, ~ Receive
    PROVE  /\ delivered' = delivered /\ produced' \in {produced, produced + 1}
           /\ seen \subseteq seen' /\ Abstract!Excused \subseteq Abstract!Excused'
<1> DEFINE Grow == /\ delivered' = delivered /\ produced' \in {produced, produced + 1}
                   /\ seen \subseteq seen' /\ Abstract!Excused \subseteq Abstract!Excused'
<1>1. ASSUME UNCHANGED eventVars \/ UNCHANGED <<produced, seen, delivered, excusedVars>> PROVE Grow
  BY <1>1 DEF eventVars, excusedVars, Abstract!Excused
<1>2. ASSUME NEW c \in Conns, Handler(c) PROVE UNCHANGED <<produced, seen, delivered, excusedVars>>
  BY <1>2 DEF Handler, Register, RegisterFails, Pump, ReadPumpEnds, SessionLapses, Unregister, eventVars
<1>3. ASSUME NEW c \in Conns, Writer(c), ~ EncodeError(c) PROVE UNCHANGED eventVars
  BY <1>3 DEF Writer, StartLossless, StartDraining, StartOver, Send, SeeClosed, StopWriting
<1>4. ASSUME NEW c \in Conns, Dial(c) \/ Reap(c) \/ Collect(c) PROVE UNCHANGED eventVars
  BY <1>4 DEF Dial, Reap, Collect
<1>5. ASSUME NEW r \in requests, Accept(r) \/ LoseRequest(r) PROVE UNCHANGED eventVars
  BY <1>5 DEF Accept, LoseRequest
<1>6. ASSUME Break \/ ClientCloses \/ InvalidateUserFails \/ Recover \/ UNCHANGED vars PROVE UNCHANGED eventVars
  BY <1>6 DEF Break, ClientCloses, InvalidateUserFails, Recover, vars
<1>7. ASSUME NEW c \in Conns, EncodeError(c) PROVE Grow
  BY <1>7 DEF EncodeError, Abstract!Excused
<1>8. ASSUME Broadcast PROVE Grow
  <2>1. /\ UNCHANGED <<seen, delivered, unencodable>> /\ produced' = produced + 1
        /\ dropped \subseteq dropped' /\ skipped \subseteq skipped' /\ unchecked \subseteq unchecked'
    BY <1>8 DEF Broadcast
  <2> QED BY <2>1 DEF Abstract!Excused
<1> QED BY <1>1, <1>2, <1>3, <1>4, <1>5, <1>6, <1>7, <1>8 DEF Next

\* Outside the client no gap opens.
LEMMA GapsKept ==
    ASSUME NoSilentGap, [Next]_vars, ~ Receive PROVE NoSilentGap'
<1>1. delivered' = delivered /\ seen \subseteq seen' /\ Abstract!Excused \subseteq Abstract!Excused'
  BY KnownGrows
<1>2. 1 .. Abstract!Latest(delivered') = 1 .. Abstract!Latest(delivered)
  BY <1>1
<1> QED BY <1>1, <1>2 DEF NoSilentGap

\* Every step of a connection keeps the streams in order,
LEMMA StreamsKeptByConnection ==
    ASSUME StreamTyped, StreamTyped', HubShape, HubShape', PumpsInOrder, ClientInOrder, Streams,
           NEW c \in Conns, Dial(c) \/ Handler(c) \/ Writer(c) \/ Reap(c) \/ Collect(c)
    PROVE  Streams'
<1>1. CASE Dial(c) \/ Collect(c)
  BY <1>1, StreamsKeptOutside
<1>2. CASE Register(c)
  <2>1. CASE reuseCount[c] = 0 /\ c \notin lapsed'
    BY <1>2, <2>1, StreamsKeptByGreeting
  <2>2. CASE reuseCount[c] # 0 \/ c \in lapsed'
    BY <1>2, <2>2, StreamsKeptByIndex
  <2> QED BY <2>1, <2>2
<1>3. CASE \/ RegisterFails(c) \/ Pump(c) \/ ReadPumpEnds(c) \/ SessionLapses(c) \/ Unregister(c)
           \/ SeeClosed(c) \/ StopWriting(c)
  BY <1>3, StreamsKeptByGoroutines
<1>4. CASE Reap(c)
  BY <1>4, StreamsKeptByIndex
<1>5. CASE StartLossless(c)
  BY <1>5, StreamsKeptByLossless
<1>6. CASE StartDraining(c)
  BY <1>6, StreamsKeptByDraining
<1>7. CASE StartOver(c)
  BY <1>7, StreamsKeptByRestart
<1>8. CASE Send(c)
  BY <1>8, StreamsKeptBySend
<1>9. CASE EncodeError(c)
  BY <1>9, StreamsKeptByError
<1> QED BY <1>1, <1>2, <1>3, <1>4, <1>5, <1>6, <1>7, <1>8, <1>9 DEF Handler, Writer

\* and so does every other, the client's reading aside.
LEMMA StreamsKeptByStep ==
    ASSUME StreamTyped, StreamTyped', HubShape, HubShape', PumpsInOrder, ClientInOrder, RequestsInOrder, Streams,
           HelloSent, [Next]_vars, ~ Receive
    PROVE  Streams'
<1>1. ASSUME NEW c \in Conns, Dial(c) \/ Handler(c) \/ Writer(c) \/ Reap(c) \/ Collect(c) PROVE Streams'
  BY <1>1, StreamsKeptByConnection
<1>2. ASSUME NEW r \in requests, Accept(r) PROVE Streams'
  BY <1>2, StreamsKeptByAccept
<1>3. ASSUME (\E r \in requests : LoseRequest(r)) \/ Break \/ ClientCloses \/ UNCHANGED vars PROVE Streams'
  BY <1>3, StreamsKeptOutside
<1>4. ASSUME InvalidateUserFails \/ Recover PROVE Streams'
  BY <1>4, StreamsKeptByIndex
<1>5. ASSUME Broadcast PROVE Streams'
  BY <1>5, StreamsKeptByBroadcast
<1> QED BY <1>1, <1>2, <1>3, <1>4, <1>5 DEF Next

\* What suffices for a connection to have its hello.
LEMMA HelloSentWhen ==
    ASSUME HelloSent,
           \A d \in byConnection' :
              \/ d \in lapsed' \/ Sequence'[d] # 0 \/ queue'[send'[d]] # <<>>
              \/ /\ d \in byConnection /\ (d \in lapsed => d \in lapsed')
                 /\ (Sequence[d] # 0 => Sequence'[d] # 0)
                 /\ (queue[send[d]] # <<>> => queue'[send'[d]] # <<>>),
           \A d \in Conns :
              phase'[d] = "built" /\ reuseCount'[d] # 0 =>
                 \/ Sequence'[d] # 0
                 \/ phase[d] = "built" /\ reuseCount[d] # 0 /\ Sequence'[d] = Sequence[d]
    PROVE  HelloSent'
BY DEF HelloSent

\* Steps that neither number, queue nor build anything.
LEMMA HelloSentQuiet ==
    ASSUME StreamTyped, HubShape, HelloSent,
           \/ \E c \in Conns : \/ Dial(c) \/ RegisterFails(c) \/ Pump(c) \/ ReadPumpEnds(c) \/ SessionLapses(c)
                               \/ Unregister(c) \/ StartLossless(c) \/ SeeClosed(c) \/ StopWriting(c) \/ Reap(c)
           \/ \E r \in requests : LoseRequest(r)
           \/ Break \/ ClientCloses \/ Receive \/ InvalidateUserFails \/ Recover \/ UNCHANGED vars
    PROVE  HelloSent'
<1>1. ASSUME NEW c \in Conns,
             \/ RegisterFails(c) \/ Pump(c) \/ ReadPumpEnds(c) \/ SessionLapses(c) \/ Unregister(c)
             \/ StartLossless(c) \/ SeeClosed(c) \/ StopWriting(c)
      PROVE  /\ UNCHANGED <<byConnection, send, reuseCount, queue, Sequence>> /\ lapsed \subseteq lapsed'
             /\ phase' = phase \/ \E p : phase' = [phase EXCEPT ![c] = p] /\ p # "built"
  <2>1. Sequence' = Sequence
    BY <1>1 DEF RegisterFails, Pump, ReadPumpEnds, SessionLapses, Unregister, StartLossless, SeeClosed, StopWriting,
                streamVars
  <2>2. /\ UNCHANGED <<byConnection, send, reuseCount, queue>> /\ lapsed \subseteq lapsed'
        /\ phase' = phase \/ \E p : phase' = [phase EXCEPT ![c] = p] /\ p # "built"
    BY <1>1 DEF RegisterFails, Pump, ReadPumpEnds, SessionLapses, Unregister, StartLossless, SeeClosed, StopWriting,
                Hub!HandlerRegisterFails, Hub!Pump, Hub!ReadPumpEnds, Hub!SessionLapses, Hub!Unregister,
                Hub!WriterResumes, Hub!WriterSeesClosed, Hub!WriterStops, Hub!WriterDone,
                Hub!indexVars, Hub!pumpVars, Hub!identVars, Hub!chanVars
  <2> QED BY <2>1, <2>2
<1>2. ASSUME (\E c \in Conns : Reap(c)) \/ InvalidateUserFails \/ Recover
      PROVE  UNCHANGED <<phase, send, reuseCount, queue, Sequence, lapsed>> /\ byConnection' \subseteq byConnection
  BY <1>2 DEF Reap, InvalidateUserFails, Recover, Hub!Reap, Hub!InvalidateUserFails, Hub!Recover, Hub!IndexRemove,
              Hub!pumpVars, Hub!identVars, Hub!chanVars, streamVars
<1>3. ASSUME (\E c \in Conns : Dial(c)) \/ (\E r \in requests : LoseRequest(r)) \/ Break \/ ClientCloses \/ Receive
             \/ UNCHANGED vars
      PROVE  UNCHANGED <<byConnection, phase, send, reuseCount, queue, Sequence, lapsed>>
  BY <1>3 DEF Dial, LoseRequest, Break, ClientCloses, Receive, vars, hubVars, streamVars
<1>4. /\ UNCHANGED <<send, reuseCount, queue, Sequence>> /\ lapsed \subseteq lapsed' /\ byConnection' \subseteq byConnection
      /\ phase' = phase \/ \E c, p : phase' = [phase EXCEPT ![c] = p] /\ p # "built"
  BY <1>1, <1>2, <1>3
<1>5. \A d \in Conns : phase'[d] = "built" => phase[d] = "built"
  BY <1>4 DEF HubShape
<1>6. \A d \in byConnection' : /\ d \in byConnection /\ (d \in lapsed => d \in lapsed') /\ Sequence'[d] = Sequence[d]
                               /\ queue'[send'[d]] = queue[send[d]]
  BY <1>4
<1>7. \A d \in Conns : reuseCount'[d] = reuseCount[d] /\ Sequence'[d] = Sequence[d]
  BY <1>4
<1> QED BY <1>5, <1>6, <1>7, HelloSentWhen

\* A connection that is registered gets a hello, unless its stream goes on or its session has lapsed.
LEMMA HelloSentByRegister ==
    ASSUME StreamTyped, HubShape, HelloSent, NEW c \in Conns, Register(c) PROVE HelloSent'
<1>1. /\ phase[c] = "built" /\ phase' = [phase EXCEPT ![c] = "registered"]
      /\ Hub!Register(c, UserId[c]) /\ UNCHANGED <<send, reuseCount, Sequence>>
  BY DEF Register, Hub!HandlerRegister, streamVars
<1>2. byConnection' = byConnection \cup {c} /\ send[c] \in Channels
  BY <1>1 DEF Hub!Register, Hub!IndexAdd, HubShape
<1>3. \/ lapsed' = lapsed \cup {c} /\ queue' = queue
      \/ lapsed' = lapsed \ {c} /\ IF reuseCount[c] = 0 THEN Hub!Greet(c) ELSE queue' = queue
  BY <1>1 DEF Hub!Register
<1>4. Hub!Greet(c) => queue' = [queue EXCEPT ![send[c]] = Append(@, Hub!Hello(connectionID[c]))]
  BY DEF Hub!Greet
<1>5. c \in lapsed' \/ Sequence'[c] # 0 \/ queue'[send'[c]] # <<>>
  <2>1. ASSUME Hub!Greet(c) PROVE queue'[send'[c]] # <<>>
    <3>1. queue'[send'[c]] = Append(queue[send[c]], Hub!Hello(connectionID[c]))
      BY <1>1, <1>2, <1>4, <2>1 DEF HubShape
    <3>2. queue[send[c]] \in Seq(Hub!Messages)
      BY <1>2 DEF HubShape
    <3> QED BY <3>1, <3>2
  <2>2. reuseCount[c] # 0 => Sequence[c] # 0
    BY <1>1 DEF HelloSent
  <2> QED BY <1>1, <1>3, <2>1, <2>2
<1>6. ASSUME NEW d \in byConnection PROVE queue[send[d]] # <<>> => queue'[send'[d]] # <<>>
  <2>1. send[d] \in Channels
    BY OwnerFacts
  <2>2. queue[send[d]] \in Seq(Hub!Messages)
    BY <2>1 DEF HubShape
  <2>3. \/ queue'[send'[d]] = queue[send[d]]
        \/ queue'[send'[d]] = Append(queue[send[d]], Hub!Hello(connectionID[c]))
    BY <1>1, <1>3, <1>4, <2>1 DEF HubShape
  <2> QED BY <2>2, <2>3
<1>7. ASSUME NEW d \in byConnection', d # c
      PROVE  /\ d \in byConnection /\ (d \in lapsed => d \in lapsed') /\ Sequence'[d] = Sequence[d]
             /\ (queue[send[d]] # <<>> => queue'[send'[d]] # <<>>)
  BY <1>1, <1>2, <1>3, <1>6, <1>7
<1>8. \A d \in Conns : phase'[d] = "built" /\ reuseCount'[d] # 0 =>
                       phase[d] = "built" /\ reuseCount[d] # 0 /\ Sequence'[d] = Sequence[d]
  BY <1>1 DEF HubShape
<1>9. \A d \in byConnection' : \/ d \in lapsed' \/ Sequence'[d] # 0 \/ queue'[send'[d]] # <<>>
                               \/ /\ d \in byConnection /\ (d \in lapsed => d \in lapsed')
                                  /\ (Sequence[d] # 0 => Sequence'[d] # 0)
                                  /\ (queue[send[d]] # <<>> => queue'[send'[d]] # <<>>)
  BY <1>5, <1>7
<1> QED BY <1>8, <1>9, HelloSentWhen

\* A message that leaves the channel has a number.
LEMMA HelloSentByWriter ==
    ASSUME StreamTyped, HubShape, PumpsInOrder, HelloSent, NEW c \in Conns,
           StartDraining(c) \/ StartOver(c) \/ Send(c) \/ EncodeError(c)
    PROVE  HelloSent'
<1>1. writer[c] \in {"start", "loop"} /\ UNCHANGED <<byConnection, phase, send, reuseCount, lapsed>>
  BY DEF StartDraining, StartOver, Send, EncodeError, Hub!WriterResumes, Hub!WriterStops, Hub!WriterRestarts,
         Hub!WriterSends, Hub!WriterSkips, Hub!WriterDone, Hub!indexVars, Hub!pumpVars, Hub!identVars
<1>2. c \in Hub!Owners /\ send[c] \in Channels /\ phase[c] # "built"
  BY <1>1, AtWork
<1>3. ASSUME StartDraining(c)
      PROVE  queue' = queue /\ \E n \in Nat : Sequence' = [Sequence EXCEPT ![c] = @ + n]
  <2>1. queue' = queue
    BY <1>3 DEF StartDraining, Hub!WriterResumes, Hub!WriterStops, Hub!chanVars
  <2>2. PICK msgs : \E n \in 0 .. Len(msgs) : Sequence' = [Sequence EXCEPT ![c] = @ + n]
    BY <1>3 DEF StartDraining
  <2>3. PICK n \in 0 .. Len(msgs) : Sequence' = [Sequence EXCEPT ![c] = @ + n]
    BY <2>2
  <2>4. n \in Nat
    BY <2>3
  <2> QED BY <2>1, <2>3, <2>4
<1>4. ASSUME StartOver(c) PROVE queue' = queue /\ Sequence' = [Sequence EXCEPT ![c] = 1]
  BY <1>4 DEF StartOver, Hub!WriterRestarts, Hub!chanVars
<1>5. ASSUME Send(c) \/ EncodeError(c)
      PROVE  /\ Sequence' = [Sequence EXCEPT ![c] = @ + 1]
             /\ queue' = [queue EXCEPT ![send[c]] = Tail(@)]
  BY <1>5 DEF Send, EncodeError, Hub!WriterSends, Hub!WriterSkips
<1>6. Sequence[c] \in Nat
  BY DEF StreamTyped
<1>7. /\ \A d \in Conns : d # c => Sequence'[d] = Sequence[d]
      /\ Sequence'[c] # 0 \/ (queue' = queue /\ Sequence[c] = 0)
  <2>1. CASE StartDraining(c)
    <3>1. PICK n \in Nat : Sequence' = [Sequence EXCEPT ![c] = @ + n]
      BY <1>3, <2>1
    <3>2. /\ \A d \in Conns : d # c => Sequence'[d] = Sequence[d]
          /\ Sequence'[c] = Sequence[c] + n
      BY <3>1 DEF StreamTyped
    <3> QED BY <1>3, <1>6, <2>1, <3>2
  <2>2. CASE StartOver(c)
    BY <1>4, <2>2 DEF StreamTyped
  <2>3. CASE Send(c) \/ EncodeError(c)
    <3>1. /\ \A d \in Conns : d # c => Sequence'[d] = Sequence[d]
          /\ Sequence'[c] = Sequence[c] + 1
      BY <1>5, <2>3 DEF StreamTyped
    <3> QED BY <1>6, <3>1
  <2> QED BY <2>1, <2>2, <2>3
<1>8. ASSUME NEW d \in byConnection', d # c PROVE queue'[send'[d]] = queue[send[d]]
  <2>1. d \in Hub!Owners /\ send[d] \in Channels
    BY <1>1, <1>8, OwnerFacts
  <2>2. send[d] # send[c]
    BY <1>2, <1>8, <2>1 DEF HubShape
  <2>3. queue' = queue \/ queue' = [queue EXCEPT ![send[c]] = Tail(@)]
    BY <1>3, <1>4, <1>5
  <2> QED BY <1>1, <2>1, <2>2, <2>3 DEF HubShape
<1>9. \A d \in byConnection' : \/ d \in lapsed' \/ Sequence'[d] # 0 \/ queue'[send'[d]] # <<>>
                               \/ /\ d \in byConnection /\ (d \in lapsed => d \in lapsed')
                                  /\ (Sequence[d] # 0 => Sequence'[d] # 0)
                                  /\ (queue[send[d]] # <<>> => queue'[send'[d]] # <<>>)
  <2> SUFFICES ASSUME NEW d \in byConnection'
               PROVE  \/ d \in lapsed' \/ Sequence'[d] # 0 \/ queue'[send'[d]] # <<>>
                      \/ /\ d \in byConnection /\ (d \in lapsed => d \in lapsed')
                         /\ (Sequence[d] # 0 => Sequence'[d] # 0)
                         /\ (queue[send[d]] # <<>> => queue'[send'[d]] # <<>>)
    OBVIOUS
  <2>1. d \in byConnection /\ d \in Conns /\ (d \in lapsed => d \in lapsed')
    BY <1>1 DEF HubShape
  <2>2. CASE d = c
    BY <1>1, <1>7, <2>1, <2>2
  <2>3. CASE d # c
    BY <1>7, <1>8, <2>1, <2>3
  <2> QED BY <2>2, <2>3
<1>10. \A d \in Conns : phase'[d] = "built" /\ reuseCount'[d] # 0 =>
                        phase[d] = "built" /\ reuseCount[d] # 0 /\ Sequence'[d] = Sequence[d]
  BY <1>1, <1>2, <1>7
<1> QED BY <1>9, <1>10, HelloSentWhen

\* A stream that goes on has a number.
LEMMA HelloSentByAccept ==
    ASSUME StreamTyped, HubShape, RequestsInOrder, Streams, HelloSent, NEW r \in requests, Accept(r)
    PROVE  HelloSent'
<1>0. requests' = requests \ {r} /\ UNCHANGED <<clientVars, linkUp, net, faults, eventVars>>
  BY DEF Accept
<1>1. lapsed' = lapsed
  BY DEF Accept, Hub!ConnectNotFound, Hub!ConnectFresh, Hub!ConnectReuse, Hub!Build
<1>2. CASE /\ \E id \in FreshIds : Hub!ConnectFresh(r.conn, User, id)
           /\ Sequence' = [Sequence EXCEPT ![r.conn] = 0]
           /\ deadQueue' = [deadQueue EXCEPT ![send'[r.conn]] = DQ!EmptyQueue]
           /\ deadQueuePointer' = [deadQueuePointer EXCEPT ![send'[r.conn]] = 0]
  <2>1. PICK id, ch : Opens(r.conn, id, ch)
    <3>1. PICK id \in FreshIds : Hub!ConnectFresh(r.conn, User, id)
      BY <1>2
    <3>2. \E ch : Opens(r.conn, id, ch)
      BY <1>0, <1>2, <3>1, Opening
    <3> QED BY <3>2
  <2> PICK c : c = r.conn
    OBVIOUS
  <2>2. /\ byConnection' = byConnection /\ phase[c] = "free" /\ reuseCount'[c] = 0
        /\ \A d \in Conns : phase[d] # "free" => send[d] # ch
        /\ \A d \in Conns : d # c => UNCHANGED <<phase[d], send[d], reuseCount[d], Sequence[d]>>
        /\ \A h \in Channels : h # ch => queue'[h] = queue[h]
    BY <2>1 DEF Opens
  <2>3. ASSUME NEW d \in byConnection
        PROVE  d \in Conns /\ d # c /\ send'[d] = send[d] /\ Sequence'[d] = Sequence[d] /\ queue'[send'[d]] = queue[send[d]]
    <3>1. d \in Conns /\ phase[d] # "free" /\ send[d] \in Channels
      BY OwnerFacts
    <3>2. d # c /\ send[d] # ch
      BY <2>2, <3>1
    <3> QED BY <2>2, <3>1, <3>2
  <2>4. \A d \in Conns : phase'[d] = "built" /\ reuseCount'[d] # 0 =>
                         phase[d] = "built" /\ reuseCount[d] # 0 /\ Sequence'[d] = Sequence[d]
    BY <2>2
  <2>5. \A d \in byConnection' : /\ d \in byConnection /\ (d \in lapsed => d \in lapsed')
                                 /\ (Sequence[d] # 0 => Sequence'[d] # 0)
                                 /\ (queue[send[d]] # <<>> => queue'[send'[d]] # <<>>)
    BY <1>1, <2>2, <2>3
  <2> QED BY <2>4, <2>5, HelloSentWhen
<1>3. CASE /\ Hub!ConnectReuse(r.conn, User, r.id)
           /\ Sequence' = [Sequence EXCEPT ![r.conn] = r.seq]
           /\ UNCHANGED <<deadQueue, deadQueuePointer>>
  <2>1. PICK old, ch : TakesOver(r.conn, old, r, ch)
    BY <1>0, <1>3, TakingOver
  <2> PICK c : c = r.conn
    OBVIOUS
  <2>2. /\ old \in byConnection /\ connectionID[old] = r.id /\ byConnection' = byConnection \ {old}
        /\ phase[c] = "free" /\ queue' = queue /\ Sequence'[c] = r.seq
        /\ \A d \in Conns : d # c => UNCHANGED <<phase[d], send[d], reuseCount[d], Sequence[d]>>
    BY <2>1 DEF TakesOver
  <2>3. r.seq # 0
    <3>1. old \in Hub!Owners
      BY <2>2, OwnerFacts
    <3>2. PICK at, rec, t, m : NumbersView(old, rec, t, m)
      BY <3>1 DEF Streams, Served, Owns
    <3>3. 1 <= r.seq
      BY <2>2, <3>2 DEF NumbersView
    <3> QED BY <3>3
  <2>4. ASSUME NEW d \in byConnection'
        PROVE  d \in byConnection /\ send'[d] = send[d] /\ Sequence'[d] = Sequence[d] /\ queue'[send'[d]] = queue[send[d]]
    <3>1. d \in byConnection /\ d \in Conns /\ phase[d] # "free"
      BY <2>2, OwnerFacts
    <3>2. d # c
      BY <2>2, <3>1
    <3> QED BY <2>2, <3>1, <3>2
  <2>5. \A d \in Conns : phase'[d] = "built" /\ reuseCount'[d] # 0 =>
                         \/ Sequence'[d] # 0
                         \/ phase[d] = "built" /\ reuseCount[d] # 0 /\ Sequence'[d] = Sequence[d]
    BY <2>2, <2>3
  <2>6. \A d \in byConnection' : /\ d \in byConnection /\ (d \in lapsed => d \in lapsed')
                                 /\ (Sequence[d] # 0 => Sequence'[d] # 0)
                                 /\ (queue[send[d]] # <<>> => queue'[send'[d]] # <<>>)
    BY <1>1, <2>4
  <2> QED BY <2>5, <2>6, HelloSentWhen
<1> QED BY <1>2, <1>3 DEF Accept, Hub!ConnectNotFound

\* Every step keeps it.
LEMMA HelloSentKept ==
    ASSUME StreamTyped, HubShape, PumpsInOrder, RequestsInOrder, Streams, HelloSent, [Next]_vars
    PROVE  HelloSent'
<1>1. ASSUME NEW c \in Conns, Register(c) PROVE HelloSent'
  BY <1>1, HelloSentByRegister
<1>2. ASSUME NEW c \in Conns, StartDraining(c) \/ StartOver(c) \/ Send(c) \/ EncodeError(c) PROVE HelloSent'
  BY <1>2, HelloSentByWriter
<1>3. ASSUME NEW r \in requests, Accept(r) PROVE HelloSent'
  BY <1>3, HelloSentByAccept
<1>4. ASSUME NEW c \in Conns, Collect(c) PROVE HelloSent'
  <2>1. /\ c \notin byConnection /\ byConnection' = byConnection /\ lapsed' = lapsed \ {c} /\ queue' = queue
        /\ phase' = [phase EXCEPT ![c] = "free"] /\ send' = [send EXCEPT ![c] = NoChannel]
        /\ reuseCount' = [reuseCount EXCEPT ![c] = 0] /\ Sequence' = [Sequence EXCEPT ![c] = 0]
    BY <1>4 DEF Collect, Hub!Release, Hub!chanVars
  <2>2. \A d \in byConnection' : /\ d \in byConnection /\ (d \in lapsed => d \in lapsed')
                                 /\ Sequence'[d] = Sequence[d] /\ queue'[send'[d]] = queue[send[d]]
    BY <2>1 DEF HubShape, StreamTyped
  <2>3. \A d \in Conns : phase'[d] = "built" /\ reuseCount'[d] # 0 =>
                         phase[d] = "built" /\ reuseCount[d] # 0 /\ Sequence'[d] = Sequence[d]
    BY <2>1 DEF HubShape, StreamTyped
  <2> QED BY <2>2, <2>3, HelloSentWhen
<1>5. ASSUME Broadcast PROVE HelloSent'
  <2> PICK k : k = produced + 1
    OBVIOUS
  <2>1. PICK fed : Produces(k, fed)
    BY <1>5, Producing
  <2>2. /\ \A d \in fed : queue'[send[d]] = Append(queue[send[d]], Event(k))
        /\ \A d \in Hub!Owners : d \notin fed => queue'[send[d]] = queue[send[d]]
        /\ byConnection' \subseteq byConnection
        /\ UNCHANGED <<phase, send, reuseCount, lapsed, Sequence>>
    BY <2>1 DEF Produces, streamVars
  <2>3. ASSUME NEW d \in byConnection' PROVE queue[send[d]] # <<>> => queue'[send'[d]] # <<>>
    <3>1. d \in byConnection /\ d \in Hub!Owners /\ send[d] \in Channels
      BY <2>2, OwnerFacts
    <3>2. queue[send[d]] \in Seq(Hub!Messages)
      BY <3>1 DEF HubShape
    <3>3. queue'[send'[d]] = queue[send[d]] \/ queue'[send'[d]] = Append(queue[send[d]], Event(k))
      BY <2>2, <3>1
    <3> QED BY <3>2, <3>3
  <2>4. \A d \in byConnection' : /\ d \in byConnection /\ (d \in lapsed => d \in lapsed')
                                 /\ (Sequence[d] # 0 => Sequence'[d] # 0)
                                 /\ (queue[send[d]] # <<>> => queue'[send'[d]] # <<>>)
    BY <2>2, <2>3
  <2>5. \A d \in Conns : phase'[d] = "built" /\ reuseCount'[d] # 0 =>
                         phase[d] = "built" /\ reuseCount[d] # 0 /\ Sequence'[d] = Sequence[d]
    BY <2>2
  <2> QED BY <2>4, <2>5, HelloSentWhen
<1> QED BY <1>1, <1>2, <1>3, <1>4, <1>5, HelloSentQuiet DEF Next, Handler, Writer

\* The invariant holds at the start,
LEMMA InvariantStarts == Init => IInv
<1> SUFFICES ASSUME Init PROVE IInv
  OBVIOUS
<1>0. /\ Sequence = [c \in Conns |-> 0]
      /\ deadQueue = [ch \in Channels |-> DQ!EmptyQueue] /\ deadQueuePointer = [ch \in Channels |-> 0]
      /\ requests = {} /\ linkUp = FALSE /\ net = <<>>
      /\ produced = 0 /\ seen = {} /\ delivered = <<>> /\ loaded = [id \in ConnIds |-> 0]
      /\ conn = NoConn /\ connectionId = NoId /\ serverSequence = 0
  BY DEF Init, Client!ClientInit
<1>1. HubOK
  BY HubStarts DEF Init
<1>2. byConnection = {} /\ phase = [c \in Conns |-> "free"] /\ writer = [c \in Conns |-> "idle"]
  BY DEF Init, Hub!Init
<1>3. StreamTyped
  <2>1. DQ!EmptyQueue \in [DQ!Slot -> Records \cup {Nil}] /\ 0 \in DQ!Slot
    BY SlotsTyped
  <2>2. <<>> \in Seq(Records) /\ <<>> \in Seq(Nat)
    OBVIOUS
  <2>3. 0 \in Nat /\ 0 \in 0 .. MaxEvents
    OBVIOUS
  <2>4. /\ deadQueue \in [Channels -> [DQ!Slot -> Records \cup {Nil}]]
        /\ deadQueuePointer \in [Channels -> DQ!Slot]
    BY <1>0, <2>1, Zenon
  <2>5. Sequence \in [Conns -> Nat] /\ loaded \in [ConnIds -> 0 .. MaxEvents]
        /\ \A id \in ConnIds : loaded[id] <= produced
    BY <1>0, <2>3
  <2>6. net \in Seq(Records) /\ delivered \in Seq(Nat)
    BY <1>0, <2>2
  <2>7. requests \in SUBSET [conn : Conns, id : ConnIds \cup {NoId}, seq : Nat]
    BY <1>0
  <2> QED BY <1>0, <2>3, <2>4, <2>5, <2>6, <2>7 DEF StreamTyped
<1>4. PumpsInOrder
  BY <1>2 DEF PumpsInOrder
<1>5. Latest = 0 /\ NoSilentGap
  <2>1. Abstract!Latest(delivered) = 0
    BY <1>0 DEF Abstract!Latest
  <2>2. 1 .. 0 = {}
    OBVIOUS
  <2> QED BY <2>1, <2>2 DEF Latest, NoSilentGap
<1>6. ClientInOrder /\ RequestsInOrder
  BY <1>0, <1>5 DEF ClientInOrder, RequestsInOrder
<1>7. Streams
  <2>1. Hub!Owners = {}
    BY <1>2 DEF Hub!Owners
  <2>2. \A id \in ConnIds : ~ Relevant(id)
    BY <1>0 DEF Relevant, InNet
  <2> QED BY <2>1, <2>2 DEF Streams
<1>8. HelloSent
  BY <1>2 DEF HelloSent
<1> QED BY <1>1, <1>3, <1>4, <1>5, <1>6, <1>7, <1>8 DEF IInv

\* and every step keeps it.
LEMMA InvariantKept == IInv /\ [Next]_vars => IInv'
<1> SUFFICES ASSUME IInv, [Next]_vars PROVE IInv'
  OBVIOUS
<1>0. /\ StreamTyped /\ HubOK /\ PumpsInOrder /\ ClientInOrder /\ RequestsInOrder
      /\ Streams /\ HelloSent /\ NoSilentGap
  BY DEF IInv
<1>1. HubShape /\ HubOK'
  BY <1>0, HubFacts, HubStep
<1>2. HubShape'
  <2>1. HubOK' => HubShape'
    BY HubFacts, PTL
  <2> QED BY <1>1, <2>1
<1>3. StreamTyped'
  <2>1. CASE \E c \in Conns : StartDraining(c)
    BY <1>0, <1>1, <2>1, DrainingTyped
  <2>2. CASE \A c \in Conns : ~ StartDraining(c)
    BY <1>0, <1>1, <1>2, <2>2, StreamTypedKept
  <2> QED BY <2>1, <2>2
<1>4. PumpsInOrder' /\ RequestsInOrder' /\ HelloSent'
  BY <1>0, <1>1, PumpsKept, RequestsKept, HelloSentKept
<1>5. Streams' /\ ClientInOrder' /\ NoSilentGap'
  <2>1. CASE Receive
    <3>1. ReceiveHello \/ ReceiveEvent
      BY <2>1 DEF Receive
    <3>2. CASE ReceiveHello
      BY <1>0, <1>1, <1>2, <1>3, <2>1, <3>2, StreamsKeptByHello
    <3>3. CASE ReceiveEvent
      BY <1>0, <1>1, <1>2, <1>3, <2>1, <3>3, StreamsKeptByEvent
    <3> QED BY <3>1, <3>2, <3>3
  <2>2. CASE ~ Receive
    <3>1. Streams'
      BY <1>0, <1>1, <1>2, <1>3, <2>2, StreamsKeptByStep
    <3>2. ClientInOrder' /\ NoSilentGap'
      BY <1>0, <1>1, <2>2, ClientKept, GapsKept
    <3> QED BY <3>1, <3>2
  <2> QED BY <2>1, <2>2
<1> QED BY <1>1, <1>3, <1>4, <1>5 DEF IInv

\* For any number of connections, ids, channels, events and failures, and for any size of the
\* dead queue and the channels: there is always an assignment of events to numbers that explains
\* what the server holds, what the network carries and what the client expects
\* (web_conn.go:522-624, web_hub.go:545-583, websocket.ts:365-418).
THEOREM Invariance == Spec => []IInv
<1> QED BY InvariantStarts, InvariantKept, PTL DEF Spec

\* Whatever fails on the way, and however often: the client never gets an event
\* while one before it is missing, but for those excused.
THEOREM NoGap == Spec => []NoSilentGap
<1>1. IInv => NoSilentGap
  BY DEF IInv
<1> QED BY <1>1, Invariance, PTL

-----------------------------------------------------------------------------
(* The events of the channels have been produced. *)

EventsQueued ==
    \A ch \in Channels : \A j \in 1 .. Len(queue[ch]) :
        queue[ch][j].type = "event" => queue[ch][j].n <= produced

\* Messages taken from a channel, or produced and put into one.
LEMMA EventsKept ==
    ASSUME EventsQueued, queue \in [Channels -> Seq(Hub!Messages)], produced \in Nat, produced' \in Nat,
           produced <= produced',
           \A ch \in Channels :
              \/ queue'[ch] \in {queue[ch], <<>>}
              \/ queue[ch] # <<>> /\ queue'[ch] = Tail(queue[ch])
              \/ \E x \in Hub!Messages : /\ x.type = "event" => x.n <= produced'
                                         /\ queue'[ch] = Append(queue[ch], x)
    PROVE  EventsQueued'
<1>1. ASSUME NEW ch \in Channels, NEW j \in 1 .. Len(queue'[ch]), queue'[ch][j].type = "event"
      PROVE  queue'[ch][j].n <= produced'
  <2> PICK q, p : q = queue[ch] /\ p = queue'[ch]
    OBVIOUS
  <2>1. q \in Seq(Hub!Messages) /\ Len(q) \in Nat /\ j \in 1 .. Len(p) /\ p[j].type = "event"
    BY <1>1
  <2>2. \A i \in 1 .. Len(q) : q[i] \in Hub!Messages
    BY <2>1
  <2>3. \A i \in 1 .. Len(q) : q[i].type = "event" => q[i].n <= produced'
    <3> SUFFICES ASSUME NEW i \in 1 .. Len(q), q[i].type = "event" PROVE q[i].n <= produced'
      OBVIOUS
    <3>1. q[i].n <= produced
      BY DEF EventsQueued
    <3>2. q[i].n \in Nat
      BY <2>2, EventsOf
    <3> QED BY <3>1, <3>2
  <2>4. CASE p \in {q, <<>>}
    <3>1. p = q
      <4>1. Len(<<>>) = 0
        OBVIOUS
      <4> QED BY <2>1, <2>4, <4>1
    <3> QED BY <2>1, <2>3, <3>1
  <2>5. CASE q # <<>> /\ p = Tail(q)
    <3>1. Len(p) = Len(q) - 1 /\ \A i \in 1 .. Len(q) - 1 : p[i] = q[i + 1]
      BY <2>1, <2>5, SequenceParts
    <3>2. p[j] = q[j + 1] /\ j + 1 \in 1 .. Len(q)
      BY <2>1, <3>1
    <3> QED BY <2>1, <2>3, <3>2
  <2>6. CASE \E x \in Hub!Messages : /\ x.type = "event" => x.n <= produced'
                                     /\ p = Append(q, x)
    <3>1. PICK x \in Hub!Messages : (x.type = "event" => x.n <= produced') /\ p = Append(q, x)
      BY <2>6
    <3>2. Len(p) = Len(q) + 1 /\ \A i \in 1 .. Len(q) + 1 : p[i] = IF i = Len(q) + 1 THEN x ELSE q[i]
      BY <2>1, <3>1
    <3>3. CASE j = Len(q) + 1
      BY <2>1, <3>1, <3>2, <3>3
    <3>4. CASE j # Len(q) + 1
      <4>1. j \in 1 .. Len(q) /\ p[j] = q[j]
        BY <2>1, <3>2, <3>4
      <4> QED BY <2>1, <2>3, <4>1
    <3> QED BY <3>3, <3>4
  <2>7. \/ p \in {q, <<>>}
        \/ q # <<>> /\ p = Tail(q)
        \/ \E x \in Hub!Messages : /\ x.type = "event" => x.n <= produced'
                                   /\ p = Append(q, x)
    OBVIOUS
  <2>8. p[j].n <= produced'
    BY <2>4, <2>5, <2>6, <2>7
  <2> QED BY <2>8
<1> QED BY <1>1 DEF EventsQueued

\* Every step keeps to events that have been produced.
LEMMA EventsQueuedKept ==
    ASSUME StreamTyped, StreamTyped', HubShape, PumpsInOrder, EventsQueued, [Next]_vars
    PROVE  EventsQueued'
<1>0. /\ queue \in [Channels -> Seq(Hub!Messages)]
      /\ produced \in Nat /\ produced' \in Nat
  BY DEF HubShape, StreamTyped
<1>1. ASSUME queue' = queue, produced' = produced PROVE EventsQueued'
  BY <1>1 DEF EventsQueued
<1>2. ASSUME NEW c \in Conns, Register(c) PROVE EventsQueued'
  <2>1. /\ produced' = produced /\ phase[c] = "built"
        /\ \/ queue' = [queue EXCEPT ![send[c]] = Append(@, Hub!Hello(connectionID[c]))]
           \/ queue' = queue
    BY <1>2 DEF Register, Hub!HandlerRegister, Hub!Register, Hub!Greet
  <2>2. connectionID[c] \in ConnIds
    BY <2>1 DEF HubShape
  <2>3. Hub!Hello(connectionID[c]) \in Hub!Messages /\ Hub!Hello(connectionID[c]).type # "event"
    BY <2>2, EventsOf DEF Hub!Hello
  <2>4. \A ch \in Channels : queue'[ch] = queue[ch] \/ queue'[ch] = Append(queue[ch], Hub!Hello(connectionID[c]))
    BY <1>0, <2>1
  <2> QED BY <1>0, <2>1, <2>3, <2>4, EventsKept
<1>3. ASSUME NEW c \in Conns, Send(c) \/ EncodeError(c) PROVE EventsQueued'
  <2>1. /\ produced' = produced /\ queue[send[c]] # <<>>
        /\ queue' = [queue EXCEPT ![send[c]] = Tail(@)]
    BY <1>3 DEF Send, EncodeError, Hub!WriterSends, Hub!WriterSkips, eventVars
  <2>2. \A ch \in Channels : queue'[ch] = queue[ch] \/ (queue[ch] # <<>> /\ queue'[ch] = Tail(queue[ch]))
    BY <1>0, <2>1
  <2> QED BY <1>0, <2>1, <2>2, EventsKept
<1>4. ASSUME NEW c \in Conns, Handler(c), ~ Register(c) PROVE EventsQueued'
  <2>1. queue' = queue /\ produced' = produced
    BY <1>4 DEF Handler, RegisterFails, Pump, ReadPumpEnds, SessionLapses, Unregister, eventVars,
                Hub!HandlerRegisterFails, Hub!Pump, Hub!ReadPumpEnds, Hub!SessionLapses, Hub!Unregister, Hub!chanVars
  <2> QED BY <1>1, <2>1
<1>5. ASSUME NEW c \in Conns, Writer(c), ~ Send(c), ~ EncodeError(c) PROVE EventsQueued'
  <2>1. queue' = queue /\ produced' = produced
    BY <1>5 DEF Writer, StartLossless, StartDraining, StartOver, SeeClosed, StopWriting, eventVars,
                Hub!WriterResumes, Hub!WriterStops, Hub!WriterRestarts, Hub!WriterSeesClosed, Hub!chanVars
  <2> QED BY <1>1, <2>1
<1>6. ASSUME NEW c \in Conns, Dial(c) \/ Reap(c) \/ Collect(c) PROVE EventsQueued'
  <2>1. queue' = queue /\ produced' = produced
    BY <1>6 DEF Dial, Reap, Collect, hubVars, eventVars, Hub!Reap, Hub!Release, Hub!chanVars
  <2> QED BY <1>1, <2>1
<1>7. ASSUME NEW r \in requests, Accept(r) PROVE EventsQueued'
  <2>1. produced' = produced
    BY <1>7 DEF Accept, eventVars
  <2>2. ASSUME NEW c, NEW id, Hub!ConnectFresh(c, User, id)
        PROVE  \A ch \in Channels : queue'[ch] \in {queue[ch], <<>>}
    BY <1>0, <2>2 DEF Hub!ConnectFresh
  <2>3. CASE \E id \in FreshIds : IF r.id = NoId THEN Hub!ConnectFresh(r.conn, User, id)
                                  ELSE Hub!ConnectNotFound(r.conn, User, r.id, id)
    <3>1. \A ch \in Channels : queue'[ch] \in {queue[ch], <<>>}
      BY <2>2, <2>3 DEF Hub!ConnectNotFound
    <3> QED BY <1>0, <2>1, <3>1, EventsKept
  <2>4. CASE Hub!ConnectReuse(r.conn, User, r.id)
    <3>1. queue' = queue
      BY <2>4 DEF Hub!ConnectReuse, Hub!chanVars
    <3> QED BY <1>1, <2>1, <3>1
  <2> QED BY <1>7, <2>3, <2>4 DEF Accept
<1>8. ASSUME Broadcast PROVE EventsQueued'
  <2> PICK k : k = produced + 1
    OBVIOUS
  <2>1. PICK F : produced < MaxEvents /\ produced' = k /\ Hub!Broadcast(Hub!ForUser(User), F, Event(k))
    BY <1>8 DEF Broadcast
  <2>2. k \in 1 .. MaxEvents /\ k \in Nat
    BY <1>0, <2>1
  <2>3. Event(k) \in Hub!Messages /\ Event(k).n = k
    BY <2>2, EventsOf DEF Event
  <2>4. \E fed : queue' = [ch \in Channels |-> IF ch \in fed THEN Append(queue[ch], Event(k)) ELSE queue[ch]]
    BY <2>1 DEF Hub!Broadcast, Hub!Enqueue
  <2>5. \A ch \in Channels : queue'[ch] = queue[ch] \/ queue'[ch] = Append(queue[ch], Event(k))
    BY <2>4
  <2>6. produced <= produced' /\ k <= produced'
    BY <1>0, <2>1
  <2> QED BY <1>0, <2>3, <2>5, <2>6, EventsKept
<1>9. ASSUME (\E r \in requests : LoseRequest(r)) \/ Break \/ ClientCloses \/ Receive \/ InvalidateUserFails \/ Recover
             \/ UNCHANGED vars
      PROVE  EventsQueued'
  <2>1. queue' = queue /\ produced' = produced
    BY <1>9 DEF LoseRequest, Break, ClientCloses, Receive, InvalidateUserFails, Recover, vars, hubVars, eventVars,
                Hub!InvalidateUserFails, Hub!Recover, Hub!chanVars
  <2> QED BY <1>1, <2>1
<1> QED BY <1>2, <1>3, <1>4, <1>5, <1>6, <1>7, <1>8, <1>9 DEF Next

\* No channel has an event that has not been produced.
LEMMA EventsQueuedAlways == Spec => []EventsQueued
<1>1. Init => EventsQueued
  <2> SUFFICES ASSUME Init, NEW ch \in Channels PROVE queue[ch] = <<>> /\ 1 .. Len(<<>>) = {}
    BY DEF EventsQueued
  <2>1. 1 .. Len(<<>>) = {}
    OBVIOUS
  <2> QED BY <2>1 DEF Init, Hub!Init
<1>2. IInv /\ IInv' /\ EventsQueued /\ [Next]_vars => EventsQueued'
  <2> SUFFICES ASSUME IInv, IInv', EventsQueued, [Next]_vars PROVE EventsQueued'
    OBVIOUS
  <2>1. StreamTyped /\ StreamTyped' /\ HubShape /\ PumpsInOrder
    BY HubFacts DEF IInv
  <2> QED BY <2>1, EventsQueuedKept
<1> QED BY <1>1, <1>2, Invariance, PTL DEF Spec

-----------------------------------------------------------------------------
(* The system implements EventStream. *)

\* A hand-over ends and begins with phases.
LEMMA SameHandOver == ASSUME UNCHANGED <<phase, reuseCount>> PROVE HandingOver' = HandingOver
BY DEF HandingOver

\* An event handed to the client is the next one, and none before it is missing.
LEMMA Delivers ==
    ASSUME StreamTyped, HubShape, ClientInOrder, Streams, Receive, ReceiveEvent, conn' = conn
    PROVE  \E n \in 1 .. produced : Abstract!Deliver(n)
<1> PICK id0, E, n, lo, hi, B : /\ id0 = connectionID[conn] /\ E = serverSequence /\ n = Head(net).msg.n
                                /\ lo = Latest /\ hi = produced /\ B = Base(id0)
  OBVIOUS
<1>1. Relevant(id0) /\ Explained(id0)
  BY Reading
<1>2. PICK at \in Numbers, m \in Nat : Stream(at, id0, m)
  BY <1>1 DEF Explained
<1>3. /\ E # 0 /\ E < m /\ id0 = connectionId /\ Expected(id0) = E /\ at[E] = n
      /\ seen' = seen \cup {n} /\ delivered' = Append(delivered, n)
      /\ UNCHANGED <<produced, dropped, unencodable, skipped, unchecked>>
  BY <1>2, EventRead
<1>4. E \in Nat \ {0} /\ lo \in Nat /\ hi \in Nat /\ n \in Nat
  <2>1. lo \in Nat /\ hi \in Nat /\ Expected(id0) \in Nat
    BY Bounds
  <2>2. E \in Nat \ {0}
    BY <1>3, <2>1
  <2>3. at[E] \in Nat
    BY <2>2 DEF Numbers
  <2> QED BY <1>3, <2>1, <2>2, <2>3
<1>5. Ordered(at, E, m, lo, hi) /\ GapFree(at, E, m, B)
  BY <1>2, <1>3 DEF Stream
<1>6. lo < n /\ n <= hi /\ \A k \in Nat : 1 <= k /\ k < n => k \in B
  <2>0. E \in Nat \ {0} /\ E < m /\ lo \in Nat /\ hi \in Nat
    BY <1>3, <1>4
  <2>1. Ordered(at, E, m, lo, hi) => lo < at[E] /\ at[E] <= hi
    BY <2>0, Taken
  <2>2. GapFree(at, E, m, B) => \A k \in Nat : 1 <= k /\ k < at[E] => k \in B
    <3>1. GapFree(at, E, m, B) => /\ \A k \in Nat : 1 <= k /\ k < at[E] => k \in B
                                 /\ GapFree(at, E + 1, m, B \cup {at[E]})
      BY <2>0, Taken
    <3> QED BY <3>1
  <2> QED BY <1>3, <1>5, <2>1, <2>2
<1>7. B = seen \cup Abstract!Excused
  BY <1>3 DEF Base, Abstract!Excused
<1>8. n \in 1 .. produced /\ n \in lo + 1 .. hi /\ 1 .. n - 1 \subseteq B
  BY <1>4, <1>6
<1>9. HandingOver' = HandingOver
  BY SameHandOver DEF Receive, hubVars
<1>10. Abstract!Deliver(n)
  BY <1>3, <1>7, <1>8, <1>9 DEF Abstract!Deliver, Abstract!excusedVars, Latest
<1> QED BY <1>8, <1>10

\* The client's state when it gets a hello is one that it could load.
LEMMA Loads ==
    ASSUME StreamTyped, HubShape, ClientInOrder, Streams, Receive, ReceiveHello
    PROVE  \E n \in 0 .. produced : Abstract!Load(n)
<1> PICK id : id = Head(net).msg.id
  OBVIOUS
<1>1. seen' = seen \cup 1 .. (IF Client!IsRestart(id) THEN produced ELSE loaded[id])
      /\ delivered' = delivered /\ Head(net).msg.type = "hello"
  BY DEF ReceiveHello
<1>2. Head(net) \in Records
  BY Reading, SequenceParts
<1>3. id \in ConnIds
  BY <1>1, <1>2, EventsOf DEF Records
<1>4. produced \in Nat /\ loaded[id] \in 0 .. produced
  BY <1>3 DEF StreamTyped
<1>5. UNCHANGED <<produced, dropped, unencodable, skipped, unchecked>> /\ HandingOver' = HandingOver
  BY SameHandOver DEF Receive, hubVars, excusedVars
<1>6. \A n \in 0 .. produced : seen' = seen \cup 1 .. n => Abstract!Load(n)
  BY <1>1, <1>5 DEF Abstract!Load, Abstract!excusedVars
<1> QED BY <1>1, <1>4, <1>6

\* An event that does not encode has been produced.
LEMMA Fails ==
    ASSUME StreamTyped, HubShape, PumpsInOrder, EventsQueued, NEW c \in Conns, EncodeError(c)
    PROVE  \E n \in 1 .. produced : Abstract!FailToEncode(n)
<1> PICK q, n : q = queue[send[c]] /\ n = Head(q).n
  OBVIOUS
<1>1. /\ writer[c] = "loop" /\ q # <<>> /\ Head(q).type = "event"
      /\ unencodable' = unencodable \cup {n}
      /\ UNCHANGED <<phase, reuseCount, produced, seen, delivered, dropped, skipped, unchecked>>
  BY DEF EncodeError, Hub!WriterSkips, Hub!pumpVars, Hub!identVars
<1>2. send[c] \in Channels /\ q \in Seq(Hub!Messages) /\ Len(q) \in Nat /\ Head(q) \in Hub!Messages
  BY <1>1, AtWork
<1>3. Head(q) = q[1] /\ 1 \in 1 .. Len(q)
  BY <1>1, <1>2
<1>4. n <= produced
  BY <1>1, <1>2, <1>3 DEF EventsQueued
<1>5. n \in 1 .. MaxEvents
  BY <1>1, <1>2 DEF Hub!Messages, Hub!Hello, Hub!Response, Event
<1>6. n \in 1 .. produced
  BY <1>4, <1>5 DEF StreamTyped
<1>7. HandingOver' = HandingOver
  BY <1>1, SameHandOver
<1> QED BY <1>1, <1>6, <1>7 DEF Abstract!FailToEncode

\* A broadcast produces an event.
LEMMA BroadcastProduces ==
    ASSUME HubShape, Broadcast PROVE Abstract!Produce
<1> PICK k : k = produced + 1
  OBVIOUS
<1>1. PICK F \in SUBSET byConnection :
      /\ produced' = k /\ Hub!Broadcast(byConnection, F, Event(k))
      /\ dropped' = IF HandingOver THEN dropped \cup {k} ELSE dropped
      /\ skipped' = IF \E c \in byConnection \ lapsed : ~ Hub!ShouldSendEvent(c, Event(k))
                    THEN skipped \cup {k} ELSE skipped
      /\ unchecked' = IF F \cup (byConnection \cap lapsed) # {} THEN unchecked \cup {k} ELSE unchecked
      /\ UNCHANGED <<seen, delivered, unencodable>>
  BY DEF Broadcast, Hub!ForUser, HubShape
<1>2. UNCHANGED <<phase, reuseCount>>
  BY <1>1 DEF Hub!Broadcast, Hub!pumpVars, Hub!identVars
<1>3. HandingOver' = HandingOver
  BY <1>2, SameHandOver
<1>4. skipped' = skipped \/ (k \in MinorEvents /\ skipped' = skipped \cup {k})
  <2>1. ASSUME NEW c \in byConnection \ lapsed, ~ Hub!ShouldSendEvent(c, Event(k)) PROVE k \in MinorEvents
    <3>1. Event(k).minor
      BY <2>1 DEF Hub!ShouldSendEvent
    <3>2. Event(k).minor = (k \in MinorEvents)
      BY DEF Event
    <3> QED BY <3>1, <3>2, Zenon
  <2> QED BY <1>1, <2>1
<1>5. unchecked' \in {unchecked, unchecked \cup {k}}
  BY <1>1
<1> QED BY <1>1, <1>3, <1>4, <1>5 DEF Abstract!Produce

\* Whatever else happens leaves the events alone, or passes the stream on.
LEMMA PassesOn ==
    ASSUME UNCHANGED <<produced, seen, delivered, excusedVars>>
    PROVE  Abstract!HandOver \/ UNCHANGED Abstract!vars
<1>1. HandingOver' = HandingOver \/ HandingOver' = ~ HandingOver
  BY DEF HandingOver
<1> QED BY <1>1 DEF Abstract!HandOver, Abstract!vars, Abstract!excusedVars, excusedVars

\* Every step is one of EventStream, or leaves it alone.
LEMMA StepImplements ==
    ASSUME IInv, EventsQueued, [Next]_vars PROVE [Abstract!Next]_Abstract!vars
<1>0. StreamTyped /\ HubShape /\ PumpsInOrder /\ ClientInOrder /\ Streams
  BY HubFacts DEF IInv
<1>1. ASSUME UNCHANGED <<produced, seen, delivered, excusedVars>> PROVE [Abstract!Next]_Abstract!vars
  BY <1>1, PassesOn DEF Abstract!Next
<1>2. ASSUME NEW c \in Conns, Dial(c) \/ Handler(c) \/ Reap(c) \/ Collect(c)
      PROVE  UNCHANGED <<produced, seen, delivered, excusedVars>>
  BY <1>2 DEF Dial, Reap, Collect, Handler, Register, RegisterFails, Pump, ReadPumpEnds, SessionLapses,
            Unregister, eventVars
<1>3. ASSUME NEW c \in Conns, Writer(c), ~ EncodeError(c)
      PROVE  UNCHANGED <<produced, seen, delivered, excusedVars>>
  BY <1>3 DEF Writer, StartLossless, StartDraining, StartOver, Send, SeeClosed, StopWriting, eventVars
<1>4. ASSUME NEW c \in Conns, EncodeError(c) PROVE [Abstract!Next]_Abstract!vars
  BY <1>0, <1>4, Fails DEF Abstract!Next
<1>5. ASSUME NEW r \in requests, Accept(r) \/ LoseRequest(r)
      PROVE  UNCHANGED <<produced, seen, delivered, excusedVars>>
  BY <1>5 DEF Accept, LoseRequest, eventVars
<1>6. ASSUME Break \/ ClientCloses \/ InvalidateUserFails \/ Recover \/ UNCHANGED vars
      PROVE  UNCHANGED <<produced, seen, delivered, excusedVars>>
  BY <1>6 DEF Break, ClientCloses, InvalidateUserFails, Recover, vars, eventVars
<1>7. ASSUME Broadcast PROVE [Abstract!Next]_Abstract!vars
  BY <1>0, <1>7, BroadcastProduces DEF Abstract!Next
<1>8. ASSUME Receive PROVE [Abstract!Next]_Abstract!vars
  <2>1. CASE ReceiveHello
    <3>1. \E n \in 0 .. produced : Abstract!Load(n)
      BY <1>0, <1>8, <2>1, Loads
    <3> QED BY <3>1 DEF Abstract!Next
  <2>2. CASE ReceiveEvent /\ conn' = conn
    <3>1. \E n \in 1 .. produced : Abstract!Deliver(n)
      BY <1>0, <1>8, <2>2, Delivers
    <3> QED BY <3>1 DEF Abstract!Next
  <2>3. CASE ReceiveEvent /\ conn' # conn
    <3>1. UNCHANGED <<produced, seen, delivered, excusedVars>>
      BY <1>8, <2>3 DEF Receive, ReceiveEvent
    <3> QED BY <1>1, <3>1
  <2> QED BY <1>8, <2>1, <2>2, <2>3 DEF Receive
<1> QED BY <1>1, <1>2, <1>3, <1>4, <1>5, <1>6, <1>7, <1>8 DEF Next

\* So is the start.
LEMMA InitImplements == Init => Abstract!Init
<1> SUFFICES ASSUME Init PROVE Abstract!Init
  OBVIOUS
<1>1. ~ HandingOver
  BY DEF Init, Hub!Init, HandingOver
<1>2. HandingOver = FALSE
  BY <1>1 DEF HandingOver
<1> QED BY <1>2 DEF Init, Abstract!Init

\* The server, the network and the browser together keep the promise of EventStream: the client
\* gets events in the order in which they were produced, each at most once, and none while an
\* earlier one is missing, but for those produced in a hand-over, those that do not encode, minor
\* ones behind a slow writer, and those whose checks of the user failed
\* (web_conn.go:522-624, 840-1004, web_hub.go:545-583, websocket.ts:365-418).
THEOREM Implements == Spec => ImplementsEventStream
<1>1. IInv /\ EventsQueued /\ [Next]_vars => [Abstract!Next]_Abstract!vars
  BY StepImplements
<1> QED BY <1>1, InitImplements, Invariance, EventsQueuedAlways, PTL DEF Spec, ImplementsEventStream, Abstract!Spec
=============================================================================
