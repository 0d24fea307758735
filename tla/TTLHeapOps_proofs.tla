-------------------------- MODULE TTLHeapOps_proofs --------------------------
(***************************************************************************)
(* What the operations of the heap do to a queue of any size, for any keys, *)
(* words and deadlines: which timers it has afterwards, that it is in heap *)
(* order again, and that every word names the place of the timer that      *)
(* points to it.                                                           *)
(***************************************************************************)
EXTENDS TTLHeapOps, Rounds, SequenceTheorems

-----------------------------------------------------------------------------
(* Queues                                                                  *)

TimerSet(K, W) == [key : K, expiresAt : Int, word : W]
Queues(K, W) == [heap : Seq(TimerSet(K, W)), index : [W -> Nat]]

Timers(q) == {q.heap[i] : i \in DOMAIN q.heap}
Words(q) == {q.heap[i].word : i \in DOMAIN q.heap}

\* No timer is due before the one above it.
Ordered(q) == \A i \in DOMAIN q.heap : i > 1 => ~ Before(q, i, i \div 2)

\* Every timer's word says where the timer is; so no two have the same word.
Indexed(q) == \A i \in DOMAIN q.heap : q.index[q.heap[i].word] = i

\* r has the timers of q, in another order perhaps, and other words are left alone.
Rearranged(q, r) ==
  /\ Len(r.heap) = Len(q.heap)
  /\ Timers(r) = Timers(q)
  /\ \A w \in DOMAIN q.index : w \notin Words(q) => r.index[w] = q.index[w]

LEMMA Halves ==
  ASSUME NEW n \in Nat, n > 1
  PROVE  n \div 2 \in 1..(n - 1) /\ (n = 2 * (n \div 2) \/ n = 2 * (n \div 2) + 1)
OBVIOUS

LEMMA HalvesOfChildren ==
  ASSUME NEW n \in Nat
  PROVE  (2 * n) \div 2 = n /\ (2 * n + 1) \div 2 = n
OBVIOUS

LEMMA QueueFacts ==
  ASSUME NEW K, NEW W, NEW q \in Queues(K, W)
  PROVE  /\ q = [heap |-> q.heap, index |-> q.index]
         /\ q.heap \in Seq(TimerSet(K, W)) /\ q.index \in [W -> Nat]
         /\ Len(q.heap) \in Nat /\ DOMAIN q.heap = 1..Len(q.heap)
         /\ \A i \in DOMAIN q.heap : q.heap[i] \in TimerSet(K, W)
BY DEF Queues

LEMMA RecordHeap ==
  ASSUME NEW K, NEW W, NEW q \in Queues(K, W), NEW h
  PROVE  [q EXCEPT !.heap = h] = [heap |-> h, index |-> q.index]
BY DEF Queues

LEMMA TimerFacts ==
  ASSUME NEW K, NEW W, NEW q \in Queues(K, W), NEW i \in DOMAIN q.heap
  PROVE  /\ i \in Nat /\ i > 0
         /\ q.heap[i].key \in K /\ q.heap[i].expiresAt \in Int /\ q.heap[i].word \in W
<1>1. i \in 1..Len(q.heap) /\ Len(q.heap) \in Nat /\ q.heap[i] \in TimerSet(K, W)
  BY QueueFacts
<1> QED BY <1>1 DEF TimerSet

\* Two timers with one word are one.
LEMMA WordsDiffer ==
  ASSUME NEW K, NEW W, NEW q \in Queues(K, W), Indexed(q),
         NEW i \in DOMAIN q.heap, NEW j \in DOMAIN q.heap, q.heap[i].word = q.heap[j].word
  PROVE  i = j
BY QueueFacts DEF Indexed

LEMMA RearrangedTwice ==
  ASSUME NEW K, NEW W, NEW p \in Queues(K, W), NEW q \in Queues(K, W), NEW r \in Queues(K, W),
         Rearranged(p, q), Rearranged(q, r)
  PROVE  Rearranged(p, r)
<1>1. Words(q) = Words(p)
  <2>1. Words(p) = {t.word : t \in Timers(p)} /\ Words(q) = {t.word : t \in Timers(q)}
    BY DEF Words, Timers
  <2> QED BY <2>1 DEF Rearranged
<1>2. DOMAIN p.index = W /\ DOMAIN q.index = W
  BY QueueFacts
<1> QED BY <1>1, <1>2 DEF Rearranged

\* Two timers change places, and their words follow.
LEMMA SwapCorrect ==
  ASSUME NEW K, NEW W, NEW q \in Queues(K, W), Indexed(q),
         NEW i \in DOMAIN q.heap, NEW j \in DOMAIN q.heap,
         NEW r, r = SwapEntries(q, i, j)
  PROVE  /\ r \in Queues(K, W) /\ Indexed(r) /\ Rearranged(q, r)
         /\ r.heap = [q.heap EXCEPT ![i] = q.heap[j], ![j] = q.heap[i]]
<1> DEFINE h == [q.heap EXCEPT ![i] = q.heap[j], ![j] = q.heap[i]]
           x == [q.index EXCEPT ![h[i].word] = i, ![h[j].word] = j]
<1>1. r = [heap |-> h, index |-> x]
  BY DEF SwapEntries
<1>2. i \in Nat /\ j \in Nat /\ i \in 1..Len(q.heap) /\ j \in 1..Len(q.heap)
  BY QueueFacts
<1>3. /\ h \in Seq(TimerSet(K, W)) /\ Len(h) = Len(q.heap) /\ DOMAIN h = DOMAIN q.heap
      /\ h[i] = q.heap[j] /\ h[j] = q.heap[i]
      /\ \A l \in DOMAIN q.heap \ {i, j} : h[l] = q.heap[l]
  BY <1>2, QueueFacts
<1>4. h[i].word \in W /\ h[j].word \in W
  BY <1>3, QueueFacts DEF TimerSet
<1> HIDE DEF h
<1>5. /\ x \in [W -> Nat]
      /\ x[h[j].word] = j
      /\ h[i].word # h[j].word => x[h[i].word] = i
      /\ \A w \in W : w # h[i].word /\ w # h[j].word => x[w] = q.index[w]
  BY <1>2, <1>4, QueueFacts
<1> HIDE DEF x
<1>6. r \in Queues(K, W)
  BY <1>1, <1>3, <1>5 DEF Queues
<1>7. h[i].word = h[j].word => i = j
  BY <1>3, WordsDiffer
<1>8. ASSUME NEW l \in DOMAIN h PROVE x[h[l].word] = l
  <2>1. CASE l \in {i, j}
    BY <1>5, <1>7, <2>1
  <2>2. CASE l \notin {i, j}
    <3>1. h[l] = q.heap[l] /\ h[l].word \in W
      BY <1>3, <2>2, QueueFacts DEF TimerSet
    <3>2. h[l].word # h[i].word /\ h[l].word # h[j].word
      BY <1>3, <2>2, <3>1, WordsDiffer
    <3>3. q.index[h[l].word] = l
      BY <1>3, <3>1 DEF Indexed
    <3> QED BY <1>5, <3>1, <3>2, <3>3
  <2> QED BY <2>1, <2>2
<1>9. Indexed(r)
  BY <1>1, <1>8 DEF Indexed
<1>10. Timers(r) = Timers(q)
  <2>1. ASSUME NEW l \in DOMAIN h PROVE h[l] \in Timers(q)
    BY <1>3 DEF Timers
  <2>2. ASSUME NEW l \in DOMAIN q.heap PROVE q.heap[l] \in {h[m] : m \in DOMAIN h}
    BY <1>3
  <2>3. Timers(r) = {h[m] : m \in DOMAIN h}
    BY <1>1 DEF Timers
  <2> QED BY <2>1, <2>2, <2>3 DEF Timers
<1>11. ASSUME NEW w \in W, w \notin Words(q) PROVE x[w] = q.index[w]
  BY <1>3, <1>5, <1>11 DEF Words
<1>12. Rearranged(q, r)
  BY <1>1, <1>3, <1>10, <1>11, QueueFacts DEF Rearranged
<1> QED BY <1>1, <1>6, <1>9, <1>12 DEF h

-----------------------------------------------------------------------------
(* heapifyUp                                                               *)

\* Heap order but for the timer at p, which may be due before the one above.
OrderedButAbove(q, p) ==
  /\ \A j \in DOMAIN q.heap : j > 1 /\ j # p => ~ Before(q, j, j \div 2)
  /\ \A j \in DOMAIN q.heap : j \div 2 = p /\ p > 1 => ~ Before(q, j, p \div 2)

LEMMA RaisedOrder ==
  ASSUME NEW K, NEW W, NEW q \in Queues(K, W), NEW p \in DOMAIN q.heap, p > 1,
         OrderedButAbove(q, p), Before(q, p, p \div 2),
         NEW r \in Queues(K, W),
         r.heap = [q.heap EXCEPT ![p] = q.heap[p \div 2], ![p \div 2] = q.heap[p]]
  PROVE  p \div 2 \in DOMAIN r.heap /\ OrderedButAbove(r, p \div 2)
<1> DEFINE m == p \div 2
           due(i) == q.heap[i].expiresAt
           then(i) == r.heap[i].expiresAt
<1>1. p \in Nat /\ m \in 1..(p - 1) /\ m \in DOMAIN q.heap /\ DOMAIN r.heap = DOMAIN q.heap
  BY QueueFacts, Halves
<1>2. \A i \in DOMAIN q.heap : i \in Nat /\ i > 0 /\ due(i) \in Int
  BY TimerFacts
<1>3. \A j \in DOMAIN q.heap : j > 1 => j \div 2 \in DOMAIN q.heap /\ j \div 2 < j
  BY QueueFacts, Halves
<1>4. /\ then(p) = due(m) /\ then(m) = due(p)
      /\ \A i \in DOMAIN q.heap : i # p /\ i # m => then(i) = due(i)
  BY <1>1
<1>5. /\ \A j \in DOMAIN q.heap : j > 1 /\ j # p => ~ (due(j) < due(j \div 2))
      /\ \A j \in DOMAIN q.heap : j \div 2 = p => ~ (due(j) < due(m))
      /\ due(p) < due(m)
  BY DEF OrderedButAbove, Before
<1> HIDE DEF m, due, then
<1>6. ASSUME NEW j \in DOMAIN q.heap, j > 1, j # m PROVE ~ (then(j) < then(j \div 2))
  <2>1. CASE j = p
    BY <1>1, <1>2, <1>4, <1>5, <2>1 DEF m
  <2>2. CASE j # p /\ j \div 2 = m
    <3>1. then(j) = due(j) /\ ~ (due(j) < due(m)) /\ then(m) = due(p)
      BY <1>4, <1>5, <1>6, <2>2
    <3>2. due(j) \in Int /\ due(m) \in Int /\ due(p) \in Int
      BY <1>1, <1>2
    <3> QED BY <1>5, <2>2, <3>1, <3>2
  <2>3. CASE j # p /\ j \div 2 = p
    BY <1>4, <1>5, <1>6, <2>3
  <2>4. CASE j # p /\ j \div 2 # m /\ j \div 2 # p
    BY <1>3, <1>4, <1>5, <1>6, <2>4
  <2> QED BY <2>1, <2>2, <2>3, <2>4
<1>7. ASSUME NEW j \in DOMAIN q.heap, j \div 2 = m, m > 1 PROVE ~ (then(j) < then(m \div 2))
  <2>1. m \div 2 \in DOMAIN q.heap /\ m \div 2 < m /\ then(m \div 2) = due(m \div 2)
    BY <1>1, <1>3, <1>4, <1>7
  <2>2. ~ (due(m) < due(m \div 2))
    BY <1>1, <1>5, <1>7
  <2>3. CASE j = p
    BY <1>4, <2>1, <2>2, <2>3
  <2>4. CASE j # p
    <3>1. j > 1 /\ j # m
      BY <1>1, <1>2, <1>7, Halves
    <3>2. then(j) = due(j) /\ ~ (due(j) < due(m))
      BY <1>4, <1>5, <1>7, <2>4, <3>1
    <3>3. due(j) \in Int /\ due(m) \in Int /\ due(m \div 2) \in Int
      BY <1>1, <1>2, <2>1
    <3> QED BY <2>1, <2>2, <3>2, <3>3
  <2> QED BY <2>3, <2>4
<1>8. OrderedButAbove(r, m)
  BY <1>1, <1>6, <1>7 DEF OrderedButAbove, Before, then
<1> QED BY <1>1, <1>8 DEF m

\* What a sift that began at i with q may have come to.
Rising(K, W, q) ==
  {s \in [q : Queues(K, W), at : Nat] :
     /\ s.at \in DOMAIN s.q.heap
     /\ Indexed(s.q) /\ Rearranged(q, s.q) /\ OrderedButAbove(s.q, s.at)}

LEMMA RaiseOneStays ==
  ASSUME NEW K, NEW W, NEW q \in Queues(K, W), NEW s \in Rising(K, W, q)
  PROVE  /\ RaiseOne(s) \in Rising(K, W, q)
         /\ RaiseOne(s) = s \/ RaiseOne(s).at < s.at
         /\ RaiseOne(s) = s => Ordered(s.q)
<1> DEFINE p == s.at
           m == s.at \div 2
<1>1. /\ s.q \in Queues(K, W) /\ p \in Nat /\ p > 0 /\ p \in DOMAIN s.q.heap
      /\ Indexed(s.q) /\ Rearranged(q, s.q) /\ OrderedButAbove(s.q, p)
  BY TimerFacts DEF Rising
<1>2. CASE p > 1 /\ Before(s.q, p, m)
  <2>1. PICK r : r = SwapEntries(s.q, p, m)
    OBVIOUS
  <2>2. m \in 1..(p - 1) /\ m \in DOMAIN s.q.heap
    BY <1>1, <1>2, Halves, QueueFacts
  <2>3. /\ r \in Queues(K, W) /\ Indexed(r) /\ Rearranged(s.q, r)
        /\ r.heap = [s.q.heap EXCEPT ![p] = s.q.heap[m], ![m] = s.q.heap[p]]
    BY <1>1, <2>1, <2>2, SwapCorrect
  <2>4. m \in DOMAIN r.heap /\ OrderedButAbove(r, m)
    BY <1>1, <1>2, <2>3, RaisedOrder
  <2>5. Rearranged(q, r)
    BY <1>1, <2>3, RearrangedTwice
  <2>6. RaiseOne(s) = [q |-> r, at |-> m]
    BY <1>2, <2>1 DEF RaiseOne
  <2>7. RaiseOne(s) \in Rising(K, W, q)
    BY <2>2, <2>3, <2>4, <2>5, <2>6 DEF Rising
  <2>8. RaiseOne(s).at < s.at
    BY <1>1, <2>2, <2>6
  <2> QED BY <1>1, <2>7, <2>8
<1>3. CASE ~ (p > 1 /\ Before(s.q, p, m))
  <2>1. RaiseOne(s) = s
    BY <1>3 DEF RaiseOne
  <2>2. Ordered(s.q)
    BY <1>1, <1>3 DEF Ordered, OrderedButAbove
  <2> QED BY <2>1, <2>2
<1> QED BY <1>2, <1>3

\* A sift upwards restores the heap order.
LEMMA HeapifyUpCorrect ==
  ASSUME NEW K, NEW W, NEW q \in Queues(K, W), NEW i \in DOMAIN q.heap,
         Indexed(q), OrderedButAbove(q, i),
         NEW r, r = HeapifyUp(q, i)
  PROVE  r \in Queues(K, W) /\ Indexed(r) /\ Rearranged(q, r) /\ Ordered(r)
<1> DEFINE S == Rising(K, W, q)
           start == [q |-> q, at |-> i]
           n == Len(q.heap)
           F == [s \in S |-> RaiseOne(s)]
           M == [s \in S |-> s.at]
           after == CHOOSE after : after = [m \in 0..n |->
                      IF m = 0 THEN start ELSE RaiseOne(after[m - 1])]
<1>1. n \in Nat /\ i \in 1..n
  BY QueueFacts
<1>2. start \in S
  <2>1. Rearranged(q, q)
    BY DEF Rearranged
  <2> QED BY <1>1, <2>1 DEF Rising
<1>3. F \in [S -> S] /\ Shrinks(M, S, F)
  <2>1. \A s \in S : s.at \in Nat
    BY DEF Rising
  <2>2. \A s \in S : RaiseOne(s) \in S /\ (RaiseOne(s) = s \/ RaiseOne(s).at < s.at)
    BY RaiseOneStays
  <2> HIDE DEF S
  <2> QED BY <2>1, <2>2 DEF Shrinks
<1>4. M[start] <= n
  BY <1>1, <1>2
<1> HIDE DEF S
<1>5. PICK g : g \in [0..n -> S] /\ Follows(g, S, F, start, n)
  <2> HIDE DEF F, start
  <2> QED BY <1>1, <1>2, <1>3, RoundsExist
<1>6. g = [m \in 0..n |-> IF m = 0 THEN start ELSE RaiseOne(g[m - 1])]
  <2>1. \A m \in 1..n : g[m - 1] \in S
    BY <1>1, <1>5
  <2>2. \A m \in 1..n : g[m] = RaiseOne(g[m - 1])
    BY <1>5, <2>1 DEF Follows
  <2> HIDE DEF start
  <2> QED BY <1>1, <1>5, <2>2 DEF Follows
<1>7. after = [m \in 0..n |-> IF m = 0 THEN start ELSE RaiseOne(after[m - 1])]
  BY <1>6
<1>8. r = after[n].q
  BY DEF HeapifyUp
<1> HIDE DEF after
<1>9. Follows(after, S, F, start, n)
  <2>1. \A m \in 0..n : after[m] = IF m = 0 THEN start ELSE RaiseOne(after[m - 1])
    BY <1>7
  <2> HIDE DEF start
  <2> QED BY <1>1, <2>1 DEF Follows
<1>10. after[n] \in S /\ F[after[n]] = after[n]
  <2> HIDE DEF F, M, start
  <2> QED BY <1>1, <1>2, <1>3, <1>4, <1>9, RoundsSettle
<1>11. RaiseOne(after[n]) = after[n]
  BY <1>10
<1> QED BY <1>8, <1>10, <1>11, RaiseOneStays DEF S, Rising

-----------------------------------------------------------------------------
(* heapifyDown                                                             *)

\* Heap order but for the timer at p, above and below.
OrderedButAt(q, p) ==
  /\ \A j \in DOMAIN q.heap : j > 1 /\ j # p /\ j \div 2 # p => ~ Before(q, j, j \div 2)
  /\ \A j \in DOMAIN q.heap : j \div 2 = p /\ p > 1 => ~ Before(q, j, p \div 2)

RightAbove(q, p) == p > 1 => ~ Before(q, p, p \div 2)

LEMMA OrderedAnywhere ==
  ASSUME NEW K, NEW W, NEW q \in Queues(K, W), Ordered(q), NEW p \in DOMAIN q.heap
  PROVE  OrderedButAbove(q, p) /\ OrderedButAt(q, p) /\ RightAbove(q, p)
<1>1. ASSUME NEW j \in DOMAIN q.heap, j \div 2 = p, p > 1 PROVE ~ Before(q, j, p \div 2)
  <2>1. j \in Nat /\ p \in Nat
    BY TimerFacts
  <2>2. j > 1
    BY <2>1, <1>1
  <2>3. p \div 2 \in DOMAIN q.heap
    BY <1>1, <2>1, Halves, QueueFacts
  <2>4. ~ Before(q, j, p) /\ ~ Before(q, p, p \div 2)
    BY <1>1, <2>2 DEF Ordered
  <2>5. /\ q.heap[j].expiresAt \in Int /\ q.heap[p].expiresAt \in Int
        /\ q.heap[p \div 2].expiresAt \in Int
    BY <2>3, TimerFacts
  <2> QED BY <2>4, <2>5 DEF Before
<1> QED BY <1>1 DEF Ordered, OrderedButAbove, OrderedButAt, RightAbove

\* Of a timer and those below it, the one that is due first.
LEMMA SmallestIs ==
  ASSUME NEW K, NEW W, NEW q \in Queues(K, W), NEW p \in DOMAIN q.heap
  PROVE  LET c == Smallest(q, p)
         IN /\ c \in DOMAIN q.heap /\ c \in Nat /\ c \in {p, 2 * p, 2 * p + 1}
            /\ \A d \in DOMAIN q.heap : d \in {p, 2 * p, 2 * p + 1} => ~ Before(q, d, c)
            /\ c # p => Before(q, c, p)
<1> DEFINE C == {p, 2 * p, 2 * p + 1} \cap DOMAIN q.heap
           Good(c) == \A d \in C : Before(q, c, d) \/ (~ Before(q, d, c) /\ c <= d)
           c == Smallest(q, p)
<1>1. p \in Nat /\ p > 0
  BY TimerFacts
<1>2. \A i \in C : i \in Nat /\ q.heap[i].expiresAt \in Int
  BY TimerFacts
<1>3. \E m \in C : Good(m)
  <2> DEFINE Le(m, d) == Before(q, m, d) \/ (~ Before(q, d, m) /\ m <= d)
  <2>1. \A m \in C, d \in C, e \in C : Le(m, d) /\ Le(d, e) => Le(m, e)
    BY <1>2 DEF Before
  <2>2. \A m \in C, d \in C : Le(m, d) \/ Le(d, m)
    BY <1>2 DEF Before
  <2>3. p \in C
    OBVIOUS
  <2> HIDE DEF Le
  <2>4. \E m \in C : \A d \in C : Le(m, d)
    <3> DEFINE l == 2 * p
               r == 2 * p + 1
    <3>1. C \subseteq {p, l, r}
      OBVIOUS
    <3> HIDE DEF C, l, r
    <3>2. PICK m \in C : Le(m, p) /\ (l \in C => Le(m, l))
      <4>1. CASE l \in C
        BY <2>2, <2>3, <4>1
      <4>2. CASE l \notin C
        BY <2>2, <2>3, <4>2
      <4> QED BY <4>1, <4>2
    <3>3. CASE r \in C /\ Le(r, m)
      BY <2>1, <2>2, <2>3, <3>1, <3>2, <3>3
    <3>4. CASE r \notin C \/ Le(m, r)
      BY <2>2, <3>1, <3>2, <3>4
    <3> QED BY <2>2, <3>3, <3>4
  <2> QED BY <2>4 DEF Le
<1>4. c \in C /\ Good(c)
  <2>1. c = CHOOSE m \in C : Good(m)
    BY DEF Smallest
  <2> HIDE DEF c, C, Good
  <2> QED BY <1>3, <2>1
<1> HIDE DEF c
<1>5. p \in C /\ c \in Nat /\ q.heap[c].expiresAt \in Int /\ q.heap[p].expiresAt \in Int
  BY <1>2, <1>4
<1>6. \A d \in C : ~ Before(q, d, c)
  BY <1>2, <1>4 DEF Before
<1>7. c # p => Before(q, c, p)
  <2>1. c # p => c > p
    BY <1>1, <1>4
  <2> QED BY <1>1, <1>4, <1>5, <2>1
<1> QED BY <1>4, <1>5, <1>6, <1>7 DEF c

LEMMA LoweredOrder ==
  ASSUME NEW K, NEW W, NEW q \in Queues(K, W), NEW p \in DOMAIN q.heap, OrderedButAt(q, p),
         NEW c \in DOMAIN q.heap, c \in {2 * p, 2 * p + 1}, Before(q, c, p),
         \A d \in DOMAIN q.heap : d \in {2 * p, 2 * p + 1} => ~ Before(q, d, c),
         NEW r \in Queues(K, W),
         r.heap = [q.heap EXCEPT ![p] = q.heap[c], ![c] = q.heap[p]]
  PROVE  c \in DOMAIN r.heap /\ OrderedButAt(r, c) /\ RightAbove(r, c)
<1> DEFINE due(i) == q.heap[i].expiresAt
           then(i) == r.heap[i].expiresAt
<1>1. p \in Nat /\ p > 0 /\ c \in Nat /\ c > p /\ c \div 2 = p /\ DOMAIN r.heap = DOMAIN q.heap
  <2>1. p \in Nat /\ p > 0 /\ c \in Nat
    BY TimerFacts
  <2>2. c > p /\ c \div 2 = p
    BY <2>1, HalvesOfChildren
  <2>3. DOMAIN r.heap = DOMAIN q.heap
    OBVIOUS
  <2> QED BY <2>1, <2>2, <2>3
<1>2. \A i \in DOMAIN q.heap : i \in Nat /\ i > 0 /\ due(i) \in Int
  BY TimerFacts
<1>3. \A j \in DOMAIN q.heap : j > 1 => j \div 2 \in DOMAIN q.heap /\ j \div 2 < j
  BY QueueFacts, Halves
<1>4. \A j \in DOMAIN q.heap : j > 1 /\ j \div 2 = p => j \in {2 * p, 2 * p + 1}
  BY <1>1, <1>2, Halves
<1>5. /\ then(p) = due(c) /\ then(c) = due(p)
      /\ \A i \in DOMAIN q.heap : i # p /\ i # c => then(i) = due(i)
  BY <1>1
<1>6. /\ \A j \in DOMAIN q.heap : j > 1 /\ j # p /\ j \div 2 # p => ~ (due(j) < due(j \div 2))
      /\ \A j \in DOMAIN q.heap : j \div 2 = p /\ p > 1 => ~ (due(j) < due(p \div 2))
      /\ due(c) < due(p)
      /\ \A d \in DOMAIN q.heap : d \in {2 * p, 2 * p + 1} => ~ (due(d) < due(c))
  BY DEF OrderedButAt, Before
<1> HIDE DEF due, then
<1>7. ASSUME NEW j \in DOMAIN q.heap, j > 1, j # c, j \div 2 # c PROVE ~ (then(j) < then(j \div 2))
  <2>1. CASE j = p
    <3>1. j \div 2 # p /\ then(j \div 2) = due(j \div 2)
      BY <1>1, <1>3, <1>5, <1>7, <2>1
    <3>2. ~ (due(c) < due(p \div 2))
      BY <1>1, <1>6, <1>7, <2>1
    <3> QED BY <1>5, <2>1, <3>1, <3>2
  <2>2. CASE j # p /\ j \div 2 = p
    BY <1>4, <1>5, <1>6, <1>7, <2>2
  <2>3. CASE j # p /\ j \div 2 # p
    BY <1>3, <1>5, <1>6, <1>7, <2>3
  <2> QED BY <2>1, <2>2, <2>3
<1>8. ASSUME NEW j \in DOMAIN q.heap, j \div 2 = c PROVE ~ (then(j) < then(c \div 2))
  <2>1. j \in Nat /\ j > 1 /\ j > c
    BY <1>1, <1>2, <1>8, Halves
  <2>2. j # p /\ j # c /\ j \div 2 # p
    BY <1>1, <1>8, <2>1
  <2>3. then(j) = due(j) /\ ~ (due(j) < due(c)) /\ then(c \div 2) = due(c)
    BY <1>1, <1>5, <1>6, <1>8, <2>1, <2>2
  <2> QED BY <2>3
<1>9. ~ (then(c) < then(c \div 2))
  BY <1>1, <1>2, <1>5, <1>6
<1>10. OrderedButAt(r, c) /\ RightAbove(r, c)
  BY <1>1, <1>7, <1>8, <1>9 DEF OrderedButAt, RightAbove, Before, then
<1> QED BY <1>1, <1>10

\* What a sift that began at i with q may have come to.
Sinking(K, W, q, i) ==
  {s \in [q : Queues(K, W), at : Nat] :
     /\ s.at \in DOMAIN s.q.heap
     /\ Indexed(s.q) /\ Rearranged(q, s.q) /\ OrderedButAt(s.q, s.at)
     /\ RightAbove(s.q, s.at) \/ (s.q = q /\ s.at = i)}

LEMMA LowerOneStays ==
  ASSUME NEW K, NEW W, NEW q \in Queues(K, W), NEW i, NEW s \in Sinking(K, W, q, i)
  PROVE  /\ LowerOne(s) \in Sinking(K, W, q, i)
         /\ LowerOne(s) = s \/ LowerOne(s).at > s.at
         /\ LowerOne(s) = s => /\ OrderedButAbove(s.q, s.at)
                               /\ RightAbove(s.q, s.at) => Ordered(s.q)
<1> DEFINE p == s.at
           c == Smallest(s.q, p)
<1>1. /\ s.q \in Queues(K, W) /\ p \in Nat /\ p > 0 /\ p \in DOMAIN s.q.heap
      /\ Indexed(s.q) /\ Rearranged(q, s.q) /\ OrderedButAt(s.q, p)
  BY TimerFacts DEF Sinking
<1>2. /\ c \in DOMAIN s.q.heap /\ c \in Nat /\ c \in {p, 2 * p, 2 * p + 1}
      /\ \A d \in DOMAIN s.q.heap : d \in {p, 2 * p, 2 * p + 1} => ~ Before(s.q, d, c)
      /\ c # p => Before(s.q, c, p)
  BY <1>1, SmallestIs
<1> HIDE DEF c
<1>3. CASE c # p
  <2>1. PICK r : r = SwapEntries(s.q, p, c)
    OBVIOUS
  <2>2. /\ r \in Queues(K, W) /\ Indexed(r) /\ Rearranged(s.q, r)
        /\ r.heap = [s.q.heap EXCEPT ![p] = s.q.heap[c], ![c] = s.q.heap[p]]
    BY <1>1, <1>2, <2>1, SwapCorrect
  <2>3. c \in DOMAIN r.heap /\ OrderedButAt(r, c) /\ RightAbove(r, c)
    BY <1>1, <1>2, <1>3, <2>2, LoweredOrder
  <2>4. Rearranged(q, r)
    BY <1>1, <2>2, RearrangedTwice
  <2>5. LowerOne(s) = [q |-> r, at |-> c]
    BY <1>3, <2>1 DEF LowerOne, c
  <2>6. LowerOne(s) \in Sinking(K, W, q, i)
    BY <1>2, <2>2, <2>3, <2>4, <2>5 DEF Sinking
  <2>7. LowerOne(s).at > s.at
    BY <1>1, <1>2, <1>3, <2>5
  <2> QED BY <1>1, <2>6, <2>7
<1>4. CASE c = p
  <2>1. LowerOne(s) = s
    BY <1>4 DEF LowerOne, c
  <2>2. ASSUME NEW j \in DOMAIN s.q.heap, j > 1, j # p PROVE ~ Before(s.q, j, j \div 2)
    <3>1. j \in Nat
      BY <1>1, TimerFacts
    <3>2. CASE j \div 2 = p
      <4>1. j \in {2 * p, 2 * p + 1}
        BY <2>2, <3>1, <3>2, Halves
      <4> QED BY <1>2, <1>4, <3>2, <4>1
    <3>3. CASE j \div 2 # p
      BY <1>1, <2>2, <3>3 DEF OrderedButAt
    <3> QED BY <3>2, <3>3
  <2>3. OrderedButAbove(s.q, p)
    BY <1>1, <2>2 DEF OrderedButAbove, OrderedButAt
  <2>4. RightAbove(s.q, p) => Ordered(s.q)
    BY <2>2 DEF Ordered, RightAbove
  <2> QED BY <2>1, <2>3, <2>4
<1> QED BY <1>3, <1>4

\* A sift downwards restores the heap order, unless the timer was due before the
\* one above it: then it stays where it is.
LEMMA HeapifyDownCorrect ==
  ASSUME NEW K, NEW W, NEW q \in Queues(K, W), NEW i \in DOMAIN q.heap,
         Indexed(q), OrderedButAt(q, i),
         NEW r, r = HeapifyDown(q, i)
  PROVE  /\ r \in Queues(K, W) /\ Indexed(r) /\ Rearranged(q, r)
         /\ OrderedButAbove(r, i)
         /\ RightAbove(q, i) => Ordered(r)
<1> DEFINE S == Sinking(K, W, q, i)
           start == [q |-> q, at |-> i]
           n == Len(q.heap)
           F == [s \in S |-> LowerOne(s)]
           M == [s \in S |-> n - s.at]
           after == CHOOSE after : after = [m \in 0..n |->
                      IF m = 0 THEN start ELSE LowerOne(after[m - 1])]
<1>1. n \in Nat /\ i \in 1..n
  BY QueueFacts
<1>2. start \in S
  <2>1. Rearranged(q, q)
    BY DEF Rearranged
  <2> QED BY <1>1, <2>1 DEF Sinking
<1>3. F \in [S -> S] /\ Shrinks(M, S, F)
  <2>1. ASSUME NEW s \in S PROVE s.at \in Nat /\ n - s.at \in Nat
    <3>1. s.q \in Queues(K, W) /\ s.at \in DOMAIN s.q.heap /\ Len(s.q.heap) = n
      BY DEF Sinking, Rearranged
    <3>2. s.at \in 1..n
      BY <3>1, QueueFacts
    <3> QED BY <1>1, <3>2
  <2>2. \A s \in S : LowerOne(s) \in S /\ (LowerOne(s) = s \/ LowerOne(s).at > s.at)
    BY LowerOneStays
  <2> HIDE DEF S, n
  <2>3. F \in [S -> S] /\ M \in [S -> Nat]
    BY <2>1, <2>2
  <2>4. ASSUME NEW s \in S PROVE F[s] = s \/ M[F[s]] < M[s]
    <3>1. M[s] = n - s.at /\ M[LowerOne(s)] = n - LowerOne(s).at /\ F[s] = LowerOne(s)
      BY <2>2
    <3>2. s.at \in Nat /\ LowerOne(s).at \in Nat /\ n \in Nat
      BY <1>1, <2>1, <2>2
    <3> HIDE DEF F, M
    <3> QED BY <2>2, <3>1, <3>2
  <2> QED BY <2>3, <2>4 DEF Shrinks
<1>4. M[start] <= n
  BY <1>1, <1>2
<1> HIDE DEF S
<1>5. PICK g : g \in [0..n -> S] /\ Follows(g, S, F, start, n)
  <2> HIDE DEF F, start
  <2> QED BY <1>1, <1>2, <1>3, RoundsExist
<1>6. g = [m \in 0..n |-> IF m = 0 THEN start ELSE LowerOne(g[m - 1])]
  <2>1. \A m \in 1..n : g[m - 1] \in S
    BY <1>1, <1>5
  <2>2. \A m \in 1..n : g[m] = LowerOne(g[m - 1])
    BY <1>5, <2>1 DEF Follows
  <2> HIDE DEF start
  <2> QED BY <1>1, <1>5, <2>2 DEF Follows
<1>7. after = [m \in 0..n |-> IF m = 0 THEN start ELSE LowerOne(after[m - 1])]
  BY <1>6
<1>8. r = after[n].q
  BY DEF HeapifyDown
<1> HIDE DEF after
<1>9. Follows(after, S, F, start, n)
  <2>1. \A m \in 0..n : after[m] = IF m = 0 THEN start ELSE LowerOne(after[m - 1])
    BY <1>7
  <2> HIDE DEF start
  <2> QED BY <1>1, <2>1 DEF Follows
<1>10. after[n] \in S /\ F[after[n]] = after[n]
  <2> HIDE DEF F, M, start
  <2> QED BY <1>1, <1>2, <1>3, <1>4, <1>9, RoundsSettle
<1> DEFINE s == after[n]
<1>11. /\ r = s.q /\ r \in Queues(K, W) /\ Indexed(r) /\ Rearranged(q, r)
       /\ s.at \in DOMAIN r.heap
       /\ RightAbove(r, s.at) \/ (r = q /\ s.at = i)
  BY <1>8, <1>10 DEF S, Sinking
<1>12. OrderedButAbove(r, s.at) /\ (RightAbove(r, s.at) => Ordered(r))
  <2>1. LowerOne(s) = s
    BY <1>10
  <2> QED BY <1>10, <1>11, <2>1, LowerOneStays DEF S
<1> HIDE DEF s
<1>13. i \in DOMAIN r.heap
  BY <1>1, <1>11, QueueFacts DEF Rearranged
<1>14. CASE RightAbove(r, s.at)
  BY <1>11, <1>12, <1>13, <1>14, OrderedAnywhere
<1>15. CASE r = q /\ s.at = i
  BY <1>11, <1>12, <1>15
<1> QED BY <1>11, <1>14, <1>15

-----------------------------------------------------------------------------
(* The operations                                                          *)

\* No key has two timers.
KeysDiffer(q) ==
  \A i, j \in DOMAIN q.heap : q.heap[i].key = q.heap[j].key => i = j

\* What is true of the heap between any two operations.
Sound(K, W, q) == q \in Queues(K, W) /\ Indexed(q) /\ Ordered(q) /\ KeysDiffer(q)

\* Between queues in which keys do not repeat, only the timers matter.
LEMMA KeysStayDifferent ==
  ASSUME NEW K, NEW W, NEW q \in Queues(K, W), Indexed(q),
         \A t, u \in Timers(q) : t.key = u.key => t = u
  PROVE  KeysDiffer(q)
<1> SUFFICES ASSUME NEW i \in DOMAIN q.heap, NEW j \in DOMAIN q.heap,
                    q.heap[i].key = q.heap[j].key
             PROVE  i = j
  BY DEF KeysDiffer
<1>1. q.heap[i] = q.heap[j]
  BY DEF Timers
<1> QED BY <1>1, WordsDiffer

LEMMA KeysNameTimers ==
  ASSUME NEW q, KeysDiffer(q)
  PROVE  \A t, u \in Timers(q) : t.key = u.key => t = u
BY DEF KeysDiffer, Timers

\* The timer in front is one that none of the others is due before: top().
LEMMA FirstIsEarliest ==
  ASSUME NEW K, NEW W, NEW q \in Queues(K, W), Ordered(q), NEW i \in DOMAIN q.heap
  PROVE  1 \in DOMAIN q.heap /\ ~ Before(q, i, 1)
<1> DEFINE Late == {j \in DOMAIN q.heap : Before(q, j, 1)}
<1>1. 1 \in DOMAIN q.heap
  BY QueueFacts
<1>2. SUFFICES ASSUME Late # {} PROVE FALSE
  BY <1>1
<1>3. PICK j \in Late : \A l \in Late : j <= l
  <2>1. Late \subseteq Nat
    BY TimerFacts
  <2> HIDE DEF Late
  <2> QED BY <1>2, <2>1, LeastElement
<1>4. j \in DOMAIN q.heap /\ j \in Nat /\ j > 0 /\ Before(q, j, 1)
  BY TimerFacts
<1>5. j # 1
  BY <1>1, <1>4, TimerFacts DEF Before
<1>6. j \div 2 \in DOMAIN q.heap /\ j \div 2 < j /\ j \div 2 \in Nat
  BY <1>4, <1>5, Halves, QueueFacts
<1>7. j \div 2 \notin Late
  BY <1>3, <1>4, <1>6
<1>8. ~ Before(q, j \div 2, 1) /\ ~ Before(q, j, j \div 2)
  BY <1>4, <1>5, <1>6, <1>7 DEF Ordered
<1>9. /\ q.heap[j].expiresAt \in Int /\ q.heap[j \div 2].expiresAt \in Int
      /\ q.heap[1].expiresAt \in Int
  BY <1>1, <1>4, <1>6, TimerFacts
<1> QED BY <1>4, <1>8, <1>9 DEF Before

\* push: one timer more.
LEMMA PushCorrect ==
  ASSUME NEW K, NEW W, NEW q, Sound(K, W, q),
         NEW t \in TimerSet(K, W), t.word \notin Words(q), \A u \in Timers(q) : u.key # t.key,
         NEW r, r = PushTimer(q, t)
  PROVE  /\ Sound(K, W, r)
         /\ Len(r.heap) = Len(q.heap) + 1
         /\ Timers(r) = Timers(q) \cup {t}
         /\ \A w \in W : w \notin Words(q) \cup {t.word} => r.index[w] = q.index[w]
<1> DEFINE n == Len(q.heap) + 1
           p == [heap |-> Append(q.heap, t), index |-> [q.index EXCEPT ![t.word] = n]]
<1>1. q \in Queues(K, W) /\ Indexed(q) /\ Ordered(q) /\ KeysDiffer(q) /\ n \in Nat /\ n > 0
  BY QueueFacts DEF Sound
<1>2. /\ p.heap \in Seq(TimerSet(K, W)) /\ Len(p.heap) = n /\ DOMAIN p.heap = 1..n
      /\ p.heap[n] = t
      /\ DOMAIN q.heap = 1..(n - 1)
      /\ \A i \in 1..(n - 1) : p.heap[i] = q.heap[i]
  BY <1>1, QueueFacts
<1>3. /\ t.word \in W
      /\ p.index \in [W -> Nat] /\ p.index[t.word] = n
      /\ \A w \in W : w # t.word => p.index[w] = q.index[w]
  <2>1. t.word \in W
    BY DEF TimerSet
  <2>2. q.index \in [W -> Nat]
    BY <1>1, QueueFacts
  <2> QED BY <1>1, <2>1, <2>2
<1>4. p \in Queues(K, W)
  BY <1>2, <1>3 DEF Queues
<1>5. r = HeapifyUp(p, n)
  BY DEF PushTimer
<1> HIDE DEF p, n
<1>6. ASSUME NEW i \in 1..(n - 1) PROVE q.heap[i].word \in W /\ q.heap[i].word # t.word
  BY <1>1, <1>2, TimerFacts DEF Words
<1>7. Indexed(p)
  <2> SUFFICES ASSUME NEW i \in 1..n PROVE p.index[p.heap[i].word] = i
    BY <1>2 DEF Indexed
  <2>1. CASE i = n
    BY <1>2, <1>3, <2>1
  <2>2. CASE i # n
    <3>1. i \in 1..(n - 1)
      BY <1>1, <2>2
    <3>2. q.heap[i].word \in W /\ q.heap[i].word # t.word /\ q.index[q.heap[i].word] = i
      BY <1>1, <1>2, <1>6, <3>1 DEF Indexed
    <3>3. p.index[q.heap[i].word] = i
      BY <1>3, <3>2
    <3> QED BY <1>2, <3>1, <3>3
  <2> QED BY <2>1, <2>2
<1>8. OrderedButAbove(p, n)
  <2>1. ASSUME NEW j \in 1..n, j > 1, j # n PROVE ~ Before(p, j, j \div 2)
    <3>1. j \in 1..(n - 1) /\ j \div 2 \in 1..(n - 1)
      BY <1>1, <2>1, Halves
    <3> QED BY <1>1, <1>2, <2>1, <3>1 DEF Ordered, Before
  <2>2. ASSUME NEW j \in 1..n PROVE j \div 2 # n
    BY <1>1, Halves
  <2> QED BY <1>2, <2>1, <2>2 DEF OrderedButAbove
<1>9. r \in Queues(K, W) /\ Indexed(r) /\ Rearranged(p, r) /\ Ordered(r)
  BY <1>1, <1>2, <1>4, <1>5, <1>7, <1>8, HeapifyUpCorrect
<1>10. Timers(p) = Timers(q) \cup {t}
  <2>1. Timers(p) = {p.heap[i] : i \in 1..n} /\ Timers(q) = {q.heap[i] : i \in 1..(n - 1)}
    BY <1>2 DEF Timers
  <2>2. \A i : i \in 1..n <=> i \in 1..(n - 1) \/ i = n
    BY <1>1
  <2>3. ASSUME NEW u \in Timers(p) PROVE u \in Timers(q) \cup {t}
    BY <1>2, <2>1, <2>2
  <2>4. ASSUME NEW u \in Timers(q) \cup {t} PROVE u \in Timers(p)
    <3>1. PICK i \in 1..n : u = p.heap[i]
      BY <1>2, <2>1, <2>2
    <3> QED BY <2>1, <3>1
  <2> QED BY <2>3, <2>4
<1>11. Timers(r) = Timers(q) \cup {t} /\ Len(r.heap) = n
  BY <1>2, <1>9, <1>10 DEF Rearranged
<1>12. KeysDiffer(r)
  BY <1>1, <1>9, <1>11, KeysNameTimers, KeysStayDifferent
<1>13. ASSUME NEW w \in W, w \notin Words(q) \cup {t.word} PROVE r.index[w] = q.index[w]
  <2>1. w \notin Words(p)
    <3>1. ASSUME NEW i \in 1..n PROVE p.heap[i].word # w
      <4>1. CASE i = n
        BY <1>2, <1>13, <4>1
      <4>2. CASE i # n
        <5>1. i \in 1..(n - 1)
          BY <1>1, <4>2
        <5> QED BY <1>2, <1>13, <5>1 DEF Words
      <4> QED BY <4>1, <4>2
    <3> QED BY <1>2, <3>1 DEF Words
  <2>2. w \in DOMAIN p.index
    BY <1>3
  <2> QED BY <1>3, <1>9, <1>13, <2>1, <2>2 DEF Rearranged
<1> QED BY <1>9, <1>11, <1>12, <1>13 DEF Sound, n

LEMMA PoppedProperties ==
  ASSUME NEW S, NEW s \in Seq(S), s # << >>
  PROVE  /\ Popped(s) \in Seq(S) /\ Len(Popped(s)) = Len(s) - 1
         /\ DOMAIN Popped(s) = 1..(Len(s) - 1)
         /\ \A i \in 1..(Len(s) - 1) : Popped(s)[i] = s[i]
<1>1. Len(s) \in Nat /\ Len(s) > 0
  OBVIOUS
<1>2. Popped(s) = SubSeq(s, 1, Len(s) - 1)
  BY DEF Popped
<1> DEFINE n == Len(s) - 1
           p == SubSeq(s, 1, n)
<1>3. n \in Nat /\ \A i \in 1..n : s[i] \in S
  BY <1>1
<1> HIDE DEF n
<1>4. /\ p \in Seq(S)
      /\ Len(p) = IF 1 <= n THEN n - 1 + 1 ELSE 0
      /\ \A i \in 1..(n - 1 + 1) : p[i] = s[1 + i - 1]
  BY <1>3, SubSeqProperties
<1> HIDE DEF p
<1>5. Len(p) = n /\ \A i \in 1..n : p[i] = s[i]
  BY <1>3, <1>4
<1>6. DOMAIN p = 1..n
  BY <1>4, <1>5
<1>7. Popped(s) = p
  BY <1>2 DEF p, n
<1> QED BY <1>4, <1>5, <1>6, <1>7 DEF n

\* A timer is taken out of the vector: what is left has no gap, and the words
\* of the others still say where they are.
LEMMA CutCorrect ==
  ASSUME NEW K, NEW W, NEW q \in Queues(K, W), Indexed(q), q.heap # << >>,
         NEW r, r = [heap |-> Popped(q.heap), index |-> q.index]
  PROVE  /\ r \in Queues(K, W) /\ Indexed(r) /\ r.index = q.index
         /\ Len(r.heap) = Len(q.heap) - 1 /\ DOMAIN r.heap = 1..(Len(q.heap) - 1)
         /\ \A i \in DOMAIN r.heap : i \in DOMAIN q.heap /\ r.heap[i] = q.heap[i]
         /\ Timers(r) = Timers(q) \ {q.heap[Len(q.heap)]}
<1> DEFINE n == Len(q.heap)
<1>1. n \in Nat /\ n > 0 /\ DOMAIN q.heap = 1..n /\ q.heap \in Seq(TimerSet(K, W))
  BY QueueFacts
<1>2. r.heap = Popped(q.heap) /\ r.index = q.index
  OBVIOUS
<1>3. /\ r.heap \in Seq(TimerSet(K, W)) /\ Len(r.heap) = n - 1 /\ DOMAIN r.heap = 1..(n - 1)
      /\ \A i \in 1..(n - 1) : r.heap[i] = q.heap[i]
  <2> HIDE DEF n
  <2> QED BY <1>1, <1>2, PoppedProperties DEF n
<1>4. r \in Queues(K, W)
  BY <1>3, QueueFacts DEF Queues
<1> HIDE DEF n
<1>5. Indexed(r)
  <2> SUFFICES ASSUME NEW i \in 1..(n - 1) PROVE r.index[r.heap[i].word] = i
    BY <1>3 DEF Indexed
  <2>1. i \in 1..n /\ r.heap[i] = q.heap[i]
    BY <1>1, <1>3
  <2> QED BY <1>1, <1>2, <2>1 DEF Indexed
<1>6. Timers(r) = Timers(q) \ {q.heap[n]}
  <2>1. \A i : i \in 1..n <=> i \in 1..(n - 1) \/ i = n
    BY <1>1
  <2>2. \A i \in 1..(n - 1) : q.heap[i] # q.heap[n]
    BY <1>1, WordsDiffer
  <2>3. ASSUME NEW u \in Timers(r) PROVE u \in Timers(q) \ {q.heap[n]}
    <3>1. PICK i \in 1..(n - 1) : u = r.heap[i]
      BY <1>3 DEF Timers
    <3>2. u = q.heap[i] /\ i \in DOMAIN q.heap
      BY <1>1, <1>3, <2>1, <3>1
    <3>3. u # q.heap[n]
      BY <2>2, <3>2
    <3> QED BY <3>2, <3>3 DEF Timers
  <2>4. ASSUME NEW u \in Timers(q) \ {q.heap[n]} PROVE u \in Timers(r)
    BY <1>1, <1>3, <2>1 DEF Timers
  <2> QED BY <2>3, <2>4
<1> QED BY <1>1, <1>2, <1>3, <1>4, <1>5, <1>6 DEF n

LEMMA FewerTimersDiffer ==
  ASSUME NEW K, NEW W, NEW q, KeysDiffer(q), NEW r \in Queues(K, W), Indexed(r),
         Timers(r) \subseteq Timers(q)
  PROVE  KeysDiffer(r)
BY KeysNameTimers, KeysStayDifferent

\* pop: the timer in front is gone, and its word is what it was.
LEMMA PopCorrect ==
  ASSUME NEW K, NEW W, NEW q, Sound(K, W, q), q.heap # << >>,
         NEW r, r = PopTimer(q)
  PROVE  /\ Sound(K, W, r)
         /\ Len(r.heap) = Len(q.heap) - 1
         /\ Timers(r) = Timers(q) \ {q.heap[1]}
         /\ \A w \in W : w \notin Words(r) => r.index[w] = q.index[w]
<1> DEFINE n == Len(q.heap)
           last == q.heap[n]
           cut == [heap |-> Popped(q.heap), index |-> q.index]
           p == [heap |-> [Popped(q.heap) EXCEPT ![1] = last],
                 index |-> [q.index EXCEPT ![last.word] = 1]]
<1>1. /\ q \in Queues(K, W) /\ Indexed(q) /\ Ordered(q) /\ KeysDiffer(q)
      /\ n \in Nat /\ n > 0 /\ DOMAIN q.heap = 1..n
  BY QueueFacts DEF Sound
<1>2. /\ cut \in Queues(K, W) /\ Indexed(cut) /\ cut.index = q.index
      /\ Len(cut.heap) = n - 1 /\ DOMAIN cut.heap = 1..(n - 1)
      /\ \A i \in DOMAIN cut.heap : cut.heap[i] = q.heap[i]
      /\ Timers(cut) = Timers(q) \ {last}
  <2> HIDE DEF cut
  <2>1. q.heap # << >> /\ last = q.heap[Len(q.heap)]
    OBVIOUS
  <2>2. cut = [heap |-> Popped(q.heap), index |-> q.index]
    BY DEF cut
  <2> QED BY <1>1, <2>1, <2>2, CutCorrect
<1>3. cut.heap = Popped(q.heap)
  OBVIOUS
<1>4. CASE n = 1
  <2>1. r = cut
    <3>1. Popped(q.heap) = << >>
      BY <1>2, <1>3, <1>4
    <3>2. [q EXCEPT !.heap = Popped(q.heap)] = cut
      BY <1>1, RecordHeap
    <3> QED BY <3>1, <3>2 DEF PopTimer
  <2>2. Ordered(cut)
    BY <1>2, <1>4 DEF Ordered
  <2>3. KeysDiffer(cut)
    BY <1>1, <1>2, FewerTimersDiffer
  <2>4. last = q.heap[1] /\ Len(q.heap) = n
    BY <1>4
  <2> HIDE DEF cut, last, n
  <2> QED BY <1>2, <2>1, <2>2, <2>3, <2>4 DEF Sound
<1>5. CASE n > 1
  <2>1. r = HeapifyDown(p, 1)
    <3>1. Popped(q.heap) # << >>
      BY <1>2, <1>3, <1>5
    <3> QED BY <3>1 DEF PopTimer
  <2>2. /\ last.word \in W /\ last \in TimerSet(K, W)
        /\ q.index \in [W -> Nat] /\ q.index[last.word] = n
    BY <1>1, TimerFacts, QueueFacts DEF Indexed
  <2>3. /\ p.heap \in Seq(TimerSet(K, W)) /\ Len(p.heap) = n - 1 /\ DOMAIN p.heap = 1..(n - 1)
        /\ p.heap[1] = last
        /\ \A i \in 2..(n - 1) : p.heap[i] = q.heap[i]
    <3>1. cut.heap \in Seq(TimerSet(K, W))
      BY <1>2, QueueFacts
    <3> HIDE DEF cut, last, n
    <3> QED BY <1>1, <1>2, <1>3, <1>5, <2>2, <3>1
  <2>4. /\ p.index \in [W -> Nat] /\ p.index[last.word] = 1
        /\ \A w \in W : w # last.word => p.index[w] = q.index[w]
    BY <2>2
  <2> HIDE DEF p, last, n, cut
  <2>5. p \in Queues(K, W)
    BY <2>3, <2>4 DEF Queues, p
  <2>6. ASSUME NEW i \in 1..(n - 1) PROVE q.heap[i].word # last.word /\ q.heap[i].word \in W
    BY <1>1, TimerFacts, WordsDiffer DEF last
  <2>7. Indexed(p)
    <3> SUFFICES ASSUME NEW i \in 1..(n - 1) PROVE p.index[p.heap[i].word] = i
      BY <2>3 DEF Indexed
    <3>1. CASE i = 1
      BY <2>3, <2>4, <3>1
    <3>2. CASE i # 1
      <4>1. p.heap[i] = q.heap[i] /\ q.index[q.heap[i].word] = i
        BY <1>1, <2>3, <3>2 DEF Indexed
      <4> QED BY <2>4, <2>6, <4>1
    <3> QED BY <3>1, <3>2
  <2>8. OrderedButAt(p, 1) /\ RightAbove(p, 1)
    <3>1. ASSUME NEW j \in 1..(n - 1), j > 1, j \div 2 # 1 PROVE ~ Before(p, j, j \div 2)
      <4>1. j \in 2..(n - 1) /\ j \div 2 \in 2..(n - 1)
        BY <1>1, <3>1, Halves
      <4>2. p.heap[j] = q.heap[j] /\ p.heap[j \div 2] = q.heap[j \div 2]
        BY <2>3, <4>1
      <4>3. j \in DOMAIN q.heap
        BY <1>1, <4>1
      <4>4. ~ Before(q, j, j \div 2)
        BY <1>1, <3>1, <4>3 DEF Ordered
      <4> QED BY <4>2, <4>4 DEF Before
    <3> QED BY <2>3, <3>1 DEF OrderedButAt, RightAbove
  <2>9. r \in Queues(K, W) /\ Indexed(r) /\ Rearranged(p, r) /\ Ordered(r)
    BY <1>1, <1>5, <2>1, <2>3, <2>5, <2>7, <2>8, HeapifyDownCorrect
  <2>10. Timers(p) = Timers(q) \ {q.heap[1]}
    <3>1. \A i : i \in 1..(n - 1) <=> i = 1 \/ i \in 2..(n - 1)
      BY <1>1, <1>5
    <3>2. \A i : i \in 1..n <=> i = 1 \/ i = n \/ i \in 2..(n - 1)
      BY <1>1, <1>5
    <3>3. \A i \in 1..n : i # 1 => q.heap[i] # q.heap[1]
      BY <1>1, WordsDiffer
    <3>4. ASSUME NEW u \in Timers(p) PROVE u \in Timers(q) \ {q.heap[1]}
      BY <1>1, <1>5, <2>3, <3>1, <3>2, <3>3, <3>4 DEF Timers, last
    <3>5. ASSUME NEW u \in Timers(q) \ {q.heap[1]} PROVE u \in Timers(p)
      BY <1>1, <1>5, <2>3, <3>1, <3>2, <3>5 DEF Timers, last
    <3> QED BY <3>4, <3>5
  <2>11. Len(r.heap) = n - 1 /\ Timers(r) = Timers(q) \ {q.heap[1]}
    BY <2>3, <2>9, <2>10 DEF Rearranged
  <2>12. KeysDiffer(r)
    BY <1>1, <2>9, <2>11, FewerTimersDiffer
  <2>13. ASSUME NEW w \in W, w \notin Words(r) PROVE r.index[w] = q.index[w]
    <3>1. Words(r) = {t.word : t \in Timers(r)} /\ Words(p) = {t.word : t \in Timers(p)}
      BY DEF Words, Timers
    <3>2. w \notin Words(p)
      BY <2>9, <2>13, <3>1 DEF Rearranged
    <3>3. w # last.word
      BY <1>5, <1>1, <2>3, <3>2 DEF Words
    <3> QED BY <2>4, <2>9, <3>2, <3>3 DEF Rearranged
  <2> QED BY <2>9, <2>11, <2>12, <2>13 DEF Sound, n
<1> HIDE DEF n, last, cut, p
<1>6. n = 1 \/ n > 1
  BY <1>1
<1> QED BY <1>4, <1>5, <1>6

LEMMA PositionIs ==
  ASSUME NEW K, NEW W, NEW q \in Queues(K, W), KeysDiffer(q), NEW k, HasTimer(q, k)
  PROVE  PositionOf(q, k) \in DOMAIN q.heap /\ q.heap[PositionOf(q, k)].key = k
<1>1. PICK i \in DOMAIN q.heap : q.heap[i].key = k
  BY DEF HasTimer
<1>2. \A j \in DOMAIN q.heap : q.heap[j].key = k => i <= j
  BY <1>1, TimerFacts DEF KeysDiffer
<1>3. \E m \in DOMAIN q.heap : /\ q.heap[m].key = k
                               /\ \A j \in DOMAIN q.heap : q.heap[j].key = k => m <= j
  BY <1>1, <1>2
<1> QED BY <1>3 DEF PositionOf

\* removeByKey: the timer of k is gone; its word is left with the place of the
\* last timer, where it was swapped to before it went.
LEMMA RemoveCorrect ==
  ASSUME NEW K, NEW W, NEW q, Sound(K, W, q), NEW k, HasTimer(q, k),
         NEW r, r = RemoveTimer(q, k)
  PROVE  LET t == q.heap[PositionOf(q, k)]
         IN /\ Sound(K, W, r)
            /\ Len(r.heap) = Len(q.heap) - 1
            /\ Timers(r) = Timers(q) \ {t}
            /\ \A w \in W : w \notin Words(q) => r.index[w] = q.index[w]
            /\ r.index[t.word] = Len(q.heap)
<1> DEFINE n == Len(q.heap)
           i == PositionOf(q, k)
           t == q.heap[i]
           swapped == SwapEntries(q, i, n)
           cut == [heap |-> Popped(swapped.heap), index |-> swapped.index]
<1>1. /\ q \in Queues(K, W) /\ Indexed(q) /\ Ordered(q) /\ KeysDiffer(q)
      /\ n \in Nat /\ DOMAIN q.heap = 1..n
  BY QueueFacts DEF Sound
<1>2. i \in 1..n /\ n \in 1..n
  BY <1>1, PositionIs
<1>3. /\ swapped \in Queues(K, W) /\ Indexed(swapped) /\ Rearranged(q, swapped)
      /\ swapped.heap = [q.heap EXCEPT ![i] = q.heap[n], ![n] = q.heap[i]]
  <2> HIDE DEF i, n
  <2> QED BY <1>1, <1>2, SwapCorrect
<1>4. RemoveTimer(q, k) = IF i > Len(cut.heap) THEN cut ELSE HeapifyUp(HeapifyDown(cut, i), i)
  <2>1. [swapped EXCEPT !.heap = Popped(swapped.heap)] = cut
    <3> HIDE DEF swapped
    <3> QED BY <1>3, RecordHeap
  <2> QED BY <2>1 DEF RemoveTimer
<1> HIDE DEF swapped
<1>5. /\ swapped.heap # << >> /\ Len(swapped.heap) = n /\ DOMAIN swapped.heap = 1..n
      /\ swapped.heap[n] = t
      /\ \A j \in 1..(n - 1) : j # i => swapped.heap[j] = q.heap[j]
  <2>1. Len(swapped.heap) = n /\ DOMAIN swapped.heap = 1..n
    BY <1>1, <1>3, QueueFacts DEF Rearranged
  <2> HIDE DEF i, n
  <2> QED BY <1>1, <1>2, <1>3, <2>1 DEF t
<1>6. /\ cut \in Queues(K, W) /\ Indexed(cut) /\ cut.index = swapped.index
      /\ Len(cut.heap) = n - 1 /\ DOMAIN cut.heap = 1..(n - 1)
      /\ \A j \in 1..(n - 1) : cut.heap[j] = swapped.heap[j]
      /\ Timers(cut) = Timers(swapped) \ {t}
  <2>1. cut = [heap |-> Popped(swapped.heap), index |-> swapped.index]
    OBVIOUS
  <2> HIDE DEF cut, t, n, i
  <2>2. /\ cut \in Queues(K, W) /\ Indexed(cut) /\ cut.index = swapped.index
        /\ Len(cut.heap) = Len(swapped.heap) - 1
        /\ DOMAIN cut.heap = 1..(Len(swapped.heap) - 1)
        /\ \A j \in DOMAIN cut.heap : cut.heap[j] = swapped.heap[j]
        /\ Timers(cut) = Timers(swapped) \ {swapped.heap[Len(swapped.heap)]}
    <3>1. swapped \in Queues(K, W) /\ Indexed(swapped) /\ swapped.heap # << >>
      BY <1>3, <1>5
    <3> QED BY <2>1, <3>1, CutCorrect
  <2> QED BY <1>5, <2>2
<1> HIDE DEF cut, i, n, t
<1>7. Timers(cut) = Timers(q) \ {t}
  BY <1>3, <1>6 DEF Rearranged
<1>8. cut.index[t.word] = n
  BY <1>2, <1>3, <1>5, <1>6 DEF Indexed
<1>9. t.word \in W /\ t \in Timers(q)
  BY <1>1, <1>2, TimerFacts DEF t, Timers
<1>10. /\ r \in Queues(K, W) /\ Indexed(r) /\ Rearranged(cut, r) /\ Ordered(r)
  <2>1. \A j \in 1..(n - 1) : j # i => cut.heap[j] = q.heap[j]
    BY <1>5, <1>6
  <2>2. CASE i > Len(cut.heap)
    <3>1. r = cut
      BY <1>4, <2>2
    <3>2. i = n /\ i \notin 1..(n - 1)
      BY <1>1, <1>2, <1>6, <2>2
    <3>3. ASSUME NEW j \in 1..(n - 1), j > 1 PROVE ~ Before(cut, j, j \div 2)
      <4>1. j \div 2 \in 1..(n - 1)
        BY <1>1, <3>3, Halves
      <4>2. cut.heap[j] = q.heap[j] /\ cut.heap[j \div 2] = q.heap[j \div 2] /\ j \in 1..n
        BY <1>1, <2>1, <3>2, <4>1
      <4> QED BY <1>1, <3>3, <4>2 DEF Ordered, Before
    <3>4. Ordered(cut)
      BY <1>6, <3>3 DEF Ordered
    <3> QED BY <1>6, <3>1, <3>4 DEF Rearranged
  <2>3. CASE ~ (i > Len(cut.heap))
    <3>1. i \in 1..(n - 1)
      BY <1>1, <1>2, <1>6, <2>3
    <3>2. r = HeapifyUp(HeapifyDown(cut, i), i)
      BY <1>4, <2>3
    <3>3. OrderedButAt(cut, i)
      <4>1. OrderedButAt(q, i)
        BY <1>1, <1>2, OrderedAnywhere
      <4>2. ASSUME NEW j \in 1..(n - 1), j > 1, j # i
            PROVE  j \in 1..n /\ j \div 2 \in 1..(n - 1) /\ cut.heap[j] = q.heap[j]
        BY <1>1, <2>1, <4>2, Halves
      <4>3. ASSUME NEW j \in 1..(n - 1), j > 1, j # i, j \div 2 # i
            PROVE  ~ Before(cut, j, j \div 2)
        <5>1. j \in 1..n /\ cut.heap[j] = q.heap[j] /\ cut.heap[j \div 2] = q.heap[j \div 2]
          BY <2>1, <4>2, <4>3
        <5>2. ~ Before(q, j, j \div 2)
          BY <1>1, <4>1, <4>3, <5>1 DEF OrderedButAt
        <5> QED BY <5>1, <5>2 DEF Before
      <4>4. ASSUME NEW j \in 1..(n - 1), j \div 2 = i, i > 1 PROVE ~ Before(cut, j, i \div 2)
        <5>1. j > 1 /\ j # i /\ i \div 2 # i /\ i \div 2 \in 1..(n - 1)
          BY <1>1, <3>1, <4>4, Halves
        <5>2. j \in 1..n /\ cut.heap[j] = q.heap[j] /\ cut.heap[i \div 2] = q.heap[i \div 2]
          BY <2>1, <4>2, <5>1
        <5>3. ~ Before(q, j, i \div 2)
          BY <1>1, <4>1, <4>4, <5>2 DEF OrderedButAt
        <5> QED BY <5>2, <5>3 DEF Before
      <4> QED BY <1>6, <4>3, <4>4 DEF OrderedButAt
    <3>4. PICK d : d = HeapifyDown(cut, i)
      OBVIOUS
    <3>5. d \in Queues(K, W) /\ Indexed(d) /\ Rearranged(cut, d) /\ OrderedButAbove(d, i)
      BY <1>6, <3>1, <3>3, <3>4, HeapifyDownCorrect
    <3>6. i \in DOMAIN d.heap
      BY <1>6, <3>1, <3>5, QueueFacts DEF Rearranged
    <3>7. r \in Queues(K, W) /\ Indexed(r) /\ Rearranged(d, r) /\ Ordered(r)
      BY <3>2, <3>4, <3>5, <3>6, HeapifyUpCorrect
    <3>8. Rearranged(cut, r)
      BY <1>6, <3>5, <3>7, RearrangedTwice
    <3> QED BY <3>7, <3>8
  <2> QED BY <2>2, <2>3
<1>11. Len(r.heap) = n - 1 /\ Timers(r) = Timers(q) \ {t}
  BY <1>6, <1>7, <1>10 DEF Rearranged
<1>12. KeysDiffer(r)
  BY <1>1, <1>10, <1>11, FewerTimersDiffer
<1>13. Words(cut) = {u.word : u \in Timers(cut)} /\ Words(q) = {u.word : u \in Timers(q)}
  BY DEF Words, Timers
<1>14. DOMAIN cut.index = W /\ DOMAIN q.index = W
  BY <1>1, <1>6, QueueFacts
<1>15. ASSUME NEW w \in W, w \notin Words(q) PROVE r.index[w] = q.index[w]
  <2>1. w \notin Words(cut)
    BY <1>7, <1>13, <1>15
  <2>2. r.index[w] = cut.index[w]
    BY <1>10, <1>14, <2>1 DEF Rearranged
  <2>3. swapped.index[w] = q.index[w]
    BY <1>3, <1>14, <1>15 DEF Rearranged
  <2> QED BY <1>6, <2>2, <2>3
<1>16. r.index[t.word] = n
  <2>1. t.word \notin Words(cut)
    <3>1. ASSUME NEW u \in Timers(cut), u.word = t.word PROVE FALSE
      <4>1. u \in Timers(q) /\ u # t
        BY <1>7, <3>1
      <4>2. u = t
        BY <1>1, <1>2, <3>1, <4>1, WordsDiffer DEF Timers, t
      <4> QED BY <4>1, <4>2
    <3> QED BY <1>13, <3>1
  <2> QED BY <1>8, <1>9, <1>10, <1>14, <2>1 DEF Rearranged
<1> QED BY <1>10, <1>11, <1>12, <1>15, <1>16 DEF Sound, n, t, i

\* updateTTL: the timer at position i has another deadline, the others have not.
LEMMA UpdateCorrect ==
  ASSUME NEW K, NEW W, NEW q, Sound(K, W, q), NEW i \in DOMAIN q.heap, NEW at \in Int,
         NEW r, r = UpdateTimer(q, i, at)
  PROVE  /\ Sound(K, W, r)
         /\ Len(r.heap) = Len(q.heap)
         /\ Timers(r) = (Timers(q) \ {q.heap[i]}) \cup {[q.heap[i] EXCEPT !.expiresAt = at]}
         /\ \A w \in W : w \notin Words(q) => r.index[w] = q.index[w]
<1> DEFINE t == [q.heap[i] EXCEPT !.expiresAt = at]
           was == q.heap[i].expiresAt
           p == [heap |-> [q.heap EXCEPT ![i] = t], index |-> q.index]
<1>1. /\ q \in Queues(K, W) /\ Indexed(q) /\ Ordered(q) /\ KeysDiffer(q)
      /\ q.index \in [W -> Nat] /\ i \in Nat /\ was \in Int
  BY QueueFacts, TimerFacts DEF Sound
<1>2. t \in TimerSet(K, W) /\ t.word = q.heap[i].word /\ t.key = q.heap[i].key /\ t.expiresAt = at
  <2>1. q.heap[i] \in TimerSet(K, W)
    BY <1>1, QueueFacts
  <2> QED BY <2>1 DEF TimerSet
<1>3. [q EXCEPT !.heap[i].expiresAt = at] = p
  <2>1. q = [heap |-> q.heap, index |-> q.index]
    BY <1>1, QueueFacts
  <2> QED BY <2>1
<1> HIDE DEF t
<1>4. /\ p.heap \in Seq(TimerSet(K, W)) /\ Len(p.heap) = Len(q.heap)
      /\ DOMAIN p.heap = DOMAIN q.heap
      /\ p.heap[i] = t /\ \A j \in DOMAIN q.heap : j # i => p.heap[j] = q.heap[j]
  BY <1>1, <1>2, QueueFacts
<1>5. r = IF at < was THEN HeapifyUp(p, i) ELSE IF at > was THEN HeapifyDown(p, i) ELSE p
  BY <1>3 DEF UpdateTimer
<1>6. p.index = q.index
  OBVIOUS
<1> HIDE DEF p
<1>7. p \in Queues(K, W)
  BY <1>1, <1>4, <1>6 DEF Queues, p
<1>8. Indexed(p)
  <2> SUFFICES ASSUME NEW j \in DOMAIN q.heap PROVE q.index[p.heap[j].word] = j
    BY <1>4, <1>6 DEF Indexed
  <2>1. p.heap[j].word = q.heap[j].word
    BY <1>2, <1>4
  <2> QED BY <1>1, <2>1 DEF Indexed
<1> DEFINE due(j) == q.heap[j].expiresAt
           then(j) == p.heap[j].expiresAt
<1>9. /\ due(i) = was /\ then(i) = at
      /\ \A j \in DOMAIN q.heap : j \in Nat /\ due(j) \in Int /\ (j # i => then(j) = due(j))
      /\ \A j \in DOMAIN q.heap : j > 1 => j \div 2 \in DOMAIN q.heap /\ j \div 2 < j
  <2>1. \A j \in DOMAIN q.heap : j \in Nat /\ due(j) \in Int
    BY <1>1, TimerFacts
  <2>2. \A j \in DOMAIN q.heap : j > 1 => j \div 2 \in DOMAIN q.heap /\ j \div 2 < j
    BY <1>1, QueueFacts, Halves
  <2> QED BY <1>2, <1>4, <2>1, <2>2
<1>10. /\ \A j \in DOMAIN q.heap : j > 1 => ~ (due(j) < due(j \div 2))
       /\ \A j \in DOMAIN q.heap : j \div 2 = i /\ i > 1 => ~ (due(j) < due(i \div 2))
  BY <1>1, OrderedAnywhere DEF Ordered, OrderedButAt, Before
<1> HIDE DEF due, then, was
<1>11. ASSUME NEW j \in DOMAIN q.heap, j > 1, j # i, j \div 2 # i \/ at <= was
       PROVE  ~ (then(j) < then(j \div 2))
  <2>1. CASE j \div 2 # i
    BY <1>9, <1>10, <1>11, <2>1
  <2>2. CASE j \div 2 = i
    BY <1>1, <1>9, <1>10, <1>11, <2>2
  <2> QED BY <2>1, <2>2
<1>12. ASSUME NEW j \in DOMAIN q.heap, j \div 2 = i, i > 1 PROVE ~ (then(j) < then(i \div 2))
  <2>1. j > 1 /\ j # i /\ i \div 2 # i
    BY <1>1, <1>9, <1>12, Halves
  <2> QED BY <1>9, <1>10, <1>12, <2>1
<1>13. OrderedButAt(p, i) /\ (at <= was => OrderedButAbove(p, i))
  BY <1>4, <1>11, <1>12 DEF OrderedButAt, OrderedButAbove, Before, then
<1>14. at >= was => RightAbove(p, i)
  <2>1. ASSUME at >= was, i > 1 PROVE ~ (then(i) < then(i \div 2))
    <3>1. i \div 2 \in DOMAIN q.heap /\ i \div 2 # i
      BY <1>1, <1>9, <2>1
    <3> QED BY <1>1, <1>9, <1>10, <2>1, <3>1
  <2> QED BY <2>1 DEF RightAbove, Before, then
<1>15. r \in Queues(K, W) /\ Indexed(r) /\ Rearranged(p, r) /\ Ordered(r)
  <2>1. CASE at < was
    BY <1>1, <1>4, <1>5, <1>7, <1>8, <1>13, <2>1, HeapifyUpCorrect
  <2>2. CASE at > was
    <3>1. ~ (at < was) /\ at >= was
      BY <1>1, <2>2
    <3> QED BY <1>4, <1>5, <1>7, <1>8, <1>13, <1>14, <2>2, <3>1, HeapifyDownCorrect
  <2>3. CASE at = was
    <3>1. ~ (at < was) /\ ~ (at > was) /\ at <= was /\ at >= was
      BY <1>1, <2>3
    <3>2. Ordered(p)
      BY <1>13, <1>14, <3>1 DEF Ordered, OrderedButAbove, RightAbove
    <3> QED BY <1>5, <1>7, <1>8, <3>1, <3>2 DEF Rearranged
  <2> QED BY <1>1, <2>1, <2>2, <2>3
<1>16. Timers(p) = (Timers(q) \ {q.heap[i]}) \cup {t}
  <2>1. \A j \in DOMAIN q.heap : j # i => q.heap[j] # q.heap[i]
    BY <1>1, WordsDiffer
  <2> QED BY <1>4, <2>1 DEF Timers
<1>17. Len(r.heap) = Len(q.heap) /\ Timers(r) = (Timers(q) \ {q.heap[i]}) \cup {t}
  BY <1>4, <1>15, <1>16 DEF Rearranged
<1>18. KeysDiffer(r)
  <2>1. q.heap[i] \in Timers(q)
    BY DEF Timers
  <2>2. \A u, v \in Timers(r) : u.key = v.key => u = v
    BY <1>1, <1>2, <1>17, <2>1, KeysNameTimers
  <2> QED BY <1>15, <2>2, KeysStayDifferent
<1>19. ASSUME NEW w \in W, w \notin Words(q) PROVE r.index[w] = q.index[w]
  <2>1. w \notin Words(p)
    BY <1>2, <1>4, <1>19 DEF Words
  <2>2. w \in DOMAIN p.index
    BY <1>1, <1>6
  <2> QED BY <1>6, <1>15, <2>1, <2>2 DEF Rearranged
<1> QED BY <1>15, <1>17, <1>18, <1>19 DEF Sound, t
=============================================================================
