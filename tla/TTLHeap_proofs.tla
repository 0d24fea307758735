--------------------------- MODULE TTLHeap_proofs ---------------------------
(***************************************************************************)
(* Proofs about TTLHeap, for any keys and deadlines and a heap of any size: *)
(* its type, its order, the indexes in the table entries, and that it      *)
(* implements TimerQueue.  TTLHeapOps_proofs has what each operation does. *)
(***************************************************************************)
EXTENDS TTLHeap, TTLHeapOps_proofs

\* What holds between any two operations: the heap is in order with every index
\* in place, and an entry without a timer has no index.
GoodQueue(q) ==
  /\ Sound(Keys, Keys, q)
  /\ \A t \in Timers(q) : t.word = t.key /\ t.expiresAt \in Times
  /\ \A k \in Keys : k \notin Words(q) => q.index[k] = NoIndex

HeapInv == GoodQueue(Q)

LEMMA GoodFacts ==
  ASSUME NEW q, GoodQueue(q)
  PROVE  /\ q \in Queues(Keys, Keys) /\ Indexed(q) /\ Ordered(q) /\ KeysDiffer(q)
         /\ q = [heap |-> q.heap, index |-> q.index]
         /\ q.index \in [Keys -> Nat] /\ Len(q.heap) \in Nat /\ DOMAIN q.heap = 1..Len(q.heap)
         /\ \A i \in DOMAIN q.heap : q.heap[i] \in Timers(q)
         /\ \A t \in Timers(q) : /\ t \in TimerSet(Keys, Keys) /\ t = Timer(t.key, t.expiresAt, t.key)
                                 /\ t.key \in Keys /\ t.expiresAt \in Times
<1>1. q \in Queues(Keys, Keys) /\ Indexed(q) /\ Ordered(q) /\ KeysDiffer(q)
  BY DEF GoodQueue, Sound
<1>2. \A t \in Timers(q) : t \in TimerSet(Keys, Keys)
  BY <1>1, QueueFacts DEF Timers
<1>3. ASSUME NEW t \in Timers(q)
      PROVE  t = Timer(t.key, t.expiresAt, t.key) /\ t.key \in Keys /\ t.expiresAt \in Times
  BY <1>2 DEF GoodQueue, Timer, TimerSet
<1> QED BY <1>1, <1>2, <1>3, QueueFacts DEF Timers

\* A key has a word in use exactly if it has a timer, and the word finds it.
LEMMA WordsOfKeys ==
  ASSUME NEW q, GoodQueue(q), NEW k \in Keys
  PROVE  /\ k \in Words(q) <=> HasTimer(q, k)
         /\ q.index[k] # NoIndex <=> k \in Words(q)
         /\ k \in Words(q) => q.index[k] \in DOMAIN q.heap /\ q.heap[q.index[k]].key = k
<1>1. \A i \in DOMAIN q.heap : q.heap[i].word = q.heap[i].key
  BY GoodFacts DEF GoodQueue
<1>2. k \in Words(q) <=> HasTimer(q, k)
  BY <1>1 DEF Words, HasTimer
<1>3. ASSUME k \in Words(q)
      PROVE  q.index[k] \in DOMAIN q.heap /\ q.heap[q.index[k]].key = k /\ q.index[k] # NoIndex
  <2>1. PICK i \in DOMAIN q.heap : q.heap[i].word = k
    BY <1>3 DEF Words
  <2>2. q.index[k] = i
    BY <2>1, GoodFacts DEF Indexed
  <2> QED BY <1>1, <2>1, <2>2, GoodFacts DEF NoIndex
<1> QED BY <1>2, <1>3 DEF GoodQueue

\* An entry that has no timer may be deleted: its word is in use no more.
LEMMA EntryDeleted ==
  ASSUME NEW q, Sound(Keys, Keys, q), NEW k \in Keys, k \notin Words(q),
         \A t \in Timers(q) : t.word = t.key /\ t.expiresAt \in Times,
         \A j \in Keys \ {k} : j \notin Words(q) => q.index[j] = NoIndex,
         NEW r, r = WithoutEntry(q, k)
  PROVE  GoodQueue(r) /\ Timers(r) = Timers(q)
<1> DEFINE x == [q.index EXCEPT ![k] = NoIndex]
<1>1. /\ q \in Queues(Keys, Keys) /\ Indexed(q) /\ Ordered(q) /\ KeysDiffer(q)
      /\ q.heap \in Seq(TimerSet(Keys, Keys)) /\ q.index \in [Keys -> Nat]
      /\ q = [heap |-> q.heap, index |-> q.index]
  BY QueueFacts DEF Sound
<1>2. r = [heap |-> q.heap, index |-> x]
  BY <1>1 DEF WithoutEntry
<1>3. /\ x \in [Keys -> Nat] /\ x[k] = NoIndex
      /\ \A j \in Keys : j # k => x[j] = q.index[j]
  BY <1>1 DEF NoIndex
<1> HIDE DEF x
<1>4. r \in Queues(Keys, Keys) /\ r.heap = q.heap /\ r.index = x
  BY <1>1, <1>2, <1>3 DEF Queues
<1>5. Timers(r) = Timers(q) /\ Words(r) = Words(q) /\ Ordered(r) /\ KeysDiffer(r)
  BY <1>1, <1>4 DEF Timers, Words, Ordered, Before, KeysDiffer
<1>6. Indexed(r)
  <2> SUFFICES ASSUME NEW i \in DOMAIN q.heap PROVE x[q.heap[i].word] = i
    BY <1>4 DEF Indexed
  <2>1. q.heap[i].word \in Keys /\ q.heap[i].word # k
    BY <1>1, TimerFacts DEF Words
  <2> QED BY <1>1, <1>3, <2>1 DEF Indexed
<1>7. \A j \in Keys : j \notin Words(r) => r.index[j] = NoIndex
  BY <1>3, <1>4, <1>5
<1> QED BY <1>4, <1>5, <1>6, <1>7 DEF GoodQueue, Sound

-----------------------------------------------------------------------------
(* The operations                                                          *)

LEMMA PushGood ==
  ASSUME NEW q, GoodQueue(q), NEW k \in Keys, NEW at \in Times, q.index[k] = NoIndex,
         NEW r, r = PushTimer(q, Timer(k, at, k))
  PROVE  /\ GoodQueue(r) /\ Timers(r) = Timers(q) \cup {Timer(k, at, k)}
         /\ \A t \in Timers(q) : t.key # k
<1> DEFINE t == Timer(k, at, k)
<1>1. t \in TimerSet(Keys, Keys) /\ t.word = k /\ t.key = k /\ t.expiresAt = at
  BY TimesAssumption DEF Timer, TimerSet
<1>2. k \notin Words(q) /\ ~ HasTimer(q, k)
  BY WordsOfKeys
<1>3. \A u \in Timers(q) : u.key # k
  BY <1>2 DEF HasTimer, Timers
<1> HIDE DEF t
<1>4. /\ Sound(Keys, Keys, r) /\ Timers(r) = Timers(q) \cup {t}
      /\ \A w \in Keys : w \notin Words(q) \cup {t.word} => r.index[w] = q.index[w]
  <2>1. Sound(Keys, Keys, q) /\ t.word \notin Words(q) /\ \A u \in Timers(q) : u.key # t.key
    BY <1>1, <1>2, <1>3 DEF GoodQueue
  <2>2. r = PushTimer(q, t)
    BY DEF t
  <2> QED BY <1>1, <2>1, <2>2, PushCorrect
<1>5. ASSUME NEW j \in Keys, j \notin Words(r) PROVE r.index[j] = NoIndex
  <2>1. Words(r) = {u.word : u \in Timers(r)} /\ Words(q) = {u.word : u \in Timers(q)}
    BY DEF Words, Timers
  <2> QED BY <1>4, <1>5, <2>1 DEF GoodQueue
<1>6. \A u \in Timers(r) : u.word = u.key /\ u.expiresAt \in Times
  BY <1>1, <1>4 DEF GoodQueue
<1> QED BY <1>3, <1>4, <1>5, <1>6 DEF GoodQueue, t

LEMMA UpdateGood ==
  ASSUME NEW q, GoodQueue(q), NEW k \in Keys, NEW at \in Times, q.index[k] # NoIndex,
         NEW r, r = UpdateTimer(q, q.index[k], at)
  PROVE  /\ GoodQueue(r)
         /\ \E t \in Timers(q) : t.key = k /\ Timers(r) = (Timers(q) \ {t}) \cup {Timer(k, at, k)}
<1> DEFINE i == q.index[k]
           t == q.heap[i]
<1>1. i \in DOMAIN q.heap /\ t.key = k
  BY WordsOfKeys
<1>2. t \in Timers(q) /\ t.word = k /\ [t EXCEPT !.expiresAt = at] = Timer(k, at, k)
  <2>1. t \in Timers(q)
    BY <1>1, GoodFacts
  <2>2. t = Timer(k, t.expiresAt, k)
    BY <1>1, <2>1, GoodFacts
  <2> HIDE DEF t
  <2> QED BY <2>1, <2>2 DEF Timer
<1>3. /\ Sound(Keys, Keys, r) /\ Timers(r) = (Timers(q) \ {t}) \cup {Timer(k, at, k)}
      /\ \A w \in Keys : w \notin Words(q) => r.index[w] = q.index[w]
  <2>1. Sound(Keys, Keys, q) /\ at \in Int
    BY TimesAssumption DEF GoodQueue
  <2> HIDE DEF i
  <2>2. /\ Sound(Keys, Keys, r)
        /\ Timers(r) = (Timers(q) \ {q.heap[i]}) \cup {[q.heap[i] EXCEPT !.expiresAt = at]}
        /\ \A w \in Keys : w \notin Words(q) => r.index[w] = q.index[w]
    BY <1>1, <2>1, UpdateCorrect DEF i
  <2> QED BY <1>2, <2>2
<1> HIDE DEF t
<1>4. ASSUME NEW j \in Keys, j \notin Words(r) PROVE r.index[j] = NoIndex
  <2>1. Words(r) = {u.word : u \in Timers(r)} /\ Words(q) = {u.word : u \in Timers(q)}
    BY DEF Words, Timers
  <2>2. Timer(k, at, k).word = k
    BY DEF Timer
  <2> QED BY <1>2, <1>3, <1>4, <2>1, <2>2 DEF GoodQueue
<1>5. \A u \in Timers(r) : u.word = u.key /\ u.expiresAt \in Times
  BY <1>3 DEF GoodQueue, Timer
<1> QED BY <1>1, <1>2, <1>3, <1>4, <1>5 DEF GoodQueue, t

LEMMA RemoveGood ==
  ASSUME NEW q, GoodQueue(q), NEW k \in Keys, HasTimer(q, k),
         NEW r, r = WithoutEntry(RemoveTimer(q, k), k)
  PROVE  GoodQueue(r) /\ \E t \in Timers(q) : t.key = k /\ Timers(r) = Timers(q) \ {t}
<1> DEFINE p == RemoveTimer(q, k)
           t == q.heap[PositionOf(q, k)]
<1>1. t \in Timers(q) /\ t.key = k /\ t.word = k
  BY GoodFacts, PositionIs DEF GoodQueue
<1>2. /\ Sound(Keys, Keys, p) /\ Timers(p) = Timers(q) \ {t}
      /\ \A w \in Keys : w \notin Words(q) => p.index[w] = q.index[w]
  <2>1. Sound(Keys, Keys, q)
    BY DEF GoodQueue
  <2>2. PICK s : s = RemoveTimer(q, k)
    OBVIOUS
  <2> QED BY <2>1, <2>2, RemoveCorrect
<1> HIDE DEF p, t
<1>3. Words(p) = {u.word : u \in Timers(p)} /\ Words(q) = {u.word : u \in Timers(q)}
  BY DEF Words, Timers
<1>4. k \notin Words(p)
  <2>1. \A u \in Timers(q) : u.word = k => u = t
    BY <1>1, GoodFacts, KeysNameTimers DEF GoodQueue
  <2> QED BY <1>2, <1>3, <2>1
<1>5. \A j \in Keys \ {k} : j \notin Words(p) => p.index[j] = NoIndex
  BY <1>1, <1>2, <1>3 DEF GoodQueue
<1>6. \A u \in Timers(p) : u.word = u.key /\ u.expiresAt \in Times
  BY <1>2 DEF GoodQueue
<1>7. GoodQueue(r) /\ Timers(r) = Timers(p)
  BY <1>2, <1>4, <1>5, <1>6, EntryDeleted DEF p
<1> QED BY <1>1, <1>2, <1>7

LEMMA PopGood ==
  ASSUME NEW q, GoodQueue(q), q.heap # << >>,
         NEW r, r = WithoutEntry(PopTimer(q), q.heap[1].key)
  PROVE  /\ GoodQueue(r) /\ q.heap[1] \in Timers(q) /\ Timers(r) = Timers(q) \ {q.heap[1]}
         /\ \A t \in Timers(q) : q.heap[1].expiresAt <= t.expiresAt
<1> DEFINE p == PopTimer(q)
           t == q.heap[1]
           k == t.key
<1>1. 1 \in DOMAIN q.heap /\ t \in Timers(q) /\ t.word = k /\ k \in Keys
  <2>1. 1 \in DOMAIN q.heap
    BY GoodFacts
  <2> QED BY <2>1, GoodFacts DEF GoodQueue
<1>2. /\ Sound(Keys, Keys, p) /\ Timers(p) = Timers(q) \ {t}
      /\ \A w \in Keys : w \notin Words(p) => p.index[w] = q.index[w]
  <2>1. Sound(Keys, Keys, q)
    BY DEF GoodQueue
  <2>2. PICK s : s = PopTimer(q)
    OBVIOUS
  <2> QED BY <2>1, <2>2, PopCorrect
<1> HIDE DEF p, t, k
<1>3. Words(p) = {u.word : u \in Timers(p)} /\ Words(q) = {u.word : u \in Timers(q)}
  BY DEF Words, Timers
<1>4. k \notin Words(p)
  <2>1. \A u \in Timers(q) : u.word = k => u = t
    BY <1>1, GoodFacts, KeysNameTimers DEF GoodQueue, k
  <2> QED BY <1>2, <1>3, <2>1
<1>5. \A j \in Keys \ {k} : j \notin Words(p) => p.index[j] = NoIndex
  BY <1>1, <1>2, <1>3 DEF GoodQueue
<1>6. \A u \in Timers(p) : u.word = u.key /\ u.expiresAt \in Times
  BY <1>2 DEF GoodQueue
<1>7. GoodQueue(r) /\ Timers(r) = Timers(p)
  BY <1>1, <1>2, <1>4, <1>5, <1>6, EntryDeleted DEF p, t, k
<1>8. ASSUME NEW u \in Timers(q) PROVE t.expiresAt <= u.expiresAt
  <2>1. PICK i \in DOMAIN q.heap : u = q.heap[i]
    BY DEF Timers
  <2>2. ~ (u.expiresAt < t.expiresAt)
    BY <2>1, GoodFacts, FirstIsEarliest DEF Before, t
  <2>3. u.expiresAt \in Int /\ t.expiresAt \in Int
    BY <1>1, GoodFacts, TimesAssumption
  <2> QED BY <2>2, <2>3
<1> QED BY <1>1, <1>2, <1>7, <1>8 DEF t

-----------------------------------------------------------------------------
(* The invariant                                                           *)

LEMMA QAfter ==
  ASSUME NEW r, GoodQueue(r), Becomes(r)
  PROVE  Q' = r
BY GoodFacts DEF Becomes, Q

LEMMA InitGood == Init => HeapInv /\ Timers(Q) = {}
<1> SUFFICES ASSUME Init PROVE HeapInv /\ Timers(Q) = {}
  OBVIOUS
<1>1. Q.heap = << >> /\ Q.index = [k \in Keys |-> NoIndex] /\ DOMAIN Q.heap = {}
  BY DEF Init, Q
<1>2. Q \in Queues(Keys, Keys)
  BY <1>1 DEF Queues, Q, NoIndex, Init
<1>3. Indexed(Q) /\ Ordered(Q) /\ KeysDiffer(Q) /\ Timers(Q) = {}
  BY <1>1 DEF Indexed, Ordered, KeysDiffer, Timers
<1> QED BY <1>1, <1>2, <1>3 DEF HeapInv, GoodQueue, Sound

\* What a step does to the timers.
LEMMA PushStep ==
  ASSUME HeapInv, NEW k \in Keys, NEW at \in Times, Push(k, at)
  PROVE  /\ HeapInv' /\ Timers(Q') = Timers(Q) \cup {Timer(k, at, k)}
         /\ \A t \in Timers(Q) : t.key # k
<1>1. PICK r : r = PushTimer(Q, Timer(k, at, k))
  OBVIOUS
<1>2. Q.index[k] = NoIndex /\ Becomes(r)
  BY <1>1 DEF Push, Q
<1>3. /\ GoodQueue(r) /\ Timers(r) = Timers(Q) \cup {Timer(k, at, k)}
      /\ \A t \in Timers(Q) : t.key # k
  BY <1>1, <1>2, PushGood DEF HeapInv
<1> QED BY <1>2, <1>3, QAfter DEF HeapInv

LEMMA UpdateStep ==
  ASSUME HeapInv, NEW k \in Keys, NEW at \in Times, Update(k, at)
  PROVE  /\ HeapInv'
         /\ \E t \in Timers(Q) : t.key = k /\ Timers(Q') = (Timers(Q) \ {t}) \cup {Timer(k, at, k)}
<1>1. PICK r : r = UpdateTimer(Q, Q.index[k], at)
  OBVIOUS
<1>2. Q.index[k] # NoIndex /\ Becomes(r)
  BY <1>1 DEF Update, Q
<1>3. /\ GoodQueue(r)
      /\ \E t \in Timers(Q) : t.key = k /\ Timers(r) = (Timers(Q) \ {t}) \cup {Timer(k, at, k)}
  BY <1>1, <1>2, UpdateGood DEF HeapInv
<1> QED BY <1>2, <1>3, QAfter DEF HeapInv

LEMMA RemoveStep ==
  ASSUME HeapInv, NEW k \in Keys, Remove(k)
  PROVE  HeapInv' /\ \E t \in Timers(Q) : t.key = k /\ Timers(Q') = Timers(Q) \ {t}
<1>1. PICK r : r = WithoutEntry(RemoveTimer(Q, k), k)
  OBVIOUS
<1>2. HasTimer(Q, k) /\ Becomes(r)
  BY <1>1 DEF Remove
<1>3. GoodQueue(r) /\ \E t \in Timers(Q) : t.key = k /\ Timers(r) = Timers(Q) \ {t}
  BY <1>1, <1>2, RemoveGood DEF HeapInv
<1> QED BY <1>2, <1>3, QAfter DEF HeapInv

LEMMA PopStep ==
  ASSUME HeapInv, Pop
  PROVE  /\ HeapInv' /\ heap[1] \in Timers(Q) /\ Timers(Q') = Timers(Q) \ {heap[1]}
         /\ \A t \in Timers(Q) : heap[1].expiresAt <= t.expiresAt
<1>1. PICK r : r = WithoutEntry(PopTimer(Q), Q.heap[1].key)
  OBVIOUS
<1>2. Q.heap # << >> /\ Becomes(r) /\ Q.heap[1] = heap[1]
  BY <1>1 DEF Pop, Q
<1>3. /\ GoodQueue(r) /\ Q.heap[1] \in Timers(Q) /\ Timers(r) = Timers(Q) \ {Q.heap[1]}
      /\ \A t \in Timers(Q) : Q.heap[1].expiresAt <= t.expiresAt
  BY <1>1, <1>2, PopGood DEF HeapInv
<1> QED BY <1>2, <1>3, QAfter DEF HeapInv

LEMMA HeapInvInductive == HeapInv /\ [Next]_vars => HeapInv'
<1> SUFFICES ASSUME HeapInv, [Next]_vars PROVE HeapInv'
  OBVIOUS
<1>1. ASSUME NEW k \in Keys, NEW at \in Times, Push(k, at) PROVE HeapInv'
  BY <1>1, PushStep
<1>2. ASSUME NEW k \in Keys, NEW at \in Times, Update(k, at) PROVE HeapInv'
  BY <1>2, UpdateStep
<1>3. ASSUME NEW k \in Keys, Remove(k) PROVE HeapInv'
  BY <1>3, RemoveStep
<1>4. CASE Pop
  BY <1>4, PopStep
<1>5. CASE UNCHANGED vars
  BY <1>5 DEF vars, HeapInv, Q
<1> QED BY <1>1, <1>2, <1>3, <1>4, <1>5 DEF Next

LEMMA HeapInvHolds == Spec => []HeapInv
<1>1. Init => HeapInv
  BY InitGood
<1> QED BY <1>1, HeapInvInductive, PTL DEF Spec

-----------------------------------------------------------------------------
(* What the runs check, proved                                             *)

\* The vector holds timers of the keys, and every field names a position of it
\* or none, for heaps of any size.
THEOREM TypeCorrect == Spec => []TypeOK
<1>1. HeapInv => TypeOK
  <2> SUFFICES ASSUME HeapInv PROVE TypeOK
    OBVIOUS
  <2>1. GoodQueue(Q) /\ Q.heap = heap /\ Q.index = index
    BY DEF HeapInv, Q
  <2>2. \A i \in DOMAIN heap : heap[i] \in [key : Keys, expiresAt : Times, word : Keys]
    BY <2>1, GoodFacts DEF TimerSet, Timer
  <2>3. heap \in Seq([key : Keys, expiresAt : Times, word : Keys])
    <3>1. heap \in Seq(TimerSet(Keys, Keys))
      BY <2>1, GoodFacts, QueueFacts
    <3> DEFINE T == [key : Keys, expiresAt : Times, word : Keys]
    <3> HIDE DEF T
    <3>2. \A i \in DOMAIN heap : heap[i] \in T
      BY <2>2 DEF T
    <3>3. heap \in Seq(T)
      BY <3>1, <3>2
    <3> QED BY <3>3 DEF T
  <2>4. ASSUME NEW k \in Keys PROVE index[k] \in 0..Len(heap)
    <3>1. CASE k \in Words(Q)
      BY <2>1, <3>1, WordsOfKeys, GoodFacts
    <3>2. CASE k \notin Words(Q)
      BY <2>1, <3>2, GoodFacts DEF GoodQueue, NoIndex
    <3> QED BY <3>1, <3>2
  <2>5. index \in [Keys -> 0..Len(heap)]
    BY <2>1, <2>4, GoodFacts
  <2> QED BY <2>3, <2>5 DEF TypeOK
<1> QED BY <1>1, HeapInvHolds, PTL

\* After every push, pop, update and removal no timer is due before the one
\* above it.
THEOREM HeapOrdered == Spec => []HeapOrder
<1>1. HeapInv => HeapOrder
  BY DEF HeapInv, GoodQueue, Sound, Ordered, HeapOrder, Q
<1> QED BY <1>1, HeapInvHolds, PTL

\* However timers are swapped, the field ttlHeapIndex of an entry is the position
\* of its own timer, and -1 when it has none.
THEOREM IndexesRight == Spec => []IndexesPointBack
<1>1. HeapInv => IndexesPointBack
  <2> SUFFICES ASSUME HeapInv, NEW k \in Keys
               PROVE  IF HasTimer(Q, k) THEN index[k] \in DOMAIN heap /\ heap[index[k]].key = k
                                        ELSE index[k] = NoIndex
    BY DEF IndexesPointBack
  <2>1. GoodQueue(Q) /\ Q.heap = heap /\ Q.index = index
    BY DEF HeapInv, Q
  <2> QED BY <2>1, WordsOfKeys
<1> QED BY <1>1, HeapInvHolds, PTL

-----------------------------------------------------------------------------
(* The heap implements the queue of deadlines                              *)

DeadlineIn(q, k) == IF HasTimer(q, k) THEN q.heap[PositionOf(q, k)].expiresAt ELSE Never
DeadlinesIn(q) == [k \in Keys |-> DeadlineIn(q, k)]

LEMMA DeadlinesFollowTimers ==
  ASSUME NEW q, GoodQueue(q)
  PROVE  /\ \A t \in Timers(q) : DeadlinesIn(q)[t.key] = t.expiresAt /\ t.key \in Keys
         /\ \A k \in Keys : DeadlinesIn(q)[k] # Never <=> \E t \in Timers(q) : t.key = k
         /\ \A k \in Keys : (\A t \in Timers(q) : t.key # k) => DeadlinesIn(q)[k] = Never
<1>1. ASSUME NEW t \in Timers(q)
      PROVE  DeadlinesIn(q)[t.key] = t.expiresAt /\ t.key \in Keys /\ t.expiresAt # Never
  <2>1. HasTimer(q, t.key) /\ t.key \in Keys /\ t.expiresAt \in Times
    BY GoodFacts DEF HasTimer, Timers
  <2>2. PositionOf(q, t.key) \in DOMAIN q.heap /\ q.heap[PositionOf(q, t.key)].key = t.key
    BY <2>1, GoodFacts, PositionIs
  <2>3. q.heap[PositionOf(q, t.key)] = t
    BY <2>2, GoodFacts, KeysNameTimers
  <2> QED BY <2>1, <2>3, TimesAssumption DEF DeadlinesIn, DeadlineIn
<1>2. ASSUME NEW k \in Keys, \A t \in Timers(q) : t.key # k PROVE DeadlinesIn(q)[k] = Never
  BY <1>2 DEF HasTimer, Timers, DeadlinesIn, DeadlineIn
<1> QED BY <1>1, <1>2

\* Deadlines are told apart by the timers alone.
LEMMA DeadlinesOfTimers ==
  ASSUME NEW q, GoodQueue(q), NEW r, GoodQueue(r), NEW k \in Keys, NEW d,
         \A t \in Timers(q) : t.key # k => t \in Timers(r),
         \A t \in Timers(r) : t.key # k => t \in Timers(q),
         DeadlinesIn(r)[k] = d
  PROVE  DeadlinesIn(r) = [DeadlinesIn(q) EXCEPT ![k] = d]
<1>1. ASSUME NEW j \in Keys, j # k PROVE DeadlinesIn(r)[j] = DeadlinesIn(q)[j]
  <2>1. CASE \E t \in Timers(q) : t.key = j
    BY <1>1, <2>1, DeadlinesFollowTimers
  <2>2. CASE \A t \in Timers(q) : t.key # j
    <3>1. \A t \in Timers(r) : t.key # j
      BY <1>1, <2>2
    <3> QED BY <2>2, <3>1, DeadlinesFollowTimers
  <2> QED BY <2>1, <2>2
<1>2. DeadlinesIn(q) = [j \in Keys |-> DeadlinesIn(q)[j]]
      /\ DeadlinesIn(r) = [j \in Keys |-> DeadlinesIn(r)[j]]
  BY DEF DeadlinesIn
<1> QED BY <1>1, <1>2

\* Every run of the heap is a run of the queue: each operation changes the
\* deadline of the key it is about and of no other, and what expires is due first.
THEOREM Refinement == Spec => ImplementsTimerQueue
<1>1. [k \in Keys |-> DeadlineOf(k)] = DeadlinesIn(Q)
  BY DEF DeadlineOf, DeadlinesIn, DeadlineIn, Q
<1>2. Init => Queue!Init
  <2> SUFFICES ASSUME Init PROVE Queue!Init
    OBVIOUS
  <2>1. \A k \in Keys : DeadlinesIn(Q)[k] = Never
    BY InitGood, DeadlinesFollowTimers DEF HeapInv
  <2>2. DeadlinesIn(Q) = [k \in Keys |-> Never]
    BY <2>1 DEF DeadlinesIn
  <2> QED BY <1>1, <2>2 DEF Queue!Init, Init
<1>3. HeapInv /\ [Next]_vars => [Queue!Next]_Queue!queueVars
  <2> SUFFICES ASSUME HeapInv, [Next]_vars PROVE [Queue!Next]_Queue!queueVars
    OBVIOUS
  <2>1. [k \in Keys |-> DeadlineOf(k)]' = DeadlinesIn(Q')
    BY DEF DeadlineOf, DeadlinesIn, DeadlineIn, Q
  <2>2. GoodQueue(Q) /\ Queue!Timed = {k \in Keys : DeadlinesIn(Q)[k] # Never}
    BY <1>1 DEF HeapInv, Queue!Timed
  <2>3. ASSUME NEW k \in Keys, NEW at \in Times, Push(k, at) PROVE Queue!Push(k, at)
    <3>1. /\ GoodQueue(Q') /\ Timers(Q') = Timers(Q) \cup {Timer(k, at, k)}
          /\ \A t \in Timers(Q) : t.key # k
      BY <2>3, PushStep DEF HeapInv
    <3>2. Timer(k, at, k).key = k /\ Timer(k, at, k).expiresAt = at
      BY DEF Timer
    <3>3. k \notin Queue!Timed /\ DeadlinesIn(Q')[k] = at
      BY <2>2, <3>1, <3>2, DeadlinesFollowTimers
    <3>4. DeadlinesIn(Q') = [DeadlinesIn(Q) EXCEPT ![k] = at]
      BY <2>2, <3>1, <3>2, <3>3, DeadlinesOfTimers
    <3> QED BY <1>1, <2>1, <2>3, <3>3, <3>4 DEF Queue!Push, Push
  <2>4. ASSUME NEW k \in Keys, NEW at \in Times, Update(k, at) PROVE Queue!Update(k, at)
    <3>1. /\ GoodQueue(Q')
          /\ \E t \in Timers(Q) : t.key = k /\ Timers(Q') = (Timers(Q) \ {t}) \cup {Timer(k, at, k)}
      BY <2>4, UpdateStep DEF HeapInv
    <3>2. Timer(k, at, k).key = k /\ Timer(k, at, k).expiresAt = at
      BY DEF Timer
    <3>3. k \in Queue!Timed /\ DeadlinesIn(Q')[k] = at
      BY <2>2, <3>1, <3>2, DeadlinesFollowTimers
    <3>4. DeadlinesIn(Q') = [DeadlinesIn(Q) EXCEPT ![k] = at]
      BY <2>2, <3>1, <3>2, <3>3, DeadlinesOfTimers
    <3> QED BY <1>1, <2>1, <2>4, <3>3, <3>4 DEF Queue!Update, Update
  <2>5. ASSUME NEW k \in Keys, NEW t \in Timers(Q), t.key = k, GoodQueue(Q'),
               Timers(Q') = Timers(Q) \ {t}
        PROVE  k \in Queue!Timed /\ DeadlinesIn(Q') = [DeadlinesIn(Q) EXCEPT ![k] = Never]
    <3>1. \A u \in Timers(Q) : u.key = k => u = t
      BY <2>2, <2>5, GoodFacts, KeysNameTimers
    <3>2. k \in Queue!Timed /\ DeadlinesIn(Q')[k] = Never
      BY <2>2, <2>5, <3>1, DeadlinesFollowTimers
    <3> QED BY <2>2, <2>5, <3>1, <3>2, DeadlinesOfTimers
  <2>6. ASSUME NEW k \in Keys, Remove(k) PROVE Queue!Remove(k)
    <3>1. GoodQueue(Q') /\ \E t \in Timers(Q) : t.key = k /\ Timers(Q') = Timers(Q) \ {t}
      BY <2>6, RemoveStep DEF HeapInv
    <3>2. k \in Queue!Timed /\ DeadlinesIn(Q') = [DeadlinesIn(Q) EXCEPT ![k] = Never]
      BY <2>5, <3>1
    <3> QED BY <1>1, <2>1, <2>6, <3>2 DEF Queue!Remove, Remove
  <2>7. ASSUME Pop PROVE heap[1].key \in Keys /\ Queue!Pop(heap[1].key)
    <3> DEFINE t == heap[1]
               k == heap[1].key
    <3>1. /\ GoodQueue(Q') /\ t \in Timers(Q) /\ Timers(Q') = Timers(Q) \ {t}
          /\ \A u \in Timers(Q) : t.expiresAt <= u.expiresAt
      BY <2>7, PopStep DEF HeapInv
    <3>2. k \in Keys
      BY <2>2, <3>1, GoodFacts
    <3>3. k \in Queue!Timed /\ DeadlinesIn(Q') = [DeadlinesIn(Q) EXCEPT ![k] = Never]
      BY <2>5, <3>1, <3>2
    <3>4. ASSUME NEW j \in Queue!Timed PROVE DeadlinesIn(Q)[k] <= DeadlinesIn(Q)[j]
      <4>1. PICK u \in Timers(Q) : u.key = j
        BY <2>2, <3>4, DeadlinesFollowTimers
      <4> QED BY <2>2, <3>1, <4>1, DeadlinesFollowTimers
    <3> QED BY <1>1, <2>1, <2>7, <3>2, <3>3, <3>4 DEF Queue!Pop, Pop
  <2>8. CASE UNCHANGED vars
    <3>1. Q' = Q /\ call' = call
      BY <2>8 DEF vars, Q
    <3>2. [k \in Keys |-> DeadlineOf(k)]' = [k \in Keys |-> DeadlineOf(k)]
      BY <1>1, <2>1, <3>1
    <3> QED BY <3>1, <3>2 DEF Queue!queueVars
  <2>9. ASSUME Next PROVE Queue!Next
    BY <2>3, <2>4, <2>6, <2>7, <2>9 DEF Next, Queue!Next
  <2> QED BY <2>8, <2>9
<1> QED BY <1>2, <1>3, HeapInvHolds, PTL DEF Spec, ImplementsTimerQueue, Queue!Spec
=============================================================================
