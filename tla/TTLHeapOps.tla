----------------------------- MODULE TTLHeapOps -----------------------------
(***************************************************************************)
(* The binary heap of TTLHeap as operators on a record q of                *)
(*   q.heap   the vector of timers (HeapEntry), earliest in front, and      *)
(*   q.index  the memory words the timers point to: q.index[w] is what the *)
(*            ttlHeapIndex field at address w holds.                       *)
(* Positions are counted from 1, as in every TLA+ sequence; the index that *)
(* stands for "in no heap", (size_t)-1 in the code, is 0.                  *)
(***************************************************************************)
EXTENDS Integers, Sequences

NoIndex == 0

Timer(k, at, w) == [key |-> k, expiresAt |-> at, word |-> w]

\* Is the timer at position i due before the one at position j?
Before(q, i, j) == q.heap[i].expiresAt < q.heap[j].expiresAt

\* Mutation of SwapEntries: only the timer that moves to i learns about it.
SwapEntriesOneWord(q, i, j) ==
  LET swapped == [q.heap EXCEPT ![i] = q.heap[j], ![j] = q.heap[i]]
  IN [heap |-> swapped, index |-> [q.index EXCEPT ![swapped[i].word] = i]]

\* Both timers tell the entry they belong to where they are now.
SwapEntries(q, i, j) ==
  LET swapped == [q.heap EXCEPT ![i] = q.heap[j], ![j] = q.heap[i]]
  IN [heap |-> swapped,
      index |-> [q.index EXCEPT ![swapped[i].word] = i, ![swapped[j].word] = j]]

\* One round of a sift: s is where the timer is (s.at) in which queue (s.q).
\* A round that finds the timer in its place changes nothing, so a sift is
\* as many rounds as the heap has timers, which is more than it is deep.
RaiseOne(s) ==
  LET parent == s.at \div 2
  IN IF s.at > 1 /\ Before(s.q, s.at, parent)
     THEN [q |-> SwapEntries(s.q, s.at, parent), at |-> parent]
     ELSE s

\* Ties are decided for the position itself, then for its left child.
Smallest(q, i) ==
  CHOOSE c \in {i, 2 * i, 2 * i + 1} \cap DOMAIN q.heap :
    \A d \in {i, 2 * i, 2 * i + 1} \cap DOMAIN q.heap :
      Before(q, c, d) \/ (~ Before(q, d, c) /\ c <= d)

LowerOne(s) ==
  LET c == Smallest(s.q, s.at)
  IN IF c = s.at THEN s ELSE [q |-> SwapEntries(s.q, s.at, c), at |-> c]

HeapifyUp(q, i) ==
  LET after[n \in 0..Len(q.heap)] ==
        IF n = 0 THEN [q |-> q, at |-> i] ELSE RaiseOne(after[n - 1])
  IN after[Len(q.heap)].q

HeapifyDown(q, i) ==
  LET after[n \in 0..Len(q.heap)] ==
        IF n = 0 THEN [q |-> q, at |-> i] ELSE LowerOne(after[n - 1])
  IN after[Len(q.heap)].q

\* The vector after pop_back.
Popped(timers) == SubSeq(timers, 1, Len(timers) - 1)

\* Mutation of PushTimer: the index is the size after the timer was appended.
PushTimerOneOff(q, t) ==
  LET n == Len(q.heap) + 1
  IN HeapifyUp([heap |-> Append(q.heap, t), index |-> [q.index EXCEPT ![t.word] = n + 1]], n)

PushTimer(q, t) ==
  LET n == Len(q.heap) + 1
  IN HeapifyUp([heap |-> Append(q.heap, t), index |-> [q.index EXCEPT ![t.word] = n]], n)

\* Mutation of PopTimer: the last timer stays where it was put, in front.
PopTimerNoSift(q) ==
  LET last == q.heap[Len(q.heap)]
      rest == Popped(q.heap)
  IN IF rest = << >> THEN [q EXCEPT !.heap = rest]
     ELSE [heap |-> [rest EXCEPT ![1] = last], index |-> [q.index EXCEPT ![last.word] = 1]]

\* The last timer takes the place of the first, unless it is the first.
PopTimer(q) ==
  LET last == q.heap[Len(q.heap)]
      rest == Popped(q.heap)
  IN IF rest = << >> THEN [q EXCEPT !.heap = rest]
     ELSE HeapifyDown([heap |-> [rest EXCEPT ![1] = last],
                       index |-> [q.index EXCEPT ![last.word] = 1]], 1)

\* The first timer, in the order of the vector, that carries the name k.
HasTimer(q, k) == \E i \in DOMAIN q.heap : q.heap[i].key = k
PositionOf(q, k) ==
  CHOOSE i \in DOMAIN q.heap :
    /\ q.heap[i].key = k
    /\ \A j \in DOMAIN q.heap : q.heap[j].key = k => i <= j

\* Mutation of RemoveTimer: the timer that fills the gap is only moved down.
RemoveTimerNoRaise(q, k) ==
  IF ~ HasTimer(q, k) THEN q
  ELSE LET i == PositionOf(q, k)
           swapped == SwapEntries(q, i, Len(q.heap))
           cut == [swapped EXCEPT !.heap = Popped(@)]
       IN IF i > Len(cut.heap) THEN cut ELSE HeapifyDown(cut, i)

\* The timer is swapped with the last one and cut off; what came in its place
\* may belong further down or further up.  Swapping writes the index of the
\* removed timer once more: the HeapEntry has been deleted by then, and so,
\* when DEL calls, has the table entry it points to.  Nothing has been
\* allocated in between, so the write reaches memory that nobody owns.
RemoveTimer(q, k) ==
  IF ~ HasTimer(q, k) THEN q
  ELSE LET i == PositionOf(q, k)
           swapped == SwapEntries(q, i, Len(q.heap))
           cut == [swapped EXCEPT !.heap = Popped(@)]
       IN IF i > Len(cut.heap) THEN cut ELSE HeapifyUp(HeapifyDown(cut, i), i)

\* Mutation of UpdateTimer: a deadline that comes nearer leaves the timer where it is.
UpdateTimerNoRaise(q, i, at) ==
  LET changed == [q EXCEPT !.heap[i].expiresAt = at]
  IN IF at > q.heap[i].expiresAt THEN HeapifyDown(changed, i) ELSE changed

UpdateTimer(q, i, at) ==
  LET changed == [q EXCEPT !.heap[i].expiresAt = at]
      was == q.heap[i].expiresAt
  IN IF at < was THEN HeapifyUp(changed, i)
     ELSE IF at > was THEN HeapifyDown(changed, i)
     ELSE changed
=============================================================================
