------------------------------ MODULE TTLHeap ------------------------------
(***************************************************************************)
(* The heap of deadlines by itself, with table entries that stay where they *)
(* are: entry k has its ttlHeapIndex field at address k.                   *)
(***************************************************************************)
EXTENDS TTLHeapOps

CONSTANTS
  Keys,   \* the keys that may have a time to live
  Times,  \* the deadlines they may be given
  Never   \* not a deadline

ASSUME TimesAssumption == Times \subseteq Int /\ Never \notin Times

VARIABLES
  heap,   \* _heap, the vector of timers
  index,  \* index[k]: the field ttlHeapIndex of the entry of k
  call    \* the last operation: its name and its arguments; for a pop, the key
          \* of the timer removeExpired has got from top()

vars == <<heap, index, call>>

Q == [heap |-> heap, index |-> index]
Becomes(q) == heap' = q.heap /\ index' = q.index

Init ==
  /\ heap = << >>
  /\ index = [k \in Keys |-> NoIndex]
  /\ call = <<"none">>

\* PExpireCommand pushes a timer or updates the one there is, and tells the
\* two apart by the field of the entry alone.
Push(k, at) ==
  /\ index[k] = NoIndex
  /\ Becomes(PushTimer(Q, Timer(k, at, k)))
  /\ call' = <<"push", k, at>>

Update(k, at) ==
  /\ index[k] # NoIndex
  /\ Becomes(UpdateTimer(Q, index[k], at))
  /\ call' = <<"update", k, at>>

\* DelCommand and TTLManager::removeExpired remove the entry as well: the key
\* comes back, if it does, as a new entry without an index.
WithoutEntry(q, k) == [q EXCEPT !.index[k] = NoIndex]

Remove(k) ==
  /\ HasTimer(Q, k)
  /\ Becomes(WithoutEntry(RemoveTimer(Q, k), k))
  /\ call' = <<"remove", k>>

\* What expires is the key top() was about; pop() comes after it.
Pop ==
  /\ heap # << >>
  /\ call' = <<"pop", heap[1].key>>
  /\ Becomes(WithoutEntry(PopTimer(Q), heap[1].key))

Next ==
  \/ \E k \in Keys, at \in Times : Push(k, at)
  \/ \E k \in Keys, at \in Times : Update(k, at)
  \/ \E k \in Keys : Remove(k)
  \/ Pop

Spec == Init /\ [][Next]_vars
-----------------------------------------------------------------------------
(* Properties                                                              *)

\* A vector of timers, and for every entry a position or none.
TypeOK ==
  /\ heap \in Seq([key : Keys, expiresAt : Times, word : Keys])
  /\ index \in [Keys -> 0..Len(heap)]

\* No timer is due before the one above it: top() is the earliest of all.
HeapOrder == \A i \in DOMAIN heap : i > 1 => ~ Before(Q, i, i \div 2)

\* The field of an entry is the position of its timer.  PEXPIRE changes the
\* deadline of whatever stands at the position the field names, so one field
\* left behind by a swap changes the deadline of another key.
IndexesPointBack ==
  \A k \in Keys :
    IF HasTimer(Q, k) THEN index[k] \in DOMAIN heap /\ heap[index[k]].key = k
                      ELSE index[k] = NoIndex

\* The heap implements the queue of deadlines: every operation changes the
\* deadline of the key it is about and no other, and the key that expires is one
\* that none of the others is due before.
DeadlineOf(k) == IF HasTimer(Q, k) THEN heap[PositionOf(Q, k)].expiresAt ELSE Never

Queue == INSTANCE TimerQueue WITH deadline <- [k \in Keys |-> DeadlineOf(k)]

ImplementsTimerQueue == Queue!Spec
=============================================================================
