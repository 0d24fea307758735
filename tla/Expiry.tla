------------------------------- MODULE Expiry -------------------------------
(***************************************************************************)
(* Keys with a time to live: the commands GET, SET, DEL, PEXPIRE and PTTL, *)
(* and the sweep TTLManager::removeExpired that the server loop runs after *)
(* it has answered requests, on top of the real table and the real heap.   *)
(*                                                                         *)
(* The two structures are tied together by addresses.  The table stores    *)
(* HashTable::Entry structs; a timer in the heap points to the field       *)
(* ttlHeapIndex of one of them, and the sweep gets from there to the entry  *)
(* and its key (container_of).  So the table is used here with addresses   *)
(* of entries as its values; what a client stores under a key plays no     *)
(* part in its expiry.                                                     *)
(*                                                                         *)
(* Time is counted in ticks, TicksPerSecond of them in a second; a tick    *)
(* stands for the milliseconds of the commands' arguments and answers.     *)
(***************************************************************************)
EXTENDS TTLHeapOps, FiniteSets

CONSTANTS
  Keys,            \* the keys clients use
  Addrs,           \* where an Entry may be allocated
  Null,            \* the null pointer
  Hash,            \* the hash code of each key
  InitialSlots,    \* slots of the first table (128 in the code)
  MaxLoad,         \* kMaxLoadFactor (8)
  WorkSize,        \* kRehashingWorkSize (128)
  TicksPerSecond,  \* milliseconds in a second (1000)
  IntMax,          \* the largest int
  TTLs,            \* the arguments of PEXPIRE
  MaxExpiresWork,  \* kMaxExpiresWork: keys removed by one sweep (2000)
  RewritesOlder,   \* do clients SET a key whose entry has yet to be migrated?
  MaxNow           \* bound on the clock

\* What ResizableHashTable assumes of its constants.
ASSUME TableAssumption ==
  /\ Null \notin Addrs
  /\ Hash \in [Keys -> Nat]
  /\ InitialSlots \in Nat \ {0}
  /\ \E n \in 0..InitialSlots : InitialSlots = 2^n
  /\ MaxLoad \in Nat \ {0}
  /\ WorkSize \in Nat \ {0, 1}

ASSUME MemoryAssumption == IsFiniteSet(Addrs)

ASSUME TimeAssumption ==
  /\ TicksPerSecond \in Nat \ {0}
  /\ IntMax \in Nat \ {0}
  /\ TTLs \subseteq Int
  /\ MaxExpiresWork \in Nat \ {0}
  /\ RewritesOlder \in BOOLEAN
  /\ MaxNow \in Nat

VARIABLES
  newer, older, migratePos,         \* the table, see ResizableHashTable
  heap, index,                      \* the timers, see TTLHeapOps
  now,                              \* steady_clock::now()
  work,                             \* the sweep's workCount, Serving outside a sweep
  asked                             \* asked[k]: when the client wants k gone, Never if not

tableVars == <<newer, older, migratePos>>
queueVars == <<heap, index>>
vars == <<tableVars, queueVars, now, work, asked>>

\* The table of ResizableHashTable; its answers to the commands are not used.
Table == INSTANCE ResizableHashTable WITH Values <- Addrs, reply <- Null

Serving == -1
Never == -1

Q == [heap |-> heap, index |-> index]
Becomes(q) == heap' = q.heap /\ index' = q.index

\* The address of the entry of k, in whichever table it is.
EntryOf(k) == Table!Lookup(k)
Present == {k \in Keys : EntryOf(k) # Null}
KeyAt(a) == {k \in Present : EntryOf(k) = a}
Free == {a \in Addrs : KeyAt(a) = {}}

\* static_cast<int>, and the int TTLHeap::getByKey returns.
ToInt(n) == ((n + IntMax + 1) % (2 * (IntMax + 1))) - (IntMax + 1)

\* Mutation of Deadline: the milliseconds become an int before they are divided.
DeadlineOfInt(ttl) == now + (ToInt(ttl) \div TicksPerSecond) * TicksPerSecond

\* PEXPIRE divides what it is given by 1000 and hands on whole seconds.
Deadline(ttl) == now + ToInt(ttl \div TicksPerSecond) * TicksPerSecond

TimersOf(k) == {i \in DOMAIN heap : heap[i].key = k}

Init ==
  /\ newer = Table!EmptyTable(InitialSlots)
  /\ older = Table!NoTable
  /\ migratePos = 0
  /\ heap = << >>
  /\ index = [a \in Addrs |-> NoIndex]
  /\ now = 0
  /\ work = Serving
  /\ asked = [k \in Keys |-> Never]

-----------------------------------------------------------------------------
(* Commands                                                                *)

\* A value is overwritten in the entry it has in newer; otherwise newer gets
\* a new entry, without an index, and the one in older, if any, is deleted.
Set(k) ==
  /\ work = Serving
  /\ RewritesOlder \/ k \notin Present \/ Table!HTGet(newer, k) # Null
  /\ LET there == Table!HTGet(newer, k)
     IN IF there # Null
        THEN Table!PutEntry(k, there) /\ UNCHANGED index
        ELSE \E a \in Free : Table!PutEntry(k, a) /\ index' = [index EXCEPT ![a] = NoIndex]
  /\ UNCHANGED <<heap, now, work, asked>>

\* GET matters here because it moves entries while a migration runs.
Get(k) ==
  /\ work = Serving
  /\ Table!MigrateIfRehashing
  /\ UNCHANGED <<queueVars, now, work, asked>>

\* Mutation of Del: the timer of the deleted key is left in the heap.
DelLeavesTimer(k) ==
  /\ work = Serving
  /\ Table!DropEntry(k)
  /\ asked' = [asked EXCEPT ![k] = Never]
  /\ UNCHANGED <<queueVars, now, work>>

\* First the entry goes, then its timer, which is searched for by name.
Del(k) ==
  /\ work = Serving
  /\ Table!DropEntry(k)
  /\ Becomes(IF k \in Present THEN RemoveTimer(Q, k) ELSE Q)
  /\ asked' = [asked EXCEPT ![k] = Never]
  /\ UNCHANGED <<now, work>>

\* Mutation of PExpire: a second PEXPIRE pushes a second timer.
PExpireAlwaysPushes(k, ttl) ==
  /\ work = Serving
  /\ IF ttl > 0 /\ k \in Present
     THEN /\ Becomes(PushTimer(Q, Timer(k, Deadline(ttl), EntryOf(k))))
          /\ asked' = [asked EXCEPT ![k] = now + ttl]
     ELSE UNCHANGED <<queueVars, asked>>
  /\ UNCHANGED <<tableVars, now, work>>

\* The field of the entry decides whether there is a timer to update.  A field
\* that names no position, which TimersPointToEntries excludes, would send
\* updateTTL behind the end of its vector; that is not followed any further.
PExpire(k, ttl) ==
  /\ work = Serving
  /\ IF ttl > 0 /\ k \in Present
     THEN LET a == EntryOf(k)
          IN /\ index[a] \in {NoIndex} \cup DOMAIN heap
             /\ Becomes(IF index[a] = NoIndex
                        THEN PushTimer(Q, Timer(k, Deadline(ttl), a))
                        ELSE UpdateTimer(Q, index[a], Deadline(ttl)))
             /\ asked' = [asked EXCEPT ![k] = now + ttl]
     ELSE UNCHANGED <<queueVars, asked>>
  /\ UNCHANGED <<tableVars, now, work>>

\* Mutation of RemainingOf: what is left is counted in seconds.
RemainingOfSeconds(k) ==
  IF TimersOf(k) = {} THEN -1
  ELSE ToInt((heap[PositionOf(Q, k)].expiresAt - now) \div TicksPerSecond) * TicksPerSecond

\* What PTTL answers: the time left according to the first timer with that
\* name, and -1 without one.  The command changes nothing.
RemainingOf(k) ==
  IF TimersOf(k) = {} THEN -1 ELSE ToInt(heap[PositionOf(Q, k)].expiresAt - now)

-----------------------------------------------------------------------------
(* The sweep                                                               *)

StartSweep ==
  /\ work = Serving
  /\ work' = 0
  /\ UNCHANGED <<tableVars, queueVars, now, asked>>

\* Mutation of SweepGoesOn: the sweep may remove one key less than that.
SweepGoesOnNever ==
  /\ heap # << >>
  /\ work < MaxExpiresWork - 1
  /\ heap[1].expiresAt <= now

SweepGoesOn ==
  /\ heap # << >>
  /\ work < MaxExpiresWork
  /\ heap[1].expiresAt <= now

\* The entry the timer points to is the one that is deleted, by its own key.
\* Of memory that has been freed and not allocated again, the key that is left
\* in it is the timer's own, or none.
DeleteEntryAt(a) ==
  \/ \E k \in KeyAt(a) : Table!DropEntry(k) /\ asked' = [asked EXCEPT ![k] = Never]
  \/ /\ KeyAt(a) = {}
     /\ \/ Table!DropEntry(heap[1].key) /\ asked' = [asked EXCEPT ![heap[1].key] = Never]
        \/ UNCHANGED <<tableVars, asked>>

\* One round of the loop in removeExpired; the clock is read anew in each.
ExpireTop ==
  /\ work # Serving
  /\ SweepGoesOn
  /\ LET a == heap[1].word
         popped == PopTimer(Q)
     IN /\ Becomes([popped EXCEPT !.index[a] = NoIndex])
        /\ DeleteEntryAt(a)
  /\ work' = work + 1
  /\ UNCHANGED <<now>>

EndSweep ==
  /\ work # Serving
  /\ ~ SweepGoesOn
  /\ work' = Serving
  /\ UNCHANGED <<tableVars, queueVars, now, asked>>

Tick ==
  /\ now < MaxNow
  /\ now' = now + 1
  /\ UNCHANGED <<tableVars, queueVars, work, asked>>

Next ==
  \/ \E k \in Keys : Get(k)
  \/ \E k \in Keys : Set(k)
  \/ \E k \in Keys : Del(k)
  \/ \E k \in Keys, ttl \in TTLs : PExpire(k, ttl)
  \/ StartSweep
  \/ ExpireTop
  \/ EndSweep
  \/ Tick

\* The server loop always comes round to the sweep and through it: poll waits
\* at most 100 ms, and each of its other parts does a bounded amount of work.
\* GoesRound is what StartSweep, ExpireTop and EndSweep do to work: one of them
\* is always possible, and nothing else changes it.
GoesRound ==
  \/ work = Serving /\ work' = 0
  \/ work # Serving /\ SweepGoesOn /\ work' = work + 1
  \/ work # Serving /\ ~ SweepGoesOn /\ work' = Serving

Fairness == WF_work(GoesRound)

Spec == Init /\ [][Next]_vars /\ Fairness
-----------------------------------------------------------------------------
(* Properties                                                              *)

\* The structures have their shapes, and the field of an entry in use names a
\* position of the vector or none.
TypeOK ==
  /\ Table!TypeOK /\ Table!Reachable /\ Table!UniqueKeys
  /\ heap \in Seq([key : Keys, expiresAt : Int, word : Addrs])
  /\ index \in [Addrs -> 0..Cardinality(Addrs)]
  /\ \A k \in Present : index[EntryOf(k)] <= Len(heap)
  /\ now \in 0..MaxNow
  /\ work \in {Serving} \cup 0..MaxExpiresWork
  /\ asked \in [Keys -> Int]

\* Every timer points to the entry its key has now, and that entry knows where
\* the timer is; a key without one has an entry that says so.  Migrations move
\* the entry, swaps move the timer, DEL and the sweep remove both.
TimersPointToEntries ==
  /\ \A i \in DOMAIN heap :
       EntryOf(heap[i].key) = heap[i].word /\ index[heap[i].word] = i
  /\ \A k \in Present : TimersOf(k) = {} => index[EntryOf(k)] = NoIndex

\* A key has a timer if its client has asked for one and not deleted it since.
TimersAsAsked == \A k \in Keys : asked[k] # Never <=> TimersOf(k) # {}

Vanishes(k) == k \in Present /\ k \notin Present'

\* Outside DEL a key only ever leaves because it was given a time to live: a
\* PEXPIRE of one key never costs a client another.
UntimedKeysStay ==
  [][\A k \in Keys : Vanishes(k) /\ work # Serving => asked[k] # Never]_vars

\* A key with a time to live goes less than a second before it is over, if at all:
\* what PEXPIRE cuts off is no more than that, and neither the int it hands on nor
\* a deadline that is moved or taken from a migrated entry costs the key more.
AlmostNoEarlyExpiry ==
  [][\A k \in Keys : Vanishes(k) /\ work # Serving => now + TicksPerSecond > asked[k]]_vars

\* An int has room for the time until k is due; and for the time since, together
\* with the second PEXPIRE may have cut off.
LeftFits(k) ==
  asked[k] # Never /\ asked[k] - now \in (TicksPerSecond - IntMax - 1)..IntMax

\* PTTL answers the milliseconds that are left since the last PEXPIRE, or less than
\* a second fewer, as soon as an int has room for them: also for times to live
\* that it has no room for.
PTTLWithinASecond ==
  \A k \in Keys : LeftFits(k) =>
    /\ RemainingOf(k) <= asked[k] - now
    /\ asked[k] - now < RemainingOf(k) + TicksPerSecond

Due(k) == asked[k] # Never /\ asked[k] <= now

\* A sweep that ends before it has removed MaxExpiresWork keys leaves none that
\* is due: it looks at the first timer only, which stands for all the others.
SweepsFinish ==
  [][EndSweep => work = MaxExpiresWork \/ \A k \in Keys : ~ Due(k)]_vars

\* A key whose time has come is removed, although a sweep stops after
\* MaxExpiresWork keys and others keep coming due, unless the client gives it
\* more time.
DueKeysGo == \A k \in Keys : Due(k) ~> ~ Due(k)
=============================================================================
