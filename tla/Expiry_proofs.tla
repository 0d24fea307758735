---------------------------- MODULE Expiry_proofs ----------------------------
(***************************************************************************)
(* Proofs about Expiry, for any keys, hash codes, times to live and a      *)
(* memory of any size: how the table's entries, the heap's timers and what *)
(* the clients asked for stay tied together while entries migrate, timers  *)
(* are swapped and the sweep deletes both.                                 *)
(*                                                                         *)
(* What holds of the table and of the heap by themselves is taken from     *)
(* ResizableHashTable_proofs and TTLHeapOps_proofs.                        *)
(***************************************************************************)
EXTENDS Expiry, TTLHeapOps_proofs, FiniteSetTheorems

-----------------------------------------------------------------------------
(* The table                                                               *)

\* The table's proofs, about the table that Expiry uses: Proved!Op and Table!Op
\* have the same definition.
Proved == INSTANCE ResizableHashTable_proofs WITH Values <- Addrs, reply <- Null

\* The address of the entry of each key, as a function.
Entries == Proved!View

LEMMA SameCardinality == \A S : Table!Cardinality(S) = Proved!Cardinality(S)
BY DEF Table!Cardinality, Proved!Cardinality

LEMMA SameTable ==
  /\ Table!NoTable = Proved!NoTable
  /\ \A n : Table!EmptyTable(n) = Proved!EmptyTable(n)
  /\ \A t : Table!Capacity(t) = Proved!Capacity(t)
  /\ Table!IsRehashing <=> Proved!IsRehashing
  /\ \A t, k : Table!SlotOf(t, k) = Proved!SlotOf(t, k)
  /\ \A t, k : Table!Matches(t, k) = Proved!Matches(t, k)
BY DEF Table!NoTable, Proved!NoTable, Table!EmptyTable, Proved!EmptyTable,
       Table!Capacity, Proved!Capacity, Table!IsRehashing, Proved!IsRehashing,
       Table!SlotOf, Proved!SlotOf, Table!Matches, Proved!Matches

LEMMA SameHashTable ==
  ASSUME NEW t, NEW k
  PROVE  /\ Table!HTGet(t, k) = Proved!HTGet(t, k)
         /\ Table!HTDel(t, k) = Proved!HTDel(t, k)
         /\ \A v : Table!HTSet(t, k, v) = Proved!HTSet(t, k, v)
<1>1. Table!HTGet(t, k) = Proved!HTGet(t, k)
  BY DEF Table!HTGet, Proved!HTGet, Table!Matches, Proved!Matches,
         Table!SlotOf, Proved!SlotOf, Table!Capacity, Proved!Capacity
<1>2. Table!HTDel(t, k) = Proved!HTDel(t, k)
  BY DEF Table!HTDel, Proved!HTDel, Table!Matches, Proved!Matches,
         Table!SlotOf, Proved!SlotOf, Table!Capacity, Proved!Capacity
<1>3. ASSUME NEW v PROVE Table!HTSet(t, k, v) = Proved!HTSet(t, k, v)
  BY DEF Table!HTSet, Proved!HTSet, Table!Matches, Proved!Matches,
         Table!SlotOf, Proved!SlotOf, Table!Capacity, Proved!Capacity
<1> QED BY <1>1, <1>2, <1>3

LEMMA SameRehashing ==
  ASSUME NEW n, NEW o, NEW pos
  PROVE  Table!TryRehashing(n, o, pos) <=> Proved!TryRehashing(n, o, pos)
BY DEF Table!TryRehashing, Proved!TryRehashing, Table!IsBatch, Proved!IsBatch,
       Table!MoveIn, Proved!MoveIn, Table!MoveOut, Proved!MoveOut,
       Table!ScanPos, Proved!ScanPos, Table!Wanted, Proved!Wanted,
       Table!Least, Proved!Least, Table!ChainsFrom, Proved!ChainsFrom,
       Table!SlotOf, Proved!SlotOf, Table!Capacity, Proved!Capacity,
       Table!NoTable, Proved!NoTable, Table!EmptyTable, Proved!EmptyTable,
       Table!Cardinality, Proved!Cardinality

LEMMA SameCalls ==
  /\ Table!MigrateIfRehashing <=> Proved!MigrateIfRehashing
  /\ \A k : Table!DropEntry(k) <=> Proved!DropEntry(k)
  /\ \A k, v : Table!PutEntry(k, v) <=> Proved!PutEntry(k, v)
<1>1. Table!MigrateIfRehashing <=> Proved!MigrateIfRehashing
  BY SameTable, SameRehashing
     DEF Table!MigrateIfRehashing, Proved!MigrateIfRehashing,
         Table!UnchangedTables, Proved!UnchangedTables
<1>2. ASSUME NEW k PROVE Table!DropEntry(k) <=> Proved!DropEntry(k)
  BY SameTable, SameRehashing, SameHashTable DEF Table!DropEntry, Proved!DropEntry
<1>3. ASSUME NEW k, NEW v PROVE Table!PutEntry(k, v) <=> Proved!PutEntry(k, v)
  BY SameTable, SameRehashing, SameHashTable
     DEF Table!PutEntry, Proved!PutEntry, Table!TriggerRehashing, Proved!TriggerRehashing
<1> QED BY <1>1, <1>2, <1>3

LEMMA SameShape ==
  Table!TypeOK /\ Table!Reachable /\ Table!UniqueKeys
    <=> Proved!TypeOK /\ Proved!Reachable /\ Proved!UniqueKeys
BY SameTable
   DEF Table!TypeOK, Proved!TypeOK, Table!IsTable, Proved!IsTable, Table!Entry, Proved!Entry,
       Table!Reachable, Proved!Reachable, Table!WellPlaced, Proved!WellPlaced,
       Table!UniqueKeys, Proved!UniqueKeys, Table!OneEntryPerKey, Proved!OneEntryPerKey,
       Table!Contents, Proved!Contents, Table!ChainsFrom, Proved!ChainsFrom

LEMMA EntryOfIs ==
  /\ \A k \in Keys : EntryOf(k) = Entries[k]
  /\ \A k \in Keys : EntryOf(k)' = Entries'[k]
<1>1. \A k \in Keys : EntryOf(k) = Entries[k]
  BY SameTable, SameHashTable DEF EntryOf, Table!Lookup, Proved!Lookup, Entries, Proved!View
<1>2. (\A k \in Keys : EntryOf(k) = Entries[k])'
  BY <1>1, PTL
<1> QED BY <1>1, <1>2

\* What the commands do to the addresses of the entries.
LEMMA Emptied ==
  Init => Proved!IInv /\ Entries = [k \in Keys |-> Null]
<1> SUFFICES ASSUME Init PROVE Proved!IInv /\ Entries = [k \in Keys |-> Null]
  OBVIOUS
<1>1. newer = Proved!EmptyTable(InitialSlots) /\ older = Proved!NoTable /\ migratePos = 0
  BY SameTable DEF Init
<1>2. Proved!IInv /\ Proved!Stored = {}
  BY <1>1, TableAssumption, Proved!EmptyGood
<1>3. Proved!ViewAgrees
  BY <1>2, TableAssumption, Proved!ViewIs
<1> QED
  BY <1>2, <1>3 DEF Proved!ViewAgrees, Proved!StoredVal, Entries

LEMMA Untouched ==
  ASSUME Proved!IInv, UNCHANGED tableVars
  PROVE  Proved!IInv' /\ Entries' = Entries
<1>1. Proved!UnchangedTables
  BY DEF tableVars, Proved!UnchangedTables
<1>2. Proved!IInv' /\ Proved!Stored' = Proved!Stored
  BY <1>1, TableAssumption, Proved!ReadStep
<1> QED BY <1>2, TableAssumption, Proved!ViewSame DEF Entries

LEMMA Migrated ==
  ASSUME Proved!IInv, Table!MigrateIfRehashing
  PROVE  Proved!IInv' /\ Entries' = Entries
<1>1. Proved!IInv' /\ Proved!Stored' = Proved!Stored
  BY TableAssumption, SameCalls, Proved!MigrateStep
<1> QED BY <1>1, TableAssumption, Proved!ViewSame DEF Entries

LEMMA Dropped ==
  ASSUME Proved!IInv, NEW k \in Keys, Table!DropEntry(k)
  PROVE  Proved!IInv' /\ Entries' = [Entries EXCEPT ![k] = Null]
<1>1. Proved!IInv' /\ Proved!Stored' = {e \in Proved!Stored : e.key # k}
  BY TableAssumption, SameCalls, Proved!DropStep
<1> QED BY <1>1, TableAssumption, Proved!ViewDel DEF Entries

LEMMA Put ==
  ASSUME Proved!IInv, NEW k \in Keys, NEW a \in Addrs, Table!PutEntry(k, a)
  PROVE  Proved!IInv' /\ Entries' = [Entries EXCEPT ![k] = a]
<1>1. /\ Proved!IInv'
      /\ Proved!Stored' = {e \in Proved!Stored : e.key # k} \cup {[key |-> k, val |-> a]}
  BY TableAssumption, SameCalls, Proved!PutStep
<1> QED BY <1>1, TableAssumption, Proved!ViewSet DEF Entries

LEMMA EntriesType ==
  ASSUME Proved!IInv
  PROVE  /\ Entries \in [Keys -> Addrs \cup {Null}]
         /\ Table!TypeOK /\ Table!Reachable /\ Table!UniqueKeys
<1>1. Proved!ViewAgrees
  BY TableAssumption, Proved!ViewIs
<1> QED BY <1>1, SameShape DEF Proved!ViewAgrees, Proved!IInv, Entries

-----------------------------------------------------------------------------
(* The inductive invariant                                                 *)

\* No client overwrites a key whose entry has yet to be migrated.
NoRewriting == ~ RewritesOlder

\* The seconds of every time to live fit an int; its milliseconds need not.
SecondsFit == \A ttl \in TTLs : ttl \div TicksPerSecond <= IntMax

WholeSeconds == \A ttl \in TTLs : ttl % TicksPerSecond = 0

\* Entries with the addresses e and timers q belong together: no two entries
\* have one address, every timer points to the entry of its key, and an entry
\* that no timer points to has no index.
Tied(q, e) ==
  /\ Sound(Keys, Addrs, q)
  /\ e \in [Keys -> Addrs \cup {Null}]
  /\ \A k, l \in Keys : e[k] = e[l] /\ e[k] # Null => k = l
  /\ \A t \in Timers(q) : e[t.key] = t.word
  /\ \A k \in Keys : e[k] # Null /\ e[k] \notin Words(q) => q.index[e[k]] = NoIndex
  /\ \A w \in Addrs : q.index[w] <= Cardinality(Addrs)

\* A timer that expires at `at' for a key that shall go at `want'.
InTime(at, want) ==
  /\ at <= want /\ want < at + TicksPerSecond
  /\ WholeSeconds => at = want

\* The timers q are those that were asked for, and expire in time.
InStep(q, wanted, clock) ==
  /\ wanted \in [Keys -> Int]
  /\ \A k \in Keys : wanted[k] # Never <=> \E t \in Timers(q) : t.key = k
  /\ \A k \in Keys : wanted[k] # Never => wanted[k] > 0
  /\ SecondsFit => \A t \in Timers(q) : InTime(t.expiresAt, wanted[t.key])

\* What holds between any two steps of the program.
Inv ==
  /\ Proved!IInv
  /\ Tied(Q, Entries)
  /\ InStep(Q, asked, now)
  /\ now \in 0..MaxNow
  /\ work \in {Serving} \cup 0..MaxExpiresWork

-----------------------------------------------------------------------------
(* Entries and timers                                                      *)

LEMMA TiedFacts ==
  ASSUME NEW q, NEW e, Tied(q, e)
  PROVE  /\ q \in Queues(Keys, Addrs) /\ Indexed(q) /\ Ordered(q) /\ KeysDiffer(q)
         /\ q.heap \in Seq(TimerSet(Keys, Addrs)) /\ q.index \in [Addrs -> Nat]
         /\ q = [heap |-> q.heap, index |-> q.index]
         /\ Len(q.heap) \in Nat /\ DOMAIN q.heap = 1..Len(q.heap)
         /\ \A i \in DOMAIN q.heap : q.heap[i] \in Timers(q)
         /\ \A t \in Timers(q) : t \in TimerSet(Keys, Addrs) /\ t.key \in Keys
                                  /\ t.word \in Addrs /\ t.expiresAt \in Int
<1>1. q \in Queues(Keys, Addrs) /\ Indexed(q) /\ Ordered(q) /\ KeysDiffer(q)
  BY DEF Tied, Sound
<1>2. ASSUME NEW t \in Timers(q)
      PROVE  t \in TimerSet(Keys, Addrs) /\ t.key \in Keys /\ t.word \in Addrs /\ t.expiresAt \in Int
  <2>1. t \in TimerSet(Keys, Addrs)
    BY <1>1, QueueFacts DEF Timers
  <2> QED BY <2>1 DEF TimerSet
<1> QED BY <1>1, <1>2, QueueFacts DEF Timers

LEMMA WordsOfTimers ==
  ASSUME NEW q
  PROVE  Words(q) = {t.word : t \in Timers(q)}
BY DEF Words, Timers

LEMMA TimerOfEntry ==
  ASSUME NEW q, NEW e, Tied(q, e), NEW k \in Keys, e[k] # Null,
         NEW t \in Timers(q), t.word = e[k]
  PROVE  t.key = k
<1>1. t.key \in Keys /\ e[t.key] = e[k] /\ e[t.key] # Null
  BY TiedFacts DEF Tied
<1>2. \A l, m \in Keys : e[l] = e[m] /\ e[l] # Null => l = m
  BY DEF Tied
<1> QED BY <1>1, <1>2

\* A key has a timer exactly if its entry is one that a timer points to, and
\* then the entry's index finds the timer.
LEMMA EntryKnowsTimer ==
  ASSUME NEW q, NEW e, Tied(q, e), NEW k \in Keys, e[k] # Null
  PROVE  /\ e[k] \in Addrs
         /\ (\E t \in Timers(q) : t.key = k) <=> e[k] \in Words(q)
         /\ e[k] \in Words(q) <=> q.index[e[k]] # NoIndex
         /\ q.index[e[k]] # NoIndex => /\ q.index[e[k]] \in DOMAIN q.heap
                                       /\ q.heap[q.index[e[k]]].key = k
<1>1. e[k] \in Addrs
  BY DEF Tied
<1>2. ASSUME NEW t \in Timers(q), t.word = e[k]
      PROVE  t.key = k
  BY <1>2, TimerOfEntry
<1>3. (\E t \in Timers(q) : t.key = k) <=> e[k] \in Words(q)
  BY <1>2, WordsOfTimers DEF Tied
<1>4. ASSUME e[k] \in Words(q)
      PROVE  /\ q.index[e[k]] # NoIndex /\ q.index[e[k]] \in DOMAIN q.heap
             /\ q.heap[q.index[e[k]]].key = k
  <2>1. PICK i \in DOMAIN q.heap : q.heap[i].word = e[k]
    BY <1>4 DEF Words
  <2>2. q.index[e[k]] = i /\ i \in 1..Len(q.heap)
    BY <2>1, TiedFacts DEF Indexed
  <2>3. q.heap[i].key = k
    BY <1>2, <2>1, TiedFacts
  <2> QED BY <2>1, <2>2, <2>3, TiedFacts DEF NoIndex
<1>5. e[k] \notin Words(q) => q.index[e[k]] = NoIndex
  BY DEF Tied
<1> QED BY <1>1, <1>3, <1>4, <1>5

\* There are no more timers than addresses.
LEMMA TimersFit ==
  ASSUME NEW q, Sound(Keys, Addrs, q)
  PROVE  Len(q.heap) <= Cardinality(Addrs) /\ Cardinality(Addrs) \in Nat
<1> DEFINE n == Len(q.heap)
           word == [i \in 1..n |-> q.heap[i].word]
<1>1. q \in Queues(Keys, Addrs) /\ Indexed(q) /\ n \in Nat /\ DOMAIN q.heap = 1..n
  BY QueueFacts DEF Sound
<1>2. word \in [1..n -> Addrs]
  BY <1>1, TimerFacts
<1>3. \A i, j \in 1..n : word[i] = word[j] => i = j
  BY <1>1, WordsDiffer
<1>4. word \in Injection(1..n, Addrs)
  <2> HIDE DEF word, n
  <2> QED BY <1>2, <1>3 DEF Injection, IsInjective
<1>5. Cardinality(1..n) <= Cardinality(Addrs)
  <2> HIDE DEF word, n
  <2> QED BY <1>4, MemoryAssumption, FS_Injection
<1>6. Cardinality(1..n) = n
  <2> HIDE DEF n
  <2> QED BY <1>1, FS_Interval
<1>7. Cardinality(Addrs) \in Nat
  BY MemoryAssumption, FS_CardinalityType
<1> QED BY <1>5, <1>6, <1>7

LEMMA IndexFits ==
  ASSUME NEW q, Sound(Keys, Addrs, q), NEW w \in Words(q)
  PROVE  q.index[w] <= Cardinality(Addrs)
<1>1. PICK i \in DOMAIN q.heap : q.heap[i].word = w
  BY DEF Words
<1>2. q.index[w] = i /\ i \in 1..Len(q.heap) /\ Len(q.heap) \in Nat
  BY <1>1, QueueFacts DEF Sound, Indexed
<1> QED BY <1>2, TimersFit

\* Writing to an entry that no timer points to leaves the timers as they are.
Cleared(q, w) == [heap |-> q.heap, index |-> [q.index EXCEPT ![w] = NoIndex]]

LEMMA IndexCleared ==
  ASSUME NEW q, Sound(Keys, Addrs, q), NEW w \in Addrs, w \notin Words(q),
         NEW r, r = Cleared(q, w)
  PROVE  /\ Sound(Keys, Addrs, r) /\ Timers(r) = Timers(q) /\ Words(r) = Words(q)
         /\ r.index[w] = NoIndex
         /\ \A v \in Addrs : v # w => r.index[v] = q.index[v]
<1>1. /\ q \in Queues(Keys, Addrs) /\ Indexed(q) /\ Ordered(q) /\ KeysDiffer(q)
      /\ q.heap \in Seq(TimerSet(Keys, Addrs)) /\ q.index \in [Addrs -> Nat]
  BY QueueFacts DEF Sound
<1>2. /\ r.index \in [Addrs -> Nat] /\ r.index[w] = NoIndex
      /\ \A v \in Addrs : v # w => r.index[v] = q.index[v]
  BY <1>1 DEF Cleared, NoIndex
<1>3. r.heap = q.heap /\ r \in Queues(Keys, Addrs)
  BY <1>1 DEF Cleared, Queues, NoIndex
<1>4. Timers(r) = Timers(q) /\ Words(r) = Words(q) /\ Ordered(r) /\ KeysDiffer(r)
  BY <1>1, <1>3 DEF Timers, Words, Ordered, Before, KeysDiffer
<1>5. ASSUME NEW i \in DOMAIN q.heap PROVE r.index[q.heap[i].word] = i
  <2>1. q.heap[i].word \in Addrs /\ q.heap[i].word # w
    BY <1>1, TimerFacts DEF Words
  <2> QED BY <1>1, <1>2, <2>1 DEF Indexed
<1>6. Indexed(r)
  BY <1>3, <1>5 DEF Indexed
<1> QED BY <1>2, <1>3, <1>4, <1>6 DEF Sound

Unused(e, a) == \A l \in Keys : e[l] # a

\* SET of a new key: its entry has an address that no other has, and no index.
LEMMA TiedInsert ==
  ASSUME NEW q, NEW e, Tied(q, e), NEW k \in Keys, e[k] = Null,
         NEW a \in Addrs, Unused(e, a),
         NEW r, r = Cleared(q, a),
         NEW f, f = [e EXCEPT ![k] = a]
  PROVE  Tied(r, f) /\ Timers(r) = Timers(q)
<1>1. /\ e \in [Keys -> Addrs \cup {Null}]
      /\ \A l, m \in Keys : e[l] = e[m] /\ e[l] # Null => l = m
      /\ \A t \in Timers(q) : e[t.key] = t.word
      /\ \A l \in Keys : e[l] # Null /\ e[l] \notin Words(q) => q.index[e[l]] = NoIndex
      /\ \A w \in Addrs : q.index[w] <= Cardinality(Addrs)
      /\ Sound(Keys, Addrs, q)
  BY DEF Tied
<1>2. a \notin Words(q)
  BY <1>1, WordsOfTimers, TiedFacts DEF Unused
<1>3. /\ Sound(Keys, Addrs, r) /\ Timers(r) = Timers(q) /\ Words(r) = Words(q)
      /\ r.index[a] = NoIndex
      /\ \A v \in Addrs : v # a => r.index[v] = q.index[v]
  <2>1. Sound(Keys, Addrs, q)
    BY <1>1
  <2> QED BY <1>2, <2>1, IndexCleared
<1>4. /\ f \in [Keys -> Addrs \cup {Null}] /\ f[k] = a
      /\ \A l \in Keys : l # k => f[l] = e[l]
  BY <1>1
<1>5. \A l, m \in Keys : f[l] = f[m] /\ f[l] # Null => l = m
  BY <1>1, <1>4 DEF Unused
<1>6. ASSUME NEW t \in Timers(r) PROVE f[t.key] = t.word
  <2>1. e[t.key] = t.word /\ t.key \in Keys /\ t.word \in Addrs
    BY <1>1, <1>3, TiedFacts
  <2>2. t.key # k
    BY <2>1, TableAssumption
  <2> QED BY <1>4, <2>1, <2>2
<1>7. ASSUME NEW l \in Keys, f[l] # Null, f[l] \notin Words(r) PROVE r.index[f[l]] = NoIndex
  <2>1. CASE l = k
    BY <1>3, <1>4, <2>1
  <2>2. CASE l # k
    <3>1. f[l] = e[l] /\ e[l] \in Addrs /\ e[l] # a
      BY <1>1, <1>4, <1>7, <2>2 DEF Unused
    <3>2. q.index[e[l]] = NoIndex
      BY <1>1, <1>3, <1>7, <3>1
    <3> QED BY <1>3, <3>1, <3>2
  <2> QED BY <2>1, <2>2
<1>8. \A w \in Addrs : r.index[w] <= Cardinality(Addrs)
  BY <1>1, <1>3, TimersFit DEF NoIndex
<1> HIDE DEF Tied
<1> QED BY <1>3, <1>4, <1>5, <1>6, <1>7, <1>8 DEF Tied

\* What removing the timer of k, if it has one, does to the queue.
Removed(q, e, k, r) ==
  /\ Sound(Keys, Addrs, r)
  /\ Timers(r) = {t \in Timers(q) : t.key # k}
  /\ \A w \in Addrs : w \notin Words(q) => r.index[w] = q.index[w]
  /\ e[k] # Null => r.index[e[k]] <= Cardinality(Addrs)

\* A key is deleted, its timer with it.
LEMMA TiedDelete ==
  ASSUME NEW q, NEW e, Tied(q, e), NEW k \in Keys, NEW r, Removed(q, e, k, r),
         NEW f, f = [e EXCEPT ![k] = Null]
  PROVE  Tied(r, f)
<1>0. /\ Sound(Keys, Addrs, r)
      /\ Timers(r) = {t \in Timers(q) : t.key # k}
      /\ \A w \in Addrs : w \notin Words(q) => r.index[w] = q.index[w]
      /\ e[k] # Null => r.index[e[k]] <= Cardinality(Addrs)
  BY DEF Removed
<1>1. /\ e \in [Keys -> Addrs \cup {Null}]
      /\ \A l, m \in Keys : e[l] = e[m] /\ e[l] # Null => l = m
  BY DEF Tied
<1>2. /\ \A t \in Timers(q) : e[t.key] = t.word
      /\ \A l \in Keys : e[l] # Null /\ e[l] \notin Words(q) => q.index[e[l]] = NoIndex
      /\ \A w \in Addrs : q.index[w] <= Cardinality(Addrs)
  BY DEF Tied
<1>3. /\ f \in [Keys -> Addrs \cup {Null}] /\ f[k] = Null
      /\ \A l \in Keys : l # k => f[l] = e[l]
  BY <1>1
<1>4. \A l, m \in Keys : f[l] = f[m] /\ f[l] # Null => l = m
  BY <1>1, <1>3
<1>5. \A t \in Timers(r) : f[t.key] = t.word
  BY <1>0, <1>2, <1>3, TiedFacts
<1>6. ASSUME NEW l \in Keys, f[l] # Null, f[l] \notin Words(r) PROVE r.index[f[l]] = NoIndex
  <2>1. l # k /\ f[l] = e[l] /\ e[l] \in Addrs
    BY <1>1, <1>3, <1>6
  <2>2. e[l] \notin Words(q)
    BY <1>0, <1>6, <2>1, TimerOfEntry, WordsOfTimers
  <2> QED BY <1>0, <1>2, <1>6, <2>1, <2>2
<1>7. ASSUME NEW w \in Addrs PROVE r.index[w] <= Cardinality(Addrs)
  <2>1. CASE w \in Words(r)
    BY <1>0, <2>1, IndexFits
  <2>2. CASE w \notin Words(q)
    BY <1>0, <1>2, <2>2
  <2>3. CASE w \in Words(q) /\ w \notin Words(r)
    <3>1. PICK t \in Timers(q) : t.word = w
      BY <2>3, WordsOfTimers
    <3>2. t.key = k
      BY <1>0, <2>3, <3>1, WordsOfTimers
    <3>3. e[k] = w /\ e[k] # Null
      BY <1>2, <3>1, <3>2, TableAssumption
    <3> QED BY <1>0, <3>3
  <2> QED BY <2>1, <2>2, <2>3
<1> QED BY <1>0, <1>3, <1>4, <1>5, <1>6, <1>7 DEF Tied

\* A key that has an entry gets a timer, or its timer another deadline.
LEMMA TiedPut ==
  ASSUME NEW q, NEW e, Tied(q, e), NEW k \in Keys, e[k] # Null, NEW at,
         NEW r, Sound(Keys, Addrs, r),
         Timers(r) = {t \in Timers(q) : t.key # k} \cup {Timer(k, at, e[k])},
         \A w \in Addrs : w \notin Words(q) /\ w # e[k] => r.index[w] = q.index[w]
  PROVE  Tied(r, e)
<1>1. /\ e \in [Keys -> Addrs \cup {Null}]
      /\ \A l, m \in Keys : e[l] = e[m] /\ e[l] # Null => l = m
  BY DEF Tied
<1>2. /\ \A t \in Timers(q) : e[t.key] = t.word
      /\ \A l \in Keys : e[l] # Null /\ e[l] \notin Words(q) => q.index[e[l]] = NoIndex
      /\ \A w \in Addrs : q.index[w] <= Cardinality(Addrs)
  BY DEF Tied
<1>3. Timer(k, at, e[k]).key = k /\ Timer(k, at, e[k]).word = e[k]
  BY DEF Timer
<1>4. \A t \in Timers(r) : e[t.key] = t.word
  BY <1>2, <1>3
<1>5. e[k] \in Words(r)
  BY <1>3, WordsOfTimers
<1>6. ASSUME NEW l \in Keys, e[l] # Null, e[l] \notin Words(r) PROVE r.index[e[l]] = NoIndex
  <2>1. l # k /\ e[l] # e[k] /\ e[l] \in Addrs
    BY <1>1, <1>5, <1>6
  <2>2. e[l] \notin Words(q)
    BY <1>6, <2>1, TimerOfEntry, WordsOfTimers
  <2> QED BY <1>2, <1>6, <2>1, <2>2
<1>7. ASSUME NEW w \in Addrs PROVE r.index[w] <= Cardinality(Addrs)
  <2>1. CASE w \in Words(r)
    BY <2>1, IndexFits
  <2>2. CASE w \notin Words(r)
    <3>1. w # e[k]
      BY <1>5, <2>2
    <3>2. w \notin Words(q)
      <4> SUFFICES ASSUME w \in Words(q) PROVE FALSE
        OBVIOUS
      <4>1. PICK t \in Timers(q) : t.word = w
        BY WordsOfTimers
      <4>2. t.key = k
        BY <2>2, <4>1, WordsOfTimers
      <4> QED BY <1>2, <3>1, <4>1, <4>2
    <3> QED BY <1>2, <3>1, <3>2
  <2> QED BY <2>1, <2>2
<1> QED BY <1>1, <1>4, <1>6, <1>7 DEF Tied

LEMMA TiedPush ==
  ASSUME NEW q, NEW e, Tied(q, e), NEW k \in Keys, e[k] # Null, q.index[e[k]] = NoIndex,
         NEW at \in Int, NEW r, r = PushTimer(q, Timer(k, at, e[k]))
  PROVE  /\ Tied(r, e)
         /\ Timers(r) = {t \in Timers(q) : t.key # k} \cup {Timer(k, at, e[k])}
<1> DEFINE t == Timer(k, at, e[k])
<1>1. e[k] \in Addrs /\ e[k] \notin Words(q) /\ \A u \in Timers(q) : u.key # k
  BY EntryKnowsTimer
<1>2. t \in TimerSet(Keys, Addrs) /\ t.word = e[k] /\ t.key = k
  BY <1>1 DEF Timer, TimerSet
<1>3. r = PushTimer(q, t)
  OBVIOUS
<1> HIDE DEF t
<1>4. /\ Sound(Keys, Addrs, r) /\ Timers(r) = Timers(q) \cup {t}
      /\ \A w \in Addrs : w \notin Words(q) \cup {t.word} => r.index[w] = q.index[w]
  <2>1. Sound(Keys, Addrs, q) /\ t.word \notin Words(q) /\ \A u \in Timers(q) : u.key # t.key
    BY <1>1, <1>2 DEF Tied
  <2> QED BY <1>2, <1>3, <2>1, PushCorrect
<1>5. Timers(r) = {u \in Timers(q) : u.key # k} \cup {t}
  BY <1>1, <1>4
<1>6. Tied(r, e)
  <2>1. \A w \in Addrs : w \notin Words(q) /\ w # e[k] => r.index[w] = q.index[w]
    BY <1>2, <1>4
  <2>2. Timers(r) = {u \in Timers(q) : u.key # k} \cup {Timer(k, at, e[k])}
    BY <1>5 DEF t
  <2> QED BY <1>4, <2>1, <2>2, TiedPut
<1> QED BY <1>5, <1>6 DEF t

LEMMA TiedUpdate ==
  ASSUME NEW q, NEW e, Tied(q, e), NEW k \in Keys, e[k] # Null, q.index[e[k]] # NoIndex,
         NEW at \in Int, NEW r, r = UpdateTimer(q, q.index[e[k]], at)
  PROVE  /\ Tied(r, e)
         /\ Timers(r) = {t \in Timers(q) : t.key # k} \cup {Timer(k, at, e[k])}
<1> DEFINE i == q.index[e[k]]
           t == [q.heap[i] EXCEPT !.expiresAt = at]
<1>1. i \in DOMAIN q.heap /\ q.heap[i].key = k
  BY EntryKnowsTimer
<1>2. r = UpdateTimer(q, i, at)
  OBVIOUS
<1>3. q.heap[i] \in Timers(q) /\ q.heap[i] \in TimerSet(Keys, Addrs) /\ q.heap[i].word = e[k]
  <2> HIDE DEF i
  <2>1. q.heap[i] \in Timers(q)
    BY <1>1, TiedFacts
  <2> QED BY <1>1, <2>1, TiedFacts DEF Tied
<1>4. t = Timer(k, at, e[k])
  BY <1>1, <1>3 DEF TimerSet, Timer
<1> HIDE DEF i
<1>5. /\ Sound(Keys, Addrs, r) /\ Timers(r) = (Timers(q) \ {q.heap[i]}) \cup {t}
      /\ \A w \in Addrs : w \notin Words(q) => r.index[w] = q.index[w]
  <2>1. Sound(Keys, Addrs, q)
    BY DEF Tied
  <2> QED BY <1>1, <1>2, <2>1, UpdateCorrect
<1> HIDE DEF t
<1>6. Timers(q) \ {q.heap[i]} = {u \in Timers(q) : u.key # k}
  BY <1>1, <1>3, TiedFacts, KeysNameTimers
<1>7. Timers(r) = {u \in Timers(q) : u.key # k} \cup {Timer(k, at, e[k])}
  BY <1>4, <1>5, <1>6
<1> QED BY <1>5, <1>7, TiedPut

\* DEL: the timer is found by name.
LEMMA TiedRemove ==
  ASSUME NEW q, NEW e, Tied(q, e), NEW k \in Keys, e[k] # Null,
         NEW r, r = RemoveTimer(q, k), NEW f, f = [e EXCEPT ![k] = Null]
  PROVE  Tied(r, f) /\ Timers(r) = {t \in Timers(q) : t.key # k}
<1>1. Sound(Keys, Addrs, q)
  BY DEF Tied
<1>2. CASE ~ HasTimer(q, k)
  <2>1. r = q
    BY <1>2 DEF RemoveTimer
  <2>2. Timers(r) = {t \in Timers(q) : t.key # k}
    BY <1>2, <2>1 DEF Timers, HasTimer
  <2>3. r.index[e[k]] <= Cardinality(Addrs)
    BY <2>1 DEF Tied
  <2> QED BY <1>1, <2>1, <2>2, <2>3, TiedDelete DEF Removed
<1>3. CASE HasTimer(q, k)
  <2> DEFINE t == q.heap[PositionOf(q, k)]
  <2>1. /\ Sound(Keys, Addrs, r) /\ Timers(r) = Timers(q) \ {t}
        /\ \A w \in Addrs : w \notin Words(q) => r.index[w] = q.index[w]
        /\ r.index[t.word] = Len(q.heap)
    BY <1>1, <1>3, RemoveCorrect
  <2>2. t \in Timers(q) /\ t.key = k
    BY <1>3, TiedFacts, PositionIs
  <2> HIDE DEF t
  <2>3. t.word = e[k]
    BY <2>2 DEF Tied
  <2>4. Timers(r) = {u \in Timers(q) : u.key # k}
    BY <2>1, <2>2, TiedFacts, KeysNameTimers
  <2>5. r.index[e[k]] <= Cardinality(Addrs)
    BY <1>1, <2>1, <2>3, TimersFit
  <2> QED BY <2>1, <2>4, <2>5, TiedDelete DEF Removed
<1> QED BY <1>2, <1>3

\* The sweep: the first timer t is popped, and the entry it points to deleted.
Sweeps(q, e, t, k, r, f) ==
  /\ q.heap # << >> /\ t = q.heap[1] /\ k = t.key
  /\ r = Cleared(PopTimer(q), t.word)
  /\ f = [e EXCEPT ![k] = Null]

LEMMA TiedPop ==
  ASSUME NEW q, NEW e, Tied(q, e),
         NEW t, NEW k, NEW r, NEW f, Sweeps(q, e, t, k, r, f)
  PROVE  /\ t \in Timers(q) /\ e[k] = t.word
         /\ Tied(r, f) /\ Timers(r) = {u \in Timers(q) : u.key # k}
<1>0. /\ q.heap # << >> /\ t = q.heap[1] /\ k = t.key
      /\ r = Cleared(PopTimer(q), t.word)
      /\ f = [e EXCEPT ![k] = Null]
  BY DEF Sweeps
<1> DEFINE p == PopTimer(q)
<1>1. Sound(Keys, Addrs, q)
  BY DEF Tied
<1>2. t \in Timers(q) /\ k \in Keys /\ t.word \in Addrs
  <2>1. q.heap \in Seq(TimerSet(Keys, Addrs))
    BY TiedFacts
  <2>2. 1 \in DOMAIN q.heap
    BY <1>0, <2>1
  <2> QED BY <1>0, <2>2, TiedFacts
<1>3. /\ Sound(Keys, Addrs, p) /\ Timers(p) = Timers(q) \ {t}
      /\ \A w \in Addrs : w \notin Words(p) => p.index[w] = q.index[w]
  <2>1. p = PopTimer(q)
    OBVIOUS
  <2> HIDE DEF p
  <2>2. Timers(p) = Timers(q) \ {q.heap[1]}
    BY <1>0, <1>1, <2>1, PopCorrect
  <2> QED BY <1>0, <1>1, <2>1, <2>2, PopCorrect
<1>4. r = Cleared(p, t.word)
  BY <1>0
<1> HIDE DEF p
<1>5. Timers(p) = {u \in Timers(q) : u.key # k}
  BY <1>0, <1>2, <1>3, TiedFacts, KeysNameTimers
<1>6. e[k] = t.word /\ e[k] # Null
  BY <1>0, <1>2, TableAssumption DEF Tied
<1>7. t.word \notin Words(p)
  <2> SUFFICES ASSUME t.word \in Words(p) PROVE FALSE
    OBVIOUS
  <2>1. PICK u \in Timers(q) : u.word = e[k] /\ u.key # k
    BY <1>5, <1>6, WordsOfTimers
  <2> QED BY <1>2, <1>6, <2>1, TimerOfEntry
<1>8. /\ Sound(Keys, Addrs, r) /\ Timers(r) = Timers(p) /\ Words(r) = Words(p)
      /\ r.index[t.word] = NoIndex
      /\ \A v \in Addrs : v # t.word => r.index[v] = p.index[v]
  BY <1>2, <1>3, <1>4, <1>7, IndexCleared
<1>9. \A w \in Addrs : w \notin Words(q) => r.index[w] = q.index[w]
  <2> SUFFICES ASSUME NEW w \in Addrs, w \notin Words(q) PROVE r.index[w] = q.index[w]
    OBVIOUS
  <2>1. w \notin Words(p) /\ w # t.word
    BY <1>2, <1>5, WordsOfTimers
  <2> QED BY <1>3, <1>8, <2>1
<1>10. r.index[e[k]] <= Cardinality(Addrs)
  BY <1>1, <1>6, <1>8, TimersFit DEF NoIndex
<1>11. Sound(Keys, Addrs, r) /\ Timers(r) = {u \in Timers(q) : u.key # k}
  BY <1>5, <1>8
<1>12. Tied(r, f)
  <2>1. Removed(q, e, k, r)
    BY <1>9, <1>10, <1>11 DEF Removed
  <2> QED BY <1>0, <1>2, <2>1, TiedDelete
<1> QED BY <1>2, <1>6, <1>11, <1>12

-----------------------------------------------------------------------------
(* Times                                                                   *)

LEMMA ModSmall ==
  ASSUME NEW c \in Nat \ {0}, NEW a \in 0..(c - 1)
  PROVE  a % c = a
OBVIOUS

LEMMA ToIntIs ==
  ASSUME NEW n \in Int
  PROVE  /\ ToInt(n) \in Int
         /\ -(IntMax + 1) <= n /\ n <= IntMax => ToInt(n) = n
<1> DEFINE c == 2 * (IntMax + 1)
           a == n + IntMax + 1
<1>1. c \in Nat \ {0} /\ a \in Int /\ IntMax \in Nat /\ c = 2 * (IntMax + 1) /\ a = n + IntMax + 1
  BY TimeAssumption
<1>2. ToInt(n) = (a % c) - (IntMax + 1)
  BY DEF ToInt
<1> HIDE DEF c, a
<1>3. a % c \in Int
  BY <1>1
<1>4. -(IntMax + 1) <= n /\ n <= IntMax => a % c = a
  <2>1. -(IntMax + 1) <= n /\ n <= IntMax => a \in 0..(c - 1)
    BY <1>1
  <2> QED BY <1>1, <2>1, ModSmall
<1> QED BY <1>1, <1>2, <1>3, <1>4

LEMMA WholePart ==
  ASSUME NEW n \in Nat, NEW c \in Nat \ {0}
  PROVE  /\ n \div c \in 0..n
         /\ (n \div c) * c <= n /\ n < (n \div c) * c + c
         /\ n % c = 0 => (n \div c) * c = n
<1>1. n \div c \in Int /\ n % c \in 0..(c - 1) /\ n = c * (n \div c) + (n % c)
  OBVIOUS
<1>2. n \div c >= 0
  OBVIOUS
<1>3. (n \div c) * c = c * (n \div c) /\ c * (n \div c) >= n \div c
  BY <1>1, <1>2
<1> QED BY <1>1, <1>2, <1>3

\* What PEXPIRE makes of its argument: less than a second is lost.
LEMMA DeadlineIs ==
  ASSUME NEW ttl \in TTLs, ttl > 0, now \in Nat
  PROVE  /\ Deadline(ttl) \in Int
         /\ SecondsFit => InTime(Deadline(ttl), now + ttl)
<1> DEFINE d == ttl \div TicksPerSecond
<1>1. ttl \in Nat /\ TicksPerSecond \in Nat \ {0} /\ IntMax \in Nat
  BY TimeAssumption
<1>2. /\ d \in 0..ttl /\ d * TicksPerSecond <= ttl /\ ttl < d * TicksPerSecond + TicksPerSecond
      /\ ttl % TicksPerSecond = 0 => d * TicksPerSecond = ttl
  BY <1>1, WholePart
<1>3. Deadline(ttl) = now + ToInt(d) * TicksPerSecond
  BY DEF Deadline
<1>4. SecondsFit => d <= IntMax
  BY DEF SecondsFit
<1> HIDE DEF d
<1>5. ToInt(d) \in Int /\ (d <= IntMax => ToInt(d) = d) /\ d * TicksPerSecond \in Int
  BY <1>1, <1>2, ToIntIs
<1>6. ToInt(d) * TicksPerSecond \in Int
  BY <1>1, <1>5
<1>7. ASSUME SecondsFit PROVE InTime(Deadline(ttl), now + ttl)
  <2>1. Deadline(ttl) = now + d * TicksPerSecond
    BY <1>3, <1>5, <1>4, <1>7
  <2>2. WholeSeconds => d * TicksPerSecond = ttl
    BY <1>2 DEF WholeSeconds
  <2> HIDE DEF WholeSeconds
  <2> DEFINE x == d * TicksPerSecond
  <2>3. x \in Int /\ x <= ttl /\ ttl < x + TicksPerSecond /\ (WholeSeconds => x = ttl)
    BY <1>2, <1>5, <2>2
  <2>4. Deadline(ttl) = now + x
    BY <2>1
  <2> HIDE DEF x
  <2> QED BY <1>1, <2>3, <2>4 DEF InTime
<1> QED BY <1>3, <1>6, <1>7

LEMMA InStepSame ==
  ASSUME NEW q, NEW wanted, NEW clock, InStep(q, wanted, clock),
         NEW r, Timers(r) = Timers(q)
  PROVE  InStep(r, wanted, clock)
BY DEF InStep

LEMMA InStepLater ==
  ASSUME NEW q, NEW wanted, NEW clock \in Nat, InStep(q, wanted, clock)
  PROVE  InStep(q, wanted, clock + 1)
BY DEF InStep

LEMMA InStepDelete ==
  ASSUME NEW q, NEW e, Tied(q, e), NEW wanted, NEW clock \in Nat, InStep(q, wanted, clock),
         NEW k \in Keys, NEW r, Timers(r) = {t \in Timers(q) : t.key # k}
  PROVE  InStep(r, [wanted EXCEPT ![k] = Never], clock)
<1> DEFINE w == [wanted EXCEPT ![k] = Never]
<1>1. /\ w \in [Keys -> Int] /\ w[k] = Never
      /\ \A l \in Keys : l # k => w[l] = wanted[l]
  BY DEF InStep, Never
<1> HIDE DEF w
<1>2. ASSUME NEW l \in Keys
      PROVE  /\ w[l] # Never <=> \E t \in Timers(r) : t.key = l
             /\ w[l] # Never => w[l] > 0
  <2>1. CASE l = k
    BY <1>1, <2>1, TimeAssumption DEF Never
  <2>2. CASE l # k
    BY <1>1, <2>2 DEF InStep
  <2> QED BY <2>1, <2>2
<1>3. ASSUME SecondsFit, NEW t \in Timers(r)
      PROVE  InTime(t.expiresAt, w[t.key])
  BY <1>1, <1>3, TiedFacts DEF InStep
<1>4. InStep(r, w, clock)
  BY <1>1, <1>2, <1>3 DEF InStep
<1> QED BY <1>4 DEF w

LEMMA InStepPut ==
  ASSUME NEW q, NEW e, Tied(q, e), NEW wanted, NEW clock \in Nat, InStep(q, wanted, clock),
         NEW k \in Keys, NEW at, NEW a,
         NEW want \in Int, want > 0, SecondsFit => InTime(at, want),
         NEW r, Timers(r) = {t \in Timers(q) : t.key # k} \cup {Timer(k, at, a)}
  PROVE  InStep(r, [wanted EXCEPT ![k] = want], clock)
<1> DEFINE w == [wanted EXCEPT ![k] = want]
<1>1. /\ w \in [Keys -> Int] /\ w[k] = want
      /\ \A l \in Keys : l # k => w[l] = wanted[l]
  BY DEF InStep
<1> HIDE DEF w
<1>2. Timer(k, at, a).key = k /\ Timer(k, at, a).expiresAt = at /\ want # Never
  BY DEF Timer, Never
<1>3. ASSUME NEW l \in Keys
      PROVE  /\ w[l] # Never <=> \E t \in Timers(r) : t.key = l
             /\ w[l] # Never => w[l] > 0
  <2>1. CASE l = k
    BY <1>1, <1>2, <2>1
  <2>2. CASE l # k
    BY <1>1, <1>2, <2>2 DEF InStep
  <2> QED BY <2>1, <2>2
<1>4. ASSUME SecondsFit, NEW t \in Timers(r)
      PROVE  InTime(t.expiresAt, w[t.key])
  <2>1. CASE t = Timer(k, at, a)
    BY <1>1, <1>2, <1>4, <2>1
  <2>2. CASE t \in Timers(q) /\ t.key # k
    BY <1>1, <1>4, <2>2, TiedFacts DEF InStep
  <2> QED BY <2>1, <2>2
<1>5. InStep(r, w, clock)
  BY <1>1, <1>3, <1>4 DEF InStep
<1> QED BY <1>5 DEF w

-----------------------------------------------------------------------------
(* Every step keeps the invariant                                          *)

LEMMA QueueIs ==
  /\ Q.heap = heap /\ Q.index = index
  /\ \A q : Becomes(q) /\ q = [heap |-> q.heap, index |-> q.index] => Q' = q
  /\ UNCHANGED queueVars => Q' = Q
BY DEF Q, Becomes, queueVars

LEMMA TimersOfIs ==
  \A k : TimersOf(k) # {} <=> \E t \in Timers(Q) : t.key = k
BY QueueIs DEF TimersOf, Timers

LEMMA PresentIs ==
  /\ Present = {k \in Keys : Entries[k] # Null}
  /\ Present' = {k \in Keys : Entries'[k] # Null}
BY EntryOfIs DEF Present

LEMMA InvInit == Init => Inv
<1> SUFFICES ASSUME Init PROVE Inv
  OBVIOUS
<1>1. Proved!IInv /\ Entries = [k \in Keys |-> Null]
  BY Emptied
<1>2. Q.heap = << >> /\ Q.index = [a \in Addrs |-> NoIndex] /\ DOMAIN Q.heap = {} /\ Timers(Q) = {}
  BY QueueIs DEF Init, Timers
<1>3. Sound(Keys, Addrs, Q)
  <2>1. << >> \in Seq(TimerSet(Keys, Addrs))
    OBVIOUS
  <2>2. Q \in Queues(Keys, Addrs)
    BY <1>2, <2>1 DEF Queues, Q, NoIndex
  <2> QED BY <1>2, <2>2 DEF Sound, Indexed, Ordered, KeysDiffer
<1>4. Cardinality(Addrs) \in Nat
  BY MemoryAssumption, FS_CardinalityType
<1>5. Tied(Q, Entries)
  BY <1>1, <1>2, <1>3, <1>4 DEF Tied, NoIndex
<1>6. InStep(Q, asked, now)
  BY <1>2, TimeAssumption DEF Init, InStep, Never
<1>7. now \in 0..MaxNow /\ work = Serving
  BY TimeAssumption DEF Init
<1> QED BY <1>1, <1>5, <1>6, <1>7 DEF Inv

\* Steps that leave the clock alone, and do no more than MaxExpiresWork.
LEMMA InvStep ==
  ASSUME Inv, Proved!IInv', Tied(Q', Entries'), InStep(Q', asked', now), UNCHANGED now,
         work' = work \/ work' \in {Serving} \cup 0..MaxExpiresWork
  PROVE  Inv'
BY DEF Inv

LEMMA GetInv ==
  ASSUME Inv, NEW k \in Keys, Get(k)
  PROVE  Inv' /\ Entries' = Entries
<1>1. Proved!IInv' /\ Entries' = Entries
  BY Migrated DEF Get, Inv
<1>2. Q' = Q /\ asked' = asked /\ now' = now /\ work' = work
  BY QueueIs DEF Get
<1> QED BY <1>1, <1>2, InvStep DEF Inv

LEMMA SetInv ==
  ASSUME Inv, NoRewriting, NEW k \in Keys, Set(k)
  PROVE  Inv'
<1> DEFINE there == Table!HTGet(newer, k)
<1>1. asked' = asked /\ now' = now /\ work' = work /\ heap' = heap
  BY DEF Set
<1>2. there # Null => Entries[k] = there
  BY EntryOfIs DEF EntryOf, Table!Lookup
<1>3. CASE there # Null
  <2>1. Table!PutEntry(k, there) /\ index' = index
    BY <1>3 DEF Set
  <2>2. there \in Addrs
    BY <1>2, <1>3 DEF Inv, Tied
  <2> HIDE DEF there
  <2>3. Proved!IInv' /\ Entries' = [Entries EXCEPT ![k] = there]
    BY <2>1, <2>2, Put DEF Inv
  <2>4. Entries' = Entries
    BY <1>2, <1>3, <2>3, EntriesType DEF Inv
  <2>5. Q' = Q
    BY <1>1, <2>1 DEF Q
  <2> QED BY <1>1, <2>3, <2>4, <2>5, InvStep DEF Inv
<1>4. CASE there = Null
  <2>1. PICK a \in Free : Table!PutEntry(k, a) /\ index' = [index EXCEPT ![a] = NoIndex]
    BY <1>4 DEF Set
  <2>2. Entries[k] = Null
    BY <1>4, PresentIs DEF Set, NoRewriting
  <2>3. a \in Addrs /\ Unused(Entries, a)
    BY <2>1, PresentIs, EntryOfIs, TableAssumption DEF Free, KeyAt, Unused
  <2>4. Proved!IInv' /\ Entries' = [Entries EXCEPT ![k] = a]
    BY <2>1, <2>3, Put DEF Inv
  <2>5. Q' = Cleared(Q, a)
    BY <1>1, <2>1 DEF Q, Cleared
  <2>6. Tied(Q', Entries') /\ Timers(Q') = Timers(Q)
    <3> DEFINE r == Cleared(Q, a)
               f == [Entries EXCEPT ![k] = a]
    <3>1. r = Cleared(Q, a) /\ f = [Entries EXCEPT ![k] = a] /\ Tied(Q, Entries)
      BY DEF Inv
    <3> HIDE DEF r, f
    <3>2. Tied(r, f) /\ Timers(r) = Timers(Q)
      BY <2>2, <2>3, <3>1, TiedInsert
    <3> QED BY <2>4, <2>5, <3>1, <3>2
  <2>7. InStep(Q', asked', now)
    BY <1>1, <2>6, InStepSame DEF Inv
  <2> QED BY <1>1, <2>4, <2>6, <2>7, InvStep
<1> QED BY <1>3, <1>4

LEMMA DelInv ==
  ASSUME Inv, NEW k \in Keys, Del(k)
  PROVE  Inv'
<1>1. asked' = [asked EXCEPT ![k] = Never] /\ now' = now /\ work' = work
  BY DEF Del
<1>2. Proved!IInv' /\ Entries' = [Entries EXCEPT ![k] = Null]
  BY Dropped DEF Del, Inv
<1>3. Tied(Q', Entries') /\ Timers(Q') = {t \in Timers(Q) : t.key # k}
  <2>1. CASE k \in Present
    <3>1. Becomes(RemoveTimer(Q, k)) /\ Entries[k] # Null
      BY <2>1, PresentIs DEF Del
    <3> DEFINE r == RemoveTimer(Q, k)
    <3>2. /\ Tied(r, [Entries EXCEPT ![k] = Null])
          /\ Timers(r) = {t \in Timers(Q) : t.key # k}
      BY <3>1, TiedRemove DEF Inv
    <3>3. Becomes(r)
      BY <3>1
    <3> HIDE DEF r
    <3>4. Q' = r
      BY <3>2, <3>3, QueueIs, TiedFacts
    <3> QED BY <1>2, <3>2, <3>4
  <2>2. CASE k \notin Present
    <3>1. Q' = Q /\ Entries[k] = Null
      BY <2>2, PresentIs DEF Del, Becomes, Q
    <3>2. Entries' = Entries
      BY <1>2, <3>1, EntriesType DEF Inv
    <3>3. \A t \in Timers(Q) : t.key # k
      BY <3>1, TiedFacts, TableAssumption DEF Inv, Tied
    <3> QED BY <3>1, <3>2, <3>3 DEF Inv
  <2> QED BY <2>1, <2>2
<1>4. InStep(Q', asked', now)
  <2>1. Tied(Q, Entries) /\ InStep(Q, asked, now) /\ now \in Nat
    BY TimeAssumption DEF Inv
  <2> QED BY <1>1, <1>3, <2>1, InStepDelete
<1> QED BY <1>1, <1>2, <1>3, <1>4, InvStep

LEMMA PExpireInv ==
  ASSUME Inv, NEW k \in Keys, NEW ttl \in TTLs, PExpire(k, ttl)
  PROVE  Inv'
<1>1. UNCHANGED tableVars /\ now' = now /\ work' = work
  BY DEF PExpire
<1>2. Proved!IInv' /\ Entries' = Entries
  BY <1>1, Untouched DEF Inv
<1>3. Tied(Q, Entries) /\ InStep(Q, asked, now) /\ now \in Nat
  BY TimeAssumption DEF Inv
<1>4. CASE ~ (ttl > 0 /\ k \in Present)
  <2>1. Q' = Q /\ asked' = asked
    BY <1>4, QueueIs DEF PExpire
  <2> QED BY <1>1, <1>2, <1>3, <2>1, InvStep
<1>5. CASE ttl > 0 /\ k \in Present
  <2> DEFINE a == Entries[k]
             at == Deadline(ttl)
             r == IF index[a] = NoIndex THEN PushTimer(Q, Timer(k, at, a))
                  ELSE UpdateTimer(Q, index[a], at)
  <2>1. EntryOf(k) = a /\ a # Null
    BY <1>5, EntryOfIs, PresentIs
  <2>2. Becomes(r) /\ asked' = [asked EXCEPT ![k] = now + ttl]
    BY <1>5, <2>1 DEF PExpire
  <2>3. at \in Int /\ (SecondsFit => InTime(at, now + ttl))
    BY <1>3, <1>5, DeadlineIs
  <2>4. Tied(r, Entries) /\ Timers(r) = {t \in Timers(Q) : t.key # k} \cup {Timer(k, at, a)}
    <3> HIDE DEF at
    <3>1. CASE Q.index[a] = NoIndex
      BY <1>3, <2>1, <2>3, <3>1, QueueIs, TiedPush
    <3>2. CASE Q.index[a] # NoIndex
      BY <1>3, <2>1, <2>3, <3>2, QueueIs, TiedUpdate
    <3> QED BY <3>1, <3>2
  <2> HIDE DEF r, at
  <2>5. Q' = r
    BY <2>2, <2>4, QueueIs, TiedFacts
  <2>6. now + ttl \in Int /\ now + ttl > 0
    BY <1>3, <1>5, TimeAssumption
  <2>7. InStep(r, asked', now)
    <3> DEFINE want == now + ttl
    <3>1. /\ want \in Int /\ want > 0
          /\ SecondsFit => InTime(at, want)
          /\ asked' = [asked EXCEPT ![k] = want]
      BY <2>2, <2>3, <2>6
    <3> HIDE DEF want, a
    <3> QED BY <1>3, <2>4, <3>1, InStepPut
  <2> QED BY <1>1, <1>2, <2>4, <2>5, <2>7, InvStep
<1> QED BY <1>4, <1>5

\* The timer in front, when the sweep removes it.
LEMMA ExpireTopInv ==
  ASSUME Inv, ExpireTop
  PROVE  /\ Inv'
         /\ \E t \in Timers(Q) : t.expiresAt <= now /\ Entries' = [Entries EXCEPT ![t.key] = Null]
<1> DEFINE t == heap[1]
           k == t.key
           r == Cleared(PopTimer(Q), t.word)
<1>1. Proved!IInv /\ Tied(Q, Entries) /\ InStep(Q, asked, now) /\ now \in Nat
  BY TimeAssumption DEF Inv
<1>2. heap # << >> /\ work \in Int /\ work < MaxExpiresWork /\ t.expiresAt <= now
  BY DEF ExpireTop, SweepGoesOn, Inv, Serving
<1>3. /\ t \in Timers(Q) /\ Entries[k] = t.word
      /\ Tied(r, [Entries EXCEPT ![k] = Null])
      /\ Timers(r) = {u \in Timers(Q) : u.key # k}
  <2> DEFINE f == [Entries EXCEPT ![k] = Null]
  <2>1. Sweeps(Q, Entries, t, k, r, f) /\ f = [Entries EXCEPT ![k] = Null]
    BY <1>2, QueueIs DEF Sweeps
  <2> HIDE DEF t, k, r, f
  <2>2. /\ t \in Timers(Q) /\ Entries[k] = t.word
        /\ Tied(r, f) /\ Timers(r) = {u \in Timers(Q) : u.key # k}
    BY <1>1, <2>1, TiedPop
  <2> QED BY <2>1, <2>2
<1>4. k \in Keys /\ Entries[k] # Null
  <2> HIDE DEF k, r
  <2>1. t.key \in Keys /\ t.word \in Addrs
    BY <1>1, <1>3, TiedFacts
  <2> QED BY <1>3, <2>1, TableAssumption DEF k
<1>5. KeyAt(t.word) = {k}
  <2>1. \A l \in Keys : Entries[l] = Entries[k] => l = k
    BY <1>1, <1>4 DEF Tied
  <2> HIDE DEF k
  <2>2. \A l \in Present : EntryOf(l) = Entries[l]
    BY EntryOfIs, PresentIs
  <2> QED BY <1>3, <1>4, <2>1, <2>2, PresentIs DEF KeyAt
<1>6. Table!DropEntry(k) /\ asked' = [asked EXCEPT ![k] = Never]
  BY <1>5 DEF ExpireTop, DeleteEntryAt
<1>7. Proved!IInv' /\ Entries' = [Entries EXCEPT ![k] = Null]
  BY <1>1, <1>4, <1>6, Dropped
<1>8. Q' = r
  <2> DEFINE p == PopTimer(Q)
  <2>1. Sound(Keys, Addrs, p)
    <3>1. Sound(Keys, Addrs, Q) /\ Q.heap # << >> /\ p = PopTimer(Q)
      BY <1>1, <1>2, QueueIs DEF Tied
    <3> HIDE DEF p
    <3> QED BY <3>1, PopCorrect
  <2>2. Becomes([p EXCEPT !.index[t.word] = NoIndex])
    BY DEF ExpireTop
  <2> HIDE DEF p
  <2>3. p = [heap |-> p.heap, index |-> p.index]
    BY <2>1, QueueFacts DEF Sound
  <2>4. [p EXCEPT !.index[t.word] = NoIndex] = Cleared(p, t.word)
    BY <2>3 DEF Cleared
  <2> QED BY <2>2, <2>4 DEF Becomes, Cleared, Q, p
<1>9. InStep(Q', asked', now)
  <2> HIDE DEF k, r
  <2> QED BY <1>1, <1>3, <1>4, <1>6, <1>8, InStepDelete
<1>10. now' = now /\ work' \in 0..MaxExpiresWork
  BY <1>2, TimeAssumption DEF ExpireTop, Inv, Serving
<1>11. Tied(Q', Entries')
  BY <1>3, <1>7, <1>8
<1> HIDE DEF t, k, r
<1>12. Inv'
  BY <1>7, <1>9, <1>10, <1>11, InvStep
<1>13. Entries' = [Entries EXCEPT ![t.key] = Null]
  BY <1>7 DEF k
<1> QED BY <1>2, <1>3, <1>12, <1>13

LEMMA TickInv ==
  ASSUME Inv, Tick
  PROVE  Inv' /\ Entries' = Entries
<1>1. Proved!IInv' /\ Entries' = Entries
  BY Untouched DEF Tick, Inv
<1>2. Q' = Q /\ asked' = asked /\ work' = work /\ now' = now + 1 /\ now < MaxNow
  BY QueueIs DEF Tick
<1>3. now \in Nat /\ now' \in 0..MaxNow
  BY <1>2, TimeAssumption DEF Inv
<1>4. InStep(Q', asked', now')
  BY <1>2, <1>3, InStepLater DEF Inv
<1> QED BY <1>1, <1>2, <1>3, <1>4 DEF Inv

LEMMA SweepEdgeInv ==
  ASSUME Inv, StartSweep \/ EndSweep
  PROVE  Inv' /\ Entries' = Entries
<1>1. UNCHANGED <<tableVars, queueVars, now, asked>> /\ work' \in {Serving} \cup 0..MaxExpiresWork
  BY TimeAssumption DEF StartSweep, EndSweep
<1>2. Proved!IInv' /\ Entries' = Entries
  BY <1>1, Untouched DEF Inv
<1>3. Q' = Q
  BY <1>1, QueueIs
<1> QED BY <1>1, <1>2, <1>3, InvStep DEF Inv

LEMMA StutterInv ==
  ASSUME Inv, UNCHANGED vars
  PROVE  Inv' /\ Entries' = Entries
<1>1. UNCHANGED <<tableVars, queueVars, now, work, asked>>
  BY DEF vars
<1>2. Proved!IInv' /\ Entries' = Entries
  BY <1>1, Untouched DEF Inv
<1>3. Q' = Q
  BY <1>1, QueueIs
<1> QED BY <1>1, <1>2, <1>3 DEF Inv

LEMMA InvInductive == NoRewriting /\ Inv /\ [Next]_vars => Inv'
<1> SUFFICES ASSUME NoRewriting, Inv, [Next]_vars PROVE Inv'
  OBVIOUS
<1>1. ASSUME NEW k \in Keys, Get(k) PROVE Inv'
  BY <1>1, GetInv
<1>2. ASSUME NEW k \in Keys, Set(k) PROVE Inv'
  BY <1>2, SetInv
<1>3. ASSUME NEW k \in Keys, Del(k) PROVE Inv'
  BY <1>3, DelInv
<1>4. ASSUME NEW k \in Keys, NEW ttl \in TTLs, PExpire(k, ttl) PROVE Inv'
  BY <1>4, PExpireInv
<1>5. CASE StartSweep \/ EndSweep
  BY <1>5, SweepEdgeInv
<1>6. CASE ExpireTop
  BY <1>6, ExpireTopInv
<1>7. CASE Tick
  BY <1>7, TickInv
<1>8. CASE UNCHANGED vars
  BY <1>8, StutterInv
<1> QED BY <1>1, <1>2, <1>3, <1>4, <1>5, <1>6, <1>7, <1>8 DEF Next

-----------------------------------------------------------------------------
(* Theorems                                                                *)

\* The entries, the timers and what was asked for stay tied together.
LEMMA InvAlways ==
  ASSUME NoRewriting
  PROVE  Spec => []Inv
<1>1. Init => Inv
  BY InvInit
<1>2. Inv /\ [Next]_vars => Inv'
  BY InvInductive
<1> QED BY <1>1, <1>2, PTL DEF Spec

\* Table and heap keep their shapes while commands, migrations and sweeps work
\* on both, and no entry's index points behind the end of the vector.
THEOREM TypeCorrect ==
  ASSUME NoRewriting
  PROVE  Spec => []TypeOK
<1>1. Inv => TypeOK
  <2> SUFFICES ASSUME Inv PROVE TypeOK
    OBVIOUS
  <2>1. Tied(Q, Entries) /\ Table!TypeOK /\ Table!Reachable /\ Table!UniqueKeys
    BY EntriesType DEF Inv
  <2>2. heap \in Seq([key : Keys, expiresAt : Int, word : Addrs])
    BY <2>1, QueueIs, TiedFacts DEF TimerSet
  <2>3. index \in [Addrs -> 0..Cardinality(Addrs)]
    <3>1. index \in [Addrs -> Nat] /\ \A w \in Addrs : index[w] <= Cardinality(Addrs)
      BY <2>1, QueueIs, TiedFacts DEF Tied
    <3>2. Cardinality(Addrs) \in Nat
      BY MemoryAssumption, FS_CardinalityType
    <3> QED BY <3>1, <3>2
  <2>4. ASSUME NEW k \in Present PROVE index[EntryOf(k)] <= Len(heap)
    <3>1. k \in Keys /\ Entries[k] # Null /\ EntryOf(k) = Entries[k]
      BY PresentIs, EntryOfIs
    <3>2. Q.index[Entries[k]] = NoIndex \/ Q.index[Entries[k]] \in DOMAIN Q.heap
      BY <2>1, <3>1, EntryKnowsTimer
    <3> QED BY <2>1, <3>1, <3>2, QueueIs, TiedFacts DEF NoIndex
  <2> QED BY <2>1, <2>2, <2>3, <2>4 DEF TypeOK, Inv, InStep
<1> QED BY <1>1, InvAlways, PTL

\* Every timer points to the entry its key has, which knows where the timer is:
\* so the sweep deletes the key whose time has come, PEXPIRE changes that key's
\* deadline, and neither follows a pointer to memory that has been freed.
THEOREM TimersRight ==
  ASSUME NoRewriting
  PROVE  Spec => []TimersPointToEntries
<1>1. Inv => TimersPointToEntries
  <2> SUFFICES ASSUME Inv PROVE TimersPointToEntries
    OBVIOUS
  <2>1. Tied(Q, Entries)
    BY DEF Inv
  <2>2. ASSUME NEW i \in DOMAIN heap
        PROVE  EntryOf(heap[i].key) = heap[i].word /\ index[heap[i].word] = i
    <3>1. Q.heap[i] \in Timers(Q) /\ Q.heap[i].key \in Keys
      BY <2>1, QueueIs, TiedFacts
    <3>2. Entries[Q.heap[i].key] = Q.heap[i].word /\ Q.index[Q.heap[i].word] = i
      BY <2>1, <3>1, QueueIs, TiedFacts DEF Tied, Indexed
    <3> QED BY <3>1, <3>2, EntryOfIs, QueueIs
  <2>3. ASSUME NEW k \in Present, TimersOf(k) = {}
        PROVE  index[EntryOf(k)] = NoIndex
    <3>1. k \in Keys /\ Entries[k] # Null /\ EntryOf(k) = Entries[k]
      BY PresentIs, EntryOfIs
    <3>2. Q.index[Entries[k]] = NoIndex
      BY <2>1, <2>3, <3>1, TimersOfIs, EntryKnowsTimer
    <3> QED BY <3>1, <3>2, QueueIs
  <2> QED BY <2>2, <2>3 DEF TimersPointToEntries
<1> QED BY <1>1, InvAlways, PTL

\* A key has a timer exactly as long as its client has asked for one.
THEOREM TimersAsked ==
  ASSUME NoRewriting
  PROVE  Spec => []TimersAsAsked
<1>1. Inv => TimersAsAsked
  BY TimersOfIs DEF Inv, InStep, TimersAsAsked
<1> QED BY <1>1, InvAlways, PTL

\* The timer that PTTL finds by name is the key's, and what it says is read
\* without overflow.
LEMMA RemainingIs ==
  ASSUME Inv, SecondsFit, NEW k \in Keys, LeftFits(k)
  PROVE  \E t \in Timers(Q) : /\ t.key = k /\ t.expiresAt \in Int
                              /\ InTime(t.expiresAt, asked[k])
                              /\ RemainingOf(k) = t.expiresAt - now
<1>1. Tied(Q, Entries) /\ InStep(Q, asked, now) /\ now \in Nat
  BY TimeAssumption DEF Inv
<1> DEFINE t == Q.heap[PositionOf(Q, k)]
<1>2. HasTimer(Q, k) /\ TimersOf(k) # {}
  BY <1>1, TimersOfIs, QueueIs DEF InStep, HasTimer, Timers, LeftFits
<1>3. t \in Timers(Q) /\ t.key = k /\ t.expiresAt \in Int
  <2>1. PositionOf(Q, k) \in DOMAIN Q.heap /\ Q.heap[PositionOf(Q, k)].key = k
    BY <1>1, <1>2, TiedFacts, PositionIs
  <2> QED BY <1>1, <2>1, TiedFacts
<1>4. RemainingOf(k) = ToInt(t.expiresAt - now)
  BY <1>2, QueueIs DEF RemainingOf
<1> HIDE DEF t
<1>5. InTime(t.expiresAt, asked[k]) /\ asked[k] \in Int /\ asked[k] > 0
  BY <1>1, <1>3 DEF InStep, LeftFits
<1>6. t.expiresAt - now \in Int /\ -(IntMax + 1) <= t.expiresAt - now /\ t.expiresAt - now <= IntMax
  <2>1. TicksPerSecond - IntMax - 1 <= asked[k] - now /\ asked[k] - now <= IntMax
    BY <1>1, <1>5, TimeAssumption DEF LeftFits
  <2>2. t.expiresAt <= asked[k] /\ asked[k] < t.expiresAt + TicksPerSecond
    BY <1>5 DEF InTime
  <2> QED BY <1>1, <1>3, <1>5, <2>1, <2>2, TimeAssumption
<1>7. RemainingOf(k) = t.expiresAt - now
  BY <1>4, <1>6, ToIntIs
<1> QED BY <1>3, <1>5, <1>7

\* PTTL is late by less than a second, and never early, for any time to live
\* whose seconds fit an int and as soon as the rest of it does.
THEOREM PTTLAlmostExact ==
  ASSUME NoRewriting, SecondsFit
  PROVE  Spec => []PTTLWithinASecond
<1>1. Inv => PTTLWithinASecond
  <2> SUFFICES ASSUME Inv, NEW k \in Keys, LeftFits(k)
               PROVE  /\ RemainingOf(k) <= asked[k] - now
                      /\ asked[k] - now < RemainingOf(k) + TicksPerSecond
    BY DEF PTTLWithinASecond
  <2>1. PICK t \in Timers(Q) : /\ t.expiresAt \in Int /\ InTime(t.expiresAt, asked[k])
                               /\ RemainingOf(k) = t.expiresAt - now
    BY RemainingIs
  <2>2. now \in Int /\ asked[k] \in Int /\ TicksPerSecond \in Int
    BY TimeAssumption DEF Inv, InStep, LeftFits
  <2> QED BY <2>1, <2>2 DEF InTime
<1> QED BY <1>1, InvAlways, PTL

\* If times to live are whole seconds, PTTL is exact.
PTTLIsTimeLeft ==
  \A k \in Keys : LeftFits(k) => RemainingOf(k) = asked[k] - now

THEOREM PTTLExact ==
  ASSUME NoRewriting, SecondsFit, WholeSeconds
  PROVE  Spec => []PTTLIsTimeLeft
<1>1. Inv => PTTLIsTimeLeft
  <2> SUFFICES ASSUME Inv, NEW k \in Keys, LeftFits(k)
               PROVE  RemainingOf(k) = asked[k] - now
    BY DEF PTTLIsTimeLeft
  <2> QED BY RemainingIs DEF InTime
<1> QED BY <1>1, InvAlways, PTL

\* While a sweep runs, a key goes because it had a timer that was due.
LEMMA VanishingKeys ==
  ASSUME NoRewriting, Inv, [Next]_vars, NEW k \in Keys, Vanishes(k), work # Serving
  PROVE  \E t \in Timers(Q) : t.key = k /\ t.expiresAt <= now
<1>1. Entries[k] # Null /\ Entries'[k] = Null
  BY PresentIs DEF Vanishes
<1>2. Entries' # Entries
  BY <1>1
<1>3. ASSUME NEW j \in Keys, Get(j) \/ Set(j) \/ Del(j) PROVE FALSE
  BY <1>3 DEF Get, Set, Del
<1>4. ASSUME NEW j \in Keys, NEW ttl \in TTLs, PExpire(j, ttl) PROVE FALSE
  BY <1>4 DEF PExpire
<1>5. ~ (StartSweep \/ EndSweep) /\ ~ Tick /\ ~ UNCHANGED vars
  BY <1>2, SweepEdgeInv, TickInv, StutterInv
<1>6. ExpireTop
  BY <1>3, <1>4, <1>5 DEF Next
<1>7. PICK t \in Timers(Q) : t.expiresAt <= now /\ Entries' = [Entries EXCEPT ![t.key] = Null]
  BY <1>6, ExpireTopInv
<1>8. t.key = k
  <2>1. Entries \in [Keys -> Addrs \cup {Null}]
    BY DEF Inv, Tied
  <2> QED BY <1>1, <1>7, <2>1
<1> QED BY <1>7, <1>8

\* Outside DEL, a key leaves only if a client gave it a time to live.
THEOREM OnlyTimedKeysExpire ==
  ASSUME NoRewriting
  PROVE  Spec => UntimedKeysStay
<1> DEFINE A == \A k \in Keys : Vanishes(k) /\ work # Serving => asked[k] # Never
<1>1. Inv /\ [Next]_vars => [A]_vars
  <2> SUFFICES ASSUME Inv, [Next]_vars, NEW k \in Keys, Vanishes(k), work # Serving
               PROVE  asked[k] # Never
    OBVIOUS
  <2> QED BY VanishingKeys DEF Inv, InStep
<1>2. Spec => []Inv
  BY InvAlways
<1> QED BY <1>1, <1>2, PTL DEF Spec, UntimedKeysStay

\* A key is removed less than a second before its time to live is over, if at all:
\* PEXPIRE cuts it to whole seconds, and nothing else shortens it.
THEOREM LessThanASecondEarly ==
  ASSUME NoRewriting, SecondsFit
  PROVE  Spec => AlmostNoEarlyExpiry
<1> DEFINE A == \A k \in Keys : Vanishes(k) /\ work # Serving => now + TicksPerSecond > asked[k]
<1>1. Inv /\ [Next]_vars => [A]_vars
  <2> SUFFICES ASSUME Inv, [Next]_vars, NEW k \in Keys, Vanishes(k), work # Serving
               PROVE  now + TicksPerSecond > asked[k]
    OBVIOUS
  <2>1. PICK t \in Timers(Q) : t.key = k /\ t.expiresAt <= now
    BY VanishingKeys
  <2>2. asked[k] < t.expiresAt + TicksPerSecond /\ t.expiresAt \in Int
    BY <2>1, TiedFacts DEF Inv, InStep, InTime
  <2>3. now \in Int /\ asked[k] \in Int /\ TicksPerSecond \in Int
    BY TimeAssumption DEF Inv, InStep
  <2> QED BY <2>1, <2>2, <2>3
<1>2. Spec => []Inv
  BY InvAlways
<1> QED BY <1>1, <1>2, PTL DEF Spec, AlmostNoEarlyExpiry

\* A key with a time to live of whole seconds is not removed before it is over.
NoEarlyExpiry ==
  [][\A k \in Keys : Vanishes(k) /\ work # Serving => now >= asked[k]]_vars

THEOREM NeverEarly ==
  ASSUME NoRewriting, SecondsFit, WholeSeconds
  PROVE  Spec => NoEarlyExpiry
<1> DEFINE A == \A k \in Keys : Vanishes(k) /\ work # Serving => now >= asked[k]
<1>1. Inv /\ [Next]_vars => [A]_vars
  <2> SUFFICES ASSUME Inv, [Next]_vars, NEW k \in Keys, Vanishes(k), work # Serving
               PROVE  now >= asked[k]
    OBVIOUS
  <2>1. PICK t \in Timers(Q) : t.key = k /\ t.expiresAt <= now
    BY VanishingKeys
  <2>2. t.expiresAt = asked[k]
    BY <2>1 DEF Inv, InStep, InTime
  <2>3. now \in Int /\ asked[k] \in Int
    BY DEF Inv, InStep
  <2> QED BY <2>1, <2>2, <2>3
<1>2. Spec => []Inv
  BY InvAlways
<1> QED BY <1>1, <1>2, PTL DEF Spec, NoEarlyExpiry

\* A sweep that ends within its budget leaves no key that is due: the first timer
\* is due before all others, and a key that was asked to go has a timer that is
\* due no later.
THEOREM SweepsLeaveNothingDue ==
  ASSUME NoRewriting, SecondsFit
  PROVE  Spec => SweepsFinish
<1> DEFINE A == EndSweep => work = MaxExpiresWork \/ \A k \in Keys : ~ Due(k)
<1>1. Inv /\ [Next]_vars => [A]_vars
  <2> SUFFICES ASSUME Inv, EndSweep, work # MaxExpiresWork, NEW k \in Keys, Due(k)
               PROVE  FALSE
    OBVIOUS
  <2>1. work \in 0..MaxExpiresWork /\ work < MaxExpiresWork
    BY TimeAssumption DEF Inv, EndSweep, Serving
  <2>2. Q \in Queues(Keys, Addrs) /\ Ordered(Q)
    BY TiedFacts DEF Inv
  <2>3. PICK t \in Timers(Q) : t.key = k
    BY DEF Due, Inv, InStep
  <2>4. now \in Int /\ asked[k] \in Int /\ asked[k] <= now
    BY DEF Due, Inv, InStep
  <2>5. t.expiresAt \in Int /\ t.expiresAt <= asked[k]
    BY <2>3, TiedFacts DEF Inv, InStep, InTime
  <2>6. PICK i \in DOMAIN Q.heap : t = Q.heap[i]
    BY DEF Timers
  <2>7. 1 \in DOMAIN Q.heap /\ ~ Before(Q, i, 1)
    BY <2>2, FirstIsEarliest
  <2>8. Q.heap[1].expiresAt \in Int
    BY <2>7, TiedFacts DEF Inv
  <2>9. heap # << >> /\ heap[1].expiresAt <= now
    BY <2>4, <2>5, <2>6, <2>7, <2>8, QueueIs DEF Before
  <2> QED BY <2>1, <2>9 DEF EndSweep, SweepGoesOn
<1>2. Spec => []Inv
  BY InvAlways
<1> QED BY <1>1, <1>2, PTL DEF Spec, SweepsFinish
==============================================================================
