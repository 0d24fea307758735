------------------------- MODULE ResizableHashTable -------------------------
(***************************************************************************)
(* The storage engine: a chained hash table (HashTable) inside a table that *)
(* grows by doubling and moves its entries a few at a time, during the     *)
(* calls that follow (ResizableHashTable).                                 *)
(*                                                                         *)
(* A HashTable is a record of the fields of the class: `mask' is           *)
(* slotsCount - 1, `size' the counter the operations maintain, and         *)
(* slots[i] the entries chained in slot i.  A chain is a set: the order of  *)
(* the entries in it decides only the order of keys() and which entry of   *)
(* a slot is moved first, and both are left open here.                     *)
(***************************************************************************)
EXTENDS Integers, FiniteSets

CONSTANTS
  Keys,          \* the keys clients may use
  Values,        \* what a non-null std::shared_ptr<Value> can point to
  Null,          \* the null pointer
  Hash,          \* hashKey: the hash code of each key
  InitialSlots,  \* slots of the first table
  MaxLoad,       \* kMaxLoadFactor: entries per slot above which a table grows
  WorkSize       \* kRehashingWorkSize: entries moved by one call

ASSUME ValuesAssumption == Null \notin Values
ASSUME HashAssumption == Hash \in [Keys -> Nat]
\* The constructor asserts a power of two; h & _mask is then h % slotsCount.
ASSUME SlotsAssumption ==
  /\ InitialSlots \in Nat \ {0}
  /\ \E n \in 0..InitialSlots : InitialSlots = 2^n
ASSUME MaxLoadAssumption == MaxLoad \in Nat \ {0}
\* With one entry per call the table could outgrow its own migration; the
\* code moves 128.
ASSUME WorkAssumption == WorkSize \in Nat \ {0, 1}

VARIABLES
  newer,       \* _newer, the table that receives every insertion
  older,       \* _older, the table being emptied; NoTable is the null pointer
  migratePos,  \* _migratePos, the slot of older the migration has reached
  reply        \* the call made last, on what, and what it returned

vars == <<newer, older, migratePos, reply>>

-----------------------------------------------------------------------------
(* HashTable                                                               *)

Entry == [key : Keys, val : Values]

Capacity(t) == t.mask + 1

\* calloc: `slotsCount' empty chains.
EmptyTable(slotsCount) ==
  [mask |-> slotsCount - 1, size |-> 0, slots |-> [i \in 0..(slotsCount - 1) |-> {}]]

\* A null _older is the table without slots, which no constructor call makes.
NoTable == EmptyTable(0)

\* The entries in the slots from lo on, and in the whole table.
ChainsFrom(t, lo) == UNION {t.slots[i] : i \in lo..t.mask}
Contents(t) == ChainsFrom(t, 0)

SlotOf(t, k) == Hash[k] % Capacity(t)

\* The walk of the one chain the key can be in.
Matches(t, k) == {e \in t.slots[SlotOf(t, k)] : e.key = k}

HTGet(t, k) ==
  IF Matches(t, k) = {} THEN Null ELSE (CHOOSE e \in Matches(t, k) : TRUE).val

\* Mutation of HTSet: overwriting a value counts as an insertion.
HTSetCountsTwice(t, k, v) ==
  [t EXCEPT !.slots[SlotOf(t, k)] = (@ \ Matches(t, k)) \cup {[key |-> k, val |-> v]},
            !.size = @ + 1]

HTSet(t, k, v) ==
  LET i == SlotOf(t, k)
      old == CHOOSE e \in Matches(t, k) : TRUE
      fresh == [key |-> k, val |-> v]
  IN IF Matches(t, k) = {}
     THEN [t EXCEPT !.slots[i] = @ \cup {fresh}, !.size = @ + 1]
     ELSE [t EXCEPT !.slots[i] = (@ \ {old}) \cup {fresh}]

\* Mutation of HTDel: the counter goes down although nothing was found.
HTDelCountsMisses(t, k) ==
  [t EXCEPT !.slots[SlotOf(t, k)] = @ \ Matches(t, k), !.size = @ - 1]

HTDel(t, k) ==
  LET i == SlotOf(t, k)
      old == CHOOSE e \in Matches(t, k) : TRUE
  IN IF Matches(t, k) = {}
     THEN t
     ELSE [t EXCEPT !.slots[i] = @ \ {old}, !.size = @ - 1]

-----------------------------------------------------------------------------
(* Incremental rehashing                                                   *)

IsRehashing == older # NoTable /\ migratePos < Capacity(older)

Least(a, b) == IF a <= b THEN a ELSE b

\* The entries one call of migrateKeys takes out of table o: it goes through
\* the slots upwards from pos, never leaves a slot before it is empty, and
\* stops after WorkSize entries, when the size counter is down to zero, or
\* behind the last slot.
Wanted(o) == Least(WorkSize, o.size)

IsBatch(o, pos, M) ==
  /\ Cardinality(M) = Least(Wanted(o), Cardinality(ChainsFrom(o, pos)))
  /\ \A i, j \in pos..o.mask :
        i < j /\ o.slots[j] \cap M # {} => o.slots[i] \subseteq M

\* Mutation of ScanPos: the scan goes on behind the slot of the last entry,
\* whether or not that slot is empty.
ScanPosBehindChain(o, pos, M) ==
  IF Cardinality(M) < Wanted(o)
  THEN Capacity(o)
  ELSE 1 + CHOOSE i \in pos..o.mask :
             /\ o.slots[i] \cap M # {}
             /\ \A j \in pos..o.mask : o.slots[j] \cap M # {} => j <= i

\* The slot the last entry of the batch was in; behind the table if the scan
\* ran out of slots before it had what it wanted.
ScanPos(o, pos, M) ==
  IF Cardinality(M) < Wanted(o)
  THEN Capacity(o)
  ELSE CHOOSE i \in pos..o.mask :
         /\ o.slots[i] \cap M # {}
         /\ \A j \in pos..o.mask : o.slots[j] \cap M # {} => j <= i

\* Mutation of MoveIn: the slot is computed with the mask of the table the
\* entries come from.
MoveInOldMask(t, M) ==
  [t EXCEPT !.slots = [i \in DOMAIN @ |->
              @[i] \cup {e \in M : Hash[e.key] % (Capacity(t) \div 2) = i}],
            !.size = @ + Cardinality(M)]

\* Entries are relinked, not copied: each goes to the slot its hash code has
\* in the table that receives it.
MoveIn(t, M) ==
  [t EXCEPT !.slots = [i \in DOMAIN @ |-> @[i] \cup {e \in M : SlotOf(t, e.key) = i}],
            !.size = @ + Cardinality(M)]

MoveOut(t, M) ==
  [t EXCEPT !.slots = [i \in DOMAIN @ |-> @[i] \ M],
            !.size = @ - Cardinality(M)]

\* tryRehashing on the tables n and o, with the scan at slot pos.
TryRehashing(n, o, pos) ==
  \E M \in SUBSET ChainsFrom(o, pos) :
    /\ IsBatch(o, pos, M)
    /\ newer' = MoveIn(n, M)
    /\ IF MoveOut(o, M).size = 0
       THEN older' = NoTable /\ migratePos' = 0
       ELSE older' = MoveOut(o, M) /\ migratePos' = ScanPos(o, pos, M)

\* triggerRehashing: table n becomes the older one, behind one twice its size.
TriggerRehashing(n) == TryRehashing(EmptyTable(2 * Capacity(n)), n, 0)

UnchangedTables == UNCHANGED <<newer, older, migratePos>>

\* What most calls end with: some migration while there is any to do.
MigrateIfRehashing ==
  IF IsRehashing THEN TryRehashing(newer, older, migratePos) ELSE UnchangedTables

-----------------------------------------------------------------------------
(* ResizableHashTable                                                      *)

Answer(operation, args, result) == reply' = <<operation, args, result>>

\* Mutation of Lookup: a key not in newer is not looked for in older.
LookupNewerOnly(k) == HTGet(newer, k)

Lookup(k) ==
  IF HTGet(newer, k) # Null THEN HTGet(newer, k)
  ELSE IF IsRehashing THEN HTGet(older, k)
  ELSE Null

Init ==
  /\ newer = EmptyTable(InitialSlots)
  /\ older = NoTable
  /\ migratePos = 0
  /\ reply = <<"none", << >>, Null>>

Get(k) ==
  /\ Answer("get", <<k>>, Lookup(k))
  /\ MigrateIfRehashing

\* Mutation of PutEntry: the entry the key has in older stays there.
PutEntryKeepsOlder(k, v) ==
  LET n == HTSet(newer, k, v)
  IN IF IsRehashing
     THEN TryRehashing(n, older, migratePos)
     ELSE IF n.size > MaxLoad * Capacity(n)
     THEN TriggerRehashing(n)
     ELSE newer' = n /\ UNCHANGED <<older, migratePos>>

\* Mutation of PutEntry: the load is looked at before the insertion.
PutEntryChecksFirst(k, v) ==
  LET n == HTSet(newer, k, v)
  IN IF IsRehashing
     THEN TryRehashing(n, HTDel(older, k), migratePos)
     ELSE IF newer.size > MaxLoad * Capacity(n)
     THEN TriggerRehashing(n)
     ELSE newer' = n /\ UNCHANGED <<older, migratePos>>

\* Mutation of PutEntry: an insertion during a migration moves nothing.
PutEntryWithoutWork(k, v) ==
  LET n == HTSet(newer, k, v)
  IN IF IsRehashing
     THEN newer' = n /\ older' = HTDel(older, k) /\ UNCHANGED migratePos
     ELSE IF n.size > MaxLoad * Capacity(n)
     THEN TriggerRehashing(n)
     ELSE newer' = n /\ UNCHANGED <<older, migratePos>>

\* What set does to the tables.  While a migration runs the load of newer is
\* not looked at.
PutEntry(k, v) ==
  LET n == HTSet(newer, k, v)
  IN IF IsRehashing
     THEN TryRehashing(n, HTDel(older, k), migratePos)
     ELSE IF n.size > MaxLoad * Capacity(n)
     THEN TriggerRehashing(n)
     ELSE newer' = n /\ UNCHANGED <<older, migratePos>>

Set(k, v) ==
  /\ PutEntry(k, v)
  /\ Answer("set", <<k, v>>, Null)

\* What findEntry and del answer: is there an entry for k?
Found(k) == Matches(newer, k) # {} \/ (IsRehashing /\ Matches(older, k) # {})

\* Mutation of DropEntry: a key found in newer is deleted without doing any work.
DropEntryWithoutWork(k) ==
  IF Matches(newer, k) # {}
  THEN newer' = HTDel(newer, k) /\ UNCHANGED <<older, migratePos>>
  ELSE IF IsRehashing
  THEN TryRehashing(newer, HTDel(older, k), migratePos)
  ELSE UnchangedTables

\* What del does to the tables.
DropEntry(k) ==
  IF IsRehashing
  THEN IF Matches(newer, k) # {}
       THEN TryRehashing(HTDel(newer, k), older, migratePos)
       ELSE TryRehashing(newer, HTDel(older, k), migratePos)
  ELSE newer' = HTDel(newer, k) /\ UNCHANGED <<older, migratePos>>

Del(k) ==
  /\ DropEntry(k)
  /\ Answer("del", <<k>>, Found(k))

\* The one lookup that moves nothing.
FindEntry(k) ==
  /\ Answer("findEntry", <<k>>, Found(k))
  /\ UnchangedTables

Occurrences(t, k) == Cardinality({e \in Contents(t) : e.key = k})

ListKeys ==
  /\ Answer("keys", << >>, [k \in Keys |->
       Occurrences(newer, k) + (IF IsRehashing THEN Occurrences(older, k) ELSE 0)])
  /\ UnchangedTables

Size ==
  /\ Answer("size", << >>, newer.size + (IF IsRehashing THEN older.size ELSE 0))
  /\ UnchangedTables

Clear ==
  /\ newer' = EmptyTable(Capacity(newer))
  /\ older' = NoTable
  /\ migratePos' = 0
  /\ Answer("clear", << >>, Null)

Next ==
  \/ \E k \in Keys : Get(k)
  \/ \E k \in Keys : Del(k)
  \/ \E k \in Keys : FindEntry(k)
  \/ \E k \in Keys, v \in Values : Set(k, v)
  \/ ListKeys
  \/ Size
  \/ Clear

Spec == Init /\ [][Next]_vars
-----------------------------------------------------------------------------
(* Properties                                                              *)

IsTable(t) ==
  t \in [mask : Nat \cup {-1}, size : Nat, slots : [0..t.mask -> SUBSET Entry]]

\* The two tables have the shape of the C++ objects: counters that never wrap
\* below zero, one chain per slot, and a newer table that has slots.
TypeOK ==
  /\ IsTable(newer) /\ newer.mask \in Nat
  /\ IsTable(older)
  /\ migratePos \in Nat

\* An entry lies in the chain its hash code selects in the table it is in.
\* get, set and del look nowhere else, so an entry relinked by migrateKeys
\* with the mask of the wrong table would be lost while still counted.
WellPlaced(t) ==
  \A i \in 0..t.mask : \A e \in t.slots[i] : SlotOf(t, e.key) = i

Reachable == WellPlaced(newer) /\ WellPlaced(older)

OneEntryPerKey(t) == \A e, f \in Contents(t) : e.key = f.key => e = f

\* A key has one entry, in one of the two tables: set inserts into newer
\* before it deletes from older, del stops at the first table that has it.
UniqueKeys ==
  /\ OneEntryPerKey(newer)
  /\ OneEntryPerKey(older)
  /\ \A e \in Contents(newer), f \in Contents(older) : e.key # f.key

Counted(t) == IsFiniteSet(Contents(t)) /\ t.size = Cardinality(Contents(t))

\* The size counters count what is in the chains, through insertions,
\* deletions in either table and moves: tryRehashing frees older on the word
\* of its counter alone.
SizesExact == Counted(newer) /\ Counted(older)

\* The scan has left nothing behind, and an older table that is still there
\* has entries in front of the scan.  Otherwise isRehashing() would turn false
\* with entries in older, and get would no longer see them.
NothingStranded ==
  /\ \A i \in 0..older.mask : i < migratePos => older.slots[i] = {}
  /\ older # NoTable => older.size > 0 /\ IsRehashing

\* The load factor holds after every call, also during a migration, when set
\* does not check it: the migration empties older before the insertions that
\* drive it can fill newer.
LoadBound == newer.size <= MaxLoad * Capacity(newer)

\* Why LoadBound survives a migration: whatever is still in older can at worst
\* be moved while as many new keys arrive, and newer has room for both.
MigrationBudget == newer.size + 2 * older.size <= MaxLoad * Capacity(newer)

\* Every get, set and del during a migration empties older or moves WorkSize
\* entries, never puts an entry back, and no second migration replaces an
\* older table that still has entries (the assertion in triggerRehashing).
CallsDrainOlder ==
  [][older # NoTable /\ older' # NoTable =>
       /\ Contents(older') \subseteq Contents(older)
       /\ migratePos' >= migratePos
       /\ reply'[1] \in {"get", "set", "del"} => older'.size <= older.size - WorkSize
    ]_vars

\* The mapping the two tables stand for is what a get would return.
View == [k \in Keys |-> Lookup(k)]

Store == INSTANCE KVStore WITH kv <- View

\* Behind IDatabase the migration cannot be observed: every call answers and
\* changes the mapping as the abstract store does.
ImplementsKVStore == Store!Spec
=============================================================================
