--------------------- MODULE ResizableHashTable_proofs ---------------------
(***************************************************************************)
(* Proofs about ResizableHashTable, for every set of keys and values, every *)
(* hash function, table size, load factor and amount of work per call.     *)
(***************************************************************************)
EXTENDS ResizableHashTable, FiniteSetTheorems, TLAPS

-----------------------------------------------------------------------------
(* Arithmetic and the choice of a slot                                     *)

LEMMA ModRange ==
  ASSUME NEW a \in Nat, NEW c \in Nat \ {0}
  PROVE  a % c \in 0..(c - 1)
BY SMT

LEMMA SlotInTable ==
  ASSUME NEW t, IsTable(t), t.mask \in Nat, NEW k \in Keys
  PROVE  SlotOf(t, k) \in 0..t.mask
<1>1. Hash[k] \in Nat
  BY HashAssumption
<1>2. Capacity(t) \in Nat \ {0} /\ Capacity(t) - 1 = t.mask
  BY DEF Capacity
<1>3. Hash[k] % Capacity(t) \in 0..(Capacity(t) - 1)
  BY <1>1, <1>2, ModRange
<1> QED
  BY <1>2, <1>3 DEF SlotOf

\* A set of slot numbers below a bound has a largest element.
LEMMA LargestExists ==
  ASSUME NEW m \in Nat, NEW S \in SUBSET (0..m), S # {}
  PROVE  \E i \in S : \A j \in S : j <= i
<1> DEFINE T == {m - i : i \in S}
<1>1. T \subseteq Nat /\ T # {}
  <2>1. PICK i \in S : TRUE
    OBVIOUS
  <2>2. m - i \in T
    BY <2>1
  <2>3. \A j \in S : m - j \in Nat
    OBVIOUS
  <2> QED
    BY <2>2, <2>3
<1>2. PICK x \in T : \A y \in T : ~ (<<y, x>> \in OpToRel(<, Nat))
  BY <1>1, NatLessThanWellFounded, WFMin
<1>3. \A y \in T : ~ (y < x)
  BY <1>1, <1>2 DEF OpToRel
<1>4. PICK i \in S : x = m - i
  BY <1>2
<1>5. ASSUME NEW j \in S
      PROVE  j <= i
  <2>1. ~ (m - j < m - i)
    BY <1>3, <1>4
  <2> QED
    BY <2>1
<1> QED
  BY <1>5

-----------------------------------------------------------------------------
(* One table                                                               *)

WF(t) == IsTable(t) /\ WellPlaced(t) /\ OneEntryPerKey(t) /\ Counted(t)

LEMMA InContents ==
  ASSUME NEW t, NEW lo, NEW e
  PROVE  e \in ChainsFrom(t, lo) <=> \E i \in lo..t.mask : e \in t.slots[i]
BY DEF ChainsFrom

LEMMA ContentsAreEntries ==
  ASSUME NEW t, IsTable(t)
  PROVE  Contents(t) \subseteq Entry
BY InContents DEF Contents, IsTable

LEMMA EmptyTableWF ==
  ASSUME NEW c \in Nat
  PROVE  /\ WF(EmptyTable(c))
         /\ Contents(EmptyTable(c)) = {}
         /\ EmptyTable(c).size = 0
         /\ EmptyTable(c).mask = c - 1
         /\ Capacity(EmptyTable(c)) = c
<1> DEFINE t == EmptyTable(c)
<1>1. IsTable(t) /\ t.size = 0 /\ t.mask = c - 1
  BY DEF EmptyTable, IsTable
<1>2. \A i \in 0..t.mask : t.slots[i] = {}
  BY DEF EmptyTable
<1>3. Contents(t) = {}
  BY <1>2, InContents DEF Contents
<1>4. WellPlaced(t)
  BY <1>2 DEF WellPlaced
<1>5. OneEntryPerKey(t)
  BY <1>3 DEF OneEntryPerKey
<1>6. Counted(t)
  BY <1>1, <1>3, FS_EmptySet DEF Counted
<1>7. Capacity(t) = c
  BY <1>1 DEF Capacity
<1> QED
  BY <1>1, <1>3, <1>4, <1>5, <1>6, <1>7 DEF WF

LEMMA NoTableWF ==
  /\ WF(NoTable)
  /\ Contents(NoTable) = {}
  /\ NoTable.size = 0
  /\ NoTable.mask = -1
<1>1. 0 \in Nat
  OBVIOUS
<1> QED
  BY <1>1, EmptyTableWF DEF NoTable

\* What an operation needs to know of the chain it walks.
LEMMA MatchesInContents ==
  ASSUME NEW t, WF(t), t.mask \in Nat, NEW k \in Keys
  PROVE  /\ Matches(t, k) = {e \in Contents(t) : e.key = k}
         /\ \A e, f \in Matches(t, k) : e = f
<1>1. SlotOf(t, k) \in 0..t.mask
  BY SlotInTable DEF WF
<1>2. ASSUME NEW e \in Matches(t, k)
      PROVE  e \in Contents(t) /\ e.key = k
  BY <1>1, <1>2, InContents DEF Matches, Contents
<1>3. ASSUME NEW e \in Contents(t), e.key = k
      PROVE  e \in Matches(t, k)
  <2>1. PICK i \in 0..t.mask : e \in t.slots[i]
    BY InContents DEF Contents
  <2>2. SlotOf(t, e.key) = i
    BY <2>1 DEF WF, WellPlaced
  <2> QED
    BY <1>3, <2>1, <2>2 DEF Matches
<1>4. \A e, f \in Matches(t, k) : e = f
  BY <1>2 DEF WF, OneEntryPerKey
<1> QED
  BY <1>2, <1>3, <1>4

LEMMA GetIs ==
  ASSUME NEW t, WF(t), t.mask \in Nat, NEW k \in Keys
  PROVE  /\ \A e \in Contents(t) : e.key = k => HTGet(t, k) = e.val /\ HTGet(t, k) # Null
         /\ (\A e \in Contents(t) : e.key # k) => HTGet(t, k) = Null
<1>1. ASSUME NEW e \in Contents(t), e.key = k
      PROVE  HTGet(t, k) = e.val /\ HTGet(t, k) # Null
  <2>1. Matches(t, k) # {} /\ (CHOOSE f \in Matches(t, k) : TRUE) = e
    BY <1>1, MatchesInContents
  <2>2. e.val # Null
    BY ContentsAreEntries, ValuesAssumption DEF WF, Entry
  <2> QED
    BY <2>1, <2>2 DEF HTGet
<1>2. ASSUME \A e \in Contents(t) : e.key # k
      PROVE  HTGet(t, k) = Null
  BY <1>2, MatchesInContents DEF HTGet
<1> QED
  BY <1>1, <1>2

\* HTSet and HTDel both replace the entry of k, in k's chain, by those of A.
Rewrite(t, k, A, n) ==
  [t EXCEPT !.slots[SlotOf(t, k)] = (@ \ Matches(t, k)) \cup A, !.size = n]

LEMMA RewriteContents ==
  ASSUME NEW t, WF(t), t.mask \in Nat, NEW k \in Keys, NEW n \in Nat,
         NEW A \in SUBSET Entry, \A e, f \in A : e.key = k /\ e = f
  PROVE  LET r == Rewrite(t, k, A, n) IN
         /\ IsTable(r)
         /\ r.mask = t.mask /\ r.size = n
         /\ Contents(r) = {e \in Contents(t) : e.key # k} \cup A
         /\ WellPlaced(r)
         /\ OneEntryPerKey(r)
         /\ \A i \in 0..t.mask : A = {} => r.slots[i] \subseteq t.slots[i]
<1> DEFINE r == Rewrite(t, k, A, n)
           s == SlotOf(t, k)
<1>1. s \in 0..t.mask
  BY SlotInTable DEF WF
<1>2. /\ r.mask = t.mask
      /\ r.size = n
      /\ \A i \in 0..t.mask :
           r.slots[i] = IF i = s THEN (t.slots[s] \ Matches(t, k)) \cup A ELSE t.slots[i]
  BY <1>1 DEF Rewrite, WF, IsTable
<1>3. IsTable(r)
  BY <1>1 DEF Rewrite, WF, IsTable
<1>4. Matches(t, k) = {e \in t.slots[s] : e.key = k}
  BY DEF Matches
<1>5. Contents(r) = {e \in Contents(t) : e.key # k} \cup A
  <2>1. ASSUME NEW e \in Contents(r)
        PROVE  e \in {f \in Contents(t) : f.key # k} \cup A
    <3>1. PICK i \in 0..t.mask : e \in r.slots[i]
      BY <1>2, InContents DEF Contents
    <3>2. e \in t.slots[i] => e \in Contents(t)
      BY InContents DEF Contents
    <3>3. CASE i = s
      BY <1>2, <1>4, <3>1, <3>2, <3>3
    <3>4. CASE i # s
      <4>1. e \in t.slots[i]
        BY <1>2, <3>1, <3>4
      <4>2. SlotOf(t, e.key) = i
        BY <4>1 DEF WF, WellPlaced
      <4> QED
        BY <3>2, <3>4, <4>1, <4>2
    <3> QED
      BY <3>3, <3>4
  <2>2. ASSUME NEW e \in Contents(t), e.key # k
        PROVE  e \in Contents(r)
    <3>1. PICK i \in 0..t.mask : e \in t.slots[i]
      BY InContents DEF Contents
    <3>2. e \in r.slots[i]
      BY <1>2, <1>4, <2>2, <3>1
    <3> QED
      BY <1>2, <3>1, <3>2, InContents DEF Contents
  <2>3. ASSUME NEW e \in A
        PROVE  e \in Contents(r)
    <3>1. e \in r.slots[s]
      BY <1>1, <1>2
    <3> QED
      BY <1>1, <1>2, <3>1, InContents DEF Contents
  <2> QED
    BY <2>1, <2>2, <2>3
<1>6. WellPlaced(r)
  <2> SUFFICES ASSUME NEW i \in 0..r.mask, NEW e \in r.slots[i]
               PROVE  SlotOf(r, e.key) = i
    BY DEF WellPlaced
  <2>1. SlotOf(r, e.key) = SlotOf(t, e.key)
    BY <1>2 DEF SlotOf, Capacity
  <2>2. CASE e \in A
    <3>1. i = s
      <4>1. SUFFICES ASSUME i # s PROVE FALSE
        OBVIOUS
      <4>2. e \in t.slots[i]
        BY <1>2, <4>1
      <4>3. SlotOf(t, e.key) = i
        BY <1>2, <4>2 DEF WF, WellPlaced
      <4> QED
        BY <2>2, <4>1, <4>3
    <3> QED
      BY <2>1, <2>2, <3>1
  <2>3. CASE e \notin A
    <3>1. e \in t.slots[i]
      BY <1>2, <2>3
    <3> QED
      BY <1>2, <2>1, <3>1 DEF WF, WellPlaced
  <2> QED
    BY <2>2, <2>3
<1>7. OneEntryPerKey(r)
  BY <1>5 DEF WF, OneEntryPerKey
<1>8. \A i \in 0..t.mask : A = {} => r.slots[i] \subseteq t.slots[i]
  BY <1>2
<1> QED
  BY <1>2, <1>3, <1>5, <1>6, <1>7, <1>8

LEMMA SetIs ==
  ASSUME NEW t, WF(t), t.mask \in Nat, NEW k \in Keys, NEW v \in Values
  PROVE  LET n == HTSet(t, k, v) IN
         /\ WF(n)
         /\ n.mask = t.mask
         /\ Contents(n) = {e \in Contents(t) : e.key # k} \cup {[key |-> k, val |-> v]}
         /\ n.size <= t.size + 1
<1> DEFINE A == {[key |-> k, val |-> v]}
           n == HTSet(t, k, v)
           size == IF Matches(t, k) = {} THEN t.size + 1 ELSE t.size
<1>1. A \in SUBSET Entry /\ \A e, f \in A : e.key = k /\ e = f
  BY DEF Entry
<1>2. size \in Nat /\ t.size \in Nat /\ t.size = Cardinality(Contents(t)) /\ IsFiniteSet(Contents(t))
  BY DEF WF, IsTable, Counted
<1>3. n = Rewrite(t, k, A, size)
  <2>1. CASE Matches(t, k) = {}
    BY <2>1 DEF HTSet, Rewrite
  <2>2. CASE Matches(t, k) # {}
    <3>1. Matches(t, k) = {CHOOSE e \in Matches(t, k) : TRUE}
      BY <2>2, MatchesInContents
    <3>2. [t EXCEPT !.slots[SlotOf(t, k)] = (@ \ Matches(t, k)) \cup A]
            = [t EXCEPT !.slots[SlotOf(t, k)] = (@ \ Matches(t, k)) \cup A, !.size = t.size]
      BY DEF WF, IsTable
    <3> QED
      BY <2>2, <3>1, <3>2 DEF HTSet, Rewrite
  <2> QED
    BY <2>1, <2>2
<1>4. /\ IsTable(n) /\ n.mask = t.mask /\ n.size = size /\ WellPlaced(n) /\ OneEntryPerKey(n)
      /\ Contents(n) = {e \in Contents(t) : e.key # k} \cup A
  BY <1>1, <1>2, <1>3, RewriteContents
<1>5. Counted(n)
  <2>1. CASE Matches(t, k) = {}
    <3>1. Contents(n) = Contents(t) \cup A /\ [key |-> k, val |-> v] \notin Contents(t)
      BY <1>4, <2>1, MatchesInContents
    <3> QED
      BY <1>2, <1>4, <2>1, <3>1, FS_AddElement DEF Counted
  <2>2. CASE Matches(t, k) # {}
    <3>1. PICK old \in Contents(t) : old.key = k
      BY <2>2, MatchesInContents
    <3>2. {e \in Contents(t) : e.key # k} = Contents(t) \ {old}
      BY <3>1 DEF WF, OneEntryPerKey
    <3>3. /\ IsFiniteSet(Contents(t) \ {old})
          /\ Cardinality(Contents(t) \ {old}) = Cardinality(Contents(t)) - 1
      BY <1>2, <3>1, FS_RemoveElement
    <3>4. [key |-> k, val |-> v] \notin Contents(t) \ {old}
      BY <3>2
    <3>5. /\ IsFiniteSet(Contents(n))
          /\ Cardinality(Contents(n)) = Cardinality(Contents(t)) - 1 + 1
      <4>1. Contents(n) = (Contents(t) \ {old}) \cup {[key |-> k, val |-> v]}
        BY <1>4, <3>2
      <4>2. \A x : x \notin Contents(t) \ {old} =>
              /\ IsFiniteSet((Contents(t) \ {old}) \cup {x})
              /\ Cardinality((Contents(t) \ {old}) \cup {x})
                   = Cardinality(Contents(t) \ {old}) + 1
        BY <3>3, FS_AddElement
      <4> QED
        BY <3>3, <3>4, <4>1, <4>2
    <3> QED
      BY <1>2, <1>4, <2>2, <3>5 DEF Counted
  <2> QED
    BY <2>1, <2>2
<1> QED
  BY <1>2, <1>4, <1>5 DEF WF

LEMMA DelIs ==
  ASSUME NEW t, WF(t), t.mask \in Nat, NEW k \in Keys
  PROVE  LET n == HTDel(t, k) IN
         /\ WF(n)
         /\ n.mask = t.mask
         /\ Contents(n) = {e \in Contents(t) : e.key # k}
         /\ n.size = IF Matches(t, k) = {} THEN t.size ELSE t.size - 1
         /\ \A i \in 0..t.mask : n.slots[i] \subseteq t.slots[i]
<1> DEFINE n == HTDel(t, k)
<1>1. t.size \in Nat /\ t.size = Cardinality(Contents(t)) /\ IsFiniteSet(Contents(t))
  BY DEF WF, IsTable, Counted
<1>2. CASE Matches(t, k) = {}
  <2>1. n = t /\ Contents(t) = {e \in Contents(t) : e.key # k}
    BY <1>2, MatchesInContents DEF HTDel
  <2> QED
    BY <1>2, <2>1
<1>3. CASE Matches(t, k) # {}
  <2>1. PICK old \in Contents(t) : old.key = k /\ Matches(t, k) = {old}
    BY <1>3, MatchesInContents
  <2>2. Contents(t) # {}
    BY <2>1
  <2>3. t.size - 1 \in Nat
    BY <1>1, <2>2, FS_EmptySet
  <2>4. n = Rewrite(t, k, {}, t.size - 1)
    <3>1. (CHOOSE e \in Matches(t, k) : TRUE) = old
      BY <2>1
    <3> QED
      BY <1>3, <2>1, <3>1 DEF HTDel, Rewrite
  <2>5. /\ IsTable(n) /\ n.mask = t.mask /\ n.size = t.size - 1
        /\ WellPlaced(n) /\ OneEntryPerKey(n)
        /\ Contents(n) = {e \in Contents(t) : e.key # k}
        /\ \A i \in 0..t.mask : n.slots[i] \subseteq t.slots[i]
    BY <2>3, <2>4, RewriteContents
  <2>6. Contents(n) = Contents(t) \ {old}
    BY <2>1, <2>5 DEF WF, OneEntryPerKey
  <2>7. Counted(n)
    BY <1>1, <2>1, <2>5, <2>6, FS_RemoveElement DEF Counted
  <2> QED
    BY <1>3, <2>5, <2>7 DEF WF
<1> QED
  BY <1>2, <1>3

-----------------------------------------------------------------------------
(* One batch of a migration                                                *)

LEMMA MoveOutIs ==
  ASSUME NEW o, WF(o), NEW M \in SUBSET Contents(o)
  PROVE  LET p == MoveOut(o, M) IN
         /\ WF(p)
         /\ p.mask = o.mask
         /\ p.size = o.size - Cardinality(M)
         /\ Contents(p) = Contents(o) \ M
         /\ \A i \in 0..o.mask : p.slots[i] = o.slots[i] \ M
<1> DEFINE p == MoveOut(o, M)
<1>1. /\ o.size \in Nat /\ o.size = Cardinality(Contents(o)) /\ IsFiniteSet(Contents(o))
  BY DEF WF, IsTable, Counted
<1>2. /\ IsFiniteSet(Contents(o) \ M)
      /\ Cardinality(Contents(o) \ M) = Cardinality(Contents(o)) - Cardinality(M)
  <2>1. Contents(o) \cap M = M
    OBVIOUS
  <2>2. /\ IsFiniteSet(Contents(o) \ M)
        /\ Cardinality(Contents(o) \ M)
             = Cardinality(Contents(o)) - Cardinality(Contents(o) \cap M)
    BY <1>1, FS_Difference, Zenon
  <2> QED
    BY <2>1, <2>2
<1>3. o.size - Cardinality(M) \in Nat
  BY <1>1, <1>2, FS_CardinalityType
<1>4. /\ p.mask = o.mask /\ p.size = o.size - Cardinality(M)
      /\ \A i \in 0..o.mask : p.slots[i] = o.slots[i] \ M
  BY DEF MoveOut, WF, IsTable
<1>5. IsTable(p)
  BY <1>3 DEF MoveOut, WF, IsTable
<1>6. Contents(p) = Contents(o) \ M
  <2>1. \A e : e \in Contents(p) <=> \E i \in 0..o.mask : e \in o.slots[i] \ M
    BY <1>4, InContents DEF Contents
  <2>2. \A e : e \in Contents(o) <=> \E i \in 0..o.mask : e \in o.slots[i]
    BY InContents DEF Contents
  <2> QED
    BY <2>1, <2>2
<1>7. WellPlaced(p)
  BY <1>4 DEF WF, WellPlaced, SlotOf, Capacity
<1>8. OneEntryPerKey(p)
  BY <1>6 DEF WF, OneEntryPerKey
<1>9. Counted(p)
  BY <1>1, <1>2, <1>4, <1>6 DEF Counted
<1> QED
  BY <1>4, <1>5, <1>6, <1>7, <1>8, <1>9 DEF WF

LEMMA MoveInIs ==
  ASSUME NEW n, WF(n), n.mask \in Nat, NEW M \in SUBSET Entry, IsFiniteSet(M),
         \A e, f \in M : e.key = f.key => e = f,
         \A e \in M, f \in Contents(n) : e.key # f.key
  PROVE  LET p == MoveIn(n, M) IN
         /\ WF(p)
         /\ p.mask = n.mask
         /\ p.size = n.size + Cardinality(M)
         /\ Contents(p) = Contents(n) \cup M
<1> DEFINE p == MoveIn(n, M)
<1>1. /\ n.size \in Nat /\ n.size = Cardinality(Contents(n)) /\ IsFiniteSet(Contents(n))
  BY DEF WF, IsTable, Counted
<1>2. Cardinality(M) \in Nat
  BY FS_CardinalityType
<1>3. /\ IsFiniteSet(Contents(n) \cup M)
      /\ Cardinality(Contents(n) \cup M) = Cardinality(Contents(n)) + Cardinality(M)
  <2>1. Contents(n) \cap M = {}
    OBVIOUS
  <2>2. Cardinality(Contents(n) \cap M) = 0
    BY <2>1, FS_EmptySet
  <2>3. /\ IsFiniteSet(Contents(n) \cup M)
        /\ Cardinality(Contents(n) \cup M)
             = Cardinality(Contents(n)) + Cardinality(M) - Cardinality(Contents(n) \cap M)
    BY <1>1, FS_Union, Zenon
  <2>4. Cardinality(Contents(n)) \in Nat
    BY <1>1
  <2> QED
    BY <1>2, <2>2, <2>3, <2>4
<1>4. /\ p.mask = n.mask /\ p.size = n.size + Cardinality(M)
      /\ \A i \in 0..n.mask :
           p.slots[i] = n.slots[i] \cup {e \in M : SlotOf(n, e.key) = i}
  BY DEF MoveIn, WF, IsTable
<1>5. IsTable(p)
  <2> DEFINE chains == [i \in 0..n.mask |-> n.slots[i] \cup {e \in M : SlotOf(n, e.key) = i}]
  <2>1. n \in [mask : Nat \cup {-1}, size : Nat, slots : [0..n.mask -> SUBSET Entry]]
    BY DEF WF, IsTable
  <2>2. chains \in [0..n.mask -> SUBSET Entry]
    BY <2>1
  <2>3. p = [n EXCEPT !.slots = chains, !.size = n.size + Cardinality(M)]
    BY <2>1 DEF MoveIn
  <2>4. p = [mask |-> n.mask, size |-> n.size + Cardinality(M), slots |-> chains]
    <3> HIDE DEF chains, p
    <3> QED
      BY <2>1, <2>3
  <2>5. n.size + Cardinality(M) \in Nat
    BY <1>1, <1>2
  <2> HIDE DEF chains, p
  <2> QED
    BY <2>1, <2>2, <2>4, <2>5 DEF IsTable
<1>6. \A e \in M : SlotOf(n, e.key) \in 0..n.mask
  BY SlotInTable DEF WF, Entry
<1>7. Contents(p) = Contents(n) \cup M
  <2>1. \A e : e \in Contents(p) <=> \E i \in 0..n.mask :
                   e \in n.slots[i] \/ (e \in M /\ SlotOf(n, e.key) = i)
    BY <1>4, InContents DEF Contents
  <2>2. \A e : e \in Contents(n) <=> \E i \in 0..n.mask : e \in n.slots[i]
    BY InContents DEF Contents
  <2> QED
    BY <1>6, <2>1, <2>2
<1>8. WellPlaced(p)
  BY <1>4 DEF WF, WellPlaced, SlotOf, Capacity
<1>9. OneEntryPerKey(p)
  BY <1>7 DEF WF, OneEntryPerKey
<1>10. Counted(p)
  BY <1>1, <1>3, <1>4, <1>7 DEF Counted
<1> QED
  BY <1>4, <1>5, <1>7, <1>8, <1>9, <1>10 DEF WF

\* The slots in front of pos are empty: the scan has done its work so far.
ScannedUpTo(o, pos) == \A i \in 0..o.mask : i < pos => o.slots[i] = {}

LEMMA BatchIs ==
  ASSUME NEW o, WF(o), NEW pos \in Nat, ScannedUpTo(o, pos),
         NEW M \in SUBSET ChainsFrom(o, pos), IsBatch(o, pos, M)
  PROVE  /\ M \subseteq Contents(o)
         /\ IsFiniteSet(M)
         /\ Cardinality(M) = Least(WorkSize, o.size)
         /\ Cardinality(M) = Wanted(o)
<1>1. o.mask \in Int
  BY DEF WF, IsTable
<1>2. Contents(o) = ChainsFrom(o, pos)
  <2>1. \A e : e \in Contents(o) <=> \E i \in 0..o.mask : e \in o.slots[i]
    BY InContents DEF Contents
  <2>2. \A e : e \in ChainsFrom(o, pos) <=> \E i \in pos..o.mask : e \in o.slots[i]
    BY InContents
  <2>3. \A i \in 0..o.mask : i \in pos..o.mask \/ o.slots[i] = {}
    BY <1>1 DEF ScannedUpTo
  <2>4. \A i \in pos..o.mask : i \in 0..o.mask
    BY <1>1
  <2> QED
    BY <2>1, <2>2, <2>3, <2>4
<1>3. /\ o.size \in Nat /\ o.size = Cardinality(Contents(o)) /\ IsFiniteSet(Contents(o))
  BY DEF WF, IsTable, Counted
<1>4. IsFiniteSet(M)
  BY <1>2, <1>3, FS_Subset
<1>5. Cardinality(M) = Least(Wanted(o), o.size)
  BY <1>2, <1>3 DEF IsBatch
<1>6. Least(Wanted(o), o.size) = Wanted(o)
  BY <1>3, WorkAssumption DEF Wanted, Least
<1> QED
  BY <1>2, <1>4, <1>5, <1>6 DEF Wanted

LEMMA ScanPosIs ==
  ASSUME NEW o, IsTable(o), NEW pos \in Nat,
         NEW M \in SUBSET ChainsFrom(o, pos), M # {},
         IsBatch(o, pos, M), Cardinality(M) = Wanted(o), Wanted(o) \in Nat
  PROVE  /\ ScanPos(o, pos, M) \in pos..o.mask
         /\ \A i \in pos..o.mask : i < ScanPos(o, pos, M) => o.slots[i] \subseteq M
<1> DEFINE S == {i \in pos..o.mask : o.slots[i] \cap M # {}}
           Last(i) == /\ o.slots[i] \cap M # {}
                      /\ \A j \in pos..o.mask : o.slots[j] \cap M # {} => j <= i
<1>1. PICK e \in M : \E i \in pos..o.mask : e \in o.slots[i]
  BY InContents
<1>2. S # {}
  BY <1>1
<1>3. o.mask \in Nat /\ S \in SUBSET (0..o.mask)
  BY <1>1 DEF IsTable
<1>4. \E i \in S : \A j \in S : j <= i
  BY <1>2, <1>3, LargestExists
<1>5. \E i \in pos..o.mask : Last(i)
  BY <1>4
<1>6. ScanPos(o, pos, M) = CHOOSE i \in pos..o.mask : Last(i)
  <2>1. ~ (Cardinality(M) < Wanted(o))
    OBVIOUS
  <2> QED
    BY <2>1, Zenon DEF ScanPos
<1>7. ScanPos(o, pos, M) \in pos..o.mask /\ Last(ScanPos(o, pos, M))
  BY <1>5, <1>6
<1>8. \A i \in pos..o.mask : i < ScanPos(o, pos, M) => o.slots[i] \subseteq M
  BY <1>7 DEF IsBatch
<1> QED
  BY <1>7, <1>8

-----------------------------------------------------------------------------
(* The inductive invariant                                                 *)

Disjoint(n, o) == \A e \in Contents(n), f \in Contents(o) : e.key # f.key

Good(n, o, pos) ==
  /\ WF(n) /\ n.mask \in Nat
  /\ WF(o)
  /\ pos \in Nat
  /\ Disjoint(n, o)
  /\ ScannedUpTo(o, pos)
  /\ o # NoTable => o.size > 0 /\ pos < Capacity(o)
  /\ n.size + 2 * o.size <= MaxLoad * Capacity(n)

\* The conjunction of the invariants, which is inductive as it stands; Good
\* says the same of any two tables and a position, and is what the lemmas use.
IInv ==
  /\ TypeOK /\ Reachable /\ UniqueKeys /\ SizesExact
  /\ NothingStranded /\ MigrationBudget

LEMMA IInvIsGood ==
  /\ IInv <=> Good(newer, older, migratePos)
  /\ IInv' <=> Good(newer', older', migratePos')
BY DEF IInv, Good, WF, Disjoint, ScannedUpTo, TypeOK, Reachable, UniqueKeys,
       SizesExact, NothingStranded, MigrationBudget, IsRehashing

LEMMA CapacityPositive ==
  ASSUME NEW n, NEW o, NEW pos, Good(n, o, pos)
  PROVE  /\ Capacity(n) \in Nat \ {0}
         /\ n.size \in Nat /\ o.size \in Nat
         /\ MaxLoad * Capacity(n) \in Nat
         /\ o # NoTable => o.mask \in Nat
<1>1. n.size \in Nat /\ o.size \in Nat /\ o.mask \in Int /\ Capacity(n) \in Nat \ {0}
  BY DEF Good, WF, IsTable, Capacity
<1>2. MaxLoad * Capacity(n) \in Nat
  BY <1>1, MaxLoadAssumption
<1>3. o # NoTable => o.mask \in Nat
  BY <1>1 DEF Good, Capacity
<1> QED
  BY <1>1, <1>2, <1>3

\* tryRehashing, on tables in which the call has already inserted or deleted:
\* it re-establishes the invariant and keeps every entry.
LEMMA TryRehashingIs ==
  ASSUME NEW n, NEW o, NEW pos \in Nat,
         WF(n), n.mask \in Nat, WF(o), Disjoint(n, o), ScannedUpTo(o, pos),
         n.size + 2 * o.size - Least(WorkSize, o.size) <= MaxLoad * Capacity(n),
         TryRehashing(n, o, pos)
  PROVE  /\ Good(newer', older', migratePos')
         /\ Contents(newer') \cup Contents(older') = Contents(n) \cup Contents(o)
         /\ older' # NoTable =>
              /\ Contents(older') \subseteq Contents(o)
              /\ older'.size <= o.size - WorkSize
              /\ pos <= migratePos'
<1>1. PICK M \in SUBSET ChainsFrom(o, pos) :
        /\ IsBatch(o, pos, M)
        /\ newer' = MoveIn(n, M)
        /\ IF MoveOut(o, M).size = 0
           THEN older' = NoTable /\ migratePos' = 0
           ELSE older' = MoveOut(o, M) /\ migratePos' = ScanPos(o, pos, M)
  BY DEF TryRehashing
<1>2. /\ M \subseteq Contents(o) /\ IsFiniteSet(M)
      /\ Cardinality(M) = Least(WorkSize, o.size) /\ Cardinality(M) = Wanted(o)
  BY <1>1, BatchIs
<1>3. n.size \in Nat /\ o.size \in Nat /\ Cardinality(M) \in Nat
  BY <1>2, FS_CardinalityType DEF WF, IsTable
<1> DEFINE q == MoveOut(o, M)
<1>4. /\ WF(q) /\ q.mask = o.mask /\ q.size = o.size - Cardinality(M)
      /\ Contents(q) = Contents(o) \ M
      /\ \A i \in 0..o.mask : q.slots[i] = o.slots[i] \ M
  BY <1>2, MoveOutIs
<1>5. M \in SUBSET Entry
  BY <1>2, ContentsAreEntries DEF WF
<1>6. /\ WF(newer') /\ newer'.mask = n.mask /\ newer'.size = n.size + Cardinality(M)
      /\ Contents(newer') = Contents(n) \cup M
  <2>1. \A e, f \in M : e.key = f.key => e = f
    BY <1>2 DEF WF, OneEntryPerKey
  <2>2. \A e \in M, f \in Contents(n) : e.key # f.key
    BY <1>2 DEF Disjoint
  <2> QED
    BY <1>1, <1>2, <1>5, <2>1, <2>2, MoveInIs
<1>7. Capacity(newer') = Capacity(n) /\ Capacity(q) = Capacity(o)
  BY <1>4, <1>6 DEF Capacity
<1>8. MaxLoad * Capacity(n) \in Int
  BY MaxLoadAssumption DEF Capacity
<1> HIDE DEF q
<1>9. CASE q.size = 0
  <2>1. older' = NoTable /\ migratePos' = 0
    BY <1>1, <1>9 DEF q
  <2>2. Contents(q) = {}
    BY <1>4, <1>9, FS_EmptySet DEF WF, Counted
  <2>3. M = Contents(o)
    BY <1>2, <1>4, <2>2
  <2>4. newer'.size <= MaxLoad * Capacity(newer')
    <3>1. o.size = Cardinality(M)
      BY <1>3, <1>4, <1>9
    <3> QED
      BY <1>2, <1>3, <1>6, <1>7, <1>8, <3>1
  <2>5. ScannedUpTo(NoTable, 0)
    BY NoTableWF DEF ScannedUpTo
  <2>6. Disjoint(newer', NoTable)
    BY NoTableWF DEF Disjoint
  <2>7. newer'.size + 2 * NoTable.size <= MaxLoad * Capacity(newer')
    BY <1>3, <1>6, <2>4, NoTableWF
  <2>8. Good(newer', older', migratePos')
    BY <1>6, <2>1, <2>5, <2>6, <2>7, NoTableWF DEF Good
  <2> QED
    BY <1>6, <2>1, <2>3, <2>8, NoTableWF
<1>10. CASE q.size # 0
  <2>1. older' = q /\ migratePos' = ScanPos(o, pos, M)
    BY <1>1, <1>10 DEF q
  <2>2. q.size > 0 /\ q # NoTable
    <3>1. q.size \in Nat
      BY <1>4 DEF WF, IsTable
    <3> QED
      BY <1>10, <3>1, NoTableWF
  <2>3. Cardinality(M) = WorkSize
    BY <1>2, <1>3, <1>4, <2>2, WorkAssumption DEF Least
  <2>4. M # {}
    BY <2>3, FS_EmptySet, WorkAssumption
  <2>5. /\ migratePos' \in pos..o.mask
        /\ \A i \in pos..o.mask : i < migratePos' => o.slots[i] \subseteq M
    <3>1. IsTable(o) /\ Wanted(o) \in Nat
      BY <1>2, <1>3 DEF WF
    <3> QED
      BY <1>1, <1>2, <2>1, <2>4, <3>1, ScanPosIs
  <2>6. ScannedUpTo(q, migratePos')
    <3> SUFFICES ASSUME NEW i \in 0..o.mask, i < migratePos'
                 PROVE  q.slots[i] = {}
      BY <1>4 DEF ScannedUpTo
    <3>1. q.slots[i] = o.slots[i] \ M
      BY <1>4
    <3>2. CASE i < pos
      BY <3>1, <3>2 DEF ScannedUpTo
    <3>3. CASE i >= pos
      <4>1. i \in pos..o.mask
        BY <3>3
      <4> QED
        BY <2>5, <3>1, <4>1
    <3> QED
      BY <3>2, <3>3
  <2>7. migratePos' \in Nat /\ pos <= migratePos' /\ migratePos' < Capacity(q)
    <3>1. o.mask \in Int
      BY DEF WF, IsTable
    <3> QED
      BY <1>7, <2>5, <3>1 DEF Capacity
  <2>8. Disjoint(newer', q)
    BY <1>2, <1>4, <1>6 DEF Disjoint, WF, OneEntryPerKey
  <2>9. newer'.size + 2 * q.size <= MaxLoad * Capacity(newer')
    <3>1. newer'.size + 2 * q.size = n.size + 2 * o.size - Cardinality(M)
      BY <1>3, <1>4, <1>6
    <3> QED
      BY <1>2, <1>7, <3>1
  <2>10. Good(newer', older', migratePos')
    BY <1>4, <1>6, <2>1, <2>2, <2>6, <2>7, <2>8, <2>9 DEF Good
  <2>11. Contents(newer') \cup Contents(older') = Contents(n) \cup Contents(o)
    BY <1>2, <1>4, <1>6, <2>1
  <2>12. older'.size <= o.size - WorkSize
    BY <1>3, <1>4, <2>1, <2>3, WorkAssumption
  <2> QED
    BY <1>4, <2>1, <2>7, <2>10, <2>11, <2>12
<1> QED
  BY <1>9, <1>10

-----------------------------------------------------------------------------
(* The calls                                                               *)

Stored == Contents(newer) \cup Contents(older)

\* What a call with a migration in it does to older while older lives on.
Drains ==
  older # NoTable /\ older' # NoTable =>
    /\ Contents(older') \subseteq Contents(older)
    /\ migratePos' >= migratePos
    /\ older'.size <= older.size - WorkSize

LEMMA RehashingIs ==
  ASSUME IInv
  PROVE  /\ IsRehashing <=> older # NoTable
         /\ older # NoTable => older.mask \in Nat
         /\ ~ IsRehashing => Contents(older) = {}
<1>1. Good(newer, older, migratePos)
  BY IInvIsGood
<1>2. IsRehashing <=> older # NoTable
  BY <1>1 DEF IsRehashing, Good
<1>3. older # NoTable => older.mask \in Nat
  BY <1>1, CapacityPositive
<1>4. ~ IsRehashing => Contents(older) = {}
  BY <1>2, NoTableWF
<1> QED
  BY <1>2, <1>3, <1>4

LEMMA EmptyGood ==
  ASSUME newer = EmptyTable(InitialSlots), older = NoTable, migratePos = 0
  PROVE  IInv /\ Stored = {}
<1>1. InitialSlots \in Nat \ {0} /\ MaxLoad \in Nat
  BY SlotsAssumption, MaxLoadAssumption
<1>2. /\ WF(newer) /\ Contents(newer) = {} /\ newer.size = 0
      /\ newer.mask = InitialSlots - 1 /\ Capacity(newer) = InitialSlots
  BY <1>1, EmptyTableWF
<1>3. /\ WF(older) /\ Contents(older) = {} /\ older.size = 0 /\ older.mask = -1
  BY NoTableWF
<1>4. migratePos = 0 /\ older = NoTable
  OBVIOUS
<1>5. newer.size + 2 * older.size <= MaxLoad * Capacity(newer)
  BY <1>1, <1>2, <1>3
<1>6. Good(newer, older, migratePos)
  BY <1>1, <1>2, <1>3, <1>4, <1>5 DEF Good, Disjoint, ScannedUpTo
<1> QED
  BY <1>2, <1>3, <1>6, IInvIsGood DEF Stored

LEMMA InitInv == Init => IInv /\ Stored = {}
BY EmptyGood DEF Init

LEMMA LeastIs ==
  ASSUME NEW n \in Nat
  PROVE  /\ Least(WorkSize, n) \in Nat
         /\ n >= 1 => Least(WorkSize, n) >= 1
         /\ n >= 2 => Least(WorkSize, n) >= 2
BY WorkAssumption DEF Least

\* The three ways a call works on the tables, whatever it answers.
LEMMA MigrateStep ==
  ASSUME IInv, MigrateIfRehashing
  PROVE  IInv' /\ Stored' = Stored /\ Drains
<1>1. Good(newer, older, migratePos)
  BY IInvIsGood
<1>2. CASE ~ IsRehashing
  <2>1. UNCHANGED <<newer, older, migratePos>>
    BY <1>2 DEF MigrateIfRehashing, UnchangedTables
  <2>2. older = NoTable
    BY <1>2, RehashingIs
  <2> QED
    BY <1>1, <2>1, <2>2, IInvIsGood DEF Stored, Drains
<1>3. CASE IsRehashing
  <2>1. TryRehashing(newer, older, migratePos)
    BY <1>3 DEF MigrateIfRehashing
  <2>2. newer.size + 2 * older.size - Least(WorkSize, older.size) <= MaxLoad * Capacity(newer)
    BY <1>1, CapacityPositive, LeastIs DEF Good
  <2>3. /\ Good(newer', older', migratePos')
        /\ Contents(newer') \cup Contents(older') = Contents(newer) \cup Contents(older)
        /\ older' # NoTable =>
             /\ Contents(older') \subseteq Contents(older)
             /\ older'.size <= older.size - WorkSize
             /\ migratePos <= migratePos'
    BY <1>1, <2>1, <2>2, TryRehashingIs DEF Good
  <2>4. migratePos \in Nat /\ migratePos' \in Nat
    BY <1>1, <2>3 DEF Good
  <2> QED
    BY <2>3, <2>4, IInvIsGood DEF Stored, Drains
<1> QED
  BY <1>2, <1>3

LEMMA DropStep ==
  ASSUME IInv, NEW k \in Keys, DropEntry(k)
  PROVE  IInv' /\ Stored' = {e \in Stored : e.key # k} /\ Drains
<1>1. Good(newer, older, migratePos)
  BY IInvIsGood
<1>2. WF(newer) /\ newer.mask \in Nat /\ WF(older) /\ Disjoint(newer, older)
  BY <1>1 DEF Good
<1> DEFINE n == HTDel(newer, k)
           o == HTDel(older, k)
<1>3. /\ WF(n) /\ n.mask = newer.mask
      /\ Contents(n) = {e \in Contents(newer) : e.key # k}
      /\ n.size = IF Matches(newer, k) = {} THEN newer.size ELSE newer.size - 1
  BY <1>2, DelIs
<1>4. Matches(newer, k) = {e \in Contents(newer) : e.key = k}
  BY <1>2, MatchesInContents
<1>5. newer.size \in Nat /\ older.size \in Nat /\ MaxLoad * Capacity(newer) \in Nat
  BY <1>1, CapacityPositive
<1>6. Capacity(n) = Capacity(newer)
  BY <1>3 DEF Capacity
<1>7. newer.size + 2 * older.size <= MaxLoad * Capacity(newer)
  BY <1>1 DEF Good
<1> HIDE DEF n, o
<1>8. CASE ~ IsRehashing
  <2>1. older = NoTable /\ Contents(older) = {} /\ older.size = 0
    BY <1>8, RehashingIs, NoTableWF
  <2>2. newer' = n /\ UNCHANGED <<older, migratePos>>
    BY <1>8 DEF DropEntry, n
  <2>3. n.size <= MaxLoad * Capacity(n)
    BY <1>3, <1>5, <1>6, <1>7, <2>1
  <2>4. Disjoint(n, older)
    BY <2>1 DEF Disjoint
  <2>5. n.size + 2 * older.size <= MaxLoad * Capacity(n)
    BY <1>3, <1>5, <2>1, <2>3
  <2>6. Good(newer', older', migratePos')
    BY <1>1, <1>2, <1>3, <2>1, <2>2, <2>4, <2>5 DEF Good
  <2>7. Stored' = {e \in Stored : e.key # k}
    BY <1>3, <2>1, <2>2 DEF Stored
  <2> QED
    BY <2>1, <2>6, <2>7, IInvIsGood DEF Drains
<1>9. CASE IsRehashing /\ Matches(newer, k) # {}
  <2>1. TryRehashing(n, older, migratePos)
    BY <1>9 DEF DropEntry, n
  <2>2. Disjoint(n, older)
    BY <1>2, <1>3 DEF Disjoint
  <2>3. n.size + 2 * older.size - Least(WorkSize, older.size) <= MaxLoad * Capacity(n)
    BY <1>3, <1>5, <1>6, <1>7, LeastIs
  <2>4. /\ Good(newer', older', migratePos')
        /\ Contents(newer') \cup Contents(older') = Contents(n) \cup Contents(older)
        /\ older' # NoTable =>
             /\ Contents(older') \subseteq Contents(older)
             /\ older'.size <= older.size - WorkSize
             /\ migratePos <= migratePos'
    BY <1>1, <1>2, <1>3, <2>1, <2>2, <2>3, TryRehashingIs DEF Good
  <2>5. \A f \in Contents(older) : f.key # k
    BY <1>2, <1>4, <1>9 DEF Disjoint
  <2>6. Stored' = {e \in Stored : e.key # k}
    BY <1>3, <2>4, <2>5 DEF Stored
  <2>7. migratePos \in Nat /\ migratePos' \in Nat
    BY <1>1, <2>4 DEF Good
  <2> QED
    BY <2>4, <2>6, <2>7, IInvIsGood DEF Drains
<1>10. CASE IsRehashing /\ Matches(newer, k) = {}
  <2>1. TryRehashing(newer, o, migratePos)
    BY <1>10 DEF DropEntry, o
  <2>2. older.mask \in Nat
    BY <1>10, RehashingIs
  <2>3. /\ WF(o) /\ o.mask = older.mask
        /\ Contents(o) = {e \in Contents(older) : e.key # k}
        /\ o.size = IF Matches(older, k) = {} THEN older.size ELSE older.size - 1
        /\ \A i \in 0..older.mask : o.slots[i] \subseteq older.slots[i]
    BY <1>2, <2>2, DelIs DEF o
  <2>4. o.size \in Nat /\ o.size <= older.size
    <3>1. o.size \in Nat
      BY <2>3 DEF WF, IsTable
    <3> QED
      BY <1>5, <2>3, <3>1
  <2>5. Disjoint(newer, o)
    BY <1>2, <2>3 DEF Disjoint
  <2>6. ScannedUpTo(o, migratePos)
    BY <1>1, <2>3 DEF Good, ScannedUpTo
  <2>7. newer.size + 2 * o.size - Least(WorkSize, o.size) <= MaxLoad * Capacity(newer)
    BY <1>5, <1>7, <2>4, LeastIs
  <2>8. /\ Good(newer', older', migratePos')
        /\ Contents(newer') \cup Contents(older') = Contents(newer) \cup Contents(o)
        /\ older' # NoTable =>
             /\ Contents(older') \subseteq Contents(o)
             /\ older'.size <= o.size - WorkSize
             /\ migratePos <= migratePos'
    BY <1>1, <1>2, <2>1, <2>3, <2>5, <2>6, <2>7, TryRehashingIs DEF Good
  <2>9. \A f \in Contents(newer) : f.key # k
    BY <1>4, <1>10
  <2>10. Stored' = {e \in Stored : e.key # k}
    BY <2>3, <2>8, <2>9 DEF Stored
  <2>11. Drains
    <3>1. migratePos \in Nat /\ migratePos' \in Nat /\ older'.size \in Nat
      BY <1>1, <2>8, CapacityPositive DEF Good
    <3> QED
      BY <1>5, <2>3, <2>4, <2>8, <3>1, WorkAssumption DEF Drains
  <2> QED
    BY <2>8, <2>10, <2>11, IInvIsGood
<1> QED
  BY <1>8, <1>9, <1>10

LEMMA PutStep ==
  ASSUME IInv, NEW k \in Keys, NEW v \in Values, PutEntry(k, v)
  PROVE  /\ IInv'
         /\ Stored' = {e \in Stored : e.key # k} \cup {[key |-> k, val |-> v]}
         /\ Drains
<1>1. Good(newer, older, migratePos)
  BY IInvIsGood
<1>2. WF(newer) /\ newer.mask \in Nat /\ WF(older) /\ Disjoint(newer, older)
  BY <1>1 DEF Good
<1> DEFINE n == HTSet(newer, k, v)
           o == HTDel(older, k)
           fresh == [key |-> k, val |-> v]
<1>3. /\ WF(n) /\ n.mask = newer.mask
      /\ Contents(n) = {e \in Contents(newer) : e.key # k} \cup {fresh}
      /\ n.size <= newer.size + 1
  BY <1>2, SetIs
<1>4. /\ newer.size \in Nat /\ older.size \in Nat /\ n.size \in Nat
      /\ Capacity(newer) \in Nat \ {0} /\ MaxLoad * Capacity(newer) \in Nat
  BY <1>1, <1>3, CapacityPositive DEF WF, IsTable
<1>5. Capacity(n) = Capacity(newer)
  BY <1>3 DEF Capacity
<1>6. newer.size + 2 * older.size <= MaxLoad * Capacity(newer)
  BY <1>1 DEF Good
<1>7. fresh.key = k
  OBVIOUS
<1> HIDE DEF n, o, fresh
<1>8. CASE IsRehashing
  <2>1. TryRehashing(n, o, migratePos)
    BY <1>8 DEF PutEntry, n, o
  <2>2. older.mask \in Nat /\ older # NoTable
    BY <1>8, RehashingIs
  <2>3. /\ WF(o) /\ o.mask = older.mask
        /\ Contents(o) = {e \in Contents(older) : e.key # k}
        /\ o.size = IF Matches(older, k) = {} THEN older.size ELSE older.size - 1
        /\ \A i \in 0..older.mask : o.slots[i] \subseteq older.slots[i]
    BY <1>2, <2>2, DelIs DEF o
  <2>4. o.size \in Nat /\ o.size <= older.size
    <3>1. o.size \in Nat
      BY <2>3 DEF WF, IsTable
    <3> QED
      BY <1>4, <2>3, <3>1
  <2>5. Disjoint(n, o)
    BY <1>2, <1>3, <1>7, <2>3 DEF Disjoint
  <2>6. ScannedUpTo(o, migratePos)
    BY <1>1, <2>3 DEF Good, ScannedUpTo
  \* Either a key of older is replaced, or older still has entries to move.
  <2>7. n.size + 2 * o.size - Least(WorkSize, o.size) <= MaxLoad * Capacity(n)
    <3>1. CASE Matches(older, k) = {}
      <4>1. o.size = older.size /\ older.size >= 1
        BY <1>1, <1>4, <2>2, <2>3, <3>1 DEF Good
      <4> QED
        BY <1>3, <1>4, <1>5, <1>6, <4>1, LeastIs
    <3>2. CASE Matches(older, k) # {}
      <4>1. o.size = older.size - 1
        BY <2>3, <3>2
      <4> QED
        BY <1>3, <1>4, <1>5, <1>6, <2>4, <4>1, LeastIs
    <3> QED
      BY <3>1, <3>2
  <2>8. /\ Good(newer', older', migratePos')
        /\ Contents(newer') \cup Contents(older') = Contents(n) \cup Contents(o)
        /\ older' # NoTable =>
             /\ Contents(older') \subseteq Contents(o)
             /\ older'.size <= o.size - WorkSize
             /\ migratePos <= migratePos'
    BY <1>1, <1>2, <1>3, <2>1, <2>3, <2>5, <2>6, <2>7, TryRehashingIs DEF Good
  <2>9. Stored' = {e \in Stored : e.key # k} \cup {fresh}
    BY <1>3, <2>3, <2>8 DEF Stored
  <2>10. Drains
    <3>1. migratePos \in Nat /\ migratePos' \in Nat /\ older'.size \in Nat
      BY <1>1, <2>8, CapacityPositive DEF Good
    <3> QED
      BY <1>4, <2>3, <2>4, <2>8, <3>1, WorkAssumption DEF Drains
  <2> QED
    BY <2>8, <2>9, <2>10, IInvIsGood DEF fresh
<1>9. CASE ~ IsRehashing /\ n.size > MaxLoad * Capacity(n)
  <2>1. older = NoTable /\ Contents(older) = {} /\ older.size = 0
    BY <1>9, RehashingIs, NoTableWF
  <2> DEFINE double == EmptyTable(2 * Capacity(n))
  <2>2. TryRehashing(double, n, 0)
    BY <1>9 DEF PutEntry, TriggerRehashing, n
  <2>3. 2 * Capacity(n) \in Nat \ {0}
    BY <1>4, <1>5
  <2>4. /\ WF(double) /\ Contents(double) = {} /\ double.size = 0
        /\ double.mask = 2 * Capacity(n) - 1 /\ Capacity(double) = 2 * Capacity(n)
    BY <2>3, EmptyTableWF
  <2>5. double.mask \in Nat
    BY <2>3, <2>4
  <2> HIDE DEF double
  <2>6. Disjoint(double, n) /\ ScannedUpTo(n, 0)
    BY <2>4 DEF Disjoint, ScannedUpTo
  \* One entry too many, and at least two of them move at once.
  <2>7. double.size + 2 * n.size - Least(WorkSize, n.size) <= MaxLoad * Capacity(double)
    <3>1. MaxLoad * (2 * Capacity(n)) = 2 * (MaxLoad * Capacity(n))
      BY <1>4, <1>5, MaxLoadAssumption
    <3>2. MaxLoad * Capacity(n) >= 1
      BY <1>4, <1>5, MaxLoadAssumption
    <3>3. n.size = MaxLoad * Capacity(n) + 1
      BY <1>3, <1>4, <1>5, <1>6, <1>9, <2>1
    <3>4. Least(WorkSize, n.size) >= 2 /\ Least(WorkSize, n.size) \in Nat
      BY <1>4, <1>5, <3>2, <3>3, LeastIs
    <3> QED
      BY <1>4, <1>5, <2>4, <3>1, <3>3, <3>4
  <2>8. /\ Good(newer', older', migratePos')
        /\ Contents(newer') \cup Contents(older') = Contents(double) \cup Contents(n)
    BY <1>2, <1>3, <2>2, <2>4, <2>5, <2>6, <2>7, TryRehashingIs
  <2>9. Stored' = {e \in Stored : e.key # k} \cup {fresh}
    BY <1>3, <2>1, <2>4, <2>8 DEF Stored
  <2> QED
    BY <2>1, <2>8, <2>9, IInvIsGood DEF Drains, fresh
<1>10. CASE ~ IsRehashing /\ ~ (n.size > MaxLoad * Capacity(n))
  <2>1. older = NoTable /\ Contents(older) = {} /\ older.size = 0
    BY <1>10, RehashingIs, NoTableWF
  <2>2. newer' = n /\ UNCHANGED <<older, migratePos>>
    BY <1>10 DEF PutEntry, n
  <2>3. n.size + 2 * older.size <= MaxLoad * Capacity(n)
    BY <1>4, <1>5, <1>10, <2>1
  <2>4. Disjoint(n, older)
    BY <2>1 DEF Disjoint
  <2>5. Good(newer', older', migratePos')
    BY <1>1, <1>2, <1>3, <2>1, <2>2, <2>3, <2>4 DEF Good
  <2>6. Stored' = {e \in Stored : e.key # k} \cup {fresh}
    BY <1>3, <2>1, <2>2 DEF Stored
  <2> QED
    BY <2>1, <2>5, <2>6, IInvIsGood DEF Drains, fresh
<1> QED
  BY <1>8, <1>9, <1>10

LEMMA GetStep ==
  ASSUME IInv, NEW k \in Keys, Get(k)
  PROVE  IInv' /\ Stored' = Stored /\ Drains
BY MigrateStep DEF Get

LEMMA DelStep ==
  ASSUME IInv, NEW k \in Keys, Del(k)
  PROVE  IInv' /\ Stored' = {e \in Stored : e.key # k} /\ Drains
BY DropStep DEF Del

LEMMA SetStep ==
  ASSUME IInv, NEW k \in Keys, NEW v \in Values, Set(k, v)
  PROVE  /\ IInv'
         /\ Stored' = {e \in Stored : e.key # k} \cup {[key |-> k, val |-> v]}
         /\ Drains
BY PutStep DEF Set

LEMMA ClearStep ==
  ASSUME IInv, Clear
  PROVE  IInv' /\ Stored' = {} /\ Drains
<1>1. Capacity(newer) \in Nat \ {0}
  BY IInvIsGood, CapacityPositive
<1>2. newer' = EmptyTable(Capacity(newer)) /\ older' = NoTable /\ migratePos' = 0
  BY DEF Clear
<1>3. /\ WF(newer') /\ Contents(newer') = {} /\ newer'.size = 0
      /\ newer'.mask = Capacity(newer) - 1 /\ Capacity(newer') = Capacity(newer)
  BY <1>1, <1>2, EmptyTableWF
<1>4. /\ WF(older') /\ Contents(older') = {} /\ older'.size = 0 /\ older'.mask = -1
  BY <1>2, NoTableWF
<1>5. newer'.size + 2 * older'.size <= MaxLoad * Capacity(newer')
  BY <1>1, <1>3, <1>4, MaxLoadAssumption
<1>6. Good(newer', older', migratePos')
  BY <1>1, <1>2, <1>3, <1>4, <1>5 DEF Good, Disjoint, ScannedUpTo
<1> QED
  BY <1>2, <1>3, <1>4, <1>6, IInvIsGood DEF Stored, Drains

\* findEntry, keys and size change nothing; so does a step of somebody else.
LEMMA ReadStep ==
  ASSUME IInv, UnchangedTables
  PROVE  IInv' /\ Stored' = Stored
<1>1. newer' = newer /\ older' = older /\ migratePos' = migratePos
  BY DEF UnchangedTables
<1> QED
  BY <1>1, IInvIsGood DEF Stored

LEMMA InvStep == IInv /\ [Next]_vars => IInv'
<1> SUFFICES ASSUME IInv, [Next]_vars
             PROVE  IInv'
  OBVIOUS
<1>1. ASSUME NEW k \in Keys, Get(k)
      PROVE  IInv'
  BY <1>1, GetStep
<1>2. ASSUME NEW k \in Keys, Del(k)
      PROVE  IInv'
  BY <1>2, DelStep
<1>3. ASSUME NEW k \in Keys, FindEntry(k)
      PROVE  IInv'
  BY <1>3, ReadStep DEF FindEntry
<1>4. ASSUME NEW k \in Keys, NEW v \in Values, Set(k, v)
      PROVE  IInv'
  BY <1>4, SetStep
<1>5. CASE ListKeys
  BY <1>5, ReadStep DEF ListKeys
<1>6. CASE Size
  BY <1>6, ReadStep DEF Size
<1>7. CASE Clear
  BY <1>7, ClearStep
<1>8. CASE UNCHANGED vars
  BY <1>8, ReadStep DEF vars, UnchangedTables
<1> QED
  BY <1>1, <1>2, <1>3, <1>4, <1>5, <1>6, <1>7, <1>8 DEF Next

-----------------------------------------------------------------------------
(* Theorems                                                                *)

\* The tables keep their shape, and neither size counter wraps below zero.
THEOREM TypeCorrect == Spec => []TypeOK
<1>1. Init => IInv
  BY InitInv
<1>2. IInv /\ [Next]_vars => IInv'
  BY InvStep
<1>3. IInv => TypeOK
  BY DEF IInv
<1> QED
  BY <1>1, <1>2, <1>3, PTL DEF Spec

\* The whole inductive invariant: no call of get, set, del or clear, and no
\* migration however it interleaves with them, misplaces, duplicates, miscounts
\* or strands an entry.
THEOREM TablesConsistent ==
  Spec => [](Reachable /\ UniqueKeys /\ SizesExact /\ NothingStranded)
<1>1. Init => IInv
  BY InitInv
<1>2. IInv /\ [Next]_vars => IInv'
  BY InvStep
<1>3. IInv => Reachable /\ UniqueKeys /\ SizesExact /\ NothingStranded
  BY DEF IInv
<1> QED
  BY <1>1, <1>2, <1>3, PTL DEF Spec

\* What is in a table is where get and del look for it: an entry that a
\* migration has linked by the mask of the wrong table would be lost.
THEOREM EntriesReachable == Spec => []Reachable
BY TablesConsistent, PTL

\* A key is in one of the tables only, once: no update leaves an older entry
\* that a later move would bring back.
THEOREM EntriesUnique == Spec => []UniqueKeys
BY TablesConsistent, PTL

\* The counters are right, which decide when the older table is freed.
THEOREM CountersExact == Spec => []SizesExact
BY TablesConsistent, PTL

\* The load factor is respected after every call, although set() does not look
\* at it during a migration: MigrationBudget is what makes that safe.
THEOREM LoadBounded == Spec => [](LoadBound /\ MigrationBudget)
<1>1. Init => IInv
  BY InitInv
<1>2. IInv /\ [Next]_vars => IInv'
  BY InvStep
<1>3. IInv => LoadBound /\ MigrationBudget
  <2> SUFFICES ASSUME IInv
               PROVE  LoadBound
    BY DEF IInv
  <2>1. newer.size \in Nat /\ older.size \in Nat /\ MaxLoad * Capacity(newer) \in Nat
    BY IInvIsGood, CapacityPositive
  <2> QED
    BY <2>1 DEF IInv, MigrationBudget, LoadBound
<1> QED
  BY <1>1, <1>2, <1>3, PTL DEF Spec

\* The room a migration needs is there from its first step to its last.
THEOREM BudgetKept == Spec => []MigrationBudget
BY LoadBounded, PTL

\* Every get, set and del during a migration takes WorkSize entries out of the
\* older table, or the last of them; no call puts one back or moves the scan
\* backwards, and no second migration starts before the first is over.
THEOREM MigrationAdvances == Spec => CallsDrainOlder
<1> DEFINE A == older # NoTable /\ older' # NoTable =>
                  /\ Contents(older') \subseteq Contents(older)
                  /\ migratePos' >= migratePos
                  /\ reply'[1] \in {"get", "set", "del"} => older'.size <= older.size - WorkSize
<1>1. Init => IInv
  BY InitInv
<1>2. IInv /\ [Next]_vars => IInv'
  BY InvStep
<1>3. IInv /\ [Next]_vars => [A]_vars
  <2> SUFFICES ASSUME IInv, Next
               PROVE  A
    OBVIOUS
  <2>1. Drains => A
    BY DEF Drains
  <2>2. ASSUME UnchangedTables, reply'[1] \notin {"get", "set", "del"}
        PROVE  A
    <3>1. migratePos \in Nat
      BY DEF IInv, TypeOK
    <3> QED
      BY <2>2, <3>1 DEF UnchangedTables
  <2>3. ASSUME NEW k \in Keys, Get(k)
        PROVE  A
    BY <2>1, <2>3, GetStep
  <2>4. ASSUME NEW k \in Keys, Del(k)
        PROVE  A
    BY <2>1, <2>4, DelStep
  <2>5. ASSUME NEW k \in Keys, FindEntry(k)
        PROVE  A
    BY <2>2, <2>5 DEF FindEntry, Answer
  <2>6. ASSUME NEW k \in Keys, NEW v \in Values, Set(k, v)
        PROVE  A
    BY <2>1, <2>6, SetStep
  <2>7. CASE ListKeys
    BY <2>2, <2>7 DEF ListKeys, Answer
  <2>8. CASE Size
    BY <2>2, <2>8 DEF Size, Answer
  <2>9. CASE Clear
    BY <2>1, <2>9, ClearStep
  <2> QED
    BY <2>3, <2>4, <2>5, <2>6, <2>7, <2>8, <2>9 DEF Next
<1> QED
  BY <1>1, <1>2, <1>3, PTL DEF Spec, CallsDrainOlder

-----------------------------------------------------------------------------
(* Refinement                                                              *)

StoredVal(S, k, x) ==
  /\ \A e \in S : e.key = k => x = e.val /\ x # Null
  /\ (\A e \in S : e.key # k) => x = Null

\* What a get returns, as a function of the entries in the two tables.
LEMMA LookupIs ==
  ASSUME IInv, NEW k \in Keys
  PROVE  StoredVal(Stored, k, Lookup(k))
<1>1. Good(newer, older, migratePos)
  BY IInvIsGood
<1>2. /\ \A e \in Contents(newer) : e.key = k => HTGet(newer, k) = e.val /\ HTGet(newer, k) # Null
      /\ (\A e \in Contents(newer) : e.key # k) => HTGet(newer, k) = Null
  BY <1>1, GetIs DEF Good
<1>3. CASE ~ IsRehashing
  <2>1. Stored = Contents(newer)
    BY <1>3, RehashingIs DEF Stored
  <2>2. Lookup(k) = HTGet(newer, k)
    BY <1>3 DEF Lookup
  <2> QED
    BY <1>2, <2>1, <2>2 DEF StoredVal
<1>4. CASE IsRehashing
  <2>1. older.mask \in Nat
    BY <1>4, RehashingIs
  <2>2. /\ \A e \in Contents(older) : e.key = k => HTGet(older, k) = e.val /\ HTGet(older, k) # Null
        /\ (\A e \in Contents(older) : e.key # k) => HTGet(older, k) = Null
    BY <1>1, <2>1, GetIs DEF Good
  <2>3. Lookup(k) = IF HTGet(newer, k) # Null THEN HTGet(newer, k) ELSE HTGet(older, k)
    BY <1>4 DEF Lookup
  <2>4. \A e \in Contents(newer), f \in Contents(older) : e.key # f.key
    BY <1>1 DEF Good, Disjoint
  <2> QED
    BY <1>2, <2>2, <2>3, <2>4 DEF StoredVal, Stored
<1> QED
  BY <1>3, <1>4

ViewAgrees ==
  /\ View \in [Keys -> Values \cup {Null}]
  /\ \A k \in Keys : View[k] = Lookup(k)
  /\ \A k \in Keys : StoredVal(Stored, k, View[k])

LEMMA ViewIs == IInv => ViewAgrees
<1> SUFFICES ASSUME IInv
             PROVE  ViewAgrees
  OBVIOUS
<1>1. \A k \in Keys : View[k] = Lookup(k)
  BY DEF View
<1>2. \A k \in Keys : StoredVal(Stored, k, View[k])
  BY <1>1, LookupIs
<1>3. Stored \subseteq Entry
  BY ContentsAreEntries DEF Stored, IInv, TypeOK
<1>4. \A k \in Keys : View[k] \in Values \cup {Null}
  BY <1>2, <1>3 DEF StoredVal, Entry
<1>5. View = [k \in Keys |-> View[k]]
  BY DEF View
<1> QED
  BY <1>1, <1>2, <1>4, <1>5 DEF ViewAgrees

LEMMA ViewIsPrimed ==
  IInv' => /\ View' \in [Keys -> Values \cup {Null}]
           /\ \A k \in Keys : StoredVal(Stored', k, View'[k])
<1>1. IInv' => ViewAgrees'
  BY ViewIs, PTL
<1> QED
  BY <1>1 DEF ViewAgrees

\* The three ways a call can change the entries, seen through View.
LEMMA ViewSame ==
  ASSUME IInv, IInv', Stored' = Stored
  PROVE  View' = View
<1>1. ViewAgrees
  BY ViewIs
<1>2. \A k \in Keys : View'[k] = View[k]
  BY <1>1, ViewIsPrimed DEF ViewAgrees, StoredVal
<1> QED
  BY <1>1, <1>2, ViewIsPrimed DEF ViewAgrees

LEMMA ViewDel ==
  ASSUME IInv, IInv', NEW k \in Keys, Stored' = {e \in Stored : e.key # k}
  PROVE  View' = [View EXCEPT ![k] = Null]
<1>1. ViewAgrees
  BY ViewIs
<1>2. \A j \in Keys : View'[j] = IF j = k THEN Null ELSE View[j]
  BY <1>1, ViewIsPrimed DEF ViewAgrees, StoredVal
<1> QED
  BY <1>1, <1>2, ViewIsPrimed DEF ViewAgrees

LEMMA ViewSet ==
  ASSUME IInv, IInv', NEW k \in Keys, NEW v \in Values,
         Stored' = {e \in Stored : e.key # k} \cup {[key |-> k, val |-> v]}
  PROVE  View' = [View EXCEPT ![k] = v]
<1>1. ViewAgrees
  BY ViewIs
<1>2. \A j \in Keys : View'[j] = IF j = k THEN v ELSE View[j]
  <2> SUFFICES ASSUME NEW j \in Keys
               PROVE  View'[j] = IF j = k THEN v ELSE View[j]
    OBVIOUS
  <2> DEFINE fresh == [key |-> k, val |-> v]
  <2>1. StoredVal(Stored, j, View[j]) /\ StoredVal(Stored', j, View'[j])
    BY <1>1, ViewIsPrimed DEF ViewAgrees
  <2>2. fresh.key = k /\ fresh.val = v /\ fresh \in Stored'
    OBVIOUS
  <2>3. Stored' = {e \in Stored : e.key # k} \cup {fresh}
    OBVIOUS
  <2> HIDE DEF fresh
  <2>4. CASE j = k
    BY <2>1, <2>2, <2>4 DEF StoredVal
  <2>5. CASE j # k
    BY <2>1, <2>2, <2>3, <2>5 DEF StoredVal
  <2> QED
    BY <2>4, <2>5
<1> QED
  BY <1>1, <1>2, ViewIsPrimed DEF ViewAgrees

\* What del and findEntry find out is whether View has a value for k.
LEMMA FoundIs ==
  ASSUME IInv, NEW k \in Keys
  PROVE  Found(k) <=> View[k] # Null
<1>1. Good(newer, older, migratePos) /\ ViewAgrees
  BY IInvIsGood, ViewIs
<1>2. Matches(newer, k) = {e \in Contents(newer) : e.key = k}
  BY <1>1, MatchesInContents DEF Good
<1>3. View[k] # Null <=> \E e \in Stored : e.key = k
  BY <1>1 DEF ViewAgrees, StoredVal
<1>4. CASE ~ IsRehashing
  BY <1>2, <1>3, <1>4, RehashingIs DEF Found, Stored
<1>5. CASE IsRehashing
  <2>1. Matches(older, k) = {e \in Contents(older) : e.key = k}
    BY <1>1, <1>5, RehashingIs, MatchesInContents DEF Good
  <2> QED
    BY <1>2, <1>3, <1>5, <2>1 DEF Found, Stored
<1> QED
  BY <1>4, <1>5

\* keys() lists a key once if View has a value for it, and otherwise not.
LEMMA ListedOnce ==
  ASSUME IInv, NEW k \in Keys
  PROVE  Occurrences(newer, k) + (IF IsRehashing THEN Occurrences(older, k) ELSE 0)
           = IF View[k] # Null THEN 1 ELSE 0
<1> DEFINE N == {e \in Contents(newer) : e.key = k}
           O == {e \in Contents(older) : e.key = k}
<1>1. Good(newer, older, migratePos) /\ ViewAgrees
  BY IInvIsGood, ViewIs
<1>2. /\ \A e, f \in N : e = f
      /\ \A e, f \in O : e = f
      /\ N = {} \/ O = {}
  BY <1>1 DEF Good, WF, OneEntryPerKey, Disjoint
<1>3. View[k] # Null <=> N # {} \/ O # {}
  BY <1>1 DEF ViewAgrees, StoredVal, Stored
<1>4. ~ IsRehashing => O = {}
  BY RehashingIs
<1>5. ASSUME NEW S, \A e, f \in S : e = f
      PROVE  Cardinality(S) = IF S = {} THEN 0 ELSE 1
  <2>1. CASE S = {}
    BY <2>1, FS_EmptySet
  <2>2. CASE S # {}
    <3>1. PICK e : S = {e}
      BY <1>5, <2>2
    <3> QED
      BY <2>2, <3>1, FS_Singleton
  <2> QED
    BY <2>1, <2>2
<1>6. /\ Occurrences(newer, k) = IF N = {} THEN 0 ELSE 1
      /\ Occurrences(older, k) = IF O = {} THEN 0 ELSE 1
  BY <1>2, <1>5 DEF Occurrences
<1> HIDE DEF N, O
<1> QED
  BY <1>2, <1>3, <1>4, <1>6

\* The two counters add up to the number of keys that have a value.
LEMMA SizeIs ==
  ASSUME IInv
  PROVE  newer.size + (IF IsRehashing THEN older.size ELSE 0) = Cardinality(Store!Present)
<1> DEFINE P == {k \in Keys : View[k] # Null}
           f == [e \in Stored |-> e.key]
<1>1. Good(newer, older, migratePos) /\ ViewAgrees
  BY IInvIsGood, ViewIs
<1>2. /\ IsFiniteSet(Contents(newer)) /\ newer.size = Cardinality(Contents(newer))
      /\ IsFiniteSet(Contents(older)) /\ older.size = Cardinality(Contents(older))
      /\ newer.size \in Nat /\ older.size \in Nat
  BY <1>1 DEF Good, WF, Counted, IsTable
<1>3. Contents(newer) \cap Contents(older) = {}
  BY <1>1 DEF Good, Disjoint
<1>4. IsFiniteSet(Stored) /\ Cardinality(Stored) = newer.size + older.size
  <2>1. /\ IsFiniteSet(Contents(newer) \cup Contents(older))
        /\ Cardinality(Contents(newer) \cup Contents(older))
             = Cardinality(Contents(newer)) + Cardinality(Contents(older))
                 - Cardinality(Contents(newer) \cap Contents(older))
    BY <1>2, FS_Union, Zenon
  <2>2. Cardinality(Contents(newer) \cap Contents(older)) = 0
    BY <1>3, FS_EmptySet
  <2> QED
    BY <1>2, <2>1, <2>2 DEF Stored
<1>5. Stored \subseteq Entry
  BY ContentsAreEntries DEF Stored, IInv, TypeOK
<1>6. f \in Bijection(Stored, P)
  <2>1. \A e \in Stored : e.key \in P
    BY <1>1, <1>5 DEF ViewAgrees, StoredVal, Entry
  <2>2. \A e, g \in Stored : e.key = g.key => e = g
    BY <1>1 DEF Good, WF, OneEntryPerKey, Disjoint, Stored
  <2>3. \A k \in P : \E e \in Stored : e.key = k
    BY <1>1 DEF ViewAgrees, StoredVal
  <2>4. f \in [Stored -> P]
    BY <2>1
  <2>5. f \in Injection(Stored, P)
    BY <2>2, <2>4 DEF Injection, IsInjective
  <2>6. f \in Surjection(Stored, P)
    BY <2>3, <2>4 DEF Surjection
  <2> QED
    BY <2>5, <2>6 DEF Bijection
<1>7. Cardinality(P) = Cardinality(Stored)
  BY <1>4, <1>6, FS_Bijection DEF ExistsBijection
<1>8. Store!Present = P
  BY DEF Store!Present
<1>9. ~ IsRehashing => older.size = 0
  BY RehashingIs, NoTableWF
<1> QED
  BY <1>2, <1>4, <1>7, <1>8, <1>9

LEMMA RefineInit == Init => Store!Init
<1> SUFFICES ASSUME Init
             PROVE  Store!Init
  OBVIOUS
<1>1. IInv /\ Stored = {}
  BY InitInv
<1>2. ViewAgrees
  BY <1>1, ViewIs
<1>3. \A k \in Keys : View[k] = Null
  BY <1>1, <1>2 DEF ViewAgrees, StoredVal
<1>4. View = [k \in Keys |-> Null]
  BY <1>2, <1>3 DEF ViewAgrees
<1> QED
  BY <1>4 DEF Init, Store!Init

LEMMA RefineNext == IInv /\ IInv' /\ [Next]_vars => [Store!Next]_(Store!kvVars)
<1> SUFFICES ASSUME IInv, IInv', [Next]_vars
             PROVE  [Store!Next]_(Store!kvVars)
  OBVIOUS
<1>1. ASSUME NEW k \in Keys, Get(k)
      PROVE  Store!Get(k)
  <2>1. View' = View
    BY <1>1, GetStep, ViewSame
  <2>2. Lookup(k) = View[k]
    BY ViewIs DEF ViewAgrees
  <2> QED
    BY <1>1, <2>1, <2>2 DEF Get, Answer, Store!Get, Store!Answer
<1>2. ASSUME NEW k \in Keys, Del(k)
      PROVE  Store!Del(k)
  <2>1. View' = [View EXCEPT ![k] = Null]
    BY <1>2, DelStep, ViewDel
  <2>2. Found(k) = (View[k] # Null)
    BY FoundIs DEF Found
  <2> QED
    BY <1>2, <2>1, <2>2 DEF Del, Answer, Store!Del, Store!Answer
<1>3. ASSUME NEW k \in Keys, FindEntry(k)
      PROVE  Store!FindEntry(k)
  <2>1. View' = View
    BY <1>3, ReadStep, ViewSame DEF FindEntry
  <2>2. Found(k) = (View[k] # Null)
    BY FoundIs DEF Found
  <2> QED
    BY <1>3, <2>1, <2>2 DEF FindEntry, Answer, Store!FindEntry, Store!Answer
<1>4. ASSUME NEW k \in Keys, NEW v \in Values, Set(k, v)
      PROVE  Store!Set(k, v)
  <2>1. View' = [View EXCEPT ![k] = v]
    BY <1>4, SetStep, ViewSet
  <2> QED
    BY <1>4, <2>1 DEF Set, Answer, Store!Set, Store!Answer
<1>5. ASSUME ListKeys
      PROVE  Store!ListKeys
  <2>1. View' = View
    BY <1>5, ReadStep, ViewSame DEF ListKeys
  <2>2. \A k \in Keys :
          Occurrences(newer, k) + (IF IsRehashing THEN Occurrences(older, k) ELSE 0)
            = IF View[k] # Null THEN 1 ELSE 0
    BY ListedOnce
  <2>3. [k \in Keys |-> Occurrences(newer, k) + (IF IsRehashing THEN Occurrences(older, k) ELSE 0)]
          = [k \in Keys |-> IF View[k] # Null THEN 1 ELSE 0]
    BY <2>2
  <2> QED
    BY <1>5, <2>1, <2>3 DEF ListKeys, Answer, Store!ListKeys, Store!Answer
<1>6. ASSUME Size
      PROVE  Store!Size
  <2>1. View' = View
    BY <1>6, ReadStep, ViewSame DEF Size
  <2>2. Store!Cardinality(Store!Present) = Cardinality(Store!Present)
    BY DEF Store!Cardinality, Cardinality, Store!IsFiniteSet, IsFiniteSet
  <2> QED
    BY <1>6, <2>1, <2>2, SizeIs DEF Size, Answer, Store!Size, Store!Answer
<1>7. ASSUME Clear
      PROVE  Store!Clear
  <2>1. Stored' = {}
    BY <1>7, ClearStep
  <2>2. \A k \in Keys : View'[k] = Null
    BY <2>1, ViewIsPrimed DEF StoredVal
  <2>3. View' = [k \in Keys |-> Null]
    BY <2>2, ViewIsPrimed
  <2> QED
    BY <1>7, <2>3 DEF Clear, Answer, Store!Clear, Store!Answer
<1>8. CASE UNCHANGED vars
  <2>1. View' = View
    BY <1>8, ReadStep, ViewSame DEF vars, UnchangedTables
  <2> QED
    BY <1>8, <2>1 DEF vars, Store!kvVars
<1> QED
  BY <1>1, <1>2, <1>3, <1>4, <1>5, <1>6, <1>7, <1>8 DEF Next, Store!Next

\* The table with its incremental migration implements the plain mapping that
\* IDatabase promises, whatever the keys, the hash codes and the work per call.
THEOREM Refinement == Spec => ImplementsKVStore
<1>1. Init => IInv
  BY InitInv
<1>2. IInv /\ [Next]_vars => IInv'
  BY InvStep
<1>3. Init => Store!Init
  BY RefineInit
<1>4. IInv /\ IInv' /\ [Next]_vars => [Store!Next]_(Store!kvVars)
  BY RefineNext
<1> QED
  BY <1>1, <1>2, <1>3, <1>4, PTL DEF Spec, ImplementsKVStore, Store!Spec

=============================================================================
