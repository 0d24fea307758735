--------------------------- MODULE Session_proofs ---------------------------
(***************************************************************************)
(* Proofs about Session: what commands, and keys that expire, may do to     *)
(* the keys of the server; that requests and replies are read as they were *)
(* written; and that a client is served as Service says.  They hold for    *)
(* every client and every way in which its bytes arrive, for any strings   *)
(* and any sizes of messages.                                              *)
(***************************************************************************)
EXTENDS Session, Rounds, FiniteSetTheorems, SequenceTheorems, TLAPS

-----------------------------------------------------------------------------
(* The keys                                                                *)

IsKeys(keys) == keys = [value |-> keys.value, timed |-> keys.timed]

\* From one store to another, strings that stay are strings.
KeepsStrings(before, after) ==
  \A k \in DOMAIN before.value :
    Holds(before, k, "string") /\ Has(after, k) => Holds(after, k, "string")

\* The replies of the commands that change something.
ShortReplies == {Nil, Int64(0), Int64(1)}

\* What is shown of each outcome of a command.
Proper(before, outcome) ==
  /\ IsKeys(outcome.store)
  /\ KeepsStrings(before, outcome.store)
  /\ outcome.store # before => outcome.reply \in ShortReplies

LEMMA SameStore ==
  ASSUME NEW keys, IsKeys(keys), NEW reply
  PROVE  Proper(keys, Outcome(keys, reply))
BY DEF Proper, Outcome, KeepsStrings, Holds, Has

LEMMA ExceptionProper ==
  ASSUME NEW keys, IsKeys(keys)
  PROVE  Proper(keys, Exception(keys))
BY DEF Proper, Exception, KeepsStrings, Holds, Has

LEMMA AssignStore ==
  ASSUME NEW keys, IsKeys(keys), NEW k, NEW v
  PROVE  /\ IsKeys(Assign(keys, k, v))
         /\ Assign(keys, k, v).value = With(keys.value, k, v)
<1>1. Assign(keys, k, v) = [value |-> With(keys.value, k, v), timed |-> keys.timed]
  BY DEF Assign, IsKeys
<1> QED
  BY <1>1 DEF IsKeys

\* A sweep leaves some of the keys, and some of the timers.
LEMMA ExpiredIs ==
  ASSUME NEW keys, NEW after \in Expired(keys)
  PROVE  \E K, T : after = Left(keys, K, T) /\ T \subseteq keys.timed
<1>1. CASE Rewrites /\ keys.timed # {}
  <2>1. \E K \in SUBSET DOMAIN keys.value, T \in SUBSET keys.timed : after = Left(keys, K, T)
    BY <1>1 DEF Expired
  <2> QED
    BY <2>1
<1>2. CASE ~ (Rewrites /\ keys.timed # {})
  <2>1. \E K \in SUBSET keys.timed : after = Left(keys, K, keys.timed \ K)
    BY <1>2 DEF Expired
  <2>2. \A K : keys.timed \ K \subseteq keys.timed
    OBVIOUS
  <2> QED
    BY <2>1, <2>2
<1> QED
  BY <1>1, <1>2

LEMMA LeftStore ==
  ASSUME NEW keys, IsKeys(keys), NEW K, NEW T
  PROVE  IsKeys(Left(keys, K, T)) /\ KeepsStrings(keys, Left(keys, K, T))
<1>1. Left(keys, K, T) = [value |-> Without(keys.value, K), timed |-> T]
  BY DEF Left
<1>2. DOMAIN Without(keys.value, K) = DOMAIN keys.value \ K
  BY DEF Without
<1>3. \A k \in DOMAIN keys.value \ K : Without(keys.value, K)[k] = keys.value[k]
  BY DEF Without
<1> QED
  BY <1>1, <1>2, <1>3 DEF IsKeys, KeepsStrings, Holds, Has

\* A key that holds no string may get anything, one that does a string only.
LEMMA AssignKeepsStrings ==
  ASSUME NEW keys, IsKeys(keys), NEW k, NEW v,
         Holds(keys, k, "string") => v.type = "string"
  PROVE  KeepsStrings(keys, Assign(keys, k, v))
<1>1. Assign(keys, k, v).value = With(keys.value, k, v)
  BY AssignStore
<1>2. \A j \in DOMAIN keys.value :
        With(keys.value, k, v)[j] = IF j = k THEN v ELSE keys.value[j]
  BY DEF With
<1> QED
  BY <1>1, <1>2 DEF KeepsStrings, Holds, Has

-----------------------------------------------------------------------------
(* The commands                                                            *)

LEMMA SetProper ==
  ASSUME NEW keys, IsKeys(keys), NEW k, NEW t, NEW o \in Set(keys, k, t)
  PROVE  Proper(keys, o)
<1>1. o = Outcome(Assign(keys, k, StringValue(t)), Nil)
  BY DEF Set
<1>2. StringValue(t).type = "string"
  BY DEF StringValue
<1> QED
  BY <1>1, <1>2, AssignStore, AssignKeepsStrings DEF Proper, Outcome, ShortReplies

LEMMA DelProper ==
  ASSUME NEW keys, IsKeys(keys), NEW k, NEW o \in Del(keys, k)
  PROVE  Proper(keys, o)
<1>1. CASE o = Outcome(keys, Int64(0))
  BY <1>1, SameStore
<1>2. CASE \E T : o = Outcome(Left(keys, {k}, T), Int64(1))
  BY <1>2, LeftStore DEF Proper, Outcome, ShortReplies
<1> QED
  BY <1>1, <1>2 DEF Del

\* A sorted set for a key that does not hold a string.
LEMMA SetAssigned ==
  ASSUME NEW keys, IsKeys(keys), NEW k, NEW v, NEW n \in {0, 1}, ~ Holds(keys, k, "string")
  PROVE  Proper(keys, Outcome(Assign(keys, k, SetValue(v)), Int64(n)))
<1>1. IsKeys(Assign(keys, k, SetValue(v))) /\ KeepsStrings(keys, Assign(keys, k, SetValue(v)))
  BY AssignStore, AssignKeepsStrings
<1>2. Int64(n) \in ShortReplies
  BY DEF ShortReplies
<1> QED
  BY <1>1, <1>2 DEF Proper, Outcome

LEMMA ZAddProper ==
  ASSUME NEW keys, IsKeys(keys), NEW k, NEW number, NEW name, NEW o \in ZAdd(keys, k, number, name)
  PROVE  Proper(keys, o)
<1>1. CASE o = Outcome(keys, Unknown)
  BY <1>1, SameStore
<1>2. CASE /\ SetAt(keys, k).type = "zset"
           /\ o = Added(keys, k, Double[number], name)
  <2> DEFINE v == With(SetAt(keys, k).score, Place[name], Double[number])
             n == IF Place[name] \in DOMAIN SetAt(keys, k).score THEN 0 ELSE 1
  <2>1. n \in {0, 1} /\ o = Outcome(Assign(keys, k, SetValue(v)), Int64(n))
    BY <1>2 DEF Added
  <2>2. ~ Holds(keys, k, "string")
    BY <1>2 DEF SetAt, Holds
  <2> HIDE DEF v, n
  <2> QED
    BY <2>1, <2>2, SetAssigned
<1> QED
  BY <1>1, <1>2 DEF ZAdd

LEMMA ZRemProper ==
  ASSUME NEW keys, IsKeys(keys), NEW k, NEW name, NEW o \in ZRem(keys, k, name)
  PROVE  Proper(keys, o)
<1> DEFINE v == Without(Scores(keys, k), {Place[name]})
           n == IF Place[name] \in DOMAIN Scores(keys, k) THEN 1 ELSE 0
<1>1. CASE o = Outcome(keys, Nil) \/ o = Outcome(keys, Unknown)
  BY <1>1, SameStore
<1>2. CASE Holds(keys, k, "zset") /\ o = Outcome(Assign(keys, k, SetValue(v)), Int64(n))
  <2>1. n \in {0, 1} /\ ~ Holds(keys, k, "string")
    BY <1>2 DEF Holds
  <2> HIDE DEF v, n
  <2> QED
    BY <1>2, <2>1, SetAssigned
<1> QED
  BY <1>1, <1>2 DEF ZRem

LEMMA PExpireProper ==
  ASSUME NEW keys, IsKeys(keys), NEW k, NEW ms, NEW o \in PExpire(keys, k, ms)
  PROVE  Proper(keys, o)
<1>1. CASE o = Exception(keys)
  BY <1>1, ExceptionProper
<1>2. CASE o = Outcome(keys, Int64(0))
  BY <1>2, SameStore
<1>3. CASE \E T : o = Outcome([keys EXCEPT !.timed = T], Int64(1))
  <2>1. PICK T : o = Outcome([keys EXCEPT !.timed = T], Int64(1))
    BY <1>3
  <2>2. [keys EXCEPT !.timed = T] = [value |-> keys.value, timed |-> T]
    BY DEF IsKeys
  <2> QED
    BY <2>1, <2>2 DEF Proper, Outcome, ShortReplies, IsKeys, KeepsStrings, Holds, Has
<1> QED
  BY <1>1, <1>2, <1>3 DEF PExpire

\* The commands that change nothing.
LEMMA ReadersProper ==
  ASSUME NEW keys, IsKeys(keys), NEW k, NEW name, NEW number, NEW offset, NEW limit,
         NEW o \in Get(keys, k) \cup Keys(keys) \cup ZScore(keys, k, name) \cup PTTL(keys, k)
                   \cup ZQuery(keys, k, number, name, offset, limit)
  PROVE  Proper(keys, o)
<1>1. \E reply : o = Outcome(keys, reply)
  <2>1. CASE o \in Get(keys, k)
    BY <2>1 DEF Get
  <2>2. CASE o \in Keys(keys)
    BY <2>2 DEF Keys
  <2>3. CASE o \in ZScore(keys, k, name)
    BY <2>3 DEF ZScore
  <2>4. CASE o \in PTTL(keys, k)
    BY <2>4 DEF PTTL
  <2>5. CASE o \in ZQuery(keys, k, number, name, offset, limit)
    BY <2>5 DEF ZQuery
  <2> QED
    BY <2>1, <2>2, <2>3, <2>4, <2>5
<1> QED
  BY <1>1, SameStore

LEMMA ExecuteProper ==
  ASSUME NEW keys, IsKeys(keys), NEW args, NEW o \in Execute(keys, args)
  PROVE  Proper(keys, o)
<1> DEFINE name == args[1]
<1>1. CASE \E reply : o = Outcome(keys, reply)
  BY <1>1, SameStore
<1>2. CASE o \in Keys(keys)
  BY <1>2, ReadersProper
<1>3. CASE /\ name \in DOMAIN ArgsCount
           /\ o \in CASE name = "get"     -> Get(keys, args[2])
                      [] name = "set"     -> Set(keys, args[2], args[3])
                      [] name = "del"     -> Del(keys, args[2])
                      [] name = "zadd"    -> ZAdd(keys, args[2], args[3], args[4])
                      [] name = "zrem"    -> ZRem(keys, args[2], args[3])
                      [] name = "zscore"  -> ZScore(keys, args[2], args[3])
                      [] name = "zquery"  -> ZQuery(keys, args[2], args[3], args[4], args[5], args[6])
                      [] name = "pttl"    -> PTTL(keys, args[2])
                      [] name = "pexpire" -> PExpire(keys, args[2], args[3])
  <2>1. name \in {"get", "set", "del", "zadd", "zrem", "zscore", "zquery", "pttl", "pexpire"}
    BY <1>3 DEF ArgsCount
  <2>2. \/ o \in Get(keys, args[2]) \cup ZScore(keys, args[2], args[3]) \cup PTTL(keys, args[2])
                 \cup ZQuery(keys, args[2], args[3], args[4], args[5], args[6])
        \/ o \in Set(keys, args[2], args[3])
        \/ o \in Del(keys, args[2])
        \/ o \in ZAdd(keys, args[2], args[3], args[4])
        \/ o \in ZRem(keys, args[2], args[3])
        \/ o \in PExpire(keys, args[2], args[3])
    BY <1>3, <2>1
  <2>3. CASE o \in Get(keys, args[2]) \cup ZScore(keys, args[2], args[3]) \cup PTTL(keys, args[2])
                 \cup ZQuery(keys, args[2], args[3], args[4], args[5], args[6])
    <3>1. CASE o \in Get(keys, args[2])
      BY <3>1, ReadersProper
    <3>2. CASE o \in ZScore(keys, args[2], args[3])
      BY <3>2, ReadersProper
    <3>3. CASE o \in PTTL(keys, args[2])
      BY <3>3, ReadersProper
    <3>4. CASE o \in ZQuery(keys, args[2], args[3], args[4], args[5], args[6])
      BY <3>4, ReadersProper
    <3> QED
      BY <2>3, <3>1, <3>2, <3>3, <3>4
  <2> QED
    BY <2>2, <2>3, SetProper, DelProper, ZAddProper, ZRemProper, PExpireProper
<1> QED
  BY <1>1, <1>2, <1>3 DEF Execute

\* However a message from the client is taken, and whatever it says.
LEMMA RoundProper ==
  ASSUME IsKeys(store), NEW o \in Round
  PROVE  Proper(store, o)
BY ExecuteProper, ExceptionProper DEF Round
-----------------------------------------------------------------------------
(* Steps                                                                   *)

\* What a step of the session does to the keys: nothing, a command, or a sweep.
LEMMA StoreSteps ==
  ASSUME IsKeys(store), [Next]_vars
  PROVE  \/ UNCHANGED store
         \/ \E o \in Round : store' = o.store
         \/ \E K, T : store' = Left(store, K, T)
<1>1. CASE UNCHANGED vars
  BY <1>1 DEF vars
<1>2. CASE Read \/ Write \/ Idle \/ EndPass
  BY <1>2 DEF Read, Write, Idle, EndPass
<1>3. CASE Answer
  BY <1>3 DEF Answer
<1>4. CASE Sweep
  BY <1>4, ExpiredIs DEF Sweep
<1>5. CASE \E args \in Requests : Ask(args)
  BY <1>5 DEF Ask
<1>6. CASE Show
  BY <1>6 DEF Show
<1> QED
  BY <1>1, <1>2, <1>3, <1>4, <1>5, <1>6 DEF Next, Server

LEMMA StepKeeps ==
  ASSUME IsKeys(store), [Next]_vars
  PROVE  IsKeys(store)' /\ KeepsStrings(store, store')
<1>1. CASE UNCHANGED store
  BY <1>1 DEF IsKeys, KeepsStrings, Holds, Has
<1>2. CASE \E o \in Round : store' = o.store
  BY <1>2, RoundProper DEF Proper, IsKeys
<1>3. CASE \E K, T : store' = Left(store, K, T)
  BY <1>3, LeftStore DEF IsKeys
<1> QED
  BY <1>1, <1>2, <1>3, StoreSteps

\* What a key holds is a string until the key is gone: a command on sorted sets
\* that is sent to it fails, whatever its other arguments.
THEOREM StringsRemain == Spec => StringsStay
<1>1. Init => IsKeys(store)
  BY SessionAssumption DEF Init, IsKeys, IsStore
<1>2. IsKeys(store) /\ [Next]_vars => IsKeys(store)'
  BY StepKeeps
<1> DEFINE Stays ==
      \A k \in DOMAIN store.value :
        Holds(store, k, "string") /\ Has(store', k) => Holds(store', k, "string")
<1>3. IsKeys(store) /\ [Next]_vars => [Stays]_vars
  BY StepKeeps DEF KeepsStrings
<1> QED
  BY <1>1, <1>2, <1>3, PTL DEF Spec, StringsStay

-----------------------------------------------------------------------------
(* Replies                                                                 *)

\* A short reply is sent as it is, and is seen not to be an error.
LEMMA ShortIsNoError ==
  ASSUME NEW reply \in ShortReplies
  PROVE  TagOf(Serialize(reply)) # "err"
<1>1. Fitting(reply) = reply
  BY ShortRepliesFit DEF ShortReplies
<1>2. reply.tag \in {"nil", "int"}
  BY DEF ShortReplies, Nil, Int64
<1>3. Single(reply)[1] = Tag(reply.tag)
  <2> DEFINE rest == CASE reply.tag = "nil" -> << >>
                       [] reply.tag = "str" -> <<Word(Length[reply.text]), Text(reply.text)>>
                       [] reply.tag \in {"int", "dbl"} -> <<Long64(reply.number)>>
                       [] reply.tag = "err" -> <<Word(reply.code), Word(0)>>
  <2>1. rest = << >> \/ rest = <<Long64(reply.number)>>
    BY <1>2
  <2>2. \A x, y : (<<x>> \o << >>)[1] = x /\ (<<x>> \o <<y>>)[1] = x
    OBVIOUS
  <2>3. Single(reply) = <<Tag(reply.tag)>> \o rest
    BY DEF Single
  <2> QED
    BY <2>1, <2>2, <2>3
<1>4. Serialize(reply).items = <<Single(reply)>>
  BY <1>1, <1>2 DEF Serialize, Items, Message
<1>5. TagOf(Serialize(reply)) = reply.tag
  BY <1>3, <1>4 DEF TagOf, Tag
<1> QED
  BY <1>2, <1>5

IsSequence(q) == \E S : q \in Seq(S)

LEMMA Appended ==
  ASSUME NEW q, IsSequence(q), NEW x
  PROVE  /\ IsSequence(Append(q, x))
         /\ \A i \in DOMAIN Append(q, x) \ DOMAIN q : Append(q, x)[i] = x
<1>1. PICK S : q \in Seq(S)
  BY DEF IsSequence
<1>2. q \in Seq(S \cup {x})
  BY <1>1
<1>3. Append(q, x) \in Seq(S \cup {x})
  BY <1>2
<1>4. Len(q) \in Nat /\ DOMAIN q = 1..Len(q) /\ Len(Append(q, x)) = Len(q) + 1
  BY <1>2
<1>5. DOMAIN Append(q, x) = 1..(Len(q) + 1) /\ Append(q, x)[Len(q) + 1] = x
  BY <1>2, <1>3, <1>4
<1>6. \A i \in DOMAIN Append(q, x) \ DOMAIN q : i = Len(q) + 1
  BY <1>4, <1>5
<1> QED
  BY <1>3, <1>5, <1>6 DEF IsSequence

\* The replies of a step: none, or that of the command that made the step.
LEMMA QueuedSteps ==
  ASSUME [Next]_vars
  PROVE  \/ UNCHANGED queued
         \/ \E o \in Round : store' = o.store /\ queued' = Append(queued, Serialize(o.reply))
<1>1. CASE UNCHANGED vars
  BY <1>1 DEF vars
<1>2. CASE Read \/ Write \/ Idle \/ EndPass \/ Sweep
  BY <1>2 DEF Read, Write, Idle, EndPass, Sweep
<1>3. CASE Answer
  BY <1>3 DEF Answer, Queue
<1>4. CASE \E args \in Requests : Ask(args)
  BY <1>4 DEF Ask
<1>5. CASE Show
  BY <1>5 DEF Show
<1> QED
  BY <1>1, <1>2, <1>3, <1>4, <1>5 DEF Next, Server

\* An error is not the answer to a command that has done something: whatever
\* a command looks at first, it makes and changes nothing before it is sure.
THEOREM ErrorsAreHarmless == Spec => ErrorsChangeNothing
<1> DEFINE IInv == IsKeys(store) /\ IsSequence(queued)
           Harmless ==
             \A i \in DOMAIN queued' \ DOMAIN queued :
               TagOf(queued'[i]) = "err" => store' = store
<1>1. Init => IInv
  <2> SUFFICES ASSUME Init PROVE IInv
    OBVIOUS
  <2>1. IsKeys(store)
    BY SessionAssumption DEF Init, IsKeys, IsStore
  <2>2. queued \in Seq({})
    BY DEF Init
  <2> QED
    BY <2>1, <2>2 DEF IsSequence
<1>2. IInv /\ [Next]_vars => IInv' /\ [Harmless]_vars
  <2> SUFFICES ASSUME IInv, [Next]_vars PROVE IInv' /\ Harmless
    OBVIOUS
  <2>1. IsKeys(store)'
    BY StepKeeps
  <2>2. CASE UNCHANGED queued
    BY <2>1, <2>2 DEF IsSequence
  <2>3. CASE \E o \in Round : store' = o.store /\ queued' = Append(queued, Serialize(o.reply))
    <3>1. PICK o \in Round : store' = o.store /\ queued' = Append(queued, Serialize(o.reply))
      BY <2>3
    <3>2. /\ IsSequence(queued')
          /\ \A i \in DOMAIN queued' \ DOMAIN queued : queued'[i] = Serialize(o.reply)
      BY <3>1, Appended
    <3>3. o.store # store => TagOf(Serialize(o.reply)) # "err"
      BY RoundProper, ShortIsNoError DEF Proper
    <3> QED
      BY <2>1, <3>1, <3>2, <3>3 DEF IsSequence
  <2> QED
    BY <2>2, <2>3, QueuedSteps
<1> QED
  BY <1>1, <1>2, PTL DEF Spec, ErrorsChangeNothing
-----------------------------------------------------------------------------
(* Sums                                                                    *)

Naturals(q, n) == \A i \in 1..n : q[i] \in Nat

\* f adds up q, number by number, as far as n.
AddsUp(f, q, n) == f[0] = 0 /\ \A i \in 1..n : f[i] = f[i - 1] + q[i]

LEMMA SumsExist ==
  ASSUME NEW n \in Nat, NEW q, Naturals(q, n)
  PROVE  \E f \in [0..n -> Nat] : AddsUp(f, q, n)
<1> DEFINE Good(m) == \E f \in [0..m -> Nat] : AddsUp(f, q, m)
           T == {m \in 0..n : Good(m)}
<1>1. 0 \in T
  <2> DEFINE f == [i \in 0..0 |-> 0]
  <2>1. f \in [0..0 -> Nat] /\ AddsUp(f, q, 0)
    BY DEF AddsUp
  <2> HIDE DEF f
  <2>2. Good(0)
    BY <2>1
  <2> QED BY <2>2
<1>2. ASSUME NEW m \in 1..n, m - 1 \in T PROVE m \in T
  <2>1. PICK f \in [0..(m - 1) -> Nat] : AddsUp(f, q, m - 1)
    BY <1>2
  <2> DEFINE g == [i \in 0..m |-> IF i = m THEN f[m - 1] + q[m] ELSE f[i]]
  <2>2. g \in [0..m -> Nat]
    BY <2>1 DEF Naturals
  <2>3. AddsUp(g, q, m)
    BY <2>1 DEF AddsUp
  <2> HIDE DEF g
  <2>4. Good(m)
    BY <2>2, <2>3
  <2> HIDE DEF Good
  <2> QED BY <2>4
<1> HIDE DEF T
<1>3. n \in T
  <2>1. 0..n \subseteq T
    BY <1>1, <1>2, UpTo
  <2> QED BY <2>1
<1> QED BY <1>3 DEF T

\* There is one way to add up only.
LEMMA SumsUnique ==
  ASSUME NEW n \in Nat, NEW q, NEW f, AddsUp(f, q, n), NEW g, AddsUp(g, q, n)
  PROVE  \A i \in 0..n : f[i] = g[i]
<1> DEFINE T == {i \in 0..n : f[i] = g[i]}
<1>1. 0 \in T
  BY DEF AddsUp
<1>2. \A i \in 1..n : i - 1 \in T => i \in T
  BY DEF AddsUp
<1> HIDE DEF T
<1>3. 0..n \subseteq T
  BY <1>1, <1>2, UpTo
<1> QED BY <1>3 DEF T

\* SumTo adds up.
LEMMA SumToIs ==
  ASSUME NEW n \in Nat, NEW q, Naturals(q, n), NEW f, AddsUp(f, q, n)
  PROVE  SumTo(q, n) = f[n]
<1> DEFINE IsSum(sum) == sum = [i \in 0..n |-> IF i = 0 THEN 0 ELSE sum[i - 1] + q[i]]
           s == CHOOSE sum : IsSum(sum)
<1>1. \E sum : IsSum(sum)
  <2>1. PICK g \in [0..n -> Nat] : AddsUp(g, q, n)
    BY SumsExist
  <2>2. g = [i \in 0..n |-> IF i = 0 THEN 0 ELSE g[i - 1] + q[i]]
    BY <2>1 DEF AddsUp
  <2>3. IsSum(g)
    BY <2>2
  <2> HIDE DEF IsSum
  <2> QED BY <2>3
<1>2. IsSum(s)
  <2> HIDE DEF IsSum
  <2> QED BY <1>1
<1>3. AddsUp(s, q, n)
  <2> HIDE DEF s
  <2> QED BY <1>2 DEF AddsUp
<1>4. SumTo(q, n) = s[n]
  BY DEF SumTo
<1> HIDE DEF s
<1> QED BY <1>3, <1>4, SumsUnique

\* What is used of sums.
LEMMA SumToSteps ==
  ASSUME NEW n \in Nat, NEW q, Naturals(q, n)
  PROVE  /\ SumTo(q, 0) = 0
         /\ \A i \in 0..n : SumTo(q, i) \in Nat
         /\ \A i \in 1..n : SumTo(q, i) = SumTo(q, i - 1) + q[i]
<1>1. PICK f \in [0..n -> Nat] : AddsUp(f, q, n)
  BY SumsExist
<1>2. ASSUME NEW i \in 0..n PROVE SumTo(q, i) = f[i]
  <2>1. i \in Nat /\ Naturals(q, i) /\ AddsUp(f, q, i)
    BY <1>1 DEF Naturals, AddsUp
  <2> QED BY <2>1, SumToIs
<1> QED BY <1>1, <1>2 DEF AddsUp

LEMMA SumToMonotone ==
  ASSUME NEW n \in Nat, NEW q, Naturals(q, n), NEW i \in 0..n, NEW j \in i..n
  PROVE  SumTo(q, i) <= SumTo(q, j)
<1> DEFINE T == {m \in 0..n : m < i \/ SumTo(q, i) <= SumTo(q, m)}
<1>1. 0 \in T
  BY SumToSteps
<1>2. ASSUME NEW m \in 1..n, m - 1 \in T PROVE m \in T
  <2>1. CASE m < i
    BY <2>1
  <2>2. CASE m = i
    BY <2>2, SumToSteps
  <2>3. CASE m > i
    <3>1. SumTo(q, i) <= SumTo(q, m - 1)
      BY <1>2, <2>3
    <3>2. SumTo(q, i) \in Nat /\ SumTo(q, m - 1) \in Nat /\ q[m] \in Nat
      BY SumToSteps DEF Naturals
    <3>3. SumTo(q, m) = SumTo(q, m - 1) + q[m]
      BY SumToSteps
    <3> QED BY <3>1, <3>2, <3>3
  <2> QED BY <2>1, <2>2, <2>3
<1> HIDE DEF T
<1>3. 0..n \subseteq T
  BY <1>1, <1>2, UpTo
<1>4. j \in T
  BY <1>3
<1> QED BY <1>4 DEF T

LEMMA SumToSame ==
  ASSUME NEW n \in Nat, NEW q, Naturals(q, n), NEW r, \A i \in 1..n : r[i] = q[i]
  PROVE  \A m \in 0..n : SumTo(r, m) = SumTo(q, m)
<1>1. Naturals(r, n)
  BY DEF Naturals
<1>2. PICK f \in [0..n -> Nat] : AddsUp(f, q, n)
  BY SumsExist
<1>3. ASSUME NEW m \in 0..n PROVE SumTo(r, m) = f[m] /\ SumTo(q, m) = f[m]
  <2>1. m \in Nat /\ Naturals(q, m) /\ Naturals(r, m) /\ AddsUp(f, q, m) /\ AddsUp(f, r, m)
    BY <1>1, <1>2 DEF Naturals, AddsUp
  <2> QED BY <2>1, SumToIs
<1> QED BY <1>3

\* A number in front of the others.
LEMMA SumToBehind ==
  ASSUME NEW n \in Nat, NEW q, Naturals(q, n),
         NEW r, r[1] \in Nat, \A i \in 1..n : r[i + 1] = q[i]
  PROVE  SumTo(r, n + 1) = r[1] + SumTo(q, n)
<1>1. PICK f \in [0..n -> Nat] : AddsUp(f, q, n)
  BY SumsExist
<1> DEFINE g == [i \in 0..(n + 1) |-> IF i = 0 THEN 0 ELSE r[1] + f[i - 1]]
<1>2. AddsUp(g, r, n + 1)
  <2>1. g[0] = 0
    OBVIOUS
  <2>2. g[1] = g[0] + r[1]
    BY <1>1 DEF AddsUp
  <2>3. ASSUME NEW i \in 2..(n + 1) PROVE g[i] = g[i - 1] + r[i]
    <3>1. i - 1 \in 1..n
      OBVIOUS
    <3>2. f[i - 1] = f[i - 2] + q[i - 1]
      BY <1>1, <3>1 DEF AddsUp
    <3>3. r[i] = q[i - 1]
      BY <3>1
    <3>4. f[i - 2] \in Nat /\ q[i - 1] \in Nat
      BY <1>1, <3>1 DEF Naturals
    <3>5. g[i] = r[1] + f[i - 1] /\ g[i - 1] = r[1] + f[(i - 1) - 1]
      BY <3>1
    <3>6. (i - 1) - 1 = i - 2
      OBVIOUS
    <3> HIDE DEF g
    <3>7. r[1] + (f[i - 2] + q[i - 1]) = (r[1] + f[i - 2]) + q[i - 1]
      BY <3>4
    <3> QED BY <3>2, <3>3, <3>5, <3>6, <3>7, Zenon
  <2>4. \A i \in 1..(n + 1) : i = 1 \/ i \in 2..(n + 1)
    OBVIOUS
  <2>5. 1 - 1 = 0
    OBVIOUS
  <2> HIDE DEF g
  <2> QED BY <2>1, <2>2, <2>3, <2>4, <2>5 DEF AddsUp
<1>3. Naturals(r, n + 1)
  <2>1. ASSUME NEW i \in 2..(n + 1) PROVE r[i] \in Nat
    <3>1. i - 1 \in 1..n /\ i = (i - 1) + 1
      OBVIOUS
    <3> QED BY <3>1 DEF Naturals
  <2> QED BY <2>1 DEF Naturals
<1>4. SumTo(r, n + 1) = g[n + 1]
  <2> HIDE DEF g
  <2> QED BY <1>2, <1>3, SumToIs
<1>5. SumTo(q, n) = f[n]
  BY <1>1, SumToIs
<1> QED BY <1>4, <1>5
-----------------------------------------------------------------------------
(* Messages                                                                *)

LEMMA FunctionIsSequence ==
  ASSUME NEW n \in Nat, NEW q, DOMAIN q = 1..n, q = [i \in 1..n |-> q[i]]
  PROVE  IsSequence(q) /\ Len(q) = n
<1> DEFINE S == {q[i] : i \in 1..n}
<1>1. q \in [1..n -> S]
  OBVIOUS
<1> HIDE DEF S
<1>2. q \in Seq(S) /\ Len(q) = n
  BY <1>1
<1> QED BY <1>2 DEF IsSequence

LEMMA SequenceIsFunction ==
  ASSUME NEW q, IsSequence(q)
  PROVE  Len(q) \in Nat /\ DOMAIN q = 1..Len(q) /\ q = [i \in 1..Len(q) |-> q[i]]
<1>1. PICK S : q \in Seq(S)
  BY DEF IsSequence
<1> QED BY <1>1

\* One item in front of the others.
LEMMA InFront ==
  ASSUME NEW q, IsSequence(q), NEW x
  PROVE  /\ IsSequence(<<x>> \o q)
         /\ Len(<<x>> \o q) = Len(q) + 1
         /\ (<<x>> \o q)[1] = x
         /\ \A i \in 1..Len(q) : (<<x>> \o q)[i + 1] = q[i]
<1>1. PICK S : q \in Seq(S)
  BY DEF IsSequence
<1>2. q \in Seq(S \cup {x}) /\ <<x>> \in Seq(S \cup {x})
  BY <1>1
<1>3. <<x>> \o q \in Seq(S \cup {x})
  BY <1>2
<1>4. Len(<<x>> \o q) = Len(q) + 1 /\ (<<x>> \o q)[1] = x
      /\ \A i \in 1..Len(q) : (<<x>> \o q)[i + 1] = q[i]
  BY <1>2
<1> QED BY <1>3, <1>4 DEF IsSequence

LEMMA Concatenated ==
  ASSUME NEW x, NEW y, NEW z
  PROVE  /\ <<x>> \o << >> = <<x>>
         /\ <<x>> \o <<y>> = <<x, y>>
         /\ <<x>> \o <<y, z>> = <<x, y, z>>
<1>1. <<x>> \o << >> = <<x>>
  OBVIOUS
<1>2. <<x>> \o <<y>> = <<x, y>>
  <2> DEFINE s == <<x>> \o <<y>>
  <2>1. <<x>> \in Seq({x, y}) /\ <<y>> \in Seq({x, y}) /\ Len(<<x>>) = 1 /\ Len(<<y>>) = 1
    OBVIOUS
  <2>2. s \in Seq({x, y}) /\ Len(s) = 2 /\ s[1] = x /\ s[2] = y
    BY <2>1
  <2> HIDE DEF s
  <2>3. s = [i \in 1..2 |-> s[i]]
    BY <2>2
  <2>4. <<x, y>> \in Seq({x, y}) /\ Len(<<x, y>>) = 2
    OBVIOUS
  <2>5. <<x, y>> = [i \in 1..2 |-> <<x, y>>[i]]
    BY <2>4
  <2>6. \A i \in 1..2 : s[i] = <<x, y>>[i]
    BY <2>2
  <2>7. s = <<x, y>>
    BY <2>3, <2>5, <2>6
  <2> QED BY <2>7 DEF s
<1>3. <<x>> \o <<y, z>> = <<x, y, z>>
  <2> DEFINE s == <<x>> \o <<y, z>>
  <2>1. /\ <<x>> \in Seq({x, y, z}) /\ <<y, z>> \in Seq({x, y, z})
        /\ Len(<<x>>) = 1 /\ Len(<<y, z>>) = 2
    OBVIOUS
  <2>2. s \in Seq({x, y, z}) /\ Len(s) = 3 /\ s[1] = x /\ s[2] = y /\ s[3] = z
    BY <2>1
  <2> HIDE DEF s
  <2>3. s = [i \in 1..3 |-> s[i]]
    BY <2>2
  <2>4. <<x, y, z>> \in Seq({x, y, z}) /\ Len(<<x, y, z>>) = 3
    OBVIOUS
  <2>5. <<x, y, z>> = [i \in 1..3 |-> <<x, y, z>>[i]]
    BY <2>4
  <2>6. \A i \in 1..3 : s[i] = <<x, y, z>>[i]
    BY <2>2
  <2>7. s = <<x, y, z>>
    BY <2>3, <2>5, <2>6
  <2> QED BY <2>7 DEF s
<1> QED BY <1>1, <1>2, <1>3

\* The bytes of an item of one, two or three fields.
LEMMA BytesOfOne ==
  ASSUME NEW a, a.bytes \in Nat
  PROVE  Bytes(<<a>>) = a.bytes
<1> DEFINE q == [i \in DOMAIN <<a>> |-> <<a>>[i].bytes]
<1>1. Naturals(q, 1) /\ q[1] = a.bytes /\ Bytes(<<a>>) = SumTo(q, 1)
  BY DEF Naturals, Bytes
<1> HIDE DEF q
<1> QED BY <1>1, SumToSteps

LEMMA BytesOfTwo ==
  ASSUME NEW a, a.bytes \in Nat, NEW b, b.bytes \in Nat
  PROVE  Bytes(<<a, b>>) = a.bytes + b.bytes
<1> DEFINE q == [i \in DOMAIN <<a, b>> |-> <<a, b>>[i].bytes]
<1>1. /\ Naturals(q, 2) /\ q[1] = a.bytes /\ q[2] = b.bytes
      /\ Bytes(<<a, b>>) = SumTo(q, 2)
  BY DEF Naturals, Bytes
<1> HIDE DEF q
<1>2. /\ SumTo(q, 0) = 0
      /\ SumTo(q, 1) = SumTo(q, 1 - 1) + q[1]
      /\ SumTo(q, 2) = SumTo(q, 2 - 1) + q[2]
  BY <1>1, SumToSteps
<1>3. 1 - 1 = 0 /\ 2 - 1 = 1
  OBVIOUS
<1> QED BY <1>1, <1>2, <1>3

LEMMA BytesOfThree ==
  ASSUME NEW a, a.bytes \in Nat, NEW b, b.bytes \in Nat, NEW c, c.bytes \in Nat
  PROVE  Bytes(<<a, b, c>>) = a.bytes + b.bytes + c.bytes
<1> DEFINE q == [i \in DOMAIN <<a, b, c>> |-> <<a, b, c>>[i].bytes]
<1>1. /\ Naturals(q, 3) /\ q[1] = a.bytes /\ q[2] = b.bytes /\ q[3] = c.bytes
      /\ Bytes(<<a, b, c>>) = SumTo(q, 3)
  BY DEF Naturals, Bytes
<1> HIDE DEF q
<1>2. /\ SumTo(q, 0) = 0
      /\ SumTo(q, 1) = SumTo(q, 1 - 1) + q[1]
      /\ SumTo(q, 2) = SumTo(q, 2 - 1) + q[2]
      /\ SumTo(q, 3) = SumTo(q, 3 - 1) + q[3]
  BY <1>1, SumToSteps
<1>3. 1 - 1 = 0 /\ 2 - 1 = 1 /\ 3 - 1 = 2
  OBVIOUS
<1> QED BY <1>1, <1>2, <1>3

\* The length of a message is that of its first item and of the rest.
LEMMA MessageSize ==
  ASSUME NEW items, IsSequence(items), \A i \in 1..Len(items) : Bytes(items[i]) \in Nat
  PROVE  Message(items).length \in Nat /\ Message(items).items = items
<1> DEFINE q == [i \in DOMAIN items |-> Bytes(items[i])]
<1>1. Len(items) \in Nat /\ DOMAIN items = 1..Len(items)
  BY SequenceIsFunction
<1>2. Naturals(q, Len(items))
  BY <1>1 DEF Naturals
<1>3. Message(items) = [length |-> SumTo(q, Len(items)), items |-> items]
  BY DEF Message
<1> HIDE DEF q
<1>4. SumTo(q, Len(items)) \in Nat
  BY <1>1, <1>2, SumToSteps
<1> QED BY <1>3, <1>4

-----------------------------------------------------------------------------
(* Requests                                                                *)

\* The server takes out of a message what the client has put in.
LEMMA RequestIs ==
  ASSUME NEW args \in Seq(Texts)
  PROVE  /\ Request(args).length \in Nat
         /\ Strings(Request(args)) = Len(args)
         /\ \A i \in 1..Len(args) : String(Request(args), i) = args[i]
<1> DEFINE count == <<Word(Len(args))>>
           texts == [i \in DOMAIN args |-> <<Word(Length[args[i]]), Text(args[i])>>]
           items == <<count>> \o texts
<1>1. Len(args) \in Nat /\ DOMAIN args = 1..Len(args)
  OBVIOUS
<1>2. DOMAIN texts = 1..Len(args) /\ texts = [i \in 1..Len(args) |-> texts[i]]
  BY <1>1
<1>3. \A i \in 1..Len(args) : texts[i] = <<Word(Length[args[i]]), Text(args[i])>>
  BY <1>1
<1>4. Request(args) = Message(items)
  BY DEF Request
<1> HIDE DEF texts, count
<1>5. IsSequence(texts) /\ Len(texts) = Len(args)
  BY <1>1, <1>2, FunctionIsSequence
<1>6. /\ IsSequence(items) /\ Len(items) = Len(args) + 1 /\ items[1] = count
      /\ \A i \in 1..Len(args) : items[i + 1] = texts[i]
  BY <1>5, InFront
<1>7. Bytes(count) \in Nat
  <2>1. Word(Len(args)).bytes \in Nat
    BY WireAssumption DEF Word
  <2>2. Bytes(<<Word(Len(args))>>) = Word(Len(args)).bytes
    BY <2>1, BytesOfOne, Zenon
  <2> QED BY <2>1, <2>2 DEF count
<1>8. ASSUME NEW i \in 1..Len(args) PROVE Bytes(texts[i]) \in Nat
  <2>1. Word(Length[args[i]]).bytes \in Nat /\ Text(args[i]).bytes \in Nat
    BY WireAssumption DEF Word, Text
  <2>2. PICK a, b : a = Word(Length[args[i]]) /\ b = Text(args[i])
    OBVIOUS
  <2>3. a.bytes \in Nat /\ b.bytes \in Nat
    BY <2>1, <2>2
  <2>4. texts[i] = <<a, b>>
    BY <1>3, <2>2
  <2>5. Bytes(<<a, b>>) = a.bytes + b.bytes
    BY <2>3, BytesOfTwo, Zenon
  <2>6. a.bytes + b.bytes \in Nat
    BY <2>3
  <2> QED BY <2>4, <2>5, <2>6, Zenon
<1> HIDE DEF items
<1>9. \A i \in 1..Len(items) : Bytes(items[i]) \in Nat
  <2> TAKE i \in 1..Len(items)
  <2>1. CASE i = 1
    BY <1>6, <1>7, <2>1
  <2>2. CASE i # 1
    <3>1. i - 1 \in 1..Len(args) /\ (i - 1) + 1 = i
      BY <1>1, <1>6, <2>2
    <3>2. items[i] = texts[i - 1]
      BY <1>6, <3>1
    <3> QED BY <1>8, <3>1, <3>2
  <2> QED BY <2>1, <2>2
<1>10. Request(args).length \in Nat /\ Request(args).items = items
  BY <1>4, <1>6, <1>9, MessageSize
<1>11. Strings(Request(args)) = Len(args)
  BY <1>6, <1>10 DEF Strings, count, Word
<1>12. \A i \in 1..Len(args) : String(Request(args), i) = args[i]
  <2> TAKE i \in 1..Len(args)
  <2>1. Request(args).items[i + 1] = <<Word(Length[args[i]]), Text(args[i])>>
    BY <1>3, <1>6, <1>10
  <2>2. Request(args).items[i + 1][2] = Text(args[i])
    BY <2>1
  <2> QED BY <2>2 DEF String, Text
<1> QED BY <1>10, <1>11, <1>12

\* And takes it out when it is there: it waits for the rest, takes the whole,
\* or throws, when there is too much of it.
LEMMA ParseIs ==
  ASSUME NEW args \in Seq(Texts) \ {<< >>}, NEW size \in Nat
  PROVE  LET found == Parse(size, Request(args))
         IN /\ found.result \in {"wait", "throws", "request"}
            /\ found.result = "request" =>
                 /\ Size(Request(args)) <= size
                 /\ found.args = Lowered(args)
            /\ size = 0 => found.result = "wait"
            /\ Request(args).length <= MaxMsg /\ Len(args) <= MaxArgs => found.result # "throws"
<1> DEFINE parsed == [i \in 1..Strings(Request(args)) |->
                        IF i = 1 THEN Lower[String(Request(args), i)] ELSE String(Request(args), i)]
<1>1. /\ Request(args).length \in Nat
      /\ Strings(Request(args)) = Len(args)
      /\ \A i \in 1..Len(args) : String(Request(args), i) = args[i]
  BY RequestIs
<1>2. parsed = Lowered(args)
  <2>1. DOMAIN args = 1..Len(args) /\ args = [i \in 1..Len(args) |-> args[i]]
    OBVIOUS
  <2> QED BY <1>1, <2>1 DEF Lowered
<1>3. Size(Request(args)) \in Nat /\ WordSize \in Nat \ {0} /\ MaxMsg \in Nat /\ MaxArgs \in Nat
  BY <1>1, WireAssumption DEF Size
<1> HIDE DEF parsed
<1>4. Parse(size, Request(args)) =
        IF size < WordSize THEN [result |-> "wait"]
        ELSE IF Request(args).length > MaxMsg THEN [result |-> "throws"]
        ELSE IF size < Size(Request(args)) THEN [result |-> "wait"]
        ELSE IF Len(args) > MaxArgs THEN [result |-> "throws"]
        ELSE [result |-> "request", args |-> parsed]
  BY <1>1 DEF Parse, parsed
<1>5. Len(args) \in Nat
  OBVIOUS
<1> QED BY <1>1, <1>2, <1>3, <1>4, <1>5

LEMMA LoweredTexts ==
  ASSUME NEW args \in Seq(Texts) \ {<< >>}
  PROVE  Lowered(args) \in Seq(Texts) /\ Lowered(args) # << >> /\ Len(Lowered(args)) = Len(args)
<1>1. Lower[args[1]] \in Texts
  BY TextsAssumption
<1> QED BY <1>1 DEF Lowered
-----------------------------------------------------------------------------
(* Replies, written and read                                               *)

Codes == {"ERR_UNKNOWN", "ERR_WRONG_ARGS_COUNT", "ERR_TOO_BIG"}

\* Replies of one value.
Singles ==
  {Nil} \cup {Str(t) : t \in Texts} \cup {Int64(n) : n \in Int} \cup {Dbl(x) : x \in Int}
        \cup {Err(code) : code \in Codes}

Replies == Singles \cup {Arr(q) : q \in Seq(Singles)}

\* What the client reads of one value is what the server has written.
LEMMA SingleIs ==
  ASSUME NEW r \in Singles
  PROVE  /\ Single(r)[1] = Tag(r.tag)
         /\ Bytes(Single(r)) \in Nat
         /\ PrintSingle(Single(r)).shows = r
         /\ PrintSingle(Single(r)).used = Bytes(Single(r))
         /\ r.tag \in {"nil", "str", "int", "dbl", "err"}
<1> DEFINE rest == CASE r.tag = "nil" -> << >>
                     [] r.tag = "str" -> <<Word(Length[r.text]), Text(r.text)>>
                     [] r.tag \in {"int", "dbl"} -> <<Long64(r.number)>>
                     [] r.tag = "err" -> <<Word(r.code), Word(0)>>
<1>1. Single(r) = <<Tag(r.tag)>> \o rest
  BY DEF Single
<1>2. /\ \A x : <<x>> \o << >> = <<x>>
      /\ \A x, y : <<x>> \o <<y>> = <<x, y>>
      /\ \A x, y, z : <<x>> \o <<y, z>> = <<x, y, z>>
  BY Concatenated, Zenon
<1>3. /\ WordSize \in Nat /\ LongSize \in Nat
      /\ \A x : Tag(x).bytes = 1 /\ Tag(x).says = x
      /\ \A x : Word(x).bytes = WordSize /\ Word(x).says = x
      /\ \A x : Long64(x).bytes = LongSize /\ Long64(x).says = x
  BY WireAssumption DEF Tag, Word, Long64
<1>4. CASE r = Nil
  <2>1. r.tag = "nil"
    BY <1>4 DEF Nil
  <2>2. Single(r) = <<Tag("nil")>>
    BY <1>1, <1>2, <2>1
  <2>3. Bytes(<<Tag("nil")>>) = Tag("nil").bytes
    BY <1>3, BytesOfOne
  <2>4. PrintSingle(Single(r)) = [shows |-> Nil, used |-> 1]
    BY <1>3, <2>2 DEF PrintSingle
  <2> QED BY <1>3, <1>4, <2>1, <2>2, <2>3, <2>4
<1>5. CASE \E t \in Texts : r = Str(t)
  <2>1. PICK t \in Texts : r = Str(t)
    BY <1>5
  <2>2. r.tag = "str" /\ r.text = t
    BY <2>1 DEF Str
  <2>3. Single(r) = <<Tag("str"), Word(Length[t]), Text(t)>>
    BY <1>1, <1>2, <2>2
  <2>4. Length[t] \in Nat /\ Text(t).bytes = Length[t] /\ Text(t).says = t
    BY WireAssumption DEF Text
  <2>5. Bytes(<<Tag("str"), Word(Length[t]), Text(t)>>)
          = Tag("str").bytes + Word(Length[t]).bytes + Text(t).bytes
    <3>1. Tag("str").bytes \in Nat /\ Word(Length[t]).bytes \in Nat /\ Text(t).bytes \in Nat
      BY <1>3, <2>4
    <3>2. PICK a, b, c : a = Tag("str") /\ b = Word(Length[t]) /\ c = Text(t)
      OBVIOUS
    <3>3. a.bytes \in Nat /\ b.bytes \in Nat /\ c.bytes \in Nat
      BY <3>1, <3>2
    <3>4. Bytes(<<a, b, c>>) = a.bytes + b.bytes + c.bytes
      BY <3>3, BytesOfThree
    <3> QED BY <3>2, <3>4, Zenon
  <2>6. PrintSingle(Single(r)) = [shows |-> Str(t), used |-> 1 + WordSize + Length[t]]
    BY <1>3, <2>3, <2>4 DEF PrintSingle
  <2> QED BY <1>3, <2>1, <2>2, <2>3, <2>4, <2>5, <2>6
<1>6. CASE \E n \in Int : r = Int64(n) \/ r = Dbl(n)
  <2>1. PICK n \in Int : r = Int64(n) \/ r = Dbl(n)
    BY <1>6
  <2>2. r.tag \in {"int", "dbl"} /\ r.number = n
    BY <2>1 DEF Int64, Dbl
  <2>3. Single(r) = <<Tag(r.tag), Long64(n)>>
    BY <1>1, <1>2, <2>2
  <2>4. Bytes(<<Tag(r.tag), Long64(n)>>) = Tag(r.tag).bytes + Long64(n).bytes
    <3>1. Tag(r.tag).bytes \in Nat /\ Long64(n).bytes \in Nat
      BY <1>3
    <3> QED BY <3>1, BytesOfTwo, Zenon
  <2>5. PrintSingle(Single(r)) = [shows |-> r, used |-> 1 + LongSize]
    <3>1. CASE r = Int64(n)
      <4>1. r.tag = "int"
        BY <3>1 DEF Int64
      <4> QED BY <1>3, <2>3, <3>1, <4>1 DEF PrintSingle
    <3>2. CASE r = Dbl(n)
      <4>1. r.tag = "dbl"
        BY <3>2 DEF Dbl
      <4> QED BY <1>3, <2>3, <3>2, <4>1 DEF PrintSingle
    <3> QED BY <2>1, <3>1, <3>2
  <2> QED BY <1>3, <2>2, <2>3, <2>4, <2>5
<1>7. CASE \E code \in Codes : r = Err(code)
  <2>1. PICK code \in Codes : r = Err(code)
    BY <1>7
  <2>2. r.tag = "err" /\ r.code = code
    BY <2>1 DEF Err
  <2>3. Single(r) = <<Tag("err"), Word(code), Word(0)>>
    BY <1>1, <1>2, <2>2
  <2>4. Bytes(<<Tag("err"), Word(code), Word(0)>>)
          = Tag("err").bytes + Word(code).bytes + Word(0).bytes
    <3>1. Tag("err").bytes \in Nat /\ Word(code).bytes \in Nat /\ Word(0).bytes \in Nat
      BY <1>3
    <3>2. PICK a, b, c : a = Tag("err") /\ b = Word(code) /\ c = Word(0)
      OBVIOUS
    <3>3. a.bytes \in Nat /\ b.bytes \in Nat /\ c.bytes \in Nat
      BY <3>1, <3>2
    <3>4. Bytes(<<a, b, c>>) = a.bytes + b.bytes + c.bytes
      BY <3>3, BytesOfThree
    <3> QED BY <3>2, <3>4, Zenon
  <2>5. PrintSingle(Single(r)) = [shows |-> Err(code), used |-> 1 + 2 * WordSize + 0]
    BY <1>3, <2>3 DEF PrintSingle
  <2> QED BY <1>3, <2>1, <2>2, <2>3, <2>4, <2>5
<1> QED BY <1>4, <1>5, <1>6, <1>7 DEF Singles

\* And so is what it reads of a whole reply, of which it uses all the bytes.
LEMMA PrintsBack ==
  ASSUME NEW r \in Replies
  PROVE  /\ Message(Items(r)).length \in Nat
         /\ PrintAll(Message(Items(r))) = r
<1>1. CASE r \in Singles
  <2> DEFINE item == Single(r)
  <2>1. /\ item[1] = Tag(r.tag) /\ Bytes(item) \in Nat
        /\ PrintSingle(item).shows = r /\ PrintSingle(item).used = Bytes(item)
        /\ r.tag # "arr"
    BY <1>1, SingleIs
  <2>2. Items(r) = <<item>>
    BY <2>1 DEF Items
  <2> HIDE DEF item
  <2>3. IsSequence(<<item>>) /\ Len(<<item>>) = 1 /\ <<item>>[1] = item
    <3>1. <<item>> \in Seq({item})
      OBVIOUS
    <3> QED BY <3>1 DEF IsSequence
  <2>4. \A i \in 1..Len(<<item>>) : Bytes(<<item>>[i]) \in Nat
    BY <2>1, <2>3
  <2>5. Message(<<item>>).length \in Nat /\ Message(<<item>>).items = <<item>>
    BY <2>3, <2>4, MessageSize
  <2>6. Message(<<item>>).length = Bytes(item)
    <3> DEFINE q == [i \in DOMAIN <<item>> |-> Bytes(<<item>>[i])]
    <3>1. Naturals(q, 1) /\ q[1] = Bytes(item) /\ Message(<<item>>).length = SumTo(q, 1)
      BY <2>1, <2>3 DEF Naturals, Message
    <3> HIDE DEF q
    <3> QED BY <2>1, <3>1, SumToSteps
  <2>7. TagOf(Message(<<item>>)) = r.tag
    BY <2>1, <2>5 DEF TagOf, Tag
  <2>8. PrintAll(Message(<<item>>)) = PrintSingle(item).shows
    <3>1. PICK m : m = Message(<<item>>)
      OBVIOUS
    <3>2. m.items[1] = item /\ TagOf(m) # "arr" /\ PrintSingle(m.items[1]).used = m.length
      BY <2>1, <2>3, <2>5, <2>6, <2>7, <3>1
    <3>3. PrintAll(m) = PrintSingle(m.items[1]).shows
      BY <3>2 DEF PrintAll
    <3> QED BY <3>1, <3>2, <3>3
  <2> QED BY <2>1, <2>2, <2>5, <2>8
<1>2. CASE \E q \in Seq(Singles) : r = Arr(q)
  <2>1. PICK q \in Seq(Singles) : r = Arr(q)
    BY <1>2
  <2>2. r.tag = "arr" /\ r.elements = q
    BY <2>1 DEF Arr
  <2> DEFINE n == Len(q)
             front == <<Tag("arr"), Word(n)>>
             rest == [i \in DOMAIN q |-> Single(q[i])]
             items == <<front>> \o rest
             message == Message(items)
             sizes == [i \in DOMAIN items |-> Bytes(items[i])]
             printed == [i \in 1..n |-> PrintSingle(message.items[i + 1])]
             useds == [i \in 1..n |-> printed[i].used]
  <2>3. n \in Nat /\ DOMAIN q = 1..n /\ q = [i \in 1..n |-> q[i]] /\ \A i \in 1..n : q[i] \in Singles
    OBVIOUS
  <2>4. Items(r) = items
    BY <2>2 DEF Items
  <2>5. DOMAIN rest = 1..n /\ \A i \in 1..n : rest[i] = Single(q[i])
    BY <2>3
  <2>6. IsSequence(rest) /\ Len(rest) = n
    BY <2>3, FunctionIsSequence
  <2>7. Bytes(front) = 1 + WordSize /\ 1 + WordSize \in Nat
    <3>1. Tag("arr").bytes \in Nat /\ Word(n).bytes \in Nat
      BY WireAssumption DEF Tag, Word
    <3>2. Bytes(front) = Tag("arr").bytes + Word(n).bytes
      BY <3>1, BytesOfTwo, Zenon
    <3> QED BY <3>2, WireAssumption DEF Tag, Word
  <2>8. front[1].says = "arr" /\ front[2].says = n
    BY DEF Tag, Word
  <2> HIDE DEF rest, front, n
  <2>9. /\ IsSequence(items) /\ Len(items) = n + 1 /\ items[1] = front
        /\ \A i \in 1..n : items[i + 1] = Single(q[i])
    BY <2>5, <2>6, InFront
  <2>10. \A i \in 1..n : /\ Bytes(Single(q[i])) \in Nat
                         /\ PrintSingle(Single(q[i])).shows = q[i]
                         /\ PrintSingle(Single(q[i])).used = Bytes(Single(q[i]))
    BY <2>3, SingleIs
  <2> HIDE DEF items
  <2>11. DOMAIN items = 1..(n + 1)
    BY <2>9, SequenceIsFunction
  <2>12. \A i \in 1..Len(items) : Bytes(items[i]) \in Nat
    <3> TAKE i \in 1..Len(items)
    <3>1. CASE i = 1
      BY <2>7, <2>9, <3>1
    <3>2. CASE i # 1
      <4>1. i - 1 \in 1..n /\ (i - 1) + 1 = i
        BY <2>3, <2>9, <3>2
      <4>2. items[i] = Single(q[i - 1])
        BY <2>9, <4>1
      <4> QED BY <2>10, <4>1, <4>2
    <3> QED BY <3>1, <3>2
  <2>13. message.length \in Nat /\ message.items = items
    BY <2>9, <2>12, MessageSize
  <2>14. message.length = SumTo(sizes, n + 1)
    BY <2>9 DEF Message
  <2>15. /\ sizes[1] = 1 + WordSize
         /\ \A i \in 1..n : sizes[i + 1] = Bytes(Single(q[i]))
    BY <2>3, <2>7, <2>9, <2>11
  <2> HIDE DEF message
  <2>16. \A i \in 1..n : printed[i] = PrintSingle(Single(q[i]))
    BY <2>9, <2>13
  <2>17. \A i \in 1..n : useds[i] = Bytes(Single(q[i])) /\ printed[i].shows = q[i]
    BY <2>10, <2>16
  <2> HIDE DEF sizes, printed
  <2>18. SumTo(sizes, n + 1) = 1 + WordSize + SumTo(useds, n)
    <3>1. Naturals(useds, n)
      BY <2>10, <2>17 DEF Naturals
    <3>2. \A i \in 1..n : sizes[i + 1] = useds[i]
      BY <2>15, <2>17
    <3> HIDE DEF useds
    <3> QED BY <2>3, <2>7, <2>15, <3>1, <3>2, SumToBehind
  <2>19. TagOf(message) = "arr" /\ message.items[1][2].says = n
    BY <2>8, <2>9, <2>13 DEF TagOf
  <2>20. PrintAll(message) = Arr([i \in 1..n |-> printed[i].shows])
    BY <2>14, <2>18, <2>19 DEF PrintAll, printed
  <2>21. [i \in 1..n |-> printed[i].shows] = q
    BY <2>3, <2>17
  <2> QED BY <2>1, <2>4, <2>13, <2>20, <2>21 DEF message
<1> QED BY <1>1, <1>2 DEF Replies

\* The reply that is sent, and what arrives.
LEMMA SerializeIs ==
  ASSUME NEW r \in Replies
  PROVE  /\ Serialize(r).length \in Nat
         /\ PrintAll(Serialize(r)) = Fitting(r)
<1>1. Fitting(r) \in Replies
  BY DEF Fitting, TooBig, Replies, Singles, Codes
<1> QED BY <1>1, PrintsBack DEF Serialize
-----------------------------------------------------------------------------
(* Members in their order                                                  *)

\* Some members with their scores.
Scored(S, score) == IsFiniteSet(S) /\ S \subseteq Int /\ \A n \in S : score[n] \in Int

\* How many of them are before n.
RankIn(S, score, n) == Cardinality({m \in S : Before(score, m, n)})

\* There is one with every number before it.
LEMMA RanksTaken ==
  ASSUME NEW S, NEW score, Scored(S, score), NEW i \in 1..Cardinality(S)
  PROVE  \E n \in S : RankIn(S, score, n) = i - 1
<1> USE DEF Scored
<1> DEFINE below == [n \in S |-> {m \in S : Before(score, m, n)}]
           rank == [n \in S |-> Cardinality(below[n])]
           c == Cardinality(S)
           rest == (0..(c - 1)) \ {i - 1}
<1>1. c \in Nat
  BY FS_CardinalityType
<1>2. \A m, n \in S : m # n => Before(score, m, n) \/ Before(score, n, m)
  BY DEF Before
<1>3. \A m, n, l \in S : Before(score, l, m) /\ Before(score, m, n) => Before(score, l, n)
  BY DEF Before
<1>4. \A n \in S : ~ Before(score, n, n)
  BY DEF Before
<1>5. ASSUME NEW n \in S
      PROVE  /\ below[n] \subseteq S /\ n \notin below[n]
             /\ IsFiniteSet(below[n]) /\ rank[n] \in 0..(c - 1)
  <2>1. below[n] \subseteq S /\ n \notin below[n]
    BY <1>4
  <2> HIDE DEF below
  <2>2. IsFiniteSet(below[n])
    BY <2>1, FS_Subset
  <2>3. IsFiniteSet(S \ {n}) /\ Cardinality(S \ {n}) = c - 1
    BY FS_RemoveElement
  <2>4. below[n] \in SUBSET (S \ {n})
    BY <2>1
  <2>5. Cardinality(below[n]) <= c - 1
    BY <2>3, <2>4, FS_Subset
  <2>6. Cardinality(below[n]) \in Nat
    BY <2>2, FS_CardinalityType
  <2> QED BY <1>1, <2>1, <2>2, <2>5, <2>6
<1>6. ASSUME NEW m \in S, NEW n \in S, Before(score, m, n) PROVE rank[m] # rank[n]
  <2>1. below[m] \cup {m} \subseteq below[n]
    BY <1>3, <1>6
  <2> HIDE DEF below
  <2>2. IsFiniteSet(below[m] \cup {m}) /\ Cardinality(below[m] \cup {m}) = Cardinality(below[m]) + 1
    BY <1>5, FS_AddElement
  <2>3. below[m] \cup {m} \in SUBSET below[n]
    BY <2>1
  <2>4. IsFiniteSet(below[n])
    BY <1>5
  <2>5. Cardinality(below[m] \cup {m}) <= Cardinality(below[n])
    BY <2>3, <2>4, FS_Subset
  <2>6. rank[m] \in Nat /\ rank[n] \in Nat
    BY <1>1, <1>5
  <2> QED BY <2>2, <2>5, <2>6
<1>7. IsFiniteSet(rest) /\ Cardinality(rest) < Cardinality(S)
  <2> DEFINE all == 0..(c - 1)
  <2>1. c \in Nat \ {0} /\ i - 1 \in all
    BY <1>1
  <2>2. IsFiniteSet(all) /\ Cardinality(all) = c
    <3> HIDE DEF c
    <3>1. 0 \in Int /\ c - 1 \in Int /\ ~ (0 > c - 1) /\ (c - 1) - 0 + 1 = c
      BY <2>1
    <3> QED BY <3>1, FS_Interval
  <2> HIDE DEF all
  <2>3. IsFiniteSet(all \ {i - 1}) /\ Cardinality(all \ {i - 1}) = c - 1
    BY <2>1, <2>2, FS_RemoveElement
  <2> QED BY <2>1, <2>3 DEF all
<1>8. \E n \in S : rank[n] = i - 1
  <2>1. SUFFICES ASSUME \A n \in S : rank[n] # i - 1 PROVE FALSE
    OBVIOUS
  <2>2. rank \in [S -> rest]
    <3>1. \A n \in S : rank[n] \in rest
      BY <1>5, <2>1
    <3> HIDE DEF rest, below
    <3> QED BY <3>1
  <2> HIDE DEF rank, rest
  <2>3. PICK m, n \in S : m # n /\ rank[m] = rank[n]
    BY <1>7, <2>2, FS_PigeonHole
  <2> QED BY <1>2, <1>6, <2>3
<1> QED BY <1>8 DEF RankIn

\* Members lined up are members.
LEMMA InOrderIs ==
  ASSUME NEW S, NEW score, Scored(S, score)
  PROVE  InOrder(score, S) \in Seq(S)
<1> DEFINE c == Cardinality(S)
           Fits(n, i) == n \in S /\ RankIn(S, score, n) = i - 1
<1>1. c \in Nat
  BY FS_CardinalityType DEF Scored
<1>2. ASSUME NEW i \in 1..c PROVE InOrder(score, S)[i] \in S
  <2>1. \E n : Fits(n, i)
    BY RanksTaken
  <2>2. InOrder(score, S)[i] = CHOOSE n : Fits(n, i)
    BY DEF InOrder, RankIn
  <2> HIDE DEF Fits
  <2>3. Fits(CHOOSE n : Fits(n, i), i)
    BY <2>1
  <2> QED BY <2>2, <2>3 DEF Fits
<1>3. InOrder(score, S) \in [1..c -> S]
  <2> DEFINE nth(i) == CHOOSE n \in S : Cardinality({m \in S : Before(score, m, n)}) = i - 1
  <2>1. InOrder(score, S) = [i \in 1..c |-> nth(i)]
    BY DEF InOrder
  <2> HIDE DEF nth
  <2>2. \A i \in 1..c : nth(i) \in S
    BY <1>2, <2>1
  <2> QED BY <2>1, <2>2
<1> QED BY <1>1, <1>3

\* The answer to a query is a sequence of members and their scores.
LEMMA RankedIs ==
  ASSUME NEW score, IsFiniteSet(DOMAIN score), DOMAIN score \subseteq Int,
         score \in [DOMAIN score -> Int],
         NEW s, NEW name, NEW offset \in Int, NEW limit \in Int
  PROVE  LET found == Ranked(score, s, name, offset, limit)
         IN /\ Len(found) \in Nat
            /\ \A i \in 1..Len(found) : found[i][1] \in DOMAIN score /\ found[i][2] \in Int
<1> DEFINE S == NotBefore(score, s, name)
           q == Page(InOrder(score, S), offset, limit)
           from == IF offset < 0 THEN 0 ELSE offset
           to == IF from + limit < Len(InOrder(score, S)) THEN from + limit ELSE Len(InOrder(score, S))
<1>1. S \subseteq DOMAIN score
  BY DEF NotBefore, MembersOf
<1>2. IsFiniteSet(S)
  BY <1>1, FS_Subset
<1> HIDE DEF S
<1>3. InOrder(score, S) \in Seq(S)
  <2>1. Scored(S, score)
    BY <1>1, <1>2 DEF Scored
  <2> QED BY <2>1, InOrderIs
<1>4. q \in Seq(DOMAIN score)
  <2>1. CASE limit <= 0
    BY <2>1 DEF Page
  <2>2. CASE ~ (limit <= 0)
    <3>1. from \in Nat /\ to \in Int /\ to <= Len(InOrder(score, S))
      BY <1>3
    <3>2. \A i \in (from + 1)..to : InOrder(score, S)[i] \in DOMAIN score
      BY <1>1, <1>3, <3>1
    <3>3. q = SubSeq(InOrder(score, S), from + 1, to)
      BY <2>2 DEF Page
    <3> HIDE DEF from, to
    <3>4. from + 1 \in Int
      BY <3>1
    <3> QED BY <3>1, <3>2, <3>3, <3>4, SubSeqProperties
  <2> QED BY <2>1, <2>2
<1>5. Ranked(score, s, name, offset, limit) = [i \in DOMAIN q |-> <<q[i], score[q[i]]>>]
  BY DEF Ranked, S
<1> HIDE DEF q
<1>6. DOMAIN q = 1..Len(q) /\ Len(q) \in Nat /\ \A i \in 1..Len(q) : q[i] \in DOMAIN score
  BY <1>4
<1>7. Len([i \in DOMAIN q |-> <<q[i], score[q[i]]>>]) = Len(q)
  BY <1>6
<1> QED BY <1>5, <1>6, <1>7
-----------------------------------------------------------------------------
(* What commands leave, and what they answer                               *)

Typed(outcome) == IsStore(outcome.store) /\ outcome.reply \in Replies

LEMMA RepliesAre ==
  /\ Nil \in Replies /\ Unknown \in Replies /\ Arr(<< >>) \in Replies
  /\ Err("ERR_WRONG_ARGS_COUNT") \in Replies
  /\ \A t \in Texts : Str(t) \in Replies
  /\ \A n \in Int : Int64(n) \in Replies /\ Dbl(n) \in Replies
  /\ \A q \in Seq(Singles) : Arr(q) \in Replies
<1>1. << >> \in Seq(Singles)
  OBVIOUS
<1> QED BY <1>1 DEF Replies, Singles, Unknown, Codes

LEMMA TextsFinite == IsFiniteSet(DOMAIN Named) /\ IsFiniteSet(Texts)
<1>1. Len(Named) \in Nat /\ DOMAIN Named = 1..Len(Named)
  BY TextsAssumption
<1>2. IsFiniteSet(1..Len(Named))
  BY <1>1, FS_Interval
<1>3. \A t \in Texts : \E i \in DOMAIN Named : t = Named[i]
  BY DEF Texts
<1> DEFINE f == [i \in DOMAIN Named |-> Named[i]]
<1>4. f \in Surjection(DOMAIN Named, Texts)
  BY <1>3 DEF Surjection, Texts
<1> QED BY <1>1, <1>2, <1>4, FS_Surjection

LEMMA PlaceIs ==
  ASSUME NEW t \in Texts
  PROVE  Place[t] \in DOMAIN Named /\ DOMAIN Named \subseteq Nat
BY TextsAssumption DEF Texts

\* Keys with another value under k, or none under some.
LEMMA AssignTyped ==
  ASSUME NEW keys, IsStore(keys), NEW k \in Texts, NEW v, IsValue(v)
  PROVE  IsStore(Assign(keys, k, v))
<1>1. Assign(keys, k, v) = [value |-> With(keys.value, k, v), timed |-> keys.timed]
  BY DEF Assign, IsStore
<1>2. DOMAIN With(keys.value, k, v) = DOMAIN keys.value \cup {k}
  BY DEF With
<1>3. \A j \in DOMAIN keys.value \cup {k} :
        With(keys.value, k, v)[j] = IF j = k THEN v ELSE keys.value[j]
  BY DEF With
<1>4. \A j \in DOMAIN keys.value \cup {k} : IsValue(With(keys.value, k, v)[j])
  BY <1>3 DEF IsStore
<1> QED BY <1>1, <1>2, <1>4 DEF IsStore

LEMMA LeftTyped ==
  ASSUME NEW keys, IsStore(keys), NEW K, NEW T, T \subseteq Texts
  PROVE  IsStore(Left(keys, K, T))
<1>1. Left(keys, K, T) = [value |-> Without(keys.value, K), timed |-> T]
  BY DEF Left
<1>2. DOMAIN Without(keys.value, K) = DOMAIN keys.value \ K
  BY DEF Without
<1>3. \A j \in DOMAIN keys.value \ K : Without(keys.value, K)[j] = keys.value[j]
  BY DEF Without
<1> QED BY <1>1, <1>2, <1>3 DEF IsStore

LEMMA ExpiredTyped ==
  ASSUME NEW keys, IsStore(keys), NEW after \in Expired(keys)
  PROVE  IsStore(after)
<1>1. PICK K, T : after = Left(keys, K, T) /\ T \subseteq keys.timed
  BY ExpiredIs
<1>2. T \subseteq Texts
  BY <1>1 DEF IsStore
<1> QED BY <1>1, <1>2, LeftTyped

\* Whatever the timers are, they have names.
LEMMA RetimedTyped ==
  ASSUME NEW keys, IsStore(keys), NEW T0, T0 \subseteq Texts, NEW T \in Retimed(keys, T0)
  PROVE  T \subseteq Texts
BY DEF Retimed, IsStore

LEMMA SetValueTyped ==
  ASSUME NEW score, DOMAIN score \subseteq DOMAIN Named, score \in [DOMAIN score -> Int]
  PROVE  IsValue(SetValue(score))
BY DEF IsValue, SetValue

\* What is in a sorted set.
LEMMA ScoresTyped ==
  ASSUME NEW v, IsValue(v), v.type = "zset"
  PROVE  DOMAIN v.score \subseteq DOMAIN Named /\ v.score \in [DOMAIN v.score -> Int]
BY DEF IsValue

LEMMA GetTyped ==
  ASSUME NEW keys, IsStore(keys), NEW k, NEW o \in Get(keys, k)
  PROVE  Typed(o)
<1>1. Holds(keys, k, "string") => keys.value[k].text \in Texts
  <2>1. Holds(keys, k, "string") => IsValue(keys.value[k]) /\ keys.value[k].type = "string"
    BY DEF Holds, Has, IsStore
  <2> QED BY <2>1 DEF IsValue
<1>2. o.store = keys /\ o.reply \in {Nil, Unknown} \cup {Str(t) : t \in Texts}
  BY <1>1 DEF Get, Outcome
<1> QED BY <1>2, RepliesAre DEF Typed

LEMMA SetTyped ==
  ASSUME NEW keys, IsStore(keys), NEW k \in Texts, NEW t \in Texts, NEW o \in Set(keys, k, t)
  PROVE  Typed(o)
<1>1. o = Outcome(Assign(keys, k, StringValue(t)), Nil)
  BY DEF Set
<1>2. IsValue(StringValue(t))
  BY DEF IsValue, StringValue
<1> QED BY <1>1, <1>2, AssignTyped, RepliesAre DEF Typed, Outcome

LEMMA DelTyped ==
  ASSUME NEW keys, IsStore(keys), NEW k, NEW o \in Del(keys, k)
  PROVE  Typed(o)
<1>1. CASE o = Outcome(keys, Int64(0))
  BY <1>1, RepliesAre DEF Typed, Outcome
<1>2. CASE \E T \in Retimed(keys, keys.timed \ {k}) : o = Outcome(Left(keys, {k}, T), Int64(1))
  <2>1. PICK T \in Retimed(keys, keys.timed \ {k}) : o = Outcome(Left(keys, {k}, T), Int64(1))
    BY <1>2
  <2>2. keys.timed \ {k} \subseteq Texts
    BY DEF IsStore
  <2>3. T \subseteq Texts
    BY <2>1, <2>2, RetimedTyped
  <2> QED BY <2>1, <2>3, LeftTyped, RepliesAre DEF Typed, Outcome
<1> QED BY <1>1, <1>2 DEF Del

\* As many strings as there are keys.
LEMMA KeysTyped ==
  ASSUME NEW keys, IsStore(keys), NEW o \in Keys(keys)
  PROVE  Typed(o)
<1> DEFINE n == Cardinality(DOMAIN keys.value)
<1>1. n \in Nat
  <2>1. IsFiniteSet(DOMAIN keys.value)
    BY TextsFinite, FS_Subset DEF IsStore
  <2> QED BY <2>1, FS_CardinalityType
<1>2. PICK q \in [1..n -> DOMAIN keys.value] : o = Outcome(keys, Arr([i \in 1..n |-> Str(q[i])]))
  BY DEF Keys
<1> HIDE DEF n
<1> DEFINE names == [i \in 1..n |-> Str(q[i])]
<1>3. \A i \in 1..n : q[i] \in Texts
  BY DEF IsStore
<1>4. \A t \in Texts : Str(t) \in Singles
  BY DEF Singles
<1>5. names \in [1..n -> Singles]
  BY <1>3, <1>4
<1> HIDE DEF names
<1>6. names \in Seq(Singles)
  BY <1>1, <1>5
<1>7. o.store = keys /\ o.reply = Arr(names)
  BY <1>2 DEF Outcome, names
<1> QED BY <1>6, <1>7, RepliesAre DEF Typed

LEMMA ZAddTyped ==
  ASSUME NEW keys, IsStore(keys), NEW k \in Texts, NEW number \in Texts, NEW name \in Texts,
         NEW o \in ZAdd(keys, k, number, name)
  PROVE  Typed(o)
<1>1. CASE o = Outcome(keys, Unknown)
  BY <1>1, RepliesAre DEF Typed, Outcome
<1>2. CASE /\ Double[number] # None
           /\ SetAt(keys, k).type = "zset"
           /\ o = Added(keys, k, Double[number], name)
  <2> DEFINE score == SetAt(keys, k).score
             after == With(score, Place[name], Double[number])
  <2>1. Double[number] \in Int
    BY <1>2, TextsAssumption
  <2>2. IsValue(SetAt(keys, k))
    <3>1. IsValue(EmptySet)
      <4> DEFINE nothing == [i \in {} |-> None]
      <4>1. DOMAIN nothing \subseteq DOMAIN Named /\ nothing \in [DOMAIN nothing -> Int]
        OBVIOUS
      <4> HIDE DEF nothing
      <4>2. IsValue(SetValue(nothing))
        BY <4>1, SetValueTyped
      <4> QED BY <4>2 DEF EmptySet, nothing
    <3> QED BY <3>1 DEF SetAt, Has, IsStore
  <2>3. DOMAIN score \subseteq DOMAIN Named /\ score \in [DOMAIN score -> Int]
    BY <1>2, <2>2, ScoresTyped
  <2> HIDE DEF score
  <2>4. DOMAIN after \subseteq DOMAIN Named /\ after \in [DOMAIN after -> Int]
    BY <2>1, <2>3, PlaceIs DEF With
  <2>5. PICK n \in {0, 1} : o = Outcome(Assign(keys, k, SetValue(after)), Int64(n))
    BY <1>2 DEF Added, score
  <2> HIDE DEF after
  <2>6. IsStore(Assign(keys, k, SetValue(after)))
    BY <2>4, SetValueTyped, AssignTyped
  <2> QED BY <2>5, <2>6, RepliesAre DEF Typed, Outcome
<1> QED BY <1>1, <1>2 DEF ZAdd

LEMMA ZRemTyped ==
  ASSUME NEW keys, IsStore(keys), NEW k \in Texts, NEW name \in Texts, NEW o \in ZRem(keys, k, name)
  PROVE  Typed(o)
<1>1. CASE o = Outcome(keys, Nil) \/ o = Outcome(keys, Unknown)
  BY <1>1, RepliesAre DEF Typed, Outcome
<1>2. CASE /\ Holds(keys, k, "zset")
           /\ o = Outcome(Assign(keys, k, SetValue(Without(Scores(keys, k), {Place[name]}))),
                          Int64(IF Place[name] \in DOMAIN Scores(keys, k) THEN 1 ELSE 0))
  <2> DEFINE score == Scores(keys, k)
             after == Without(score, {Place[name]})
  <2>1. IsValue(keys.value[k]) /\ keys.value[k].type = "zset" /\ score = keys.value[k].score
    BY <1>2 DEF Holds, Has, IsStore, Scores
  <2>2. DOMAIN score \subseteq DOMAIN Named /\ score \in [DOMAIN score -> Int]
    BY <2>1, ScoresTyped
  <2>3. PICK n \in {0, 1} : o = Outcome(Assign(keys, k, SetValue(after)), Int64(n))
    BY <1>2
  <2> HIDE DEF score
  <2>4. DOMAIN after \subseteq DOMAIN Named /\ after \in [DOMAIN after -> Int]
    BY <2>2 DEF Without
  <2> HIDE DEF after
  <2>5. IsStore(Assign(keys, k, SetValue(after)))
    BY <2>4, SetValueTyped, AssignTyped
  <2> QED BY <2>3, <2>5, RepliesAre DEF Typed, Outcome
<1> QED BY <1>1, <1>2 DEF ZRem

LEMMA ZScoreTyped ==
  ASSUME NEW keys, IsStore(keys), NEW k \in Texts, NEW name \in Texts, NEW o \in ZScore(keys, k, name)
  PROVE  Typed(o)
<1>1. Holds(keys, k, "zset") /\ Place[name] \in DOMAIN Scores(keys, k) =>
        Scores(keys, k)[Place[name]] \in Int
  <2>1. Holds(keys, k, "zset") => IsValue(keys.value[k]) /\ keys.value[k].type = "zset"
    BY DEF Holds, Has, IsStore
  <2> QED BY <2>1, ScoresTyped DEF Scores
<1>2. o.store = keys /\ o.reply \in {Nil, Unknown} \cup {Dbl(x) : x \in Int}
  BY <1>1 DEF ZScore, Outcome
<1> QED BY <1>2, RepliesAre DEF Typed

LEMMA PairsTyped ==
  ASSUME NEW found, Len(found) \in Nat,
         \A i \in 1..Len(found) : found[i][1] \in DOMAIN Named /\ found[i][2] \in Int
  PROVE  Pairs(found) \in Seq(Singles)
<1> DEFINE n == Len(found)
           pair(i) == IF i % 2 = 1 THEN Str(Named[found[(i + 1) \div 2][1]]) ELSE Dbl(found[i \div 2][2])
<1>1. ASSUME NEW i \in 1..(2 * n) PROVE pair(i) \in Singles
  <2>1. CASE i % 2 = 1
    <3>1. (i + 1) \div 2 \in 1..n
      BY <2>1
    <3>2. Named[found[(i + 1) \div 2][1]] \in Texts
      BY <3>1 DEF Texts
    <3> QED BY <2>1, <3>2 DEF Singles
  <2>2. CASE i % 2 # 1
    <3>1. i \div 2 \in 1..n
      BY <2>2
    <3>2. found[i \div 2][2] \in Int
      BY <3>1
    <3> QED BY <2>2, <3>2 DEF Singles
  <2> QED BY <2>1, <2>2
<1>2. Pairs(found) = [i \in 1..(2 * n) |-> pair(i)]
  BY DEF Pairs
<1> HIDE DEF pair
<1>3. Pairs(found) \in [1..(2 * n) -> Singles]
  BY <1>1, <1>2
<1>4. 2 * n \in Nat
  OBVIOUS
<1> QED BY <1>3, <1>4

LEMMA ZQueryTyped ==
  ASSUME NEW keys, IsStore(keys), NEW k \in Texts, NEW number \in Texts, NEW name \in Texts,
         NEW offset \in Texts, NEW limit \in Texts,
         NEW o \in ZQuery(keys, k, number, name, offset, limit)
  PROVE  Typed(o)
<1> DEFINE found == Ranked(Scores(keys, k), Double[number], Place[name], Integer[offset], Integer[limit])
<1>1. CASE o = Outcome(keys, Unknown) \/ o = Outcome(keys, Arr(<< >>))
  BY <1>1, RepliesAre DEF Typed, Outcome
<1>2. CASE /\ Integer[offset] # None /\ Integer[limit] # None
           /\ Holds(keys, k, "zset")
           /\ o = Outcome(keys, Arr(Pairs(found)))
  <2> DEFINE score == Scores(keys, k)
  <2>1. IsValue(keys.value[k]) /\ keys.value[k].type = "zset" /\ score = keys.value[k].score
    BY <1>2 DEF Holds, Has, IsStore, Scores
  <2>2. DOMAIN score \subseteq DOMAIN Named /\ score \in [DOMAIN score -> Int]
    BY <2>1, ScoresTyped
  <2>3. IsFiniteSet(DOMAIN score) /\ DOMAIN score \subseteq Int
    <3>1. DOMAIN Named \subseteq Int
      BY TextsAssumption
    <3> QED BY <2>2, <3>1, TextsFinite, FS_Subset
  <2>4. Integer[offset] \in Int /\ Integer[limit] \in Int
    BY <1>2, TextsAssumption
  <2>5. Len(found) \in Nat /\ \A i \in 1..Len(found) : found[i][1] \in DOMAIN score /\ found[i][2] \in Int
    <3> HIDE DEF score
    <3>1. found = Ranked(score, Double[number], Place[name], Integer[offset], Integer[limit])
      BY DEF score
    <3> HIDE DEF found
    <3> QED BY <2>2, <2>3, <2>4, <3>1, RankedIs
  <2> HIDE DEF found, score
  <2>6. Pairs(found) \in Seq(Singles)
    BY <2>2, <2>5, PairsTyped
  <2> QED BY <1>2, <2>6, RepliesAre DEF Typed, Outcome
<1>3. \/ o = Outcome(keys, Unknown) \/ o = Outcome(keys, Arr(<< >>))
      \/ /\ Integer[offset] # None /\ Integer[limit] # None
         /\ Holds(keys, k, "zset")
         /\ o = Outcome(keys, Arr(Pairs(found)))
  <2> HIDE DEF found
  <2> QED BY DEF ZQuery, found
<1> QED BY <1>1, <1>2, <1>3

LEMMA PTTLTyped ==
  ASSUME NEW keys, IsStore(keys), NEW k, NEW o \in PTTL(keys, k)
  PROVE  Typed(o)
<1>1. PICK n \in Int : o = Outcome(keys, Int64(n))
  BY TextsAssumption DEF PTTL
<1> QED BY <1>1, RepliesAre DEF Typed, Outcome

LEMMA PExpireTyped ==
  ASSUME NEW keys, IsStore(keys), NEW k, NEW ms, NEW o \in PExpire(keys, k, ms)
  PROVE  Typed(o)
<1>1. CASE o = Exception(keys)
  BY <1>1, RepliesAre DEF Typed, Exception
<1>2. CASE o = Outcome(keys, Int64(0))
  BY <1>2, RepliesAre DEF Typed, Outcome
<1>3. CASE /\ Has(keys, k)
           /\ \E T \in Retimed(keys, keys.timed \cup {k}) :
                o = Outcome([keys EXCEPT !.timed = T], Int64(1))
  <2>1. PICK T \in Retimed(keys, keys.timed \cup {k}) :
               o = Outcome([keys EXCEPT !.timed = T], Int64(1))
    BY <1>3
  <2>2. [keys EXCEPT !.timed = T] = [value |-> keys.value, timed |-> T]
    BY DEF IsStore
  <2>3. T \subseteq Texts
    <3>1. keys.timed \cup {k} \subseteq Texts
      BY <1>3 DEF Has, IsStore
    <3> QED BY <2>1, <3>1, RetimedTyped
  <2> DEFINE after == [value |-> keys.value, timed |-> T]
  <2>4. IsStore(after)
    BY <2>3 DEF IsStore
  <2>5. o.store = after /\ o.reply = Int64(1)
    BY <2>1, <2>2 DEF Outcome
  <2> QED BY <2>4, <2>5, RepliesAre DEF Typed
<1> QED BY <1>1, <1>2, <1>3 DEF PExpire

LEMMA ExecuteTyped ==
  ASSUME NEW keys, IsStore(keys), NEW args \in Seq(Texts), NEW o \in Execute(keys, args)
  PROVE  Typed(o)
<1> DEFINE name == args[1]
<1>1. CASE o = Outcome(keys, Unknown) \/ o = Outcome(keys, Err("ERR_WRONG_ARGS_COUNT"))
  BY <1>1, RepliesAre DEF Typed, Outcome
<1>2. CASE o \in Keys(keys)
  BY <1>2, KeysTyped
<1>3. CASE /\ name \in DOMAIN ArgsCount /\ Len(args) = ArgsCount[name]
           /\ o \in CASE name = "get"     -> Get(keys, args[2])
                      [] name = "set"     -> Set(keys, args[2], args[3])
                      [] name = "del"     -> Del(keys, args[2])
                      [] name = "zadd"    -> ZAdd(keys, args[2], args[3], args[4])
                      [] name = "zrem"    -> ZRem(keys, args[2], args[3])
                      [] name = "zscore"  -> ZScore(keys, args[2], args[3])
                      [] name = "zquery"  -> ZQuery(keys, args[2], args[3], args[4], args[5], args[6])
                      [] name = "pttl"    -> PTTL(keys, args[2])
                      [] name = "pexpire" -> PExpire(keys, args[2], args[3])
  <2>1. name \in {"get", "set", "del", "zadd", "zrem", "zscore", "zquery", "pttl", "pexpire"}
    BY <1>3 DEF ArgsCount
  <2>2. \/ /\ Len(args) >= 2
           /\ o \in Get(keys, args[2]) \cup Del(keys, args[2]) \cup PTTL(keys, args[2])
        \/ /\ Len(args) >= 3
           /\ o \in Set(keys, args[2], args[3]) \cup ZRem(keys, args[2], args[3])
                      \cup ZScore(keys, args[2], args[3]) \cup PExpire(keys, args[2], args[3])
        \/ /\ Len(args) >= 4
           /\ o \in ZAdd(keys, args[2], args[3], args[4])
        \/ /\ Len(args) >= 6
           /\ o \in ZQuery(keys, args[2], args[3], args[4], args[5], args[6])
    BY <1>3, <2>1 DEF ArgsCount
  <2>3. \A i \in 1..Len(args) : args[i] \in Texts
    OBVIOUS
  <2>4. Len(args) \in Nat
    OBVIOUS
  <2>5. CASE Len(args) >= 2 /\ o \in Get(keys, args[2]) \cup Del(keys, args[2]) \cup PTTL(keys, args[2])
    BY <2>5, GetTyped, DelTyped, PTTLTyped
  <2>6. CASE /\ Len(args) >= 3
             /\ o \in Set(keys, args[2], args[3]) \cup ZRem(keys, args[2], args[3])
                        \cup ZScore(keys, args[2], args[3]) \cup PExpire(keys, args[2], args[3])
    <3>1. args[2] \in Texts /\ args[3] \in Texts
      BY <2>3, <2>4, <2>6
    <3>2. CASE o \in Set(keys, args[2], args[3])
      BY <3>1, <3>2, SetTyped
    <3>3. CASE o \in ZRem(keys, args[2], args[3])
      BY <3>1, <3>3, ZRemTyped
    <3>4. CASE o \in ZScore(keys, args[2], args[3])
      BY <3>1, <3>4, ZScoreTyped
    <3>5. CASE o \in PExpire(keys, args[2], args[3])
      BY <3>5, PExpireTyped
    <3> QED BY <2>6, <3>2, <3>3, <3>4, <3>5
  <2>7. CASE Len(args) >= 4 /\ o \in ZAdd(keys, args[2], args[3], args[4])
    <3>1. args[2] \in Texts /\ args[3] \in Texts /\ args[4] \in Texts
      BY <2>3, <2>4, <2>7
    <3> QED BY <2>7, <3>1, ZAddTyped
  <2>8. CASE Len(args) >= 6 /\ o \in ZQuery(keys, args[2], args[3], args[4], args[5], args[6])
    <3>1. /\ args[2] \in Texts /\ args[3] \in Texts /\ args[4] \in Texts
          /\ args[5] \in Texts /\ args[6] \in Texts
      BY <2>3, <2>4, <2>8
    <3> QED BY <2>8, <3>1, ZQueryTyped
  <2> QED BY <2>2, <2>5, <2>6, <2>7, <2>8
<1> QED BY <1>1, <1>2, <1>3 DEF Execute
-----------------------------------------------------------------------------
(* Streams                                                                 *)

Messages(q) == IsSequence(q) /\ \A i \in 1..Len(q) : q[i].length \in Nat

\* A message takes bytes, and where the next begins, this one ends.
LEMMA UptoFacts ==
  ASSUME NEW q, Messages(q)
  PROVE  /\ Upto(q, 0) = 0
         /\ \A i \in 0..Len(q) : Upto(q, i) \in Nat
         /\ \A i \in 1..Len(q) : Size(q[i]) \in Nat \ {0} /\ Upto(q, i) = Upto(q, i - 1) + Size(q[i])
         /\ \A i \in 0..Len(q) : Upto(q, i) <= Upto(q, Len(q))
<1> DEFINE sizes == [i \in DOMAIN q |-> Size(q[i])]
<1>1. Len(q) \in Nat /\ DOMAIN q = 1..Len(q)
  BY SequenceIsFunction DEF Messages
<1>2. \A i \in 1..Len(q) : Size(q[i]) \in Nat \ {0}
  BY WireAssumption DEF Messages, Size
<1>3. Naturals(sizes, Len(q))
  BY <1>1, <1>2 DEF Naturals
<1>4. \A i \in 1..Len(q) : sizes[i] = Size(q[i])
  BY <1>1
<1>5. \A n : Upto(q, n) = SumTo(sizes, n)
  BY DEF Upto
<1> HIDE DEF sizes
<1>6. /\ SumTo(sizes, 0) = 0
      /\ \A i \in 0..Len(q) : SumTo(sizes, i) \in Nat
      /\ \A i \in 1..Len(q) : SumTo(sizes, i) = SumTo(sizes, i - 1) + sizes[i]
  BY <1>1, <1>3, SumToSteps
<1>7. \A i \in 0..Len(q) : SumTo(sizes, i) <= SumTo(sizes, Len(q))
  <2> TAKE i \in 0..Len(q)
  <2>1. Len(q) \in i..Len(q)
    BY <1>1
  <2> QED BY <1>1, <1>3, <2>1, SumToMonotone
<1> QED BY <1>2, <1>4, <1>5, <1>6, <1>7

LEMMA UptoAppend ==
  ASSUME NEW q, Messages(q), NEW x, x.length \in Nat
  PROVE  /\ Messages(Append(q, x))
         /\ Len(Append(q, x)) = Len(q) + 1
         /\ \A i \in 1..Len(q) : Append(q, x)[i] = q[i]
         /\ Append(q, x)[Len(q) + 1] = x
         /\ \A i \in 0..Len(q) : Upto(Append(q, x), i) = Upto(q, i)
         /\ Upto(Append(q, x), Len(q) + 1) = Upto(q, Len(q)) + Size(x)
<1> DEFINE r == Append(q, x)
           sizes == [i \in DOMAIN q |-> Size(q[i])]
           more == [i \in DOMAIN r |-> Size(r[i])]
<1>1. Len(q) \in Nat /\ DOMAIN q = 1..Len(q)
  BY SequenceIsFunction DEF Messages
<1>2. /\ Len(r) = Len(q) + 1 /\ r[Len(q) + 1] = x
      /\ \A i \in 1..Len(q) : r[i] = q[i]
  <2>1. PICK S : q \in Seq(S)
    BY DEF Messages, IsSequence
  <2>2. q \in Seq(S \cup {x})
    BY <2>1
  <2> QED BY <2>2
<1>3. IsSequence(r)
  BY Appended DEF Messages
<1> HIDE DEF r
<1>4. Messages(r)
  BY <1>1, <1>2, <1>3 DEF Messages
<1>5. DOMAIN r = 1..(Len(q) + 1)
  BY <1>2, <1>3, SequenceIsFunction
<1>6. \A i \in 0..Len(q) : Upto(r, i) = Upto(q, i)
  <2>1. \A i \in 1..Len(q) : more[i] = sizes[i]
    BY <1>1, <1>2, <1>5
  <2>2. Naturals(sizes, Len(q))
    BY <1>1, UptoFacts DEF Naturals
  <2>3. \A n : Upto(r, n) = SumTo(more, n) /\ Upto(q, n) = SumTo(sizes, n)
    BY DEF Upto
  <2> HIDE DEF sizes, more
  <2> QED BY <1>1, <2>1, <2>2, <2>3, SumToSame
<1>7. Upto(r, Len(q) + 1) = Upto(r, Len(q)) + Size(x)
  <2>1. Len(q) + 1 \in 1..Len(r) /\ (Len(q) + 1) - 1 = Len(q)
    BY <1>1, <1>2
  <2>2. Upto(r, Len(q) + 1) = Upto(r, (Len(q) + 1) - 1) + Size(r[Len(q) + 1])
    BY <1>4, <2>1, UptoFacts
  <2> QED BY <1>2, <2>1, <2>2
<1>8. Len(q) \in 0..Len(q)
  BY <1>1
<1> QED BY <1>2, <1>4, <1>6, <1>7, <1>8 DEF r

\* Wherever a read or a write ends, it ends within the stream.
LEMMA CutsWithin ==
  ASSUME NEW q, Messages(q), NEW n \in Cuts(q)
  PROVE  n \in 0..Upto(q, Len(q))
<1>1. Len(q) \in Nat /\ DOMAIN q = 1..Len(q)
  BY SequenceIsFunction DEF Messages
<1>2. PICK i \in 1..Len(q) : n \in {Upto(q, i), Upto(q, i) - 1, Upto(q, i - 1) + 1}
  BY <1>1 DEF Cuts
<1>3. i \in 0..Len(q) /\ i - 1 \in 0..Len(q) /\ Len(q) \in 0..Len(q)
  BY <1>1
<1>4. /\ Size(q[i]) \in Nat \ {0} /\ Upto(q, i) = Upto(q, i - 1) + Size(q[i])
      /\ Upto(q, i - 1) \in Nat /\ Upto(q, i) \in Nat /\ Upto(q, Len(q)) \in Nat
      /\ Upto(q, i) <= Upto(q, Len(q))
  BY <1>3, UptoFacts
<1> QED BY <1>2, <1>4

\* The requests on their way.
LEMMA RequestedIs ==
  ASSUME asked \in Seq(Requests)
  PROVE  /\ Messages(Requested)
         /\ Len(Requested) = Len(asked) /\ Len(asked) \in Nat
         /\ \A i \in 1..Len(asked) : /\ Requested[i] = Request(asked[i])
                                     /\ asked[i] \in Seq(Texts) \ {<< >>}
<1>1. Len(asked) \in Nat /\ DOMAIN asked = 1..Len(asked) /\ \A i \in 1..Len(asked) : asked[i] \in Requests
  OBVIOUS
<1>2. DOMAIN Requested = 1..Len(asked) /\ Requested = [i \in 1..Len(asked) |-> Requested[i]]
  BY <1>1 DEF Requested
<1>3. IsSequence(Requested) /\ Len(Requested) = Len(asked)
  BY <1>1, <1>2, FunctionIsSequence
<1>4. \A i \in 1..Len(asked) : Requested[i] = Request(asked[i]) /\ asked[i] \in Seq(Texts) \ {<< >>}
  BY <1>1, SessionAssumption DEF Requested, Encoded
<1>5. \A i \in 1..Len(asked) : Request(asked[i]).length \in Nat
  BY <1>4, RequestIs
<1> QED BY <1>1, <1>3, <1>4, <1>5 DEF Messages

\* One request more, behind the others.
LEMMA RequestedMore ==
  ASSUME asked \in Seq(Requests), NEW args \in Requests, asked' = Append(asked, args)
  PROVE  /\ asked' \in Seq(Requests) /\ Len(asked') = Len(asked) + 1
         /\ Requested' = Append(Requested, Request(args))
         /\ Request(args).length \in Nat
<1>1. asked' \in Seq(Requests) /\ Len(asked') = Len(asked) + 1
  OBVIOUS
<1>2. Request(args).length \in Nat
  BY SessionAssumption, RequestIs
<1>3. Len(asked) \in Nat /\ DOMAIN asked' = 1..(Len(asked) + 1)
  BY <1>1
<1>4. DOMAIN Requested' = 1..(Len(asked) + 1) /\ Requested' = [i \in 1..(Len(asked) + 1) |-> Requested'[i]]
  BY <1>3 DEF Requested
<1>5. \A i \in 1..(Len(asked) + 1) : Requested'[i] = Request(asked'[i])
  <2>1. \A i \in 1..(Len(asked) + 1) : asked'[i] \in Requests
    BY <1>1
  <2> QED BY <1>3, <2>1 DEF Requested, Encoded
<1> DEFINE r == Append(Requested, Request(args))
<1>6. /\ Messages(Requested) /\ Len(Requested) = Len(asked)
      /\ \A i \in 1..Len(asked) : Requested[i] = Request(asked[i])
  BY RequestedIs
<1>7. /\ Messages(r) /\ Len(r) = Len(asked) + 1 /\ r[Len(asked) + 1] = Request(args)
      /\ \A i \in 1..Len(asked) : r[i] = Requested[i]
  BY <1>2, <1>6, UptoAppend
<1> HIDE DEF r
<1>8. r = [i \in 1..(Len(asked) + 1) |-> r[i]]
  BY <1>7, SequenceIsFunction DEF Messages
<1>9. \A i \in 1..(Len(asked) + 1) : Requested'[i] = r[i]
  <2> TAKE i \in 1..(Len(asked) + 1)
  <2>1. CASE i = Len(asked) + 1
    BY <1>5, <1>7, <2>1
  <2>2. CASE i \in 1..Len(asked)
    BY <1>5, <1>6, <1>7, <2>2
  <2> QED BY <1>3, <2>1, <2>2
<1>10. Requested' = r
  BY <1>4, <1>8, <1>9
<1> QED BY <1>1, <1>2, <1>10 DEF r
-----------------------------------------------------------------------------
(* The session                                                             *)

\* What is where: the bytes read reach as far as the requests taken, and the
\* bytes written no further than the replies.
Framed ==
  /\ pc \in {"poll", "pass", "sweep"} /\ processed \in 0..MaxRequests
  /\ want \in {"read", "write"} /\ talking \in BOOLEAN
  /\ asked \in Seq(Requests)
  /\ taken \in 0..Len(asked)
  /\ received \in Nat /\ Upto(Requested, taken) <= received /\ received <= Sent
  /\ Messages(queued)
  /\ written \in 0..Queued
  /\ IsStore(store)

\* A connection wants to read only if nothing is left to be written; and if it
\* is not in the middle of a pass, only if it has no request to answer.  In a
\* pass, it has answered none then.
Settled ==
  /\ want = "read" => written = Queued
  /\ want = "read" /\ pc \in {"poll", "sweep"} => Parsed.result = "wait"
  /\ want = "read" /\ pc = "pass" => processed = 0

FlowInv == Framed /\ Settled

LEMMA FlowInit == Init => FlowInv
<1> SUFFICES ASSUME Init PROVE FlowInv
  OBVIOUS
<1>1. asked \in Seq(Requests) /\ Len(asked) = 0 /\ Messages(queued) /\ Len(queued) = 0
  <2>1. queued \in Seq({}) /\ Len(queued) = 0
    BY DEF Init
  <2> QED BY <2>1 DEF Init, Messages, IsSequence
<1>2. Upto(Requested, 0) = 0 /\ Sent = 0 /\ Queued = 0
  <2>1. Messages(Requested) /\ Len(Requested) = 0
    BY <1>1, RequestedIs
  <2> QED BY <1>1, <2>1, UptoFacts DEF Sent, Queued
<1>3. Buffered = 0
  BY <1>2 DEF Buffered, Init
<1>4. Parsed.result = "wait"
  BY <1>3 DEF Parsed
<1> QED BY <1>1, <1>2, <1>4, SessionAssumption DEF Init, FlowInv, Framed, Settled

\* What the parser finds is the next request, if anything.
LEMMA ParsedIs ==
  ASSUME Framed
  PROVE  /\ Parsed.result \in {"wait", "throws", "request"}
         /\ Parsed.result # "wait" =>
              /\ taken + 1 \in 1..Len(asked)
              /\ asked[taken + 1] \in Seq(Texts) \ {<< >>}
         /\ Parsed.result = "request" =>
              /\ Upto(Requested, taken + 1) <= received
              /\ Parsed.args = Lowered(asked[taken + 1])
         /\ Parsed.result = "throws" =>
              ~ (Request(asked[taken + 1]).length <= MaxMsg /\ Len(asked[taken + 1]) <= MaxArgs)
<1>1. /\ Messages(Requested) /\ Len(Requested) = Len(asked) /\ Len(asked) \in Nat
      /\ taken \in 0..Len(asked) /\ received \in Nat
      /\ Upto(Requested, taken) <= received /\ received <= Upto(Requested, Len(asked))
  BY RequestedIs DEF Framed, Sent
<1>2. Upto(Requested, taken) \in Nat
  BY <1>1, UptoFacts
<1>3. Buffered \in Nat /\ Buffered = received - Upto(Requested, taken)
  BY <1>1, <1>2 DEF Buffered
<1>4. CASE Buffered = 0
  BY <1>4 DEF Parsed
<1>5. CASE Buffered # 0
  <2> DEFINE args == asked[taken + 1]
  <2>1. taken # Len(asked)
    BY <1>1, <1>2, <1>3, <1>5
  <2>2. taken + 1 \in 1..Len(asked)
    BY <1>1, <2>1
  <2>3. args \in Seq(Texts) \ {<< >>} /\ Requested[taken + 1] = Request(args)
    BY <2>2, RequestedIs DEF Framed
  <2>4. Upto(Requested, taken + 1) = Upto(Requested, taken) + Size(Request(args))
        /\ Size(Request(args)) \in Nat
    <3>1. taken + 1 \in 1..Len(Requested) /\ (taken + 1) - 1 = taken
      BY <1>1, <2>2
    <3>2. /\ Upto(Requested, taken + 1) = Upto(Requested, (taken + 1) - 1) + Size(Requested[taken + 1])
          /\ Size(Requested[taken + 1]) \in Nat
      BY <1>1, <3>1, UptoFacts
    <3> QED BY <2>3, <3>1, <3>2
  <2>5. Parsed = Parse(Buffered, Request(args))
    BY <1>5, <2>3 DEF Parsed
  <2> HIDE DEF args
  <2>6. /\ Parsed.result \in {"wait", "throws", "request"}
        /\ Parsed.result = "request" => Size(Request(args)) <= Buffered /\ Parsed.args = Lowered(args)
        /\ Request(args).length <= MaxMsg /\ Len(args) <= MaxArgs => Parsed.result # "throws"
    BY <1>3, <2>3, <2>5, ParseIs
  <2>7. Parsed.result = "request" => Upto(Requested, taken + 1) <= received
    BY <1>1, <1>2, <1>3, <2>4, <2>6
  <2> QED BY <2>2, <2>3, <2>6, <2>7 DEF args
<1> QED BY <1>4, <1>5

\* What is parsed depends on what has been read and taken only.
LEMMA ParsedSame ==
  ASSUME Framed, UNCHANGED <<received, taken>>,
         UNCHANGED asked \/ \E args \in Requests : asked' = Append(asked, args)
  PROVE  /\ Parsed' = Parsed
         /\ asked' \in Seq(Requests) /\ taken \in 0..Len(asked')
         /\ (Upto(Requested, taken) <= received /\ received <= Sent)'
<1>1. CASE UNCHANGED asked
  BY <1>1 DEF Framed, Parsed, Buffered, Requested, Sent
<1>2. CASE \E args \in Requests : asked' = Append(asked, args)
  <2>1. PICK args \in Requests : asked' = Append(asked, args)
    BY <1>2
  <2>2. /\ Messages(Requested) /\ Len(Requested) = Len(asked) /\ Len(asked) \in Nat
        /\ taken \in 0..Len(asked) /\ received \in Nat
        /\ Upto(Requested, taken) <= received /\ received <= Upto(Requested, Len(asked))
    BY RequestedIs DEF Framed, Sent
  <2>3. /\ asked' \in Seq(Requests) /\ Len(asked') = Len(asked) + 1
        /\ Requested' = Append(Requested, Request(args)) /\ Request(args).length \in Nat
    BY <2>1, RequestedMore DEF Framed
  <2>4. /\ Len(Requested') = Len(asked) + 1
        /\ \A i \in 1..Len(asked) : Requested'[i] = Requested[i]
        /\ \A i \in 0..Len(asked) : Upto(Requested', i) = Upto(Requested, i)
        /\ Upto(Requested', Len(asked) + 1) = Upto(Requested, Len(asked)) + Size(Request(args))
    BY <2>2, <2>3, UptoAppend
  <2>5. Size(Request(args)) \in Nat /\ Upto(Requested, Len(asked)) \in Nat /\ Upto(Requested, taken) \in Nat
    <3>1. Len(asked) \in 0..Len(asked)
      BY <2>2
    <3>2. Upto(Requested, Len(asked)) \in Nat /\ Upto(Requested, taken) \in Nat
      BY <2>2, <3>1, UptoFacts
    <3>3. Size(Request(args)) \in Nat
      BY <2>3, WireAssumption DEF Size
    <3> QED BY <3>2, <3>3
  <2>6. Upto(Requested', taken') = Upto(Requested, taken)
    BY <2>2, <2>4
  <2>7. Sent' = Upto(Requested, Len(asked)) + Size(Request(args))
    BY <2>4 DEF Sent
  <2>8. Buffered' = Buffered
    BY <2>6 DEF Buffered
  <2>9. Parsed' = Parsed
    <3>1. CASE Buffered = 0
      BY <2>8, <3>1 DEF Parsed
    <3>2. CASE Buffered # 0
      <4>1. taken # Len(asked)
        BY <2>2, <2>5, <3>2 DEF Buffered
      <4>2. taken + 1 \in 1..Len(asked)
        BY <2>2, <4>1
      <4>3. Requested'[taken' + 1] = Requested[taken + 1]
        BY <2>4, <4>2
      <4> QED BY <2>8, <3>2, <4>3 DEF Parsed
    <3> QED BY <3>1, <3>2
  <2> QED BY <2>2, <2>3, <2>5, <2>6, <2>7, <2>9
<1> QED BY <1>1, <1>2

\* What a round of the pass does is typed.
LEMMA RoundTyped ==
  ASSUME Framed, Parsed.result \in {"request", "throws"}, NEW o \in Round
  PROVE  Typed(o)
<1>1. CASE Parsed.result = "throws"
  BY <1>1, RepliesAre DEF Round, Typed, Exception, Framed
<1>2. CASE Parsed.result = "request"
  <2>1. asked[taken + 1] \in Seq(Texts) \ {<< >>} /\ Parsed.args = Lowered(asked[taken + 1])
    BY <1>2, ParsedIs
  <2>2. Parsed.args \in Seq(Texts)
    BY <2>1, LoweredTexts
  <2>3. o \in Execute(store, Parsed.args)
    BY <1>2 DEF Round
  <2> QED BY <2>2, <2>3, ExecuteTyped DEF Framed
<1> QED BY <1>1, <1>2

LEMMA FlowStep == FlowInv /\ [Next]_vars => FlowInv'
<1> SUFFICES ASSUME FlowInv, [Next]_vars PROVE FlowInv'
  OBVIOUS
<1> USE DEF FlowInv
<1>1. CASE UNCHANGED vars
  <2>1. UNCHANGED <<pc, processed, want, asked, received, taken, queued, written, talking, store>>
    BY <1>1 DEF vars
  <2>2. UNCHANGED <<Requested, Sent, Queued, Parsed>>
    BY <2>1 DEF Requested, Sent, Queued, Parsed, Buffered
  <2> QED BY <2>1, <2>2 DEF Framed, Settled
<1>2. CASE \E args \in Requests : Ask(args)
  <2>1. PICK args \in Requests : Ask(args)
    BY <1>2
  <2>2. /\ UNCHANGED <<pc, processed, want, received, taken, queued, written, store>>
        /\ UNCHANGED asked \/ asked' = Append(asked, args)
        /\ talking' \in BOOLEAN
    BY <2>1 DEF Ask, Framed
  <2>3. /\ Parsed' = Parsed /\ asked' \in Seq(Requests) /\ taken \in 0..Len(asked')
        /\ (Upto(Requested, taken) <= received /\ received <= Sent)'
    BY <2>2, ParsedSame
  <2>4. Queued' = Queued
    BY <2>2 DEF Queued
  <2> QED BY <2>2, <2>3, <2>4 DEF Framed, Settled
<1>3. CASE Show
  <2>1. /\ UNCHANGED <<pc, processed, want, asked, received, taken, queued, written, store>>
        /\ talking' \in BOOLEAN
    BY <1>3 DEF Show, Framed
  <2>2. UNCHANGED <<Requested, Sent, Queued, Parsed>>
    BY <2>1 DEF Requested, Sent, Queued, Parsed, Buffered
  <2> QED BY <2>1, <2>2 DEF Framed, Settled
<1>4. CASE Read
  <2>1. /\ want = "read" /\ pc' = "pass" /\ processed' = 0
        /\ UNCHANGED <<want, asked, taken, queued, written, talking, store>>
    BY <1>4 DEF Read, StartPass
  <2>2. PICK n \in Cuts(Requested) : received < n /\ received' = n
    BY <1>4 DEF Read
  <2>3. Messages(Requested) /\ Len(Requested) = Len(asked)
    BY RequestedIs DEF Framed
  <2>4. n \in 0..Sent
    BY <2>3, CutsWithin DEF Sent
  <2>5. UNCHANGED <<Requested, Sent, Queued>>
    BY <2>1 DEF Requested, Sent, Queued
  <2>6. Upto(Requested, taken) \in Nat
    BY <2>3, UptoFacts DEF Framed
  <2>7. received' \in Nat /\ received' <= Sent /\ Upto(Requested, taken) <= received'
    <3>1. received \in Nat /\ Upto(Requested, taken) <= received
      BY DEF Framed
    <3> HIDE DEF FlowInv
    <3> QED BY <2>2, <2>4, <2>6, <3>1
  <2> QED BY <2>1, <2>5, <2>7, SessionAssumption DEF Framed, Settled
<1>5. CASE Write
  <2>1. /\ pc' = "pass" /\ processed' = 0
        /\ UNCHANGED <<asked, received, taken, queued, talking, store>>
    BY <1>5 DEF Write, StartPass
  <2>2. PICK n \in Cuts(queued) : written' = n /\ want' = IF WrittenOut(n) THEN "read" ELSE want
    BY <1>5 DEF Write
  <2>3. n \in 0..Queued
    BY CutsWithin DEF Framed, Queued
  <2>4. UNCHANGED <<Requested, Sent, Queued>>
    BY <2>1 DEF Requested, Sent, Queued
  <2>5. want = "write"
    BY <1>5 DEF Write
  <2>6. want' = "read" => written' = Queued
    BY <2>2, <2>5 DEF WrittenOut
  <2> QED BY <2>1, <2>2, <2>3, <2>4, <2>5, <2>6, SessionAssumption DEF Framed, Settled
<1>6. CASE Idle
  <2>1. /\ pc' = "pass" /\ processed' = 0 /\ pc = "poll"
        /\ UNCHANGED <<want, asked, received, taken, queued, written, talking, store>>
    BY <1>6 DEF Idle, StartPass
  <2>2. UNCHANGED <<Requested, Sent, Queued>>
    BY <2>1 DEF Requested, Sent, Queued
  <2> QED BY <2>1, <2>2, SessionAssumption DEF Framed, Settled
<1>7. CASE Answer
  <2>1. /\ processed < MaxRequests /\ Parsed.result \in {"request", "throws"}
        /\ taken' = IF Parsed.result = "request" THEN taken + 1 ELSE taken
        /\ UNCHANGED <<asked, received, written, talking>>
    BY <1>7 DEF Answer
  <2>2. PICK o \in Round :
          /\ store' = o.store /\ queued' = Append(queued, Serialize(o.reply)) /\ want' = "write"
          /\ pc' \in {"sweep", "pass"} /\ processed' \in {processed, processed + 1}
    BY <1>7 DEF Answer, Queue
  <2>3. IsStore(store') /\ Serialize(o.reply).length \in Nat
    BY <2>1, <2>2, RoundTyped, SerializeIs DEF Typed
  <2>4. /\ Messages(queued')
        /\ Queued' = Queued + Size(Serialize(o.reply))
    <3>1. /\ Messages(queued') /\ Len(queued') = Len(queued) + 1
          /\ Upto(queued', Len(queued) + 1) = Upto(queued, Len(queued)) + Size(Serialize(o.reply))
      BY <2>2, <2>3, UptoAppend DEF Framed
    <3> QED BY <3>1 DEF Queued
  <2>5. written' \in 0..(Queued')
    <3>1. Queued \in Nat
      <4>1. Len(queued) \in 0..Len(queued)
        BY SequenceIsFunction DEF Framed, Messages
      <4> QED BY <4>1, UptoFacts DEF Queued, Framed
    <3>2. Size(Serialize(o.reply)) \in Nat
      BY <2>3, WireAssumption DEF Size
    <3> QED BY <2>1, <2>4, <3>1, <3>2 DEF Framed
  <2>6. /\ taken' \in 0..Len(asked)
        /\ Upto(Requested, taken') <= received
    <3>1. CASE Parsed.result = "request"
      BY <2>1, <3>1, ParsedIs DEF Framed
    <3>2. CASE Parsed.result = "throws"
      BY <2>1, <3>2 DEF Framed
    <3> QED BY <2>1, <3>1, <3>2
  <2>7. UNCHANGED <<Requested, Sent>>
    BY <2>1 DEF Requested, Sent
  <2>8. processed' \in 0..MaxRequests
    BY <2>1, <2>2, SessionAssumption DEF Framed
  <2>9. Framed'
    BY <2>1, <2>2, <2>3, <2>4, <2>5, <2>6, <2>7, <2>8 DEF Framed
  <2> QED BY <2>2, <2>9 DEF Settled
<1>8. CASE EndPass
  <2>1. /\ pc = "pass" /\ pc' = "sweep"
        /\ (processed = MaxRequests \/ Parsed.result = "wait")
        /\ UNCHANGED <<processed, want, asked, received, taken, queued, written, talking, store>>
    BY <1>8 DEF EndPass
  <2>2. UNCHANGED <<Requested, Sent, Queued, Parsed>>
    BY <2>1 DEF Requested, Sent, Queued, Parsed, Buffered
  <2>3. want = "read" => Parsed.result = "wait"
    BY <1>8, SessionAssumption DEF EndPass, Settled
  <2> QED BY <1>8, <2>1, <2>2, <2>3 DEF Framed, Settled, EndPass
<1>9. CASE Sweep
  <2>1. /\ pc = "sweep" /\ pc' = "poll"
        /\ UNCHANGED <<processed, want, asked, received, taken, queued, written, talking>>
    BY <1>9 DEF Sweep
  <2>2. UNCHANGED <<Requested, Sent, Queued, Parsed>>
    BY <2>1 DEF Requested, Sent, Queued, Parsed, Buffered
  <2>3. IsStore(store')
    BY <1>9, ExpiredTyped DEF Sweep, Framed
  <2> QED BY <2>1, <2>2, <2>3 DEF Framed, Settled
<1> QED BY <1>1, <1>2, <1>3, <1>4, <1>5, <1>6, <1>7, <1>8, <1>9 DEF Next, Server

LEMMA FlowAlways == Spec => []FlowInv
BY FlowInit, FlowStep, PTL DEF Spec

\* No request is taken out of the buffer, and no byte of a reply written, before
\* it is there, wherever reads and writes end; and commands leave keys that are
\* well formed behind, whatever clients send.
THEOREM TypeCorrect == Spec => []TypeOK
<1>1. FlowInv => TypeOK
  BY DEF FlowInv, Framed, TypeOK
<1> QED BY <1>1, FlowAlways, PTL

\* When the server waits for more to read, it has answered all the requests it
\* has, and sent the answers, for any batch and any size of messages.
THEOREM ReadingWhenDone == Spec => []ReadingMeansDone
<1>1. FlowInv => ReadingMeansDone
  BY DEF FlowInv, Settled, ReadingMeansDone
<1> QED BY <1>1, FlowAlways, PTL
-----------------------------------------------------------------------------
(* The service                                                             *)

\* The server takes every request the client can send: kMaxArg is no more than
\* kMaxMsg, and no request has more than kMaxArgs strings.
TakesWhatIsSent ==
  /\ MaxArg <= MaxMsg
  /\ \A args \in Requests : CanSend(args) => Len(args) <= MaxArgs

\* One reply for every request taken, and no reply shown that is not there.
Answered ==
  /\ \A i \in 1..Len(asked) : CanSend(asked[i])
  /\ Len(queued) = taken
  /\ Len(shown) \in 0..taken

Results == [i \in DOMAIN queued |-> PrintAll(queued[i])]

LEMMA ResultsIs ==
  ASSUME Messages(queued)
  PROVE  Len(Results) = Len(queued) /\ \A i \in 1..Len(queued) : Results[i] = PrintAll(queued[i])
<1>1. Len(queued) \in Nat /\ DOMAIN queued = 1..Len(queued)
  BY SequenceIsFunction DEF Messages
<1>2. DOMAIN Results = 1..Len(queued) /\ Results = [i \in 1..Len(queued) |-> Results[i]]
  BY <1>1 DEF Results
<1>3. Len(Results) = Len(queued)
  BY <1>1, <1>2, FunctionIsSequence
<1> QED BY <1>1, <1>3 DEF Results

LEMMA ResultsMore ==
  ASSUME Messages(queued), NEW x, x.length \in Nat, queued' = Append(queued, x)
  PROVE  Results' = Append(Results, PrintAll(x))
<1> DEFINE n == Len(queued)
           r == Append(Results, PrintAll(x))
<1>1. n \in Nat /\ DOMAIN queued = 1..n
  BY SequenceIsFunction DEF Messages
<1>2. DOMAIN Results = 1..n /\ Results = [i \in 1..n |-> Results[i]]
  BY <1>1 DEF Results
<1>3. IsSequence(Results) /\ Len(Results) = n
  BY <1>1, <1>2, FunctionIsSequence
<1>4. /\ Messages(queued') /\ Len(queued') = n + 1 /\ queued'[n + 1] = x
      /\ \A i \in 1..n : queued'[i] = queued[i]
  BY UptoAppend
<1>5. DOMAIN queued' = 1..(n + 1)
  BY <1>4, SequenceIsFunction DEF Messages
<1>6. r = [i \in 1..(n + 1) |-> r[i]] /\ r[n + 1] = PrintAll(x) /\ \A i \in 1..n : r[i] = Results[i]
  <2>1. PICK S : Results \in Seq(S)
    BY <1>3 DEF IsSequence
  <2>2. Results \in Seq(S \cup {PrintAll(x)})
    BY <2>1
  <2>3. /\ r \in Seq(S \cup {PrintAll(x)}) /\ Len(r) = Len(Results) + 1
        /\ r[Len(Results) + 1] = PrintAll(x) /\ \A i \in 1..Len(Results) : r[i] = Results[i]
    BY <2>2
  <2> HIDE DEF n, r
  <2> QED BY <1>3, <2>3
<1>7. DOMAIN Results' = 1..(n + 1) /\ Results' = [i \in 1..(n + 1) |-> Results'[i]]
  BY <1>5 DEF Results
<1>8. \A i \in 1..(n + 1) : Results'[i] = PrintAll(queued'[i])
  BY <1>5 DEF Results
<1>9. \A i \in 1..n : Results[i] = PrintAll(queued[i])
  BY <1>1 DEF Results
<1> HIDE DEF r
<1>10. \A i \in 1..(n + 1) : Results'[i] = r[i]
  <2> TAKE i \in 1..(n + 1)
  <2>1. CASE i = n + 1
    BY <1>4, <1>6, <1>8, <2>1
  <2>2. CASE i \in 1..n
    BY <1>4, <1>6, <1>8, <1>9, <2>2
  <2> QED BY <1>1, <2>1, <2>2
<1> QED BY <1>6, <1>7, <1>10 DEF r

\* With every request that is sent taken, the parser never throws.
LEMMA NeverThrows ==
  ASSUME TakesWhatIsSent, Framed, Answered
  PROVE  Parsed.result # "throws"
<1> SUFFICES ASSUME Parsed.result = "throws" PROVE FALSE
  OBVIOUS
<1> DEFINE args == asked[taken + 1]
<1>1. /\ taken + 1 \in 1..Len(asked) /\ args \in Seq(Texts)
      /\ ~ (Request(args).length <= MaxMsg /\ Len(args) <= MaxArgs)
  BY ParsedIs
<1>2. args \in Requests /\ CanSend(args)
  BY <1>1 DEF Framed, Answered
<1>3. Request(args).length \in Nat /\ MaxArg \in Nat /\ MaxMsg \in Nat
  BY <1>1, RequestIs, WireAssumption
<1> HIDE DEF args
<1> QED BY <1>1, <1>2, <1>3 DEF TakesWhatIsSent, CanSend

\* Every step of the session is one of the service, or none.
LEMMA ServiceStep ==
  ASSUME TakesWhatIsSent, FlowInv, Answered, [Next]_vars
  PROVE  Answered' /\ [Promise!Next]_(Promise!serviceVars)
<1> USE DEF FlowInv
<1>0. ASSUME UNCHANGED <<asked, queued, shown, store, taken>>
      PROVE  Answered' /\ UNCHANGED Promise!serviceVars
  <2>1. Answered'
    BY <1>0 DEF Answered
  <2>2. UNCHANGED Promise!serviceVars
    BY <1>0 DEF Promise!serviceVars
  <2> QED BY <2>1, <2>2
<1>1. CASE UNCHANGED vars
  <2>1. UNCHANGED <<asked, queued, shown, store, taken>>
    BY <1>1 DEF vars
  <2> QED BY <1>0, <2>1
<1>2. CASE \E args \in Requests : Ask(args)
  <2>1. PICK args \in Requests : Ask(args)
    BY <1>2
  <2>2. UNCHANGED <<taken, queued, shown, store>>
    BY <2>1 DEF Ask
  <2>3. CASE UNCHANGED asked
    BY <1>0, <2>2, <2>3
  <2>4. CASE CanSend(args) /\ asked' = Append(asked, args)
    <3>1. Answered'
      <4>1. asked \in Seq(Requests)
        BY DEF Framed
      <4>2. Len(asked') = Len(asked) + 1 /\ \A i \in 1..(Len(asked) + 1) :
              asked'[i] = IF i = Len(asked) + 1 THEN args ELSE asked[i]
        BY <2>4, <4>1
      <4> QED BY <2>2, <2>4, <4>1, <4>2 DEF Answered
    <3>2. Promise!Ask(args)
      BY <2>2, <2>4 DEF Promise!Ask
    <3> QED BY <3>1, <3>2 DEF Promise!Next
  <2> QED BY <2>1, <2>3, <2>4 DEF Ask
<1>3. CASE Show
  <2>1. UNCHANGED <<asked, taken, queued, store>> /\ Len(shown) < Len(queued)
    BY <1>3 DEF Show
  <2>2. CASE UNCHANGED shown
    BY <1>0, <2>1, <2>2
  <2>3. CASE shown' = Append(shown, PrintAll(queued[Len(shown) + 1]))
    <3>1. Len(shown) + 1 \in 1..Len(queued)
      BY <2>1 DEF Answered, Framed
    <3>2. Len(Results) = Len(queued) /\ Results[Len(shown) + 1] = PrintAll(queued[Len(shown) + 1])
      BY <3>1, ResultsIs DEF Framed
    <3>3. Promise!Show
      BY <2>1, <2>3, <3>2 DEF Promise!Show, Results
    <3>4. Answered'
      BY <2>1, <2>3, <3>1 DEF Answered
    <3> QED BY <3>3, <3>4 DEF Promise!Next
  <2> QED BY <1>3, <2>2, <2>3 DEF Show
<1>4. CASE Read \/ Write \/ Idle \/ EndPass
  <2>1. UNCHANGED <<asked, queued, shown, store, taken>>
    BY <1>4 DEF Read, Write, Idle, EndPass
  <2> QED BY <1>0, <2>1
<1>5. CASE Answer
  <2>1. Parsed.result = "request"
    BY <1>5, NeverThrows DEF Answer
  <2>2. /\ taken' = taken + 1 /\ UNCHANGED <<asked, shown>>
    BY <1>5, <2>1 DEF Answer
  <2>3. PICK o \in Round : store' = o.store /\ queued' = Append(queued, Serialize(o.reply))
    BY <1>5 DEF Answer, Queue
  <2>4. /\ taken + 1 \in 1..Len(asked)
        /\ Parsed.args = Lowered(asked[taken + 1])
    BY <2>1, ParsedIs
  <2>5. o \in Execute(store, Lowered(asked[taken + 1])) /\ o.reply \in Replies
    BY <2>1, <2>3, <2>4, RoundTyped DEF Round, Typed
  <2>6. /\ Serialize(o.reply).length \in Nat
        /\ PrintAll(Serialize(o.reply)) = Fitting(o.reply)
    BY <2>5, SerializeIs
  <2>7. Len(queued') = Len(queued) + 1
    BY <2>3, <2>6, UptoAppend DEF Framed
  <2>8. Results' = Append(Results, Fitting(o.reply))
    BY <2>3, <2>6, ResultsMore DEF Framed
  <2>9. Len(Results) = taken
    BY ResultsIs DEF Framed, Answered
  <2>10. Promise!Do
    <3>1. [store |-> o.store, reply |-> Fitting(o.reply)] \in Outcomes(store, asked[Len(Results) + 1])
      BY <2>5, <2>9 DEF Outcomes
    <3>2. Len(Results) < Len(asked)
      BY <2>4, <2>9 DEF Framed
    <3> QED BY <2>2, <2>3, <2>8, <3>1, <3>2 DEF Promise!Do, Results
  <2>11. Answered'
    BY <2>2, <2>7 DEF Answered, Framed
  <2> QED BY <2>10, <2>11 DEF Promise!Next
<1>6. CASE Sweep
  <2>1. UNCHANGED <<asked, queued, shown, taken>> /\ store' \in Expired(store)
    BY <1>6 DEF Sweep
  <2>2. Promise!Expire
    BY <2>1 DEF Promise!Expire
  <2> QED BY <2>1, <2>2 DEF Promise!Next, Answered
<1> QED BY <1>1, <1>2, <1>3, <1>4, <1>5, <1>6 DEF Next, Server

\* If the server takes what the client can send, the client is served as Service
\* says: every request is executed once, as a whole and in its order, and what
\* the client decodes is what the command has answered, however the bytes of
\* both are cut on their way.
THEOREM Refinement == TakesWhatIsSent => (Spec => ImplementsService)
<1> SUFFICES ASSUME TakesWhatIsSent PROVE Spec => ImplementsService
  OBVIOUS
<1>1. Init => Answered /\ Promise!Init
  <2> SUFFICES ASSUME Init PROVE Answered /\ Promise!Init
    OBVIOUS
  <2>1. asked = << >> /\ queued = << >> /\ shown = << >> /\ taken = 0 /\ store \in Stores
    BY DEF Init
  <2>2. Results = << >>
    BY <2>1 DEF Results
  <2> QED BY <2>1, <2>2 DEF Answered, Promise!Init, Results
<1>2. FlowInv /\ Answered /\ [Next]_vars => Answered' /\ [Promise!Next]_(Promise!serviceVars)
  BY ServiceStep
<1>3. Spec => Promise!Init /\ [][Promise!Next]_(Promise!serviceVars)
  BY <1>1, <1>2, FlowAlways, PTL DEF Spec
<1> QED BY <1>3 DEF ImplementsService, Promise!Spec
=============================================================================
