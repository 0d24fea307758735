------------------------------ MODULE Commands ------------------------------
(***************************************************************************)
(* The commands: what each does to the keys and what it answers.  A key     *)
(* has a string or a sorted set, and may have a timer; the table, the heap  *)
(* and the sets are here the mappings that ResizableHashTable, TTLHeap and *)
(* SortedSet implement.  How long a timer has to run is left to Expiry.     *)
(*                                                                         *)
(* So is what ties a timer to the entry of its key.  That breaks when a SET  *)
(* replaces an entry which a migration has yet to move: its timer stays and *)
(* points to freed memory.  What DEL, PEXPIRE and the sweep, which are two   *)
(* steps each, one in the table and one in the heap, then make of other      *)
(* timers and keys is left open here.  One thread takes both steps.         *)
(*                                                                         *)
(* A command has a set of outcomes, since the order in which KEYS lists     *)
(* and the time that is left are not determined here.                      *)
(***************************************************************************)
EXTENDS ScoreOrder

CONSTANTS
  Named,     \* the strings clients send, in their order
  Place,     \* the number of a string in Named
  Lower,     \* the string in lower case
  Double,    \* parseDouble of a string: a number, None if it fails
  Integer,   \* parseInteger of a string, likewise
  Long,      \* std::stoll of a string, likewise; it reads no further than it can
  TimesLeft, \* bound: the answers of PTTL for a key with a timer
  Rewrites   \* do clients SET keys whose entries have yet to be migrated?

Texts == {Named[i] : i \in DOMAIN Named}

ASSUME TextsAssumption ==
  /\ Named \in Seq(STRING)
  /\ DOMAIN Place = Texts /\ \A i \in DOMAIN Named : Place[Named[i]] = i
  /\ Lower \in [Texts -> Texts]
  /\ {Double, Integer, Long} \subseteq [Texts -> Int \cup {None}]
  /\ None \notin Int
  /\ TimesLeft \subseteq Int /\ TimesLeft # {}
  /\ Rewrites \in BOOLEAN

\* A mapping in which x has y; and one without what is in S.
With(f, x, y) == [z \in DOMAIN f \cup {x} |-> IF z = x THEN y ELSE f[z]]
Without(f, S) == [z \in DOMAIN f \ S |-> f[z]]

-----------------------------------------------------------------------------
(* Values, and replies                                                     *)

StringValue(t) == [type |-> "string", text |-> t]

\* Members of sorted sets go by their place in the order of strings.
SetValue(score) == [type |-> "zset", score |-> score]
EmptySet == SetValue([i \in {} |-> None])

IsValue(v) ==
  \/ v.type = "string" /\ v.text \in Texts
  \/ v.type = "zset" /\ DOMAIN v.score \subseteq DOMAIN Named /\ v.score \in [DOMAIN v.score -> Int]

IsStore(store) ==
  /\ store = [value |-> store.value, timed |-> store.timed]
  /\ DOMAIN store.value \subseteq Texts
  /\ \A k \in DOMAIN store.value : IsValue(store.value[k])
  /\ store.timed \subseteq Texts

Has(store, k) == k \in DOMAIN store.value
Holds(store, k, type) == Has(store, k) /\ store.value[k].type = type
Scores(store, k) == store.value[k].score

Assign(store, k, v) == [store EXCEPT !.value = With(store.value, k, v)]

Nil == [tag |-> "nil"]
Str(t) == [tag |-> "str", text |-> t]
Int64(n) == [tag |-> "int", number |-> n]
Dbl(x) == [tag |-> "dbl", number |-> x]
Err(code) == [tag |-> "err", code |-> code]
Arr(q) == [tag |-> "arr", elements |-> q]

Unknown == Err("ERR_UNKNOWN")

Outcome(store, reply) == [store |-> store, reply |-> reply, throws |-> FALSE]

\* A command that throws is answered by whoever catches the exception.
Exception(store) == [store |-> store, reply |-> Unknown, throws |-> TRUE]

-----------------------------------------------------------------------------
(* The commands, their arguments counted                                   *)

Get(store, k) ==
  {Outcome(store, IF ~ Has(store, k) THEN Nil
                  ELSE IF Holds(store, k, "string") THEN Str(store.value[k].text)
                  ELSE Unknown)}

\* What was there, a sorted set also, is replaced; its timer stays.
Set(store, k, t) == {Outcome(Assign(store, k, StringValue(t)), Nil)}

\* What is left of the keys without those in K and with timers T.
Left(store, K, T) == [value |-> Without(store.value, K), timed |-> T]

\* T is what becomes of the timers, if each points to the entry of its key.
Retimed(store, T) == {T} \cup (IF Rewrites THEN {store.timed} ELSE {})

\* First the entry goes; if there was one, so does the first timer of that name.
Del(store, k) ==
  IF ~ Has(store, k) THEN {Outcome(store, Int64(0))}
  ELSE {Outcome(Left(store, {k}, T), Int64(1)) : T \in Retimed(store, store.timed \ {k})}

\* The keys, in whatever order they are in the tables.
Keys(store) ==
  LET n == Cardinality(DOMAIN store.value)
  IN {Outcome(store, Arr([i \in 1..n |-> Str(q[i])])) :
        q \in {p \in [1..n -> DOMAIN store.value] : \A i, j \in 1..n : p[i] = p[j] => i = j}}

\* What ZADD finds under the key, or puts there.
SetAt(store, k) == IF Has(store, k) THEN store.value[k] ELSE EmptySet

Added(store, k, x, name) ==
  LET score == SetAt(store, k).score
  IN Outcome(Assign(store, k, SetValue(With(score, Place[name], x))),
             Int64(IF Place[name] \in DOMAIN score THEN 0 ELSE 1))

\* Mutation of ZAdd: the key gets its set before the score is looked at.
ZAddCreatesFirst(store, k, number, name) ==
  IF Double[number] = None
  THEN {Outcome(Assign(store, k, SetAt(store, k)), Unknown)}
  ELSE IF SetAt(store, k).type # "zset" THEN {Outcome(store, Unknown)}
  ELSE {Added(store, k, Double[number], name)}

\* Mutation of ZAdd: what is not a sorted set makes way for one.
ZAddReplaces(store, k, number, name) ==
  IF Double[number] = None THEN {Outcome(store, Unknown)}
  ELSE IF SetAt(store, k).type # "zset"
       THEN {Outcome(Assign(store, k, SetValue(With(EmptySet.score, Place[name], Double[number]))),
                     Int64(1))}
  ELSE {Added(store, k, Double[number], name)}

\* A key that has nothing gets a sorted set, once the score is known to be one.
ZAdd(store, k, number, name) ==
  IF Double[number] = None THEN {Outcome(store, Unknown)}
  ELSE IF SetAt(store, k).type # "zset" THEN {Outcome(store, Unknown)}
  ELSE {Added(store, k, Double[number], name)}

\* A set that has lost its last member stays, empty.
ZRem(store, k, name) ==
  IF ~ Has(store, k) THEN {Outcome(store, Nil)}
  ELSE IF ~ Holds(store, k, "zset") THEN {Outcome(store, Unknown)}
  ELSE {Outcome(Assign(store, k, SetValue(Without(Scores(store, k), {Place[name]}))),
                Int64(IF Place[name] \in DOMAIN Scores(store, k) THEN 1 ELSE 0))}

ZScore(store, k, name) ==
  {Outcome(store, IF ~ Has(store, k) THEN Nil
                  ELSE IF ~ Holds(store, k, "zset") THEN Unknown
                  ELSE IF Place[name] \in DOMAIN Scores(store, k)
                       THEN Dbl(Scores(store, k)[Place[name]]) ELSE Nil)}

\* Each name is followed by its score.
Pairs(found) ==
  [i \in 1..(2 * Len(found)) |->
     IF i % 2 = 1 THEN Str(Named[found[(i + 1) \div 2][1]]) ELSE Dbl(found[i \div 2][2])]

\* With a limit of nothing, the key is not looked at.
ZQuery(store, k, number, name, offset, limit) ==
  {Outcome(store, IF None \in {Double[number], Integer[offset], Integer[limit]} THEN Unknown
                  ELSE IF Integer[limit] <= 0 \/ ~ Has(store, k) THEN Arr(<< >>)
                  ELSE IF ~ Holds(store, k, "zset") THEN Unknown
                  ELSE Arr(Pairs(Ranked(Scores(store, k), Double[number], Place[name],
                                        Integer[offset], Integer[limit]))))}

\* The timers are searched for the key.
PTTL(store, k) ==
  {Outcome(store, Int64(n)) : n \in IF k \in store.timed THEN TimesLeft ELSE {-1}}

PExpire(store, k, milliseconds) ==
  IF Long[milliseconds] = None THEN {Exception(store)}
  ELSE IF Long[milliseconds] <= 0 \/ ~ Has(store, k) THEN {Outcome(store, Int64(0))}
  ELSE {Outcome([store EXCEPT !.timed = T], Int64(1)) : T \in Retimed(store, store.timed \cup {k})}

\* removeExpired takes timers whose time has come, and with each the key of the
\* entry it points to; which, only the clock knows.
Expired(store) ==
  IF Rewrites /\ store.timed # {}
  THEN {Left(store, K, T) : K \in SUBSET DOMAIN store.value, T \in SUBSET store.timed}
  ELSE {Left(store, K, store.timed \ K) : K \in SUBSET store.timed}

-----------------------------------------------------------------------------
(* Dispatch                                                                *)

\* What each command wants args.size() to be; KEYS does not look.
ArgsCount ==
  [get |-> 2, set |-> 3, del |-> 2, zadd |-> 4, zrem |-> 3, zscore |-> 3,
   zquery |-> 6, pttl |-> 2, pexpire |-> 3]

\* CommandFactory::create, and execute of the command it makes.
Execute(store, args) ==
  LET name == args[1]
  IN IF args = << >> \/ name \notin DOMAIN ArgsCount \cup {"keys"} THEN {Outcome(store, Unknown)}
     ELSE IF name = "keys" THEN Keys(store)
     ELSE IF Len(args) # ArgsCount[name] THEN {Outcome(store, Err("ERR_WRONG_ARGS_COUNT"))}
     ELSE CASE name = "get"     -> Get(store, args[2])
            [] name = "set"     -> Set(store, args[2], args[3])
            [] name = "del"     -> Del(store, args[2])
            [] name = "zadd"    -> ZAdd(store, args[2], args[3], args[4])
            [] name = "zrem"    -> ZRem(store, args[2], args[3])
            [] name = "zscore"  -> ZScore(store, args[2], args[3])
            [] name = "zquery"  -> ZQuery(store, args[2], args[3], args[4], args[5], args[6])
            [] name = "pttl"    -> PTTL(store, args[2])
            [] name = "pexpire" -> PExpire(store, args[2], args[3])
=============================================================================
