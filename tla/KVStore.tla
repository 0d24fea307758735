------------------------------ MODULE KVStore ------------------------------
(***************************************************************************)
(* What the storage interface IDatabase promises its callers (the command  *)
(* objects and TTLManager): one mapping from keys to values, and for every *)
(* call the answer that mapping determines.  How the entries are laid out, *)
(* and when they are moved, is nobody's business at this level.            *)
(***************************************************************************)
EXTENDS FiniteSets

CONSTANTS
  Keys,    \* the keys clients may use
  Values,  \* what a non-null std::shared_ptr<Value> can point to
  Null     \* the null pointer, not one of Values: "no value"

VARIABLES
  kv,      \* kv[k] is the value stored under k, Null when there is none
  reply    \* the operation called last, on what, and what it returned

kvVars == <<kv, reply>>

Present == {k \in Keys : kv[k] # Null}

Answer(operation, args, result) == reply' = <<operation, args, result>>

Init ==
  /\ kv = [k \in Keys |-> Null]
  /\ reply = <<"none", << >>, Null>>

Get(k) ==
  /\ Answer("get", <<k>>, kv[k])
  /\ UNCHANGED kv

Set(k, v) ==
  /\ kv' = [kv EXCEPT ![k] = v]
  /\ Answer("set", <<k, v>>, Null)

Del(k) ==
  /\ kv' = [kv EXCEPT ![k] = Null]
  /\ Answer("del", <<k>>, kv[k] # Null)

\* findEntry is not part of IDatabase; PExpireCommand calls it through a cast.
FindEntry(k) ==
  /\ Answer("findEntry", <<k>>, kv[k] # Null)
  /\ UNCHANGED kv

\* keys() lists every present key exactly once; the order is not promised.
ListKeys ==
  /\ Answer("keys", << >>, [k \in Keys |-> IF kv[k] # Null THEN 1 ELSE 0])
  /\ UNCHANGED kv

Size ==
  /\ Answer("size", << >>, Cardinality(Present))
  /\ UNCHANGED kv

Clear ==
  /\ kv' = [k \in Keys |-> Null]
  /\ Answer("clear", << >>, Null)

Next ==
  \/ \E k \in Keys : Get(k) \/ Del(k) \/ FindEntry(k)
  \/ \E k \in Keys, v \in Values : Set(k, v)
  \/ ListKeys
  \/ Size
  \/ Clear

Spec == Init /\ [][Next]_kvVars
=============================================================================
