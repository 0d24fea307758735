----------------------------- MODULE MCSession -----------------------------
(***************************************************************************)
(* Instance of Session for TLC: two keys, one with a string and a timer,   *)
(* one with a sorted set of two members.                                   *)
(***************************************************************************)
EXTENDS Session

MCNamed ==
  <<"1", "2", "2x", "GET", "a", "b", "del", "foo", "get", "k", "keys", "long", "longer", "pexpire",
    "pttl", "set", "x", "z", "zadd", "zquery", "zrem", "zscore">>

MCTexts == {MCNamed[i] : i \in DOMAIN MCNamed}

MCPlace == [t \in MCTexts |-> CHOOSE i \in DOMAIN MCNamed : MCNamed[i] = t]
MCLower == [t \in MCTexts |-> IF t = "GET" THEN "get" ELSE t]
MCInteger == [t \in MCTexts |-> CASE t = "1" -> 1 [] t = "2" -> 2 [] OTHER -> None]
MCLong == [t \in MCTexts |-> IF t = "2x" THEN 2 ELSE MCInteger[t]]
MCLength == [t \in MCTexts |-> CASE t = "long" -> 19 [] t = "longer" -> 22 [] OTHER -> 1]
MCTimesLeft == {2}

\* Every command in a way that succeeds for some of the stores, and one failure
\* of each kind: name, count, number, type, exception.
MCRequests ==
  {<<"GET", "k">>, <<"get">>, <<"foo", "k">>, <<"set", "z", "a">>, <<"set", "k", "long">>,
   <<"del", "k">>, <<"keys">>, <<"pttl", "k">>, <<"pexpire", "k", "x">>, <<"pexpire", "z", "2x">>,
   <<"zadd", "k", "x", "a">>, <<"zadd", "k", "1", "a">>, <<"zadd", "z", "2", "a">>,
   <<"zrem", "z", "a">>, <<"zscore", "z", "b">>, <<"zquery", "z", "1", "b", "1", "2">>}

MCFewRequests == {<<"get", "k">>, <<"get", "k", "k", "k">>}

Nothing == [value |-> [k \in {} |-> None], timed |-> {}]

Holding ==
  [value |-> [k \in {"k", "z"} |->
                IF k = "k" THEN StringValue("a") ELSE SetValue([i \in {MCPlace["a"], MCPlace["b"]} |-> 1])],
   timed |-> {"k"}]

\* A string that is too long for the client, and a key too long for the server.
HoldingMuch ==
  [value |-> [k \in {"k", "longer"} |-> StringValue(IF k = "k" THEN "long" ELSE "a")],
   timed |-> {"longer"}]

MCStores == {Nothing, Holding, HoldingMuch}
MCOneStore == {Nothing}
=============================================================================
