------------------------------ MODULE ScoreMap ------------------------------
(***************************************************************************)
(* What the commands on sorted sets need of ZSetValue: a score for each    *)
(* member, and the members in the order of their scores.                   *)
(***************************************************************************)
EXTENDS ScoreOrder

CONSTANTS
  Names,    \* the names of members, in the order of strings
  Scores,   \* the scores they may be given
  Offsets,  \* bound: the offsets queries ask for
  Limits    \* bound: the limits queries ask for

VARIABLES
  score,  \* score[n]: the score of n, None if it is not a member
  reply   \* the last operation, its arguments, and its answer

mapVars == <<score, reply>>

Members == MembersOf(score)

Answer(operation, args, result) == reply' = <<operation, args, result>>

Init ==
  /\ score = [n \in Names |-> None]
  /\ reply = <<"none">>

Add(n, s) ==
  /\ score' = [score EXCEPT ![n] = s]
  /\ Answer("add", <<n, s>>, n \notin Members)

Remove(n) ==
  /\ score' = [score EXCEPT ![n] = None]
  /\ Answer("remove", <<n>>, n \in Members)

Score(n) ==
  /\ Answer("score", <<n>>, score[n])
  /\ UNCHANGED score

\* ZQUERY as the code has it: from a score and a name on, an offset and a limit.
\* src/README.md:63 has a query by the least and the greatest score, which the
\* program lacks.
Query(s, n, offset, limit) ==
  /\ Answer("query", <<s, n, offset, limit>>, Ranked(score, s, n, offset, limit))
  /\ UNCHANGED score

Next ==
  \/ \E n \in Names, s \in Scores : Add(n, s)
  \/ \E n \in Names : Remove(n) \/ Score(n)
  \/ \E s \in Scores, n \in Names, offset \in Offsets, limit \in Limits : Query(s, n, offset, limit)

Spec == Init /\ [][Next]_mapVars
=============================================================================
