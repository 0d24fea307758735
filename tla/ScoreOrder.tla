----------------------------- MODULE ScoreOrder -----------------------------
(***************************************************************************)
(* The order of the members of a sorted set: by score, then by name.       *)
(* score[n] is the score of the name n, or None; names are numbers, in the  *)
(* order of the strings they stand for.                                    *)
(***************************************************************************)
EXTENDS Integers, Sequences, FiniteSets

CONSTANT None  \* no score: the name is not a member

MembersOf(score) == {n \in DOMAIN score : score[n] # None}

\* The members that are not before name at score s.
NotBefore(score, s, name) ==
  {n \in MembersOf(score) : score[n] > s \/ (score[n] = s /\ n >= name)}

Before(score, m, n) == score[m] < score[n] \/ (score[m] = score[n] /\ m < n)

InOrder(score, S) ==
  [i \in 1..Cardinality(S) |-> CHOOSE n \in S : Cardinality({m \in S : Before(score, m, n)}) = i - 1]

\* limit members, from the one with number offset (counted from 0) on.
Page(q, offset, limit) ==
  LET from == IF offset < 0 THEN 0 ELSE offset
  IN IF limit <= 0 THEN << >>
     ELSE SubSeq(q, from + 1, IF from + limit < Len(q) THEN from + limit ELSE Len(q))

\* The answer to a query: names with their scores.
Ranked(score, s, name, offset, limit) ==
  LET q == Page(InOrder(score, NotBefore(score, s, name)), offset, limit)
  IN [i \in DOMAIN q |-> <<q[i], score[q[i]]>>]
=============================================================================
