------------------------------ MODULE SortedSet ------------------------------
(***************************************************************************)
(* ZSetValue: the members of a sorted set in a table by name and in a tree  *)
(* by score.  Both hold pointers to the same objects (ZNodeValue), and the  *)
(* score in such an object is what the tree is ordered by.  The table is a  *)
(* ResizableHashTable and stands here for the mapping that implements.      *)
(***************************************************************************)
EXTENDS AVLTree, Sequences

CONSTANTS
  Scores,   \* the scores members may be given
  Offsets,  \* bound: the offsets queries ask for
  Limits    \* bound: the limits queries ask for

\* Scores are numbers; None is the null pointer and no number.
ASSUME ScoresAssumption == Scores \subseteq Int /\ None \notin Scores

ASSUME QueriesAssumption == Offsets \subseteq Int /\ Limits \subseteq Int

VARIABLES
  tree,   \* _tree
  table,  \* the names in _hashtable
  score,  \* score[n]: _score in the object of n, None if there is no object
  reply   \* the last operation, its arguments, and its answer

vars == <<tree, table, score, reply>>

KeysOf(scores) == [n \in Names |-> <<scores[n], n>>]
Key(n) == <<score[n], n>>

Answer(operation, args, result) == reply' = <<operation, args, result>>

Init ==
  /\ tree = EmptyTree
  /\ table = {}
  /\ score = [n \in Names |-> None]
  /\ reply = <<"none">>

\* Mutation of Rescore: the score changes while the node is in the tree.
RescoreFirst(n, s) ==
  LET changed == KeysOf([score EXCEPT ![n] = s])
  IN Insert(Remove(tree, changed, changed[n]), changed, n)

\* The node leaves the tree while its score changes.
Rescore(n, s) ==
  LET changed == KeysOf([score EXCEPT ![n] = s])
  IN Insert(Remove(tree, KeysOf(score), Key(n)), changed, n)

Add(n, s) ==
  /\ score' = [score EXCEPT ![n] = s]
  /\ tree' = IF n \in table THEN Rescore(n, s) ELSE Insert(tree, KeysOf(score'), n)
  /\ table' = table \cup {n}
  /\ Answer("add", <<n, s>>, n \notin table)

Drop(n) ==
  /\ n \in table
  /\ tree' = Remove(tree, KeysOf(score), Key(n))
  /\ table' = table \ {n}
  /\ score' = [score EXCEPT ![n] = None]
  /\ Answer("remove", <<n>>, TRUE)

DropNothing(n) ==
  /\ n \notin table
  /\ Answer("remove", <<n>>, FALSE)
  /\ UNCHANGED <<tree, table, score>>

Score(n) ==
  /\ Answer("score", <<n>>, score[n])
  /\ UNCHANGED <<tree, table, score>>

\* The nodes one comes to by next, starting from n.
FromOn(n) ==
  Repeat(LAMBDA q : IF q = << >> \/ NextNode(tree, q[Len(q)]) = None THEN q
                    ELSE Append(q, NextNode(tree, q[Len(q)])),
         IF n = None THEN << >> ELSE <<n>>)

\* Mutation of Found: an offset of one finds the first node.
FoundOneOff(s, n, offset, limit) ==
  LET q == FromOn(LowerBound(tree, KeysOf(score), <<s, n>>))
      skipped == Larger(offset - 1, 0)
  IN SubSeq(q, skipped + 1, IF skipped + limit < Len(q) THEN skipped + limit ELSE Len(q))

\* offset nodes are skipped, and no more than limit are returned.
Found(s, n, offset, limit) ==
  LET q == FromOn(LowerBound(tree, KeysOf(score), <<s, n>>))
      skipped == Larger(offset, 0)
  IN SubSeq(q, skipped + 1, IF skipped + limit < Len(q) THEN skipped + limit ELSE Len(q))

Query(s, n, offset, limit) ==
  /\ Answer("query", <<s, n, offset, limit>>,
       LET q == IF limit <= 0 THEN << >> ELSE Found(s, n, offset, limit)
       IN [i \in DOMAIN q |-> <<q[i], score[q[i]]>>])
  /\ UNCHANGED <<tree, table, score>>

Next ==
  \/ \E n \in Names, s \in Scores : Add(n, s)
  \/ \E n \in Names : Drop(n)
  \/ \E n \in Names : DropNothing(n)
  \/ \E n \in Names : Score(n)
  \/ \E s \in Scores, n \in Names, offset \in Offsets, limit \in Limits : Query(s, n, offset, limit)

Spec == Init /\ [][Next]_vars
-----------------------------------------------------------------------------
(* Properties                                                              *)

\* Pointers to nodes or null, heights above zero; names with an object.  There
\* is no bound on heights: a height that is out of date is added to by the nodes
\* above, and may become more than the tree has nodes.
TypeOK ==
  /\ tree \in [root : Names \cup {None},
               node : [Names -> [parent : Names \cup {None},
                                 child : [Sides -> Names \cup {None}],
                                 height : Nat \ {0}]]]
  /\ table \subseteq Names
  /\ score \in [Names -> Scores \cup {None}]

\* The nodes below n, n among them.
Below(n) ==
  Repeat(LAMBDA S : S \cup ({Child(tree, m, side) : m \in S, side \in Sides} \ {None}), {n} \ {None})

InTree == Below(tree.root)

\* Tree and table hold the same members, however often a member is rescored.
InStep == InTree = table

\* Every node is where a search for its key goes.
SearchOrder ==
  \A n \in InTree :
    /\ \A m \in Below(Child(tree, n, "left")) : Less(Key(m), Key(n))
    /\ \A m \in Below(Child(tree, n, "right")) : Less(Key(n), Key(m))

\* next climbs by the parent pointers, which rotations and removals move
\* around: each points to the node that has this one as a child.
ParentsRight ==
  /\ tree.root # None => tree.node[tree.root].parent = None
  /\ \A n \in InTree, side \in Sides :
        Child(tree, n, side) # None => tree.node[Child(tree, n, side)].parent = n

Levels(n) ==
  Repeat(LAMBDA w : IF w.S = {} THEN w
                    ELSE [S |-> {Child(tree, m, side) : m \in w.S, side \in Sides} \ {None},
                          count |-> w.count + 1],
         [S |-> {n} \ {None}, count |-> 0]).count

\* The two sides of a node never differ by more than one level.
HeightsDiffer(n, d) ==
  Levels(Child(tree, n, "left")) - Levels(Child(tree, n, "right")) \in {d, -d}

SelfBalancing == \A n \in InTree, d \in 2..Cardinality(Names) : ~ HeightsDiffer(n, d)

\* The set is a mapping from names to scores, with ordered queries: those
\* of ZQueryCommand, by a lower bound, an offset and a limit, and not the range of
\* scores that src/README.md:63 documents.
Map == INSTANCE ScoreMap

ImplementsScoreMap == Map!Spec
=============================================================================
