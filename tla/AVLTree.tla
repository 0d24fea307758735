------------------------------- MODULE AVLTree -------------------------------
(***************************************************************************)
(* AVLTree and AVLNode: the search tree of a sorted set, with the pointers *)
(* its nodes have.  A tree is a record t of _root and of the nodes; node n  *)
(* is the record t.node[n].  key[n] is what the node is ordered by: the    *)
(* score and the name in the ZNodeValue it points to.  That object is      *)
(* shared with the table of the set, so key is no part of the tree.        *)
(*                                                                         *)
(* A name has one node at most, which goes by that name here.  The two      *)
(* sides of a node are mirror images, in the code as here.                 *)
(***************************************************************************)
EXTENDS Integers, FiniteSets

CONSTANTS
  Names,  \* the names of members, in the order of strings
  None    \* the null pointer

ASSUME NamesAssumption == Names \subseteq Nat /\ IsFiniteSet(Names) /\ None \notin Names

Sides == {"left", "right"}
Other(side) == IF side = "left" THEN "right" ELSE "left"

\* A node as it is made; also what stands for a node that does not exist.
Leaf == [parent |-> None, child |-> [side \in Sides |-> None], height |-> 1]

EmptyTree == [root |-> None, node |-> [n \in Names |-> Leaf]]

\* The comparison of ZNodeValue: by score, then by name.
Less(a, b) == a[1] < b[1] \/ (a[1] = b[1] /\ a[2] < b[2])

Larger(a, b) == IF a >= b THEN a ELSE b

\* As often as a walk up or down the tree can take a step.
Repeat(Step(_), start) ==
  LET after[i \in 0..Cardinality(Names)] == IF i = 0 THEN start ELSE Step(after[i - 1])
  IN after[Cardinality(Names)]

Child(t, n, side) == t.node[n].child[side]
Height(t, n) == IF n = None THEN 0 ELSE t.node[n].height
SideOf(t, p, n) == IF Child(t, p, "left") = n THEN "left" ELSE "right"

SetChild(t, p, side, n) == [t EXCEPT !.node[p].child[side] = n]
SetParent(t, n, p) == IF n = None THEN t ELSE [t EXCEPT !.node[n].parent = p]

-----------------------------------------------------------------------------
(* AVLNode                                                                 *)

\* Mutation of Update: the node itself is not counted.
UpdateOneOff(t, n) ==
  [t EXCEPT !.node[n].height =
     Larger(Height(t, Child(t, n, "left")), Height(t, Child(t, n, "right")))]

\* update; the code counts the nodes below in the same way, and never looks.
Update(t, n) ==
  [t EXCEPT !.node[n].height =
     1 + Larger(Height(t, Child(t, n, "left")), Height(t, Child(t, n, "right")))]

\* Mutation of Rotate: the inner child does not learn of its new parent.
RotateKeepsInner(t, n, side) ==
  LET up == Child(t, n, Other(side))
      inner == Child(t, up, side)
      turned == [t EXCEPT !.node[n].child[Other(side)] = inner,
                          !.node[n].parent = up,
                          !.node[up].child[side] = n,
                          !.node[up].parent = t.node[n].parent]
  IN Update(Update(turned, n), up)

\* rotateLeft, rotateRight: n goes down on that side, its other child comes up.
\* The link from above is left to the caller.
Rotate(t, n, side) ==
  LET up == Child(t, n, Other(side))
      inner == Child(t, up, side)
      turned == [t EXCEPT !.node[n].child[Other(side)] = inner,
                          !.node[n].parent = up,
                          !.node[up].child[side] = n,
                          !.node[up].parent = t.node[n].parent]
  IN Update(Update(SetParent(turned, inner, n), n), up)

\* fixLeft, fixRight: the child on the side that is too high comes up, after
\* a rotation of its own if its inner side is the higher one.
FixSide(t, n, side) ==
  LET c == Child(t, n, side)
      inner == Child(t, c, Other(side))
      ready == IF Height(t, Child(t, c, side)) < Height(t, inner)
               THEN SetChild(Rotate(t, c, side), n, side, inner)
               ELSE t
  IN [t |-> Rotate(ready, n, Other(side)), top |-> Child(ready, n, side)]

\* Balancing node n when the heights it reads differ by two, and only then.
Balanced(t, n) ==
  LET l == Height(t, Child(t, n, "left"))
      r == Height(t, Child(t, n, "right"))
  IN CASE l = r + 2 -> FixSide(t, n, "left")
       [] r = l + 2 -> FixSide(t, n, "right")
       [] OTHER -> [t |-> t, top |-> n]

\* One round of fix, at node w.at of the tree w.t.
FixOne(w) ==
  LET p == w.t.node[w.at].parent
      b == Balanced(Update(w.t, w.at), w.at)
  IN IF w.at = None THEN w
     ELSE [at |-> p,
           t |-> IF p = None THEN [b.t EXCEPT !.root = b.top]
                 ELSE SetChild(b.t, p, SideOf(w.t, p, w.at), b.top)]

\* From n up to the root.
Fix(t, n) == Repeat(FixOne, [t |-> t, at |-> n]).t

\* removeWithOneOrNoneChild
CutOut(t, n) ==
  LET c == IF Child(t, n, "left") # None THEN Child(t, n, "left") ELSE Child(t, n, "right")
      p == t.node[n].parent
      lifted == SetParent(t, c, p)
  IN IF p = None THEN [lifted EXCEPT !.root = c]
     ELSE Fix(SetChild(lifted, p, SideOf(t, p, n), c), p)

FarLeft(t, n) == Repeat(LAMBDA m : IF Child(t, m, "left") = None THEN m ELSE Child(t, m, "left"), n)

\* v takes over the links n has, and the place n has above; not its height.
\* Its own, from before, is what it goes on with.
PutInPlace(t, v, n) ==
  LET p == t.node[n].parent
      put == [t EXCEPT !.node[v].child = t.node[n].child, !.node[v].parent = p]
      below == SetParent(SetParent(put, Child(put, v, "left"), v), Child(put, v, "right"), v)
  IN IF p = None THEN [below EXCEPT !.root = v] ELSE SetChild(below, p, SideOf(t, p, n), v)

\* Mutation of RemoveNode: the successor is taken to be the right child.
RemoveNodeRightChild(t, n) ==
  LET victim == Child(t, n, "right")
  IN IF None \in {Child(t, n, side) : side \in Sides}
     THEN CutOut(t, n)
     ELSE PutInPlace(CutOut(t, victim), victim, n)

\* AVLNode::remove: a node with two children gives its place to its successor.
RemoveNode(t, n) ==
  LET victim == FarLeft(t, Child(t, n, "right"))
  IN IF None \in {Child(t, n, side) : side \in Sides}
     THEN CutOut(t, n)
     ELSE PutInPlace(CutOut(t, victim), victim, n)

-----------------------------------------------------------------------------
(* AVLTree                                                                 *)

\* Where v is, seen from the node n.
Towards(key, n, v) == IF Less(v, key[n]) THEN "left" ELSE "right"

\* The node with key v, or the last one on the way to where it would be.
Seek(t, key, v) ==
  Repeat(LAMBDA n : IF v = key[n] \/ Child(t, n, Towards(key, n, v)) = None
                    THEN n ELSE Child(t, n, Towards(key, n, v)), t.root)

Find(t, key, v) ==
  IF t.root # None /\ key[Seek(t, key, v)] = v THEN Seek(t, key, v) ELSE None

Attach(t, key, n, p) ==
  LET made == [t EXCEPT !.node[n] = [Leaf EXCEPT !.parent = p]]
  IN Fix(SetChild(made, p, Towards(key, p, key[n]), n), p)

\* A node with an equal key would take the new value; names make keys differ.
Insert(t, key, n) ==
  IF t.root = None THEN [t EXCEPT !.root = n, !.node[n] = Leaf]
  ELSE IF Find(t, key, key[n]) # None THEN t
  ELSE Attach(t, key, n, Seek(t, key, key[n]))

Remove(t, key, v) ==
  LET n == Find(t, key, v)
  IN IF n = None THEN t ELSE [RemoveNode(t, n) EXCEPT !.node[n] = Leaf]

\* The first node that is not before v: the last one at which the search went
\* to the left.
LowerBound(t, key, v) ==
  LET Down(w) ==
        IF w.at = None THEN w
        ELSE IF Less(key[w.at], v) THEN [w EXCEPT !.at = Child(t, w.at, "right")]
        ELSE [at |-> Child(t, w.at, "left"), result |-> w.at]
  IN Repeat(Down, [at |-> t.root, result |-> None]).result

\* The next node in order: the first of what is on the right, or else the first
\* ancestor reached from the left.
NextNode(t, n) ==
  LET Up(m) == IF t.node[m].parent # None /\ Child(t, t.node[m].parent, "right") = m
               THEN t.node[m].parent ELSE m
  IN IF n = None THEN None
     ELSE IF Child(t, n, "right") # None THEN FarLeft(t, Child(t, n, "right"))
     ELSE t.node[Repeat(Up, n)].parent
=============================================================================
