--------------------------- MODULE SortedSet_proofs ---------------------------
(***************************************************************************)
(* Proofs about SortedSet, for any names and scores and so for trees of any *)
(* size and shape, however far the stored heights are from the true ones:   *)
(* the tree holds the names the table holds, in order, with every parent    *)
(* pointer right.                                                           *)
(***************************************************************************)
EXTENDS SortedSet, Rounds, FiniteSetTheorems, SequenceTheorems

-----------------------------------------------------------------------------
(* What a tree is                                                          *)

Nodes == [parent : Names \cup {None}, child : [Sides -> Names \cup {None}], height : Nat \ {0}]

Trees == [root : Names \cup {None}, node : [Names -> Nodes]]

Parent(t, n) == t.node[n].parent

\* A key a is on that side of a key b.
On(side, a, b) == IF side = "left" THEN Less(a, b) ELSE Less(b, a)

\* sub[n] is to be the set of the nodes from n on downwards.
Under(sub, n) == IF n = None THEN {} ELSE sub[n]

\* The keys of S differ and can be compared.
IsKeyed(key, S) ==
  /\ \A n \in S : key[n] \in Int \X Int
  /\ \A m, n \in S : key[m] = key[n] => m = n

\* Links between the nodes of S are mutual.
IsLinked(t, S) ==
  /\ t \in Trees
  /\ S \subseteq Names
  /\ IF t.root = None THEN S = {} ELSE t.root \in S /\ Parent(t, t.root) = None
  /\ \A n \in S, side \in Sides :
       LET c == Child(t, n, side) IN c # None => c \in S /\ Parent(t, c) = n

\* Below n are n and what is below its children, on the side where it belongs.
IsPlaced(t, key, sub, n) ==
  /\ sub[n] = {n} \cup Under(sub, Child(t, n, "left")) \cup Under(sub, Child(t, n, "right"))
  /\ \A side \in Sides : \A m \in Under(sub, Child(t, n, side)) : On(side, key[m], key[n])

\* t is a search tree of the nodes S: all of S is below the root.
IsTree(t, key, S, sub) ==
  /\ IsLinked(t, S)
  /\ IsKeyed(key, S)
  /\ sub \in [Names -> SUBSET Names]
  /\ \A n \in S : sub[n] \subseteq S
  /\ Under(sub, t.root) = S
  /\ \A n \in S : IsPlaced(t, key, sub, n)

-----------------------------------------------------------------------------
(* The order of keys                                                       *)

LEMMA TwoSides ==
  /\ Sides = {"left", "right"}
  /\ \A side \in Sides : /\ Other(side) \in Sides /\ Other(side) # side /\ Other(Other(side)) = side
                         /\ Sides = {side, Other(side)}
BY DEF Sides, Other

LEMMA LessIsOrder ==
  ASSUME NEW a \in Int \X Int, NEW b \in Int \X Int, NEW c \in Int \X Int
  PROVE  /\ ~ Less(a, a)
         /\ Less(a, b) => ~ Less(b, a)
         /\ Less(a, b) /\ Less(b, c) => Less(a, c)
         /\ a # b => Less(a, b) \/ Less(b, a)
<1>1. /\ a[1] \in Int /\ a[2] \in Int /\ b[1] \in Int /\ b[2] \in Int /\ c[1] \in Int /\ c[2] \in Int
      /\ a = <<a[1], a[2]>> /\ b = <<b[1], b[2]>>
  OBVIOUS
<1>2. a # b => a[1] # b[1] \/ a[2] # b[2]
  BY <1>1
<1> QED BY <1>1, <1>2 DEF Less

LEMMA OnIsOrder ==
  ASSUME NEW side \in Sides, NEW a \in Int \X Int, NEW b \in Int \X Int, NEW c \in Int \X Int
  PROVE  /\ ~ On(side, a, a)
         /\ On(side, a, b) => ~ On(side, b, a)
         /\ On(side, a, b) /\ On(side, b, c) => On(side, a, c)
         /\ a # b => On(side, a, b) \/ On(side, b, a)
         /\ On(Other(side), a, b) <=> On(side, b, a)
<1>1. /\ ~ Less(a, a)
      /\ Less(a, b) => ~ Less(b, a)
      /\ Less(a, b) /\ Less(b, c) => Less(a, c)
      /\ a # b => Less(a, b) \/ Less(b, a)
  BY LessIsOrder
<1>2. /\ Less(b, a) => ~ Less(a, b)
      /\ Less(c, b) /\ Less(b, a) => Less(c, a)
  BY LessIsOrder
<1> QED BY <1>1, <1>2 DEF On, Other, Sides

-----------------------------------------------------------------------------
(* Single links                                                            *)

LEMMA TreeFacts ==
  ASSUME NEW t \in Trees
  PROVE  /\ t.root \in Names \cup {None}
         /\ \A n \in Names : /\ Parent(t, n) \in Names \cup {None}
                             /\ Height(t, n) = t.node[n].height
                             /\ t.node[n].height \in Nat \ {0}
                             /\ \A side \in Sides : Child(t, n, side) \in Names \cup {None}
BY NamesAssumption DEF Trees, Nodes, Parent, Child, Height

\* t and r have the same links.
SameLinks(t, r) ==
  /\ r.root = t.root
  /\ \A m \in Names : Parent(r, m) = Parent(t, m) /\ \A s \in Sides : Child(r, m, s) = Child(t, m, s)

\* r is t with n as the child of p on that side; with p as the parent of n.
ChildIsSet(t, p, side, n, r) ==
  /\ r \in Trees /\ r.root = t.root
  /\ \A m \in Names : /\ Parent(r, m) = Parent(t, m)
                      /\ \A s \in Sides : Child(r, m, s) = IF m = p /\ s = side THEN n
                                                           ELSE Child(t, m, s)

ParentIsSet(t, n, p, r) ==
  /\ r \in Trees /\ r.root = t.root
  /\ \A m \in Names : /\ Parent(r, m) = IF m = n THEN p ELSE Parent(t, m)
                      /\ \A s \in Sides : Child(r, m, s) = Child(t, m, s)

LEMMA SetChildIs ==
  ASSUME NEW t \in Trees, NEW p \in Names, NEW side \in Sides, NEW n \in Names \cup {None}
  PROVE  ChildIsSet(t, p, side, n, SetChild(t, p, side, n))
BY DEF ChildIsSet, SetChild, Trees, Nodes, Parent, Child

LEMMA SetParentIs ==
  ASSUME NEW t \in Trees, NEW p \in Names \cup {None}, NEW n \in Names \cup {None}
  PROVE  ParentIsSet(t, n, p, SetParent(t, n, p))
BY NamesAssumption DEF ParentIsSet, SetParent, Trees, Nodes, Parent, Child

LEMMA UpdateIs ==
  ASSUME NEW t \in Trees, NEW n \in Names, NEW r, r = Update(t, n)
  PROVE  r \in Trees /\ SameLinks(t, r)
<1> DEFINE h == 1 + Larger(Height(t, Child(t, n, "left")), Height(t, Child(t, n, "right")))
<1>1. h \in Nat \ {0}
  <2>1. /\ Height(t, Child(t, n, "left")) \in Nat
        /\ Height(t, Child(t, n, "right")) \in Nat
    BY TreeFacts, TwoSides DEF Height
  <2> QED BY <2>1 DEF Larger
<1>2. r = [t EXCEPT !.node[n].height = h]
  BY DEF Update
<1> HIDE DEF h
<1> QED BY <1>1, <1>2 DEF Trees, Nodes, SameLinks, Parent, Child

LEMMA SetRootIs ==
  ASSUME NEW t \in Trees, NEW n \in Names \cup {None}, NEW r, r = [t EXCEPT !.root = n]
  PROVE  /\ r \in Trees /\ r.root = n
         /\ \A m \in Names : /\ Parent(r, m) = Parent(t, m)
                             /\ \A s \in Sides : Child(r, m, s) = Child(t, m, s)
BY DEF Trees, Nodes, Parent, Child

\* A rotation, in single links.
LEMMA RotateIs ==
  ASSUME NEW t \in Trees, NEW n \in Names, NEW side \in Sides,
         NEW up, up = Child(t, n, Other(side)), up \in Names, up # n,
         NEW inner, inner = Child(t, up, side),
         NEW r, r = Rotate(t, n, side)
  PROVE  /\ r \in Trees /\ r.root = t.root
         /\ \A m \in Names :
              /\ Parent(r, m) = IF m = inner THEN n ELSE IF m = up THEN Parent(t, n)
                                ELSE IF m = n THEN up ELSE Parent(t, m)
              /\ \A s \in Sides : Child(r, m, s) = IF m = n /\ s = Other(side) THEN inner
                                                   ELSE IF m = up /\ s = side THEN n
                                                   ELSE Child(t, m, s)
<1>1. PICK a : a = SetChild(t, n, Other(side), inner)
  OBVIOUS
<1>2. PICK b : b = SetParent(a, n, up)
  OBVIOUS
<1>3. PICK c : c = SetChild(b, up, side, n)
  OBVIOUS
<1>4. PICK d : d = SetParent(c, up, Parent(t, n))
  OBVIOUS
<1>5. inner \in Names \cup {None} /\ Parent(t, n) \in Names \cup {None} /\ Other(side) \in Sides
  BY TreeFacts, TwoSides
<1>6. ChildIsSet(t, n, Other(side), inner, a)
  BY <1>1, <1>5, SetChildIs
<1>7. ParentIsSet(a, n, up, b)
  <2>1. a \in Trees
    BY <1>6 DEF ChildIsSet
  <2> QED BY <1>2, <2>1, SetParentIs
<1>8. ChildIsSet(b, up, side, n, c)
  <2>1. b \in Trees
    BY <1>7 DEF ParentIsSet
  <2> QED BY <1>3, <2>1, SetChildIs
<1>9. ParentIsSet(c, up, Parent(t, n), d)
  <2>1. c \in Trees
    BY <1>8 DEF ChildIsSet
  <2> QED BY <1>4, <1>5, <2>1, SetParentIs
<1>10. d = [t EXCEPT !.node[n].child[Other(side)] = inner, !.node[n].parent = up,
                     !.node[up].child[side] = n, !.node[up].parent = t.node[n].parent]
  BY <1>1, <1>2, <1>3, <1>4, NamesAssumption DEF SetChild, SetParent, Parent
<1>11. PICK e : e = SetParent(d, inner, n)
  OBVIOUS
<1>12. ParentIsSet(d, inner, n, e)
  <2>1. d \in Trees
    BY <1>9 DEF ParentIsSet
  <2> QED BY <1>5, <1>11, <2>1, SetParentIs
<1>13. PICK f : f = Update(e, n)
  OBVIOUS
<1>14. f \in Trees /\ SameLinks(e, f)
  <2>1. e \in Trees
    BY <1>12 DEF ParentIsSet
  <2> QED BY <1>13, <2>1, UpdateIs
<1>15. r = Update(f, up)
  BY <1>10, <1>11, <1>13 DEF Rotate
<1>16. r \in Trees /\ SameLinks(f, r)
  BY <1>14, <1>15, UpdateIs
<1>17. r.root = t.root
  BY <1>6, <1>7, <1>8, <1>9, <1>12, <1>14, <1>16 DEF SameLinks, ChildIsSet, ParentIsSet
<1>18. ASSUME NEW m \in Names
       PROVE  Parent(r, m) = IF m = inner THEN n ELSE IF m = up THEN Parent(t, n)
                             ELSE IF m = n THEN up ELSE Parent(t, m)
  BY <1>6, <1>7, <1>8, <1>9, <1>12, <1>14, <1>16 DEF SameLinks, ChildIsSet, ParentIsSet
<1>19. ASSUME NEW m \in Names, NEW s \in Sides
       PROVE  Child(r, m, s) = IF m = n /\ s = Other(side) THEN inner
                               ELSE IF m = up /\ s = side THEN n ELSE Child(t, m, s)
  BY <1>6, <1>7, <1>8, <1>9, <1>12, <1>14, <1>16 DEF SameLinks, ChildIsSet, ParentIsSet
<1> QED BY <1>16, <1>17, <1>18, <1>19

-----------------------------------------------------------------------------
(* Nodes and those below them                                              *)

LEMMA NodeFacts ==
  ASSUME NEW t, NEW key, NEW S, NEW sub, IsTree(t, key, S, sub), NEW n \in S
  PROVE  /\ n \in Names /\ n # None /\ n \in sub[n] /\ sub[n] \subseteq S /\ key[n] \in Int \X Int
         /\ Parent(t, n) \in Names \cup {None}
         /\ \A side \in Sides :
              /\ Child(t, n, side) \in Names \cup {None}
              /\ Child(t, n, side) # None =>
                   /\ Child(t, n, side) \in S /\ Parent(t, Child(t, n, side)) = n
                   /\ Under(sub, Child(t, n, side)) = sub[Child(t, n, side)]
              /\ sub[n] = {n} \cup Under(sub, Child(t, n, side)) \cup Under(sub, Child(t, n, Other(side)))
              /\ Under(sub, Child(t, n, side)) \subseteq S
              /\ \A m \in Under(sub, Child(t, n, side)) :
                   m # n /\ m \in S /\ key[m] \in Int \X Int /\ On(side, key[m], key[n])
<1>1. n \in Names /\ n # None /\ sub[n] \subseteq S /\ t \in Trees /\ key[n] \in Int \X Int
  BY NamesAssumption DEF IsTree, IsLinked, IsKeyed
<1>2. IsPlaced(t, key, sub, n)
  BY DEF IsTree
<1>3. n \in sub[n]
  BY <1>2 DEF IsPlaced
<1>4. ASSUME NEW side \in Sides
      PROVE  sub[n] = {n} \cup Under(sub, Child(t, n, side)) \cup Under(sub, Child(t, n, Other(side)))
  <2>1. \/ side = "left" /\ Other(side) = "right"
        \/ side = "right" /\ Other(side) = "left"
    BY DEF Sides, Other
  <2> QED BY <1>2, <2>1 DEF IsPlaced
<1>5. ASSUME NEW side \in Sides, NEW m \in Under(sub, Child(t, n, side))
      PROVE  m # n /\ m \in S /\ key[m] \in Int \X Int /\ On(side, key[m], key[n])
  <2>1. m \in S
    BY <1>1, <1>4
  <2>2. key[m] \in Int \X Int
    BY <2>1 DEF IsTree, IsKeyed
  <2>3. On(side, key[m], key[n])
    BY <1>2 DEF IsPlaced
  <2>4. m # n
    BY <1>1, <2>2, <2>3, OnIsOrder
  <2> QED BY <2>1, <2>2, <2>3, <2>4
<1>6. ASSUME NEW side \in Sides, Child(t, n, side) # None
      PROVE  /\ Child(t, n, side) \in S /\ Parent(t, Child(t, n, side)) = n
             /\ Under(sub, Child(t, n, side)) = sub[Child(t, n, side)]
  BY <1>6 DEF IsTree, IsLinked, Under
<1>7. \A side \in Sides : Child(t, n, side) \in Names \cup {None}
  BY <1>1, TreeFacts
<1>8. Parent(t, n) \in Names \cup {None}
  BY <1>1, TreeFacts
<1> QED BY <1>1, <1>3, <1>4, <1>5, <1>6, <1>7, <1>8

LEMMA RootFacts ==
  ASSUME NEW t, NEW key, NEW S, NEW sub, IsTree(t, key, S, sub)
  PROVE  /\ t \in Trees /\ S \subseteq Names /\ IsFiniteSet(S) /\ IsKeyed(key, S)
         /\ sub \in [Names -> SUBSET Names]
         /\ t.root = None => S = {}
         /\ t.root # None => t.root \in S /\ Parent(t, t.root) = None /\ sub[t.root] = S
<1>1. S \subseteq Names
  BY DEF IsTree, IsLinked
<1>2. IsFiniteSet(S)
  BY <1>1, NamesAssumption, FS_Subset
<1> QED BY <1>1, <1>2 DEF IsTree, IsLinked, Under

\* A node that is below n, or n itself, is n or below one of its children.
LEMMA BelowOneSide ==
  ASSUME NEW t, NEW key, NEW S, NEW sub, IsTree(t, key, S, sub), NEW n \in S, NEW m \in sub[n], m # n
  PROVE  \E side \in Sides : /\ Child(t, n, side) # None /\ Child(t, n, side) \in S
                             /\ m \in sub[Child(t, n, side)]
                             /\ m \in Under(sub, Child(t, n, side))
<1>1. PICK side \in Sides : m \in Under(sub, Child(t, n, side))
  <2>1. /\ "left" \in Sides /\ Other("left") \in Sides
        /\ sub[n] = {n} \cup Under(sub, Child(t, n, "left")) \cup Under(sub, Child(t, n, Other("left")))
    BY NodeFacts, TwoSides
  <2> QED BY <2>1
<1>2. Child(t, n, side) # None
  BY <1>1 DEF Under
<1> QED BY <1>1, <1>2, NodeFacts

\* Fewer nodes are below a child.
LEMMA ChildIsSmaller ==
  ASSUME NEW t, NEW key, NEW S, NEW sub, IsTree(t, key, S, sub), NEW n \in S, NEW side \in Sides,
         NEW c, c = Child(t, n, side), c # None
  PROVE  /\ c \in S /\ sub[c] \subseteq sub[n] /\ n \notin sub[c]
         /\ IsFiniteSet(sub[n])
         /\ Cardinality(sub[c]) \in Nat /\ Cardinality(sub[n]) \in Nat
         /\ Cardinality(sub[c]) < Cardinality(sub[n])
<1>1. c \in S /\ sub[c] \subseteq sub[n] /\ n \in sub[n] /\ n \notin sub[c] /\ sub[n] \subseteq S
  BY NodeFacts
<1>2. IsFiniteSet(sub[n]) /\ IsFiniteSet(sub[c])
  BY <1>1, RootFacts, FS_Subset
<1>3. sub[c] # sub[n]
  BY <1>1
<1>4. Cardinality(sub[c]) \in Nat /\ Cardinality(sub[n]) \in Nat
  BY <1>2, FS_CardinalityType
<1>5. Cardinality(sub[c]) <= Cardinality(sub[n]) /\ Cardinality(sub[c]) # Cardinality(sub[n])
  BY <1>1, <1>2, <1>3, FS_Subset
<1> QED BY <1>1, <1>2, <1>4, <1>5

\* Of some nodes, there is one none of whose children is among them.
LEMMA LowestNode ==
  ASSUME NEW t, NEW key, NEW S, NEW sub, IsTree(t, key, S, sub), NEW X, X \subseteq S, X # {}
  PROVE  \E x \in X : \A side \in Sides : Child(t, x, side) \notin X
<1> DEFINE Sizes == {Cardinality(sub[x]) : x \in X}
<1>1. Sizes \subseteq Nat
  <2>1. ASSUME NEW x \in X PROVE Cardinality(sub[x]) \in Nat
    <3>1. sub[x] \subseteq S
      BY NodeFacts
    <3>2. IsFiniteSet(sub[x])
      BY <3>1, RootFacts, FS_Subset
    <3> QED BY <3>2, FS_CardinalityType
  <2> QED BY <2>1
<1>2. PICK h \in Sizes : \A k \in Sizes : h <= k
  <2>1. Sizes # {}
    OBVIOUS
  <2> HIDE DEF Sizes
  <2> QED BY <1>1, <2>1, LeastElement
<1>3. PICK x \in X : h = Cardinality(sub[x])
  OBVIOUS
<1>4. ASSUME NEW side \in Sides, Child(t, x, side) \in X PROVE FALSE
  <2>1. PICK c : c = Child(t, x, side)
    OBVIOUS
  <2>2. c # None
    BY <1>4, <2>1, NodeFacts
  <2>3. /\ Cardinality(sub[c]) \in Nat /\ Cardinality(sub[x]) \in Nat
        /\ Cardinality(sub[c]) < Cardinality(sub[x])
    BY <2>1, <2>2, ChildIsSmaller
  <2>4. Cardinality(sub[x]) <= Cardinality(sub[c])
    BY <1>2, <1>3, <1>4, <2>1
  <2> QED BY <2>3, <2>4
<1> QED BY <1>4

\* The parent of a node is above it, and below all others that are above it.
LEMMA ParentIs ==
  ASSUME NEW t, NEW key, NEW S, NEW sub, IsTree(t, key, S, sub), NEW n \in S
  PROVE  /\ n # t.root => /\ Parent(t, n) \in S /\ Parent(t, n) # None
                          /\ \E side \in Sides : n = Child(t, Parent(t, n), side)
         /\ \A x \in S : n \in sub[x] /\ x # n => Parent(t, n) \in sub[x]
<1>1. ASSUME n # t.root
      PROVE  /\ Parent(t, n) \in S /\ Parent(t, n) # None
             /\ \E side \in Sides : n = Child(t, Parent(t, n), side)
  <2> DEFINE X == {x \in S : n \in sub[x] /\ x # n}
  <2>1. t.root \in X
    BY <1>1, RootFacts
  <2>2. PICK x \in X : \A side \in Sides : Child(t, x, side) \notin X
    <3>1. X \subseteq S /\ X # {}
      BY <2>1
    <3> HIDE DEF X
    <3> QED BY <3>1, LowestNode
  <2>3. PICK side \in Sides : /\ Child(t, x, side) # None /\ Child(t, x, side) \in S
                              /\ n \in sub[Child(t, x, side)]
    BY BelowOneSide
  <2>4. Child(t, x, side) = n
    BY <2>2, <2>3
  <2>5. Parent(t, n) = x
    BY <2>3, <2>4, NodeFacts
  <2> QED BY <2>4, <2>5, NodeFacts
<1>2. ASSUME NEW z \in S, n \in sub[z], z # n, Parent(t, n) \notin sub[z] PROVE FALSE
  <2> DEFINE X == {x \in S : n \in sub[x] /\ x # n /\ Parent(t, n) \notin sub[x]}
  <2>1. z \in X
    BY <1>2
  <2>2. PICK x \in X : \A side \in Sides : Child(t, x, side) \notin X
    <3>1. X \subseteq S /\ X # {}
      BY <2>1
    <3> HIDE DEF X
    <3> QED BY <3>1, LowestNode
  <2>3. PICK side \in Sides : /\ Child(t, x, side) # None /\ Child(t, x, side) \in S
                              /\ n \in sub[Child(t, x, side)]
    BY BelowOneSide
  <2>4. sub[Child(t, x, side)] \subseteq sub[x]
    BY <2>3, ChildIsSmaller
  <2>5. Child(t, x, side) = n
    BY <2>2, <2>3, <2>4
  <2>6. Parent(t, n) = x /\ x \in sub[x]
    BY <2>3, <2>5, NodeFacts
  <2> QED BY <2>6
<1> QED BY <1>1, <1>2

LEMMA BelowBelow ==
  ASSUME NEW t, NEW key, NEW S, NEW sub, IsTree(t, key, S, sub), NEW n \in S, NEW m \in sub[n]
  PROVE  m \in S /\ sub[m] \subseteq sub[n]
<1>1. m \in S
  BY NodeFacts
<1>2. ASSUME ~ (sub[m] \subseteq sub[n]) PROVE FALSE
  <2> DEFINE X == {x \in S : m \in sub[x] /\ ~ (sub[m] \subseteq sub[x])}
  <2>1. n \in X
    BY <1>2
  <2>2. PICK x \in X : \A side \in Sides : Child(t, x, side) \notin X
    <3>1. X \subseteq S /\ X # {}
      BY <2>1
    <3> HIDE DEF X
    <3> QED BY <3>1, LowestNode
  <2>3. m # x
    OBVIOUS
  <2>4. PICK side \in Sides : /\ Child(t, x, side) # None /\ Child(t, x, side) \in S
                              /\ m \in sub[Child(t, x, side)]
    BY <2>3, BelowOneSide
  <2>5. sub[Child(t, x, side)] \subseteq sub[x]
    BY <2>4, ChildIsSmaller
  <2> QED BY <2>2, <2>4, <2>5
<1> QED BY <1>1, <1>2

\* Where the ways from the root to x and to m part.
LEMMA WaysPart ==
  ASSUME NEW t, NEW key, NEW S, NEW sub, IsTree(t, key, S, sub), NEW x \in S, NEW m \in S, m \notin sub[x]
  PROVE  \E y \in S, side \in Sides : /\ x \in Under(sub, Child(t, y, side))
                                      /\ m = y \/ m \in Under(sub, Child(t, y, Other(side)))
<1> DEFINE X == {y \in S : m \in sub[y] /\ x \in sub[y]}
<1>1. t.root \in X
  BY RootFacts
<1>2. PICK y \in X : \A side \in Sides : Child(t, y, side) \notin X
  <2>1. X \subseteq S /\ X # {}
    BY <1>1
  <2> HIDE DEF X
  <2> QED BY <2>1, LowestNode
<1>3. PICK side \in Sides : /\ Child(t, y, side) # None /\ Child(t, y, side) \in S
                            /\ x \in sub[Child(t, y, side)]
                            /\ x \in Under(sub, Child(t, y, side))
  BY BelowOneSide
<1>4. CASE m # y
  <2>1. PICK s \in Sides : /\ Child(t, y, s) # None /\ Child(t, y, s) \in S
                           /\ m \in sub[Child(t, y, s)]
                           /\ m \in Under(sub, Child(t, y, s))
    BY <1>4, BelowOneSide
  <2>2. s # side
    BY <1>2, <1>3, <2>1
  <2>3. s = Other(side)
    BY <2>2, TwoSides
  <2> QED BY <1>3, <2>1, <2>3
<1> QED BY <1>3, <1>4

\* What is not below x is before all that is, or after all of it.
LEMMA BelowTogether ==
  ASSUME NEW t, NEW key, NEW S, NEW sub, IsTree(t, key, S, sub), NEW x \in S,
         NEW m \in S, m \notin sub[x], NEW a \in sub[x], NEW b \in sub[x],
         Less(key[m], key[a])
  PROVE  Less(key[m], key[b])
<1>1. PICK y \in S, side \in Sides : /\ x \in Under(sub, Child(t, y, side))
                                     /\ m = y \/ m \in Under(sub, Child(t, y, Other(side)))
  BY WaysPart
<1>2. Child(t, y, side) # None
  BY <1>1 DEF Under
<1>3. sub[x] \subseteq Under(sub, Child(t, y, side))
  BY <1>1, <1>2, NodeFacts, BelowBelow
<1>4. /\ key[m] \in Int \X Int /\ key[y] \in Int \X Int /\ key[a] \in Int \X Int /\ key[b] \in Int \X Int
      /\ On(side, key[a], key[y]) /\ On(side, key[b], key[y])
  BY <1>1, <1>3, NodeFacts
<1>5. m = y \/ On(side, key[y], key[m])
  <2>1. ASSUME m \in Under(sub, Child(t, y, Other(side))) PROVE On(side, key[y], key[m])
    <3>1. On(Other(side), key[m], key[y])
      BY <2>1, NodeFacts, TwoSides
    <3> QED BY <1>4, <3>1, OnIsOrder
  <2> QED BY <1>1, <2>1
<1>6. On(side, key[a], key[m]) /\ On(side, key[b], key[m])
  BY <1>4, <1>5, OnIsOrder
<1>7. side # "left"
  <2>1. ASSUME side = "left" PROVE FALSE
    <3>1. Less(key[a], key[m])
      BY <1>6, <2>1 DEF On
    <3> QED BY <1>4, <3>1, LessIsOrder
  <2> QED BY <2>1
<1> QED BY <1>6, <1>7 DEF On

-----------------------------------------------------------------------------
(* Rotations, with the link from above                                     *)

\* Only the links and keys of its nodes make a tree what it is.
LEMMA SameTree ==
  ASSUME NEW t, NEW key, NEW S, NEW sub, IsTree(t, key, S, sub),
         NEW r \in Trees, r.root = t.root,
         \A m \in S : /\ Parent(r, m) = Parent(t, m)
                      /\ \A s \in Sides : Child(r, m, s) = Child(t, m, s),
         NEW key2, \A m \in S : key2[m] = key[m]
  PROVE  IsTree(r, key2, S, sub)
<1>1. IsLinked(r, S)
  <2>1. IF r.root = None THEN S = {} ELSE r.root \in S /\ Parent(r, r.root) = None
    BY RootFacts
  <2>2. ASSUME NEW n \in S, NEW side \in Sides, Child(r, n, side) # None
        PROVE  Child(r, n, side) \in S /\ Parent(r, Child(r, n, side)) = n
    BY <2>2, NodeFacts
  <2>3. S \subseteq Names
    BY RootFacts
  <2> QED BY <2>1, <2>2, <2>3 DEF IsLinked
<1>2. IsKeyed(key2, S)
  BY RootFacts DEF IsKeyed
<1>3. ASSUME NEW n \in S PROVE IsPlaced(r, key2, sub, n)
  <2>1. \A s \in Sides : Child(r, n, s) = Child(t, n, s)
    OBVIOUS
  <2>2. IsPlaced(t, key, sub, n)
    BY DEF IsTree
  <2>3. \A s \in Sides : \A m \in Under(sub, Child(t, n, s)) : key2[m] = key[m]
    BY NodeFacts
  <2> QED BY <2>1, <2>2, <2>3, TwoSides DEF IsPlaced
<1> QED BY <1>1, <1>2, <1>3 DEF IsTree

\* The link to n from the node above, if there is one.
LEMMA SideOfIs ==
  ASSUME NEW t, NEW key, NEW S, NEW sub, IsTree(t, key, S, sub), NEW n \in S,
         NEW p, p = Parent(t, n)
  PROVE  /\ p = None <=> n = t.root
         /\ p # None => /\ p \in S /\ p # n /\ p \notin sub[n] /\ SideOf(t, p, n) \in Sides
                        /\ \A m \in S, s \in Sides : Child(t, m, s) = n <=> m = p /\ s = SideOf(t, p, n)
<1>1. p = None <=> n = t.root
  BY RootFacts, ParentIs
<1>2. ASSUME p # None
      PROVE  /\ p \in S /\ p # n /\ p \notin sub[n] /\ SideOf(t, p, n) \in Sides
             /\ \A m \in S, s \in Sides : Child(t, m, s) = n <=> m = p /\ s = SideOf(t, p, n)
  <2>1. p \in S /\ \E side \in Sides : n = Child(t, p, side)
    BY <1>1, <1>2, ParentIs
  <2>2. n # None
    BY NodeFacts
  <2>3. p # n /\ p \notin sub[n]
    BY <2>1, <2>2, ChildIsSmaller, NodeFacts
  <2>4. \A m \in S, s \in Sides : Child(t, m, s) = n => m = p
    BY <2>2, NodeFacts
  <2>5. ASSUME Child(t, p, "left") = n, Child(t, p, "right") = n PROVE FALSE
    <3>1. n \in Under(sub, Child(t, p, "left")) /\ n \in Under(sub, Child(t, p, "right"))
      BY <2>2, <2>5, NodeFacts DEF Under
    <3>2. /\ On("left", key[n], key[p]) /\ On("right", key[n], key[p])
          /\ key[n] \in Int \X Int /\ key[p] \in Int \X Int
      BY <2>1, <3>1, NodeFacts, TwoSides
    <3> QED BY <3>2, LessIsOrder DEF On
  <2>6. SideOf(t, p, n) \in Sides /\ \A s \in Sides : Child(t, p, s) = n <=> s = SideOf(t, p, n)
    BY <2>1, <2>5 DEF SideOf, Sides
  <2> QED BY <2>1, <2>3, <2>4, <2>6
<1> QED BY <1>1, <1>2

\* The node up takes the place n has in t: the link from above, or the root.
LinkAbove(t, r, n, up) ==
  IF Parent(t, n) = None THEN [r EXCEPT !.root = up]
  ELSE SetChild(r, Parent(t, n), SideOf(t, Parent(t, n), n), up)

Turn(t, n, side) == LinkAbove(t, Rotate(t, n, side), n, Child(t, n, Other(side)))

LEMMA LinkAboveIs ==
  ASSUME NEW t, NEW key, NEW S, NEW sub, IsTree(t, key, S, sub), NEW n \in S,
         NEW r \in Trees, r.root = t.root,
         \A m \in S \ sub[n] : \A s \in Sides : Child(r, m, s) = Child(t, m, s),
         NEW up \in Names \cup {None}, NEW x, x = LinkAbove(t, r, n, up)
  PROVE  /\ x \in Trees
         /\ x.root = IF n = t.root THEN up ELSE t.root
         /\ \A m \in Names : Parent(x, m) = Parent(r, m)
         /\ \A m \in sub[n] : \A s \in Sides : Child(x, m, s) = Child(r, m, s)
         /\ \A m \in S \ sub[n] : \A s \in Sides :
              Child(x, m, s) = IF Child(t, m, s) = n THEN up ELSE Child(t, m, s)
         /\ \A m \in Names \ S : \A s \in Sides : Child(x, m, s) = Child(r, m, s)
<1> DEFINE p == Parent(t, n)
<1>1. S \subseteq Names /\ sub[n] \subseteq S
  BY RootFacts, NodeFacts
<1>2. /\ p = None <=> n = t.root
      /\ p # None => /\ p \in S /\ p # n /\ p \notin sub[n] /\ SideOf(t, p, n) \in Sides
                     /\ \A m \in S, s \in Sides : Child(t, m, s) = n <=> m = p /\ s = SideOf(t, p, n)
  BY SideOfIs
<1>3. CASE p = None
  <2>1. x = [r EXCEPT !.root = up]
    BY <1>3 DEF LinkAbove
  <2>2. /\ x \in Trees /\ x.root = up
        /\ \A m \in Names : /\ Parent(x, m) = Parent(r, m)
                            /\ \A s \in Sides : Child(x, m, s) = Child(r, m, s)
    BY <2>1, SetRootIs
  <2>3. sub[n] = S
    BY <1>2, <1>3, RootFacts, NodeFacts
  <2> QED BY <1>1, <1>2, <1>3, <2>2, <2>3
<1>4. CASE p # None
  <2>1. x = SetChild(r, p, SideOf(t, p, n), up)
    BY <1>4 DEF LinkAbove
  <2>2. p \in Names /\ SideOf(t, p, n) \in Sides
    BY <1>1, <1>2, <1>4
  <2>3. ChildIsSet(r, p, SideOf(t, p, n), up, x)
    BY <2>1, <2>2, SetChildIs
  <2>4. ASSUME NEW m \in S \ sub[n], NEW s \in Sides
        PROVE  Child(x, m, s) = IF Child(t, m, s) = n THEN up ELSE Child(t, m, s)
    <3>1. Child(x, m, s) = IF m = p /\ s = SideOf(t, p, n) THEN up ELSE Child(r, m, s)
      BY <1>1, <2>3 DEF ChildIsSet
    <3>2. Child(t, m, s) = n <=> m = p /\ s = SideOf(t, p, n)
      BY <1>2, <1>4
    <3> QED BY <3>1, <3>2
  <2>5. ASSUME NEW m \in sub[n], NEW s \in Sides PROVE Child(x, m, s) = Child(r, m, s)
    <3>1. m # p /\ m \in Names
      BY <1>1, <1>2, <1>4
    <3> QED BY <2>3, <3>1 DEF ChildIsSet
  <2>6. x \in Trees /\ x.root = r.root /\ \A m \in Names : Parent(x, m) = Parent(r, m)
    BY <2>3 DEF ChildIsSet
  <2>7. ASSUME NEW m \in Names \ S, NEW s \in Sides PROVE Child(x, m, s) = Child(r, m, s)
    <3>1. m # p
      BY <1>2, <1>4
    <3> QED BY <2>3, <3>1 DEF ChildIsSet
  <2> QED BY <1>2, <1>4, <2>4, <2>5, <2>6, <2>7
<1> QED BY <1>3, <1>4

\* A node turns down on one side, and its other child takes its place: still a
\* search tree of the same nodes.
TurnedSub(t, sub, n, side) ==
  LET up == Child(t, n, Other(side))
  IN [sub EXCEPT ![n] = {n} \cup Under(sub, Child(t, n, side)) \cup Under(sub, Child(t, up, side)),
                 ![up] = sub[n]]

LEMMA TurnLinks ==
  ASSUME NEW t, NEW key, NEW S, NEW sub, IsTree(t, key, S, sub), NEW n \in S, NEW side \in Sides,
         NEW up, up = Child(t, n, Other(side)), up # None,
         NEW inner, inner = Child(t, up, side),
         NEW r, r = Turn(t, n, side)
  PROVE  /\ up \in S /\ up # n /\ inner # n /\ inner # up /\ Parent(t, up) = n
         /\ r \in Trees
         /\ r.root = IF n = t.root THEN up ELSE t.root
         /\ \A m \in S :
              /\ Parent(r, m) = IF m = inner THEN n ELSE IF m = up THEN Parent(t, n)
                                ELSE IF m = n THEN up ELSE Parent(t, m)
              /\ \A s \in Sides : Child(r, m, s) = IF m = n /\ s = Other(side) THEN inner
                                                   ELSE IF m = up /\ s = side THEN n
                                                   ELSE IF Child(t, m, s) = n THEN up
                                                   ELSE Child(t, m, s)
<1>1. up \in S /\ up # n /\ Parent(t, up) = n /\ up \in sub[n] /\ n \notin sub[up]
  <2>1. up \in S /\ Parent(t, up) = n /\ Under(sub, up) = sub[up]
    BY TwoSides, NodeFacts
  <2>2. up \in sub[up]
    BY <2>1, NodeFacts
  <2>3. sub[up] \subseteq sub[n] /\ n \notin sub[up]
    BY TwoSides, ChildIsSmaller
  <2> QED BY <2>1, <2>2, <2>3
<1>2. inner # n /\ inner # up
  <2>1. ASSUME inner # None PROVE inner # n /\ inner # up
    <3>1. inner \in S /\ up \notin sub[inner] /\ sub[inner] \subseteq sub[up]
      BY <1>1, <2>1, ChildIsSmaller
    <3>2. inner \in sub[inner]
      BY <3>1, NodeFacts
    <3> QED BY <1>1, <3>1, <3>2
  <2>2. n # None /\ up # None
    BY NodeFacts
  <2> QED BY <2>1, <2>2
<1>3. PICK x : x = Rotate(t, n, side)
  OBVIOUS
<1>4. S \subseteq Names /\ t \in Trees /\ sub[n] \subseteq S
  BY RootFacts, NodeFacts
<1>5. /\ x \in Trees /\ x.root = t.root
      /\ \A m \in Names :
           /\ Parent(x, m) = IF m = inner THEN n ELSE IF m = up THEN Parent(t, n)
                             ELSE IF m = n THEN up ELSE Parent(t, m)
           /\ \A s \in Sides : Child(x, m, s) = IF m = n /\ s = Other(side) THEN inner
                                                ELSE IF m = up /\ s = side THEN n
                                                ELSE Child(t, m, s)
  BY <1>1, <1>3, <1>4, RotateIs
<1>6. n \in sub[n]
  BY NodeFacts
<1>7. \A m \in S \ sub[n] : \A s \in Sides : Child(x, m, s) = Child(t, m, s)
  BY <1>1, <1>4, <1>5, <1>6
<1>8. r = LinkAbove(t, x, n, up)
  BY <1>3 DEF Turn
<1>9. up \in Names \cup {None}
  BY <1>1, <1>4
<1>10. /\ r \in Trees
       /\ r.root = IF n = t.root THEN up ELSE t.root
       /\ \A m \in Names : Parent(r, m) = Parent(x, m)
       /\ \A m \in sub[n] : \A s \in Sides : Child(r, m, s) = Child(x, m, s)
       /\ \A m \in S \ sub[n] : \A s \in Sides :
            Child(r, m, s) = IF Child(t, m, s) = n THEN up ELSE Child(t, m, s)
  BY <1>5, <1>7, <1>8, <1>9, LinkAboveIs
<1>11. ASSUME NEW m \in sub[n], NEW s \in Sides PROVE Child(t, m, s) # n
  <2>1. ASSUME Child(t, m, s) = n PROVE FALSE
    <3>1. m \in S /\ n # None /\ sub[m] \subseteq sub[n]
      BY BelowBelow, NodeFacts
    <3>2. m \notin sub[n] 
      BY <2>1, <3>1, ChildIsSmaller
    <3> QED BY <3>2
  <2> QED BY <2>1
<1>12. ASSUME NEW m \in S, NEW s \in Sides
       PROVE  Child(r, m, s) = IF m = n /\ s = Other(side) THEN inner
                               ELSE IF m = up /\ s = side THEN n
                               ELSE IF Child(t, m, s) = n THEN up
                               ELSE Child(t, m, s)
  <2>1. CASE m \in sub[n]
    BY <2>1, <1>4, <1>5, <1>10, <1>11
  <2>2. CASE m \notin sub[n]
    BY <2>2, <1>1, <1>6, <1>10
  <2> QED BY <2>1, <2>2
<1>13. ASSUME NEW m \in S
       PROVE  Parent(r, m) = IF m = inner THEN n ELSE IF m = up THEN Parent(t, n)
                             ELSE IF m = n THEN up ELSE Parent(t, m)
  BY <1>4, <1>5, <1>10
<1> QED BY <1>1, <1>2, <1>10, <1>12, <1>13

LEMMA TurnTree ==
  ASSUME NEW t, NEW key, NEW S, NEW sub, IsTree(t, key, S, sub), NEW n \in S, NEW side \in Sides,
         Child(t, n, Other(side)) # None,
         NEW r, r = Turn(t, n, side)
  PROVE  IsTree(r, key, S, TurnedSub(t, sub, n, side))
<1> DEFINE up == Child(t, n, Other(side))
           inner == Child(t, up, side)
           outer == Child(t, up, Other(side))
           far == Child(t, n, side)
           new == TurnedSub(t, sub, n, side)
<1>1. /\ up \in S /\ up # n /\ inner # n /\ inner # up /\ Parent(t, up) = n
      /\ r \in Trees
      /\ r.root = IF n = t.root THEN up ELSE t.root
      /\ \A m \in S :
           /\ Parent(r, m) = IF m = inner THEN n ELSE IF m = up THEN Parent(t, n)
                             ELSE IF m = n THEN up ELSE Parent(t, m)
           /\ \A s \in Sides : Child(r, m, s) = IF m = n /\ s = Other(side) THEN inner
                                                ELSE IF m = up /\ s = side THEN n
                                                ELSE IF Child(t, m, s) = n THEN up
                                                ELSE Child(t, m, s)
  BY TurnLinks
<1>2. /\ S \subseteq Names /\ sub \in [Names -> SUBSET Names] /\ n \in Names /\ up \in Names
      /\ side \in Sides /\ Other(side) \in Sides /\ Other(side) # side /\ Other(Other(side)) = side
      /\ Sides = {side, Other(side)}
  BY <1>1, RootFacts, TwoSides
<1>3. /\ n # None /\ up # None /\ sub[n] \subseteq S
      /\ sub[n] = {n} \cup Under(sub, far) \cup sub[up]
      /\ sub[up] = {up} \cup Under(sub, inner) \cup Under(sub, outer)
  <2>1. n # None /\ sub[n] \subseteq S /\ sub[n] = {n} \cup Under(sub, far) \cup Under(sub, up)
    BY NodeFacts
  <2>2. Under(sub, up) = sub[up]
    BY DEF Under
  <2>3. sub[up] = {up} \cup Under(sub, inner) \cup Under(sub, outer)
    BY <1>1, NodeFacts
  <2> QED BY <2>1, <2>2, <2>3
<1>4. /\ new \in [Names -> SUBSET Names]
      /\ new[n] = {n} \cup Under(sub, far) \cup Under(sub, inner)
      /\ new[up] = sub[n]
      /\ \A m \in Names : m # n /\ m # up => new[m] = sub[m]
  <2>1. {n} \cup Under(sub, far) \cup Under(sub, inner) \subseteq Names
    BY <1>2, <1>3
  <2> QED BY <1>1, <1>2, <1>3, <2>1 DEF TurnedSub
<1> HIDE DEF new
<1>5. \A m : m # n /\ m # up /\ m \in Names \cup {None} => Under(new, m) = Under(sub, m)
  BY <1>4 DEF Under
<1>6. Under(new, n) = new[n] /\ Under(new, up) = sub[n]
  BY <1>3, <1>4 DEF Under
<1>7. /\ far # n /\ far # up /\ inner # n /\ inner # up /\ outer # n /\ outer # up
      /\ far \in Names \cup {None} /\ inner \in Names \cup {None} /\ outer \in Names \cup {None}
  <2>1. far \in Names \cup {None} /\ inner \in Names \cup {None} /\ outer \in Names \cup {None}
    BY <1>1, <1>2, NodeFacts
  <2>2. far # n /\ outer # up
    BY <1>1, <1>2, <1>3, ChildIsSmaller, NodeFacts
  <2>3. outer # n
    <3>1. ASSUME outer = n PROVE FALSE
      <4>1. sub[n] \subseteq sub[up] /\ n \notin sub[up]
        BY <1>1, <1>2, <1>3, <3>1, ChildIsSmaller
      <4> QED BY <4>1, NodeFacts
    <3> QED BY <3>1
  <2>4. far # up
    <3>1. ASSUME far = up PROVE FALSE
      <4>1. up \in Under(sub, up)
        BY <1>3 DEF Under
      <4>2. On(side, key[up], key[n]) /\ On(Other(side), key[up], key[n]) /\ key[n] \in Int \X Int
            /\ key[up] \in Int \X Int
        BY <1>1, <1>2, <3>1, <4>1, NodeFacts
      <4> QED BY <4>2, OnIsOrder
    <3> QED BY <3>1
  <2> QED BY <1>1, <2>1, <2>2, <2>3, <2>4
<1>8. IsLinked(r, S)
  <2>1. r.root \in S /\ Parent(r, r.root) = None
    <3>1. t.root \in S /\ Parent(t, t.root) = None
      BY RootFacts
    <3>2. CASE n = t.root
      BY <3>1, <3>2, <1>1
    <3>3. CASE n # t.root
      <4>1. t.root # up
        BY <1>1, <1>3, <3>1
      <4>2. t.root # inner
        BY <1>1, <1>3, <3>1, NodeFacts
      <4> QED BY <3>1, <3>3, <4>1, <4>2, <1>1
    <3> QED BY <3>2, <3>3
  <2>2. ASSUME NEW m \in S, NEW s \in Sides, NEW c, c = Child(r, m, s), c # None
        PROVE  c \in S /\ Parent(r, c) = m
    <3>1. CASE m = n /\ s = Other(side)
      <4>1. c = inner
        BY <1>1, <2>2, <3>1
      <4>2. inner \in S
        BY <1>1, <2>2, <4>1, NodeFacts
      <4> QED BY <1>1, <3>1, <4>1, <4>2
    <3>2. CASE m = up /\ s = side
      <4>1. c = n
        BY <1>1, <2>2, <3>2
      <4> QED BY <1>1, <3>2, <4>1
    <3>3. CASE ~ (m = n /\ s = Other(side)) /\ ~ (m = up /\ s = side) /\ Child(t, m, s) = n
      <4>1. c = up
        BY <1>1, <2>2, <3>3
      <4>2. Parent(t, n) = m
        BY <1>3, <3>3, NodeFacts
      <4> QED BY <1>1, <4>1, <4>2
    <3>4. CASE ~ (m = n /\ s = Other(side)) /\ ~ (m = up /\ s = side) /\ Child(t, m, s) # n
      <4>1. c = Child(t, m, s)
        BY <1>1, <2>2, <3>4
      <4>2. c \in S /\ Parent(t, c) = m
        BY <2>2, <4>1, NodeFacts
      <4>3. c # up
        <5>1. ASSUME c = up PROVE FALSE
          <6>1. m = n
            BY <1>1, <4>2, <5>1
          <6>2. s = side
            BY <1>2, <3>4, <6>1
          <6> QED BY <1>7, <4>1, <5>1, <6>1, <6>2
        <5> QED BY <5>1
      <4>4. c # inner
        <5>1. ASSUME c = inner PROVE FALSE
          <6>1. inner # None /\ Parent(t, inner) = up
            BY <1>1, <2>2, <5>1, NodeFacts
          <6>2. m = up
            BY <4>2, <5>1, <6>1
          <6>3. s = Other(side)
            BY <1>2, <3>4, <6>2
          <6>4. inner = outer
            BY <4>1, <5>1, <6>2, <6>3
          <6>5. inner \in Under(sub, inner) /\ inner \in S
            BY <4>2, <5>1, <6>1, NodeFacts DEF Under
          <6>6. On(side, key[inner], key[up]) /\ On(Other(side), key[inner], key[up])
                /\ key[up] \in Int \X Int /\ key[inner] \in Int \X Int
            BY <1>1, <1>2, <6>4, <6>5, NodeFacts
          <6> QED BY <6>6, OnIsOrder
        <5> QED BY <5>1
      <4>5. c # n
        BY <3>4, <4>1
      <4> QED BY <1>1, <4>2, <4>3, <4>4, <4>5
    <3> QED BY <3>1, <3>2, <3>3, <3>4
  <2>3. r.root # None
    BY <2>1, <1>2, NamesAssumption
  <2> QED BY <1>1, <1>2, <2>1, <2>2, <2>3 DEF IsLinked
<1>9. \A m \in S : new[m] \subseteq S
  <2>1. new[n] \subseteq S
    BY <1>3, <1>4
  <2>2. \A m \in S : sub[m] \subseteq S
    BY NodeFacts
  <2> QED BY <1>2, <1>3, <1>4, <2>1, <2>2
<1>10. Under(new, r.root) = S
  <2>1. t.root # None /\ sub[t.root] = S /\ t.root \in S
    BY RootFacts
  <2>2. CASE n = t.root
    BY <1>1, <1>6, <2>1, <2>2
  <2>3. CASE n # t.root
    <3>1. t.root # up
      BY <1>1, <1>3, RootFacts
    <3> QED BY <1>1, <1>2, <1>5, <2>1, <2>3, <3>1 DEF Under
  <2> QED BY <2>2, <2>3
<1>11. ASSUME NEW m \in S
       PROVE  /\ new[m] = {m} \cup Under(new, Child(r, m, side)) \cup Under(new, Child(r, m, Other(side)))
              /\ \A s \in Sides : \A k \in Under(new, Child(r, m, s)) : On(s, key[k], key[m])
  <2>1. CASE m = n
    <3>1. Child(r, n, side) = far /\ Child(r, n, Other(side)) = inner
      BY <1>1, <1>2, <1>7
    <3>2. Under(new, far) = Under(sub, far) /\ Under(new, inner) = Under(sub, inner)
      BY <1>5, <1>7
    <3>3. \A k \in Under(sub, far) : On(side, key[k], key[n])
      BY NodeFacts
    <3>4. \A k \in Under(sub, inner) : On(Other(side), key[k], key[n])
      <4>1. \A k \in Under(sub, up) : On(Other(side), key[k], key[n])
        BY <1>2, NodeFacts
      <4> QED BY <1>3, <4>1 DEF Under
    <3> QED BY <1>2, <1>4, <2>1, <3>1, <3>2, <3>3, <3>4
  <2>2. CASE m = up
    <3>1. Child(r, up, side) = n /\ Child(r, up, Other(side)) = outer
      BY <1>1, <1>2, <1>7
    <3>2. Under(new, outer) = Under(sub, outer)
      BY <1>5, <1>7
    <3>3. \A k \in Under(sub, outer) : On(Other(side), key[k], key[up])
      BY <1>1, <1>2, NodeFacts
    <3>4. On(side, key[n], key[up]) /\ key[n] \in Int \X Int /\ key[up] \in Int \X Int
      <4>1. up \in Under(sub, up)
        BY <1>3 DEF Under
      <4>2. On(Other(side), key[up], key[n]) /\ key[n] \in Int \X Int /\ key[up] \in Int \X Int
        BY <1>2, <4>1, NodeFacts
      <4> QED BY <4>2, OnIsOrder
    <3>5. \A k \in Under(sub, inner) : On(side, key[k], key[up])
      BY <1>1, NodeFacts
    <3>6. ASSUME NEW k \in Under(sub, far) PROVE On(side, key[k], key[up])
      <4>1. On(side, key[k], key[n]) /\ key[k] \in Int \X Int
        BY NodeFacts
      <4> QED BY <3>4, <4>1, OnIsOrder
    <3>7. \A k \in Under(new, n) : On(side, key[k], key[up])
      BY <1>4, <1>6, <3>4, <3>5, <3>6
    <3>8. new[up] = {up} \cup Under(new, n) \cup Under(new, outer)
      BY <1>3, <1>4, <1>6, <3>2
    <3> QED BY <1>2, <2>2, <3>1, <3>2, <3>3, <3>7, <3>8
  <2>3. CASE m # n /\ m # up
    <3>1. new[m] = sub[m]
      BY <1>2, <1>4, <2>3
    <3>2. ASSUME NEW s \in Sides PROVE Under(new, Child(r, m, s)) = Under(sub, Child(t, m, s))
      <4>1. CASE Child(t, m, s) = n
        <5>1. Child(r, m, s) = up
          BY <1>1, <2>3, <4>1
        <5> QED BY <1>3, <1>6, <4>1, <5>1 DEF Under
      <4>2. CASE Child(t, m, s) # n
        <5>1. Child(r, m, s) = Child(t, m, s)
          BY <1>1, <2>3, <4>2
        <5>2. Child(t, m, s) # up
          BY <1>1, <1>3, <2>3, NodeFacts
        <5>3. Child(t, m, s) \in Names \cup {None}
          BY NodeFacts
        <5> QED BY <1>5, <4>2, <5>1, <5>2, <5>3
      <4> QED BY <4>1, <4>2
    <3>3. sub[m] = {m} \cup Under(sub, Child(t, m, side)) \cup Under(sub, Child(t, m, Other(side)))
      BY NodeFacts
    <3>4. \A s \in Sides : \A k \in Under(sub, Child(t, m, s)) : On(s, key[k], key[m])
      BY NodeFacts
    <3> QED BY <1>2, <3>1, <3>2, <3>3, <3>4
  <2> QED BY <2>1, <2>2, <2>3
<1>12. ASSUME NEW m \in S PROVE IsPlaced(r, key, new, m)
  <2>1. \/ side = "left" /\ Other(side) = "right"
        \/ side = "right" /\ Other(side) = "left"
    BY DEF Sides, Other
  <2> QED BY <1>11, <2>1 DEF IsPlaced
<1>13. IsKeyed(key, S)
  BY RootFacts
<1>14. IsTree(r, key, S, new)
  BY <1>4, <1>8, <1>9, <1>10, <1>12, <1>13 DEF IsTree
<1> QED BY <1>14 DEF new

-----------------------------------------------------------------------------
(* fix                                                                     *)

\* What is put in the place of n depends on the links above n only.
LEMMA SamePlace ==
  ASSUME NEW t, NEW x, NEW r, NEW n, NEW up, Parent(x, n) = Parent(t, n),
         Parent(t, n) # None => Child(x, Parent(t, n), "left") = Child(t, Parent(t, n), "left")
  PROVE  LinkAbove(x, r, n, up) = LinkAbove(t, r, n, up)
BY DEF LinkAbove, SideOf

\* fixLeft and fixRight, with the link from above, are a turn or two.
LEMMA FixSideTree ==
  ASSUME NEW t, NEW key, NEW S, NEW sub, IsTree(t, key, S, sub), NEW n \in S, NEW side \in Sides,
         Child(t, n, side) # None,
         NEW b, b = FixSide(t, n, side)
  PROVE  \E sub2 : /\ IsTree(LinkAbove(t, b.t, n, b.top), key, S, sub2)
                   /\ \A m \in S \ sub[n] : sub2[m] = sub[m]
<1> DEFINE c == Child(t, n, side)
           inner == Child(t, c, Other(side))
           twice == Height(t, Child(t, c, side)) < Height(t, inner)
<1>1. PICK ready : ready = IF twice THEN SetChild(Rotate(t, c, side), n, side, inner) ELSE t
  OBVIOUS
<1>2. b = [t |-> Rotate(ready, n, Other(side)), top |-> Child(ready, n, side)]
  BY <1>1 DEF FixSide
<1>3. Other(Other(side)) = side /\ Other(side) \in Sides /\ Other(side) # side
  BY TwoSides
<1>4. c \in S /\ Parent(t, c) = n /\ n # None /\ n # c
  BY NodeFacts, ChildIsSmaller
<1>5. /\ \E sub1 : IsTree(ready, key, S, sub1) /\ \A m \in {n} \cup (S \ sub[n]) : sub1[m] = sub[m]
      /\ Child(ready, n, side) # None
      /\ Parent(ready, n) = Parent(t, n)
      /\ Parent(t, n) # None => Child(ready, Parent(t, n), "left") = Child(t, Parent(t, n), "left")
  <2>1. CASE ~ twice
    BY <1>1, <2>1
  <2>2. CASE twice
    <3>1. inner # None
      <4>1. ASSUME inner = None PROVE FALSE
        <5>1. Child(t, c, side) \in Names \cup {None}
          BY <1>4, NodeFacts
        <5>2. Height(t, Child(t, c, side)) \in Nat /\ Height(t, inner) = 0
          BY <4>1, <5>1, RootFacts, TreeFacts DEF Height
        <5> QED BY <2>2, <5>2
      <4> QED BY <4>1
    <3>2. SideOf(t, n, c) = side
      BY <1>4, SideOfIs
    <3>3. ready = Turn(t, c, side)
      BY <1>1, <1>4, <2>2, <3>2 DEF Turn, LinkAbove
    <3>4. /\ inner \in S /\ inner # c
          /\ \A m \in S :
               /\ Parent(ready, m) = IF m = Child(t, inner, side) THEN c ELSE IF m = inner THEN Parent(t, c)
                                     ELSE IF m = c THEN inner ELSE Parent(t, m)
               /\ \A s \in Sides : Child(ready, m, s) = IF m = c /\ s = Other(side) THEN Child(t, inner, side)
                                                        ELSE IF m = inner /\ s = side THEN c
                                                        ELSE IF Child(t, m, s) = c THEN inner
                                                        ELSE Child(t, m, s)
      BY <1>4, <3>1, <3>3, TurnLinks
    <3>5. IsTree(ready, key, S, TurnedSub(t, sub, c, side))
      BY <1>4, <3>1, <3>3, TurnTree
    <3>6. n \notin sub[c] /\ sub[inner] \subseteq sub[c] /\ inner \in sub[c] /\ inner # None
      BY <1>3, <1>4, <3>1, <3>4, ChildIsSmaller, NodeFacts
    <3>7. n # inner /\ n # Child(t, inner, side)
      <4>1. n # inner
        BY <3>6
      <4>2. ASSUME n = Child(t, inner, side) PROVE FALSE
        <5>1. sub[n] \subseteq sub[inner] /\ n \in sub[n]
          BY <1>4, <3>4, <4>2, ChildIsSmaller, NodeFacts
        <5> QED BY <3>6, <5>1
      <4> QED BY <4>1, <4>2
    <3>8. Parent(ready, n) = Parent(t, n)
      BY <1>4, <3>4, <3>7
    <3>9. Child(ready, n, side) # None
      BY <1>4, <3>1, <3>4, <3>7
    <3>10. ASSUME NEW p, p = Parent(t, n), p # None
           PROVE  Child(ready, p, "left") = Child(t, p, "left")
      <4>1. p \in S /\ p # n /\ p \notin sub[n]
        BY <3>10, SideOfIs
      <4>2. c \in sub[c] /\ sub[c] \subseteq sub[n]
        BY <1>4, ChildIsSmaller, NodeFacts
      <4>3. p # c /\ p # inner
        BY <3>6, <4>1, <4>2
      <4>4. Child(t, p, "left") # c
        BY <1>4, <4>1, TwoSides, NodeFacts
      <4> QED BY <3>4, <4>1, <4>3, <4>4, TwoSides
    <3>11. \A m \in {n} \cup (S \ sub[n]) : TurnedSub(t, sub, c, side)[m] = sub[m]
      <4>1. sub[c] \subseteq sub[n] /\ c \in sub[c]
        BY <1>4, ChildIsSmaller, NodeFacts
      <4>2. \A m \in {n} \cup (S \ sub[n]) : m # c /\ m # inner
        BY <1>4, <3>6, <3>7, <4>1
      <4>3. inner = Child(t, c, Other(side)) /\ sub \in [Names -> SUBSET Names]
            /\ {n} \cup (S \ sub[n]) \subseteq Names
        BY NodeFacts, RootFacts
      <4> QED BY <4>2, <4>3 DEF TurnedSub
    <3> QED BY <3>5, <3>8, <3>9, <3>10, <3>11
  <2> QED BY <2>1, <2>2
<1>6. PICK sub1 : IsTree(ready, key, S, sub1) /\ \A m \in {n} \cup (S \ sub[n]) : sub1[m] = sub[m]
  BY <1>5
<1>7. LinkAbove(t, b.t, n, b.top) = LinkAbove(ready, b.t, n, b.top)
  BY <1>5, SamePlace
<1>8. LinkAbove(ready, b.t, n, b.top) = Turn(ready, n, Other(side))
  BY <1>2, <1>3 DEF Turn
<1>9. IsTree(Turn(ready, n, Other(side)), key, S, TurnedSub(ready, sub1, n, Other(side)))
  BY <1>3, <1>5, <1>6, TurnTree
<1>10. ASSUME NEW m \in S \ sub[n]
       PROVE  TurnedSub(ready, sub1, n, Other(side))[m] = sub[m]
  <2>1. Child(ready, n, side) \in sub1[n] /\ sub1[n] = sub[n] /\ n \in sub[n]
    <3>1. Child(ready, n, side) \in S /\ sub1[Child(ready, n, side)] \subseteq sub1[n]
      BY <1>5, <1>6, ChildIsSmaller
    <3>2. Child(ready, n, side) \in sub1[Child(ready, n, side)] /\ n \in sub[n]
      BY <1>6, <3>1, NodeFacts
    <3> QED BY <1>6, <3>1, <3>2
  <2>2. m # n /\ m # Child(ready, n, side) /\ sub1[m] = sub[m]
    BY <1>6, <1>10, <2>1
  <2>3. m \in Names /\ sub1 \in [Names -> SUBSET Names]
    BY <1>6, <1>10, RootFacts
  <2> QED BY <1>3, <2>2, <2>3 DEF TurnedSub
<1> QED BY <1>7, <1>8, <1>9, <1>10

\* A round of fix leaves a search tree of the same nodes behind.
LEMMA FixOneTree ==
  ASSUME NEW t, NEW key, NEW S, NEW sub, IsTree(t, key, S, sub), NEW n \in S,
         NEW w, w = FixOne([t |-> t, at |-> n])
  PROVE  /\ w = [at |-> Parent(t, n), t |-> w.t]
         /\ \E sub2 : IsTree(w.t, key, S, sub2) /\ \A m \in S \ sub[n] : sub2[m] = sub[m]
<1> DEFINE p == Parent(t, n)
<1>1. PICK u : u = Update(t, n)
  OBVIOUS
<1>2. PICK b : b = Balanced(u, n)
  OBVIOUS
<1>3. n \in Names /\ n # None /\ t \in Trees /\ S \subseteq Names
  BY NodeFacts, RootFacts
<1>4. u \in Trees /\ SameLinks(t, u)
  BY <1>1, <1>3, UpdateIs
<1>5. IsTree(u, key, S, sub)
  BY <1>3, <1>4, SameTree DEF SameLinks
<1>6. /\ w.t = LinkAbove(t, b.t, n, b.top)
      /\ w = [at |-> p, t |-> w.t]
  BY <1>1, <1>2, <1>3 DEF FixOne, LinkAbove, Parent
<1>7. LinkAbove(t, b.t, n, b.top) = LinkAbove(u, b.t, n, b.top)
  <2>1. Parent(u, n) = Parent(t, n)
    BY <1>3, <1>4 DEF SameLinks
  <2>2. ASSUME p # None PROVE Child(u, p, "left") = Child(t, p, "left")
    <3>1. p \in Names
      BY <1>3, <2>2, TreeFacts
    <3> QED BY <1>4, <3>1, TwoSides DEF SameLinks
  <2> QED BY <2>1, <2>2, SamePlace
<1>8. \E sub2 : /\ IsTree(LinkAbove(u, b.t, n, b.top), key, S, sub2)
                /\ \A m \in S \ sub[n] : sub2[m] = sub[m]
  <2> DEFINE l == Height(u, Child(u, n, "left"))
             r == Height(u, Child(u, n, "right"))
  <2>1. l \in Nat /\ r \in Nat
    BY <1>3, <1>4, TreeFacts, TwoSides DEF Height
  <2>2. CASE l = r + 2
    <3>1. r # l + 2
      BY <2>1, <2>2
    <3>2. b = FixSide(u, n, "left")
      BY <1>2, <2>2, <3>1 DEF Balanced
    <3>3. Child(u, n, "left") # None
      BY <2>1, <2>2 DEF Height
    <3> QED BY <1>5, <3>2, <3>3, FixSideTree, TwoSides
  <2>3. CASE r = l + 2
    <3>1. l # r + 2
      BY <2>1, <2>3
    <3>2. b = FixSide(u, n, "right")
      BY <1>2, <2>3, <3>1 DEF Balanced
    <3>3. Child(u, n, "right") # None
      BY <2>1, <2>3 DEF Height
    <3> QED BY <1>5, <3>2, <3>3, FixSideTree, TwoSides
  <2>4. CASE l # r + 2 /\ r # l + 2
    <3>1. b = [t |-> u, top |-> n]
      BY <1>2, <2>4 DEF Balanced
    <3>2. PICK x : x = LinkAbove(u, b.t, n, b.top)
      OBVIOUS
    <3>3. x = LinkAbove(u, u, n, n)
      BY <3>1, <3>2
    <3>4. /\ x \in Trees /\ x.root = IF n = u.root THEN n ELSE u.root
          /\ \A m \in Names : Parent(x, m) = Parent(u, m)
          /\ \A m \in sub[n] : \A s \in Sides : Child(x, m, s) = Child(u, m, s)
          /\ \A m \in S \ sub[n] : \A s \in Sides :
               Child(x, m, s) = IF Child(u, m, s) = n THEN n ELSE Child(u, m, s)
      BY <1>3, <1>4, <1>5, <3>3, LinkAboveIs
    <3>5. IsTree(x, key, S, sub)
      BY <1>3, <1>5, <3>4, SameTree
    <3> QED BY <3>2, <3>5
  <2> QED BY <2>2, <2>3, <2>4
<1> QED BY <1>6, <1>7, <1>8

\* What fix may have come to on its way to the root.
Fixing(key, S) ==
  {w \in [t : Trees, at : Names \cup {None}] :
     (w.at # None => w.at \in S) /\ \E sub : IsTree(w.t, key, S, sub)}

LEMMA FixingStays ==
  ASSUME NEW key, NEW S, NEW w \in Fixing(key, S)
  PROVE  FixOne(w) \in Fixing(key, S)
<1>1. CASE w.at = None
  BY <1>1 DEF FixOne
<1>2. CASE w.at # None
  <2>1. w = [t |-> w.t, at |-> w.at] /\ w.at \in S
    BY <1>2 DEF Fixing
  <2>2. PICK sub : IsTree(w.t, key, S, sub)
    BY DEF Fixing
  <2>3. PICK x : x = FixOne(w)
    OBVIOUS
  <2>4. x = [at |-> Parent(w.t, w.at), t |-> x.t] /\ \E sub2 : IsTree(x.t, key, S, sub2)
    BY <2>1, <2>2, <2>3, FixOneTree
  <2>5. x.t \in Trees
    BY <2>4, RootFacts
  <2>6. Parent(w.t, w.at) # None => Parent(w.t, w.at) \in S
    BY <2>1, <2>2, SideOfIs
  <2>7. Parent(w.t, w.at) \in Names \cup {None}
    BY <2>1, <2>2, NodeFacts
  <2>8. x \in [t : Trees, at : Names \cup {None}] /\ x.at = Parent(w.t, w.at)
    BY <2>4, <2>5, <2>7
  <2> QED BY <2>3, <2>4, <2>6, <2>8 DEF Fixing
<1> QED BY <1>1, <1>2

LEMMA NumberOfNames == Cardinality(Names) \in Nat
BY NamesAssumption, FS_CardinalityType

\* What fix has come to in the end.
Fixed(t, n) == Repeat(FixOne, [t |-> t, at |-> n])

\* The rounds of fix, one after the other.
LEMMA FixRounds ==
  ASSUME NEW t, NEW key, NEW S, NEW sub, IsTree(t, key, S, sub), NEW n \in S
  PROVE  \E after : /\ Fixed(t, n) = after[Cardinality(Names)]
                    /\ after[0] = [t |-> t, at |-> n]
                    /\ \A i \in 1..Cardinality(Names) : after[i] = FixOne(after[i - 1])
<1> DEFINE W == Fixing(key, S)
           start == [t |-> t, at |-> n]
           N == Cardinality(Names)
           F == [w \in W |-> FixOne(w)]
           after == CHOOSE after : after = [i \in 0..N |-> IF i = 0 THEN start ELSE FixOne(after[i - 1])]
<1>1. start \in W
  BY NodeFacts, RootFacts DEF Fixing
<1>2. F \in [W -> W]
  BY FixingStays
<1>3. N \in Nat
  BY NumberOfNames
<1> HIDE DEF W, N
<1>4. PICK g : g \in [0..N -> W] /\ Follows(g, W, F, start, N)
  <2> HIDE DEF F, start
  <2> QED BY <1>1, <1>2, <1>3, RoundsExist
<1>5. g = [i \in 0..N |-> IF i = 0 THEN start ELSE FixOne(g[i - 1])]
  <2>1. \A i \in 1..N : g[i - 1] \in W
    BY <1>3, <1>4
  <2>2. \A i \in 1..N : g[i] = FixOne(g[i - 1])
    BY <1>4, <2>1 DEF Follows
  <2> HIDE DEF start
  <2> QED BY <1>3, <1>4, <2>2 DEF Follows
<1>6. after = [i \in 0..N |-> IF i = 0 THEN start ELSE FixOne(after[i - 1])]
  BY <1>5
<1>7. Fixed(t, n) = after[N]
  BY DEF Fixed, Repeat, N
<1> HIDE DEF after
<1>8. after[0] = start /\ \A i \in 1..N : after[i] = FixOne(after[i - 1])
  <2> HIDE DEF start
  <2> QED BY <1>3, <1>6
<1> QED BY <1>7, <1>8 DEF N

\* A round that does not end at the root comes nearer to it: less of the tree
\* is not below the node.
LEMMA FixOneNearer ==
  ASSUME NEW t, NEW key, NEW S, NEW sub, IsTree(t, key, S, sub), NEW n \in S,
         NEW x, x = FixOne([t |-> t, at |-> n]), x.at # None
  PROVE  \E sub2 : /\ IsTree(x.t, key, S, sub2) /\ x.at \in S
                   /\ Cardinality(S \ sub2[x.at]) \in Nat
                   /\ Cardinality(S \ sub2[x.at]) < Cardinality(S \ sub[n])
<1> DEFINE p == Parent(t, n)
<1>1. PICK sub2 : IsTree(x.t, key, S, sub2) /\ \A m \in S \ sub[n] : sub2[m] = sub[m]
  BY FixOneTree
<1>2. x.at = p
  <2>1. x = [at |-> p, t |-> x.t]
    BY FixOneTree
  <2> QED BY <2>1
<1>3. p \in S /\ p \notin sub[n] /\ n \in sub[n]
  BY <1>2, SideOfIs, NodeFacts
<1>4. sub2[p] = sub[p]
  BY <1>1, <1>3
<1>5. p \in sub[p] /\ sub[n] \subseteq sub[p]
  <2>1. PICK side \in Sides : n = Child(t, p, side)
    BY <1>2, <1>3, SideOfIs
  <2>2. n # None
    BY NodeFacts
  <2> QED BY <1>3, <2>1, <2>2, ChildIsSmaller, NodeFacts
<1>6. S \ sub[p] \subseteq S \ sub[n] /\ S \ sub[p] # S \ sub[n]
  BY <1>3, <1>5
<1>7. IsFiniteSet(S \ sub[n])
  BY RootFacts, FS_Subset
<1>8. /\ Cardinality(S \ sub[p]) \in Nat /\ Cardinality(S \ sub[n]) \in Nat
      /\ Cardinality(S \ sub[p]) < Cardinality(S \ sub[n])
  <2>1. IsFiniteSet(S \ sub[p]) /\ Cardinality(S \ sub[p]) <= Cardinality(S \ sub[n])
        /\ Cardinality(S \ sub[p]) # Cardinality(S \ sub[n])
    BY <1>6, <1>7, FS_Subset
  <2>2. Cardinality(S \ sub[p]) \in Nat /\ Cardinality(S \ sub[n]) \in Nat
    BY <1>7, <2>1, FS_CardinalityType
  <2> QED BY <2>1, <2>2
<1> QED BY <1>1, <1>2, <1>3, <1>4, <1>8

\* fix goes all the way up: as many rounds as there are names are enough to come
\* past the root, whatever it rotates on its way.
LEMMA FixEnds ==
  ASSUME NEW t, NEW key, NEW S, NEW sub, IsTree(t, key, S, sub), NEW n \in S,
         NEW w, w = Fixed(t, n)
  PROVE  w.at = None /\ \E sub2 : IsTree(w.t, key, S, sub2)
<1> DEFINE start == [t |-> t, at |-> n]
           N == Cardinality(Names)
           Near(v, m) == /\ v \in Fixing(key, S)
                         /\ v.at # None => \E sub1 : /\ IsTree(v.t, key, S, sub1)
                                                     /\ Cardinality(S \ sub1[v.at]) \in Nat
                                                     /\ Cardinality(S \ sub1[v.at]) < N - m
<1>1. N \in Nat
  BY NumberOfNames
<1>2. PICK after : /\ w = after[N]
                   /\ after[0] = start /\ \A i \in 1..N : after[i] = FixOne(after[i - 1])
  BY FixRounds
<1>3. Near(start, 0)
  <2>1. start \in Fixing(key, S)
    BY NodeFacts, RootFacts DEF Fixing
  <2>2. S \subseteq Names /\ n \in sub[n] /\ n \in Names
    BY NodeFacts, RootFacts
  <2>3. S \ sub[n] \subseteq Names /\ S \ sub[n] # Names
    BY <2>2
  <2>4. IsFiniteSet(S \ sub[n]) /\ Cardinality(S \ sub[n]) <= N /\ Cardinality(S \ sub[n]) # N
    BY <2>3, NamesAssumption, FS_Subset
  <2>5. Cardinality(S \ sub[n]) \in Nat
    BY <2>4, FS_CardinalityType
  <2> HIDE DEF N
  <2>6. Cardinality(S \ sub[n]) < N - 0
    BY <1>1, <2>4, <2>5
  <2> QED BY <2>1, <2>5, <2>6
<1> HIDE DEF N, start
<1>4. ASSUME NEW i \in 1..N, Near(after[i - 1], i - 1) PROVE Near(after[i], i)
  <2>1. PICK v : v = after[i - 1]
    OBVIOUS
  <2>2. PICK x : x = FixOne(v)
    OBVIOUS
  <2>3. v \in Fixing(key, S) /\ x \in Fixing(key, S) /\ after[i] = x
    BY <1>2, <1>4, <2>1, <2>2, FixingStays
  <2>4. ASSUME x.at # None
        PROVE  \E sub2 : /\ IsTree(x.t, key, S, sub2)
                         /\ Cardinality(S \ sub2[x.at]) \in Nat
                         /\ Cardinality(S \ sub2[x.at]) < N - i
    <3>1. v.at # None
      BY <2>2, <2>4 DEF FixOne
    <3>2. PICK sub1 : /\ IsTree(v.t, key, S, sub1)
                      /\ Cardinality(S \ sub1[v.at]) \in Nat
                      /\ Cardinality(S \ sub1[v.at]) < N - (i - 1)
      BY <1>4, <2>1, <3>1
    <3>3. v = [t |-> v.t, at |-> v.at] /\ v.at \in S
      BY <2>3, <3>1 DEF Fixing
    <3>4. PICK sub2 : /\ IsTree(x.t, key, S, sub2)
                      /\ Cardinality(S \ sub2[x.at]) \in Nat
                      /\ Cardinality(S \ sub2[x.at]) < Cardinality(S \ sub1[v.at])
      BY <2>2, <2>4, <3>2, <3>3, FixOneNearer
    <3>5. Cardinality(S \ sub2[x.at]) < N - i
      BY <1>1, <3>2, <3>4
    <3> QED BY <3>4, <3>5
  <2> QED BY <2>3, <2>4
<1> HIDE DEF Near
<1> DEFINE T == {i \in 0..N : Near(after[i], i)}
<1>5. 0 \in T
  BY <1>1, <1>2, <1>3
<1>6. ASSUME NEW i \in 1..N, i - 1 \in T PROVE i \in T
  BY <1>1, <1>4, <1>6
<1>7. Near(w, N)
  <2> HIDE DEF T
  <2>1. 0..N \subseteq T
    BY <1>1, <1>5, <1>6, UpTo
  <2>2. N \in T
    BY <1>1, <2>1
  <2> QED BY <1>2, <2>2 DEF T
<1>8. w.at = None
  <2>1. SUFFICES ASSUME w.at # None PROVE FALSE
    OBVIOUS
  <2>2. PICK sub1 : Cardinality(S \ sub1[w.at]) \in Nat /\ Cardinality(S \ sub1[w.at]) < N - N
    BY <1>7, <2>1 DEF Near
  <2> QED BY <1>1, <2>2
<1>9. w \in Fixing(key, S)
  BY <1>7 DEF Near
<1> QED BY <1>8, <1>9 DEF Fixing

\* fix keeps the nodes, their order and their links right, whatever heights it
\* finds on its way.
LEMMA FixTree ==
  ASSUME NEW t, NEW key, NEW S, NEW sub, IsTree(t, key, S, sub), NEW n \in S
  PROVE  \E sub2 : IsTree(Fix(t, n), key, S, sub2)
<1>1. Fix(t, n) = Fixed(t, n).t
  BY DEF Fix, Fixed, Repeat
<1> QED BY <1>1, FixEnds

-----------------------------------------------------------------------------
(* Taking a node out                                                       *)

\* A node with one child at most is replaced by that child.
LEMMA CutTree ==
  ASSUME NEW t, NEW key, NEW S, NEW sub, IsTree(t, key, S, sub), NEW n \in S, NEW side \in Sides,
         Child(t, n, side) = None,
         NEW c, c = Child(t, n, Other(side)),
         NEW x, x = LinkAbove(t, SetParent(t, c, Parent(t, n)), n, c)
  PROVE  IsTree(x, key, S \ {n}, [m \in Names |-> sub[m] \ {n}])
<1> DEFINE p == Parent(t, n)
           new == [m \in Names |-> sub[m] \ {n}]
<1>0. PICK r : r = SetParent(t, c, p)
  OBVIOUS
<1>1. /\ S \subseteq Names /\ t \in Trees /\ sub \in [Names -> SUBSET Names] /\ n \in Names /\ n # None
      /\ sub[n] \subseteq S /\ n \in sub[n] /\ p \in Names \cup {None} /\ c \in Names \cup {None}
      /\ c # None => c \in S /\ Parent(t, c) = n /\ n \notin sub[c] /\ c # n
      /\ sub[n] = {n} \cup Under(sub, c)
  <2>1. /\ S \subseteq Names /\ t \in Trees /\ sub \in [Names -> SUBSET Names]
    BY RootFacts
  <2>2. /\ n \in Names /\ n # None /\ sub[n] \subseteq S /\ n \in sub[n] /\ p \in Names \cup {None}
        /\ c \in Names \cup {None}
        /\ c # None => c \in S /\ Parent(t, c) = n
    BY NodeFacts, TwoSides
  <2>3. c # None => n \notin sub[c] /\ c # n
    <3>1. c # None => n \notin sub[c]
      BY ChildIsSmaller, TwoSides
    <3> QED BY <2>2, <3>1
  <2>4. sub[n] = {n} \cup Under(sub, c)
    <3>1. sub[n] = {n} \cup Under(sub, Child(t, n, side)) \cup Under(sub, c)
      BY NodeFacts
    <3> QED BY <3>1 DEF Under
  <2> QED BY <2>1, <2>2, <2>3, <2>4
<1>2. ParentIsSet(t, c, p, r)
  BY <1>0, <1>1, SetParentIs
<1>3. r \in Trees /\ r.root = t.root /\ \A m \in S \ sub[n] : \A s \in Sides : Child(r, m, s) = Child(t, m, s)
  BY <1>1, <1>2 DEF ParentIsSet
<1>4. /\ x \in Trees
      /\ x.root = IF n = t.root THEN c ELSE t.root
      /\ \A m \in Names : Parent(x, m) = Parent(r, m)
      /\ \A m \in sub[n] : \A s \in Sides : Child(x, m, s) = Child(r, m, s)
      /\ \A m \in S \ sub[n] : \A s \in Sides :
           Child(x, m, s) = IF Child(t, m, s) = n THEN c ELSE Child(t, m, s)
  <2>1. x = LinkAbove(t, r, n, c)
    BY <1>0
  <2>2. r \in Trees /\ c \in Names \cup {None}
    BY <1>1, <1>3
  <2> HIDE DEF new, p
  <2> QED BY <1>3, <2>1, <2>2, LinkAboveIs
<1>5. \A m \in S : Parent(x, m) = IF m = c THEN p ELSE Parent(t, m)
  BY <1>1, <1>2, <1>4 DEF ParentIsSet
<1>6. ASSUME NEW m \in S, NEW s \in Sides
      PROVE  Child(x, m, s) = IF Child(t, m, s) = n THEN c ELSE Child(t, m, s)
  <2>1. CASE m \in sub[n]
    <3>1. Child(t, m, s) # n
      <4>1. ASSUME Child(t, m, s) = n PROVE FALSE
        <5>1. sub[m] \subseteq sub[n] /\ m \notin sub[n]
          BY <1>1, <2>1, <4>1, ChildIsSmaller, BelowBelow
        <5> QED BY <2>1, <5>1
      <4> QED BY <4>1
    <3>2. Child(r, m, s) = Child(t, m, s)
      BY <1>1, <1>2 DEF ParentIsSet
    <3> QED BY <1>4, <2>1, <3>1, <3>2
  <2> QED BY <1>4, <2>1
<1>7. new \in [Names -> SUBSET Names] /\ \A m \in Names : new[m] = sub[m] \ {n}
  BY <1>1
<1> HIDE DEF new
<1>8. \A m : m \in Names \cup {None} => Under(new, m) = Under(sub, m) \ {n}
  BY <1>7 DEF Under
<1>9. Under(sub, n) = sub[n] /\ Under(sub, c) \ {n} = sub[n] \ {n}
  BY <1>1 DEF Under
<1>10. ASSUME NEW m \in S, NEW s \in Sides
       PROVE  Under(new, Child(x, m, s)) = Under(sub, Child(t, m, s)) \ {n}
  <2>1. Child(t, m, s) \in Names \cup {None}
    BY NodeFacts
  <2> QED BY <1>1, <1>6, <1>8, <1>9, <2>1
<1>11. IsLinked(x, S \ {n})
  <2>1. IF x.root = None THEN S \ {n} = {} ELSE x.root \in S \ {n} /\ Parent(x, x.root) = None
    <3>1. t.root \in S /\ Parent(t, t.root) = None /\ sub[t.root] = S
      BY RootFacts
    <3>2. CASE n = t.root
      <4>1. c = None => S = {n}
        BY <1>1, <3>1, <3>2 DEF Under
      <4> QED BY <1>1, <1>4, <1>5, <3>1, <3>2, <4>1
    <3>3. CASE n # t.root
      <4>1. t.root # c /\ t.root # None
        BY <1>1, <3>1, NamesAssumption
      <4> QED BY <1>4, <1>5, <3>1, <3>3, <4>1
    <3> QED BY <3>2, <3>3
  <2>2. ASSUME NEW m \in S \ {n}, NEW s \in Sides, NEW d, d = Child(x, m, s), d # None
        PROVE  d \in S \ {n} /\ Parent(x, d) = m
    <3>1. CASE Child(t, m, s) = n
      <4>1. d = c /\ m = p
        BY <1>1, <1>6, <2>2, <3>1, NodeFacts
      <4> QED BY <1>1, <1>5, <2>2, <4>1
    <3>2. CASE Child(t, m, s) # n
      <4>1. d = Child(t, m, s)
        BY <1>6, <2>2, <3>2
      <4>2. d \in S /\ Parent(t, d) = m /\ d # n
        BY <2>2, <3>2, <4>1, NodeFacts
      <4>3. d # c
        BY <1>1, <2>2, <4>2
      <4> QED BY <1>5, <4>2, <4>3
    <3> QED BY <3>1, <3>2
  <2> QED BY <1>1, <1>4, <2>1, <2>2 DEF IsLinked
<1>12. Under(new, x.root) = S \ {n}
  <2>1. t.root # None /\ sub[t.root] = S /\ t.root \in S
    BY RootFacts
  <2>2. CASE n = t.root
    BY <1>1, <1>4, <1>8, <1>9, <2>1, <2>2
  <2>3. CASE n # t.root
    BY <1>1, <1>4, <1>8, <2>1, <2>3 DEF Under
  <2> QED BY <2>2, <2>3
<1>13. ASSUME NEW m \in S \ {n} PROVE IsPlaced(x, key, new, m)
  <2>1. IsPlaced(t, key, sub, m)
    BY DEF IsTree
  <2>2. new[m] = sub[m] \ {n}
    BY <1>1, <1>7
  <2>3. \A s \in Sides : Under(new, Child(x, m, s)) = Under(sub, Child(t, m, s)) \ {n}
    BY <1>10
  <2>4. new[m] = {m} \cup Under(new, Child(x, m, "left")) \cup Under(new, Child(x, m, "right"))
    BY <2>1, <2>2, <2>3, TwoSides DEF IsPlaced
  <2>5. \A s \in Sides : \A k \in Under(new, Child(x, m, s)) : On(s, key[k], key[m])
    BY <2>1, <2>3 DEF IsPlaced
  <2> QED BY <2>4, <2>5 DEF IsPlaced
<1>14. \A m \in S \ {n} : new[m] \subseteq S \ {n}
  <2>1. \A m \in S : sub[m] \subseteq S
    BY NodeFacts
  <2> QED BY <1>1, <1>7, <2>1
<1>15. IsKeyed(key, S \ {n})
  BY RootFacts DEF IsKeyed
<1>16. IsTree(x, key, S \ {n}, new)
  BY <1>7, <1>11, <1>12, <1>13, <1>14, <1>15 DEF IsTree
<1> QED BY <1>16 DEF new

LEMMA CutOutTree ==
  ASSUME NEW t, NEW key, NEW S, NEW sub, IsTree(t, key, S, sub), NEW n \in S,
         None \in {Child(t, n, side) : side \in Sides}
  PROVE  \E sub2 : IsTree(CutOut(t, n), key, S \ {n}, sub2)
<1> DEFINE c == IF Child(t, n, "left") # None THEN Child(t, n, "left") ELSE Child(t, n, "right")
           p == Parent(t, n)
<1>1. PICK side \in Sides : Child(t, n, side) = None /\ c = Child(t, n, Other(side))
  <2>1. CASE Child(t, n, "left") = None
    BY <2>1 DEF Sides, Other
  <2>2. CASE Child(t, n, "left") # None
    <3>1. Child(t, n, "right") = None
      BY <2>2, TwoSides
    <3> QED BY <2>2, <3>1 DEF Sides, Other
  <2> QED BY <2>1, <2>2
<1>2. PICK x : x = LinkAbove(t, SetParent(t, c, p), n, c)
  OBVIOUS
<1> HIDE DEF c
<1>3. IsTree(x, key, S \ {n}, [m \in Names |-> sub[m] \ {n}])
  BY <1>1, <1>2, CutTree
<1>4. CutOut(t, n) = IF p = None THEN x ELSE Fix(x, p)
  BY <1>2 DEF CutOut, LinkAbove, Parent, c
<1>5. p # None => p \in S \ {n}
  BY SideOfIs
<1> QED BY <1>3, <1>4, <1>5, FixTree

-----------------------------------------------------------------------------
(* The successor in place of a node                                        *)

\* The set of the names below a node when v takes the place of n.
Replaced(sub, v, n) ==
  [m \in Names |-> IF m = v THEN (sub[n] \ {n}) \cup {v}
                   ELSE IF n \in sub[m] THEN (sub[m] \ {n}) \cup {v} ELSE sub[m]]

\* The links of v in place of n, before the link from above.
Placed(t, v, n) == [t EXCEPT !.node[v].child = t.node[n].child, !.node[v].parent = t.node[n].parent]

InPlace(t, v, n, put) ==
  /\ put \in Trees /\ put.root = t.root
  /\ \A m \in Names : /\ Parent(put, m) = IF m = v THEN Parent(t, n) ELSE Parent(t, m)
                      /\ \A s \in Sides : Child(put, m, s) = IF m = v THEN Child(t, n, s)
                                                             ELSE Child(t, m, s)

LEMMA InPlaceLinks ==
  ASSUME NEW t \in Trees, NEW n \in Names, NEW v \in Names
  PROVE  InPlace(t, v, n, Placed(t, v, n))
<1> DEFINE put == Placed(t, v, n)
<1>1. PICK a : a = [t EXCEPT !.node[v].child = t.node[n].child]
  OBVIOUS
<1>2. /\ a \in Trees /\ a.root = t.root
      /\ \A m \in Names : /\ Parent(a, m) = Parent(t, m)
                          /\ \A s \in Sides : Child(a, m, s) = IF m = v THEN Child(t, n, s)
                                                               ELSE Child(t, m, s)
  BY <1>1 DEF Trees, Nodes, Parent, Child
<1>3. put = SetParent(a, v, Parent(t, n))
  BY <1>1, NamesAssumption DEF Placed, SetParent, Parent
<1>4. ParentIsSet(a, v, Parent(t, n), put)
  <2>1. Parent(t, n) \in Names \cup {None}
    BY TreeFacts
  <2> QED BY <1>2, <1>3, <2>1, SetParentIs
<1> QED BY <1>2, <1>4 DEF ParentIsSet, InPlace

LEMMA PutInPlaceIs ==
  ASSUME NEW t, NEW v, NEW n, NEW put, put = Placed(t, v, n)
  PROVE  PutInPlace(t, v, n) =
           LinkAbove(t, SetParent(SetParent(put, Child(put, v, "left"), v), Child(put, v, "right"), v), n, v)
BY DEF PutInPlace, Placed, LinkAbove, Parent

LEMMA PutLinks ==
  ASSUME NEW t, NEW key, NEW S, NEW sub, IsTree(t, key, S, sub), NEW n \in S,
         NEW v \in Names, v \notin S,
         NEW x, x = PutInPlace(t, v, n)
  PROVE  /\ x \in Trees
         /\ x.root = IF n = t.root THEN v ELSE t.root
         /\ Parent(x, v) = Parent(t, n)
         /\ \A m \in S : Parent(x, m) = IF \E s \in Sides : m = Child(t, n, s) THEN v ELSE Parent(t, m)
         /\ \A s \in Sides : Child(x, v, s) = Child(t, n, s)
         /\ \A m \in S \ {n} : \A s \in Sides :
              Child(x, m, s) = IF Child(t, m, s) = n THEN v ELSE Child(t, m, s)
<1> DEFINE p == Parent(t, n)
           L == Child(t, n, "left")
           R == Child(t, n, "right")
<1>1. /\ S \subseteq Names /\ t \in Trees /\ n \in Names /\ v # None
      /\ sub[n] \subseteq S /\ p \in Names \cup {None}
      /\ L \in Names \cup {None} /\ R \in Names \cup {None}
      /\ L # None => L \in S
      /\ R # None => R \in S
  BY RootFacts, NodeFacts, TwoSides, NamesAssumption
<1>2. L # v /\ R # v /\ n # v
  BY <1>1
<1>3. PICK put : put = Placed(t, v, n)
  OBVIOUS
<1>4. /\ put \in Trees /\ put.root = t.root
      /\ \A m \in Names : /\ Parent(put, m) = IF m = v THEN p ELSE Parent(t, m)
                          /\ \A s \in Sides : Child(put, m, s) = IF m = v THEN Child(t, n, s)
                                                                 ELSE Child(t, m, s)
  <2>1. t \in Trees /\ n \in Names
    BY <1>1
  <2>2. InPlace(t, v, n, put)
    BY <1>3, <2>1, InPlaceLinks
  <2> QED BY <2>2 DEF InPlace
<1>5. PICK one : one = SetParent(put, L, v)
  OBVIOUS
<1>6. ParentIsSet(put, L, v, one)
  BY <1>1, <1>4, <1>5, SetParentIs
<1>7. PICK below : below = SetParent(one, R, v)
  OBVIOUS
<1>8. ParentIsSet(one, R, v, below)
  <2>1. one \in Trees
    BY <1>6 DEF ParentIsSet
  <2> QED BY <1>1, <1>7, <2>1, SetParentIs
<1>9. /\ below \in Trees /\ below.root = t.root
      /\ \A m \in Names :
           /\ Parent(below, m) = IF m = L \/ m = R THEN v ELSE IF m = v THEN p ELSE Parent(t, m)
           /\ \A s \in Sides : Child(below, m, s) = IF m = v THEN Child(t, n, s) ELSE Child(t, m, s)
  BY <1>4, <1>6, <1>8 DEF ParentIsSet
<1>10. x = LinkAbove(t, below, n, v)
  <2>1. Child(put, v, "left") = L /\ Child(put, v, "right") = R
    BY <1>4, TwoSides
  <2> QED BY <1>3, <1>5, <1>7, <2>1, PutInPlaceIs
<1>11. \A m \in S \ sub[n] : \A s \in Sides : Child(below, m, s) = Child(t, m, s)
  BY <1>1, <1>9
<1>12. /\ x \in Trees
       /\ x.root = IF n = t.root THEN v ELSE t.root
       /\ \A m \in Names : Parent(x, m) = Parent(below, m)
       /\ \A m \in sub[n] : \A s \in Sides : Child(x, m, s) = Child(below, m, s)
       /\ \A m \in S \ sub[n] : \A s \in Sides :
            Child(x, m, s) = IF Child(t, m, s) = n THEN v ELSE Child(t, m, s)
       /\ \A m \in Names \ S : \A s \in Sides : Child(x, m, s) = Child(below, m, s)
  BY <1>9, <1>10, <1>11, LinkAboveIs
<1>13. Parent(x, v) = p /\ \A s \in Sides : Child(x, v, s) = Child(t, n, s)
  BY <1>2, <1>9, <1>12
<1>14. ASSUME NEW m \in S
       PROVE  Parent(x, m) = IF \E s \in Sides : m = Child(t, n, s) THEN v ELSE Parent(t, m)
  <2>1. (\E s \in Sides : m = Child(t, n, s)) <=> m = L \/ m = R
    BY DEF Sides
  <2> QED BY <1>1, <1>9, <1>12, <2>1
<1>15. ASSUME NEW m \in S \ {n}, NEW s \in Sides
       PROVE  Child(x, m, s) = IF Child(t, m, s) = n THEN v ELSE Child(t, m, s)
  <2>1. CASE m \in sub[n]
    <3>1. Child(t, m, s) # n
      <4>1. ASSUME Child(t, m, s) = n PROVE FALSE
        <5>1. sub[m] \subseteq sub[n] /\ m \notin sub[n]
          BY <2>1, <4>1, ChildIsSmaller, BelowBelow, NodeFacts
        <5> QED BY <2>1, <5>1
      <4> QED BY <4>1
    <3>2. Child(below, m, s) = Child(t, m, s)
      BY <1>1, <1>9
    <3> QED BY <1>12, <2>1, <3>1, <3>2
  <2> QED BY <1>12, <2>1
<1> QED BY <1>12, <1>13, <1>14, <1>15

\* v takes the place of n; it is to be between the same nodes as n.
LEMMA PutTree ==
  ASSUME NEW t, NEW key, NEW S, NEW sub, IsTree(t, key, S, sub), NEW n \in S,
         NEW v \in Names, v \notin S, key[v] \in Int \X Int,
         \A m \in S \ {n} : /\ Less(key[m], key[n]) => Less(key[m], key[v])
                            /\ Less(key[n], key[m]) => Less(key[v], key[m]),
         NEW x, x = PutInPlace(t, v, n)
  PROVE  IsTree(x, key, (S \ {n}) \cup {v}, Replaced(sub, v, n))
<1> DEFINE new == Replaced(sub, v, n)
           V == (S \ {n}) \cup {v}
<1>1. /\ x \in Trees
      /\ x.root = IF n = t.root THEN v ELSE t.root
      /\ Parent(x, v) = Parent(t, n)
      /\ \A m \in S : Parent(x, m) = IF \E s \in Sides : m = Child(t, n, s) THEN v ELSE Parent(t, m)
      /\ \A s \in Sides : Child(x, v, s) = Child(t, n, s)
      /\ \A m \in S \ {n} : \A s \in Sides :
           Child(x, m, s) = IF Child(t, m, s) = n THEN v ELSE Child(t, m, s)
  BY PutLinks
<1>2. /\ S \subseteq Names /\ sub \in [Names -> SUBSET Names] /\ n \in Names /\ n # None /\ v # None
      /\ n # v /\ n \in sub[n] /\ \A m \in S : sub[m] \subseteq S
  BY RootFacts, NodeFacts, NamesAssumption
<1>3. /\ new \in [Names -> SUBSET Names]
      /\ new[v] = (sub[n] \ {n}) \cup {v}
      /\ \A m \in S \ {n} : new[m] = IF n \in sub[m] THEN (sub[m] \ {n}) \cup {v} ELSE sub[m]
  BY <1>2 DEF Replaced
<1> HIDE DEF new
<1>4. ASSUME NEW m \in S, NEW s \in Sides, NEW c, c = Child(t, m, s), NEW d, d = IF c = n THEN v ELSE c
      PROVE  Under(new, d) = IF n \in Under(sub, c) THEN (Under(sub, c) \ {n}) \cup {v} ELSE Under(sub, c)
  <2>1. CASE c = n
    BY <1>2, <1>3, <1>4, <2>1 DEF Under
  <2>2. CASE c = None
    BY <1>2, <1>4, <2>2 DEF Under
  <2>3. CASE c # n /\ c # None
    <3>1. c \in S \ {n}
      BY <1>4, <2>3, NodeFacts
    <3> QED BY <1>3, <1>4, <2>3, <3>1 DEF Under
  <2> QED BY <2>1, <2>2, <2>3
<1>5. ASSUME NEW s \in Sides
      PROVE  /\ Child(t, n, s) # n
             /\ n \notin Under(sub, Child(t, n, s))
             /\ Under(new, Child(t, n, s)) = Under(sub, Child(t, n, s))
  <2>1. n \notin Under(sub, Child(t, n, s))
    BY NodeFacts
  <2>2. Child(t, n, s) # n
    BY <1>2, <2>1 DEF Under
  <2> QED BY <1>4, <2>1, <2>2
<1>6. IsLinked(x, V)
  <2>1. x.root \in V /\ x.root # None /\ Parent(x, x.root) = None
    <3>1. t.root \in S /\ Parent(t, t.root) = None /\ t.root # None
      BY RootFacts
    <3>2. ASSUME NEW s \in Sides PROVE t.root # Child(t, n, s)
      BY <1>2, <3>1, NodeFacts
    <3> QED BY <1>1, <1>2, <3>1, <3>2
  <2>2. ASSUME NEW m \in V, NEW s \in Sides, NEW d, d = Child(x, m, s), d # None
        PROVE  d \in V /\ Parent(x, d) = m
    <3>1. CASE m = v
      <4>1. d = Child(t, n, s)
        BY <1>1, <2>2, <3>1
      <4>2. d \in S /\ d # n
        BY <1>5, <2>2, <4>1, NodeFacts
      <4> QED BY <1>1, <3>1, <4>1, <4>2
    <3>2. CASE m # v /\ Child(t, m, s) = n
      <4>1. d = v /\ m \in S /\ Parent(t, n) = m
        BY <1>1, <1>2, <2>2, <3>2, NodeFacts
      <4> QED BY <1>1, <4>1
    <3>3. CASE m # v /\ Child(t, m, s) # n
      <4>1. d = Child(t, m, s) /\ m \in S /\ m # n
        BY <1>1, <2>2, <3>3
      <4>2. d \in S /\ d # n /\ Parent(t, d) = m
        BY <2>2, <3>3, <4>1, NodeFacts
      <4>3. \A e \in Sides : d # Child(t, n, e)
        BY <2>2, <4>1, <4>2, NodeFacts
      <4> QED BY <1>1, <4>2, <4>3
    <3> QED BY <3>1, <3>2, <3>3
  <2> QED BY <1>1, <1>2, <2>1, <2>2 DEF IsLinked
<1>7. IsKeyed(key, S)
  BY RootFacts
<1>8. ASSUME NEW m \in S \ {n}
      PROVE  /\ key[m] \in Int \X Int /\ key[m] # key[v]
             /\ \A s \in Sides : /\ On(s, key[m], key[n]) => On(s, key[m], key[v])
                                 /\ On(s, key[n], key[m]) => On(s, key[v], key[m])
  <2>1. key[m] \in Int \X Int /\ key[n] \in Int \X Int /\ key[m] # key[n]
    BY <1>7 DEF IsKeyed
  <2>2. Less(key[m], key[n]) \/ Less(key[n], key[m])
    BY <2>1, LessIsOrder
  <2>3. Less(key[m], key[v]) \/ Less(key[v], key[m])
    BY <2>2
  <2>4. key[m] # key[v]
    BY <2>1, <2>3, LessIsOrder
  <2> QED BY <2>1, <2>4 DEF On
<1>9. IsKeyed(key, V)
  BY <1>7, <1>8 DEF IsKeyed
<1>10. ASSUME NEW m \in V PROVE new[m] \subseteq V
  <2>1. CASE m = v
    BY <1>2, <1>3, <2>1
  <2>2. CASE m # v
    <3>1. m \in S \ {n} /\ sub[m] \subseteq S
      BY <1>2, <2>2
    <3>2. n \notin sub[m] => sub[m] \subseteq S \ {n}
      BY <3>1
    <3> QED BY <1>3, <3>1, <3>2
  <2> QED BY <2>1, <2>2
<1>11. Under(new, x.root) = V
  <2>1. t.root # None /\ sub[t.root] = S /\ t.root \in S
    BY RootFacts
  <2> QED BY <1>1, <1>2, <1>3, <2>1 DEF Under
<1>12. ASSUME NEW m \in V PROVE IsPlaced(x, key, new, m)
  <2>1. CASE m = v
    <3>1. \A s \in Sides : Child(x, v, s) = Child(t, n, s)
      BY <1>1
    <3>2. IsPlaced(t, key, sub, n)
      BY DEF IsTree
    <3>3. new[v] = {v} \cup Under(new, Child(x, v, "left")) \cup Under(new, Child(x, v, "right"))
      BY <1>3, <1>5, <3>1, <3>2, TwoSides DEF IsPlaced
    <3>4. ASSUME NEW s \in Sides, NEW k \in Under(new, Child(x, v, s)) PROVE On(s, key[k], key[v])
      <4>1. k \in Under(sub, Child(t, n, s))
        BY <1>5, <3>1, <3>4
      <4>2. k \in S \ {n} /\ On(s, key[k], key[n])
        BY <4>1, NodeFacts
      <4> QED BY <1>8, <4>2
    <3> QED BY <2>1, <3>3, <3>4 DEF IsPlaced
  <2>2. CASE m # v
    <3>1. m \in S \ {n}
      BY <2>2
    <3>2. \A s \in Sides :
            Under(new, Child(x, m, s)) =
              IF n \in Under(sub, Child(t, m, s)) THEN (Under(sub, Child(t, m, s)) \ {n}) \cup {v}
              ELSE Under(sub, Child(t, m, s))
      BY <1>1, <1>4, <3>1
    <3>3. IsPlaced(t, key, sub, m)
      BY <3>1 DEF IsTree
    <3>4. new[m] = {m} \cup Under(new, Child(x, m, "left")) \cup Under(new, Child(x, m, "right"))
      <4>1. new[m] = IF n \in sub[m] THEN (sub[m] \ {n}) \cup {v} ELSE sub[m]
        BY <1>3, <3>1
      <4>2. sub[m] = {m} \cup Under(sub, Child(t, m, "left")) \cup Under(sub, Child(t, m, "right"))
        BY <3>3 DEF IsPlaced
      <4>3. n \in Under(sub, Child(t, m, "left")) => n \notin Under(sub, Child(t, m, "right"))
        <5>1. ASSUME n \in Under(sub, Child(t, m, "left")), n \in Under(sub, Child(t, m, "right"))
              PROVE  FALSE
          <6>1. On("left", key[n], key[m]) /\ On("right", key[n], key[m])
                /\ key[n] \in Int \X Int /\ key[m] \in Int \X Int
            BY <3>1, <5>1, NodeFacts, TwoSides
          <6> QED BY <6>1, LessIsOrder DEF On
        <5> QED BY <5>1
      <4>4. CASE n \in Under(sub, Child(t, m, "left"))
        BY <3>1, <3>2, <4>1, <4>2, <4>3, <4>4, TwoSides
      <4>5. CASE n \in Under(sub, Child(t, m, "right"))
        BY <3>1, <3>2, <4>1, <4>2, <4>3, <4>5, TwoSides
      <4>6. CASE n \notin Under(sub, Child(t, m, "left")) /\ n \notin Under(sub, Child(t, m, "right"))
        BY <3>1, <3>2, <4>1, <4>2, <4>6, TwoSides
      <4> QED BY <4>4, <4>5, <4>6
    <3>5. ASSUME NEW s \in Sides, NEW k \in Under(new, Child(x, m, s)) PROVE On(s, key[k], key[m])
      <4>1. CASE k \in Under(sub, Child(t, m, s))
        BY <3>1, <4>1, NodeFacts
      <4>2. CASE k \notin Under(sub, Child(t, m, s))
        <5>1. k = v /\ n \in Under(sub, Child(t, m, s))
          BY <3>2, <3>5, <4>2
        <5>2. On(s, key[n], key[m])
          BY <3>1, <5>1, NodeFacts
        <5> QED BY <1>8, <3>1, <5>1, <5>2
      <4> QED BY <4>1, <4>2
    <3> QED BY <3>4, <3>5 DEF IsPlaced
  <2> QED BY <2>1, <2>2
<1>13. IsTree(x, key, V, new)
  BY <1>3, <1>6, <1>9, <1>10, <1>11, <1>12 DEF IsTree
<1> QED BY <1>13 DEF new

-----------------------------------------------------------------------------
(* Walks down the tree                                                     *)

LEMMA SubSize ==
  ASSUME NEW t, NEW key, NEW S, NEW sub, IsTree(t, key, S, sub), NEW n \in S
  PROVE  /\ IsFiniteSet(sub[n]) /\ Cardinality(sub[n]) \in Nat
         /\ Cardinality(sub[n]) <= Cardinality(Names)
<1>1. sub[n] \subseteq Names
  BY RootFacts, NodeFacts
<1> QED BY <1>1, NamesAssumption, NumberOfNames, FS_Subset, FS_CardinalityType

\* Rounds of a step that is known on W, as a function.
LEMMA RunExists ==
  ASSUME NEW W, NEW F \in [W -> W], NEW start \in W
  PROVE  \E g : /\ g = [i \in 0..Cardinality(Names) |-> IF i = 0 THEN start ELSE F[g[i - 1]]]
                /\ \A i \in 0..Cardinality(Names) : i # 0 => g[i - 1] \in W
<1> DEFINE N == Cardinality(Names)
<1>1. N \in Nat
  BY NumberOfNames
<1> HIDE DEF N
<1>2. PICK g : g \in [0..N -> W] /\ Follows(g, W, F, start, N)
  BY <1>1, RoundsExist
<1>3. \A i \in 1..N : g[i - 1] \in W
  BY <1>1, <1>2
<1>4. \A i \in 1..N : g[i] = F[g[i - 1]]
  BY <1>2, <1>3 DEF Follows
<1>5. g = [i \in 0..N |-> IF i = 0 THEN start ELSE F[g[i - 1]]]
  BY <1>1, <1>2, <1>4 DEF Follows
<1>6. \A i \in 0..N : i # 0 => g[i - 1] \in W
  BY <1>1, <1>3
<1> QED BY <1>5, <1>6 DEF N

LeftOf(t, m) == IF Child(t, m, "left") = None THEN m ELSE Child(t, m, "left")

\* What FarLeft may have come to: nothing outside of sub[w] is before w.
Leftmost(key, sub, c) == {w \in sub[c] : \A m \in sub[c] \ sub[w] : Less(key[w], key[m])}

LEMMA LeftOfStays ==
  ASSUME NEW t, NEW key, NEW S, NEW sub, IsTree(t, key, S, sub), NEW c \in S,
         NEW w \in Leftmost(key, sub, c)
  PROVE  /\ LeftOf(t, w) \in Leftmost(key, sub, c)
         /\ LeftOf(t, w) = w \/ Cardinality(sub[LeftOf(t, w)]) < Cardinality(sub[w])
<1>1. w \in S /\ w \in sub[c] /\ \A m \in sub[c] \ sub[w] : Less(key[w], key[m])
  BY BelowBelow DEF Leftmost
<1>2. CASE Child(t, w, "left") = None
  BY <1>2 DEF LeftOf
<1>3. CASE Child(t, w, "left") # None
  <2>1. PICK l : l = Child(t, w, "left")
    OBVIOUS
  <2>2. l = LeftOf(t, w)
    BY <1>3, <2>1 DEF LeftOf
  <2>3. l \in S /\ sub[l] \subseteq sub[w] /\ Cardinality(sub[l]) < Cardinality(sub[w]) /\ l \in sub[l]
        /\ Under(sub, l) = sub[l] /\ key[l] \in Int \X Int /\ key[w] \in Int \X Int
    BY <1>1, <1>3, <2>1, ChildIsSmaller, NodeFacts, TwoSides
  <2>4. sub[w] \subseteq sub[c]
    BY <1>1, BelowBelow
  <2>5. Less(key[l], key[w])
    BY <1>1, <2>1, <2>3, NodeFacts, TwoSides DEF On
  <2>6. ASSUME NEW m \in sub[c] \ sub[l] PROVE Less(key[l], key[m])
    <3>1. m \in S /\ key[m] \in Int \X Int
      BY BelowBelow, NodeFacts
    <3>2. m = w \/ Less(key[w], key[m])
      <4>1. CASE m \notin sub[w]
        BY <1>1, <4>1
      <4>2. CASE m \in sub[w]
        <5>1. m = w \/ m \in Under(sub, Child(t, w, "right"))
          BY <1>1, <2>1, <2>3, <2>6, <4>2, NodeFacts, TwoSides
        <5> QED BY <1>1, <5>1, NodeFacts, TwoSides DEF On
      <4> QED BY <4>1, <4>2
    <3> QED BY <2>3, <2>5, <3>1, <3>2, LessIsOrder
  <2> QED BY <2>2, <2>3, <2>4, <2>6 DEF Leftmost
<1> QED BY <1>2, <1>3

\* farLeft finds the first of the nodes below c.
LEMMA FarLeftIs ==
  ASSUME NEW t, NEW key, NEW S, NEW sub, IsTree(t, key, S, sub), NEW c \in S,
         NEW v, v = FarLeft(t, c)
  PROVE  /\ v \in sub[c] /\ v \in S /\ Child(t, v, "left") = None
         /\ \A m \in sub[c] \ {v} : Less(key[v], key[m])
<1> DEFINE W == Leftmost(key, sub, c)
           N == Cardinality(Names)
           F == [w \in W |-> LeftOf(t, w)]
           M == [w \in W |-> Cardinality(sub[w])]
           after == CHOOSE after : after = [i \in 0..N |-> IF i = 0 THEN c
                      ELSE IF Child(t, after[i - 1], "left") = None THEN after[i - 1]
                           ELSE Child(t, after[i - 1], "left")]
<1>1. c \in W
  BY NodeFacts DEF Leftmost
<1>2. F \in [W -> W]
  BY LeftOfStays
<1>3. Shrinks(M, W, F)
  <2>1. \A w \in W : w \in S
    BY BelowBelow DEF Leftmost
  <2>2. \A w \in W : Cardinality(sub[w]) \in Nat
    BY <2>1, SubSize
  <2>3. M \in [W -> Nat]
    BY <2>2
  <2>4. ASSUME NEW w \in W PROVE F[w] = w \/ M[F[w]] < M[w]
    BY <1>2, LeftOfStays
  <2> QED BY <2>3, <2>4 DEF Shrinks
<1>4. M[c] <= N /\ N \in Nat
  BY <1>1, SubSize, NumberOfNames
<1>5. v = after[N]
  BY DEF FarLeft, Repeat
<1>6. after = [i \in 0..N |-> IF i = 0 THEN c ELSE LeftOf(t, after[i - 1])]
  <2>1. PICK g : /\ g = [i \in 0..N |-> IF i = 0 THEN c ELSE F[g[i - 1]]]
                 /\ \A i \in 0..N : i # 0 => g[i - 1] \in W
    <3> HIDE DEF F, W
    <3> QED BY <1>1, <1>2, RunExists
  <2>2. \A i \in 0..N : i # 0 => F[g[i - 1]] = LeftOf(t, g[i - 1])
    BY <2>1
  <2>3. g = [i \in 0..N |-> IF i = 0 THEN c ELSE LeftOf(t, g[i - 1])]
    <3> HIDE DEF F, N
    <3> QED BY <2>1, <2>2
  <2> QED BY <2>3 DEF LeftOf
<1> HIDE DEF after
<1>7. Follows(after, W, F, c, N)
  <2>1. after[0] = c /\ \A i \in 1..N : after[i] = LeftOf(t, after[i - 1])
    <3> HIDE DEF N
    <3> QED BY <1>4, <1>6
  <2>2. \A i \in 1..N : after[i - 1] \in W => after[i] = F[after[i - 1]]
    BY <2>1
  <2> QED BY <2>1, <2>2 DEF Follows
<1> HIDE DEF F, M, W
<1> HIDE DEF N
<1>8. v \in W /\ F[v] = v
  BY <1>1, <1>2, <1>3, <1>4, <1>5, <1>7, RoundsSettle
<1>9. v \in S /\ v \in sub[c] /\ \A m \in sub[c] \ sub[v] : Less(key[v], key[m])
  BY <1>8, BelowBelow DEF W, Leftmost
<1>10. Child(t, v, "left") = None
  <2>1. LeftOf(t, v) = v
    BY <1>8 DEF F
  <2>2. Child(t, v, "left") # v
    BY <1>9, ChildIsSmaller, NodeFacts, TwoSides
  <2> QED BY <2>1, <2>2 DEF LeftOf
<1>11. ASSUME NEW m \in sub[v], m # v PROVE Less(key[v], key[m])
  <2>1. m \in Under(sub, Child(t, v, "right"))
    <3>1. sub[v] = {v} \cup Under(sub, Child(t, v, "left")) \cup Under(sub, Child(t, v, "right"))
      BY <1>9, NodeFacts, TwoSides
    <3> QED BY <1>10, <1>11, <3>1 DEF Under
  <2> QED BY <1>9, <2>1, NodeFacts, TwoSides DEF On
<1> QED BY <1>9, <1>10, <1>11

-----------------------------------------------------------------------------
(* Removing a node                                                         *)

\* The first node on the right of n is the next one after n in the whole tree.
LEMMA NextBelow ==
  ASSUME NEW t, NEW key, NEW S, NEW sub, IsTree(t, key, S, sub), NEW n \in S,
         NEW c, c = Child(t, n, "right"), c # None, NEW v, v = FarLeft(t, c)
  PROVE  /\ v \in S /\ v # n /\ Child(t, v, "left") = None /\ Less(key[n], key[v])
         /\ \A m \in S : Less(key[n], key[m]) => m = v \/ Less(key[v], key[m])
<1>1. c \in S /\ sub[c] \subseteq S /\ n \notin sub[c] /\ Under(sub, c) = sub[c]
  BY TwoSides, NodeFacts, ChildIsSmaller
<1>2. /\ v \in sub[c] /\ v \in S /\ v # n /\ Child(t, v, "left") = None
      /\ \A m \in sub[c] \ {v} : Less(key[v], key[m])
  BY <1>1, FarLeftIs
<1>3. Less(key[n], key[v]) /\ key[n] \in Int \X Int /\ key[v] \in Int \X Int
  BY <1>1, <1>2, TwoSides, NodeFacts DEF On
<1>4. ASSUME NEW m \in S, m # v, Less(key[n], key[m]) PROVE Less(key[v], key[m])
  <2>1. key[m] \in Int \X Int /\ key[m] # key[v] /\ m # n
    BY <1>2, <1>3, <1>4, NodeFacts, RootFacts, LessIsOrder DEF IsKeyed
  <2>2. CASE m \in sub[n]
    <3>1. m \in Under(sub, Child(t, n, "left")) \/ m \in Under(sub, c)
      BY <2>1, <2>2, NodeFacts, TwoSides
    <3>2. m \notin Under(sub, Child(t, n, "left"))
      <4>1. m \in Under(sub, Child(t, n, "left")) => Less(key[m], key[n])
        BY NodeFacts, TwoSides DEF On
      <4> QED BY <1>3, <1>4, <2>1, <4>1, LessIsOrder
    <3> QED BY <1>1, <1>2, <1>4, <3>1, <3>2
  <2>3. CASE m \notin sub[n]
    <3>1. v \in sub[n] /\ n \in sub[n]
      BY <1>1, <1>2, TwoSides, NodeFacts, ChildIsSmaller
    <3>2. Less(key[m], key[v]) => Less(key[m], key[n])
      BY <2>3, <3>1, BelowTogether
    <3> QED BY <1>3, <1>4, <2>1, <3>2, LessIsOrder
  <2> QED BY <2>2, <2>3
<1> QED BY <1>2, <1>3, <1>4

\* RemoveNode leaves the other nodes as a search tree: the successor is next to
\* the node whose place it takes.
LEMMA RemoveNodeTree ==
  ASSUME NEW t, NEW key, NEW S, NEW sub, IsTree(t, key, S, sub), NEW n \in S
  PROVE  \E sub2 : IsTree(RemoveNode(t, n), key, S \ {n}, sub2)
<1>1. CASE None \in {Child(t, n, side) : side \in Sides}
  <2>1. RemoveNode(t, n) = CutOut(t, n)
    BY <1>1 DEF RemoveNode
  <2> QED BY <1>1, <2>1, CutOutTree
<1>2. CASE None \notin {Child(t, n, side) : side \in Sides}
  <2>1. PICK c : c = Child(t, n, "right")
    OBVIOUS
  <2>2. PICK v : v = FarLeft(t, c)
    OBVIOUS
  <2>3. c # None
    BY <1>2, <2>1, TwoSides
  <2>4. /\ v \in S /\ v # n /\ Child(t, v, "left") = None /\ Less(key[n], key[v])
        /\ \A m \in S : Less(key[n], key[m]) => m = v \/ Less(key[v], key[m])
    BY <2>1, <2>2, <2>3, NextBelow
  <2>5. PICK u : u = CutOut(t, v)
    OBVIOUS
  <2>6. PICK sub1 : IsTree(u, key, S \ {v}, sub1)
    <3>1. None \in {Child(t, v, side) : side \in Sides}
      BY <2>4, TwoSides
    <3> QED BY <2>4, <2>5, <3>1, CutOutTree
  <2>7. S \subseteq Names /\ key[v] \in Int \X Int /\ key[n] \in Int \X Int
    BY <2>4, RootFacts, NodeFacts
  <2>8. ASSUME NEW m \in (S \ {v}) \ {n}
        PROVE  /\ Less(key[m], key[n]) => Less(key[m], key[v])
               /\ Less(key[n], key[m]) => Less(key[v], key[m])
    <3>1. key[m] \in Int \X Int
      BY NodeFacts
    <3>2. Less(key[m], key[n]) => Less(key[m], key[v])
      BY <2>4, <2>7, <3>1, LessIsOrder
    <3> QED BY <2>4, <3>2
  <2>9. RemoveNode(t, n) = PutInPlace(u, v, n)
    BY <1>2, <2>1, <2>2, <2>5 DEF RemoveNode
  <2>10. n \in S \ {v} /\ v \in Names /\ v \notin S \ {v} /\ ((S \ {v}) \ {n}) \cup {v} = S \ {n}
    BY <2>4, <2>7
  <2>11. PICK x : x = PutInPlace(u, v, n)
    OBVIOUS
  <2>12. IsTree(x, key, ((S \ {v}) \ {n}) \cup {v}, Replaced(sub1, v, n))
    BY <2>6, <2>7, <2>8, <2>10, <2>11, PutTree
  <2> QED BY <2>9, <2>10, <2>11, <2>12
<1> QED BY <1>1, <1>2

\* A node is written as a whole.
NodeIsSet(t, n, new, r) ==
  /\ r \in Trees /\ r.root = t.root /\ r.node[n] = new
  /\ \A m \in Names \ {n} : /\ Parent(r, m) = Parent(t, m)
                            /\ \A s \in Sides : Child(r, m, s) = Child(t, m, s)

LEMMA NodeSetIs ==
  ASSUME NEW t \in Trees, NEW n \in Names, NEW new \in Nodes
  PROVE  NodeIsSet(t, n, new, [t EXCEPT !.node[n] = new])
BY DEF NodeIsSet, Trees, Parent, Child

LeafBelow(p) == [Leaf EXCEPT !.parent = p]

LEMMA LeafIs ==
  ASSUME NEW p \in Names \cup {None}
  PROVE  /\ LeafBelow(p) \in Nodes /\ LeafBelow(p).parent = p
         /\ \A s \in Sides : LeafBelow(p).child[s] = None
BY DEF LeafBelow, Leaf, Nodes

\* The node that was removed is deleted.
LEMMA DeletedTree ==
  ASSUME NEW t, NEW key, NEW S, NEW sub, IsTree(t, key, S, sub), NEW n \in Names, n \notin S,
         NEW x, x = [t EXCEPT !.node[n] = Leaf]
  PROVE  IsTree(x, key, S, sub)
<1>1. Leaf \in Nodes
  BY DEF Leaf, Nodes
<1>2. t \in Trees /\ S \subseteq Names
  BY RootFacts
<1>3. NodeIsSet(t, n, Leaf, x)
  BY <1>1, <1>2, NodeSetIs
<1>4. /\ x \in Trees /\ x.root = t.root
      /\ \A m \in S : /\ Parent(x, m) = Parent(t, m)
                      /\ \A s \in Sides : Child(x, m, s) = Child(t, m, s)
  BY <1>2, <1>3 DEF NodeIsSet
<1> QED BY <1>4, SameTree

-----------------------------------------------------------------------------
(* Searching                                                               *)

\* What is below a node is on one side of it.
LEMMA OneWay ==
  ASSUME NEW t, NEW key, NEW S, NEW sub, IsTree(t, key, S, sub), NEW n \in S,
         NEW a \in Sides, NEW b \in Sides,
         NEW m \in Under(sub, Child(t, n, a)), m \in Under(sub, Child(t, n, b))
  PROVE  a = b
<1>1. On(a, key[m], key[n]) /\ On(b, key[m], key[n]) /\ key[m] \in Int \X Int /\ key[n] \in Int \X Int
  BY NodeFacts
<1>2. a # b => b = Other(a)
  BY TwoSides
<1> QED BY <1>1, <1>2, OnIsOrder

LEMMA UnderDown ==
  ASSUME NEW t, NEW key, NEW S, NEW sub, IsTree(t, key, S, sub), NEW n \in S, NEW s \in Sides,
         NEW w \in Under(sub, Child(t, n, s)), NEW m \in sub[w]
  PROVE  m \in Under(sub, Child(t, n, s))
<1>1. PICK c : c = Child(t, n, s)
  OBVIOUS
<1>2. c # None /\ c \in S /\ Under(sub, c) = sub[c]
  BY <1>1, NodeFacts DEF Under
<1>3. sub[w] \subseteq sub[c]
  BY <1>1, <1>2, BelowBelow
<1> QED BY <1>1, <1>2, <1>3

\* The search for v does not go wrong on the way to w.
OnTheWay(t, key, S, sub, v) ==
  {w \in S : \A m \in S : \A s \in Sides :
     w \in Under(sub, Child(t, m, s)) => On(s, v, key[m])}

\* One step of the search.
Nearer(t, key, v, n) ==
  IF v = key[n] \/ Child(t, n, Towards(key, n, v)) = None THEN n ELSE Child(t, n, Towards(key, n, v))

LEMMA TowardsIs ==
  ASSUME NEW key, NEW n, key[n] \in Int \X Int, NEW v \in Int \X Int, v # key[n]
  PROVE  /\ Towards(key, n, v) \in Sides
         /\ \A s \in Sides : On(s, v, key[n]) <=> s = Towards(key, n, v)
<1>1. Less(v, key[n]) \/ Less(key[n], v)
  BY LessIsOrder
<1>2. ~ (Less(v, key[n]) /\ Less(key[n], v))
  BY LessIsOrder
<1> QED BY <1>1, <1>2, TwoSides DEF Towards, On

LEMMA NearerStays ==
  ASSUME NEW t, NEW key, NEW S, NEW sub, IsTree(t, key, S, sub), NEW v \in Int \X Int,
         NEW w \in OnTheWay(t, key, S, sub, v)
  PROVE  /\ Nearer(t, key, v, w) \in OnTheWay(t, key, S, sub, v)
         /\ Nearer(t, key, v, w) = w \/ Cardinality(sub[Nearer(t, key, v, w)]) < Cardinality(sub[w])
<1>1. /\ w \in S /\ key[w] \in Int \X Int
      /\ \A m \in S : \A s \in Sides : w \in Under(sub, Child(t, m, s)) => On(s, v, key[m])
  BY NodeFacts DEF OnTheWay
<1>2. CASE Nearer(t, key, v, w) = w
  BY <1>2
<1>3. CASE Nearer(t, key, v, w) # w
  <2>1. PICK d : d = Towards(key, w, v)
    OBVIOUS
  <2>2. PICK c : c = Child(t, w, d)
    OBVIOUS
  <2>3. v # key[w] /\ c # None /\ Nearer(t, key, v, w) = c
    BY <1>3, <2>1, <2>2 DEF Nearer
  <2>4. d \in Sides /\ On(d, v, key[w])
    BY <1>1, <2>1, <2>3, TowardsIs
  <2>5. c \in S /\ c \in sub[c] /\ Under(sub, c) = sub[c] /\ Parent(t, c) = w
        /\ Cardinality(sub[c]) < Cardinality(sub[w]) /\ c \in sub[w]
    BY <1>1, <2>2, <2>3, <2>4, NodeFacts, ChildIsSmaller
  <2>6. ASSUME NEW m \in S, NEW s \in Sides, c \in Under(sub, Child(t, m, s)) PROVE On(s, v, key[m])
    <3>1. c \in sub[m] /\ c # m
      BY <2>6, NodeFacts
    <3>2. w \in sub[m]
      BY <2>5, <3>1, ParentIs
    <3>3. CASE w = m
      <4>1. c \in Under(sub, Child(t, w, d))
        BY <2>2, <2>5
      <4>2. s = d
        BY <1>1, <2>4, <2>6, <3>3, <4>1, OneWay
      <4> QED BY <2>4, <3>3, <4>2
    <3>4. CASE w # m
      <4>1. PICK e \in Sides : w \in Under(sub, Child(t, m, e))
        BY <3>2, <3>4, BelowOneSide
      <4>2. c \in Under(sub, Child(t, m, e))
        BY <2>5, <4>1, UnderDown
      <4>3. s = e
        BY <2>6, <4>2, OneWay
      <4> QED BY <1>1, <4>1, <4>3
    <3> QED BY <3>3, <3>4
  <2> QED BY <2>3, <2>5, <2>6 DEF OnTheWay
<1> QED BY <1>2, <1>3

\* The search ends on the way, at v or where v would have to be.
LEMMA SeekIs ==
  ASSUME NEW t, NEW key, NEW S, NEW sub, IsTree(t, key, S, sub), NEW v \in Int \X Int,
         t.root # None, NEW w, w = Seek(t, key, v)
  PROVE  w \in OnTheWay(t, key, S, sub, v) /\ Nearer(t, key, v, w) = w
<1> DEFINE W == OnTheWay(t, key, S, sub, v)
           N == Cardinality(Names)
           F == [x \in W |-> Nearer(t, key, v, x)]
           M == [x \in W |-> Cardinality(sub[x])]
           after == CHOOSE after : after = [i \in 0..N |-> IF i = 0 THEN t.root
                      ELSE IF v = key[after[i - 1]] \/ Child(t, after[i - 1], Towards(key, after[i - 1], v)) = None
                           THEN after[i - 1] ELSE Child(t, after[i - 1], Towards(key, after[i - 1], v))]
<1>1. t.root \in S /\ t.root \in W
  <2>1. t.root \in S /\ Parent(t, t.root) = None
    BY RootFacts
  <2>2. ASSUME NEW m \in S, NEW s \in Sides PROVE t.root \notin Under(sub, Child(t, m, s))
    <3>1. ASSUME t.root \in Under(sub, Child(t, m, s)) PROVE FALSE
      <4>1. t.root \in sub[m] /\ t.root # m
        BY <3>1, NodeFacts
      <4>2. Parent(t, t.root) \in sub[m] /\ sub[m] \subseteq Names
        BY <2>1, <4>1, ParentIs, NodeFacts, RootFacts
      <4> QED BY <2>1, <4>2, NamesAssumption
    <3> QED BY <3>1
  <2> QED BY <2>1, <2>2 DEF OnTheWay
<1>2. F \in [W -> W]
  BY NearerStays
<1>3. Shrinks(M, W, F)
  <2>1. \A x \in W : x \in S
    BY DEF OnTheWay
  <2>2. \A x \in W : Cardinality(sub[x]) \in Nat
    BY <2>1, SubSize
  <2>3. M \in [W -> Nat]
    BY <2>2
  <2>4. ASSUME NEW x \in W PROVE F[x] = x \/ M[F[x]] < M[x]
    BY <1>2, NearerStays
  <2> QED BY <2>3, <2>4 DEF Shrinks
<1>4. M[t.root] <= N /\ N \in Nat
  BY <1>1, SubSize, NumberOfNames
<1>5. w = after[N]
  BY DEF Seek, Repeat
<1>6. after = [i \in 0..N |-> IF i = 0 THEN t.root ELSE Nearer(t, key, v, after[i - 1])]
  <2>1. PICK g : /\ g = [i \in 0..N |-> IF i = 0 THEN t.root ELSE F[g[i - 1]]]
                 /\ \A i \in 0..N : i # 0 => g[i - 1] \in W
    <3> HIDE DEF F, W
    <3> QED BY <1>1, <1>2, RunExists
  <2>2. \A i \in 0..N : i # 0 => F[g[i - 1]] = Nearer(t, key, v, g[i - 1])
    BY <2>1
  <2>3. g = [i \in 0..N |-> IF i = 0 THEN t.root ELSE Nearer(t, key, v, g[i - 1])]
    <3> HIDE DEF F, N
    <3> QED BY <2>1, <2>2
  <2> QED BY <2>3 DEF Nearer
<1> HIDE DEF after
<1>7. Follows(after, W, F, t.root, N)
  <2>1. after[0] = t.root /\ \A i \in 1..N : after[i] = Nearer(t, key, v, after[i - 1])
    <3> HIDE DEF N
    <3> QED BY <1>4, <1>6
  <2>2. \A i \in 1..N : after[i - 1] \in W => after[i] = F[after[i - 1]]
    BY <2>1
  <2> QED BY <2>1, <2>2 DEF Follows
<1> HIDE DEF F, M, W
<1> HIDE DEF N
<1>8. w \in W /\ F[w] = w
  BY <1>1, <1>2, <1>3, <1>4, <1>5, <1>7, RoundsSettle
<1> QED BY <1>8 DEF W, F

\* What the search finds if v is no key: a node without a child on that side.
LEMMA SeekEnds ==
  ASSUME NEW t, NEW key, NEW S, NEW sub, IsTree(t, key, S, sub), NEW v \in Int \X Int,
         t.root # None, NEW w, w = Seek(t, key, v)
  PROVE  /\ w \in S
         /\ v # key[w] => Child(t, w, Towards(key, w, v)) = None
<1>1. w \in OnTheWay(t, key, S, sub, v) /\ Nearer(t, key, v, w) = w
  BY SeekIs
<1>2. w \in S /\ key[w] \in Int \X Int
  BY <1>1, NodeFacts DEF OnTheWay
<1>3. ASSUME v # key[w], Child(t, w, Towards(key, w, v)) # None PROVE FALSE
  <2>1. Towards(key, w, v) \in Sides
    BY <1>2, <1>3, TowardsIs
  <2>2. Child(t, w, Towards(key, w, v)) # w
    BY <1>2, <1>3, <2>1, ChildIsSmaller, NodeFacts
  <2> QED BY <1>1, <1>3, <2>2 DEF Nearer
<1> QED BY <1>2, <1>3

\* A search for the key of a node finds that node.
LEMMA FindIs ==
  ASSUME NEW t, NEW key, NEW S, NEW sub, IsTree(t, key, S, sub), NEW n \in S
  PROVE  Find(t, key, key[n]) = n
<1>1. t.root # None /\ key[n] \in Int \X Int
  BY RootFacts, NodeFacts
<1>2. PICK v : v = key[n]
  OBVIOUS
<1>3. PICK w : w = Seek(t, key, v)
  OBVIOUS
<1>4. /\ w \in S /\ key[w] \in Int \X Int
      /\ \A m \in S : \A s \in Sides : w \in Under(sub, Child(t, m, s)) => On(s, v, key[m])
      /\ v # key[w] => Child(t, w, Towards(key, w, v)) = None
  BY <1>1, <1>2, <1>3, SeekIs, SeekEnds, NodeFacts DEF OnTheWay
<1>5. w = n
  <2>1. SUFFICES ASSUME w # n PROVE FALSE
    OBVIOUS
  <2>2. v # key[w]
    BY <1>2, <1>4, <2>1, RootFacts DEF IsKeyed
  <2>3. CASE n \in sub[w]
    <3>1. PICK s \in Sides : Child(t, w, s) # None /\ n \in Under(sub, Child(t, w, s))
      BY <1>4, <2>1, <2>3, BelowOneSide
    <3>2. On(s, v, key[w])
      BY <1>2, <1>4, <3>1, NodeFacts
    <3>3. s = Towards(key, w, v)
      BY <1>1, <1>2, <1>4, <2>2, <3>2, TowardsIs
    <3> QED BY <1>4, <2>2, <3>1, <3>3
  <2>4. CASE n \notin sub[w]
    <3>1. PICK y \in S : \E s \in Sides : /\ w \in Under(sub, Child(t, y, s))
                                          /\ n = y \/ n \in Under(sub, Child(t, y, Other(s)))
      BY <1>4, <2>4, WaysPart
    <3>2. PICK s \in Sides : /\ w \in Under(sub, Child(t, y, s))
                             /\ n = y \/ n \in Under(sub, Child(t, y, Other(s)))
      BY <3>1
    <3>3. On(s, v, key[y]) /\ key[y] \in Int \X Int /\ v \in Int \X Int /\ Other(s) \in Sides
      BY <1>1, <1>2, <1>4, <3>2, NodeFacts, TwoSides
    <3>4. n # y
      BY <1>2, <3>3, OnIsOrder
    <3>5. On(Other(s), v, key[y])
      BY <1>2, <3>2, <3>3, <3>4, NodeFacts
    <3> QED BY <3>3, <3>5, OnIsOrder
  <2> QED BY <2>3, <2>4
<1> QED BY <1>1, <1>2, <1>3, <1>5 DEF Find

\* A search for another key finds nothing.
LEMMA FindNothing ==
  ASSUME NEW t, NEW key, NEW S, NEW sub, IsTree(t, key, S, sub), NEW v \in Int \X Int,
         \A m \in S : key[m] # v
  PROVE  Find(t, key, v) = None
<1>1. CASE t.root = None
  BY <1>1 DEF Find
<1>2. CASE t.root # None
  <2>1. Seek(t, key, v) \in S
    BY <1>2, SeekEnds
  <2> QED BY <2>1 DEF Find
<1> QED BY <1>1, <1>2

LEMMA RemoveTree ==
  ASSUME NEW t, NEW key, NEW S, NEW sub, IsTree(t, key, S, sub), NEW n \in S
  PROVE  \E sub2 : IsTree(Remove(t, key, key[n]), key, S \ {n}, sub2)
<1>1. PICK u : u = RemoveNode(t, n)
  OBVIOUS
<1>2. PICK sub2 : IsTree(u, key, S \ {n}, sub2)
  BY <1>1, RemoveNodeTree
<1>3. n \in Names /\ n # None
  BY NodeFacts
<1>4. PICK x : x = [u EXCEPT !.node[n] = Leaf]
  OBVIOUS
<1>5. IsTree(x, key, S \ {n}, sub2)
  BY <1>2, <1>3, <1>4, DeletedTree
<1>6. Remove(t, key, key[n]) = x
  BY <1>1, <1>3, <1>4, FindIs DEF Remove
<1> QED BY <1>5, <1>6

-----------------------------------------------------------------------------
(* Inserting a node                                                        *)

\* The new node n below p, on the side where its key belongs.
AttachedSub(S, sub, n, p) ==
  [m \in Names |-> IF m = n THEN {n} ELSE IF m \in S /\ p \in sub[m] THEN sub[m] \cup {n} ELSE sub[m]]

Attached(t, n, p, d) == SetChild([t EXCEPT !.node[n] = LeafBelow(p)], p, d, n)

LEMMA AttachLinks ==
  ASSUME NEW t \in Trees, NEW n \in Names, NEW p \in Names, p # n, NEW d \in Sides,
         NEW x, x = Attached(t, n, p, d)
  PROVE  /\ x \in Trees /\ x.root = t.root
         /\ \A m \in Names :
              /\ Parent(x, m) = IF m = n THEN p ELSE Parent(t, m)
              /\ \A s \in Sides : Child(x, m, s) = IF m = n THEN None ELSE IF m = p /\ s = d THEN n
                                                   ELSE Child(t, m, s)
<1>1. PICK new : new = LeafBelow(p)
  OBVIOUS
<1>2. new \in Nodes /\ new.parent = p /\ \A s \in Sides : new.child[s] = None
  BY <1>1, LeafIs
<1>3. PICK made : made = [t EXCEPT !.node[n] = new]
  OBVIOUS
<1>4. NodeIsSet(t, n, new, made)
  BY <1>2, <1>3, NodeSetIs
<1>5. made \in Trees /\ Parent(made, n) = p /\ \A s \in Sides : Child(made, n, s) = None
  BY <1>2, <1>4 DEF NodeIsSet, Parent, Child
<1>6. x = SetChild(made, p, d, n)
  BY <1>1, <1>3 DEF Attached
<1>7. ChildIsSet(made, p, d, n, x)
  BY <1>5, <1>6, SetChildIs
<1> QED BY <1>4, <1>5, <1>7 DEF NodeIsSet, ChildIsSet

LEMMA AttachTree ==
  ASSUME NEW t, NEW key, NEW S, NEW sub, IsTree(t, key, S, sub), t.root # None,
         NEW n \in Names, n \notin S, key[n] \in Int \X Int, \A m \in S : key[m] # key[n],
         NEW p, p = Seek(t, key, key[n]),
         NEW d, d = Towards(key, p, key[n]),
         NEW x, x = Attached(t, n, p, d)
  PROVE  p \in S /\ IsTree(x, key, S \cup {n}, AttachedSub(S, sub, n, p))
<1> DEFINE V == S \cup {n}
           new == AttachedSub(S, sub, n, p)
<1>1. /\ p \in S /\ key[p] \in Int \X Int /\ Child(t, p, d) = None
      /\ \A m \in S : \A s \in Sides : p \in Under(sub, Child(t, m, s)) => On(s, key[n], key[m])
  <2>1. p \in S /\ Child(t, p, d) = None
    BY SeekEnds
  <2>2. p \in OnTheWay(t, key, S, sub, key[n])
    BY SeekIs
  <2> QED BY <2>1, <2>2, NodeFacts DEF OnTheWay
<1>2. d \in Sides /\ On(d, key[n], key[p])
  BY <1>1, TowardsIs
<1>3. /\ S \subseteq Names /\ t \in Trees /\ sub \in [Names -> SUBSET Names] /\ p \in Names /\ n # p
      /\ n # None /\ p \in sub[p] /\ t.root \in S /\ sub[t.root] = S /\ Parent(t, t.root) = None
      /\ \A m \in S : sub[m] \subseteq S
  BY <1>1, RootFacts, NodeFacts, NamesAssumption
<1>4. /\ x \in Trees /\ x.root = t.root
      /\ \A m \in Names :
           /\ Parent(x, m) = IF m = n THEN p ELSE Parent(t, m)
           /\ \A s \in Sides : Child(x, m, s) = IF m = n THEN None ELSE IF m = p /\ s = d THEN n
                                                ELSE Child(t, m, s)
  BY <1>2, <1>3, AttachLinks
<1>5. /\ new \in [Names -> SUBSET Names] /\ new[n] = {n}
      /\ \A m \in S : new[m] = IF p \in sub[m] THEN sub[m] \cup {n} ELSE sub[m]
  BY <1>3 DEF AttachedSub
<1> HIDE DEF new
<1>6. ASSUME NEW m \in S, NEW s \in Sides
      PROVE  Under(new, Child(x, m, s)) =
               IF (m = p /\ s = d) \/ p \in Under(sub, Child(t, m, s))
               THEN Under(sub, Child(t, m, s)) \cup {n} ELSE Under(sub, Child(t, m, s))
  <2>1. CASE m = p /\ s = d
    <3>1. Child(x, m, s) = n
      BY <1>3, <1>4, <2>1
    <3>2. Child(t, m, s) = None
      BY <1>1, <2>1
    <3> QED BY <1>3, <1>5, <2>1, <3>1, <3>2 DEF Under
  <2>2. CASE ~ (m = p /\ s = d)
    <3>1. Child(x, m, s) = Child(t, m, s)
      BY <1>3, <1>4, <2>2
    <3>2. Child(t, m, s) # None => Child(t, m, s) \in S
      BY NodeFacts
    <3> QED BY <1>5, <2>2, <3>1, <3>2 DEF Under
  <2> QED BY <2>1, <2>2
<1>7. IsLinked(x, V)
  <2>1. ASSUME NEW m \in V, NEW s \in Sides, NEW c, c = Child(x, m, s), c # None
        PROVE  c \in V /\ Parent(x, c) = m
    <3>1. m # n
      BY <1>3, <1>4, <2>1
    <3>2. CASE m = p /\ s = d
      BY <1>3, <1>4, <2>1, <3>2
    <3>3. CASE ~ (m = p /\ s = d)
      <4>1. c = Child(t, m, s) /\ m \in S
        BY <1>3, <1>4, <2>1, <3>1, <3>3
      <4>2. c \in S /\ Parent(t, c) = m
        BY <2>1, <4>1, NodeFacts
      <4> QED BY <1>3, <1>4, <4>2
    <3> QED BY <3>2, <3>3
  <2>2. x.root # None /\ x.root \in V /\ Parent(x, x.root) = None
    BY <1>3, <1>4
  <2> QED BY <1>3, <1>4, <2>1, <2>2 DEF IsLinked
<1>8. IsKeyed(key, V)
  BY RootFacts DEF IsKeyed
<1>9. ASSUME NEW m \in V PROVE new[m] \subseteq V
  <2>1. CASE m = n
    BY <1>5, <2>1
  <2>2. CASE m # n
    <3>1. m \in S /\ sub[m] \subseteq S
      BY <1>3, <2>2
    <3>2. new[m] = sub[m] \/ new[m] = sub[m] \cup {n}
      BY <1>5, <3>1
    <3> QED BY <3>1, <3>2
  <2> QED BY <2>1, <2>2
<1>10. Under(new, x.root) = V
  BY <1>1, <1>3, <1>4, <1>5 DEF Under
<1>11. ASSUME NEW m \in V PROVE IsPlaced(x, key, new, m)
  <2>1. CASE m = n
    <3>1. \A s \in Sides : Child(x, m, s) = None
      BY <1>4, <2>1
    <3>2. \A s \in Sides : Under(new, Child(x, m, s)) = {}
      BY <3>1 DEF Under
    <3> QED BY <1>5, <2>1, <3>2, TwoSides DEF IsPlaced
  <2>2. CASE m # n
    <3>1. m \in S
      BY <2>2
    <3>2. /\ sub[m] = {m} \cup Under(sub, Child(t, m, "left")) \cup Under(sub, Child(t, m, "right"))
          /\ \A s \in Sides : \A k \in Under(sub, Child(t, m, s)) : On(s, key[k], key[m])
      BY <3>1 DEF IsTree, IsPlaced
    <3>3. new[m] = {m} \cup Under(new, Child(x, m, "left")) \cup Under(new, Child(x, m, "right"))
      <4>1. n \in Under(new, Child(x, m, "left")) \cup Under(new, Child(x, m, "right")) <=> p \in sub[m]
        <5>1. \A s \in Sides : n \notin Under(sub, Child(t, m, s))
          BY <3>1, NodeFacts
        <5>2. \A s \in Sides : n \in Under(new, Child(x, m, s)) <=>
                                 (m = p /\ s = d) \/ p \in Under(sub, Child(t, m, s))
          BY <1>6, <3>1, <5>1
        <5> QED BY <1>2, <3>2, <5>2, TwoSides
      <4>2. \A s \in Sides : Under(new, Child(x, m, s)) \ {n} = Under(sub, Child(t, m, s))
        <5>1. \A s \in Sides : n \notin Under(sub, Child(t, m, s))
          BY <3>1, NodeFacts
        <5>2. ASSUME NEW s \in Sides PROVE Under(new, Child(x, m, s)) \ {n} = Under(sub, Child(t, m, s))
          <6>1. n \notin Under(sub, Child(t, m, s))
            BY <5>1
          <6>2. \/ Under(new, Child(x, m, s)) = Under(sub, Child(t, m, s)) \cup {n}
                \/ Under(new, Child(x, m, s)) = Under(sub, Child(t, m, s))
            BY <1>6, <3>1
          <6> QED BY <6>1, <6>2
        <5> QED BY <5>2
      <4>3. new[m] = IF p \in sub[m] THEN sub[m] \cup {n} ELSE sub[m]
        BY <1>5, <3>1
      <4>4. n \notin sub[m]
        BY <1>3, <3>1
      <4>5. \A k : k # n => (k \in new[m] <=>
              k = m \/ k \in Under(new, Child(x, m, "left")) \/ k \in Under(new, Child(x, m, "right")))
        BY <3>2, <4>2, <4>3, TwoSides
      <4>6. n \in new[m] <=> n \in Under(new, Child(x, m, "left")) \/ n \in Under(new, Child(x, m, "right"))
        BY <4>1, <4>3, <4>4
      <4>7. \A k : k \in new[m] <=>
              k = m \/ k \in Under(new, Child(x, m, "left")) \/ k \in Under(new, Child(x, m, "right"))
        BY <2>2, <4>5, <4>6
      <4> QED BY <4>7
    <3>4. ASSUME NEW s \in Sides, NEW k \in Under(new, Child(x, m, s)) PROVE On(s, key[k], key[m])
      <4>1. CASE k \in Under(sub, Child(t, m, s))
        BY <3>2, <4>1
      <4>2. CASE k \notin Under(sub, Child(t, m, s))
        <5>1. ASSUME ~ ((m = p /\ s = d) \/ p \in Under(sub, Child(t, m, s))) PROVE FALSE
          <6>1. Under(new, Child(x, m, s)) = Under(sub, Child(t, m, s))
            BY <1>6, <3>1, <5>1
          <6> QED BY <3>4, <4>2, <6>1
        <5>2. Under(new, Child(x, m, s)) = Under(sub, Child(t, m, s)) \cup {n}
          BY <1>6, <3>1, <5>1
        <5>3. k = n
          BY <3>4, <4>2, <5>2
        <5>4. k = n /\ ((m = p /\ s = d) \/ p \in Under(sub, Child(t, m, s)))
          BY <5>1, <5>3
        <5> QED BY <1>1, <1>2, <3>1, <5>4
      <4> QED BY <4>1, <4>2
    <3> QED BY <3>3, <3>4 DEF IsPlaced
  <2> QED BY <2>1, <2>2
<1>12. IsTree(x, key, V, new)
  BY <1>5, <1>7, <1>8, <1>9, <1>10, <1>11 DEF IsTree
<1> QED BY <1>1, <1>12 DEF new

\* The first node.
LEMMA FirstTree ==
  ASSUME NEW t \in Trees, NEW key, NEW n \in Names, key[n] \in Int \X Int,
         NEW x, x = [t EXCEPT !.root = n, !.node[n] = Leaf]
  PROVE  IsTree(x, key, {n}, [m \in Names |-> {n}])
<1> DEFINE sub == [m \in Names |-> {n}]
<1>1. PICK r : r = [t EXCEPT !.root = n]
  OBVIOUS
<1>2. r \in Trees /\ r.root = n
  BY <1>1, SetRootIs
<1>3. PICK leaf : leaf = Leaf
  OBVIOUS
<1>4. leaf \in Nodes /\ leaf.parent = None /\ \A s \in Sides : leaf.child[s] = None
  BY <1>3 DEF Leaf, Nodes
<1>5. x = [r EXCEPT !.node[n] = leaf]
  BY <1>1, <1>3
<1>6. NodeIsSet(r, n, leaf, x)
  <2>1. NodeIsSet(r, n, leaf, [r EXCEPT !.node[n] = leaf])
    BY <1>2, <1>4, NodeSetIs
  <2> QED BY <1>5, <2>1
<1>7. /\ x \in Trees /\ x.root = n /\ n # None /\ Parent(x, n) = None
      /\ \A s \in Sides : Child(x, n, s) = None
  BY <1>2, <1>4, <1>6, NamesAssumption DEF NodeIsSet, Parent, Child
<1>8. sub \in [Names -> SUBSET Names] /\ sub[n] = {n}
  OBVIOUS
<1> HIDE DEF sub
<1>9. IsLinked(x, {n})
  BY <1>7 DEF IsLinked
<1>10. IsKeyed(key, {n})
  BY DEF IsKeyed
<1>11. \A s \in Sides : Under(sub, Child(x, n, s)) = {}
  BY <1>7 DEF Under
<1>12. IsPlaced(x, key, sub, n)
  BY <1>8, <1>11, TwoSides DEF IsPlaced
<1>13. Under(sub, x.root) = {n}
  BY <1>7, <1>8 DEF Under
<1>14. IsTree(x, key, {n}, sub)
  BY <1>8, <1>9, <1>10, <1>12, <1>13 DEF IsTree
<1> QED BY <1>14 DEF sub

LEMMA InsertTree ==
  ASSUME NEW t, NEW key, NEW S, NEW sub, IsTree(t, key, S, sub),
         NEW n \in Names, n \notin S, key[n] \in Int \X Int, \A m \in S : key[m] # key[n]
  PROVE  \E sub2 : IsTree(Insert(t, key, n), key, S \cup {n}, sub2)
<1>1. CASE t.root = None
  <2>1. S = {} /\ t \in Trees
    BY <1>1, RootFacts
  <2>2. PICK x : x = [t EXCEPT !.root = n, !.node[n] = Leaf]
    OBVIOUS
  <2>3. IsTree(x, key, {n}, [m \in Names |-> {n}])
    BY <2>1, <2>2, FirstTree
  <2>4. Insert(t, key, n) = x
    BY <1>1, <2>2 DEF Insert
  <2>5. S \cup {n} = {n}
    BY <2>1
  <2> QED BY <2>3, <2>4, <2>5
<1>2. CASE t.root # None
  <2>1. Find(t, key, key[n]) = None
    BY FindNothing
  <2>2. PICK p : p = Seek(t, key, key[n])
    OBVIOUS
  <2>3. PICK d : d = Towards(key, p, key[n])
    OBVIOUS
  <2>4. PICK x : x = Attached(t, n, p, d)
    OBVIOUS
  <2>5. p \in S /\ IsTree(x, key, S \cup {n}, AttachedSub(S, sub, n, p))
    BY <1>2, <2>2, <2>3, <2>4, AttachTree
  <2>6. \E sub2 : IsTree(Fix(x, p), key, S \cup {n}, sub2)
    BY <2>5, FixTree
  <2>7. Insert(t, key, n) = Fix(x, p)
    BY <1>2, <2>1, <2>2, <2>3, <2>4 DEF Insert, Attach, Attached, LeafBelow
  <2> QED BY <2>6, <2>7
<1> QED BY <1>1, <1>2

-----------------------------------------------------------------------------
(* The properties' own view of the tree                                    *)

\* One round of Below.
Grown(t, X) == X \cup ({Child(t, m, side) : m \in X, side \in Sides} \ {None})

\* A part of the nodes below n, with n in it.
Parts(sub, n) == {X \in SUBSET Under(sub, n) : {n} \ {None} \subseteq X}

LEMMA GrownStays ==
  ASSUME NEW t, NEW key, NEW S, NEW sub, IsTree(t, key, S, sub), NEW n \in S \cup {None},
         NEW X \in Parts(sub, n)
  PROVE  /\ Grown(t, X) \in Parts(sub, n)
         /\ IsFiniteSet(Under(sub, n) \ X) /\ Cardinality(Under(sub, n) \ X) \in Nat
         /\ Cardinality(Under(sub, n) \ X) <= Cardinality(Names)
         /\ \/ Grown(t, X) = X
            \/ Cardinality(Under(sub, n) \ Grown(t, X)) < Cardinality(Under(sub, n) \ X)
<1> DEFINE U == Under(sub, n)
<1>1. U \subseteq S /\ S \subseteq Names /\ X \subseteq U /\ {n} \ {None} \subseteq X
  BY RootFacts, NodeFacts DEF Under, Parts
<1>2. X \subseteq Grown(t, X)
  BY DEF Grown
<1>3. ASSUME NEW c \in Grown(t, X) PROVE c \in U
  <2>1. CASE c \in X
    BY <1>1, <2>1
  <2>2. CASE c \notin X
    <3>1. PICK m \in X, side \in Sides : c = Child(t, m, side) /\ c # None
      BY <1>3, <2>2 DEF Grown
    <3>2. m \in S /\ c \in S /\ c \in sub[m]
      <4>1. m \in S
        BY <1>1, <3>1
      <4>2. c \in S /\ c \in sub[c] /\ sub[c] \subseteq sub[m]
        BY <3>1, <4>1, ChildIsSmaller, NodeFacts
      <4> QED BY <4>1, <4>2
    <3>3. n \in S /\ U = sub[n]
      BY <1>1, <3>1 DEF Under
    <3>4. sub[m] \subseteq sub[n]
      BY <1>1, <3>1, <3>3, BelowBelow
    <3> QED BY <3>2, <3>3, <3>4
  <2> QED BY <2>1, <2>2
<1>4. Grown(t, X) \in Parts(sub, n)
  BY <1>1, <1>2, <1>3 DEF Parts
<1>5. IsFiniteSet(U \ X) /\ Cardinality(U \ X) \in Nat /\ Cardinality(U \ X) <= Cardinality(Names)
  <2>1. U \ X \subseteq Names
    BY <1>1
  <2> QED BY <2>1, NamesAssumption, NumberOfNames, FS_Subset, FS_CardinalityType
<1>6. ASSUME Grown(t, X) # X PROVE Cardinality(U \ Grown(t, X)) < Cardinality(U \ X)
  <2>1. PICK G : G = Grown(t, X)
    OBVIOUS
  <2>2. U \ G \subseteq U \ X /\ U \ G # U \ X
    BY <1>2, <1>3, <1>6, <2>1
  <2>3. Cardinality(U \ G) <= Cardinality(U \ X) /\ Cardinality(U \ G) # Cardinality(U \ X)
    BY <1>5, <2>2, FS_Subset
  <2>4. Cardinality(U \ G) \in Nat
    BY <1>5, <2>2, FS_Subset, FS_CardinalityType
  <2> QED BY <1>5, <2>1, <2>3, <2>4
<1> QED BY <1>4, <1>5, <1>6

\* What is closed under the way down holds all there is below n.
LEMMA ClosedIsAll ==
  ASSUME NEW t, NEW key, NEW S, NEW sub, IsTree(t, key, S, sub), NEW n \in S \cup {None},
         NEW X \in Parts(sub, n), Grown(t, X) = X
  PROVE  X = Under(sub, n)
<1> DEFINE Y == Under(sub, n) \ X
           Sizes == {Cardinality(Names) - Cardinality(sub[y]) : y \in Y}
<1>1. SUFFICES ASSUME Y # {} PROVE FALSE
  BY DEF Parts
<1>2. n \in S /\ Under(sub, n) = sub[n] /\ n \in X /\ Y \subseteq S /\ Y = sub[n] \ X /\ n # None
  BY <1>1, NodeFacts DEF Under, Parts
<1>3. Sizes \subseteq Nat /\ Sizes # {}
  <2>1. \A y \in Y : Cardinality(sub[y]) \in Nat /\ Cardinality(sub[y]) <= Cardinality(Names)
    BY <1>2, SubSize
  <2> QED BY <1>1, <2>1, NumberOfNames
<1>4. PICK y \in Y : \A z \in Y : Cardinality(Names) - Cardinality(sub[y])
                                    <= Cardinality(Names) - Cardinality(sub[z])
  <2>1. PICK least \in Sizes : \A other \in Sizes : least <= other
    <3> HIDE DEF Sizes
    <3> QED BY <1>3, LeastElement
  <2> QED BY <2>1
<1> HIDE DEF Y, Sizes
<1>5. y \in S /\ y \in sub[n] /\ y \notin X /\ y # n
  BY <1>2
<1>6. PICK p : p = Parent(t, y)
  OBVIOUS
<1>7. y # t.root
  <2>1. ASSUME y = t.root PROVE FALSE
    <3>1. Parent(t, y) \in sub[n] /\ Parent(t, y) = None /\ sub[n] \subseteq Names
      BY <1>2, <1>5, <2>1, ParentIs, RootFacts, NodeFacts
    <3> QED BY <3>1, NamesAssumption
  <2> QED BY <2>1
<1>8. p \in sub[n] /\ p \in S /\ \E side \in Sides : y = Child(t, p, side)
  BY <1>2, <1>5, <1>6, <1>7, ParentIs
<1>9. y # None
  BY <1>5, NodeFacts
<1>10. p \notin X
  <2>1. ASSUME p \in X PROVE FALSE
    <3>1. y \in Grown(t, X)
      BY <1>8, <1>9, <2>1 DEF Grown
    <3> QED BY <1>5, <3>1
  <2> QED BY <2>1
<1>11. p \in Y
  BY <1>2, <1>8, <1>10
<1>12. Cardinality(sub[y]) < Cardinality(sub[p])
  BY <1>8, <1>9, ChildIsSmaller
<1>13. Cardinality(sub[y]) \in Nat /\ Cardinality(sub[p]) \in Nat
  BY <1>5, <1>8, SubSize
<1> QED BY <1>4, <1>11, <1>12, <1>13, NumberOfNames

LEMMA BelowIs ==
  ASSUME NEW key, NEW S, NEW sub, IsTree(tree, key, S, sub), NEW n \in S \cup {None}
  PROVE  Below(n) = Under(sub, n)
<1> DEFINE W == Parts(sub, n)
           N == Cardinality(Names)
           start == {n} \ {None}
           F == [X \in W |-> Grown(tree, X)]
           M == [X \in W |-> Cardinality(Under(sub, n) \ X)]
           after == CHOOSE after : after = [i \in 0..N |-> IF i = 0 THEN start ELSE Grown(tree, after[i - 1])]
<1>1. start \in W
  BY NodeFacts DEF Parts, Under
<1>2. F \in [W -> W]
  BY GrownStays
<1>3. Shrinks(M, W, F)
  <2>1. M \in [W -> Nat]
    BY GrownStays
  <2>2. ASSUME NEW X \in W PROVE F[X] = X \/ M[F[X]] < M[X]
    BY <1>2, GrownStays
  <2> QED BY <2>1, <2>2 DEF Shrinks
<1>4. M[start] <= N /\ N \in Nat
  BY <1>1, GrownStays, NumberOfNames
<1>5. Below(n) = after[N]
  BY DEF Below, Repeat, Grown
<1>6. after = [i \in 0..N |-> IF i = 0 THEN start ELSE Grown(tree, after[i - 1])]
  <2>1. PICK g : /\ g = [i \in 0..N |-> IF i = 0 THEN start ELSE F[g[i - 1]]]
                 /\ \A i \in 0..N : i # 0 => g[i - 1] \in W
    <3> HIDE DEF F, W, start
    <3> QED BY <1>1, <1>2, RunExists
  <2>2. \A i \in 0..N : i # 0 => F[g[i - 1]] = Grown(tree, g[i - 1])
    BY <2>1
  <2>3. g = [i \in 0..N |-> IF i = 0 THEN start ELSE Grown(tree, g[i - 1])]
    <3> HIDE DEF F, N, start
    <3> QED BY <2>1, <2>2
  <2> QED BY <2>3
<1> HIDE DEF after
<1>7. Follows(after, W, F, start, N)
  <2>1. after[0] = start /\ \A i \in 1..N : after[i] = Grown(tree, after[i - 1])
    <3> HIDE DEF N, start
    <3> QED BY <1>4, <1>6
  <2>2. \A i \in 1..N : after[i - 1] \in W => after[i] = F[after[i - 1]]
    BY <2>1
  <2> QED BY <2>1, <2>2 DEF Follows
<1> HIDE DEF F, M, W, start, N
<1>8. after[N] \in W /\ F[after[N]] = after[N]
  BY <1>1, <1>2, <1>3, <1>4, <1>7, RoundsSettle
<1>9. Grown(tree, after[N]) = after[N] /\ after[N] \in Parts(sub, n)
  BY <1>8 DEF F, W
<1> QED BY <1>5, <1>9, ClosedIsAll

-----------------------------------------------------------------------------
(* The set                                                                 *)

Scored(scores) == {n \in Names : scores[n] # None}

\* The inductive invariant: the tree is a search tree of the names that have a
\* score, by the scores they have now.
IInv ==
  /\ score \in [Names -> Scores \cup {None}]
  /\ table = Scored(score)
  /\ \E sub : IsTree(tree, KeysOf(score), table, sub)

LEMMA KeysAre ==
  ASSUME NEW scores \in [Names -> Scores \cup {None}]
  PROVE  /\ \A n \in Names : KeysOf(scores)[n] = <<scores[n], n>>
         /\ \A n \in Names : scores[n] # None => KeysOf(scores)[n] \in Int \X Int
         /\ \A m, n \in Names : m # n => KeysOf(scores)[m] # KeysOf(scores)[n]
<1>1. \A n \in Names : KeysOf(scores)[n] = <<scores[n], n>>
  BY DEF KeysOf
<1>2. ASSUME NEW n \in Names, scores[n] # None PROVE KeysOf(scores)[n] \in Int \X Int
  <2>1. scores[n] \in Scores
    BY <1>2
  <2>2. scores[n] \in Int
    BY <2>1, ScoresAssumption
  <2>3. n \in Int
    <3>1. n \in Nat
      BY NamesAssumption, Zenon
    <3> QED BY <3>1
  <2> QED BY <1>1, <2>2, <2>3
<1>3. ASSUME NEW m \in Names, NEW n \in Names, m # n PROVE KeysOf(scores)[m] # KeysOf(scores)[n]
  BY <1>1, <1>3
<1> QED BY <1>1, <1>2, <1>3

LEMMA EmptyTreeIs == EmptyTree \in Trees /\ EmptyTree.root = None
<1>1. Leaf \in Nodes
  BY DEF Leaf, Nodes
<1> QED BY <1>1 DEF EmptyTree, Trees

LEMMA InitIInv == Init => IInv
<1> SUFFICES ASSUME Init PROVE IInv
  OBVIOUS
<1>1. score \in [Names -> Scores \cup {None}] /\ table = Scored(score) /\ table = {} /\ tree = EmptyTree
  BY DEF Init, Scored
<1> DEFINE sub == [n \in Names |-> {}]
<1>2. tree \in Trees /\ tree.root = None
  BY <1>1, EmptyTreeIs
<1>3. sub \in [Names -> SUBSET Names]
  OBVIOUS
<1> HIDE DEF sub
<1>4. IsTree(tree, KeysOf(score), table, sub)
  BY <1>1, <1>2, <1>3 DEF IsTree, IsLinked, IsKeyed, Under
<1> QED BY <1>1, <1>4 DEF IInv

\* A member gets its score.
LEMMA AddKeeps ==
  ASSUME IInv, NEW n \in Names, NEW s \in Scores, Add(n, s)
  PROVE  IInv'
<1> DEFINE old == KeysOf(score)
           new == KeysOf(score')
<1>1. /\ score' = [score EXCEPT ![n] = s] /\ table' = table \cup {n}
      /\ score \in [Names -> Scores \cup {None}] /\ table = Scored(score) /\ s \in Int /\ s # None
  BY ScoresAssumption DEF IInv, Add
<1>2. score' \in [Names -> Scores \cup {None}] /\ table' = Scored(score')
  BY <1>1 DEF Scored
<1>3. PICK sub : IsTree(tree, old, table, sub)
  BY DEF IInv
<1>4. /\ \A m \in Names \ {n} : new[m] = old[m]
      /\ new[n] \in Int \X Int
      /\ \A m \in Names : m # n => new[m] # new[n]
  <2>1. \A m \in Names \ {n} : score'[m] = score[m]
    BY <1>1
  <2>2. score'[n] = s
    BY <1>1
  <2>3. \A m \in Names : new[m] = <<score'[m], m>> /\ old[m] = <<score[m], m>>
    BY <1>1, <1>2, KeysAre
  <2>4. \A m \in Names \ {n} : new[m] = old[m]
    BY <2>1, <2>3
  <2>5. new[n] \in Int \X Int
    BY <1>1, <1>2, <2>2, KeysAre
  <2>6. \A m \in Names : m # n => new[m] # new[n]
    BY <1>2, KeysAre
  <2> QED BY <2>4, <2>5, <2>6
<1> HIDE DEF old, new
<1>5. \E sub2 : IsTree(tree', new, table \cup {n}, sub2)
  <2>1. CASE n \in table
    <3>1. PICK u : u = Remove(tree, old, old[n])
      OBVIOUS
    <3>2. PICK sub1 : IsTree(u, old, table \ {n}, sub1)
      BY <1>3, <2>1, <3>1, RemoveTree
    <3>3. IsTree(u, new, table \ {n}, sub1)
      <4>1. u \in Trees /\ \A m \in table \ {n} : new[m] = old[m]
        BY <1>4, <3>2, RootFacts
      <4> QED BY <3>2, <4>1, SameTree
    <3>4. tree' = Insert(u, new, n)
      <4>1. old[n] = Key(n)
        BY <1>1, KeysAre DEF old, Key
      <4> QED BY <1>1, <2>1, <3>1, <4>1 DEF Add, Rescore, old, new
    <3>5. \E sub2 : IsTree(Insert(u, new, n), new, (table \ {n}) \cup {n}, sub2)
      <4>1. n \notin table \ {n} /\ \A m \in table \ {n} : new[m] # new[n]
        BY <1>4, <3>3, RootFacts
      <4> QED BY <1>4, <3>3, <4>1, InsertTree
    <3>6. (table \ {n}) \cup {n} = table \cup {n}
      OBVIOUS
    <3> QED BY <3>4, <3>5, <3>6
  <2>2. CASE n \notin table
    <3>1. tree' = Insert(tree, new, n)
      BY <2>2 DEF Add, new
    <3>2. IsTree(tree, new, table, sub)
      <4>1. tree \in Trees /\ \A m \in table : new[m] = old[m]
        BY <1>3, <1>4, <2>2, RootFacts
      <4> QED BY <1>3, <4>1, SameTree
    <3>3. \A m \in table : new[m] # new[n]
      BY <1>4, <2>2, <3>2, RootFacts
    <3> QED BY <1>4, <2>2, <3>1, <3>2, <3>3, InsertTree
  <2> QED BY <2>1, <2>2
<1> QED BY <1>1, <1>2, <1>5 DEF IInv, new

LEMMA DropKeeps ==
  ASSUME IInv, NEW n \in Names, Drop(n)
  PROVE  IInv'
<1> DEFINE old == KeysOf(score)
           new == KeysOf(score')
<1>1. /\ n \in table /\ score' = [score EXCEPT ![n] = None] /\ table' = table \ {n}
      /\ score \in [Names -> Scores \cup {None}] /\ table = Scored(score)
      /\ tree' = Remove(tree, old, Key(n))
  BY DEF IInv, Drop
<1>2. score' \in [Names -> Scores \cup {None}] /\ table' = Scored(score')
  BY <1>1 DEF Scored
<1>3. PICK sub : IsTree(tree, old, table, sub)
  BY DEF IInv
<1>4. old[n] = Key(n) /\ \A m \in Names \ {n} : new[m] = old[m]
  <2>1. \A m \in Names \ {n} : score'[m] = score[m]
    BY <1>1
  <2>2. \A m \in Names : old[m] = <<score[m], m>>
    BY <1>1, KeysAre
  <2>3. \A m \in Names : new[m] = <<score'[m], m>>
    BY <1>2, KeysAre
  <2> HIDE DEF old, new
  <2> QED BY <2>1, <2>2, <2>3 DEF Key
<1> HIDE DEF old, new
<1>5. PICK sub1 : IsTree(tree', old, table \ {n}, sub1)
  BY <1>1, <1>3, <1>4, RemoveTree
<1>6. IsTree(tree', new, table \ {n}, sub1)
  <2>1. tree' \in Trees /\ \A m \in table \ {n} : new[m] = old[m]
    BY <1>4, <1>5, RootFacts
  <2> QED BY <1>5, <2>1, SameTree
<1> QED BY <1>1, <1>2, <1>6 DEF IInv, new

LEMMA NextIInv == IInv /\ [Next]_vars => IInv'
<1> SUFFICES ASSUME IInv, [Next]_vars PROVE IInv'
  OBVIOUS
<1>1. ASSUME UNCHANGED <<tree, table, score>> PROVE IInv'
  BY <1>1 DEF IInv
<1>2. CASE \E n \in Names, s \in Scores : Add(n, s)
  BY <1>2, AddKeeps
<1>3. CASE \E n \in Names : Drop(n)
  BY <1>3, DropKeeps
<1>4. CASE \E n \in Names : DropNothing(n) \/ Score(n)
  BY <1>1, <1>4 DEF DropNothing, Score
<1>5. CASE \E s \in Scores, n \in Names, offset \in Offsets, limit \in Limits : Query(s, n, offset, limit)
  BY <1>1, <1>5 DEF Query
<1>6. CASE UNCHANGED vars
  BY <1>1, <1>6 DEF vars
<1> QED BY <1>2, <1>3, <1>4, <1>5, <1>6 DEF Next

LEMMA InvariantHolds == Spec => []IInv
BY InitIInv, NextIInv, PTL DEF Spec

-----------------------------------------------------------------------------
(* The theorems                                                            *)

LEMMA TypesFollow == IInv => TypeOK
<1> SUFFICES ASSUME IInv PROVE TypeOK
  OBVIOUS
<1>1. PICK sub : IsTree(tree, KeysOf(score), table, sub)
  BY DEF IInv
<1>2. tree \in Trees /\ table \subseteq Names
  BY <1>1, RootFacts
<1> QED BY <1>2 DEF IInv, TypeOK, Trees, Nodes

LEMMA WhatIsBelow ==
  ASSUME IInv
  PROVE  \E sub : /\ IsTree(tree, KeysOf(score), table, sub)
                  /\ InTree = table
                  /\ \A n \in table \cup {None} : Below(n) = Under(sub, n)
<1>1. PICK sub : IsTree(tree, KeysOf(score), table, sub)
  BY DEF IInv
<1>2. \A n \in table \cup {None} : Below(n) = Under(sub, n)
  BY <1>1, BelowIs
<1>3. tree.root \in table \cup {None} /\ Under(sub, tree.root) = table
  BY <1>1, RootFacts DEF IsTree
<1> QED BY <1>1, <1>2, <1>3 DEF InTree

LEMMA OrderFollows == IInv => SearchOrder
<1> SUFFICES ASSUME IInv, NEW n \in InTree
             PROVE  /\ \A m \in Below(Child(tree, n, "left")) : Less(Key(m), Key(n))
                    /\ \A m \in Below(Child(tree, n, "right")) : Less(Key(n), Key(m))
  BY DEF SearchOrder
<1>1. PICK sub : /\ IsTree(tree, KeysOf(score), table, sub)
                 /\ InTree = table
                 /\ \A k \in table \cup {None} : Below(k) = Under(sub, k)
  BY WhatIsBelow
<1>2. n \in table /\ table \subseteq Names
  BY <1>1, RootFacts
<1>3. \A k \in Names : KeysOf(score)[k] = Key(k)
  BY DEF KeysOf, Key
<1>4. ASSUME NEW side \in Sides, NEW m \in Below(Child(tree, n, side)) PROVE On(side, Key(m), Key(n))
  <2>1. Child(tree, n, side) \in table \cup {None}
    BY <1>1, <1>2, NodeFacts
  <2>2. m \in Under(sub, Child(tree, n, side))
    BY <1>1, <1>4, <2>1
  <2>3. On(side, KeysOf(score)[m], KeysOf(score)[n]) /\ m \in table
    BY <1>1, <1>2, <2>2, NodeFacts
  <2> QED BY <1>2, <1>3, <2>3
<1> QED BY <1>4, TwoSides DEF On

LEMMA ParentsFollow == IInv => ParentsRight
<1> SUFFICES ASSUME IInv PROVE ParentsRight
  OBVIOUS
<1>1. PICK sub : IsTree(tree, KeysOf(score), table, sub) /\ InTree = table
  BY WhatIsBelow
<1>2. tree.root # None => Parent(tree, tree.root) = None
  BY <1>1, RootFacts
<1>3. \A n \in table : \A side \in Sides :
        Child(tree, n, side) # None => Parent(tree, Child(tree, n, side)) = n
  BY <1>1, NodeFacts
<1> QED BY <1>1, <1>2, <1>3 DEF ParentsRight, Parent

\* Rotations, removals and rescored members never leave a pointer that is
\* neither null nor to a node of the set, nor a height of zero.
THEOREM TypeCorrect == Spec => []TypeOK
BY InvariantHolds, TypesFollow, PTL

\* A member is in the tree as long as it is in the table: no rotation and no
\* removal loses a subtree, and the search for a member that is rescored finds
\* it, whatever the heights in the nodes are.
THEOREM TreeAndTableInStep == Spec => []InStep
<1>1. IInv => InStep
  BY WhatIsBelow DEF InStep
<1> QED BY <1>1, InvariantHolds, PTL

\* Every node is on the side of every ancestor where its score and name belong,
\* after any sequence of insertions, removals and changes of score.
THEOREM SearchOrderKept == Spec => []SearchOrder
BY InvariantHolds, OrderFollows, PTL

\* The parent pointers, which next follows upwards, are the inverse of the
\* child pointers.
THEOREM ParentsStayRight == Spec => []ParentsRight
BY InvariantHolds, ParentsFollow, PTL

-----------------------------------------------------------------------------
(* The next node                                                           *)

\* v is the first of S after n; None, if there is none after n.
IsNext(key, S, n, v) ==
  IF v = None THEN \A m \in S : ~ Less(key[n], key[m])
  ELSE /\ v \in S /\ Less(key[n], key[v])
       /\ \A m \in S : Less(key[n], key[m]) => m = v \/ Less(key[v], key[m])

\* One step up, for as long as one comes from the right.
UpFrom(t, m) ==
  IF t.node[m].parent # None /\ Child(t, t.node[m].parent, "right") = m THEN t.node[m].parent ELSE m

\* What the climb may have come to: n is the last of the nodes below.
LastBelow(key, S, sub, n) ==
  {m \in S : n \in sub[m] /\ \A k \in sub[m] : k = n \/ Less(key[k], key[n])}

LEMMA UpFromStays ==
  ASSUME NEW t, NEW key, NEW S, NEW sub, IsTree(t, key, S, sub), NEW n \in S,
         NEW m \in LastBelow(key, S, sub, n)
  PROVE  /\ UpFrom(t, m) \in LastBelow(key, S, sub, n)
         /\ \/ UpFrom(t, m) = m
            \/ Cardinality(Names) - Cardinality(sub[UpFrom(t, m)]) < Cardinality(Names) - Cardinality(sub[m])
<1>1. m \in S /\ n \in sub[m] /\ \A k \in sub[m] : k = n \/ Less(key[k], key[n])
  BY DEF LastBelow
<1>2. CASE UpFrom(t, m) = m
  BY <1>2
<1>3. CASE UpFrom(t, m) # m
  <2>1. PICK p : p = Parent(t, m)
    OBVIOUS
  <2>2. p # None /\ Child(t, p, "right") = m /\ UpFrom(t, m) = p
    BY <1>3, <2>1 DEF UpFrom, Parent
  <2>3. p \in S
    BY <1>1, <2>1, <2>2, SideOfIs
  <2>4. m # None
    BY <1>1, NodeFacts
  <2>5. /\ sub[m] \subseteq sub[p] /\ Under(sub, m) = sub[m]
        /\ Cardinality(sub[m]) < Cardinality(sub[p])
    BY <2>2, <2>3, <2>4, TwoSides, ChildIsSmaller, NodeFacts
  <2>6. key[n] \in Int \X Int /\ key[p] \in Int \X Int /\ Less(key[p], key[n])
    BY <1>1, <2>2, <2>3, <2>5, TwoSides, NodeFacts DEF On
  <2>7. ASSUME NEW k \in sub[p] PROVE k = n \/ Less(key[k], key[n])
    <3>1. k = p \/ k \in Under(sub, Child(t, p, "left")) \/ k \in sub[m]
      BY <2>2, <2>3, <2>5, TwoSides, NodeFacts
    <3>2. CASE k = p
      BY <2>6, <3>2
    <3>3. CASE k \in Under(sub, Child(t, p, "left"))
      <4>1. Less(key[k], key[p]) /\ key[k] \in Int \X Int
        BY <2>3, <3>3, TwoSides, NodeFacts DEF On
      <4> QED BY <2>6, <4>1, LessIsOrder
    <3>4. CASE k \in sub[m]
      BY <1>1, <3>4
    <3> QED BY <3>1, <3>2, <3>3, <3>4
  <2>8. Cardinality(sub[m]) \in Nat /\ Cardinality(sub[p]) \in Nat
    BY <1>1, <2>3, SubSize
  <2>9. Cardinality(Names) - Cardinality(sub[p]) < Cardinality(Names) - Cardinality(sub[m])
    BY <2>5, <2>8, NumberOfNames
  <2> QED BY <1>1, <2>2, <2>3, <2>5, <2>7, <2>9 DEF LastBelow
<1> QED BY <1>2, <1>3

\* Where the climb ends, the node above is the next, or there is none.
LEMMA ClimbEnds ==
  ASSUME NEW t, NEW key, NEW S, NEW sub, IsTree(t, key, S, sub), NEW n \in S,
         NEW m \in LastBelow(key, S, sub, n), UpFrom(t, m) = m
  PROVE  IsNext(key, S, n, Parent(t, m))
<1>1. m \in S /\ n \in sub[m] /\ \A k \in sub[m] : k = n \/ Less(key[k], key[n])
  BY DEF LastBelow
<1>2. PICK p : p = Parent(t, m)
  OBVIOUS
<1>3. \A k \in S : key[k] \in Int \X Int
  BY NodeFacts
<1>4. \A k \in sub[m] : ~ Less(key[n], key[k])
  <2>1. ASSUME NEW k \in sub[m] PROVE ~ Less(key[n], key[k])
    <3>1. k \in S
      BY <1>1, NodeFacts
    <3> QED BY <1>1, <1>3, <3>1, LessIsOrder
  <2> QED BY <2>1
<1>5. CASE p = None
  <2>1. sub[m] = S
    <3>1. m = t.root
      BY <1>1, <1>2, <1>5, ParentIs
    <3>2. m # None
      BY <1>1, NodeFacts
    <3> QED BY <3>1, <3>2, RootFacts
  <2> QED BY <1>2, <1>4, <1>5, <2>1 DEF IsNext
<1>6. CASE p # None
  <2>1. p \in S /\ p # m /\ Child(t, p, "left") = m
    <3>1. p \in S /\ p # m /\ \E s \in Sides : Child(t, p, s) = m
      BY <1>1, <1>2, <1>6, SideOfIs
    <3>2. Child(t, p, "right") # m
      BY <1>2, <1>6, <3>1 DEF UpFrom, Parent
    <3> QED BY <3>1, <3>2, TwoSides
  <2>2. m # None
    BY <1>1, NodeFacts
  <2>3. n \in sub[p] /\ n \in Under(sub, Child(t, p, "left"))
    BY <1>1, <2>1, <2>2, TwoSides, ChildIsSmaller, NodeFacts
  <2>4. Less(key[n], key[p])
    BY <2>1, <2>3, TwoSides, NodeFacts DEF On
  <2>5. ASSUME NEW k \in S, Less(key[n], key[k]) PROVE k = p \/ Less(key[p], key[k])
    <3>1. CASE k \in sub[p]
      <4>1. k = p \/ k \in Under(sub, Child(t, p, "right")) \/ k \in sub[m]
        BY <2>1, <2>2, <3>1, TwoSides, NodeFacts DEF Under
      <4> QED BY <1>4, <2>1, <2>5, <4>1, TwoSides, NodeFacts DEF On
    <3>2. CASE k \notin sub[p]
      <4>1. p \in sub[p]
        BY <2>1, NodeFacts
      <4>2. Less(key[k], key[p]) => Less(key[k], key[n])
        BY <2>1, <2>3, <3>2, <4>1, BelowTogether
      <4>3. ~ Less(key[k], key[n])
        BY <1>3, <2>5, LessIsOrder
      <4>4. k # p
        BY <3>2, <4>1
      <4>5. key[k] # key[p]
        BY <2>1, <4>4, RootFacts DEF IsKeyed
      <4> QED BY <1>3, <2>1, <4>2, <4>3, <4>5, LessIsOrder
    <3> QED BY <3>1, <3>2
  <2> QED BY <1>2, <1>6, <2>1, <2>4, <2>5 DEF IsNext
<1> QED BY <1>5, <1>6

\* next from a node without a child on the right.
LEMMA ClimbIs ==
  ASSUME NEW t, NEW key, NEW S, NEW sub, IsTree(t, key, S, sub), NEW n \in S,
         Child(t, n, "right") = None
  PROVE  IsNext(key, S, n, NextNode(t, n))
<1> DEFINE W == LastBelow(key, S, sub, n)
           N == Cardinality(Names)
           F == [m \in W |-> UpFrom(t, m)]
           M == [m \in W |-> N - Cardinality(sub[m])]
           after == CHOOSE after : after = [i \in 0..N |-> IF i = 0 THEN n ELSE UpFrom(t, after[i - 1])]
<1>1. n \in W
  <2>1. sub[n] = {n} \cup Under(sub, Child(t, n, "left"))
    <3>1. sub[n] = {n} \cup Under(sub, Child(t, n, "left")) \cup Under(sub, Child(t, n, "right"))
      BY NodeFacts, TwoSides
    <3> QED BY <3>1 DEF Under
  <2>2. \A k \in sub[n] : k = n \/ Less(key[k], key[n])
    BY <2>1, NodeFacts, TwoSides DEF On
  <2> QED BY <2>1, <2>2 DEF LastBelow
<1>2. F \in [W -> W]
  BY UpFromStays
<1>3. Shrinks(M, W, F)
  <2>1. \A m \in W : m \in S
    BY DEF LastBelow
  <2>2. \A m \in W : N - Cardinality(sub[m]) \in Nat
    BY <2>1, SubSize, NumberOfNames
  <2>3. M \in [W -> Nat]
    BY <2>2
  <2>4. ASSUME NEW m \in W PROVE F[m] = m \/ M[F[m]] < M[m]
    BY <1>2, UpFromStays
  <2> QED BY <2>3, <2>4 DEF Shrinks
<1>4. M[n] <= N /\ N \in Nat
  BY <1>1, SubSize, NumberOfNames
<1>5. NextNode(t, n) = Parent(t, after[N])
  <2>1. n # None
    BY NodeFacts
  <2> QED BY <2>1 DEF NextNode, Repeat, UpFrom, Parent
<1>6. after = [i \in 0..N |-> IF i = 0 THEN n ELSE UpFrom(t, after[i - 1])]
  <2>1. PICK g : /\ g = [i \in 0..N |-> IF i = 0 THEN n ELSE F[g[i - 1]]]
                 /\ \A i \in 0..N : i # 0 => g[i - 1] \in W
    <3> HIDE DEF F, W
    <3> QED BY <1>1, <1>2, RunExists
  <2>2. \A i \in 0..N : i # 0 => F[g[i - 1]] = UpFrom(t, g[i - 1])
    BY <2>1
  <2>3. g = [i \in 0..N |-> IF i = 0 THEN n ELSE UpFrom(t, g[i - 1])]
    <3> HIDE DEF F, N
    <3> QED BY <2>1, <2>2
  <2> QED BY <2>3
<1> HIDE DEF after
<1>7. Follows(after, W, F, n, N)
  <2>1. after[0] = n /\ \A i \in 1..N : after[i] = UpFrom(t, after[i - 1])
    <3> HIDE DEF N
    <3> QED BY <1>4, <1>6
  <2>2. \A i \in 1..N : after[i - 1] \in W => after[i] = F[after[i - 1]]
    BY <2>1
  <2> QED BY <2>1, <2>2 DEF Follows
<1> HIDE DEF F, M, W
<1> HIDE DEF N
<1>8. after[N] \in W /\ F[after[N]] = after[N]
  BY <1>1, <1>2, <1>3, <1>4, <1>7, RoundsSettle
<1>9. after[N] \in LastBelow(key, S, sub, n) /\ UpFrom(t, after[N]) = after[N]
  BY <1>8 DEF F, W
<1> QED BY <1>5, <1>9, ClimbEnds

\* next comes to the next node in order, by the way down or by the way up.
LEMMA NextNodeIs ==
  ASSUME NEW t, NEW key, NEW S, NEW sub, IsTree(t, key, S, sub), NEW n \in S
  PROVE  IsNext(key, S, n, NextNode(t, n))
<1>1. CASE Child(t, n, "right") = None
  BY <1>1, ClimbIs
<1>2. CASE Child(t, n, "right") # None
  <2>1. PICK v : v = FarLeft(t, Child(t, n, "right"))
    OBVIOUS
  <2>2. v \in S /\ v # None /\ IsNext(key, S, n, v)
    BY <1>2, <2>1, NextBelow, NodeFacts DEF IsNext
  <2>3. NextNode(t, n) = v
    <3>1. n # None
      BY NodeFacts
    <3> QED BY <1>2, <2>1, <3>1 DEF NextNode
  <2> QED BY <2>2, <2>3
<1> QED BY <1>1, <1>2

-----------------------------------------------------------------------------
(* The lower bound                                                         *)

\* v is the first node that is not before the key k; None, if all are before.
IsFirst(key, S, k, v) ==
  IF v = None THEN \A m \in S : Less(key[m], k)
  ELSE /\ v \in S /\ ~ Less(key[v], k)
       /\ \A m \in S : ~ Less(key[m], k) => m = v \/ Less(key[v], key[m])

\* One step of the search.
Down(t, key, k, w) ==
  IF w.at = None THEN w
  ELSE IF Less(key[w.at], k) THEN [w EXCEPT !.at = Child(t, w.at, "right")]
  ELSE [at |-> Child(t, w.at, "left"), result |-> w.at]

\* What the search may have come to: the result is the first of what it has
\* passed, and comes after all it has not.
Passing(key, S, sub, k) ==
  {w \in [at : S \cup {None}, result : S \cup {None}] :
     /\ w.result = None => \A m \in S \ Under(sub, w.at) : Less(key[m], k)
     /\ w.result # None =>
          /\ ~ Less(key[w.result], k)
          /\ \A m \in S \ Under(sub, w.at) :
               m = w.result \/ Less(key[m], k) \/ Less(key[w.result], key[m])
          /\ \A m \in Under(sub, w.at) : Less(key[m], key[w.result])}

LEMMA DownStays ==
  ASSUME NEW t, NEW key, NEW S, NEW sub, IsTree(t, key, S, sub), NEW k \in Int \X Int,
         NEW w \in Passing(key, S, sub, k), w.at # None,
         NEW x, x = Down(t, key, k, w)
  PROVE  /\ x \in Passing(key, S, sub, k)
         /\ Cardinality(Under(sub, x.at)) < Cardinality(Under(sub, w.at))
<1>1. /\ w \in [at : S \cup {None}, result : S \cup {None}] /\ w.at \in S
      /\ w.result = None => \A m \in S \ Under(sub, w.at) : Less(key[m], k)
      /\ w.result # None =>
           /\ w.result \in S
           /\ ~ Less(key[w.result], k)
           /\ \A m \in S \ Under(sub, w.at) :
                m = w.result \/ Less(key[m], k) \/ Less(key[w.result], key[m])
           /\ \A m \in Under(sub, w.at) : Less(key[m], key[w.result])
  BY DEF Passing
<1>2. PICK a : a = w.at
  OBVIOUS
<1>3. PICK r : r = w.result
  OBVIOUS
<1>4. /\ a \in S /\ a # None /\ Under(sub, a) = sub[a] /\ a \in sub[a] /\ sub[a] \subseteq S
      /\ \A m \in S : key[m] \in Int \X Int
  <2>1. a \in S
    BY <1>1, <1>2
  <2> QED BY <2>1, NodeFacts DEF Under
<1>5. ASSUME NEW side \in Sides
      PROVE  /\ Child(t, a, side) \in S \cup {None}
             /\ Under(sub, Child(t, a, side)) \subseteq sub[a]
             /\ a \notin Under(sub, Child(t, a, side))
             /\ Cardinality(Under(sub, Child(t, a, side))) < Cardinality(sub[a])
             /\ \A m \in Under(sub, Child(t, a, side)) : On(side, key[m], key[a])
             /\ \A m \in sub[a] : m = a \/ m \in Under(sub, Child(t, a, side))
                                        \/ m \in Under(sub, Child(t, a, Other(side)))
  <2>1. /\ Child(t, a, side) \in S \cup {None}
        /\ Under(sub, Child(t, a, side)) \subseteq sub[a]
        /\ a \notin Under(sub, Child(t, a, side))
        /\ \A m \in Under(sub, Child(t, a, side)) : On(side, key[m], key[a])
        /\ \A m \in sub[a] : m = a \/ m \in Under(sub, Child(t, a, side))
                                   \/ m \in Under(sub, Child(t, a, Other(side)))
    BY <1>4, NodeFacts
  <2>2. Cardinality(Under(sub, Child(t, a, side))) < Cardinality(sub[a])
    <3>1. IsFiniteSet(sub[a]) /\ Cardinality(sub[a]) \in Nat
      BY <1>4, SubSize
    <3>2. /\ Cardinality(Under(sub, Child(t, a, side))) <= Cardinality(sub[a])
          /\ Cardinality(Under(sub, Child(t, a, side))) # Cardinality(sub[a])
      BY <1>4, <2>1, <3>1, FS_Subset
    <3>3. Cardinality(Under(sub, Child(t, a, side))) \in Nat
      BY <2>1, <3>1, FS_Subset, FS_CardinalityType
    <3> QED BY <3>1, <3>2, <3>3
  <2> QED BY <2>1, <2>2
<1>6. CASE Less(key[a], k)
  <2>1. PICK c : c = Child(t, a, "right")
    OBVIOUS
  <2>2. x.at = c /\ x.result = r /\ x \in [at : S \cup {None}, result : S \cup {None}]
    <3>1. x = [w EXCEPT !.at = c]
      BY <1>2, <1>4, <1>6, <2>1 DEF Down
    <3>2. c \in S \cup {None}
      BY <1>5, <2>1, TwoSides
    <3> QED BY <1>1, <1>3, <3>1, <3>2
  <2>3. /\ Under(sub, c) \subseteq sub[a]
        /\ Cardinality(Under(sub, c)) < Cardinality(sub[a])
        /\ \A m \in sub[a] : m = a \/ m \in Under(sub, c) \/ Less(key[m], key[a])
    BY <1>5, <2>1, TwoSides DEF On
  <2>4. ASSUME NEW m \in S \ Under(sub, c) PROVE m \notin Under(sub, a) \/ Less(key[m], k)
    <3>1. m \in sub[a] => m = a \/ Less(key[m], key[a])
      BY <2>3, <2>4
    <3> QED BY <1>4, <1>6, <3>1, LessIsOrder
  <2>5. r = None => \A m \in S \ Under(sub, c) : Less(key[m], k)
    BY <1>1, <1>2, <1>3, <2>4
  <2>6. ASSUME r # None
        PROVE  /\ ~ Less(key[r], k)
               /\ \A m \in S \ Under(sub, c) : m = r \/ Less(key[m], k) \/ Less(key[r], key[m])
               /\ \A m \in Under(sub, c) : Less(key[m], key[r])
    BY <1>1, <1>2, <1>3, <1>4, <2>3, <2>4, <2>6
  <2>7. x \in Passing(key, S, sub, k)
    BY <2>2, <2>5, <2>6 DEF Passing
  <2> QED BY <1>2, <1>4, <2>2, <2>3, <2>7
<1>7. CASE ~ Less(key[a], k)
  <2>1. PICK c : c = Child(t, a, "left")
    OBVIOUS
  <2>2. x.at = c /\ x.result = a /\ x \in [at : S \cup {None}, result : S \cup {None}]
    <3>1. x = [at |-> c, result |-> a]
      BY <1>2, <1>4, <1>7, <2>1 DEF Down
    <3>2. c \in S \cup {None}
      BY <1>5, <2>1, TwoSides
    <3> QED BY <1>4, <3>1, <3>2
  <2>3. /\ Under(sub, c) \subseteq sub[a]
        /\ Cardinality(Under(sub, c)) < Cardinality(sub[a])
        /\ \A m \in Under(sub, c) : Less(key[m], key[a])
        /\ \A m \in sub[a] : m = a \/ m \in Under(sub, c) \/ Less(key[a], key[m])
    BY <1>5, <2>1, TwoSides DEF On
  <2>4. ASSUME NEW m \in S \ Under(sub, c) PROVE m = a \/ Less(key[m], k) \/ Less(key[a], key[m])
    <3>1. CASE m \in sub[a]
      BY <2>3, <2>4, <3>1
    <3>2. CASE m \notin sub[a]
      <4>1. CASE r = None
        BY <1>1, <1>2, <1>3, <1>4, <3>2, <4>1
      <4>2. CASE r # None
        <5>1. r \in S /\ Less(key[a], key[r])
          BY <1>1, <1>2, <1>3, <1>4, <4>2
        <5>2. m = r \/ Less(key[m], k) \/ Less(key[r], key[m])
          BY <1>1, <1>2, <1>3, <1>4, <3>2, <4>2
        <5> QED BY <1>4, <5>1, <5>2, LessIsOrder
      <4> QED BY <4>1, <4>2
    <3> QED BY <3>1, <3>2
  <2>5. x \in Passing(key, S, sub, k)
    BY <1>4, <1>7, <2>2, <2>3, <2>4 DEF Passing
  <2> QED BY <1>2, <1>4, <2>2, <2>3, <2>5
<1> QED BY <1>6, <1>7

\* lowerBound finds the first node that is not before the key.
LEMMA LowerBoundIs ==
  ASSUME NEW t, NEW key, NEW S, NEW sub, IsTree(t, key, S, sub), NEW k \in Int \X Int
  PROVE  IsFirst(key, S, k, LowerBound(t, key, k))
<1> DEFINE W == Passing(key, S, sub, k)
           N == Cardinality(Names)
           start == [at |-> t.root, result |-> None]
           F == [w \in W |-> Down(t, key, k, w)]
           M == [w \in W |-> Cardinality(Under(sub, w.at))]
           after == CHOOSE after : after = [i \in 0..N |-> IF i = 0 THEN start ELSE Down(t, key, k, after[i - 1])]
<1>1. start \in W
  <2>1. t.root \in S \cup {None}
    BY RootFacts
  <2>2. Under(sub, t.root) = S
    BY DEF IsTree
  <2> QED BY <2>1, <2>2 DEF Passing
<1>2. F \in [W -> W]
  <2>1. ASSUME NEW w \in W PROVE Down(t, key, k, w) \in W
    <3>1. CASE w.at = None
      BY <3>1 DEF Down
    <3>2. CASE w.at # None
      BY <3>2, DownStays
    <3> QED BY <3>1, <3>2
  <2> QED BY <2>1
<1>3. \A w \in W : Cardinality(Under(sub, w.at)) \in Nat /\ Cardinality(Under(sub, w.at)) <= Cardinality(Names)
  <2>1. ASSUME NEW w \in W
        PROVE  Cardinality(Under(sub, w.at)) \in Nat /\ Cardinality(Under(sub, w.at)) <= Cardinality(Names)
    <3>1. w.at \in S \cup {None}
      BY DEF Passing
    <3>2. CASE w.at = None
      BY <3>2, FS_EmptySet, NumberOfNames DEF Under
    <3>3. CASE w.at # None
      BY <3>1, <3>3, SubSize DEF Under
    <3> QED BY <3>2, <3>3
  <2> QED BY <2>1
<1>4. Shrinks(M, W, F)
  <2>1. M \in [W -> Nat]
    BY <1>3
  <2>2. ASSUME NEW w \in W PROVE F[w] = w \/ M[F[w]] < M[w]
    <3>1. CASE w.at = None
      BY <3>1 DEF Down
    <3>2. CASE w.at # None
      <4>1. PICK x : x = Down(t, key, k, w)
        OBVIOUS
      <4>2. x \in W /\ Cardinality(Under(sub, x.at)) < Cardinality(Under(sub, w.at))
        BY <3>2, <4>1, DownStays
      <4> QED BY <4>1, <4>2
    <3> QED BY <3>1, <3>2
  <2> QED BY <2>1, <2>2 DEF Shrinks
<1>5. M[start] <= N /\ N \in Nat
  BY <1>1, <1>3, NumberOfNames
<1>6. LowerBound(t, key, k) = after[N].result
  BY DEF LowerBound, Repeat, Down
<1>7. after = [i \in 0..N |-> IF i = 0 THEN start ELSE Down(t, key, k, after[i - 1])]
  <2>1. PICK g : /\ g = [i \in 0..N |-> IF i = 0 THEN start ELSE F[g[i - 1]]]
                 /\ \A i \in 0..N : i # 0 => g[i - 1] \in W
    <3> HIDE DEF F, W, start
    <3> QED BY <1>1, <1>2, RunExists
  <2>2. \A i \in 0..N : i # 0 => F[g[i - 1]] = Down(t, key, k, g[i - 1])
    BY <2>1
  <2>3. g = [i \in 0..N |-> IF i = 0 THEN start ELSE Down(t, key, k, g[i - 1])]
    <3> HIDE DEF F, N, start
    <3> QED BY <2>1, <2>2
  <2> QED BY <2>3
<1> HIDE DEF after
<1>8. Follows(after, W, F, start, N)
  <2>1. after[0] = start /\ \A i \in 1..N : after[i] = Down(t, key, k, after[i - 1])
    <3> HIDE DEF N, start
    <3> QED BY <1>5, <1>7
  <2>2. \A i \in 1..N : after[i - 1] \in W => after[i] = F[after[i - 1]]
    BY <2>1
  <2> QED BY <2>1, <2>2 DEF Follows
<1> HIDE DEF F, M, W, start, N
<1>9. after[N] \in W /\ F[after[N]] = after[N]
  BY <1>1, <1>2, <1>4, <1>5, <1>8, RoundsSettle
<1>10. PICK w : w = after[N]
  OBVIOUS
<1>11. w \in Passing(key, S, sub, k) /\ Down(t, key, k, w) = w
  BY <1>9, <1>10 DEF F, W
<1>12. w.at = None
  <2>1. ASSUME w.at # None PROVE FALSE
    <3>1. Cardinality(Under(sub, w.at)) < Cardinality(Under(sub, w.at))
      BY <1>11, <2>1, DownStays
    <3>2. Cardinality(Under(sub, w.at)) \in Nat
      BY <1>3, <1>11 DEF W
    <3> QED BY <3>1, <3>2
  <2> QED BY <2>1
<1>13. S \ Under(sub, w.at) = S /\ w.result \in S \cup {None}
  BY <1>11, <1>12 DEF Under, Passing
<1> QED BY <1>6, <1>10, <1>11, <1>13 DEF Passing, IsFirst

-----------------------------------------------------------------------------
(* From one node on                                                        *)

\* How many of A come before n.
Rank(key, A, n) == Cardinality({m \in A : Less(key[m], key[n])})

\* A finite set with keys to compare.
IsRanked(key, A) == IsFiniteSet(A) /\ IsKeyed(key, A)

LEMMA RankIsLess ==
  ASSUME NEW key, NEW A, IsRanked(key, A), NEW n \in A
  PROVE  /\ IsFiniteSet({m \in A : Less(key[m], key[n])})
         /\ Rank(key, A, n) \in Nat /\ Cardinality(A) \in Nat /\ Rank(key, A, n) < Cardinality(A)
<1> DEFINE B == {m \in A : Less(key[m], key[n])}
<1>1. B \subseteq A /\ n \notin B
  <2>1. ~ Less(key[n], key[n])
    BY LessIsOrder DEF IsRanked, IsKeyed
  <2> QED BY <2>1
<1> HIDE DEF B
<1>2. IsFiniteSet(B) /\ Cardinality(B) <= Cardinality(A) /\ Cardinality(B) # Cardinality(A)
  BY <1>1, FS_Subset DEF IsRanked
<1>3. Cardinality(B) \in Nat /\ Cardinality(A) \in Nat
  BY <1>2, FS_CardinalityType DEF IsRanked
<1> QED BY <1>2, <1>3 DEF Rank, B

\* The node before which there is none.
LEMMA RankOfFirst ==
  ASSUME NEW key, NEW A, IsRanked(key, A), NEW n \in A, \A m \in A : m = n \/ Less(key[n], key[m])
  PROVE  Rank(key, A, n) = 0
<1>1. ASSUME NEW m \in A PROVE ~ Less(key[m], key[n])
  BY LessIsOrder DEF IsRanked, IsKeyed
<1>2. {m \in A : Less(key[m], key[n])} = {}
  BY <1>1
<1> QED BY <1>2, FS_EmptySet DEF Rank

\* The node after which there is none.
LEMMA RankOfLast ==
  ASSUME NEW key, NEW A, IsRanked(key, A), NEW n \in A, \A m \in A : ~ Less(key[n], key[m])
  PROVE  Rank(key, A, n) = Cardinality(A) - 1
<1>1. ASSUME NEW m \in A, m # n PROVE Less(key[m], key[n])
  <2>1. key[m] # key[n] /\ key[m] \in Int \X Int /\ key[n] \in Int \X Int
    BY <1>1 DEF IsRanked, IsKeyed
  <2> QED BY <2>1, LessIsOrder
<1>2. ~ Less(key[n], key[n])
  OBVIOUS
<1>3. {m \in A : Less(key[m], key[n])} = A \ {n}
  BY <1>1, <1>2
<1>4. Cardinality(A \ {n}) = Cardinality(A) - 1
  BY FS_RemoveElement DEF IsRanked
<1> QED BY <1>3, <1>4 DEF Rank

\* Neighbours have neighbouring ranks.
LEMMA RankOfNext ==
  ASSUME NEW key, NEW A, IsRanked(key, A), NEW a \in A, NEW b \in A, Less(key[a], key[b]),
         \A m \in A : Less(key[a], key[m]) => m = b \/ Less(key[b], key[m])
  PROVE  Rank(key, A, b) = Rank(key, A, a) + 1
<1> DEFINE B == {m \in A : Less(key[m], key[a])}
<1>1. \A m \in A : key[m] \in Int \X Int
  BY DEF IsRanked, IsKeyed
<1>2. a \notin B
  BY <1>1, LessIsOrder
<1>3. ASSUME NEW m \in A PROVE Less(key[m], key[b]) <=> m \in B \/ m = a
  <2>1. Less(key[m], key[a]) => Less(key[m], key[b])
    BY <1>1, LessIsOrder
  <2>2. ASSUME Less(key[m], key[b]), m # a PROVE Less(key[m], key[a])
    <3>1. ~ Less(key[b], key[m]) /\ m # b
      BY <1>1, <2>2, LessIsOrder
    <3>2. ~ Less(key[a], key[m])
      BY <3>1
    <3>3. key[m] # key[a]
      BY <2>2 DEF IsRanked, IsKeyed
    <3> QED BY <1>1, <3>2, <3>3, LessIsOrder
  <2> QED BY <2>1, <2>2
<1>4. {m \in A : Less(key[m], key[b])} = B \cup {a}
  BY <1>3
<1>5. IsFiniteSet(B) /\ Rank(key, A, a) = Cardinality(B)
  BY RankIsLess DEF Rank
<1> HIDE DEF B
<1>6. Cardinality(B \cup {a}) = Cardinality(B) + 1
  BY <1>2, <1>5, FS_AddElement
<1> QED BY <1>4, <1>5, <1>6 DEF Rank

\* A rank is the rank of one node only.
LEMMA RanksDiffer ==
  ASSUME NEW key, NEW A, IsRanked(key, A), NEW a \in A, NEW b \in A,
         Rank(key, A, a) = Rank(key, A, b)
  PROVE  a = b
<1>1. \A m \in A : key[m] \in Int \X Int
  BY DEF IsRanked, IsKeyed
<1>2. ASSUME NEW c \in A, NEW d \in A, Less(key[c], key[d]) PROVE Rank(key, A, c) # Rank(key, A, d)
  <2> DEFINE C == {m \in A : Less(key[m], key[c])}
             D == {m \in A : Less(key[m], key[d])}
  <2>1. C \subseteq D
    BY <1>1, <1>2, LessIsOrder
  <2>2. c \in D /\ c \notin C
    BY <1>1, <1>2, LessIsOrder
  <2>3. IsFiniteSet(D)
    BY RankIsLess
  <2>4. Rank(key, A, c) = Cardinality(C) /\ Rank(key, A, d) = Cardinality(D)
    BY DEF Rank
  <2> HIDE DEF C, D
  <2>5. Cardinality(C) # Cardinality(D)
    <3>1. C # D
      BY <2>2
    <3> QED BY <2>1, <2>3, <3>1, FS_Subset
  <2> QED BY <2>4, <2>5
<1>3. a # b => key[a] # key[b]
  BY DEF IsRanked, IsKeyed
<1>4. ~ Less(key[a], key[b]) /\ ~ Less(key[b], key[a])
  BY <1>2
<1> QED BY <1>1, <1>3, <1>4, LessIsOrder

\* The first nodes of A, in order; at least one, if there is one.
Listed(key, A) ==
  {q \in Seq(A) : /\ A # {} => Len(q) # 0
                  /\ Len(q) <= Cardinality(A)
                  /\ \A j \in 1..Len(q) : Rank(key, A, q[j]) = j - 1}

\* One step of FromOn.
Longer(t, q) ==
  IF q = << >> \/ NextNode(t, q[Len(q)]) = None THEN q ELSE Append(q, NextNode(t, q[Len(q)]))

\* The nodes of S that are not before k.
From(key, S, k) == {m \in S : ~ Less(key[m], k)}

LEMMA FromIs ==
  ASSUME NEW t, NEW key, NEW S, NEW sub, IsTree(t, key, S, sub), NEW k \in Int \X Int,
         NEW A, A = From(key, S, k)
  PROVE  /\ A \subseteq S /\ IsRanked(key, A) /\ Cardinality(A) \in Nat
         /\ Cardinality(A) <= Cardinality(Names)
         /\ \A n \in A : \A m \in S : Less(key[n], key[m]) => m \in A
<1>1. A \subseteq S /\ S \subseteq Names /\ IsFiniteSet(S) /\ IsKeyed(key, S)
  BY RootFacts DEF From
<1>2. IsFiniteSet(A) /\ IsKeyed(key, A)
  BY <1>1, FS_Subset DEF IsKeyed
<1>3. Cardinality(A) \in Nat /\ Cardinality(A) <= Cardinality(Names)
  <2>1. A \subseteq Names
    BY <1>1
  <2> QED BY <1>2, <2>1, FS_CardinalityType, FS_Subset, NamesAssumption
<1>4. ASSUME NEW n \in A, NEW m \in S, Less(key[n], key[m]) PROVE m \in A
  <2>1. key[n] \in Int \X Int /\ key[m] \in Int \X Int /\ ~ Less(key[n], k)
    BY <1>1 DEF IsKeyed, From
  <2>2. ~ Less(key[m], k)
    BY <1>4, <2>1, LessIsOrder
  <2> QED BY <2>2 DEF From
<1> QED BY <1>1, <1>2, <1>3, <1>4 DEF IsRanked

LEMMA LongerStays ==
  ASSUME NEW t, NEW key, NEW S, NEW sub, IsTree(t, key, S, sub), NEW k \in Int \X Int,
         NEW A, A = From(key, S, k), NEW q \in Listed(key, A),
         NEW x, x = Longer(t, q)
  PROVE  /\ x \in Listed(key, A)
         /\ x = q => Len(q) = Cardinality(A)
         /\ x # q => Len(x) = Len(q) + 1
<1>1. /\ A \subseteq S /\ IsRanked(key, A) /\ Cardinality(A) \in Nat
      /\ \A n \in A : \A m \in S : Less(key[n], key[m]) => m \in A
  BY FromIs
<1>2. /\ q \in Seq(A) /\ Len(q) \in Nat /\ Len(q) <= Cardinality(A)
      /\ A # {} => Len(q) # 0
      /\ \A j \in 1..Len(q) : Rank(key, A, q[j]) = j - 1
  BY DEF Listed
<1>3. CASE q = << >>
  <2>1. x = q /\ Len(q) = 0
    BY <1>3 DEF Longer
  <2>2. A = {}
    BY <1>2, <2>1
  <2>3. Cardinality(A) = 0
    BY <2>2, FS_EmptySet
  <2> QED BY <2>1, <2>3
<1>4. CASE q # << >>
  <2>1. PICK l : l = Len(q)
    OBVIOUS
  <2>2. l \in 1..Len(q) /\ l # 0 /\ l \in Nat
    BY <1>2, <1>4, <2>1, EmptySeq
  <2>3. PICK n : n = q[l]
    OBVIOUS
  <2>4. n \in A /\ Rank(key, A, n) = l - 1
    BY <1>2, <2>2, <2>3, ElementOfSeq
  <2>5. PICK v : v = NextNode(t, n)
    OBVIOUS
  <2>6. IsNext(key, S, n, v)
    BY <1>1, <2>4, <2>5, NextNodeIs
  <2>7. CASE v = None
    <3>1. x = q
      BY <2>1, <2>3, <2>5, <2>7 DEF Longer
    <3>2. \A m \in A : ~ Less(key[n], key[m])
      BY <1>1, <2>6, <2>7 DEF IsNext
    <3>3. Rank(key, A, n) = Cardinality(A) - 1
      BY <1>1, <2>4, <3>2, RankOfLast
    <3> QED BY <1>1, <2>1, <2>2, <2>4, <3>1, <3>3
  <2>8. CASE v # None
    <3>1. x = Append(q, v)
      BY <1>4, <2>1, <2>3, <2>5, <2>8 DEF Longer
    <3>2. /\ v \in S /\ Less(key[n], key[v])
          /\ \A m \in S : Less(key[n], key[m]) => m = v \/ Less(key[v], key[m])
      BY <2>6, <2>8 DEF IsNext
    <3>3. v \in A
      BY <1>1, <2>4, <3>2
    <3>4. Rank(key, A, v) = l
      <4>1. Rank(key, A, v) = Rank(key, A, n) + 1
        BY <1>1, <2>4, <3>2, <3>3, RankOfNext
      <4> QED BY <2>2, <2>4, <4>1
    <3>5. l < Cardinality(A)
      BY <1>1, <3>3, <3>4, RankIsLess
    <3>6. x \in Seq(A) /\ Len(x) = l + 1 /\ x[l + 1] = v /\ \A j \in 1..l : x[j] = q[j]
      BY <1>2, <2>1, <3>1, <3>3, AppendProperties
    <3>7. ASSUME NEW j \in 1..Len(x) PROVE Rank(key, A, x[j]) = j - 1
      <4>1. CASE j = l + 1
        BY <2>2, <3>4, <3>6, <4>1
      <4>2. CASE j # l + 1
        <5>1. j \in 1..l
          BY <2>2, <3>6, <4>2
        <5> QED BY <1>2, <2>1, <3>6, <5>1
      <4> QED BY <4>1, <4>2
    <3>8. x \in Listed(key, A)
      <4>1. Len(x) # 0 /\ Len(x) <= Cardinality(A)
        BY <1>1, <2>2, <3>5, <3>6
      <4> QED BY <3>6, <3>7, <4>1 DEF Listed
    <3>9. x # q
      BY <2>1, <2>2, <3>6
    <3> QED BY <2>1, <3>6, <3>8, <3>9
  <2> QED BY <2>7, <2>8
<1> QED BY <1>3, <1>4

\* From the lower bound on, next comes to all that are not before k, in order.
LEMMA FromOnIs ==
  ASSUME NEW key, NEW S, NEW sub, IsTree(tree, key, S, sub), NEW k \in Int \X Int,
         NEW A, A = From(key, S, k), NEW n, n = LowerBound(tree, key, k),
         NEW q, q = FromOn(n)
  PROVE  q \in Listed(key, A) /\ Len(q) = Cardinality(A)
<1> DEFINE W == Listed(key, A)
           N == Cardinality(Names)
           start == IF n = None THEN << >> ELSE <<n>>
           F == [p \in W |-> Longer(tree, p)]
           M == [p \in W |-> Cardinality(A) - Len(p)]
           after == CHOOSE after : after = [i \in 0..N |-> IF i = 0 THEN start ELSE Longer(tree, after[i - 1])]
<1>1. /\ A \subseteq S /\ IsRanked(key, A) /\ Cardinality(A) \in Nat
      /\ Cardinality(A) <= Cardinality(Names)
  BY FromIs
<1>2. start \in W
  <2>1. IsFirst(key, S, k, n)
    BY LowerBoundIs
  <2>2. CASE n = None
    <3>1. A = {} /\ start = << >>
      BY <2>1, <2>2 DEF IsFirst, From
    <3>2. start \in Seq(A) /\ Len(start) = 0
      BY <3>1, EmptySeq
    <3> QED BY <1>1, <3>1, <3>2 DEF Listed
  <2>3. CASE n # None
    <3>1. n \in A /\ \A m \in A : m = n \/ Less(key[n], key[m])
      BY <2>1, <2>3 DEF IsFirst, From
    <3>2. Rank(key, A, n) = 0 /\ Rank(key, A, n) < Cardinality(A)
      BY <1>1, <3>1, RankOfFirst, RankIsLess
    <3>3. start = <<n>> /\ start \in Seq(A) /\ Len(start) = 1 /\ start[1] = n
      BY <2>3, <3>1
    <3>4. \A j \in 1..Len(start) : Rank(key, A, start[j]) = j - 1
      BY <3>2, <3>3
    <3> HIDE DEF start
    <3> QED BY <1>1, <3>2, <3>3, <3>4 DEF Listed
  <2> QED BY <2>2, <2>3
<1>3. F \in [W -> W]
  BY LongerStays
<1>4. \A p \in W : Len(p) \in Nat /\ Len(p) <= Cardinality(A)
  BY DEF Listed
<1>5. Shrinks(M, W, F)
  <2>1. M \in [W -> Nat]
    BY <1>1, <1>4
  <2>2. ASSUME NEW p \in W PROVE F[p] = p \/ M[F[p]] < M[p]
    <3>1. PICK x : x = Longer(tree, p)
      OBVIOUS
    <3>2. x \in W /\ (x # p => Len(x) = Len(p) + 1)
      BY <3>1, LongerStays
    <3> QED BY <1>1, <1>4, <3>1, <3>2
  <2> QED BY <2>1, <2>2 DEF Shrinks
<1>6. M[start] <= N /\ N \in Nat
  <2> HIDE DEF start, W
  <2> QED BY <1>1, <1>2, <1>4, NumberOfNames
<1>7. q = after[N]
  BY DEF FromOn, Repeat, Longer
<1>8. after = [i \in 0..N |-> IF i = 0 THEN start ELSE Longer(tree, after[i - 1])]
  <2>1. PICK g : /\ g = [i \in 0..N |-> IF i = 0 THEN start ELSE F[g[i - 1]]]
                 /\ \A i \in 0..N : i # 0 => g[i - 1] \in W
    <3> HIDE DEF F, W, start
    <3> QED BY <1>2, <1>3, RunExists
  <2>2. \A i \in 0..N : i # 0 => F[g[i - 1]] = Longer(tree, g[i - 1])
    BY <2>1
  <2>3. g = [i \in 0..N |-> IF i = 0 THEN start ELSE Longer(tree, g[i - 1])]
    <3> HIDE DEF F, N, start
    <3> QED BY <2>1, <2>2
  <2> QED BY <2>3
<1> HIDE DEF after
<1>9. Follows(after, W, F, start, N)
  <2>1. after[0] = start /\ \A i \in 1..N : after[i] = Longer(tree, after[i - 1])
    <3> HIDE DEF N, start
    <3> QED BY <1>6, <1>8
  <2>2. \A i \in 1..N : after[i - 1] \in W => after[i] = F[after[i - 1]]
    BY <2>1
  <2> QED BY <2>1, <2>2 DEF Follows
<1> HIDE DEF F, M, W, start, N
<1>10. q \in W /\ F[q] = q
  BY <1>2, <1>3, <1>5, <1>6, <1>7, <1>9, RoundsSettle
<1>11. q \in Listed(key, A) /\ Longer(tree, q) = q
  BY <1>10 DEF F, W
<1> QED BY <1>11, LongerStays

-----------------------------------------------------------------------------
(* The mapping from names to scores                                        *)

\* The mapping counts as the set does.
LEMMA CountIs == \A X : Map!Cardinality(X) = Cardinality(X)
BY Zenon DEF Map!Cardinality, Cardinality

\* What a query walks over is what the mapping has in order.
LEMMA InOrderIs ==
  ASSUME IInv, NEW s \in Scores, NEW n \in Names,
         NEW q, q = FromOn(LowerBound(tree, KeysOf(score), <<s, n>>))
  PROVE  q = Map!InOrder(score, Map!NotBefore(score, s, n))
<1> DEFINE key == KeysOf(score)
           B == Map!NotBefore(score, s, n)
           Earlier(x) == Map!Cardinality({m \in B : Map!Before(score, m, x)})
<1>1. /\ score \in [Names -> Scores \cup {None}] /\ table = Scored(score)
      /\ \A m \in Names : key[m] = <<score[m], m>>
  BY KeysAre DEF IInv
<1>2. PICK sub : IsTree(tree, key, table, sub)
  BY DEF IInv
<1>3. \A m \in table : m \in Names /\ m \in Int /\ score[m] \in Int
  <2>1. \A m \in table : m \in Names /\ score[m] \in Scores
    BY <1>1 DEF Scored
  <2>2. \A m \in Names : m \in Nat
    BY NamesAssumption, Zenon
  <2>3. \A m \in table : score[m] \in Int
    BY <2>1, ScoresAssumption
  <2> QED BY <2>1, <2>2, <2>3
<1>4. PICK k : k = <<s, n>>
  OBVIOUS
<1>5. k \in Int \X Int /\ s \in Int /\ n \in Int
  <2>1. n \in Nat
    BY NamesAssumption, Zenon
  <2>2. s \in Int
    BY ScoresAssumption
  <2> QED BY <1>4, <2>1, <2>2
<1>6. B = From(key, table, k)
  <2>1. Map!MembersOf(score) = table
    BY <1>1 DEF Map!MembersOf, Scored
  <2>2. ASSUME NEW m \in table
        PROVE  ~ Less(key[m], k) <=> score[m] > s \/ (score[m] = s /\ m >= n)
    <3>1. key[m][1] = score[m] /\ key[m][2] = m /\ k[1] = s /\ k[2] = n
      BY <1>1, <1>3, <1>4
    <3>2. score[m] \in Int /\ m \in Int
      BY <1>3
    <3> QED BY <1>5, <3>1, <3>2 DEF Less
  <2> QED BY <2>1, <2>2 DEF Map!NotBefore, From
<1>7. \A m, x \in table : Map!Before(score, m, x) <=> Less(key[m], key[x])
  BY <1>1, <1>3 DEF Map!Before, Less
<1> HIDE DEF B, key
<1>8. q \in Listed(key, B) /\ Len(q) = Cardinality(B) /\ B \subseteq table /\ IsRanked(key, B)
  <2>1. q = FromOn(LowerBound(tree, key, k))
    BY <1>4 DEF key
  <2> QED BY <1>2, <1>5, <1>6, <2>1, FromOnIs, FromIs
<1>9. ASSUME NEW x \in B PROVE Earlier(x) = Rank(key, B, x)
  <2>1. {m \in B : Map!Before(score, m, x)} = {m \in B : Less(key[m], key[x])}
    BY <1>7, <1>8
  <2> QED BY <2>1, CountIs DEF Rank
<1>10. ASSUME NEW j \in 1..Cardinality(B)
       PROVE  q[j] = CHOOSE x \in B : Earlier(x) = j - 1
  <2>1. q[j] \in B /\ Rank(key, B, q[j]) = j - 1
    BY <1>8, ElementOfSeq DEF Listed
  <2>2. PICK c : c = CHOOSE x \in B : Earlier(x) = j - 1
    OBVIOUS
  <2> HIDE DEF Earlier
  <2>3. c \in B /\ Earlier(c) = j - 1
    BY <1>9, <2>1, <2>2
  <2>4. Rank(key, B, c) = Rank(key, B, q[j])
    BY <1>9, <2>1, <2>3
  <2>5. c = q[j]
    BY <1>8, <2>1, <2>3, <2>4, RanksDiffer
  <2> QED BY <2>2, <2>5
<1>11. q = [j \in 1..Cardinality(B) |-> q[j]]
  <2>1. q \in [1..Len(q) -> B]
    BY <1>8, LenProperties DEF Listed
  <2> QED BY <1>8, <2>1
<1>12. q = [j \in 1..Cardinality(B) |-> CHOOSE x \in B : Earlier(x) = j - 1]
  <2> HIDE DEF Earlier
  <2> QED BY <1>10, <1>11
<1>13. Map!InOrder(score, B) = [j \in 1..Map!Cardinality(B) |-> CHOOSE x \in B : Earlier(x) = j - 1]
  BY Zenon DEF Map!InOrder
<1> HIDE DEF Earlier
<1>14. q = Map!InOrder(score, B)
  BY <1>12, <1>13, CountIs
<1> QED BY <1>14 DEF B

\* The answer to a query is the answer of the mapping.
LEMMA QueryMaps ==
  ASSUME IInv, NEW s \in Scores, NEW n \in Names, NEW offset \in Offsets, NEW limit \in Limits,
         Query(s, n, offset, limit)
  PROVE  Map!Query(s, n, offset, limit)
<1>1. PICK q : q = FromOn(LowerBound(tree, KeysOf(score), <<s, n>>))
  OBVIOUS
<1>2. q = Map!InOrder(score, Map!NotBefore(score, s, n))
  BY <1>1, InOrderIs
<1>3. offset \in Int
  BY QueriesAssumption
<1>4. PICK page : page = IF limit <= 0 THEN << >> ELSE Found(s, n, offset, limit)
  OBVIOUS
<1>5. page = Map!Page(q, offset, limit)
  <2>1. Larger(offset, 0) = IF offset < 0 THEN 0 ELSE offset
    BY <1>3 DEF Larger
  <2>2. CASE limit <= 0
    BY <1>4, <2>2 DEF Map!Page
  <2>3. CASE ~ (limit <= 0)
    <3>1. page = Found(s, n, offset, limit)
      BY <1>4, <2>3
    <3> QED BY <1>1, <2>1, <2>3, <3>1 DEF Map!Page, Found
  <2> QED BY <2>2, <2>3
<1>6. reply' = <<"query", <<s, n, offset, limit>>, [i \in DOMAIN page |-> <<page[i], score[page[i]]>>]>>
      /\ UNCHANGED score
  BY <1>4 DEF Query, Answer
<1>7. Map!Ranked(score, s, n, offset, limit) = [i \in DOMAIN page |-> <<page[i], score[page[i]]>>]
  BY <1>2, <1>5 DEF Map!Ranked
<1> QED BY <1>6, <1>7 DEF Map!Query, Map!Answer

\* Every run of the set is a run of the mapping: scores, what ZADD and ZREM
\* answer, and the members a query lists, from the first that is not before its
\* score and name on, by next through the tree.
THEOREM Refinement == Spec => ImplementsScoreMap
<1>1. Init => Map!Init
  BY DEF Init, Map!Init
<1>2. IInv /\ [Next]_vars => [Map!Next]_(Map!mapVars)
  <2> SUFFICES ASSUME IInv, [Next]_vars PROVE [Map!Next]_(Map!mapVars)
    OBVIOUS
  <2>1. score \in [Names -> Scores \cup {None}] /\ table = Scored(score) /\ Map!Members = table
    BY DEF IInv, Scored, Map!Members, Map!MembersOf
  <2>2. ASSUME NEW n \in Names, NEW s \in Scores, Add(n, s) PROVE Map!Add(n, s)
    BY <2>1, <2>2 DEF Add, Answer, Map!Add, Map!Answer
  <2>3. ASSUME NEW n \in Names, Drop(n) PROVE Map!Remove(n)
    BY <2>1, <2>3 DEF Drop, Answer, Map!Remove, Map!Answer
  <2>4. ASSUME NEW n \in Names, DropNothing(n) PROVE Map!Remove(n)
    <3>1. score[n] = None /\ score' = score
      BY <2>1, <2>4 DEF DropNothing, Scored
    <3>2. score' = [score EXCEPT ![n] = None]
      BY <2>1, <3>1
    <3>3. (n \in Map!Members) = FALSE
      BY <2>1, <2>4 DEF DropNothing
    <3>4. reply' = <<"remove", <<n>>, FALSE>>
      BY <2>4 DEF DropNothing, Answer
    <3>5. Map!Answer("remove", <<n>>, n \in Map!Members)
      BY <3>3, <3>4 DEF Map!Answer
    <3> QED BY <3>2, <3>5 DEF Map!Remove
  <2>5. ASSUME NEW n \in Names, Score(n) PROVE Map!Score(n)
    BY <2>5 DEF Score, Answer, Map!Score, Map!Answer
  <2>6. ASSUME UNCHANGED vars PROVE UNCHANGED Map!mapVars
    BY <2>6 DEF vars, Map!mapVars
  <2> QED BY <2>2, <2>3, <2>4, <2>5, <2>6, QueryMaps DEF Next, Map!Next
<1> QED BY <1>1, <1>2, InvariantHolds, PTL DEF Spec, ImplementsScoreMap, Map!Spec

=============================================================================
