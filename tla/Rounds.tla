------------------------------- MODULE Rounds -------------------------------
(***************************************************************************)
(* Facts about a step that is repeated a number of times, round after      *)
(* round.  They rest on the least element of a set of natural numbers, and *)
(* so need no induction scheme: what is claimed of every round is proved by *)
(* looking at the first round for which it would fail.                     *)
(***************************************************************************)
EXTENDS Integers, WellFoundedInduction, TLAPS

\* A set of natural numbers that is not empty has a least element.
LEMMA LeastElement ==
  ASSUME NEW T, T \subseteq Nat, T # {}
  PROVE  \E x \in T : \A y \in T : x <= y
<1>1. IsWellFoundedOn(OpToRel(<, Nat), Nat)
  BY NatLessThanWellFounded
<1>2. PICK x \in T : \A y \in T : ~ (<<y, x>> \in OpToRel(<, Nat))
  BY <1>1, WFMin
<1>3. ASSUME NEW y \in T PROVE x <= y
  <2>1. x \in Nat /\ y \in Nat
    OBVIOUS
  <2>2. y < x => <<y, x>> \in OpToRel(<, Nat)
    BY <2>1 DEF OpToRel
  <2>3. ~ (y < x)
    BY <1>2, <2>2, Zenon
  <2> QED BY <2>1, <2>3
<1> QED BY <1>3

\* Induction up to n, for a set in place of a predicate: a set of numbers that
\* has 0, and after each number below n the next, has all of 0..n.
LEMMA UpTo ==
  ASSUME NEW n \in Nat, NEW T, 0 \in T, \A i \in 1..n : i - 1 \in T => i \in T
  PROVE  0..n \subseteq T
<1> DEFINE Missing == (0..n) \ T
<1>1. SUFFICES ASSUME Missing # {} PROVE FALSE
  OBVIOUS
<1>2. PICK m \in Missing : \A y \in Missing : m <= y
  <2>1. Missing \subseteq Nat
    OBVIOUS
  <2> HIDE DEF Missing
  <2> QED BY <1>1, <2>1, LeastElement
<1>3. m \in 1..n /\ m \notin T
  OBVIOUS
<1>4. m - 1 \in 0..n /\ m - 1 \notin Missing
  BY <1>2, <1>3
<1>5. m - 1 \in T
  BY <1>4
<1> QED BY <1>3, <1>5

-----------------------------------------------------------------------------
(* Rounds                                                                  *)

\* f is what becomes of s in the rounds up to n, when a round does F to what is
\* in S.  Rounds whose step is an operator are described in this way as well:
\* F agrees with the operator on S.
Follows(f, S, F, s, n) ==
  f[0] = s /\ \A i \in 1..n : f[i - 1] \in S => f[i] = F[f[i - 1]]

\* A round that changes anything makes the measure M smaller.
Shrinks(M, S, F) ==
  M \in [S -> Nat] /\ \A x \in S : F[x] = x \/ M[F[x]] < M[x]

\* A step from S to S can be repeated as often as one likes.
LEMMA RoundsExist ==
  ASSUME NEW S, NEW F, F \in [S -> S], NEW s, s \in S, NEW n, n \in Nat
  PROVE  \E g : g \in [0..n -> S] /\ Follows(g, S, F, s, n)
<1> DEFINE Good(m) == \E g \in [0..m -> S] : g[0] = s /\ \A i \in 1..m : g[i] = F[g[i - 1]]
           T == {m \in 0..n : Good(m)}
<1>1. 0 \in T
  <2> DEFINE g == [i \in 0..0 |-> s]
  <2>1. g \in [0..0 -> S] /\ g[0] = s /\ \A i \in 1..0 : g[i] = F[g[i - 1]]
    OBVIOUS
  <2> HIDE DEF g
  <2>2. Good(0)
    BY <2>1
  <2> QED BY <2>2
<1>2. ASSUME NEW m \in 1..n, m - 1 \in T PROVE m \in T
  <2>1. PICK g \in [0..(m - 1) -> S] : g[0] = s /\ \A i \in 1..(m - 1) : g[i] = F[g[i - 1]]
    BY <1>2
  <2> DEFINE h == [i \in 0..m |-> IF i = m THEN F[g[m - 1]] ELSE g[i]]
  <2>2. h \in [0..m -> S]
    BY <2>1
  <2>3. h[0] = s
    BY <2>1
  <2>4. ASSUME NEW i \in 1..m PROVE h[i] = F[h[i - 1]]
    BY <2>1
  <2>5. Good(m)
    BY <2>2, <2>3, <2>4
  <2> QED BY <2>5
<1> HIDE DEF T
<1>3. 0..n \subseteq T
  BY <1>1, <1>2, UpTo
<1>4. n \in T
  BY <1>3
<1> QED BY <1>4 DEF T, Follows

\* Rounds that begin in S stay in S; and when every round that changes anything
\* makes a measure smaller, they have come to rest after as many rounds as the
\* measure was at the start.
LEMMA RoundsSettle ==
  ASSUME NEW S, NEW F, F \in [S -> S], NEW M, Shrinks(M, S, F),
         NEW s, s \in S, NEW n, n \in Nat, M[s] <= n, NEW f, Follows(f, S, F, s, n)
  PROVE  f[n] \in S /\ F[f[n]] = f[n]
<1> DEFINE T == {i \in 0..n : f[i] \in S /\ (F[f[i]] = f[i] \/ M[f[i]] <= n - i)}
<1>1. 0 \in T
  BY DEF Follows
<1>2. ASSUME NEW i \in 1..n, i - 1 \in T PROVE i \in T
  <2>1. f[i - 1] \in S /\ (F[f[i - 1]] = f[i - 1] \/ M[f[i - 1]] <= n - (i - 1))
    BY <1>2
  <2>2. f[i] = F[f[i - 1]] /\ f[i] \in S
    BY <2>1 DEF Follows
  <2>3. CASE F[f[i - 1]] = f[i - 1]
    BY <2>2, <2>3
  <2>4. CASE F[f[i - 1]] # f[i - 1]
    <3>1. M[f[i]] < M[f[i - 1]] /\ M[f[i - 1]] <= n - (i - 1)
      BY <2>1, <2>2, <2>4 DEF Shrinks
    <3>2. M[f[i]] \in Nat /\ M[f[i - 1]] \in Nat
      BY <2>1, <2>2 DEF Shrinks
    <3>3. M[f[i]] <= n - i
      BY <3>1, <3>2
    <3> QED BY <2>2, <3>3
  <2> QED BY <2>3, <2>4
<1> HIDE DEF T
<1>3. 0..n \subseteq T
  BY <1>1, <1>2, UpTo
<1>4. f[n] \in S /\ (F[f[n]] = f[n] \/ M[f[n]] <= 0)
  BY <1>3 DEF T
<1>5. M[f[n]] \in Nat /\ M[F[f[n]]] \in Nat
  BY <1>4 DEF Shrinks
<1> QED BY <1>4, <1>5 DEF Shrinks
=============================================================================
