------------------------ MODULE MCResizableHashTable ------------------------
(***************************************************************************)
(* Instance of ResizableHashTable for TLC.  The hash codes make keys share  *)
(* a slot in the table of two slots, in the one of four, and in both, so    *)
(* that batches end inside a chain, at its end and between empty slots.     *)
(***************************************************************************)
EXTENDS ResizableHashTable, TLC

MCKeys == 1..6

\* Modulo 2: 0 0 0 1 1 0; modulo 4: 0 2 0 1 3 2.
MCHash == <<0, 2, 4, 1, 3, 6>>

\* No action and no invariant reads the reply: states that differ in nothing
\* else have the same successors, and the properties of steps are checked for
\* every step, whether or not it leads to tables seen before.
Tables == <<newer, older, migratePos>>

ValueSymmetry == Permutations(Values)
=============================================================================
