------------------------------ MODULE MCTTLHeap ------------------------------
(***************************************************************************)
(* Instance of TTLHeap for TLC.  Six timers make a heap in which the last   *)
(* one may have to rise when it fills a gap: position 6 is below 3, and     *)
(* need not be later than what is above position 4 or 5.                   *)
(***************************************************************************)
EXTENDS TTLHeap, TLC

\* Nothing depends on the call a heap comes from, and the steps to a heap seen
\* before are checked like the others.
HeapOnly == <<heap, index>>

KeySymmetry == Permutations(Keys)
=============================================================================
