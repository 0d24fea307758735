------------------------------ MODULE MCExpiry ------------------------------
(***************************************************************************)
(* Instances of Expiry for TLC.                                            *)
(***************************************************************************)
EXTENDS Expiry, TLC

MCKeys == 1..3

\* With two slots: 0 1 0; with four: 0 1 2.
MCHash == <<0, 1, 2>>

AddrSymmetry == Permutations(Addrs)
=============================================================================
