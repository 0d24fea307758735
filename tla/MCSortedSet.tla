----------------------------- MODULE MCSortedSet -----------------------------
(***************************************************************************)
(* Instance of SortedSet for TLC.                                          *)
(***************************************************************************)
EXTENDS SortedSet

MCOffsets == {-1, 0, 2}

Sets == <<tree, table, score>>
=============================================================================
