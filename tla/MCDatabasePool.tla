--------------------------- MODULE MCDatabasePool ---------------------------
(***************************************************************************)
(* DatabasePool on small instances.                                        *)
(***************************************************************************)
EXTENDS DatabasePool, TLC

ThreadSymmetry == Permutations(Threads)
=============================================================================
