----------------------------- MODULE MCArchive -----------------------------
(***************************************************************************)
(* Archive for TLC.                                                        *)
(***************************************************************************)
EXTENDS Archive, TLC

CONSTANTS p1, p2

MCProcs == {p1, p2}
Symmetric == Permutations(MCProcs)
=============================================================================
