--------------------------- MODULE MCSessionLock ---------------------------
(***************************************************************************)
(* SessionLock for TLC: three threads, two of which may delete.            *)
(***************************************************************************)
EXTENDS SessionLock

CONSTANTS p1, p2, p3

MCProcs == {p1, p2, p3}
MCDeleters == {p1, p2}
=============================================================================
