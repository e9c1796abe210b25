---------------------------- MODULE MCGeneration ----------------------------
(***************************************************************************)
(* Two invocations over a slug that users work on as well.                 *)
(***************************************************************************)
EXTENDS Generation, TLC

CONSTANTS c1, c2, f1, f2, w1, w2

MCClients == {c1, c2}
MCMaxRevs == <<3, 1>>
MCFacts == {f1, f2}
MCWhys == {w1, w2}
Symmetric == Permutations(MCClients) \cup Permutations(MCFacts) \cup Permutations(MCWhys)
=============================================================================
