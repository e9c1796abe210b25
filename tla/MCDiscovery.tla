---------------------------- MODULE MCDiscovery ----------------------------
(***************************************************************************)
(* Discovery for TLC.  Two requests share the slug they suggest, so that   *)
(* the second is claimed under a suffixed one.                             *)
(***************************************************************************)
EXTENDS Discovery, TLC

CONSTANTS p1, p2

MCProcs == {p1, p2}
Symmetric == Permutations(MCProcs)

Identity(request, cards, perimeter) ==
    [request |-> request, cards |-> cards, perimeter |-> perimeter]

MCAsked == {Identity("one", "all", "software"), Identity("one", "billing", "software")}
MCAskedByHand == {Identity("two", "all", "software"), Identity("one", "all", "go-to-market")}

MCSlugs == {"base", "base-1", "base-2"}

\* Hashes of different identities may agree.
MCSuffixed ==
    [b \in MCSlugs \X Identities |->
        IF b[2].perimeter = Default THEN "base-1" ELSE "base-2"]
=============================================================================
