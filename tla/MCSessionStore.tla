--------------------------- MODULE MCSessionStore ---------------------------
(***************************************************************************)
(* SessionStore for TLC: a document that consumes one slot and one that    *)
(* consumes two, and models that differ in the slot only one of them       *)
(* reads, or in the reasoning alone.                                       *)
(***************************************************************************)
EXTENDS SessionStore

MCModel(workflow, payer, reasoning) ==
    [part \in {"workflow", "payer", "reasoning"} |->
        CASE part = "workflow" -> workflow [] part = "payer" -> payer [] OTHER -> reasoning]

MCModels == {MCModel(0, 0, 0), MCModel(0, 1, 0), MCModel(0, 0, 1)}

MCSlotsOf == [t \in Types |-> IF t = "criteria" THEN {"workflow"} ELSE {"workflow", "payer"}]
=============================================================================
