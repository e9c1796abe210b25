------------------------------- MODULE MCTurn -------------------------------
(***************************************************************************)
(* Two slots, one of which may be missing from an older session, and one   *)
(* decision that rests on both.                                            *)
(***************************************************************************)
EXTENDS Turn

CONSTANTS rules, payer, d1

Says(completeness, confidence, impact, value, evidence) ==
    [completeness |-> completeness, confidence |-> confidence, impact |-> impact,
     value |-> value, evidence |-> evidence]

MCOrder == [s \in Slots |-> IF s = rules THEN 1 ELSE 2]
MCDefaultImpact == [s \in Slots |-> "high"]
MCDerivedFrom == [d \in Decisions |-> Slots]

Unknown == Says(0, "empty", "high", Blank, "none")

MCStated == [s \in Slots |->
    IF s = rules
    THEN {Unknown,
          Says(50, "inferred", "high", "a", "quote"),
          Says(50, "inferred", "high", "a", "deferred"),
          Says(50, "inferred", "high", "b", "pointer"),
          Says(50, "explicit", "high", "a", "quote"),
          Says(90, "explicit", "high", "a", "pointer"),
          Says(90, "explicit", "high", "a", "delegated"),
          Says(0, "empty", "high", Blank, "delegated")}
    ELSE {Unknown, Says(50, "testable", "high", "a", "quote")}]

MCEarlier == {[slots |-> [s \in Slots |-> IF s = rules THEN Says(50, "inferred", "high", "a", "deferred")
                                          ELSE Absent],
               questions |-> {}, decisions |-> Decisions]}
=============================================================================
