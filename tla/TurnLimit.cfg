SPECIFICATION Spec
CONSTANTS
    rules = rules
    payer = payer
    d1 = d1
    Slots = {rules, payer}
    Order <- MCOrder
    Required = {rules, payer}
    DefaultImpact <- MCDefaultImpact
    Decisions = {d1}
    DerivedFrom <- MCDerivedFrom
    Values = {"a", "b"}
    Blank = Blank
    MaxQuestions = 1
    Absent = Absent
    Unsaid = Unsaid
    Unreadable = Unreadable
    Stated <- MCStated
    Earlier <- MCEarlier
    Retries = 1
    MaxTurns = 2
    MaxRev = 3
INVARIANT
    AnswersAreFedBack
CHECK_DEADLOCK FALSE
