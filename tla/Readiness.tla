----------------------------- MODULE Readiness -----------------------------
(***************************************************************************)
(* A requirements model: how a proposal is resolved against the model it   *)
(* refines, what blocks readiness, what is asked, and which decisions were *)
(* derived from thinner evidence than there is now.  `ModelProposal` in    *)
(* core/contracts.py, core/validation.py, core/analysis.py, and the        *)
(* evidence review of core/dependencies.py and services/sessions.py.       *)
(*                                                                         *)
(* A model maps each slot to what it holds, or to Absent: a session may be *)
(* older than a slot of its perimeter.  A question is the slot it targets, *)
(* and a decision stands for the reasoning layer.  Claims are left out.    *)
(***************************************************************************)
EXTENDS Integers, FiniteSets, Sequences

CONSTANTS Slots,         \* slot ids of the perimeter
          Order,         \* Order[s]: the place of s in the schema
          Required,      \* the slots that are not optional
          DefaultImpact, \* DefaultImpact[s]: impact_default of the schema
          Decisions,     \* decision ids
          DerivedFrom,   \* DerivedFrom[d]: the slots decision d rests on
          Values,        \* what a slot may say
          Blank,         \* the empty value
          MaxQuestions,
          Absent, Unsaid, Unreadable

ASSUME ReadinessAssumption ==
    /\ Required \subseteq Slots
    /\ Order \in [Slots -> Nat]
    /\ DefaultImpact \in [Slots -> {"low", "medium", "high"}]
    /\ DerivedFrom \in [Decisions -> SUBSET Slots]
    /\ MaxQuestions \in Nat \ {0}
    /\ Blank \notin Values

Confidences == {"explicit", "inferred", "empty", "testable"}
Impacts == {"low", "medium", "high"}
Rank(impact) == CASE impact = "low" -> 0 [] impact = "medium" -> 1 [] impact = "high" -> 2

\* Evidence: none, words of the client's, a pointer at an earlier turn ("as before"),
\* or opening with the mark of a slot delegated to us or that the client cannot answer.
Evidences == {"none", "quote", "pointer", "delegated", "deferred"}

Slot == [completeness : 0..100, confidence : Confidences, impact : Impacts,
         value : Values \cup {Blank}, evidence : Evidences]

Models == [slots : [Slots -> Slot \cup {Absent}], questions : SUBSET Slots,
           decisions : SUBSET Decisions]

\* The marks are told from what they stand beside.
ASSUME MarksAssumption ==
    /\ Absent \notin Slot
    /\ \A decisions \in SUBSET Decisions : decisions # Unsaid

NoModel == [slots |-> [s \in Slots |-> Absent], questions |-> {}, decisions |-> {}]

----------------------------------------------------------------------------
(* ModelProposal.resolve                                                   *)

Same(stated, established) ==
    /\ stated.value = established.value
    /\ stated.confidence = established.confidence

\* Faulty variant: only an empty evidence takes the established one.
SettleOnlyBlanks(stated, established) ==
    IF established # Absent /\ stated.evidence = "none"
    THEN [stated EXCEPT !.evidence = established.evidence] ELSE stated

\* _settle_evidence: a slot restated without words of its own keeps the client's.
SettleEvidence(stated, established) ==
    LET prior == IF established = Absent THEN "none" ELSE established.evidence
        wordless == stated.evidence \in {"none", "pointer"}
        unmoved == established # Absent /\ prior # "none" /\ Same(stated, established)
    IN IF wordless \/ unmoved THEN [stated EXCEPT !.evidence = prior] ELSE stated

\* What a proposal leaves unsaid stands, what it says replaces; questions always do.
Resolve(proposal, current) ==
    [slots |-> [s \in Slots |->
                   IF proposal.slots[s] = Absent THEN current.slots[s]
                   ELSE SettleEvidence(proposal.slots[s], current.slots[s])],
     questions |-> proposal.questions,
     decisions |-> IF proposal.decisions = Unsaid THEN current.decisions
                   ELSE proposal.decisions]

\* completeness_gap
Incomplete(m) == \E s \in Required : m.slots[s] = Absent

----------------------------------------------------------------------------
(* Readiness                                                               *)

SoftCompleteness == 70

Thin(slot) == slot.confidence = "explicit" /\ slot.completeness < SoftCompleteness

\* is_delegated, is_deferred: the marks the engine opens the evidence with.
Delegated(slot) ==
    slot.confidence # "empty" /\ slot.value # Blank /\ slot.evidence = "delegated"
Deferred(slot) == slot.evidence = "deferred"

Confirmed(slot) == slot.confidence = "explicit" /\ ~Thin(slot)

\* Nothing an answer would change: a test will tell, it was handed to us, the client
\* cannot say, or it is a default that is no longer asked about.
Settled(m, s) ==
    LET slot == m.slots[s]
    IN \/ slot.confidence = "testable"
       \/ Delegated(slot)
       \/ Deferred(slot)
       \/ s \notin m.questions /\ slot.confidence # "empty" /\ slot.value # Blank

ImpactOf(m, s) == IF m.slots[s] = Absent THEN DefaultImpact[s] ELSE m.slots[s].impact

\* readiness_blockers
Blockers(m) ==
    {s \in Required : /\ ImpactOf(m, s) = "high"
                      /\ \/ m.slots[s] = Absent
                         \/ ~Confirmed(m.slots[s]) /\ ~Settled(m, s)}

\* Faulty variant: a slot that the session is too old to have is not probed.
UnaskedIfPresent(m) == {s \in Blockers(m) \ m.questions : m.slots[s] # Absent}

\* unasked_blockers
UnaskedBlockers(m) == Blockers(m) \ m.questions

----------------------------------------------------------------------------
(* The questions                                                           *)

\* In half percents of certainty.
KnownWeight(confidence) ==
    CASE confidence = "explicit" -> 2 [] confidence = "empty" -> 0 [] OTHER -> 1

\* information_value = uncertainty * impact, in hundredths and rounded to one.
InformationValue(m, s) ==
    LET uncertainty == IF m.slots[s] = Absent THEN 200
                       ELSE 200 - m.slots[s].completeness * KnownWeight(m.slots[s].confidence)
    IN (uncertainty * (Rank(ImpactOf(m, s)) + 1) + 3) \div 6

\* The engine's questions, but those the client delegated or cannot answer.
StillAsked(m) ==
    {s \in m.questions :
        m.slots[s] # Absent => ~Delegated(m.slots[s]) /\ ~Deferred(m.slots[s])}

\* ranked_questions: with a probe for each blocker that the engine left unasked, by
\* information value and then the engine's own before the probes, capped.  The engine's
\* order among its own is free: it is the schema's here.
RankedQuestions(m) ==
    LET probes == UnaskedBlockers(m)
        candidates == StillAsked(m) \cup probes
        Key(s) == <<-InformationValue(m, s), IF s \in probes THEN 1 ELSE 0, Order[s]>>
        Before(a, b) == \/ Key(a)[1] < Key(b)[1]
                        \/ Key(a)[1] = Key(b)[1] /\ Key(a)[2] < Key(b)[2]
                        \/ Key(a)[1] = Key(b)[1] /\ Key(a)[2] = Key(b)[2] /\ Key(a)[3] < Key(b)[3]
    IN {s \in candidates : Cardinality({t \in candidates : Before(t, s)}) < MaxQuestions}

----------------------------------------------------------------------------
(* Evidence since derivation                                               *)

Frozen(m) == [slots |-> m.slots, decisions |-> m.decisions]

\* The slots of d that were thin in one model and are explicit in the other.
Thickened(d, then, now) ==
    {s \in DerivedFrom[d] :
        /\ then.slots[s] # Absent /\ now.slots[s] # Absent
        /\ then.slots[s].confidence # "explicit"
        /\ now.slots[s].confidence = "explicit"}

\* The revisions the walk reads: up to the first that cannot be read.
Readable(history) == {n \in 1..Len(history) : \A k \in 1..n : history[k] # Unreadable}

\* Faulty variant: derived at the revision before the current one.
DerivedLately(d, history) ==
    {n \in Readable(history) : n >= Len(history) - 1 /\ d \in history[n].decisions
                               /\ \A k \in Readable(history) :
                                     k >= Len(history) - 1 /\ k < n => d \notin history[k].decisions}

\* The earliest revision carrying the decision, if the walk gets there.
DerivedAt(d, history) ==
    {n \in Readable(history) : /\ d \in history[n].decisions
                               /\ \A k \in 1..n - 1 : d \notin history[k].decisions}

\* SessionService.thinner_evidence: flagged, not known, or clean.
Review(d, history, now) ==
    LET at == DerivedAt(d, history)
        then == IF at = {} THEN now ELSE history[CHOOSE n \in at : TRUE]
        lacking == {s \in DerivedFrom[d] : then.slots[s] = Absent \/ now.slots[s] = Absent}
    IN IF at = {} \/ DerivedFrom[d] = {} THEN "unknown"
       ELSE IF Thickened(d, then, now) # {} THEN "flagged"
       ELSE IF lacking # {} THEN "unknown" ELSE "clean"
=============================================================================
