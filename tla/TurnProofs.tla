----------------------------- MODULE TurnProofs -----------------------------
(***************************************************************************)
(* Proofs about Readiness and Turn, for any slots, impacts, decisions,     *)
(* caps on the questions and engine.                                       *)
(***************************************************************************)
EXTENDS Turn, FiniteSetTheorems, SequenceTheorems, WellFoundedInduction, TLAPS

----------------------------------------------------------------------------
(* What a proposal makes of a slot                                         *)

LEMMA SettledSlot ==
    ASSUME NEW stated \in Slot, NEW established \in Slot \cup {Absent}
    PROVE  /\ SettleEvidence(stated, established) \in Slot
           /\ SettleEvidence(stated, established).completeness = stated.completeness
           /\ SettleEvidence(stated, established).confidence = stated.confidence
           /\ SettleEvidence(stated, established).impact = stated.impact
           /\ SettleEvidence(stated, established).value = stated.value
    BY DEF SettleEvidence, Slot, Evidences

\* What was settled against the model before is settled against it for good.
LEMMA SettledOnce ==
    ASSUME NEW stated \in Slot, NEW established \in Slot \cup {Absent}
    PROVE  SettleEvidence(SettleEvidence(stated, established), established)
               = SettleEvidence(stated, established)
<1> DEFINE prior == IF established = Absent THEN "none" ELSE established.evidence
<1>1. prior \in Evidences
    BY DEF Slot, Evidences
<1>2. CASE SettleEvidence(stated, established) = stated
    BY <1>2
<1>3. CASE SettleEvidence(stated, established) = [stated EXCEPT !.evidence = prior]
  <2> DEFINE kept == [stated EXCEPT !.evidence = prior]
  <2>1. kept \in Slot /\ kept.evidence = prior
      BY <1>1 DEF Slot
  <2>2. [kept EXCEPT !.evidence = prior] = kept
      BY <2>1 DEF Slot
  <2>3. SettleEvidence(kept, established) = kept
      BY <2>2 DEF SettleEvidence
  <2> QED
      BY <1>3, <2>3
<1> QED
    BY <1>2, <1>3 DEF SettleEvidence

LEMMA ProposedSlot ==
    ASSUME NEW p \in Proposals, NEW s \in Slots
    PROVE  p.slots[s] \in Slot \cup {Absent}
    BY TurnAssumption DEF TurnAssumption, Proposals

LEMMA ResolvedSlot ==
    ASSUME NEW p \in Proposals, NEW m \in Models, NEW s \in Slots
    PROVE  /\ m.slots[s] \in Slot \cup {Absent}
           /\ Resolve(p, m).slots[s] \in Slot \cup {Absent}
           /\ Resolve(p, m).slots[s] = IF p.slots[s] = Absent THEN m.slots[s]
                                       ELSE SettleEvidence(p.slots[s], m.slots[s])
           /\ m.slots[s] # Absent => Resolve(p, m).slots[s] # Absent
<1>1. m.slots[s] \in Slot \cup {Absent}
    BY DEF Models
<1>2. Resolve(p, m).slots[s] = IF p.slots[s] = Absent THEN m.slots[s]
                               ELSE SettleEvidence(p.slots[s], m.slots[s])
    BY DEF Resolve
<1> QED
    BY <1>1, <1>2, ProposedSlot, SettledSlot, MarksAssumption DEF MarksAssumption

LEMMA ResolvedModel ==
    ASSUME NEW p \in Proposals, NEW m \in Models
    PROVE  Resolve(p, m) \in Models
<1>1. Resolve(p, m).questions \in SUBSET Slots
    BY DEF Resolve, Proposals
<1>2. Resolve(p, m).decisions \in SUBSET Decisions
    BY DEF Resolve, Proposals, Models
<1>3. Resolve(p, m).slots \in [Slots -> Slot \cup {Absent}]
  <2>1. \A s \in Slots : Resolve(p, m).slots[s] \in Slot \cup {Absent}
      BY ResolvedSlot
  <2> QED
      BY <2>1 DEF Resolve
<1> QED
    BY <1>1, <1>2, <1>3 DEF Resolve, Models

\* What update_model makes of the slots that moved is the model they were taken from.
LEMMA AppliedIsReasoned ==
    ASSUME out \in Models, NEW p \in Proposals
    PROVE  Applied(Resolve(p, out)) = Resolve(p, out)
<1> DEFINE new == Resolve(p, out)
           sent == [new EXCEPT !.slots = [s \in Slots |->
                       IF s \in Moved(new, out) THEN new.slots[s] ELSE Absent]]
<1>1. new \in Models
    BY ResolvedModel
<1>2. /\ sent.questions = new.questions /\ sent.decisions = new.decisions
      /\ \A s \in Slots : sent.slots[s] = IF s \in Moved(new, out) THEN new.slots[s] ELSE Absent
    BY <1>1 DEF Models
<1>3. sent.decisions # Unsaid
    BY <1>1, <1>2, MarksAssumption DEF MarksAssumption, Models
<1>4. ASSUME NEW s \in Slots PROVE Resolve(sent, out).slots[s] = new.slots[s]
  <2>1. Resolve(sent, out).slots[s] = IF sent.slots[s] = Absent THEN out.slots[s]
                                      ELSE SettleEvidence(sent.slots[s], out.slots[s])
      BY DEF Resolve
  <2>2. CASE s \in Moved(new, out)
    <3>1. /\ p.slots[s] # Absent /\ p.slots[s] \in Slot
          /\ new.slots[s] = SettleEvidence(p.slots[s], out.slots[s])
        BY <2>2, ResolvedSlot, ProposedSlot DEF Moved
    <3>2. out.slots[s] \in Slot \cup {Absent}
        BY ResolvedSlot
    <3>3. new.slots[s] # Absent
        BY <3>1, <3>2, SettledSlot, MarksAssumption DEF MarksAssumption
    <3> QED
        BY <1>2, <2>1, <2>2, <3>1, <3>2, <3>3, SettledOnce
  <2>3. CASE s \notin Moved(new, out)
      BY <1>2, <2>1, <2>3 DEF Moved
  <2> QED
      BY <2>2, <2>3
<1>5. Resolve(sent, out).slots = new.slots
  <2>1. Resolve(sent, out).slots = [s \in Slots |-> Resolve(sent, out).slots[s]]
      BY DEF Resolve
  <2>2. new.slots = [s \in Slots |-> new.slots[s]]
      BY <1>1 DEF Models
  <2> QED
      BY <1>4, <2>1, <2>2
<1>6. Resolve(sent, out).questions = new.questions /\ Resolve(sent, out).decisions = new.decisions
    BY <1>2, <1>3 DEF Resolve
<1>7. Resolve(sent, out) = [slots |-> new.slots, questions |-> new.questions,
                            decisions |-> new.decisions]
    BY <1>5, <1>6 DEF Resolve
<1>8. new = [slots |-> new.slots, questions |-> new.questions, decisions |-> new.decisions]
    BY <1>1 DEF Models
<1> QED
    BY <1>7, <1>8 DEF Applied

----------------------------------------------------------------------------
(* What blocks is asked about                                              *)

LEMMA LeastNatural ==
    ASSUME NEW T, T \subseteq Nat, T # {}
    PROVE  \E x \in T : \A y \in T : x <= y
<1>1. PICK x \in T : \A y \in T : <<y, x>> \notin OpToRel(<, Nat)
    BY NatLessThanWellFounded, WFMin
<1>2. \A y \in T : ~(y < x)
    BY <1>1 DEF OpToRel
<1> QED
    BY <1>2

LEMMA ValueIsAPercentage ==
    ASSUME NEW m \in Models, NEW s \in Slots
    PROVE  InformationValue(m, s) \in 0..100
<1>1. m.slots[s] \in Slot \cup {Absent}
    BY DEF Models
<1>2. ImpactOf(m, s) \in Impacts
    BY <1>1, ReadinessAssumption DEF ReadinessAssumption, ImpactOf, Slot, Impacts
<1>3. Rank(ImpactOf(m, s)) \in 0..2
    BY <1>2 DEF Rank, Impacts
<1> DEFINE uncertainty == IF m.slots[s] = Absent THEN 200
               ELSE 200 - m.slots[s].completeness * KnownWeight(m.slots[s].confidence)
<1>4. uncertainty \in 0..200
  <2>1. CASE m.slots[s] = Absent
      BY <2>1
  <2>2. CASE m.slots[s] # Absent
    <3>1. m.slots[s].completeness \in 0..100
        BY <1>1, <2>2 DEF Slot
    <3>2. KnownWeight(m.slots[s].confidence) \in {0, 1, 2}
        BY DEF KnownWeight
    <3>3. m.slots[s].completeness * KnownWeight(m.slots[s].confidence) \in 0..200
        BY <3>1, <3>2
    <3> QED
        BY <2>2, <3>3
  <2> QED
      BY <2>1, <2>2
<1> HIDE DEF uncertainty
<1>5. uncertainty * (Rank(ImpactOf(m, s)) + 1) \in 0..600
    BY <1>3, <1>4
<1>6. (uncertainty * (Rank(ImpactOf(m, s)) + 1) + 3) \div 6 \in 0..100
    BY <1>5
<1> QED
    BY <1>6 DEF InformationValue, uncertainty

Candidates(m) == StillAsked(m) \cup UnaskedBlockers(m)

LEMMA CandidatesAreSlots ==
    ASSUME NEW m \in Models
    PROVE  Candidates(m) \subseteq Slots /\ RankedQuestions(m) \subseteq Candidates(m)
    BY ReadinessAssumption
    DEF ReadinessAssumption, Models, Candidates, StillAsked, UnaskedBlockers, Blockers,
        RankedQuestions

\* However the questions are ordered and capped, one of them comes first.
LEMMA SomethingIsAsked ==
    ASSUME NEW m \in Models, Candidates(m) # {}
    PROVE  RankedQuestions(m) # {}
<1> DEFINE probes == UnaskedBlockers(m)
           value(s) == InformationValue(m, s)
           side(s) == IF s \in probes THEN 1 ELSE 0
           ahead(a, b) == \/ -value(a) < -value(b)
                          \/ -value(a) = -value(b) /\ side(a) < side(b)
                          \/ -value(a) = -value(b) /\ side(a) = side(b) /\ Order[a] < Order[b]
<1>1. \A s \in Candidates(m) : value(s) \in 0..100 /\ side(s) \in 0..1 /\ Order[s] \in Nat
    BY CandidatesAreSlots, ValueIsAPercentage, ReadinessAssumption DEF ReadinessAssumption
<1>2. PICK first \in Candidates(m) : \A t \in Candidates(m) : ~ahead(t, first)
  <2>1. PICK a \in Candidates(m) : \A t \in Candidates(m) : value(t) <= value(a)
    <3> DEFINE gaps == {100 - value(s) : s \in Candidates(m)}
    <3> HIDE DEF value
    <3>1. gaps \subseteq Nat /\ gaps # {}
        BY <1>1
    <3>2. PICK x \in gaps : \A y \in gaps : x <= y
        BY <3>1, LeastNatural
    <3>3. PICK a \in Candidates(m) : x = 100 - value(a)
        BY <3>2
    <3>4. \A t \in Candidates(m) : 100 - value(a) <= 100 - value(t)
        BY <3>2, <3>3
    <3> QED
        BY <1>1, <3>4
  <2> DEFINE best == {s \in Candidates(m) : value(s) = value(a)}
  <2>2. PICK b \in best : \A t \in best : side(b) <= side(t)
    <3>1. CASE \E s \in best : side(s) = 0
        BY <1>1, <3>1
    <3>2. CASE \A s \in best : side(s) # 0
        BY <1>1, <3>2
    <3> QED
        BY <3>1, <3>2
  <2> DEFINE places == {Order[s] : s \in {t \in best : side(t) = side(b)}}
  <2> HIDE DEF value, side
  <2>3. places \subseteq Nat /\ places # {}
      BY <1>1, <2>2
  <2>4. PICK x \in places : \A y \in places : x <= y
      BY <2>3, LeastNatural
  <2>5. PICK c \in best : side(c) = side(b) /\ Order[c] = x
      BY <2>4
  <2>6. \A t \in best : side(t) = side(b) => Order[c] <= Order[t]
      BY <2>4, <2>5
  <2>7. ASSUME NEW t \in Candidates(m) PROVE ~ahead(t, c)
      BY <1>1, <2>1, <2>2, <2>5, <2>6
  <2> QED
      BY <2>5, <2>7
<1>3. {t \in Candidates(m) : ahead(t, first)} = {}
    BY <1>2
<1>4. Cardinality({t \in Candidates(m) : ahead(t, first)}) < MaxQuestions
  <2>1. Cardinality({}) < MaxQuestions
      BY FS_EmptySet, ReadinessAssumption DEF ReadinessAssumption
  <2> HIDE DEF ahead
  <2> QED
      BY <1>3, <2>1
<1>5. RankedQuestions(m)
          = {s \in Candidates(m) : Cardinality({t \in Candidates(m) : ahead(t, s)}) < MaxQuestions}
    BY DEF RankedQuestions, Candidates
<1> QED
    BY <1>4, <1>5

\* A blocker is asked about, by the engine or by a probe of its own.
LEMMA BlockersAsk ==
    ASSUME NEW m \in Models, Blockers(m) # {}
    PROVE  RankedQuestions(m) # {}
<1>1. PICK s \in Blockers(m) : TRUE
    OBVIOUS
<1>2. CASE s \notin m.questions
    BY <1>2, SomethingIsAsked DEF Candidates, UnaskedBlockers
<1>3. CASE s \in m.questions
  <2>1. m.slots[s] # Absent => ~Delegated(m.slots[s]) /\ ~Deferred(m.slots[s])
      BY DEF Blockers, Settled
  <2> QED
      BY <1>3, <2>1, SomethingIsAsked DEF Candidates, StillAsked
<1> QED
    BY <1>2, <1>3

----------------------------------------------------------------------------
(* The inductive invariant                                                 *)

\* Between the calls the model at hand is the one that was reasoned last.
Agreed == step \in {"idle", "checkpoint", "limit"} => out = reasoned

Closed == step = "converged" => RankedQuestions(out) = {}

\* A draft has no session yet, and an answer has room for its revision.
Unsaved ==
    /\ step \in {"drafting", "checkpoint"} /\ verb = "discover" => history = <<>>
    /\ step = "drafting" /\ verb = "run" => Len(history) < MaxRev

IInv == TypeOK /\ Agreed /\ Closed /\ Unsaved

LEMMA FrozenIsOne == \A m \in Models : Frozen(m) \in Frozens
    BY DEF Models, Frozen, Frozens

LEMMA NoModelIsOne == NoModel \in Models
    BY DEF NoModel, Models

THEOREM TurnStart == Init => IInv
<1> SUFFICES ASSUME Init PROVE IInv
    OBVIOUS
<1>1. out \in Models
    BY NoModelIsOne, TurnAssumption DEF TurnAssumption, Init
<1>2. history \in Seq(Frozens \cup {Unreadable}) /\ Len(history) <= 1
  <2>1. CASE history = <<>>
      BY <2>1
  <2>2. CASE history = <<Frozen(out)>>
    <3>1. Frozen(out) \in Frozens \cup {Unreadable}
        BY <1>1, FrozenIsOne
    <3> QED
        BY <2>2, <3>1
  <2> QED
      BY <2>1, <2>2 DEF Init
<1>3. TypeOK
    BY <1>1, <1>2, TurnAssumption DEF TurnAssumption, Init, TypeOK, Steps
<1>4. Agreed /\ Closed /\ Unsaved
    BY DEF Init, Agreed, Closed, Unsaved
<1> QED
    BY <1>3, <1>4 DEF IInv

LEMMA SavedHistory ==
    ASSUME IInv, Len(history) < MaxRev, NEW m \in Models
    PROVE  /\ Append(history, Frozen(m)) \in Seq(Frozens \cup {Unreadable})
           /\ Len(Append(history, Frozen(m))) = Len(history) + 1
           /\ Len(Append(history, Frozen(m))) <= MaxRev
    BY FrozenIsOne, TurnAssumption DEF TurnAssumption, IInv, TypeOK

\* The end of a loop saves the draft of discover, and nothing else.
LEMMA EndHistory ==
    ASSUME IInv, NEW how \in Ends, End(how), step \in {"drafting", "checkpoint"}
    PROVE  /\ history' \in Seq(Frozens \cup {Unreadable}) /\ Len(history') <= MaxRev
           /\ step' = how /\ turn' = 0 /\ attempts' = 0 /\ nudged' = "no"
<1>1. CASE verb = "discover" /\ out # NoModel
  <2>1. history = <<>> /\ Len(history) < MaxRev
      BY <1>1, TurnAssumption DEF TurnAssumption, IInv, Unsaved
  <2>2. history' = Append(history, Frozen(out))
      BY <1>1 DEF End, Save
  <2> QED
      BY <2>1, <2>2, SavedHistory DEF IInv, TypeOK, End
<1>2. CASE ~(verb = "discover" /\ out # NoModel)
    BY <1>2 DEF End, Save, IInv, TypeOK
<1> QED
    BY <1>1, <1>2

----------------------------------------------------------------------------
(* The steps of a conversation                                             *)

LEMMA DiscoverKeeps == IInv /\ Discover => IInv'
<1> SUFFICES ASSUME IInv, Discover PROVE IInv'
    OBVIOUS
<1>1. TypeOK'
    BY TurnAssumption DEF TurnAssumption, Discover, Call, IInv, TypeOK, Steps
<1>2. Agreed' /\ Closed' /\ Unsaved'
    BY DEF Discover, Call, Agreed, Closed, Unsaved
<1> QED
    BY <1>1, <1>2 DEF IInv

LEMMA ResumeKeeps == IInv /\ Resume => IInv'
<1> SUFFICES ASSUME IInv, Resume PROVE IInv'
    OBVIOUS
<1>1. TypeOK'
    BY TurnAssumption DEF TurnAssumption, Resume, IInv, TypeOK, Steps
<1>2. Agreed' /\ Closed' /\ Unsaved'
    BY DEF Resume, IInv, Agreed, Closed, Unsaved
<1> QED
    BY <1>1, <1>2 DEF IInv

LEMMA DamageKeeps == IInv /\ Damage => IInv'
<1> SUFFICES ASSUME IInv, Damage PROVE IInv'
    OBVIOUS
<1>1. history' \in Seq(Frozens \cup {Unreadable}) /\ Len(history') = Len(history)
    BY DEF Damage, IInv, TypeOK
<1>2. TypeOK'
    BY <1>1 DEF Damage, IInv, TypeOK
<1>3. Agreed' /\ Closed' /\ Unsaved'
    BY DEF Damage, IInv, Agreed, Closed, Unsaved
<1> QED
    BY <1>2, <1>3 DEF IInv

LEMMA AgainKeeps == IInv /\ (Malformed \/ Nudge) => IInv'
<1> SUFFICES ASSUME IInv, Malformed \/ Nudge PROVE IInv'
    OBVIOUS
<1>1. /\ step = "drafting" /\ attempts < Retries /\ attempts' = attempts + 1
      /\ nudged' \in {nudged, "yes"}
      /\ UNCHANGED <<out, history, step, verb, turn, pending, reasoned>>
    BY DEF Malformed, Nudge, Again
<1>2. TypeOK'
    BY <1>1, TurnAssumption DEF TurnAssumption, IInv, TypeOK
<1>3. Agreed' /\ Closed' /\ Unsaved'
    BY <1>1 DEF IInv, Agreed, Closed, Unsaved
<1> QED
    BY <1>2, <1>3 DEF IInv

\* A loop that ends leaves the model as it was.
LEMMA EndKeeps ==
    ASSUME IInv, NEW how \in Ends, End(how), step \in {"drafting", "checkpoint"},
           UNCHANGED <<out, verb, reasoned>>, pending' \in SUBSET Slots,
           how = "limit" => step = "checkpoint",
           how = "converged" => RankedQuestions(out) = {}
    PROVE  IInv'
<1>1. TypeOK'
    BY EndHistory, TurnAssumption DEF TurnAssumption, IInv, TypeOK, Ends, Steps
<1>2. Agreed' /\ Closed' /\ Unsaved'
    BY EndHistory DEF IInv, Agreed, Closed, Unsaved, Ends
<1> QED
    BY <1>1, <1>2 DEF IInv

LEMMA ToldAreSlots == IInv => RankedQuestions(out) \subseteq Slots
    BY CandidatesAreSlots DEF IInv, TypeOK

LEMMA LoopEndsKeep == IInv /\ (Fail \/ Converge \/ Stop \/ TellLast) => IInv'
<1> SUFFICES ASSUME IInv, Fail \/ Converge \/ Stop \/ TellLast PROVE IInv'
    OBVIOUS
<1>1. CASE Fail
    BY <1>1, EndKeeps DEF Fail, Ends, IInv, TypeOK
<1>2. CASE Converge
    BY <1>2, EndKeeps DEF Converge, Ends, IInv, TypeOK
<1>3. CASE Stop
  <2>1. pending' \in SUBSET Slots
      BY <1>3, ToldAreSlots DEF Stop
  <2> QED
      BY <1>3, <2>1, EndKeeps DEF Stop, Ends
<1>4. CASE TellLast
  <2>1. pending' \in SUBSET Slots
      BY <1>4, ToldAreSlots DEF TellLast, Told
  <2> QED
      BY <1>4, <2>1, EndKeeps DEF TellLast, Ends
<1> QED
    BY <1>1, <1>2, <1>3, <1>4

LEMMA TellKeeps == IInv /\ Tell => IInv'
<1> SUFFICES ASSUME IInv, Tell PROVE IInv'
    OBVIOUS
<1>1. pending' \in SUBSET Slots
    BY ToldAreSlots DEF Tell, Told
<1>2. turn' \in 0..MaxTurns
    BY TurnAssumption DEF TurnAssumption, Tell, IInv, TypeOK
<1>3. TypeOK'
    BY <1>1, <1>2, TurnAssumption DEF TurnAssumption, Tell, Call, IInv, TypeOK, Steps
<1>4. Agreed' /\ Closed' /\ Unsaved'
    BY DEF Tell, Call, IInv, Agreed, Closed, Unsaved
<1> QED
    BY <1>3, <1>4 DEF IInv

LEMMA ReturnKeeps == IInv /\ Return => IInv'
<1> SUFFICES ASSUME IInv, Return PROVE IInv'
    OBVIOUS
<1>1. TypeOK'
    BY DEF Return, IInv, TypeOK, Steps
<1>2. Agreed' /\ Closed' /\ Unsaved'
    BY DEF Return, Agreed, Closed, Unsaved
<1> QED
    BY <1>1, <1>2 DEF IInv

\* A reply that is taken: the model is the one that the provider returned.
LEMMA ReplyTakes ==
    ASSUME IInv, Reply
    PROVE  \E p \in Proposals :
               /\ out' = Resolve(p, out) /\ reasoned' = Resolve(p, out)
               /\ IF verb = "discover" THEN UNCHANGED history
                  ELSE history' = Append(history, Frozen(out'))
<1>1. PICK p \in Proposals :
          /\ reasoned' = Resolve(p, out)
          /\ IF verb = "discover"
             THEN out' = Resolve(p, out) /\ UNCHANGED history
             ELSE /\ out' = Applied(Resolve(p, out))
                  /\ history' = Append(history, Frozen(Applied(Resolve(p, out))))
    BY DEF Reply
<1>2. Applied(Resolve(p, out)) = Resolve(p, out)
    BY AppliedIsReasoned DEF IInv, TypeOK
<1> QED
    BY <1>1, <1>2

LEMMA ReplyKeeps == IInv /\ Reply => IInv'
<1> SUFFICES ASSUME IInv, Reply PROVE IInv'
    OBVIOUS
<1>1. PICK p \in Proposals :
          /\ out' = Resolve(p, out) /\ reasoned' = Resolve(p, out)
          /\ IF verb = "discover" THEN UNCHANGED history
             ELSE history' = Append(history, Frozen(out'))
    BY ReplyTakes
<1>2. out' \in Models /\ reasoned' \in Models
    BY <1>1, ResolvedModel DEF IInv, TypeOK
<1>3. history' \in Seq(Frozens \cup {Unreadable}) /\ Len(history') <= MaxRev
  <2>1. CASE verb = "discover"
      BY <1>1, <2>1 DEF IInv, TypeOK
  <2>2. CASE verb # "discover"
    <3>1. Len(history) < MaxRev
        BY <2>2 DEF Reply, IInv, TypeOK, Unsaved
    <3> QED
        BY <1>1, <1>2, <2>2, <3>1, SavedHistory
  <2> QED
      BY <2>1, <2>2
<1>4. /\ step' \in {"limit", "checkpoint"} /\ turn' \in 0..MaxTurns
      /\ attempts' = 0 /\ nudged' = "no" /\ pending' = {} /\ verb' = verb
    BY TurnAssumption DEF TurnAssumption, Reply, IInv, TypeOK
<1>5. TypeOK'
    BY <1>2, <1>3, <1>4, TurnAssumption DEF TurnAssumption, IInv, TypeOK, Steps
<1>6. Agreed' /\ Closed'
    BY <1>1, <1>4 DEF Agreed, Closed
<1>7. Unsaved'
    BY <1>1, <1>4 DEF Reply, IInv, Unsaved
<1> QED
    BY <1>5, <1>6, <1>7 DEF IInv

LEMMA StutterKeeps == IInv /\ UNCHANGED vars => IInv'
    BY DEF vars, IInv, TypeOK, Agreed, Closed, Unsaved

LEMMA NextKeeps == IInv /\ [Next]_vars => IInv'
    BY DiscoverKeeps, ResumeKeeps, DamageKeeps, AgainKeeps, LoopEndsKeep, TellKeeps,
       ReturnKeeps, ReplyKeeps, StutterKeeps
    DEF Next

----------------------------------------------------------------------------
(* What the conversation promises                                          *)

\* The loop of cli.py carries the model that the provider reasoned, has asked nothing
\* when it converges, and holds an unsaved draft in `discover` alone.
THEOREM TurnInvariant == Spec => []IInv
<1>1. Init => IInv
    BY TurnStart
<1>2. IInv /\ [Next]_vars => IInv'
    BY NextKeeps
<1> QED
    BY <1>1, <1>2, PTL DEF Spec

\* The variables of the conversation keep their types, whatever the engine replies.
THEOREM TurnTypes == Spec => []TypeOK
<1>1. IInv => TypeOK
    BY DEF IInv
<1> QED
    BY <1>1, TurnInvariant, PTL

\* readiness_blockers and ranked_questions never disagree: what is not ready has a
\* question to ask, whatever the schema, the impacts and the cap on the questions.
THEOREM TurnNotReadyAsks == Spec => []NotReadyAsks
<1>1. IInv => NotReadyAsks
    BY BlockersAsk DEF IInv, TypeOK, Closed, NotReadyAsks
<1> QED
    BY <1>1, TurnInvariant, PTL

\* The revision that update_model makes of the slots sent to it is the model that the
\* provider resolved.
THEOREM TurnAppliesWhatItReasoned == Spec => []AppliesWhatItReasoned
<1>1. IInv => AppliesWhatItReasoned
    BY DEF IInv, Agreed, AppliesWhatItReasoned
<1> QED
    BY <1>1, TurnInvariant, PTL

LEMMA OnlyRepliesMoveTheModel == [Next]_vars /\ ~Reply => UNCHANGED out
    BY DEF Next, vars, Discover, Resume, Damage, Malformed, Nudge, Fail, Converge, Stop,
           Tell, TellLast, Return

\* A turn that brings no words of the client's leaves the mark of the slot on it.
LEMMA MarkStands ==
    ASSUME NEW p \in Proposals, NEW m \in Models, NEW s \in Slots,
           m.slots[s] # Absent,
           m.slots[s].evidence \in {"delegated", "deferred"},
           Resolve(p, m).slots[s].evidence # "quote"
    PROVE  Resolve(p, m).slots[s].evidence \in {"delegated", "deferred"}
<1>1. CASE p.slots[s] = Absent
    BY <1>1, ResolvedSlot
<1>2. CASE p.slots[s] # Absent
  <2>1. /\ p.slots[s] \in Slot /\ m.slots[s] \in Slot
        /\ Resolve(p, m).slots[s] = SettleEvidence(p.slots[s], m.slots[s])
      BY <1>2, ResolvedSlot, ProposedSlot
  <2> QED
      BY <2>1 DEF SettleEvidence, Slot, Evidences
<1> QED
    BY <1>1, <1>2

LEMMA MarkedIsNotAsked ==
    ASSUME NEW m \in Models, NEW s \in Slots, m.slots[s] # Absent,
           Delegated(m.slots[s]) \/ Deferred(m.slots[s])
    PROVE  s \notin RankedQuestions(m)
<1>1. s \notin StillAsked(m)
    BY DEF StillAsked
<1>2. s \notin UnaskedBlockers(m)
    BY DEF UnaskedBlockers, Blockers, Settled
<1> QED
    BY <1>1, <1>2, CandidatesAreSlots DEF Candidates

\* The client is not asked again for what was handed over or set aside.
THEOREM TurnNeverAsksAgain == Spec => NeverAskedAgain
<1> DEFINE Stays ==
      \A s \in Slots :
          LET before == out.slots[s]
              after == out'.slots[s]
          IN /\ before # Absent /\ after # Absent
             /\ Deferred(before) \/ Delegated(before)
             /\ after.evidence # "quote"
             /\ after.evidence = "delegated" => after.confidence # "empty" /\ after.value # Blank
             => s \notin RankedQuestions(out')
<1>1. ASSUME IInv, [Next]_vars PROVE [Stays]_out
  <2>1. CASE ~Reply
      BY <1>1, <2>1, OnlyRepliesMoveTheModel
  <2>2. CASE Reply
    <3>1. PICK p \in Proposals : out' = Resolve(p, out)
        BY <1>1, <2>2, ReplyTakes
    <3>2. out \in Models /\ out' \in Models
        BY <1>1, <3>1, ResolvedModel DEF IInv, TypeOK
    <3>3. SUFFICES ASSUME NEW s \in Slots,
                          out.slots[s] # Absent, out'.slots[s] # Absent,
                          Deferred(out.slots[s]) \/ Delegated(out.slots[s]),
                          out'.slots[s].evidence # "quote",
                          out'.slots[s].evidence = "delegated" =>
                              out'.slots[s].confidence # "empty" /\ out'.slots[s].value # Blank
                   PROVE  s \notin RankedQuestions(out')
        OBVIOUS
    <3>4. out.slots[s].evidence \in {"delegated", "deferred"}
        BY <3>3 DEF Deferred, Delegated
    <3>5. out'.slots[s].evidence \in {"delegated", "deferred"}
        BY <3>1, <3>2, <3>3, <3>4, MarkStands
    <3>6. Delegated(out'.slots[s]) \/ Deferred(out'.slots[s])
        BY <3>3, <3>5 DEF Delegated, Deferred
    <3> QED
        BY <3>2, <3>3, <3>6, MarkedIsNotAsked
  <2> QED
      BY <2>1, <2>2
<1> QED
    BY <1>1, TurnInvariant, PTL DEF Spec, NeverAskedAgain

\* A revision lands after those there are, and no slot is lost by it.
LEMMA RevisionsAreAppended ==
    ASSUME IInv, [Next]_vars, Len(history') = Len(history) + 1
    PROVE  /\ \E frozen \in Frozens : history' = Append(history, frozen)
           /\ \A s \in Slots : out.slots[s] # Absent => out'.slots[s] # Absent
<1>1. CASE Reply
  <2>1. PICK p \in Proposals :
            /\ out' = Resolve(p, out)
            /\ IF verb = "discover" THEN UNCHANGED history
               ELSE history' = Append(history, Frozen(out'))
      BY <1>1, ReplyTakes
  <2>2. out \in Models /\ out' \in Models
      BY <2>1, ResolvedModel DEF IInv, TypeOK
  <2>3. verb # "discover"
      BY <2>1 DEF IInv, TypeOK
  <2>4. Frozen(out') \in Frozens
      BY <2>2, FrozenIsOne
  <2> QED
      BY <2>1, <2>2, <2>3, <2>4, ResolvedSlot
<1>2. CASE ~Reply
  <2>1. UNCHANGED out
      BY <1>2, OnlyRepliesMoveTheModel
  <2>2. CASE Fail \/ Converge \/ Stop \/ TellLast
    <3>1. UNCHANGED history \/ history' = Append(history, Frozen(out))
        BY <2>2 DEF Fail, Converge, Stop, TellLast, End, Save
    <3>2. Len(history) \in Nat
        BY DEF IInv, TypeOK
    <3>3. Frozen(out) \in Frozens
        BY FrozenIsOne DEF IInv, TypeOK
    <3> QED
        BY <2>1, <3>1, <3>2, <3>3
  <2>3. CASE ~(Fail \/ Converge \/ Stop \/ TellLast)
    <3>1. UNCHANGED history \/ Damage
        BY <1>2, <2>3 DEF Next, vars, Discover, Resume, Malformed, Nudge, Tell, Return
    <3>2. Len(history') = Len(history) /\ Len(history) \in Nat
        BY <3>1 DEF Damage, IInv, TypeOK
    <3> QED
        BY <3>2
  <2> QED
      BY <2>2, <2>3
<1> QED
    BY <1>1, <1>2

\* The walk finds the revision that a decision was derived at, and finds it still
\* when another revision has landed.
LEMMA DerivedOnce ==
    ASSUME NEW d, NEW walk \in Seq(Frozens \cup {Unreadable}), NEW n \in DerivedAt(d, walk)
    PROVE  DerivedAt(d, walk) = {n}
<1>1. \A k \in DerivedAt(d, walk) : k \in 1..Len(walk) /\ d \in walk[k].decisions
    BY DEF DerivedAt, Readable
<1>2. \A j, k \in DerivedAt(d, walk) : ~(j < k)
    BY <1>1 DEF DerivedAt
<1> QED
    BY <1>1, <1>2

LEMMA DerivedForGood ==
    ASSUME NEW d, NEW walk \in Seq(Frozens \cup {Unreadable}), NEW n \in DerivedAt(d, walk),
           NEW frozen \in Frozens
    PROVE  /\ DerivedAt(d, Append(walk, frozen)) = {n}
           /\ Append(walk, frozen)[n] = walk[n]
<1> DEFINE longer == Append(walk, frozen)
<1>1. /\ longer \in Seq(Frozens \cup {Unreadable}) /\ Len(longer) = Len(walk) + 1
      /\ \A k \in 1..Len(walk) : longer[k] = walk[k]
    OBVIOUS
<1>2. n \in 1..Len(walk) /\ (\A k \in 1..n : walk[k] # Unreadable)
    BY DEF DerivedAt, Readable
<1>3. d \in walk[n].decisions /\ (\A k \in 1..n - 1 : d \notin walk[k].decisions)
    BY DEF DerivedAt
<1> HIDE DEF longer
<1>4. \A k \in 1..n : k \in 1..Len(walk) /\ longer[k] = walk[k]
    BY <1>1, <1>2
<1>5. n \in DerivedAt(d, longer)
    BY <1>1, <1>2, <1>3, <1>4 DEF DerivedAt, Readable
<1>6. DerivedAt(d, longer) = {n}
    BY <1>1, <1>5, DerivedOnce
<1> QED
    BY <1>2, <1>4, <1>6 DEF longer

\* The flag of thinner_evidence stays while what it rests on stands.
THEOREM TurnStaysFlagged == Spec => StaysFlagged
<1> DEFINE Stays ==
      \A d \in Decisions :
          /\ Len(history') = Len(history) + 1
          /\ d \in out.decisions /\ d \in out'.decisions
          /\ \A s \in DerivedFrom[d] :
                 out.slots[s] # Absent /\ out.slots[s].confidence = "explicit"
                     => out'.slots[s].confidence = "explicit"
          /\ Review(d, history, out) = "flagged"
          => Review(d, history', out') = "flagged"
<1>1. ASSUME IInv, [Next]_vars PROVE Stays
  <2>1. SUFFICES ASSUME NEW d \in Decisions,
                        Len(history') = Len(history) + 1,
                        \A s \in DerivedFrom[d] :
                            out.slots[s] # Absent /\ out.slots[s].confidence = "explicit"
                                => out'.slots[s].confidence = "explicit",
                        Review(d, history, out) = "flagged"
                 PROVE  Review(d, history', out') = "flagged"
      OBVIOUS
  <2>2. DerivedFrom[d] \subseteq Slots
      BY ReadinessAssumption DEF ReadinessAssumption
  <2>3. history \in Seq(Frozens \cup {Unreadable})
      BY <1>1 DEF IInv, TypeOK
  <2>4. PICK frozen \in Frozens :
            /\ history' = Append(history, frozen)
            /\ \A s \in Slots : out.slots[s] # Absent => out'.slots[s] # Absent
      BY <1>1, <2>1, RevisionsAreAppended
  <2>5. DerivedAt(d, history) # {}
      BY <2>1 DEF Review
  <2>6. PICK n \in DerivedAt(d, history) : TRUE
      BY <2>5
  <2>7. DerivedAt(d, history) = {n}
      BY <2>3, <2>6, DerivedOnce
  <2>8. DerivedAt(d, history') = {n} /\ history'[n] = history[n]
    <3>1. DerivedAt(d, Append(history, frozen)) = {n} /\ Append(history, frozen)[n] = history[n]
        BY <2>3, <2>6, DerivedForGood
    <3> QED
        BY <2>4, <3>1
  <2>9. DerivedFrom[d] # {} /\ Thickened(d, history[n], out) # {}
      BY <2>1, <2>7 DEF Review
  <2>10. PICK s \in Thickened(d, history[n], out) : TRUE
      BY <2>9
  <2>11. s \in Thickened(d, history'[n], out')
      BY <2>1, <2>2, <2>4, <2>8, <2>10 DEF Thickened
  <2> QED
      BY <2>8, <2>9, <2>11 DEF Review
<1> QED
    BY <1>1, TurnInvariant, PTL DEF Spec, StaysFlagged
=============================================================================
