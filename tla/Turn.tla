-------------------------------- MODULE Turn --------------------------------
(***************************************************************************)
(* A conversation: the engine drafts a model, the client is asked what is  *)
(* worth asking, and the answers go into the next draft.                   *)
(* `converse` and `_resume_run` in cli.py, over `draft_turn` and `answer`  *)
(* of DiscoveryService and the provider's `run` with its retry loop.       *)
(*                                                                         *)
(* `discover` holds the draft in memory and saves it once, at the end or   *)
(* when a turn fails.  `run` on a session saves every answer as a revision *)
(* of its own.  One person works on the session here; Generation has what  *)
(* others do meanwhile.                                                    *)
(***************************************************************************)
EXTENDS Readiness

CONSTANTS Stated,   \* Stated[s]: what the engine may say of slot s
          Earlier,  \* models of sessions that exist, older slots missing
          Retries,  \* attempts of a call after the first
          MaxTurns, \* MAX_TURNS
          MaxRev    \* bound: revisions of the session

ASSUME TurnAssumption ==
    /\ Stated \in [Slots -> SUBSET Slot]
    /\ Earlier \subseteq Models
    /\ Retries \in Nat /\ MaxTurns \in Nat \ {0} /\ MaxRev \in Nat \ {0}

VARIABLES out,      \* the model the loop carries
          history,  \* history[n]: revisions/NNNN-model.json, without its questions
          step,     \* where the loop is
          verb,     \* "discover" or "run"
          turn,
          attempts, \* retries of the call so far
          nudged,   \* whether the engine was told to ask about a blocker
          pending,  \* the slots the client has answered and no draft has seen
          reasoned  \* ghost: the model as the provider returned it

vars == <<out, history, step, verb, turn, attempts, nudged, pending, reasoned>>

Frozens == [slots : [Slots -> Slot \cup {Absent}], decisions : SUBSET Decisions]

\* "limit": the loop ran out of turns; "failed": a call of the turn did.
Steps == {"idle", "drafting", "checkpoint", "converged", "stopped", "limit", "failed"}

Ends == {"converged", "stopped", "limit", "failed"}

TypeOK ==
    /\ out \in Models
    /\ history \in Seq(Frozens \cup {Unreadable})
    /\ Len(history) <= MaxRev
    /\ step \in Steps
    /\ verb \in {"discover", "run"}
    /\ turn \in 0..MaxTurns
    /\ attempts \in 0..Retries
    /\ nudged \in {"no", "yes"}
    /\ pending \subseteq Slots
    /\ reasoned \in Models

Init ==
    /\ \/ out = NoModel /\ history = <<>>
       \/ out \in Earlier /\ history = <<Frozen(out)>>
    /\ step = "idle"
    /\ verb = "discover"
    /\ turn = 0
    /\ attempts = 0 /\ nudged = "no"
    /\ pending = {}
    /\ reasoned = out

----------------------------------------------------------------------------
Call == step' = "drafting" /\ attempts' = 0 /\ nudged' = "no"

\* requivo discover: a first turn, from the request alone.
Discover ==
    /\ step = "idle" /\ history = <<>>
    /\ verb' = "discover" /\ turn' = 1
    /\ Call
    /\ UNCHANGED <<out, history, pending, reasoned>>

\* requivo run <slug>: the loop starts at the model there is.
Resume ==
    /\ step = "idle" /\ history # <<>> /\ Len(history) < MaxRev
    /\ verb' = "run" /\ turn' = 1
    /\ step' = "checkpoint"
    /\ UNCHANGED <<out, history, attempts, nudged, pending, reasoned>>

\* A revision file is damaged by hand, or is another version's.
Damage ==
    /\ step = "idle" /\ Len(history) < MaxRev
    /\ \E n \in 1..Len(history) - 1 :
          /\ \A k \in DOMAIN history : history[k] # Unreadable
          /\ history' = [history EXCEPT ![n] = Unreadable]
    /\ UNCHANGED <<out, step, verb, turn, attempts, nudged, pending, reasoned>>

----------------------------------------------------------------------------
(* The provider: a reply, judged once resolved, and asked again            *)

Proposals ==
    [slots : {f \in [Slots -> UNION {Stated[s] : s \in Slots} \cup {Absent}] :
                 \A s \in Slots : f[s] \in Stated[s] \cup {Absent}},
     questions : {qs \in SUBSET Slots : Cardinality(qs) <= MaxQuestions},
     decisions : {Unsaid} \cup SUBSET Decisions]

\* Faulty variant: one attempt too many.
AgainOnceMore == attempts <= Retries /\ attempts' = attempts + 1

Again == attempts < Retries /\ attempts' = attempts + 1

\* A draft is not saved yet: a failure saves the last one that there was, if any.
Save(m) == history' = IF m = NoModel THEN history ELSE Append(history, Frozen(m))

\* The loop is over; a reader of the session finds its last revision.
End(how) ==
    /\ step' = how
    /\ turn' = 0
    /\ attempts' = 0 /\ nudged' = "no"
    /\ IF verb = "discover" THEN Save(out) ELSE UNCHANGED history

\* A reply that does not fit the contract or leaves a slot out.
Malformed ==
    /\ step = "drafting"
    /\ Again
    /\ UNCHANGED <<out, history, step, verb, turn, nudged, pending, reasoned>>

\* A reply that leaves a blocker unasked earns one nudge, and is gone.
Nudge ==
    /\ step = "drafting" /\ nudged = "no"
    /\ \E p \in Proposals :
          ~Incomplete(Resolve(p, out)) /\ UnaskedBlockers(Resolve(p, out)) # {}
    /\ Again
    /\ nudged' = "yes"
    /\ UNCHANGED <<out, history, step, verb, turn, pending, reasoned>>

\* Retries exhausted, a transport failure, or Ctrl-C.
Fail ==
    /\ step = "drafting"
    /\ End("failed")
    /\ UNCHANGED <<out, verb, pending, reasoned>>

\* Faulty variant: what moved for a document is sent, and nothing else.
MovedForDocuments(new, old) ==
    {s \in Slots : \/ old.slots[s] = Absent /\ new.slots[s] # Absent
                   \/ old.slots[s] # Absent /\ new.slots[s] # Absent
                      /\ (~Same(new.slots[s], old.slots[s])
                            \/ new.slots[s].impact # old.slots[s].impact)}

\* The slots that answer sends on to the apply.
Moved(new, old) == {s \in Slots : new.slots[s] # old.slots[s]}

\* update_model resolves what it is sent once more.
Applied(new) ==
    Resolve([new EXCEPT !.slots = [s \in Slots |->
                IF s \in Moved(new, out) THEN new.slots[s] ELSE Absent]], out)

\* A reply that is taken: a draft is carried, an answer is applied.
Reply ==
    /\ step = "drafting"
    /\ \E p \in Proposals :
          LET new == Resolve(p, out)
          IN /\ ~Incomplete(new)
             /\ UnaskedBlockers(new) = {} \/ nudged = "yes"
             /\ reasoned' = new
             /\ IF verb = "discover"
                THEN out' = new /\ UNCHANGED history
                ELSE out' = Applied(new) /\ history' = Append(history, Frozen(Applied(new)))
    /\ IF verb = "run" /\ turn = MaxTurns
       THEN step' = "limit" /\ turn' = 0
       ELSE step' = "checkpoint" /\ turn' = IF verb = "run" THEN turn + 1 ELSE turn
    /\ attempts' = 0 /\ nudged' = "no"
    /\ pending' = {}
    /\ UNCHANGED verb

----------------------------------------------------------------------------
(* The client                                                              *)

\* Nothing is left to ask.
Converge ==
    /\ step = "checkpoint"
    /\ RankedQuestions(out) = {}
    /\ End("converged")
    /\ UNCHANGED <<out, verb, pending, reasoned>>

\* 'q' or end of input, which drops what was told before it, or every question skipped.
Stop ==
    /\ step = "checkpoint"
    /\ \E told \in SUBSET RankedQuestions(out) :
          told # RankedQuestions(out) /\ pending' = told
    /\ End("stopped")
    /\ UNCHANGED <<out, verb, reasoned>>

Told == SUBSET RankedQuestions(out) \ {{}}

\* The answers go into the next draft of converse, or the next answer of a run.
Tell ==
    /\ step = "checkpoint"
    /\ \/ verb = "discover" /\ turn < MaxTurns /\ turn' = turn + 1
       \/ verb = "run" /\ Len(history) < MaxRev /\ UNCHANGED turn
    /\ pending' \in Told
    /\ Call
    /\ UNCHANGED <<out, history, verb, reasoned>>

\* The last turn of converse asks as well, and the loop ends with it.
TellLast ==
    /\ step = "checkpoint"
    /\ verb = "discover" /\ turn = MaxTurns
    /\ pending' \in Told
    /\ End("limit")
    /\ UNCHANGED <<out, verb, reasoned>>

\* The client comes back to the session.
Return ==
    /\ step \in Ends
    /\ step' = "idle" /\ verb' = "discover"
    /\ pending' = {} /\ reasoned' = out
    /\ UNCHANGED <<out, history, turn, attempts, nudged>>

Next ==
    \/ Discover \/ Resume \/ Damage
    \/ Malformed \/ Nudge \/ Fail \/ Reply
    \/ Converge \/ Stop \/ Tell \/ TellLast \/ Return

Spec == Init /\ [][Next]_vars

----------------------------------------------------------------------------
(* Properties                                                              *)

\* A turn is never not ready with nothing to ask, and the loop that says it is
\* done has nothing that blocks: what is asked and what blocks are computed apart.
NotReadyAsks ==
    out # NoModel =>
        /\ Blockers(out) # {} => RankedQuestions(out) # {}
        /\ step = "converged" => Blockers(out) = {}

\* What the client delegated or cannot answer is asked again only when a turn brings
\* the client's own words about it, or says it was delegated and chooses nothing: not
\* by the engine, not by a probe, and not after a turn that restates the slot and
\* points backwards.
NeverAskedAgain ==
    [][\A s \in Slots :
          LET before == out.slots[s]
              after == out'.slots[s]
          IN /\ before # Absent /\ after # Absent
             /\ Deferred(before) \/ Delegated(before)
             /\ after.evidence # "quote"
             /\ after.evidence = "delegated" => after.confidence # "empty" /\ after.value # Blank
             => s \notin RankedQuestions(out')]_out

\* An answer is resolved twice, by the provider and by the apply that is sent what
\* moved: the revision is the model that the provider returned.
AppliesWhatItReasoned == step \in {"checkpoint", "limit"} => out = reasoned

\* A decision flagged as derived from thinner evidence stays flagged for as long as
\* it stands and the slots that thickened stay explicit, however many revisions land.
StaysFlagged ==
    [][\A d \in Decisions :
          /\ Len(history') = Len(history) + 1
          /\ d \in out.decisions /\ d \in out'.decisions
          /\ \A s \in DerivedFrom[d] :
                 out.slots[s] # Absent /\ out.slots[s].confidence = "explicit"
                     => out'.slots[s].confidence = "explicit"
          /\ Review(d, history, out) = "flagged"
          => Review(d, history', out') = "flagged"]_vars

\* What the docstring of converse says of the loop: answers are fed back.
AnswersAreFedBack == step \in {"converged", "limit"} => pending = {}
=============================================================================
