----------------------------- MODULE Generation -----------------------------
(***************************************************************************)
(* What is paid for: the judgments of a claim, the first turn, an answer   *)
(* and its change note, and the documents a session has.                   *)
(* `DiscoveryService.claim_and_ground`, `start`, `run_discovery`,          *)
(* `answer`, `change_note` and `generate`, over `_complete`'s retry loop,  *)
(* with the UsageLedger of one invocation and the SpendPolicy, consulted   *)
(* before each call but one: the grounding judgment.                       *)
(*                                                                         *)
(* No lock is held over a call to the language model.  An operation reads  *)
(* one snapshot, pays, and writes against the revision it read, while      *)
(* other invocations and users by hand apply, rescope, delete and create.  *)
(* An apply and a save are one step each: both run under the session's     *)
(* lock, and SessionStore shows what their files do.                       *)
(*                                                                         *)
(* A model is its facts, the slots, and its why, the reasoning layer.      *)
(* Every type rests on the facts here; SessionStore has the types apart.   *)
(* A reply costs one unit: tokens at the vendor's rate.  The ledger is its *)
(* totals, which is all that its readers take from its records.            *)
(*                                                                         *)
(* Of a claim this has its calls, its guard and when it fails.  Its slug   *)
(* is given, and what a verdict or a failed judgment does to the session   *)
(* is Discovery's: one deleted and created again is Delete and             *)
(* CreateByHand here.                                                      *)
(***************************************************************************)
EXTENDS Naturals, Sequences, SequencesExt

CONSTANTS Clients,
          Facts, Whys,
          Retries,  \* attempts of a call after the first
          Ceiling,  \* SpendPolicy.ceiling_usd
          MaxRevs,  \* bounds: as many sessions under the slug, of so many revisions each
          Nobody, Nothing

ASSUME GenerationAssumption ==
    /\ Retries \in Nat /\ Ceiling \in Nat \ {0}
    /\ MaxRevs \in Seq(Nat)
    /\ Nobody \notin Clients

VARIABLES session, \* the session under the slug, or Nothing
          born,    \* sessions created so far
          guard,   \* who holds the slug's .discovering file
          at       \* at[c]: the invocation c is, its ledger, and how far it is

vars == <<session, born, guard, at>>

Models == [facts : Facts, why : Whys]

\* The decision brief, its companion the consultant's view, the stories, the estimate.
Types == {"brief", "view", "stories", "estimate"}

\* source is the row's revision.  The rest is ghost: the model the document was
\* rendered from, the session that was read, and whether the model has its reasoning.
Rows == [source : Nat \ {0}, stale : {"yes", "no"},
         of : Models, born : DOMAIN MaxRevs, absorbed : {"yes", "no"}]

Sessions == [born : DOMAIN MaxRevs, models : Seq(Models), docs : [Types -> Rows \cup {Nothing}]]

ASSUME NothingAssumption == Nothing \notin Models /\ Nothing \notin Rows /\ Nothing \notin Sessions

\* `requivo docs` generates several documents under one ledger, and `discover` has its
\* request routed and grounded before the first turn, and goes on to the brief.
Invocations == {<<"run">>, <<"route", "ground", "start", "brief">>, <<"answer">>,
                <<"estimate">>, <<"brief", "stories">>}

\* What an invocation has still to do.
Queues == Invocations \cup {<<"ground", "start", "brief">>, <<"start", "brief">>,
                            <<"brief">>, <<"stories">>, <<>>}

Calls == {"route", "ground", "analyze", "note", "brief", "stories", "estimate"}
Steps == {"new", "ready", "calling", "replied", "filing", "companion", "ended", "gone"}

\* calls and spent are what the ledger has on file: how many calls, and their cost.
\* attempts and rec are the call under way.  stamped, billed, cut and grounded are ghost.
Places == [step : Steps, todo : Queues, call : Calls, rate : {"priced", "unpriced"},
           born : 0..Len(MaxRevs), revision : Nat, of : Models \cup {Nothing},
           absorbed : {"yes", "no"},
           attempts : 0..Retries, rec : 0..Retries, calls : Nat, spent : Nat, before : Nat,
           stamped : Nat, billed : Nat, cut : {"yes", "no"}, grounded : {"yes", "no"}]

Idle == [step |-> "new", todo |-> <<>>, call |-> "analyze", rate |-> "priced",
         born |-> 0, revision |-> 0, of |-> Nothing, absorbed |-> "yes",
         attempts |-> 0, rec |-> 0, calls |-> 0, spent |-> 0, before |-> 0,
         stamped |-> 0, billed |-> 0, cut |-> "no", grounded |-> "no"]

TypeOK ==
    /\ session \in Sessions \cup {Nothing}
    /\ born \in 0..Len(MaxRevs)
    /\ guard \in Clients \cup {Nobody}
    /\ at \in [Clients -> Places]
    /\ \A c \in Clients : at[c].born <= born /\ at[c].before <= at[c].spent

Init ==
    /\ session = Nothing
    /\ born = 0
    /\ guard = Nobody
    /\ at = [c \in Clients |-> Idle]

----------------------------------------------------------------------------
(* The session's store, as one step per operation                          *)

Revision == Len(session.models)

NewSession == [born |-> born + 1, models |-> <<>>, docs |-> [t \in Types |-> Nothing]]

\* create_session, by whoever.
Create ==
    /\ session = Nothing
    /\ born < Len(MaxRevs)
    /\ born' = born + 1
    /\ session' = NewSession

\* save_revision: a move of the facts or of the why flags every document there is.
Apply(new) ==
    /\ Revision < MaxRevs[born]
    /\ session' = [session EXCEPT
          !.models = Append(@, new),
          !.docs = [t \in Types |->
                       IF @[t] = Nothing \/ new = Last(session.models) THEN @[t]
                       ELSE [@[t] EXCEPT !.stale = "yes"]]]

\* Faulty variant: what is saved is called current.
FreshAtOnce(source) == "no"

\* _stale_since: whether what was read at that revision has moved since.
StaleSince(source) == IF session.models[source] = Last(session.models) THEN "no" ELSE "yes"

\* Faulty variant: the row names the current revision, not the one that was read.
SaveAsCurrent(c, type) ==
    /\ session # Nothing
    /\ at[c].revision \in 1..Revision
    /\ session' = [session EXCEPT !.docs[type] =
          [source |-> Revision, stale |-> StaleSince(at[c].revision),
           of |-> at[c].of, born |-> at[c].born, absorbed |-> at[c].absorbed]]

\* ArtifactService.save; without a session, or from a revision it has not, refused.
Save(c, type) ==
    /\ session # Nothing
    /\ at[c].revision \in 1..Revision
    /\ session' = [session EXCEPT !.docs[type] =
          [source |-> at[c].revision, stale |-> StaleSince(at[c].revision),
           of |-> at[c].of, born |-> at[c].born, absorbed |-> at[c].absorbed]]

----------------------------------------------------------------------------
(* Users by hand, and other processes                                      *)

CreateByHand == Create /\ UNCHANGED <<guard, at>>

Delete ==
    /\ session # Nothing
    /\ session' = Nothing
    /\ UNCHANGED <<born, guard, at>>

ApplyByHand ==
    /\ session # Nothing
    /\ \E new \in Models : Apply(new)
    /\ UNCHANGED <<born, guard, at>>

\* session rescope: a revision with the same model, and no document the staler.
Rescope ==
    /\ session # Nothing
    /\ Revision > 0
    /\ Apply(Last(session.models))
    /\ UNCHANGED <<born, guard, at>>

----------------------------------------------------------------------------
(* The ledger and the ceiling                                              *)

\* cost_usd: a sum, unless the ledger has a call with no rate on file.
CostKnown(c) == at[c].rate = "priced" \/ at[c].calls = 0

\* Faulty variant: a call with no rate on file costs nothing.
MaySpendUnseen(c) == at[c].rate = "unpriced" \/ at[c].spent < Ceiling

\* SpendPolicy.check: refused at the ceiling, and when the cost is not known.
MaySpend(c) == CostKnown(c) /\ at[c].spent < Ceiling

\* Faulty variant: the ledger from its beginning.
UsageInAll(c) == at[c].spent

\* _usage_since: what an apply stamps on its revision.
UsageSince(c) == at[c].spent - at[c].before

----------------------------------------------------------------------------
(* An invocation                                                           *)

In(c, step) == at[c].step = step
Doing(c, op) == at[c].todo # <<>> /\ Head(at[c].todo) = op

\* What an operation read is forgotten with it; the ledger lasts the invocation.
Forget(place) ==
    [place EXCEPT !.call = "analyze", !.born = 0, !.revision = 0, !.of = Nothing,
                  !.absorbed = "yes", !.before = 0, !.attempts = 0]

End(c, place) ==
    /\ at' = [at EXCEPT ![c] = [Forget(place) EXCEPT !.step = "ended", !.todo = <<>>]]
    /\ guard' = IF guard = c THEN Nobody ELSE guard

\* An error of any kind ends the invocation; the flock goes with it.
Fail(c) == End(c, at[c]) /\ UNCHANGED <<session, born>>

\* On to the next operation; place is at[c] as this one leaves it.
Proceed(c, place) ==
    at' = [at EXCEPT ![c] = [Forget(place) EXCEPT !.step = "ready", !.todo = Tail(at[c].todo)]]

Finish(c, place) ==
    IF Len(at[c].todo) > 1 THEN Proceed(c, place) /\ UNCHANGED guard ELSE End(c, place)

\* The provider is called, whatever the ledger says.
Pay(c, call, place) ==
    /\ at' = [at EXCEPT ![c] = [place EXCEPT !.step = "calling", !.call = call,
                                             !.attempts = 0, !.rec = 0]]
    /\ UNCHANGED <<session, born>>

\* _check_spend first.
Call(c, call, place) == MaySpend(c) /\ Pay(c, call, place)

Invoke(c) ==
    /\ In(c, "new")
    /\ \E ops \in Invocations, rate \in {"priced", "unpriced"} :
          at' = [at EXCEPT ![c].step = "ready", ![c].todo = ops, ![c].rate = rate]
    /\ UNCHANGED <<session, born, guard>>

\* track_usage: the ledger ends with the invocation.
Leave(c) ==
    /\ In(c, "ended")
    /\ at' = [at EXCEPT ![c] = [Idle EXCEPT !.step = "gone"]]
    /\ UNCHANGED <<session, born, guard>>

\* SessionService.snapshot, and where the ledger stood.
Snapshot(c) ==
    [at[c] EXCEPT !.born = session.born, !.revision = Revision, !.absorbed = "yes",
                  !.of = IF Revision = 0 THEN Nothing ELSE Last(session.models),
                  !.before = at[c].spent]

Discovering(c) == Doing(c, "run") \/ Doing(c, "start")
Judging(c) == Doing(c, "route") \/ Doing(c, "ground")

\* What lands, or is to land, on a session with no model.
Opening(c) == Discovering(c) \/ Doing(c, "route")

\* A claim creates its session if need be: claim_and_ground under the guard, start
\* before it, and once more when its turn has been paid for.
Claim(c) ==
    /\ \/ /\ Doing(c, "start") /\ (In(c, "ready") \/ In(c, "replied"))
          /\ UNCHANGED guard
       \/ /\ Doing(c, "route") /\ In(c, "ready")
          /\ guard \in {Nobody, c} /\ guard' = c
    /\ Create
    /\ UNCHANGED at

\* route_perimeter, of a claim held to revision 0; not asked when there is no choice.
Route(c) ==
    /\ In(c, "ready") /\ Doing(c, "route")
    /\ session # Nothing /\ Revision = 0
    /\ guard \in {Nobody, c} /\ guard' = c
    /\ \/ Call(c, "route", at[c])
       \/ Proceed(c, at[c]) /\ UNCHANGED <<session, born>>

\* _record_route: the verdict is written down, on a session that must be there.
Routed(c) ==
    /\ In(c, "replied") /\ Doing(c, "route")
    /\ session # Nothing
    /\ Finish(c, at[c])
    /\ UNCHANGED <<session, born>>

\* claim_and_ground returns, and its guards are released.
Judged(c) == Proceed(c, at[c]) /\ guard' = Nobody /\ UNCHANGED <<session, born>>

\* judge_grounding, which consults no SpendPolicy; not asked when the cards are chosen.
Ground(c) ==
    /\ In(c, "ready") /\ Doing(c, "ground")
    /\ \/ Pay(c, "ground", [at[c] EXCEPT !.grounded = "yes"]) /\ UNCHANGED guard
       \/ Judged(c)

Grounded(c) ==
    /\ In(c, "replied") /\ Doing(c, "ground")
    /\ Judged(c)

\* start and run_discovery: a first discovery, under the guard, of revision 0.
Discover(c) ==
    /\ In(c, "ready") /\ Discovering(c)
    /\ session # Nothing /\ Revision = 0
    /\ guard = Nobody /\ guard' = c
    /\ Call(c, "analyze", Snapshot(c))

Answer(c) ==
    /\ In(c, "ready") /\ Doing(c, "answer")
    /\ session # Nothing /\ Revision > 0
    /\ Call(c, "analyze", Snapshot(c))
    /\ UNCHANGED guard

\* generate: the estimate reasons its stories first.
Generate(c) ==
    /\ In(c, "ready")
    /\ session # Nothing /\ Revision > 0
    /\ \E op \in {"brief", "stories", "estimate"} :
          Doing(c, op) /\ Call(c, IF op = "brief" THEN "brief" ELSE "stories", Snapshot(c))
    /\ UNCHANGED guard

\* No session, no model, a model where there should be none, a discovery under way,
\* or the ceiling: refused, and nothing paid.
Refuse(c) ==
    /\ In(c, "ready") /\ ~Doing(c, "ground")
    /\ \/ session = Nothing /\ ~Doing(c, "start") /\ ~Doing(c, "route")
       \/ session # Nothing /\ (Opening(c) <=> Revision > 0)
       \/ Opening(c) /\ guard \notin {Nobody, c}
       \/ ~MaySpend(c)
    /\ Fail(c)

----------------------------------------------------------------------------
(* _complete: one call, its attempts, and the one record it files          *)

Record(c, rec) == [at[c] EXCEPT !.calls = @ + 1, !.spent = @ + rec, !.attempts = 0, !.rec = 0]

\* Faulty variant: a call that is given up files no record.
GiveUpUnrecorded(c, rec) == End(c, [at[c] EXCEPT !.billed = @ + rec - at[c].rec, !.rec = 0])

\* Every exit that is not a reply.
GiveUp(c, rec) == End(c, [Record(c, rec) EXCEPT !.billed = @ + rec - at[c].rec])

\* A reply that fits its contract.
Reply(c) ==
    /\ In(c, "calling")
    /\ \E why \in Whys :
        at' = [at EXCEPT ![c] =
              [Record(c, at[c].rec + 1) EXCEPT
                  !.step = "replied", !.billed = @ + 1,
                  !.of = IF at[c].call = "brief" THEN [@ EXCEPT !.why = why] ELSE @]]
    /\ UNCHANGED <<session, born, guard>>

\* Faulty variant: one attempt too many.
RetryOnceMore(c) ==
    /\ In(c, "calling")
    /\ at[c].attempts <= Retries
    /\ at' = [at EXCEPT ![c].attempts = @ + 1, ![c].rec = @ + 1, ![c].billed = @ + 1]
    /\ UNCHANGED <<session, born, guard>>

\* A reply that does not fit: asked again with a nudge, in a copy of the messages.
Retry(c) ==
    /\ In(c, "calling")
    /\ at[c].attempts < Retries
    /\ at' = [at EXCEPT ![c].attempts = @ + 1, ![c].rec = @ + 1, ![c].billed = @ + 1]
    /\ UNCHANGED <<session, born, guard>>

\* Retries exhausted or a truncated reply, which is billed; or a transport failure,
\* of which no usage is known.
Lose(c) ==
    /\ In(c, "calling")
    /\ \/ GiveUp(c, at[c].rec + 1)
       \/ GiveUp(c, at[c].rec)
    /\ UNCHANGED <<session, born>>

\* An interrupt or a death in the middle of a call: it files no record.
Cut(c) ==
    /\ In(c, "calling")
    /\ End(c, [at[c] EXCEPT !.cut = "yes", !.rec = 0, !.attempts = 0])
    /\ UNCHANGED <<session, born>>

\* A death between a reply and the last write.
Die(c) ==
    /\ at[c].step \in {"replied", "filing", "companion"}
    /\ Fail(c)

----------------------------------------------------------------------------
(* What a reply is for                                                     *)

\* Faulty variant: an apply with no precondition.
UpdateRegardless(c, new) == session # Nothing /\ Apply(new)

\* update_model, with the revision that was read as its precondition.
Update(c, new) == session # Nothing /\ Revision = at[c].revision /\ Apply(new)

\* There is no such revision any more, or not yet.
Conflict(c) == session # Nothing /\ Revision # at[c].revision

Stamped(c) == [at[c] EXCEPT !.stamped = @ + UsageSince(c)]

\* A first turn lands as revision 1.
Land(c) ==
    /\ In(c, "replied") /\ Discovering(c)
    /\ \E new \in Models : Update(c, new)
    /\ Finish(c, Stamped(c))
    /\ UNCHANGED born

\* An answer carries the why it does not restate.  If documents went stale that a
\* note is for, and no other revision has landed, a change note is paid for.
Fold(c) ==
    /\ In(c, "replied") /\ Doing(c, "answer") /\ at[c].call = "analyze"
    /\ \E new \in Models : Update(c, new)
    /\ \/ Finish(c, Stamped(c))
       \/ /\ \E t \in Types \ {"view"} : session.docs[t] # Nothing
          /\ Last(session'.models) # at[c].of
          /\ at' = [at EXCEPT ![c] = [Stamped(c) EXCEPT !.step = "filing", !.revision = @ + 1]]
          /\ UNCHANGED guard
    /\ UNCHANGED born

Note(c) ==
    /\ In(c, "filing") /\ Doing(c, "answer")
    /\ session # Nothing /\ Revision = at[c].revision
    /\ Call(c, "note", at[c])
    /\ UNCHANGED guard

\* The note writes nothing; without one the answer stands.
Explained(c) ==
    /\ Doing(c, "answer")
    /\ \/ In(c, "replied") /\ at[c].call = "note"
       \/ In(c, "filing") /\ (session = Nothing \/ Conflict(c) \/ ~MaySpend(c))
    /\ Finish(c, at[c])
    /\ UNCHANGED <<session, born>>

Briefed(c) == In(c, "replied") /\ Doing(c, "brief")

\* The brief's reasoning becomes the model's, and the brief belongs to that revision.
Absorb(c) ==
    /\ Briefed(c)
    /\ Update(c, at[c].of)
    /\ at' = [at EXCEPT ![c] = [Stamped(c) EXCEPT !.step = "filing", !.revision = @ + 1]]
    /\ UNCHANGED <<born, guard>>

\* The apply lost a race: the brief is filed against what it was written from.
Unabsorbed(c) ==
    /\ Briefed(c)
    /\ Conflict(c)
    /\ at' = [at EXCEPT ![c].step = "filing", ![c].absorbed = "no"]
    /\ UNCHANGED <<session, born, guard>>

FileBrief(c) ==
    /\ In(c, "filing") /\ Doing(c, "brief")
    /\ Save(c, "brief")
    /\ at' = [at EXCEPT ![c].step = "companion"]
    /\ UNCHANGED <<born, guard>>

\* The companion from the same reply; an unabsorbed brief then ends in its error.
FileView(c) ==
    /\ In(c, "companion")
    /\ Save(c, "view")
    /\ IF at[c].absorbed = "yes" THEN Finish(c, at[c]) ELSE End(c, at[c])
    /\ UNCHANGED born

FileStories(c) ==
    /\ In(c, "replied") /\ Doing(c, "stories")
    /\ Save(c, "stories")
    /\ Finish(c, at[c])
    /\ UNCHANGED born

\* _generate_estimate: the stories are saved before the estimate is paid for.
FileBasis(c) ==
    /\ In(c, "replied") /\ Doing(c, "estimate") /\ at[c].call = "stories"
    /\ Save(c, "stories")
    /\ at' = [at EXCEPT ![c].step = "filing"]
    /\ UNCHANGED <<born, guard>>

Estimate(c) ==
    /\ In(c, "filing") /\ Doing(c, "estimate")
    /\ Call(c, "estimate", at[c])
    /\ UNCHANGED guard

FileEstimate(c) ==
    /\ In(c, "replied") /\ Doing(c, "estimate") /\ at[c].call = "estimate"
    /\ Save(c, "estimate")
    /\ Finish(c, at[c])
    /\ UNCHANGED born

\* A write that is refused: a discovery or an answer that lost a race, an ambiguous
\* verdict or a claim that cannot be taken again, a document whose session or revision
\* is gone, a second call over the ceiling.
RefuseWrite(c) ==
    /\ \/ /\ In(c, "replied") /\ (Discovering(c) \/ Doing(c, "answer")) /\ at[c].call = "analyze"
          /\ ((session = Nothing /\ ~Doing(c, "start")) \/ Conflict(c))
       \/ In(c, "replied") /\ Judging(c)
       \/ Briefed(c) /\ session = Nothing
       \/ /\ at[c].step \in {"replied", "filing", "companion"}
          /\ ~Discovering(c) /\ ~Judging(c) /\ ~Doing(c, "answer") /\ ~Briefed(c)
          /\ IF session = Nothing THEN TRUE ELSE Revision < at[c].revision
       \/ In(c, "filing") /\ Doing(c, "estimate") /\ ~MaySpend(c)
    /\ Fail(c)

Next ==
    \/ CreateByHand \/ Delete \/ ApplyByHand \/ Rescope
    \/ \E c \in Clients :
          \/ Invoke(c) \/ Leave(c) \/ Claim(c)
          \/ Route(c) \/ Routed(c) \/ Ground(c) \/ Grounded(c)
          \/ Discover(c) \/ Answer(c) \/ Generate(c) \/ Refuse(c)
          \/ Reply(c) \/ Retry(c) \/ Lose(c) \/ Cut(c) \/ Die(c)
          \/ Land(c) \/ Fold(c) \/ Note(c) \/ Explained(c)
          \/ Absorb(c) \/ Unabsorbed(c) \/ FileBrief(c) \/ FileView(c)
          \/ FileStories(c) \/ FileBasis(c) \/ Estimate(c) \/ FileEstimate(c) \/ RefuseWrite(c)

Spec == Init /\ [][Next]_vars

----------------------------------------------------------------------------
(* Properties                                                              *)

\* The rows of the session that was read.  A save does not compare sessions: one
\* deleted and created again during a call may be given the other's document.
OwnRows == IF session = Nothing THEN {}
           ELSE {session.docs[t] : t \in {u \in Types : session.docs[u] # Nothing
                                                        /\ session.docs[u].born = session.born}}

\* A document's row names the revision whose facts it was written from, and whose
\* reasoning, unless the model refused that reasoning.  Every generation reads one
\* snapshot, pays, and writes later; a brief is filed against one of two revisions.
RowNamesWhatItWasWrittenFrom ==
    \A row \in OwnRows :
        /\ row.of.facts = session.models[row.source].facts
        /\ row.absorbed = "yes" => row.of = session.models[row.source]

\* A document shown as fresh says what the model says now, however late it was
\* filed and whatever landed while it was being paid for.
FreshIsCurrent ==
    \A row \in OwnRows : row.stale = "no" =>
        /\ row.of.facts = Last(session.models).facts
        /\ row.absorbed = "yes" => row.of = Last(session.models)

\* What the error and the comment say of a brief that lost its race: that it is
\* flagged stale.
UnabsorbedIsStale ==
    \A row \in OwnRows : row.absorbed = "no" => row.stale = "yes"

\* Whatever way a call ends, short of an interrupt, the ledger has what its
\* attempts were billed.
SpendIsRecorded ==
    \A c \in Clients : at[c].cut = "no" => at[c].billed = at[c].spent + at[c].rec

\* What the ledger may hold of a call that nothing checked: the grounding judgment's.
Unchecked(c) == IF at[c].grounded = "yes" THEN Retries + 1 ELSE 0

\* The policy is said to be consulted before every call.  The grounding judgment is
\* made without, after a router's that may have reached the ceiling or have no rate.
\* No other call is: an invocation passes its ceiling by the attempts of one call that
\* was checked, and by those of that judgment where it was made; of a provider with no
\* rate it makes one call, and that judgment.
CeilingPassedByOneCheckedCall ==
    \A c \in Clients :
        IF at[c].rate = "priced"
        THEN at[c].spent + at[c].rec <= Ceiling + Retries + Unchecked(c)
        ELSE at[c].calls + (IF In(c, "calling") THEN 1 ELSE 0)
                <= 1 + (IF at[c].grounded = "yes" THEN 1 ELSE 0)

\* The revisions an invocation writes are not stamped with the same call twice.
CountedOnce == \A c \in Clients : at[c].stamped <= at[c].spent

\* Absorbing a brief's reasoning never undoes a turn that landed while the brief
\* was being paid for: the facts stay what they are.
AbsorbsWithoutUndoing ==
    [][\A c \in Clients :
          Briefed(c) /\ session # Nothing /\ session' # session /\ at'[c] # at[c]
              /\ session.born = at[c].born
          => Last(session'.models).facts = Last(session.models).facts]_vars
=============================================================================
