---------------------------- MODULE SessionStore ----------------------------
(***************************************************************************)
(* One session's files and the operations that write them, step by step:   *)
(* `Store.save_revision` and `save_session_artifact`, driven by            *)
(* `SessionService.update_model` and `rescope`, `ArtifactService.save` and *)
(* `mark_stale`, and `session restore`, with `SessionService.snapshot` as  *)
(* what a caller knows when it writes.                                     *)
(*                                                                         *)
(* An operation runs under the session's write lock (module SessionLock),  *)
(* so there is one writer at a time: job is the operation in progress, and *)
(* its steps are the separate files it replaces.  The writer may die       *)
(* between any two of them.  A replaced file is replaced whole: each goes  *)
(* through a temporary file and a rename (atomic.py).                      *)
(*                                                                         *)
(* A model is a function from its parts, the slots and the reasoning layer *)
(* among them, to values.  A part that is neither is immaterial to every   *)
(* document (a slot's completeness, for one).  A content hash is the model *)
(* itself.  A document's text is the model it was written from.            *)
(***************************************************************************)
EXTENDS Naturals, Sequences, FiniteSets

CONSTANTS Clients,    \* the callers: CLI, API, MCP server, web, plug-in
          Slots,      \* slot ids
          Reasoning,  \* the part of a model that is its reasoning layer
          Models,     \* the models clients may propose
          Types,      \* artifact types the session's perimeter owns
          SlotsOf,    \* SlotsOf[t]: the slots type t consumes
          Cards,      \* context-card selections
          MaxRev,     \* bound: revisions of the session
          Any,        \* an apply with no expected_revision
          Nothing,    \* no file, no row, no snapshot
          Idle        \* no operation holds the lock

ASSUME StoreAssumption ==
    /\ MaxRev \in Nat
    /\ SlotsOf \in [Types -> SUBSET Slots]
    /\ Nothing \notin Models \cup Nat
    /\ Any \notin Nat

VARIABLES meta,    \* session.json: current_revision, revisions, context_cards, and
                   \* artifact_status: source[t] is t's row's revision, stale the flagged rows
          frozen,  \* frozen[n]: revisions/NNNN-model.json
          model,   \* model.json
          files,   \* files[t]: artifacts/<filename of t>
          job,     \* the operation that holds the lock, and how far it is
          seen,    \* seen[c]: the snapshot c last took
          torn     \* ghost: the worst mishap to have left files that disagree

vars == <<meta, frozen, model, files, job, seen, torn>>

Revisions == 1..MaxRev
Records == [revision : Revisions, previous : Nat, hash : Models]
Snapshots == [revision : 0..MaxRev, model : Models \cup {Nothing}]
RevisionJobs == [kind : {"apply", "rescope"}, by : Clients, step : {"frozen", "replaced", "recorded"},
                 model : Models, stale : SUBSET Types, cards : Cards,
                 expected : 0..MaxRev \cup {Any}]
ArtifactJobs == [kind : {"artifact"}, by : Clients, step : {"written"}, type : Types,
                 source : Revisions, stale : SUBSET Types]

ASSUME IdleAssumption == Idle \notin RevisionJobs \cup ArtifactJobs

\* "apply": a crash between model.json and session.json.  "other": a crash between
\* a document and its row, or a restore of a revision that is not the current one.
Mishaps == {"nothing", "apply", "other"}

Worse(mishap) ==
    CASE mishap = "nothing" -> torn [] torn = "other" -> "other" [] OTHER -> mishap

TypeOK ==
    /\ meta \in [current : 0..MaxRev, log : Seq(Records), source : [Types -> Revisions \cup {Nothing}],
                 stale : SUBSET Types, cards : Cards]
    /\ frozen \in [Revisions -> Models \cup {Nothing}]
    /\ model \in Models \cup {Nothing}
    /\ files \in [Types -> Models \cup {Nothing}]
    /\ job \in RevisionJobs \cup ArtifactJobs \cup {Idle}
    /\ seen \in [Clients -> Snapshots \cup {Nothing}]
    /\ torn \in Mishaps

\* A session fresh from create_session: revision 0 and no model.
Init ==
    /\ \E cards \in Cards :
          meta = [current |-> 0, log |-> <<>>, source |-> [t \in Types |-> Nothing],
                  stale |-> {}, cards |-> cards]
    /\ frozen = [n \in Revisions |-> Nothing]
    /\ model = Nothing
    /\ files = [t \in Types |-> Nothing]
    /\ job = Idle
    /\ seen = [c \in Clients |-> Nothing]
    /\ torn = "nothing"

----------------------------------------------------------------------------
(* The dependency graph: core/dependencies.py                              *)

\* diff_models: the slots that moved between two models.
DiffModels(old, new) == {s \in Slots : old[s] # new[s]}

\* propagate: the artifact types resting on the changed slots.
Propagate(changed) == {t \in Types : SlotsOf[t] \cap changed # {}}

\* REASONING_CONSUMERS is every type that has a generator.
ReasoningConsumers == Types

\* Faulty variant: the reasoning layer is not compared.
OutOfDateBySlots(old, new) == Propagate(DiffModels(old, new))

\* The types a move from one model to the other puts out of date.
OutOfDate(old, new) ==
    Propagate(DiffModels(old, new)) \cup
        IF old[Reasoning] # new[Reasoning] THEN ReasoningConsumers ELSE {}

Recorded == {t \in Types : meta.source[t] # Nothing}

----------------------------------------------------------------------------
(* Reading: SessionService.snapshot, one read under the lock               *)

Snapshot(c) ==
    /\ job = Idle
    /\ seen' = [seen EXCEPT ![c] = [revision |-> meta.current,
                                    model |-> IF meta.current > 0 THEN model ELSE Nothing]]
    /\ UNCHANGED <<meta, frozen, model, files, job, torn>>

----------------------------------------------------------------------------
(* Writing a revision: update_model and rescope, through save_revision     *)

\* Faulty variant: the frozen revision is numbered one short, over the last one.
SaveRevisionOneShort(c, kind, new, stale, cards, expected) ==
    /\ job = Idle
    /\ meta.current < MaxRev
    /\ expected \in {Any, meta.current}
    /\ frozen' = [frozen EXCEPT ![IF meta.current = 0 THEN 1 ELSE meta.current] = new]
    /\ job' = [kind |-> kind, by |-> c, step |-> "frozen", model |-> new, stale |-> stale,
               cards |-> cards, expected |-> expected]
    /\ UNCHANGED <<meta, model, files, seen, torn>>

\* Faulty variant: the expected revision is never compared.
SaveRevisionUnguarded(c, kind, new, stale, cards, expected) ==
    /\ job = Idle
    /\ meta.current < MaxRev
    /\ frozen' = [frozen EXCEPT ![meta.current + 1] = new]
    /\ job' = [kind |-> kind, by |-> c, step |-> "frozen", model |-> new, stale |-> stale,
               cards |-> cards, expected |-> expected]
    /\ UNCHANGED <<meta, model, files, seen, torn>>

\* The precondition, and the first of the three writes: the frozen revision.
SaveRevision(c, kind, new, stale, cards, expected) ==
    /\ job = Idle
    /\ meta.current < MaxRev
    /\ expected \in {Any, meta.current}
    /\ frozen' = [frozen EXCEPT ![meta.current + 1] = new]
    /\ job' = [kind |-> kind, by |-> c, step |-> "frozen", model |-> new, stale |-> stale,
               cards |-> cards, expected |-> expected]
    /\ UNCHANGED <<meta, model, files, seen, torn>>

\* update_model: the proposal is compared with model.json, not with the history.
Apply(c, new, expected) ==
    LET stale == IF meta.current = 0 THEN Propagate(Slots) ELSE OutOfDate(model, new)
    IN  SaveRevision(c, "apply", new, stale \cap Recorded, meta.cards, expected)

\* A client names the revision it read, or sends no precondition.
ApplyProposal(c, new) ==
    \/ Apply(c, new, Any)
    \/ seen[c] # Nothing /\ Apply(c, new, seen[c].revision)

\* Faulty variant: the model is the one read before the lock was taken.
RescopeFromSnapshot(c, cards) ==
    /\ cards # meta.cards
    /\ meta.current > 0
    /\ seen[c] # Nothing /\ seen[c].revision > 0
    /\ SaveRevision(c, "rescope", seen[c].model, {}, cards, Any)

\* rescope, once there is a model: the same model again, and no precondition.
Rescope(c, cards) ==
    /\ cards # meta.cards
    /\ meta.current > 0
    /\ SaveRevision(c, "rescope", model, {}, cards, Any)

\* rescope at revision 0 is one metadata write.
RescopeUnmodelled(cards) ==
    /\ job = Idle
    /\ cards # meta.cards
    /\ meta.current = 0
    /\ meta' = [meta EXCEPT !.cards = cards]
    /\ UNCHANGED <<frozen, model, files, job, seen, torn>>

\* Faulty variant: only a first apply writes model.json.
ReplaceModelOnce ==
    /\ job # Idle
    /\ job.step = "frozen"
    /\ model' = IF model = Nothing THEN job.model ELSE model
    /\ job' = [job EXCEPT !.step = "replaced"]
    /\ UNCHANGED <<meta, frozen, files, seen, torn>>

\* The second write: model.json.
ReplaceModel ==
    /\ job # Idle
    /\ job.step = "frozen"
    /\ model' = job.model
    /\ job' = [job EXCEPT !.step = "replaced"]
    /\ UNCHANGED <<meta, frozen, files, seen, torn>>

\* The third: session.json, with the record, the number and the flags together.
RecordRevision ==
    /\ job # Idle
    /\ job.step = "replaced"
    /\ meta' = [meta EXCEPT
          !.current = @ + 1,
          !.log = Append(@, [revision |-> meta.current + 1, previous |-> meta.current,
                             hash |-> job.model]),
          !.stale = @ \cup job.stale]
    /\ job' = IF job.kind = "rescope" THEN [job EXCEPT !.step = "recorded"] ELSE Idle
    /\ UNCHANGED <<frozen, model, files, seen, torn>>

\* A rescope's fourth: session.json again, with the cards.
RecordCards ==
    /\ job # Idle
    /\ job.step = "recorded"
    /\ meta' = [meta EXCEPT !.cards = job.cards]
    /\ job' = Idle
    /\ UNCHANGED <<frozen, model, files, seen, torn>>

----------------------------------------------------------------------------
(* Documents: ArtifactService.save, through save_session_artifact          *)

\* _stale_since: is a document written from revision n already out of date?
StaleSince(t, n) ==
    /\ n \in 1..(meta.current - 1)
    /\ t \in OutOfDate(frozen[n], model)

\* Faulty variant: the document is recorded against the current revision (#6).
SaveArtifactAsCurrent(c, t) ==
    /\ job = Idle
    /\ seen[c] # Nothing
    /\ seen[c].revision \in 1..meta.current
    /\ files' = [files EXCEPT ![t] = seen[c].model]
    /\ job' = [kind |-> "artifact", by |-> c, step |-> "written", type |-> t,
               source |-> meta.current, stale |-> {}]
    /\ UNCHANGED <<meta, frozen, model, seen, torn>>

\* Faulty variant: the revision is not checked against the history.
SaveArtifactUnchecked(c, t) ==
    /\ job = Idle
    /\ seen[c] # Nothing
    /\ files' = [files EXCEPT ![t] = seen[c].model]
    /\ job' = [kind |-> "artifact", by |-> c, step |-> "written", type |-> t,
               source |-> seen[c].revision,
               stale |-> {u \in {t} : StaleSince(u, seen[c].revision)}]
    /\ UNCHANGED <<meta, frozen, model, seen, torn>>

\* The document a client wrote from its snapshot, saved against that revision.
\* A revision outside the history is refused before anything is written.
SaveArtifact(c, t) ==
    /\ job = Idle
    /\ seen[c] # Nothing
    /\ seen[c].revision \in 1..meta.current
    /\ files' = [files EXCEPT ![t] = seen[c].model]
    /\ job' = [kind |-> "artifact", by |-> c, step |-> "written", type |-> t,
               source |-> seen[c].revision,
               stale |-> {u \in {t} : StaleSince(u, seen[c].revision)}]
    /\ UNCHANGED <<meta, frozen, model, seen, torn>>

\* Its row, in session.json.
RecordArtifact ==
    /\ job # Idle
    /\ job.step = "written"
    /\ meta' = [meta EXCEPT !.source[job.type] = job.source,
                            !.stale = (@ \ {job.type}) \cup job.stale]
    /\ job' = Idle
    /\ UNCHANGED <<frozen, model, files, seen, torn>>

\* mark_stale: the recorded artifacts resting on some named slots.
MarkStale(changed) ==
    /\ job = Idle
    /\ model # Nothing
    /\ LET hit == Propagate(changed) \cap Recorded
       IN  hit # {} /\ meta' = [meta EXCEPT !.stale = @ \cup hit]
    /\ UNCHANGED <<frozen, model, files, job, seen, torn>>

----------------------------------------------------------------------------
(* Crashes and repair                                                      *)

\* The writing process dies: the kernel releases its lock, its files stay, and so
\* does what the client it wrote for has read.
\* Two of the gaps leave files that disagree for good: after model.json, and
\* between a document and its row.
Crash ==
    /\ job # Idle
    /\ job' = Idle
    /\ torn' = Worse(CASE job.step = "replaced" -> "apply"
                       [] job.step = "written" -> "other"
                       [] OTHER -> "nothing")
    /\ UNCHANGED <<meta, frozen, model, files, seen>>

\* Faulty variant: restoring an earlier revision makes it the current one.
RestoreRewinding(n) ==
    /\ job = Idle
    /\ n \in 1..meta.current
    /\ frozen[n] = meta.log[n].hash
    /\ model' = frozen[n]
    /\ meta' = [meta EXCEPT !.current = n, !.log = SubSeq(@, 1, n)]
    /\ UNCHANGED <<frozen, files, job, seen, torn>>

\* session restore: a revision whose file matches its record, copied over
\* model.json.  With no --revision it is the newest such.
Restore(n) ==
    /\ job = Idle
    /\ n \in 1..meta.current
    /\ frozen[n] = meta.log[n].hash
    /\ model' = frozen[n]
    /\ torn' = Worse(IF n = meta.current THEN "nothing" ELSE "other")
    /\ UNCHANGED <<meta, frozen, files, job, seen>>

----------------------------------------------------------------------------
Write(c) ==
    \/ \E new \in Models : ApplyProposal(c, new)
    \/ \E cards \in Cards : Rescope(c, cards)
    \/ \E t \in Types : SaveArtifact(c, t)

Finish == ReplaceModel \/ RecordRevision \/ RecordCards \/ RecordArtifact

Next ==
    \/ \E c \in Clients : Snapshot(c) \/ Write(c)
    \/ \E cards \in Cards : RescopeUnmodelled(cards)
    \/ \E changed \in SUBSET Slots : MarkStale(changed)
    \/ Finish
    \/ Crash
    \/ \E n \in Revisions : Restore(n)

Spec == Init /\ [][Next]_vars

----------------------------------------------------------------------------
(* session verify: core/integrity.py, inspect_session_dir                  *)

\* Findings that no operation and no crash may ever leave behind: each says
\* that a recorded revision or document is lost, or that the record is wrong.
Losses == {"revision_count_mismatch", "revision_out_of_order", "revision_chain_broken",
           "missing_revision_file", "revision_hash_mismatch", "missing_model",
           "missing_artifact_file", "artifact_revision_out_of_range"}

\* Findings an interrupted apply, or a partial restore, is documented to leave.
Tears == {"orphan_revision_file", "model_without_revision", "model_is_not_the_last_revision"}

Found(code) ==
    \/ code = "revision_count_mismatch" /\ Len(meta.log) # meta.current
    \/ code = "revision_out_of_order" /\ \E i \in DOMAIN meta.log : meta.log[i].revision # i
    \/ code = "revision_chain_broken" /\ \E i \in DOMAIN meta.log : meta.log[i].previous # i - 1
    \/ code = "missing_revision_file" /\ \E i \in DOMAIN meta.log : frozen[i] = Nothing
    \/ /\ code = "revision_hash_mismatch"
       /\ \E i \in DOMAIN meta.log : frozen[i] \notin {Nothing, meta.log[i].hash}
    \/ /\ code = "orphan_revision_file"
       /\ \E n \in Revisions : n > meta.current /\ frozen[n] # Nothing
    \/ code = "model_without_revision" /\ meta.current = 0 /\ model # Nothing
    \/ code = "missing_model" /\ meta.current > 0 /\ model = Nothing
    \/ /\ code = "model_is_not_the_last_revision"
       /\ meta.current \in DOMAIN meta.log
       /\ model \notin {Nothing, meta.log[meta.current].hash}
    \/ code = "missing_artifact_file" /\ \E t \in Recorded : files[t] = Nothing
    \/ /\ code = "artifact_revision_out_of_range"
       /\ \E t \in Recorded : meta.source[t] \notin 1..meta.current

Problems == {code \in Losses \cup Tears : Found(code)}

----------------------------------------------------------------------------
(* Properties                                                              *)

\* However an operation is interrupted, what session verify can find is a tear
\* the format documents: no recorded revision or document is ever lost.
OnlyTears == Problems \subseteq Tears

\* A revision that lands leaves nothing to find, whatever was torn before it:
\* the repair by re-applying that docs/session-format.md promises.
ApplyHeals == [][meta'.current # meta.current => Problems' = {}]_vars

\* A write that names the revision it read lands on that revision, and on the
\* very model it read unless files disagreed by then: no update is lost
\* between a client's snapshot and its apply.
NoLostUpdate ==
    [][meta'.current # meta.current /\ job.expected # Any =>
          /\ seen[job.by].revision = meta.current
          /\ torn = "nothing" /\ meta.current > 0 => seen[job.by].model = frozen[meta.current]]_vars

\* A document reported fresh says what the current model says, in every part
\* it consumes.
FreshMeansUnmoved ==
    \A t \in Recorded \ meta.stale : \A part \in SlotsOf[t] \cup {Reasoning} :
        files[t][part] = model[part]

\* Between operations it holds, as long as no crash has left files that
\* disagree: slow generations, rescopes and harmless crashes included.
FreshUnlessTorn == job = Idle /\ torn = "nothing" => FreshMeansUnmoved

\* docs/session-format.md has an interrupted apply "repaired by re-applying",
\* and a document stale "when something it rests on actually changed": so
\* once session verify finds nothing, freshness should be right again.
FreshOnceRepaired ==
    job = Idle /\ torn # "other" /\ Problems = {} => FreshMeansUnmoved

\* The row of a document names the revision the document was written from.
RowNamesItsSource ==
    job = Idle /\ torn = "nothing" => \A t \in Recorded : files[t] = frozen[meta.source[t]]

\* A rescope's revision carries the model of the one before it.
RescopeKeepsTheModel ==
    [][meta'.current # meta.current /\ job.kind = "rescope" /\ torn = "nothing" =>
          job.model = frozen[meta.current]]_vars

\* To a caller the three writes and the crashes between them are one step or none.
Session == INSTANCE VersionedSession WITH
    history <- [n \in 1..meta.current |-> frozen[n]],
    source <- meta.source,
    stale <- meta.stale,
    NoDocument <- Nothing

ImplementsVersionedSession == Session!Spec
=============================================================================
