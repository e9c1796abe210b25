------------------------- MODULE SessionStoreDocuments -------------------------
(***************************************************************************)
(* What a snapshot, a row and a missing flag are worth, for any clients,   *)
(* models, document types and number of revisions: NoLostUpdate,           *)
(* RescopeKeepsTheModel, RowNamesItsSource and FreshUnlessTorn.            *)
(*                                                                         *)
(* None of them is inductive.  All rest on one thing the properties do not *)
(* say: until a mishap tears the files apart, model.json is the last       *)
(* frozen revision except between the second and the third write of a      *)
(* revision (ModelIsLast).  What is read, compared and flagged is then     *)
(* read from, compared with and flagged against the history, which never   *)
(* changes.                                                                *)
(***************************************************************************)
EXTENDS SessionStoreProofs

AtWork(steps) == job # Idle /\ job.step \in steps

\* The document whose row the operation in progress has yet to write.
Filing(t) == AtWork({"written"}) /\ job.type = t

\* Two models that say the same in every part the type consumes.
Agrees(t, a, b) == \A part \in SlotsOf[t] \cup {Reasoning} : a[part] = b[part]

\* A revision under way names the revision it was allowed to follow.
PreconditionStands ==
    AtWork({"frozen", "replaced"}) /\ job.expected # Any =>
        /\ job.expected = meta.current
        /\ seen[job.by] # Nothing /\ seen[job.by].revision = meta.current

\* model.json is the last revision, but for the moment before it is counted.
ModelIsLast ==
    meta.current > 0 /\ ~AtWork({"replaced"}) => model = frozen[meta.current]

\* A snapshot's model is the revision it names.
SnapshotsTrue ==
    \A c \in Clients : seen[c] # Nothing /\ seen[c].revision > 0 =>
        seen[c].model = frozen[seen[c].revision]

\* A rescope under way carries the last revision's model.
RescopeCarries ==
    AtWork({"frozen", "replaced"}) /\ job.kind = "rescope" =>
        meta.current > 0 /\ job.model = frozen[meta.current]

\* A document is the model of the revision its row names, or will name.
RowsTrue ==
    /\ \A t \in Recorded : ~Filing(t) => files[t] = frozen[meta.source[t]]
    /\ AtWork({"written"}) => files[job.type] = frozen[job.source]

\* A document without a flag says what the last revision says, and will say what
\* the revision under way says unless that flags it.
FlagsTrue ==
    /\ \A t \in Recorded \ meta.stale : ~Filing(t) => Agrees(t, files[t], frozen[meta.current])
    /\ AtWork({"written"}) =>
          job.stale # {} \/ Agrees(job.type, files[job.type], frozen[meta.current])
    /\ AtWork({"frozen", "replaced"}) =>
          \A t \in Recorded \ (meta.stale \cup job.stale) : Agrees(t, files[t], job.model)

Untorn == ModelIsLast /\ SnapshotsTrue /\ RescopeCarries /\ RowsTrue /\ FlagsTrue

DInv == PreconditionStands /\ (torn = "nothing" => Untorn)

----------------------------------------------------------------------------
(* The operators.                                                          *)

\* The graph is exact: a type that a move does not put out of date reads the
\* same in both models, the reasoning layer included.
LEMMA OutOfDateIsExact ==
  ASSUME NEW t \in Types, NEW old, NEW new, t \notin OutOfDate(old, new)
  PROVE  Agrees(t, old, new)
<1> USE StoreAssumption DEF StoreAssumption
<1>1. \A part \in SlotsOf[t] : part \in Slots /\ old[part] = new[part]
  BY DEF OutOfDate, Propagate, DiffModels
<1>2. old[Reasoning] = new[Reasoning]
  BY DEF OutOfDate, ReasoningConsumers
<1> QED
  BY <1>1, <1>2 DEF Agrees

\* What agrees with one of two models that agree agrees with the other.
LEMMA AgreesTransitive ==
  ASSUME NEW t, NEW a, NEW b, NEW d, Agrees(t, a, b), Agrees(t, b, d)
  PROVE  Agrees(t, a, d)
  BY DEF Agrees

----------------------------------------------------------------------------
(* The invariant is inductive, beside IInv: one lemma per kind of step.     *)

LEMMA InitTrue == Init => DInv
  BY DEF Init, DInv, PreconditionStands, AtWork, Untorn, ModelIsLast, SnapshotsTrue,
         RescopeCarries, RowsTrue, FlagsTrue, Recorded

\* A snapshot reads the last revision.
LEMMA SnapshotTrue ==
  ASSUME IInv, DInv, NEW c \in Clients, Snapshot(c)
  PROVE  DInv'
<1> USE StoreAssumption DEF StoreAssumption, Snapshot
<1>1. PreconditionStands' /\ ModelIsLast' = ModelIsLast
  BY DEF PreconditionStands, ModelIsLast, AtWork
<1>2. RescopeCarries' /\ RowsTrue' = RowsTrue /\ FlagsTrue' = FlagsTrue
  BY DEF RescopeCarries, RowsTrue, FlagsTrue, Filing, Recorded, AtWork
<1>3. ModelIsLast /\ SnapshotsTrue => SnapshotsTrue'
  BY DEF IInv, TypeOK, ModelIsLast, SnapshotsTrue, AtWork
<1> QED
  BY <1>1, <1>2, <1>3 DEF DInv, Untorn

\* The first write of a revision that names the one it read, or names none: its
\* flags cover every recorded document that the new model does not agree with.
LEMMA SaveRevisionTrue ==
  ASSUME IInv, DInv, NEW c \in Clients, NEW kind \in {"apply", "rescope"}, NEW new \in Models,
         NEW stale \in SUBSET Recorded, NEW cards \in Cards, NEW expected,
         SaveRevision(c, kind, new, stale, cards, expected),
         expected # Any => seen[c] # Nothing /\ seen[c].revision = expected,
         kind = "rescope" => meta.current > 0 /\ new = model,
         \A t \in Recorded : t \in stale \/ Agrees(t, model, new)
  PROVE  DInv'
<1> USE StoreAssumption DEF StoreAssumption, SaveRevision
<1>1. /\ meta.current \in 0..MaxRev /\ meta.current + 1 \in Revisions
      /\ \A n \in 1..meta.current : frozen'[n] = frozen[n]
      /\ frozen'[meta.current + 1] = new
  BY DEF IInv, TypeOK, Revisions
<1>2. PreconditionStands'
  BY DEF PreconditionStands, AtWork
<1> SUFFICES ASSUME torn' = "nothing" PROVE Untorn'
  BY <1>2 DEF DInv
<1>3. Untorn /\ (meta.current > 0 => model = frozen[meta.current])
  BY DEF DInv, Untorn, ModelIsLast, AtWork
<1>4. ModelIsLast' /\ RescopeCarries'
  BY <1>1, <1>3 DEF ModelIsLast, RescopeCarries, AtWork
<1>5. SnapshotsTrue'
  <2>1. ASSUME NEW d \in Clients, seen[d] # Nothing, seen[d].revision > 0
        PROVE  seen[d].revision \in 1..meta.current
    BY <1>1, <2>1 DEF IInv, TypeOK, SnapshotsKnown, Snapshots
  <2> QED
    BY <1>1, <1>3, <2>1 DEF SnapshotsTrue, Untorn
<1>6. \A t \in Recorded : /\ meta.source[t] \in 1..meta.current
                          /\ files[t] = frozen[meta.source[t]]
                          /\ meta.current \in 1..meta.current
  BY <1>1, <1>3 DEF Untorn, RowsTrue, Filing, AtWork, IInv, DocumentsKept
<1>7. RowsTrue'
  BY <1>1, <1>6 DEF RowsTrue, Recorded, AtWork
<1>8. FlagsTrue'
  <2>1. \A t \in Recorded \ meta.stale : Agrees(t, files[t], model)
    BY <1>1, <1>3, <1>6 DEF Untorn, FlagsTrue, Filing, AtWork
  <2>2. \A t \in Recorded \ meta.stale : Agrees(t, files[t], frozen'[meta.current])
    BY <1>1, <1>3, <1>6, <2>1
  <2>3. \A t \in Recorded \ (meta.stale \cup stale) : Agrees(t, files[t], new)
    BY <2>1, AgreesTransitive
  <2> QED
    BY <2>2, <2>3 DEF FlagsTrue, Recorded, AtWork
<1> QED
  BY <1>4, <1>5, <1>7, <1>8 DEF Untorn

\* An apply flags what the move from model.json puts out of date, a rescope moves
\* nothing.
LEMMA RevisionTrue ==
  ASSUME IInv, DInv, NEW c \in Clients,
         (\E new \in Models : ApplyProposal(c, new)) \/ (\E cards \in Cards : Rescope(c, cards))
  PROVE  DInv'
<1>1. CASE \E new \in Models : ApplyProposal(c, new)
  <2>1. PICK new \in Models, expected \in {Any} \cup {seen[c].revision} :
            /\ Apply(c, new, expected)
            /\ expected # Any => seen[c] # Nothing /\ seen[c].revision = expected
    BY <1>1 DEF ApplyProposal
  <2> DEFINE flags == (IF meta.current = 0 THEN Propagate(Slots) ELSE OutOfDate(model, new))
                        \cap Recorded
  <2>2. SaveRevision(c, "apply", new, flags, meta.cards, expected)
    BY <2>1 DEF Apply
  <2>3. \A t \in Recorded : t \in flags \/ Agrees(t, model, new)
    <3>1. ASSUME NEW t \in Recorded PROVE meta.current # 0 /\ t \in Types
      BY StoreAssumption DEF StoreAssumption, IInv, TypeOK, DocumentsKept, Recorded
    <3> QED
      BY <3>1, OutOfDateIsExact
  <2>4. meta.cards \in Cards /\ flags \in SUBSET Recorded
    BY DEF IInv, TypeOK
  <2> HIDE DEF flags
  <2> QED
    BY <2>1, <2>2, <2>3, <2>4, SaveRevisionTrue
<1>2. CASE \E cards \in Cards : Rescope(c, cards)
  <2>1. PICK cards \in Cards : Rescope(c, cards)
    BY <1>2
  <2>2. meta.current > 0 /\ model \in Models
    BY <2>1 DEF Rescope, IInv, ModelThere
  <2>3. SaveRevision(c, "rescope", model, {}, cards, Any)
    BY <2>1 DEF Rescope
  <2>4. \A t \in Recorded : Agrees(t, model, model)
    BY DEF Agrees
  <2> QED
    BY <2>2, <2>3, <2>4, SaveRevisionTrue
<1> QED
  BY <1>1, <1>2

\* model.json, the one write after which it is ahead of the history.
LEMMA ReplaceTrue == ASSUME IInv, DInv, ReplaceModel PROVE DInv'
<1> USE DEF ReplaceModel, AtWork
<1>1. /\ job'.step = "replaced" /\ job' # Idle
      /\ job'.kind = job.kind /\ job'.by = job.by /\ job'.model = job.model
      /\ job'.stale = job.stale /\ job'.expected = job.expected
  <2>1. job \in RevisionJobs /\ job' \in RevisionJobs
    BY ReplaceModelKeeps DEF IInv, TypeOK, RevisionJobs, ArtifactJobs
  <2> QED
    BY <2>1, IdleAssumption DEF IdleAssumption, RevisionJobs
<1>2. PreconditionStands'
  BY <1>1 DEF DInv, PreconditionStands
<1>3. Untorn => ModelIsLast' /\ SnapshotsTrue' /\ RescopeCarries'
  BY <1>1 DEF Untorn, ModelIsLast, SnapshotsTrue, RescopeCarries
<1>4. Untorn => RowsTrue' /\ FlagsTrue'
  BY <1>1 DEF Untorn, RowsTrue, FlagsTrue, Filing, Recorded
<1> QED
  BY <1>2, <1>3, <1>4 DEF DInv, Untorn

\* session.json: the revision that was frozen is the last one now.
LEMMA RecordTrue == ASSUME IInv, DInv, RecordRevision PROVE DInv'
<1> USE StoreAssumption DEF StoreAssumption, RecordRevision
<1>1. job \in RevisionJobs /\ job # Idle /\ job.step = "replaced"
  BY DEF IInv, TypeOK, ArtifactJobs
<1>2. /\ meta.current \in Nat /\ meta'.current = meta.current + 1
      /\ meta'.source = meta.source /\ meta'.stale = meta.stale \cup job.stale
      /\ frozen[meta'.current] = job.model /\ model = job.model
      /\ Recorded' = Recorded
  BY <1>1 DEF IInv, TypeOK, InOrder, Recorded
<1>3. job' = Idle \/ (job' # Idle /\ job'.step = "recorded")
  BY <1>1 DEF RevisionJobs
<1>4. PreconditionStands'
  BY <1>3 DEF PreconditionStands, AtWork
<1>5. Untorn => ModelIsLast' /\ SnapshotsTrue' /\ RescopeCarries'
  BY <1>2, <1>3 DEF Untorn, ModelIsLast, SnapshotsTrue, RescopeCarries, AtWork
<1>6. Untorn => RowsTrue'
  BY <1>1, <1>2, <1>3 DEF Untorn, RowsTrue, Filing, AtWork
<1>7. Untorn => FlagsTrue'
  BY <1>1, <1>2, <1>3 DEF Untorn, FlagsTrue, Filing, AtWork
<1> QED
  BY <1>4, <1>5, <1>6, <1>7 DEF DInv, Untorn

\* The cards, and flags raised by name: neither touches a row or a model.
LEMMA MetadataTrue ==
  ASSUME IInv, DInv,
         \/ RecordCards
         \/ \E cards \in Cards : RescopeUnmodelled(cards)
         \/ \E changed \in SUBSET Slots : MarkStale(changed)
  PROVE  DInv'
<1>1. /\ meta'.current = meta.current /\ meta'.source = meta.source
      /\ meta.stale \subseteq meta'.stale /\ Recorded' = Recorded
  BY DEF IInv, TypeOK, RecordCards, RescopeUnmodelled, MarkStale, Recorded
<1>2. /\ UNCHANGED <<frozen, model, files, seen, torn>>
      /\ ~AtWork({"frozen", "replaced"}) /\ ~AtWork({"written"}) /\ job' = Idle
  BY DEF RecordCards, RescopeUnmodelled, MarkStale, AtWork
<1>3. PreconditionStands'
  BY <1>2 DEF PreconditionStands, AtWork
<1>4. Untorn => ModelIsLast' /\ SnapshotsTrue' /\ RescopeCarries'
  BY <1>1, <1>2 DEF Untorn, ModelIsLast, SnapshotsTrue, RescopeCarries, AtWork
<1>5. Untorn => RowsTrue' /\ FlagsTrue'
  BY <1>1, <1>2 DEF Untorn, RowsTrue, FlagsTrue, Filing, AtWork
<1> QED
  BY <1>2, <1>3, <1>4, <1>5 DEF DInv, Untorn

\* A document is written from the snapshot, and flagged unless what it consumes is
\* as it was then.
LEMMA SaveArtifactTrue ==
  ASSUME IInv, DInv, NEW c \in Clients, NEW t \in Types, SaveArtifact(c, t)
  PROVE  DInv'
<1> USE StoreAssumption DEF StoreAssumption, SaveArtifact
<1> DEFINE n == seen[c].revision
<1>1. /\ n \in 1..meta.current /\ meta.current \in Nat
      /\ files'[t] = seen[c].model /\ \A u \in Types \ {t} : files'[u] = files[u]
      /\ job' # Idle /\ job'.step = "written" /\ job'.type = t /\ job'.source = n
      /\ job'.stale = {u \in {t} : StaleSince(u, n)}
      /\ Recorded' = Recorded
  <2>1. job' \in ArtifactJobs
    BY DEF IInv, TypeOK, ArtifactJobs, Revisions
  <2>2. job' # Idle
    BY <2>1, IdleAssumption DEF IdleAssumption
  <2> QED
    BY <2>2 DEF IInv, TypeOK, Recorded
<1> HIDE DEF n
<1>2. PreconditionStands'
  BY <1>1 DEF PreconditionStands, AtWork
<1> SUFFICES ASSUME torn' = "nothing" PROVE Untorn'
  BY <1>2 DEF DInv
<1>3. Untorn /\ model = frozen[meta.current] /\ seen[c].model = frozen[n]
  BY <1>1 DEF DInv, Untorn, ModelIsLast, SnapshotsTrue, AtWork, n
<1>4. ModelIsLast' /\ SnapshotsTrue' /\ RescopeCarries'
  BY <1>1, <1>3 DEF Untorn, ModelIsLast, SnapshotsTrue, RescopeCarries, AtWork
<1>5. RowsTrue'
  BY <1>1, <1>3 DEF Untorn, RowsTrue, Filing, AtWork, Recorded
<1>6. FlagsTrue'
  <2>1. t \in job'.stale \/ Agrees(t, frozen[n], frozen[meta.current])
    <3>1. CASE n = meta.current
      BY <3>1 DEF Agrees
    <3>2. CASE n # meta.current /\ ~StaleSince(t, n)
      <4>1. t \notin OutOfDate(frozen[n], model)
        BY <1>1, <3>2 DEF StaleSince
      <4> QED
        BY <1>3, <4>1, OutOfDateIsExact
    <3> QED
      BY <1>1, <3>1, <3>2
  <2>2. job'.stale # {} \/ Agrees(t, files'[t], frozen[meta.current])
    BY <1>1, <1>3, <2>1
  <2>3. \A u \in Recorded \ meta.stale : u # t => Agrees(u, files'[u], frozen[meta.current])
    BY <1>1, <1>3 DEF Untorn, FlagsTrue, Filing, AtWork, Recorded
  <2> QED
    BY <1>1, <2>2, <2>3 DEF FlagsTrue, Filing, AtWork
<1> QED
  BY <1>4, <1>5, <1>6 DEF Untorn

\* Its row replaces the one there was, and so does its flag.
LEMMA RecordArtifactTrue == ASSUME IInv, DInv, RecordArtifact PROVE DInv'
<1> USE StoreAssumption DEF StoreAssumption, RecordArtifact
<1>1. job \in ArtifactJobs /\ job # Idle /\ job.step = "written" /\ job.type \in Types
  BY DEF IInv, TypeOK, RevisionJobs, ArtifactJobs
<1>2. /\ meta'.current = meta.current
      /\ meta'.source[job.type] = job.source
      /\ \A u \in Types \ {job.type} : meta'.source[u] = meta.source[u]
      /\ meta'.stale = (meta.stale \ {job.type}) \cup job.stale
      /\ job.stale \subseteq {job.type}
  BY <1>1 DEF IInv, TypeOK, InOrder
<1>3. PreconditionStands'
  BY DEF PreconditionStands, AtWork
<1>4. Untorn => ModelIsLast' /\ SnapshotsTrue' /\ RescopeCarries'
  BY <1>1, <1>2 DEF Untorn, ModelIsLast, SnapshotsTrue, RescopeCarries, AtWork
<1>5. Untorn => RowsTrue'
  BY <1>1, <1>2 DEF Untorn, RowsTrue, Filing, AtWork, Recorded
<1>6. Untorn => FlagsTrue'
  BY <1>1, <1>2 DEF Untorn, FlagsTrue, Filing, AtWork, Recorded
<1> QED
  BY <1>3, <1>4, <1>5, <1>6 DEF DInv, Untorn

\* A death that tears nothing, and a restore of the last revision, leave model.json
\* at the last revision.
LEMMA MishapTrue ==
  ASSUME IInv, DInv, Crash \/ \E n \in Revisions : Restore(n)
  PROVE  DInv'
<1> USE StoreAssumption DEF StoreAssumption
<1>1. job' = Idle /\ UNCHANGED <<meta, frozen, files, seen>>
  BY DEF Crash, Restore
<1>2. PreconditionStands'
  BY <1>1 DEF PreconditionStands, AtWork
<1> SUFFICES ASSUME torn' = "nothing" PROVE Untorn'
  BY <1>2 DEF DInv
<1>3. torn = "nothing" /\ Untorn
  BY DEF DInv, Crash, Restore, Worse
<1>4. ~AtWork({"replaced"}) /\ ~AtWork({"written"})
  BY <1>3 DEF Crash, Restore, Worse, AtWork
<1>5. ModelIsLast'
  <2>1. CASE Crash
    BY <1>1, <1>3, <1>4, <2>1 DEF Crash, Untorn, ModelIsLast, AtWork
  <2>2. CASE \E n \in Revisions : Restore(n)
    BY <1>1, <1>3, <2>2 DEF Restore, Worse, ModelIsLast
  <2> QED
    BY <2>1, <2>2
<1>6. SnapshotsTrue' /\ RescopeCarries' /\ RowsTrue' /\ FlagsTrue'
  BY <1>1, <1>3, <1>4 DEF Untorn, SnapshotsTrue, RescopeCarries, RowsTrue, FlagsTrue,
                          Filing, AtWork, Recorded
<1> QED
  BY <1>5, <1>6 DEF Untorn

\* Every step keeps both invariants.
LEMMA NextTrue == IInv /\ DInv /\ [Next]_vars => DInv'
<1> SUFFICES ASSUME IInv, DInv, [Next]_vars PROVE DInv'
  OBVIOUS
<1>1. CASE UNCHANGED vars
  BY <1>1 DEF vars, DInv, PreconditionStands, Untorn, ModelIsLast, SnapshotsTrue,
              RescopeCarries, RowsTrue, FlagsTrue, Filing, AtWork, Recorded
<1>2. ASSUME NEW c \in Clients, Snapshot(c) \/ Write(c)
      PROVE  DInv'
  BY <1>2, SnapshotTrue, RevisionTrue, SaveArtifactTrue DEF Write
<1>3. CASE Finish
  BY <1>3, ReplaceTrue, RecordTrue, MetadataTrue, RecordArtifactTrue DEF Finish
<1> QED
  BY <1>1, <1>2, <1>3, MetadataTrue, MishapTrue DEF Next

\* Until a mishap tears the files apart, what was read is what was recorded.
THEOREM StoreDocumentsInvariant == Spec => [](IInv /\ DInv)
<1>1. Init => IInv /\ DInv
  BY InitEstablishes, InitTrue
<1>2. IInv /\ DInv /\ [Next]_vars => (IInv /\ DInv)'
  BY NextKeeps, NextTrue
<1> QED
  BY <1>1, <1>2, PTL DEF Spec

----------------------------------------------------------------------------
(* What the invariant gives.                                               *)

\* Between operations, and as long as no mishap has left files that disagree, a
\* document that is not flagged says what model.json says in all that it consumes.
THEOREM StoreFreshUnlessTorn == Spec => []FreshUnlessTorn
<1>1. ASSUME IInv, DInv, job = Idle, torn = "nothing"
      PROVE  FreshMeansUnmoved
  <2>1. ASSUME NEW t \in Recorded PROVE meta.current > 0
    <3>1. meta.current \in Nat /\ meta.source[t] \in 1..meta.current
      BY <1>1, StoreAssumption DEF StoreAssumption, IInv, TypeOK, DocumentsKept
    <3> QED
      BY <3>1
  <2>2. \A t \in Recorded \ meta.stale : Agrees(t, files[t], model)
    BY <1>1, <2>1 DEF DInv, Untorn, ModelIsLast, FlagsTrue, Filing, AtWork
  <2> QED
    BY <2>2 DEF FreshMeansUnmoved, Agrees
<1> QED
  BY <1>1, StoreDocumentsInvariant, PTL DEF FreshUnlessTorn

\* And its row names the revision it was written from, however old the snapshot.
THEOREM StoreRowNamesItsSource == Spec => []RowNamesItsSource
<1>1. IInv /\ DInv => RowNamesItsSource
  BY DEF DInv, Untorn, RowsTrue, Filing, AtWork, RowNamesItsSource
<1> QED
  BY <1>1, StoreDocumentsInvariant, PTL

\* An apply that names the revision it read lands on that revision, and on the very
\* model it read: no interleaving of clients and no harmless death loses an update.
THEOREM StoreNoLostUpdate == Spec => NoLostUpdate
<1>1. ASSUME IInv, DInv, [Next]_vars, meta'.current # meta.current, job.expected # Any
      PROVE  /\ seen[job.by].revision = meta.current
             /\ torn = "nothing" /\ meta.current > 0 => seen[job.by].model = frozen[meta.current]
  <2>1. RecordRevision /\ job \in RevisionJobs
    BY <1>1, OnlyRecordCounts DEF RecordRevision, IInv, TypeOK, ArtifactJobs
  <2>2. seen[job.by] # Nothing /\ seen[job.by].revision = meta.current /\ job.by \in Clients
    BY <1>1, <2>1 DEF DInv, PreconditionStands, AtWork, RecordRevision, RevisionJobs
  <2> QED
    BY <1>1, <2>2 DEF DInv, Untorn, SnapshotsTrue
<1> QED
  BY <1>1, StoreDocumentsInvariant, PTL DEF Spec, NoLostUpdate

\* A rescope, which reads the model under the lock it writes under, counts a
\* revision with the model of the one before.
THEOREM StoreRescopeKeepsTheModel == Spec => RescopeKeepsTheModel
<1>1. ASSUME IInv, DInv, [Next]_vars,
             meta'.current # meta.current, job.kind = "rescope", torn = "nothing"
      PROVE  job.model = frozen[meta.current]
  BY <1>1, OnlyRecordCounts DEF DInv, Untorn, RescopeCarries, AtWork, RecordRevision
<1> QED
  BY <1>1, StoreDocumentsInvariant, PTL DEF Spec, RescopeKeepsTheModel
=============================================================================
