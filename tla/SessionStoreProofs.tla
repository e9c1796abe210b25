------------------------- MODULE SessionStoreProofs -------------------------
(***************************************************************************)
(* What a session keeps, for any clients, models, document types and       *)
(* number of revisions, wherever its writer dies.  What the properties     *)
(* need and do not say is where an operation is when it stops (InOrder):   *)
(* the frozen file is written before session.json counts it, a document    *)
(* before session.json names it, and nothing is numbered past the next     *)
(* revision, so what is counted or named is always there.                  *)
(***************************************************************************)
EXTENDS SessionStore, TLAPS

\* The record of every revision is the file that was frozen for it.
HistoryIntact ==
    /\ Len(meta.log) = meta.current
    /\ \A i \in 1..meta.current :
          /\ frozen[i] \in Models
          /\ meta.log[i].revision = i
          /\ meta.log[i].previous = i - 1
          /\ meta.log[i].hash = frozen[i]

\* At most the next revision has a file without a record.
NothingBeyond == \A n \in Revisions : n > meta.current + 1 => frozen[n] = Nothing

\* There is a current model once there is a revision.
ModelThere == meta.current > 0 => model \in Models

\* A client has read nothing that is not, or was not, there.
SnapshotsKnown ==
    \A c \in Clients : seen[c] # Nothing =>
        /\ seen[c].revision <= meta.current
        /\ seen[c].revision > 0 => seen[c].model \in Models

\* A row names a revision of the history, and a document that was written.
DocumentsKept ==
    \A t \in Recorded : meta.source[t] \in 1..meta.current /\ files[t] # Nothing

\* What the operation in progress has written so far, and may still rely on.
InOrder ==
    /\ job # Idle /\ job.step \in {"frozen", "replaced"} =>
          /\ meta.current < MaxRev
          /\ frozen[meta.current + 1] = job.model
          /\ job.stale \subseteq Recorded
    /\ job # Idle /\ job.step = "replaced" => model = job.model
    /\ job # Idle /\ job.step = "written" =>
          /\ files[job.type] # Nothing
          /\ job.source \in 1..meta.current
          /\ job.stale \subseteq {job.type}

IInv ==
    /\ TypeOK
    /\ HistoryIntact
    /\ NothingBeyond
    /\ ModelThere
    /\ SnapshotsKnown
    /\ DocumentsKept
    /\ InOrder
----------------------------------------------------------------------------
(* The invariant is inductive: one lemma per kind of step.                 *)

\* Artifact types a changed model can put out of date are types of the session.
LEMMA OutOfDateTypes == \A old, new : OutOfDate(old, new) \subseteq Types
  BY DEF OutOfDate, Propagate, ReasoningConsumers

\* A session fresh from create_session satisfies the invariant.
LEMMA InitEstablishes == Init => IInv
<1> SUFFICES ASSUME Init PROVE IInv
  OBVIOUS
<1> USE StoreAssumption DEF StoreAssumption, Init
<1>1. TypeOK
  BY DEF TypeOK, Revisions, Mishaps
<1>2. HistoryIntact /\ NothingBeyond /\ ModelThere
  BY DEF HistoryIntact, NothingBeyond, ModelThere
<1>3. SnapshotsKnown /\ DocumentsKept /\ InOrder
  BY DEF SnapshotsKnown, DocumentsKept, Recorded, InOrder
<1> QED
  BY <1>1, <1>2, <1>3 DEF IInv

\* A snapshot reads what is there.
LEMMA SnapshotKeeps ==
  ASSUME IInv, NEW c \in Clients, Snapshot(c)
  PROVE  IInv'
<1> USE StoreAssumption DEF StoreAssumption, IInv, Snapshot
<1>1. TypeOK'
  <2>1. [revision |-> meta.current, model |-> IF meta.current > 0 THEN model ELSE Nothing]
            \in Snapshots
    BY DEF TypeOK, Snapshots, ModelThere
  <2> QED
    BY <2>1 DEF TypeOK
<1>2. HistoryIntact' /\ NothingBeyond' /\ ModelThere'
  BY DEF HistoryIntact, NothingBeyond, ModelThere
<1>3. SnapshotsKnown'
  BY DEF SnapshotsKnown, ModelThere, TypeOK
<1>4. DocumentsKept' /\ InOrder'
  BY DEF DocumentsKept, Recorded, InOrder
<1> QED
  BY <1>1, <1>2, <1>3, <1>4

\* The first write of a revision, by an apply or a rescope.
LEMMA SaveRevisionKeeps ==
  ASSUME IInv, NEW c \in Clients, NEW kind \in {"apply", "rescope"}, NEW new \in Models,
         NEW stale \in SUBSET Recorded, NEW cards \in Cards,
         NEW expected \in 0..MaxRev \cup {Any},
         SaveRevision(c, kind, new, stale, cards, expected)
  PROVE  IInv'
<1> USE StoreAssumption DEF StoreAssumption, IInv, SaveRevision
<1>1. meta.current \in 0..MaxRev /\ meta.current + 1 \in Revisions
  BY DEF TypeOK, Revisions
<1>2. TypeOK'
  <2>1. job' \in RevisionJobs
    BY DEF RevisionJobs, Recorded
  <2>2. frozen' \in [Revisions -> Models \cup {Nothing}]
    BY <1>1 DEF TypeOK
  <2> QED
    BY <2>1, <2>2 DEF TypeOK
<1>3. HistoryIntact'
  BY <1>1 DEF HistoryIntact, TypeOK
<1>4. NothingBeyond' /\ ModelThere'
  BY <1>1 DEF NothingBeyond, ModelThere, TypeOK, Revisions
<1>5. SnapshotsKnown' /\ DocumentsKept'
  BY DEF SnapshotsKnown, DocumentsKept, Recorded
<1>6. InOrder'
  BY <1>1 DEF InOrder, Recorded, TypeOK
<1> QED
  BY <1>2, <1>3, <1>4, <1>5, <1>6

\* model.json, the second write.
LEMMA ReplaceModelKeeps == ASSUME IInv, ReplaceModel PROVE IInv'
<1> USE StoreAssumption DEF StoreAssumption, IInv, ReplaceModel
<1>1. job \in RevisionJobs
  BY DEF TypeOK, ArtifactJobs
<1>2. TypeOK'
  <2>1. job' \in RevisionJobs /\ model' \in Models
    BY <1>1 DEF RevisionJobs
  <2> QED
    BY <2>1 DEF TypeOK
<1>3. HistoryIntact' /\ NothingBeyond' /\ SnapshotsKnown' /\ DocumentsKept'
  BY DEF HistoryIntact, NothingBeyond, SnapshotsKnown, DocumentsKept, Recorded
<1>4. ModelThere'
  BY <1>1 DEF ModelThere, RevisionJobs
<1>5. InOrder'
  BY <1>1 DEF InOrder, Recorded, RevisionJobs
<1> QED
  BY <1>2, <1>3, <1>4, <1>5

\* session.json, the third: the revision and its flags.
LEMMA RecordRevisionKeeps == ASSUME IInv, RecordRevision PROVE IInv'
<1> USE StoreAssumption DEF StoreAssumption, IInv, RecordRevision
<1>1. job \in RevisionJobs
  BY DEF TypeOK, ArtifactJobs
<1>2. /\ meta.current \in 0..MaxRev /\ meta.current + 1 \in Revisions
      /\ frozen[meta.current + 1] = job.model /\ model = job.model /\ job.model \in Models
  BY <1>1 DEF InOrder, TypeOK, RevisionJobs, Revisions
<1> DEFINE record == [revision |-> meta.current + 1, previous |-> meta.current, hash |-> job.model]
<1>3. record \in Records /\ meta'.log = Append(meta.log, record) /\ meta'.current = meta.current + 1
  BY <1>2 DEF TypeOK, Records
<1>4. TypeOK'
  <2>1. job' \in RevisionJobs \cup {Idle}
    BY <1>1 DEF RevisionJobs
  <2>2. meta'.log \in Seq(Records)
    BY <1>3 DEF TypeOK
  <2>3. meta' = [meta EXCEPT !.current = meta'.current, !.log = meta'.log, !.stale = meta'.stale]
        /\ meta'.stale \in SUBSET Types /\ meta'.current \in 0..MaxRev
    BY <1>1, <1>2 DEF TypeOK, RevisionJobs, Revisions
  <2> QED
    BY <2>1, <2>2, <2>3 DEF TypeOK
<1>5. HistoryIntact'
  <2>1. Len(meta'.log) = meta'.current
    BY <1>3 DEF HistoryIntact, TypeOK
  <2>2. ASSUME NEW i \in 1..meta.current
        PROVE  meta'.log[i] = meta.log[i]
    BY <1>2, <1>3 DEF HistoryIntact, TypeOK
  <2>3. meta'.log[meta'.current] = record
    BY <1>2, <1>3 DEF HistoryIntact, TypeOK
  <2>4. ASSUME NEW i \in 1..meta'.current
        PROVE  /\ frozen[i] \in Models
               /\ meta'.log[i].revision = i
               /\ meta'.log[i].previous = i - 1
               /\ meta'.log[i].hash = frozen[i]
    <3>1. CASE i = meta'.current
      <4>1. i = meta.current + 1 /\ i - 1 = meta.current
        BY <1>2, <1>3, <3>1
      <4>2. meta'.log[i] = record
        BY <2>3, <3>1
      <4>3. /\ record.revision = i
            /\ record.previous = i - 1
            /\ record.hash = frozen[i]
        BY <1>2, <4>1
      <4> HIDE DEF record
      <4> QED
        BY <1>2, <4>1, <4>2, <4>3
    <3>2. CASE i # meta'.current
      <4>1. i \in 1..meta.current
        BY <1>2, <1>3, <3>2
      <4>2. /\ frozen[i] \in Models
            /\ meta.log[i].revision = i
            /\ meta.log[i].previous = i - 1
            /\ meta.log[i].hash = frozen[i]
        BY <4>1 DEF HistoryIntact
      <4> QED
        BY <2>2, <4>1, <4>2
    <3> QED
      BY <3>1, <3>2
  <2> QED
    BY <2>1, <2>4 DEF HistoryIntact
<1>6. NothingBeyond' /\ ModelThere'
  BY <1>2, <1>3 DEF NothingBeyond, ModelThere, TypeOK, Revisions
<1>7. SnapshotsKnown'
  BY <1>2, <1>3 DEF SnapshotsKnown, TypeOK, Snapshots
<1>8. DocumentsKept'
  BY <1>2, <1>3 DEF DocumentsKept, Recorded, TypeOK, Revisions
<1>9. InOrder'
  BY DEF InOrder
<1> QED
  BY <1>4, <1>5, <1>6, <1>7, <1>8, <1>9
\* The cards: a rescope's last write, and a rescope before there is a model.
LEMMA CardsKeep ==
  ASSUME IInv, RecordCards \/ \E cards \in Cards : RescopeUnmodelled(cards)
  PROVE  IInv'
<1> USE StoreAssumption DEF StoreAssumption, IInv, RecordCards, RescopeUnmodelled
<1>1. PICK cards \in Cards : meta' = [meta EXCEPT !.cards = cards]
  <2>1. CASE RecordCards
    <3>1. job \in RevisionJobs
      BY <2>1 DEF TypeOK, ArtifactJobs
    <3> QED
      BY <2>1, <3>1 DEF RevisionJobs
  <2> QED
    BY <2>1
<1>2. UNCHANGED <<frozen, model, files, seen, torn>> /\ (job' = job \/ job' = Idle)
  OBVIOUS
<1>3. TypeOK'
  BY <1>1, <1>2 DEF TypeOK
<1>4. HistoryIntact' /\ NothingBeyond' /\ ModelThere' /\ SnapshotsKnown'
  BY <1>1, <1>2 DEF TypeOK, HistoryIntact, NothingBeyond, ModelThere, SnapshotsKnown
<1>5. Recorded' = Recorded
  BY <1>1 DEF TypeOK, Recorded
<1>6. DocumentsKept' /\ InOrder'
  BY <1>1, <1>2, <1>5 DEF TypeOK, DocumentsKept, InOrder
<1> QED
  BY <1>3, <1>4, <1>6

\* A document's file, the first write of a save.
LEMMA SaveArtifactKeeps ==
  ASSUME IInv, NEW c \in Clients, NEW t \in Types, SaveArtifact(c, t)
  PROVE  IInv'
<1> USE StoreAssumption DEF StoreAssumption, IInv, SaveArtifact
<1>1. seen[c] \in Snapshots /\ seen[c].model \in Models /\ seen[c].revision \in Revisions
  BY DEF TypeOK, SnapshotsKnown, Snapshots, Revisions
<1>2. TypeOK'
  <2>1. job' \in ArtifactJobs
    BY <1>1 DEF ArtifactJobs
  <2> QED
    BY <1>1, <2>1 DEF TypeOK
<1>3. HistoryIntact' /\ NothingBeyond' /\ ModelThere' /\ SnapshotsKnown'
  BY DEF HistoryIntact, NothingBeyond, ModelThere, SnapshotsKnown
<1>4. DocumentsKept'
  BY <1>1 DEF DocumentsKept, Recorded, TypeOK
<1>5. InOrder'
  BY <1>1 DEF InOrder, TypeOK
<1> QED
  BY <1>2, <1>3, <1>4, <1>5

\* Its row in session.json, the second.
LEMMA RecordArtifactKeeps == ASSUME IInv, RecordArtifact PROVE IInv'
<1> USE StoreAssumption DEF StoreAssumption, IInv, RecordArtifact
<1>1. job \in ArtifactJobs
  BY DEF TypeOK, RevisionJobs
<1>2. job.type \in Types /\ job.source \in 1..meta.current /\ files[job.type] # Nothing
  BY <1>1 DEF ArtifactJobs, InOrder
<1>3. TypeOK'
  <2>1. meta'.source \in [Types -> Revisions \cup {Nothing}] /\ meta'.stale \in SUBSET Types
    BY <1>1 DEF TypeOK, ArtifactJobs
  <2>2. meta' = [meta EXCEPT !.source = meta'.source, !.stale = meta'.stale]
    BY DEF TypeOK
  <2> QED
    BY <2>1, <2>2 DEF TypeOK
<1>4. HistoryIntact' /\ NothingBeyond' /\ ModelThere' /\ SnapshotsKnown'
  BY DEF TypeOK, HistoryIntact, NothingBeyond, ModelThere, SnapshotsKnown
<1>5. DocumentsKept'
  BY <1>2 DEF TypeOK, DocumentsKept, Recorded
<1>6. InOrder'
  BY DEF InOrder
<1> QED
  BY <1>3, <1>4, <1>5, <1>6

\* Flags raised by name.
LEMMA MarkStaleKeeps ==
  ASSUME IInv, NEW changed \in SUBSET Slots, MarkStale(changed)
  PROVE  IInv'
<1> USE StoreAssumption DEF StoreAssumption, IInv, MarkStale
<1>1. PICK S \in SUBSET Types : meta' = [meta EXCEPT !.stale = @ \cup S]
  BY DEF Propagate
<1>2. TypeOK'
  BY <1>1 DEF TypeOK
<1>3. HistoryIntact' /\ NothingBeyond' /\ ModelThere' /\ SnapshotsKnown'
  BY <1>1 DEF TypeOK, HistoryIntact, NothingBeyond, ModelThere, SnapshotsKnown
<1>4. Recorded' = Recorded
  BY <1>1 DEF TypeOK, Recorded
<1>5. DocumentsKept' /\ InOrder'
  BY <1>1, <1>4 DEF TypeOK, DocumentsKept, InOrder
<1> QED
  BY <1>2, <1>3, <1>5

\* A writer that dies, and a restore.
LEMMA MishapKeeps ==
  ASSUME IInv, Crash \/ \E n \in Revisions : Restore(n)
  PROVE  IInv'
<1> USE StoreAssumption DEF StoreAssumption, IInv
<1>1. \A mishap \in Mishaps : Worse(mishap) \in Mishaps
  BY DEF Worse, Mishaps, TypeOK
<1>2. CASE Crash
  <2>1. torn' \in Mishaps
    BY <1>1, <1>2 DEF Crash, Mishaps
  <2> QED
    BY <1>2, <2>1 DEF Crash, TypeOK, HistoryIntact, NothingBeyond, ModelThere, SnapshotsKnown,
                      DocumentsKept, Recorded, InOrder
<1>3. ASSUME NEW n \in Revisions, Restore(n)
      PROVE  IInv'
  <2>1. torn' \in Mishaps
    BY <1>1, <1>3 DEF Restore, Mishaps
  <2>2. model' \in Models
    BY <1>3 DEF Restore, HistoryIntact
  <2> QED
    BY <1>3, <2>1, <2>2 DEF Restore, TypeOK, HistoryIntact, NothingBeyond, ModelThere,
                            SnapshotsKnown, DocumentsKept, Recorded, InOrder
<1> QED
  BY <1>2, <1>3

\* Every apply and rescope enters through SaveRevision with flags for recorded documents only.
LEMMA WriteKeeps ==
  ASSUME IInv, NEW c \in Clients, Write(c)
  PROVE  IInv'
<1>1. CASE \E new \in Models : ApplyProposal(c, new)
  <2>1. PICK new \in Models, expected \in 0..MaxRev \cup {Any} : Apply(c, new, expected)
    BY <1>1 DEF ApplyProposal, IInv, TypeOK, Snapshots
  <2>2. PICK stale \in SUBSET Recorded :
            SaveRevision(c, "apply", new, stale, meta.cards, expected)
    BY <2>1 DEF Apply
  <2>3. meta.cards \in Cards
    BY DEF IInv, TypeOK
  <2> QED
    BY <2>2, <2>3, SaveRevisionKeeps
<1>2. CASE \E cards \in Cards : Rescope(c, cards)
  <2>1. PICK cards \in Cards : Rescope(c, cards)
    BY <1>2
  <2>2. model \in Models
    BY <2>1 DEF Rescope, IInv, ModelThere
  <2> QED
    BY <2>1, <2>2, SaveRevisionKeeps DEF Rescope
<1>3. CASE \E t \in Types : SaveArtifact(c, t)
  BY <1>3, SaveArtifactKeeps
<1> QED
  BY <1>1, <1>2, <1>3 DEF Write

\* Every step keeps the invariant.
LEMMA NextKeeps == IInv /\ [Next]_vars => IInv'
<1> SUFFICES ASSUME IInv, [Next]_vars PROVE IInv'
  OBVIOUS
<1>1. CASE UNCHANGED vars
  BY <1>1 DEF vars, IInv, TypeOK, HistoryIntact, NothingBeyond, ModelThere, SnapshotsKnown,
              DocumentsKept, Recorded, InOrder
<1>2. CASE Next
  <2>1. CASE \E c \in Clients : Snapshot(c) \/ Write(c)
    BY <2>1, SnapshotKeeps, WriteKeeps
  <2>2. CASE Finish
    BY <2>2, ReplaceModelKeeps, RecordRevisionKeeps, CardsKeep, RecordArtifactKeeps DEF Finish
  <2> QED
    BY <1>2, <2>1, <2>2, CardsKeep, MarkStaleKeeps, MishapKeeps DEF Next
<1> QED
  BY <1>1, <1>2

\* The inductive invariant holds in every reachable state of a session's files.
THEOREM StoreInvariant == Spec => []IInv
  BY InitEstablishes, NextKeeps, PTL DEF Spec

\* TypeOK, for every set of clients, models and document types.
THEOREM StoreTypes == Spec => []TypeOK
<1>1. IInv => TypeOK
  BY DEF IInv
<1> QED
  BY <1>1, StoreInvariant, PTL

----------------------------------------------------------------------------
(* What the invariant gives.                                               *)

\* The findings that would be losses are impossible where the invariant holds.
LEMMA LosesNothing == IInv => OnlyTears
<1> SUFFICES ASSUME IInv PROVE OnlyTears
  OBVIOUS
<1>1. Len(meta.log) = meta.current /\ DOMAIN meta.log = 1..meta.current /\ meta.current \in Nat
  BY StoreAssumption DEF StoreAssumption, IInv, TypeOK, HistoryIntact
<1>2. \A i \in DOMAIN meta.log : /\ frozen[i] \in Models
                                /\ meta.log[i].revision = i
                                /\ meta.log[i].previous = i - 1
                                /\ meta.log[i].hash = frozen[i]
  BY <1>1 DEF IInv, HistoryIntact
<1>3. Nothing \notin Models
  BY StoreAssumption DEF StoreAssumption
<1>4. ~Found("revision_count_mismatch") /\ ~Found("revision_out_of_order")
  BY <1>1, <1>2 DEF Found
<1>5. ~Found("revision_chain_broken") /\ ~Found("missing_revision_file")
  BY <1>2, <1>3 DEF Found
<1>6. ~Found("revision_hash_mismatch") /\ ~Found("missing_model")
  BY <1>2, <1>3 DEF Found, IInv, ModelThere
<1>7. ~Found("missing_artifact_file") /\ ~Found("artifact_revision_out_of_range")
  BY DEF Found, IInv, DocumentsKept
<1> QED
  BY <1>4, <1>5, <1>6, <1>7 DEF OnlyTears, Problems, Losses

\* Whatever interleaves and wherever a writer dies, no recorded revision or
\* document is lost and no record is wrong: session verify finds only tears.
THEOREM StoreLosesNothing == Spec => []OnlyTears
  BY LosesNothing, StoreInvariant, PTL

\* The write that counts a revision is the third of save_revision, and no other.
LEMMA OnlyRecordCounts == IInv /\ [Next]_vars /\ meta'.current # meta.current => RecordRevision
<1> SUFFICES ASSUME IInv, [Next]_vars, meta'.current # meta.current PROVE RecordRevision
  OBVIOUS
<1>1. \A c \in Clients : Write(c) => meta' = meta
  BY DEF Write, ApplyProposal, Apply, Rescope, SaveRevision, SaveArtifact
<1>2. RecordCards \/ RecordArtifact \/ (\E cards \in Cards : RescopeUnmodelled(cards))
        \/ (\E changed \in SUBSET Slots : MarkStale(changed)) => meta'.current = meta.current
  BY DEF IInv, TypeOK, RecordCards, RecordArtifact, RescopeUnmodelled, MarkStale
<1> QED
  BY <1>1, <1>2 DEF Next, vars, Snapshot, Finish, ReplaceModel, Crash, Restore

\* A revision that lands leaves nothing to find: the numbered file, model.json
\* and the record are the same model again, whatever they were before.
THEOREM StoreApplyHeals == Spec => ApplyHeals
<1>1. ASSUME IInv, IInv', [Next]_vars, meta'.current # meta.current
      PROVE  Problems' = {}
  <2> USE StoreAssumption DEF StoreAssumption
  <2>1. RecordRevision
    BY <1>1, OnlyRecordCounts
  <2>2. job \in RevisionJobs /\ meta'.current = meta.current + 1 /\ model' = job.model
        /\ frozen' = frozen /\ frozen'[meta'.current] = model'
    BY <1>1, <2>1 DEF IInv, TypeOK, ArtifactJobs, InOrder, RecordRevision
  <2>3. OnlyTears'
    BY <1>1, LosesNothing, PTL
  <2>4. ~Found("orphan_revision_file")' /\ ~Found("model_without_revision")'
    BY <1>1, <2>2 DEF Found, IInv, NothingBeyond, TypeOK
  <2>5. ~Found("model_is_not_the_last_revision")'
    <3>1. meta'.current \in 1..meta'.current
      BY <1>1, <2>2 DEF IInv, TypeOK
    <3>2. meta'.log[meta'.current].hash = model'
      BY <1>1, <2>2, <3>1 DEF IInv, HistoryIntact
    <3> QED
      BY <3>2 DEF Found
  <2> QED
    BY <2>3, <2>4, <2>5 DEF OnlyTears, Problems, Tears
<1> QED
  BY <1>1, StoreInvariant, PTL DEF Spec, ApplyHeals
----------------------------------------------------------------------------
(* The files and crashes implement the versioned session.                  *)

\* The history callers see, as SessionStore substitutes it.
LEMMA HistoryGrows ==
  ASSUME IInv, RecordRevision
  PROVE  [n \in 1..meta'.current |-> frozen'[n]] =
            Append([n \in 1..meta.current |-> frozen[n]], job.model)
<1> USE StoreAssumption DEF StoreAssumption
<1> DEFINE h == [n \in 1..meta.current |-> frozen[n]]
<1>1. /\ meta.current \in Nat /\ meta'.current = meta.current + 1
      /\ frozen' = frozen /\ frozen[meta.current + 1] = job.model
  BY DEF RecordRevision, IInv, TypeOK, InOrder
<1>2. h \in Seq(Models) /\ Len(h) = meta.current
  <2>1. \A n \in 1..meta.current : frozen[n] \in Models
    BY DEF IInv, HistoryIntact
  <2> QED
    BY <1>1, <2>1
<1>3. job.model \in Models
  BY DEF IInv, TypeOK, RevisionJobs, ArtifactJobs, RecordRevision
<1>4. /\ Append(h, job.model) \in Seq(Models) /\ Len(Append(h, job.model)) = meta.current + 1
      /\ \A n \in 1..meta.current : Append(h, job.model)[n] = frozen[n]
      /\ Append(h, job.model)[meta.current + 1] = job.model
  <2> HIDE DEF h
  <2>1. /\ Append(h, job.model) \in Seq(Models) /\ Len(Append(h, job.model)) = meta.current + 1
        /\ \A n \in 1..meta.current : Append(h, job.model)[n] = h[n]
        /\ Append(h, job.model)[meta.current + 1] = job.model
    BY <1>1, <1>2, <1>3
  <2>2. \A n \in 1..meta.current : h[n] = frozen[n]
    BY DEF h
  <2> QED
    BY <2>1, <2>2
<1>5. \A n \in 1..(meta.current + 1) : Append(h, job.model)[n] = frozen[n]
  BY <1>1, <1>4
<1> QED
  BY <1>1, <1>4, <1>5
\* A session of no revision has the empty history.
LEMMA SessionInit == Init => Session!Init
<1> SUFFICES ASSUME Init PROVE Session!Init
  OBVIOUS
<1>1. [n \in 1..meta.current |-> frozen[n]] = <<>>
  BY DEF Init
<1> QED
  BY <1>1 DEF Init, Session!Init

\* Only session.json shows: the write that counts a revision is the commit, the
\* write of a document's row its save, and every other write changes nothing.
LEMMA SessionStep == IInv /\ [Next]_vars => [Session!Next]_(Session!vars)
<1> SUFFICES ASSUME IInv, [Next]_vars PROVE Session!Next \/ UNCHANGED Session!vars
  OBVIOUS
<1> USE StoreAssumption DEF StoreAssumption
<1>1. ASSUME meta' = meta, \A n \in 1..meta.current : frozen'[n] = frozen[n]
      PROVE  UNCHANGED Session!vars
  BY <1>1 DEF Session!vars
<1>2. CASE UNCHANGED vars
  BY <1>1, <1>2 DEF vars
<1>3. ASSUME NEW c \in Clients, Snapshot(c) \/ Write(c)
      PROVE  UNCHANGED Session!vars
  <2>1. meta' = meta
    BY <1>3 DEF Snapshot, Write, ApplyProposal, Apply, Rescope, SaveRevision, SaveArtifact
  <2>2. frozen' = frozen \/ \E new : frozen' = [frozen EXCEPT ![meta.current + 1] = new]
    BY <1>3 DEF Snapshot, Write, ApplyProposal, Apply, Rescope, SaveRevision, SaveArtifact
  <2>3. \A n \in 1..meta.current : frozen'[n] = frozen[n]
    BY <2>2 DEF IInv, TypeOK, Revisions
  <2> QED
    BY <1>1, <2>1, <2>3
<1>4. CASE ReplaceModel \/ Crash \/ \E n \in Revisions : Restore(n)
  BY <1>1, <1>4 DEF ReplaceModel, Crash, Restore
<1>5. CASE RecordRevision
  <2>1. PICK m \in Models, S \in SUBSET Recorded : m = job.model /\ S = job.stale
    BY <1>5 DEF IInv, TypeOK, RevisionJobs, ArtifactJobs, RecordRevision, InOrder
  <2>2. meta'.source = meta.source /\ meta'.stale = meta.stale \cup S
    BY <1>5, <2>1 DEF IInv, TypeOK, RecordRevision
  <2>3. Session!Commit(m, S)
    BY <1>5, <2>1, <2>2, HistoryGrows DEF Session!Commit
  <2> QED
    BY <2>3 DEF Session!Next, Session!Recorded, Recorded
<1>6. CASE RecordCards \/ \E cards \in Cards : RescopeUnmodelled(cards)
  <2>1. /\ meta'.current = meta.current /\ frozen' = frozen
        /\ meta'.source = meta.source /\ meta'.stale = meta.stale
    BY <1>6 DEF RecordCards, RescopeUnmodelled, IInv, TypeOK
  <2> QED
    BY <2>1 DEF Session!vars
<1>7. CASE RecordArtifact
  <2>1. job \in ArtifactJobs /\ job.source \in 1..meta.current /\ job.stale \subseteq {job.type}
    BY <1>7 DEF IInv, TypeOK, RevisionJobs, RecordArtifact, InOrder
  <2>2. /\ meta'.current = meta.current /\ frozen' = frozen
        /\ meta'.source = [meta.source EXCEPT ![job.type] = job.source]
        /\ meta'.stale = (meta.stale \ {job.type}) \cup job.stale
    BY <1>7 DEF IInv, TypeOK, RecordArtifact
  <2>3. meta'.stale \in {meta.stale \ {job.type}, meta.stale \cup {job.type}}
    BY <2>1, <2>2
  <2>4. Session!SaveDocument(job.type, job.source)
    <3> DEFINE h == [n \in 1..meta.current |-> frozen[n]]
    <3>1. h' = h
      BY <2>2
    <3> QED
      BY <2>2, <2>3, <3>1 DEF Session!SaveDocument
  <2>5. Len([n \in 1..meta.current |-> frozen[n]]) = meta.current /\ job.type \in Types
    BY <2>1 DEF IInv, TypeOK, ArtifactJobs
  <2> QED
    BY <2>1, <2>4, <2>5 DEF Session!Next
<1>8. ASSUME NEW changed \in SUBSET Slots, MarkStale(changed)
      PROVE  Session!Next
  <2>1. PICK S \in SUBSET Recorded : meta' = [meta EXCEPT !.stale = @ \cup S]
    BY <1>8 DEF MarkStale
  <2>2. /\ meta'.current = meta.current /\ meta'.source = meta.source /\ frozen' = frozen
        /\ meta'.stale = meta.stale \cup S
    BY <1>8, <2>1 DEF MarkStale, IInv, TypeOK
  <2>3. Session!MarkStale(S)
    BY <2>2 DEF Session!MarkStale
  <2> QED
    BY <2>3 DEF Session!Next, Session!Recorded, Recorded
<1> QED
  BY <1>2, <1>3, <1>4, <1>5, <1>6, <1>7, <1>8 DEF Next, Finish

\* To its callers a session is its history and its rows, and nothing between
\* the three writes of an apply, the two of a save, or a crash, ever shows.
THEOREM StoreImplementsVersionedSession == Spec => ImplementsVersionedSession
  BY SessionInit, SessionStep, StoreInvariant, PTL
     DEF Spec, ImplementsVersionedSession, Session!Spec
=============================================================================
