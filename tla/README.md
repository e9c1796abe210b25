# requivo in TLA+

Requivo keeps *sessions*: a request, a model of the product it asks for, a
history of revisions of that model, and the documents generated from it. A
session is a directory of plain files,

    .requivo/sessions/<slug>/session.json            metadata, revision log, document rows
    .requivo/sessions/<slug>/request.md
    .requivo/sessions/<slug>/model.json              the current model
    .requivo/sessions/<slug>/revisions/NNNN-model.json
    .requivo/sessions/<slug>/artifacts/*             the documents
    .requivo/locks/<slug>.lock                       the write lock
    .requivo/locks/<slug>.discovering                the guard of a first discovery

and any number of processes (command line, web application, HTTP API, MCP
server, an editor's plug-in) share it with no server between them. What makes
the code hard is therefore on disk: who may write when, what a death between
two writes leaves, and what is true of a result whose session moved on while a
language model was being paid to produce it. This directory specifies that part of
the code, checks it with TLC and proves with TLAPS what the checks find to hold.

Line numbers below are of `src/requivo/`.

## The system

| Component | State | Operations | What is hard | What makes it correct |
|---|---|---|---|---|
| session lock, `core/persistence/lock.py` | lock files, open descriptors, flocks, per-thread depth | `session_lock`, `unlink_on_release`, with `delete_session` and `create_session` | the file is unlinked while others wait on it; nesting; deadlines; deaths | one writer at a time; a writer keeps its session; nobody waits for ever |
| store, `core/persistence/store.py`, `atomic.py`, `models.py` | the session directory | create, delete, `save_revision`, `save_session_artifact`, migrate | several files, one logical write | nothing recorded is lost; every interruption is recognised and repairable |
| dependency graph, `core/dependencies.py` | none | `diff_models`, `diff_reasoning`, `propagate` | reasoning moves without slots | a document is flagged when something it rests on moved |
| session service, `services/sessions.py` | none of its own | `update_model`, `rescope`, `snapshot`, create, find | read-modify-write, optimistic locking | no lost update; flags land with the revision |
| artifact service, `services/artifacts.py` | none of its own | `save`, `mark_stale` | documents written from old revisions | the row names the revision the text came from, and is fresh only if nothing moved since |
| restore and verify, `deterministic/sessions/archives.py`, `core/integrity.py` | none | `session restore`, `session verify` | partial repairs | what it reports is what is wrong |
| discovery service, `services/discovery.py` | the `.discovering` guard | claim, route, ground, `start`, `run_discovery`, `answer`, `generate` | paid calls between a read and a write; abandoned claims; verdicts that delete | one payment per first discovery under the guard; only a session of one's own is deleted |
| archives, `services/archives.py` | backup and staging directories | export, import, forced import | two renames and no common lock with creation | an import is all or nothing; a rollback restores what was there |
| readiness and turns, `core/analysis.py`, `core/validation.py`, `core/contracts.py` | none | blockers, ranked questions, `ModelProposal.resolve` | partial proposals over an older model | nothing omitted is dropped; a ready model has no blocker |
| completion and spend, `providers/anthropic/completion.py`, `usage.py` | the ledger | complete with retry, record, check | failures after the money is spent | every attempt is recorded once; a ceiling is passed by one checked call at most |
| command line, `cli.py` | the model the drafting loop carries | `discover`, `run`, `answer`, `docs` and the generator verbs | a loop over paid turns that may stop anywhere | what was paid for is kept; what was answered is used |
| web, API, MCP, rendering, context cards, identifiers, doctor | none of their own | parsing, wording, lookups | | |

The surfaces call the services; the services call the store through a
repository interface; every compound write happens inside `session_lock`. Two
things take no lock: `create_session`, whose rename is its claim on the slug,
and the reads of `status`, `list` and `find_existing_session`. A caller that
needs the language model takes a `snapshot` under the lock, works with the lock
released, and writes with the revision it read as `expected_revision`.

`PROJECT.json` lists every component with its status, and the hazards, each at
the line where it bites.

## The modules

| Module | What it is |
|---|---|
| `SessionLock` | the lock, the deletion that runs inside it, the creation that does not |
| `MCSessionLock` | its instance for TLC |
| `SessionLockProofs` | its inductive invariant and theorems |
| `VersionedSession` | what a session promises: an abstract, atomic, versioned document store |
| `SessionStore` | one session's files, write by write, with crashes |
| `MCSessionStore` | its instance for TLC |
| `SessionStoreProofs` | its inductive invariant, theorems, and the refinement of `VersionedSession` |
| `SessionStoreDocuments` | what its snapshots, rows and flags are worth, proved on top of that |
| `Discovery` | claims, judgments and first discoveries of several invocations over the sessions of a workspace |
| `MCDiscovery` | its instance for TLC |
| `DiscoveryProofs` | its inductive invariant and theorems |
| `Archive` | one slug's directory: created, exported, imported, swapped, migrated, deleted, with deaths |
| `MCArchive` | its instance for TLC |
| `ArchiveProofs` | its inductive invariant and theorems |
| `Generation` | what is paid for: the judgments of a claim, turns, notes and documents, with retries, the ledger and the ceiling |
| `MCGeneration` | its instance for TLC |
| `GenerationProofs` | its inductive invariant and theorems |
| `Readiness` | operators: how a proposal is resolved, what blocks, what is asked, which decisions are flagged |
| `Turn` | the conversation over `Readiness`: drafted, nudged, asked, answered, saved, resumed |
| `MCTurn` | its instance for TLC |
| `TurnProofs` | lemmas about `Readiness`, the inductive invariant of `Turn` and its theorems |

`SessionStore` assumes of `SessionLock` what the latter establishes: between
taking and releasing the lock, nobody else writes. The recreated-slug exception
below is where that assumption fails. `Discovery` and `Generation` assume the
same, and of `SessionStore` that one apply or one save lands or is refused as a
whole; of a claim `Discovery` has what happens to slugs and sessions, and
`Generation` what is called and charged; `Turn` is the conversation of one person
inside what `Generation` does to the session.
`Archive` looks at the directory as a whole where `SessionStore` looks at its
files.

Operators called *faulty variants* in the comments are not part of a
specification: each is a definition next to it with a plausible mistake in it,
and each property is known to fail when one is put in.

### SessionLock

A flock belongs to an open file and not to a path, so the path (`link`), each
thread's open descriptor (`fd`) and each inode's holder (`flock`) are separate
variables. `session_lock` (lock.py:176-232) is the actions `Precheck`, `Open`,
`Acquire` or `TimeOut`, `Recheck` or `Refuse`, `Nest`, `Unnest`, `Leave` and
`LateUnlink`: one action per system call or check between which another thread
may act. `delete_session` (store.py:231-244) is `RemoveSession` and
`UnlinkHeld`, inside the block; `create_session` (store.py:195-228) is `Create`,
which needs no lock. `Crash` closes a dead thread's descriptors. An inode that
nothing names or holds open may be minted again, as file systems do.
An import's rename is a creation like any other here; failures of flock other
than a held lock are left out.

The properties:

- `ExclusiveUntilRecreated`, `WriterKeepsItsSession`: until a deleted slug is
  created again, no two threads run the locked block, and a writer's session is
  not deleted under it, although the lock file is unlinked with others waiting
  on it.
- `NoOrphanedLock`: no refusal, deadline, nesting or death leaves an inode
  locked by a thread that is not on its way to unlocking it.
- `WaiterIsAnswered`: whoever polls for the lock gets it or is refused.

The run `lock_recreated` shows why the first two stop at a re-creation. A
thread waits on the lock file; the holder deletes the session and the file, and
leaves; someone creates the slug anew; the waiter is granted the flock of the
unlinked inode, the check at lock.py:215 finds *a* session, and it enters, while
a second thread locks the file now under the name. `session_lock`'s docstring
has the lock "exclusive across threads and processes".

Bounds: three threads (a holder, a waiter and a late-comer: the shortest
counterexample needs no fourth), two of which delete, four inodes (one per
thread and a stale one), two frames of nesting. `lives` counts creations and
stops at two, where every guarantee that depends on it has ended.
Fairness: `Lock(p)` is weakly fair, because a thread in `_acquire` is in a loop
that polls every 20 ms until the lock or the deadline comes, and nothing else is:
a holder may stay for ever. In the implementation the deadline is 30 seconds;
the model lets it come at any failed poll.

### SessionStore

One session, many callers. The state is the files: `meta` (session.json),
`frozen` (the revisions), `model` (model.json), `files` (the documents). `job`
is the operation inside the lock and how far its writes have come, `seen` what
each caller last read. `save_revision` (store.py:247-295) is three writes, hence
`SaveRevision`, `ReplaceModel`, `RecordRevision`; `rescope` adds `RecordCards`;
a document is `SaveArtifact` and `RecordArtifact`. `Crash` may come between any
two. A file is replaced whole (atomic.py:11-33), so no action shows half of one.
`Restore` is `session restore`; `Problems` are the findings of `session verify`
that concern the log, the model and the documents.

A model is a function from its parts to values: the slots, the reasoning layer
as one part, and parts no document reads. A document's text is the model it was
written from, so that "fresh" can be compared with the truth.

The ghost `torn` remembers whether a crash, or a restore of an older revision,
has left files that disagree; `"apply"` for the tear the format documents.

- `OnlyTears`: whatever happens, `session verify` finds at most the three
  findings docs/session-format.md expects of an interruption. No recorded
  revision or document is lost or misrecorded.
- `ApplyHeals`: a revision that lands leaves nothing to find.
- `FreshUnlessTorn`: a document reported fresh agrees with the current model in
  every part it consumes, however old the revision it was written from and
  whatever was saved, flagged or rescoped in between.
- `RowNamesItsSource`: a document's row names the revision it came from.
- `NoLostUpdate`: an apply that names the revision it read lands on it, and on
  the very model it read.
- `RescopeKeepsTheModel`: a rescope's revision is the model of the one before.
- `ImplementsVersionedSession`: with `history`, `source` and `stale` read off
  the files, every step is a step of `VersionedSession` or none at all.

The run `store_torn` shows what the condition on `torn` is for. A document is
written from revision 1; an apply dies after replacing model.json; the same
proposal is applied again, as docs/session-format.md advises. It is compared
with model.json, which holds it already, so nothing is flagged. `session verify`
is clean, and the document is reported fresh over a model it was not written
from.

Bounds: three revisions (one to write from, one to tear, one to land after it);
three models that differ in the slot one document reads, or in the reasoning
alone; a document that reads one slot and one that reads two; two card
selections. One client is enough: its snapshot may be of any age when it
writes, and the writes in between are any other client's. `MaxRev` is the one
bound in a guard; a session that has reached it stops changing, so deadlock is
not checked here.

### Discovery

A process is one invocation: `requivo discover` with or without a prompt, the
web form, or a first discovery of a session that exists. `store` is the sessions
by slug, reduced to their identity (request, cards, perimeter), whether there is
a model, and the router's verdict; `guard` is who holds `<slug>.discovering`;
`at` is where each invocation is, with what it carries from step to step.

- `Claim`, `ClaimOnTheWeb`, `Run`: the three ways in.
- `Look`, `Create`, `Compare`, `Welcome`: `create_session_report`
  (services/sessions.py:304-348) and the lookup before it. The calls of it in a
  claim, a re-claim for a perimeter or for cards, `start` and
  `finalize_discovery` are told apart by `phase`.
- `GuardClaim`, `Route`, `Reroute`, `Note`, `Ground`, `Narrow`, `BackOut`,
  `Settle`: `claim_and_ground` (discovery.py:471-601) between the calls of the
  provider. `Reclaim` is `_reclaim_under`, `Deletable` the condition of
  `_delete_if_safe`.
- `Check`, `Enter`, `Recheck`, `Pay`, `Draft`, `Apply`: the paid turn.
- `CreateByHand`, `ApplyByHand`, `DeleteByHand`: whoever takes no guard.

The properties:

- `PaidOnceUnderGuard`: no two of `start` and `run_discovery` pay at once for one
  session, and none pays for one that another of them has landed on. The look before
  the guard does not count, the one inside it does. Excepted from the second half is
  where a discovery lands that has lost its session, to a user (`deleted`) or to the
  claim that made it (the ghost `stranded`): `finalize_discovery` then creates a
  suffixed session, whose guard it does not hold, and another discovery may be paying
  for that one already.
  Interactive drafts are no part of it. `converse` pays for turn after turn through
  `draft_turn` (discovery.py:682-696), which takes no guard: the action `Draft`, at the
  step `"drafting"`. In this model two drafts, or a draft and a `start`, pay for one
  session at once within ten steps, and the one that lands second is refused
  (`expected_revision=0`) after it has been paid for. What a draft lands counts as
  applied by hand.
- `JudgedInPeace`: while a claim is judged, nobody pays for a discovery of the
  session it created, on a suffixed slug or after a re-claim as well. Drafts are
  beside the point here too: a draft whose session a user deletes goes on beside the
  next claim of its slug.
- `NoGuessSurvives`: an empty session under a guessed perimeter is the work of a
  claim that is still under way, or of one that died. A repeated request would
  find it, take the guess for a decision, and never ask the router.
- `DeletesOnlyItsOwn`: a verdict or a refused guard deletes a session only if
  this very call created it and it is still empty, a slug excepted whose session
  a user has deleted.
- `NoGuardLeaks`: a guard is held by an invocation at work, on every way out.

The run `discovery_deleted` shows what the exception is for. A claim creates a
session; while the router is being asked, a user deletes it and creates another
under the slug; the verdict deletes the other one. `_delete_if_safe` knows that
its call created a session of that slug, and checks that the session of that
slug is empty; it does not compare `session_id`.

The run `discovery_unguarded` shows why `JudgedInPeace` begins at the first
judgment. A claim whose base slug is another request's creates the suffixed
session (discovery.py:533) before it takes that slug's guard (537). A discovery
of the new session takes it first and pays; the claim is refused, backs out, and
deletes the session that is being paid for.

One step is one operation of the store. Coarser than the code: the reads of one
lookup are one step, as are the flock of a guard and the opening of its file
(which nobody unlinks). Left out: a provider that cannot judge, in which case
the claim goes on under the default perimeter; the card that an uncovered verdict
writes, which narrows like any other; `--lang`; the brief bought after the
discovery; a lock that is not had by its deadline, which ends the call as a
failed judgment does. A prompt that asks for one of several perimeters is a
second invocation that names it.

Bounds: two invocations (every property relates two, or one and a user; users
are unlimited in number; the exception of `PaidOnceUnderGuard` for a session that a claim
deleted takes three, and was found by the proof), two actions by hand (the shortest counterexample has a
deletion and a creation), two requests that suggest one slug, three slugs: the
base and a suffixed one for each perimeter. Different identities may share a
suffix, as hashes may. `MaxByHand` is the one bound in a guard. Invocations end,
so deadlock is not checked. No liveness is stated: a provider may never answer.

### Archive

The directory under one slug: `path` with its parts (session.json, the rest, the
documents of a migration), `aside` the directories a forced import has moved to
hidden names, `lock` as `SessionLock` gives it, and `at` the operation each
process is in the middle of.

- `Create`, `Delete`, `RemovePart`, `RemoveDir`: store.py:195-244. A removal
  takes the parts one by one; a creation's rename may take the emptied
  directory's name before its last rmdir.
- `Apply`, `Record`: `save_revision` in the two writes that can disagree, so that
  an export or a death has something to find half done.
- `Export`, `Zip`: `export_archive` (archives.py:56-66), file after file.
- `Import`, `Guard`, `Claim`: `import_archive` (201-272). Whether the slug is
  taken is decided before the unzip; the rename is the claim.
- `StepAside`, `MoveIn`, `RollBack`, `Clear`: `_swap_in` (139-164), with renames
  that may fail. `Identity` is `_identity`: the inode, which the system may give
  to another directory once the first has gone, and the `session_id`.
- `Migrate`, `Stamp`, `MigrateModel`, `MigrateRecord`, `MigrateDocuments`:
  `migrate_legacy` (store.py:362-416), whose claim comes before its lock.
- `Crash` may come in the middle of any of them.

The properties:

- `NoSessionLost`: until a session is deleted, or a swap has put another in its
  place, it is on disk whole, under its slug or its hidden name.
- `PutBackOrCleared`: what a swap moved aside is put back or cleared away, unless
  it died, or a session was created in the moment the slug was free: then its
  rename fails, the rollback's rename fails as well, and the old session stays
  under the hidden name. `create_session` takes no lock, so the comment in
  `_swap_in` holds for writers only.
- `SlugIsWhole`: nobody finds half a session, unless a deletion is under way or
  has died.
- `ForceReplacesWhatItSaw`: `--force` replaces the session it was told to.
- `ExportIsOneInstant`: an archive's files disagree only where the session's did.
- `MigratesIntoItsClaim`: a migration stamps its own session, or one that has
  taken the slug because its own was deleted, replaced or moved aside.

Coarser than the code: the reads of one check are one step, and so is a forced
import's recursive removal of the backup. A failed write counts as a death. The
limits and path checks of `_inspect_archive`, which refuse an archive before
anything is written, are left out: an archive is an export of this workspace or
a coherent one of another.

Bounds: two processes (every race is between two), two directories that come
under the slug (`MaxBorn`: the one replaced and the one that replaces it; the
ghosts name them), one revision after revision 0 (`MaxRev`: enough for files to
disagree). Both are in guards, so deadlock is not checked. No liveness is stated:
a swap that dies is never finished by anyone.

### Generation

`session` is the session under a slug, one step per operation of its store;
`at[c]` is an invocation with what it still has to do (`docs` generates several
documents; `discover` has its request routed and grounded, then discovers and goes
on to the brief), what it read, and its ledger. An operation takes one `Snapshot`,
makes its paid `Call`, and writes against the revision it read. Meanwhile users
`ApplyByHand`, `Rescope`, `Delete` and `CreateByHand`.

- `Claim`, `Route`, `Routed`, `Ground`, `Grounded`: the two judgments of
  `claim_and_ground` (discovery.py:471-601), on the ledger that the discovery after
  them goes on with (cli.py:1274). Either may be skipped, as for a perimeter or
  cards that were chosen. `Call` consults the ceiling and pays; `judge_grounding`
  (412-428) consults nothing, so `Ground` is `Pay` alone. What a verdict does to the
  session is `Discovery`'s; its deletions and re-claims are `Delete` and
  `CreateByHand` here.
- `Claim`, `Discover`, `Land`: `start` and `run_discovery` under the guard
  (discovery.py:637-718).
- `Answer`, `Fold`, `Note`, `Explained`: `answer` and the `change_note` that may
  follow (721-772).
- `Generate` with `Absorb` or `Unabsorbed`, `FileBrief`, `FileView`;
  `FileStories`; `FileBasis`, `Estimate`, `FileEstimate`: the three arms of
  `generate` (822-953).
- `Reply`, `Retry`, `Lose`, `Cut`: `_complete`'s loop (completion.py:179-285) and
  what each exit records; `MaySpend` is `SpendPolicy.check` (usage.py:106-125).

Of the types, the decision brief stands for the assessments, the consultant's
view for their companions, the stories for the plain documents, and the estimate
for itself. A model is its slots (`facts`) and its reasoning (`why`); every type
rests on both here, as `SessionStore` has the types apart.

The properties:

- `RowNamesWhatItWasWrittenFrom`: a row's revision has the facts the document was
  rendered from, and its reasoning, unless the model refused that reasoning.
- `FreshIsCurrent`: a document shown as fresh says what the model says now,
  however late it was filed.
- `AbsorbsWithoutUndoing`: absorbing a brief's reasoning never undoes a turn that
  landed while the brief was being paid for.
- `SpendIsRecorded`: whatever way a call ends, short of an interrupt, the ledger
  has what its attempts were billed.
- `CeilingPassedByOneCheckedCall`: an invocation passes the ceiling by the attempts of
  one call that was checked, and by those of the grounding judgment where it was made;
  with a provider of no known rate it makes one call, and that judgment. The code's
  comments have every call checked (see below, where code and documentation differ).
  Without the exception the property fails in ten steps: a routing call that is
  retried reaches the ceiling, the grounding judgment is called all the same, and its
  retry passes it; and in seven with no rate on file. That the exception is the only
  one is what the property adds: routing, first turn, answer, note, brief, stories
  and estimate are all refused at the ceiling, in whatever order one ledger meets them.
- `CountedOnce`: the revisions of one invocation never carry a call twice.

The rows judged are those of the session that was read: no save compares
`session_id`, and a session deleted and created again during a call may be given
the other's document.

The run `generation_unabsorbed` drops the exception. The brief's apply loses to
a rescope; the code files the brief against the revision it was written from,
says that it is "now flagged stale", and `_stale_since`, which compares models,
finds that nothing moved: the row is fresh, over reasoning the model never got.

Bounds: two invocations of one verb each (a first discovery; one that is routed,
grounded, started and has a brief; an answer; an estimate; or two documents); two facts and two reasonings,
enough to differ; one retry (two in the code: both outcomes of a retry exist);
a ceiling of two units, one attempt costing one, so that a second call may pass
it; three revisions of a first session and one of a second (`MaxRevs`, in a
guard, so deadlock is not checked). The ceiling is what an embedding program
injects; the command line sets none, which the invocations that stay under it
cover. No fairness: a provider may never answer.

### Readiness and Turn

`Readiness` has no state. A model maps slots to what they hold, or to `Absent`
where a session is older than its schema. `Resolve` is `ModelProposal.resolve`
with `SettleEvidence` (contracts.py:396-484); `Blockers`, `UnaskedBlockers`,
`InformationValue` and `RankedQuestions` are analysis.py:87-264; `Review` is
`SessionService.thinner_evidence` over the frozen revisions (sessions.py:510-561,
dependencies.py:427-460). Evidence is one of five kinds, as far as the code tells
its texts apart: none, the client's words, a pointer at an earlier turn, or
opening with the mark of a slot that was delegated or that cannot be answered.

`Turn` is the conversation. `Discover`, `Tell`, `TellLast` with `End` are
`converse` (cli.py:139-173) and what `_cmd_discover` saves after it, or
`_rescue_drafted` after a failure; `Resume` and `Tell` are `_resume_run`
(482-506), where every answer is a revision. `Malformed`, `Nudge`, `Fail` and
`Reply` are the provider's `run` (generators.py:35-77) in its retry loop. An
answer's apply is `Applied`: what moved is sent and resolved once more
(discovery.py:739-747).

- `NotReadyAsks`: a turn that is not ready always has a question to ask, and a
  loop that says it has converged has nothing that blocks.
- `NeverAskedAgain`: what the client delegated or cannot answer is asked again
  only when a turn brings the client's own words, or says that it was delegated and
  chooses nothing; not when a turn restates it, points backwards, or leaves it to
  the schema's probe.
- `AppliesWhatItReasoned`: the second resolution of an answer changes nothing.
- `StaysFlagged`: a decision flagged as derived from thinner evidence stays
  flagged while it stands and its slots stay explicit, whatever revisions land.

The run `turn_limit` follows the drafting loop to its last turn: it asks, the
client answers, and the loop is over. The answers are in no draft and no
revision.

Left out: claims, the summary and the objective, test plans, the other reasoning
collections, several questions on one slot, the order the engine gives questions
of equal value, a rescue that cannot save, fields of a newer version.

Bounds: two slots, of which one has eight things that can be said of it (each
confidence, each kind of evidence, and a change of value with and without the
client's words) and the other may be missing; a decision that rests on both; a
cap of one question (nine in the code), so that the cap bites; one retry (two),
so that a nudge may be the last attempt; two turns (eight), so that one is the
last; three revisions. A session that has reached `MaxRev` stops, so deadlock is
not checked.

## What is proved

Every safety property and every action property of the passing runs is a theorem
of its specification, for every value of the constants under these assumptions:
`LockAssumption`, `StoreAssumption`, `DiscoveryAssumption`, `ArchiveAssumption`,
`GenerationAssumption`, `ReadinessAssumption` and `TurnAssumption` say what the
constants are (threads, inodes, models, slugs, slots, decisions are arbitrary sets,
finite or not, and a bound is any natural number); `IdleAssumption`,
`NothingAssumption` and `MarksAssumption` say that a sentinel is not one of the
values that it stands beside. None says anything about behaviour, and the runs
evaluate all of them.

Each proof has one shape: an invariant `IInv` that is inductive, one lemma per
action (or per kind of step) that it is kept, a theorem `Spec => []IInv`, and the
properties drawn from it. Each `IInv` has been checked by TLC on the instance of
its run before it was proved. What each adds to the properties, and why:

`SessionLockProofs`. Mutual exclusion until the re-creation is not inductive: a
state in which a thread waits on an inode the path no longer names looks
harmless, and its next steps lead inside the block. The invariant adds
which threads have a file open and hold its flock at each step (`OpenFiles`,
`NoOrphanedLock`), that nobody is in `session_lock` before there is a session
(`QuietAtFirst`), that an unlink is pending only on a delete's way out
(`Requests`) and, the heart of it, that while the first session is there every
open lock file is the one the path names and no delete is under way (`OneFile`):
whoever then passes the authoritative check holds the one flock there is, and
once the session is gone nobody passes it. From `LockInvariant` follow
`LockTypes`, `LockExclusive`, `LockProtectsWriters` and `LockNeverOrphaned`.

`SessionStoreProofs`. The log is 1..N in order and each record
matches its frozen file (`HistoryIntact`), no frozen file lies beyond the
next number (`NothingBeyond`), model.json exists once a revision does
(`ModelThere`), every snapshot and every job names revisions that exist
(`SnapshotsKnown`), a recorded document has its file and a source in the
history (`DocumentsKept`), and the writes of a job come in order
(`InOrder`). Without the last, `RecordRevision` could record a revision whose
frozen file was never written. From `StoreInvariant` follow `StoreTypes`,
`StoreLosesNothing`, `StoreApplyHeals` and, with the step-by-step simulation of
`SessionStep`, the refinement `StoreImplementsVersionedSession`.

`SessionStoreDocuments` adds what holds while nothing is torn: model.json is the
last frozen revision but for the moment between the second and the third write
(`ModelIsLast`), so that snapshots, rescopes, rows and flags, which are read from
it and compared with it, agree with the history, which never changes
(`SnapshotsTrue`, `RescopeCarries`, `RowsTrue`, `FlagsTrue`). The lemma
`OutOfDateIsExact` says of the dependency graph that a document it does not name
reads the same in both models. `StoreFreshUnlessTorn`, `StoreRowNamesItsSource`,
`StoreNoLostUpdate` and `StoreRescopeKeepsTheModel` follow.

`ArchiveProofs`. The properties say where a session is; the invariant says in whose
hands. The lock is held at exactly the steps that need it (`Held`), the slug's path
and the hidden names never show the same directory (`Apart`), whoever is between
two writes finds the directory it began with or knows that it has lost it
(`Handled`, `ClaimStands`), and what is aside has ended, has lost its name, or is
in the hands of the one swap under way (`Displaced`, `AsideIsWhole`). From
`ArchiveInvariant` follow the seven properties. `ArchiveForceReplacesWhatItSaw`
is close to the guard of `_swap_in`, and says that no other step leads there.

`GenerationProofs`. As long as the session is the one that an operation read, the
model it works from has the facts of the revision it names, and its reasoning but
for a brief's that is not absorbed (`HasRead`, `Fits`, `Basis`); so have the rows on
file, and an unflagged one is about the last model (`RowsStand`). No session is
read again under the number of another (`Numbered`). `Accounts` is the ledger: what was
billed is what is recorded and what the call under way has used, a call under way
was allowed or is the grounding judgment, and at most one call is of unknown cost
besides that judgment. An invocation makes the judgment once, after which none of
its operations judges (`GroundedOnce`), and only it adds to a ledger at the ceiling
(`Charged`): hence the exception's size in `GenerationCeiling`, of one call's attempts.
The ceiling is any number but zero, as the retries are any number; the ledger is kept
as totals, which is all that `SpendPolicy` and the stamp on a revision read of it.

`DiscoveryProofs`. What `start` and `run_discovery` pay is paid under the guard of the
slug at hand (`Guards`), so no two of them can be paying; a draft's turns are not; that none is made where another has landed needs where a
discovery lands: on the session it was paid for, as long as nobody takes it away
(`Rooted`, `Lands`). A claim's session is there until the claim deletes it or a
user does (`Owns`), and a session under a guess is the one at hand of a claim that
may still confirm it or delete it (`Guesses`, with the flow of a claim in `Flow` and
`Judged`). Steps of others keep all of it as long as they keep to a frame (`Keeps`).

`TurnProofs` begins with lemmas about the operators of `Readiness`. `SettledOnce`:
settling evidence twice against one model is settling it once, hence
`AppliedIsReasoned`, for every proposal and model. `SomethingIsAsked`: however
questions are ranked and capped, a candidate is left, because information values are
percentages, places are natural numbers, and a set of natural numbers has a
least one. `BlockersAsk`: hence a blocker is asked about, by the engine or by a
probe. `MarkStands`, `MarkedIsNotAsked`: the mark of a delegated or deferred slot
survives a turn without the client's words, and keeps the slot out of both ways to
be asked. `DerivedForGood`: a revision more does not move the one that a
decision was derived at. The invariant itself is small: between calls the model at
hand is the one that was reasoned (`Agreed`), and a draft has no session yet while
an answer has room for its revision (`Unsaved`).

What the proofs changed: `PaidOnceUnderGuard` was false for three invocations (a claim backs
out and deletes the session that another invocation is discovering, which lands on
a suffixed slug where a third is paying), which two do not show, and has its
exception for it now; `NeverAskedAgain` was false of a turn that says "delegated"
and chooses nothing, which the engine of the run could not say, and now can; and the
ledger was a sequence of calls whose sum no proof could speak of.

Only model-checked: `WaiterIsAnswered` (liveness under fairness is out of the proof
system's reach) and the violation runs, whose properties are false. That `InformationValue` ranks
as the code's floating point does is not proved: of its values the proofs use that
they are percentages, and the order of the questions stays as the run has it.

## Where code and documentation differ

Six runs expect a violation, each of a property that states what a comment, a
docstring or a page of the documentation says:

| Run | What is said | What happens |
|---|---|---|
| `lock_recreated` | the lock is exclusive | two writers, after a deletion and a re-creation |
| `store_torn` | re-applying repairs a torn apply | a document of the older model stays fresh |
| `discovery_deleted` | only what this call created is deleted | a re-created session is |
| `discovery_unguarded` | a claim under judgment refuses a discovery | not before its guard is taken |
| `generation_unabsorbed` | an unabsorbed brief is flagged stale | not after a rescope |
| `turn_limit` | answers are fed back | not those of the last turn |

Two more have no run of their own. Each is excepted from a property by name, and
the passing run reaches the case:

- The grounding judgment is not checked against the ceiling. `SpendPolicy` is
  "consulted by `DiscoveryService` before every provider call" (usage.py:98-101),
  "at every call site so an operation's second call is refused too"
  (discovery.py:373-375), and so says the changelog (CHANGELOG.md:845).
  `judge_grounding` calls the provider at discovery.py:428 with no `_check_spend`,
  on the ledger of the routing call before it, which does check (443). No surface
  sets a ceiling today; a program that embeds the service may.
- Interactive drafts take no guard. `_discovery_guard` is to "refuse a second,
  concurrent first-discovery on `slug` before it can pay" (discovery.py:235), and
  tests/test_discovery.py:238 has two "not both pay, through either door", the doors
  being `start` and `run_discovery`. `draft_turn` is a third, and two drafts of one
  request both pay, as does a draft beside a `start`.

## Not modelled

Of the store: Windows' locking primitive beyond its refusal to unlink an open
file; failed writes that raise instead of dying (they leave what a crash leaves,
or less); stores other than the file store, with their two-write fallback for
the flags (sessions.py:691-694); metadata that no write depends on (timestamps,
provenance beyond the calls it counts, language, the note on a perimeter). Two
writers after a re-creation are in `SessionLock` only: `SessionStore` is the
store as it is when its lock holds.

Of the program: the web application, the HTTP API and the MCP server, which
parse requests and call the services; the web's read-once spend figure, whose
race between two tabs its own comment accepts; rendering, prompts, context cards,
perimeters, identifiers, doctor. They keep no state between calls, and what they
get right or wrong is wording, layout and parsing, which examples test better
than a state space does.

Of the repository: `.oss/`, a quarter of its lines, is tooling managed and
overwritten by a plugin; `scripts/` replays recorded replies for development.
Neither is part of the program. Much of the program proper is rendering,
argument parsing, data contracts and messages, which is why the share of lines
the modules stand for stays small although every component that writes is
modelled.

## Plan

What is left:

1. `Generation` and `SessionStore` meet in `Apply` and `Save`: an abstract session
   that both implement, so that what `Generation` takes for granted of the store is
   a theorem and not a remark.
2. `Discovery`: that a guard is held from the look inside it to the landing, as an
   action property of its own; the drafts beside it, and the unchecked judgment of
   `Generation`, as runs that expect a violation.
3. `Readiness`: that the cap displaces a question only by others of at least its
   value, for every model.
