------------------------------ MODULE Archive ------------------------------
(***************************************************************************)
(* The directory of one slug over its life: created, applied to, exported, *)
(* deleted, imported over, migrated from the retired out/ layout.          *)
(* `Store.create_session`, `delete_session`, `migrate_legacy`, and         *)
(* services/archives.py.                                                   *)
(*                                                                         *)
(* A creation and a plain import take no lock: the rename that puts their  *)
(* directory under the slug is their claim.  Everything else runs under    *)
(* the session's lock, taken here as SessionLock gives it.  A rename onto  *)
(* an empty directory succeeds and onto any other fails, as POSIX has it.  *)
(*                                                                         *)
(* A removal is one step per part of the directory; whatever is assembled  *)
(* aside and moved in with a rename is there at once.  Directories are     *)
(* numbered as they come under the slug: born is a name for a directory,   *)
(* which its inode is only while it exists.                                *)
(***************************************************************************)
EXTENDS Naturals, FiniteSets

CONSTANTS Procs,
          MaxBorn, \* bound: directories that come under the slug
          MaxRev,  \* bound: revisions of a session
          Gone,    \* a part of a directory that has been removed
          Nobody,
          Nothing  \* no directory under the slug

ASSUME ArchiveAssumption ==
    /\ MaxBorn \in Nat /\ MaxRev \in Nat \ {0}
    /\ Gone \notin Nat
    /\ Nobody \notin Procs

VARIABLES path,     \* the directory under the slug, or Nothing
          aside,    \* directories that forced imports moved to hidden names
          lock,     \* who holds the session's lock
          at,       \* at[p]: the operation p is in the middle of
          archives, \* the last export, and one from another workspace
          born,     \* how many directories have come under the slug
          ended,    \* ghost: sessions deleted, or replaced by a forced import
          torn,     \* ghost: sessions in which an apply has died
          died,     \* ghost: sessions whose importer or deleter has died at work
          slipped   \* ghost: sessions over which another was created meanwhile

vars == <<path, aside, lock, at, archives, born, ended, torn, died, slipped>>

\* session_id: 0 is the one a migration derives from the slug, the last one comes
\* with an archive of another workspace, and a creation draws its own.
LegacyId == 0
ForeignId == MaxBorn + 1
Ids == 0..ForeignId

Births == 1..MaxBorn
Revisions == 0..MaxRev

\* meta is the revision session.json is at, rest the one the other files are at.
Dirs == [born : Births, sid : Ids, from : {"request", "legacy"},
         meta : Revisions \cup {Gone}, rest : Revisions \cup {Gone}, docs : {"none", "some"}]

Zips == [of : 0..MaxBorn, sid : Ids, from : {"request", "legacy"},
         meta : Revisions, rest : Revisions \cup {Gone}, docs : {"none", "some"}]

ASSUME NothingAssumption == Nothing \notin Dirs

Foreign == [of |-> 0, sid |-> ForeignId, from |-> "request", meta |-> 1, rest |-> 1, docs |-> "some"]

Steps == {"idle", "removing", "recording", "exporting", "guarding", "claiming",
          "swapping", "moving_in", "rolling_back", "clearing", "claimed", "stamped", "modelled",
          "documenting"}

\* seen and sid: the session a forced import was told to replace, or a migration
\* claimed; rest: what an export has read.
Places == [step : Steps, zip : Zips, seen : 0..MaxBorn, sid : Ids, rest : Revisions \cup {Gone}]

TypeOK ==
    /\ path \in Dirs \cup {Nothing}
    /\ aside \subseteq Dirs
    /\ lock \in Procs \cup {Nobody}
    /\ at \in [Procs -> Places]
    /\ archives \subseteq Zips
    /\ born \in 0..MaxBorn
    /\ ended \subseteq Births /\ torn \subseteq Births
    /\ died \subseteq Births /\ slipped \subseteq Births

Idle == [step |-> "idle", zip |-> Foreign, seen |-> 0, sid |-> 0, rest |-> 0]

Init ==
    /\ path = Nothing
    /\ aside = {}
    /\ lock = Nobody
    /\ at = [p \in Procs |-> Idle]
    /\ archives = {Foreign}
    /\ born = 0
    /\ ended = {} /\ torn = {} /\ died = {} /\ slipped = {}

----------------------------------------------------------------------------
In(p, step) == at[p].step = step
Goto(p, step) == at' = [at EXCEPT ![p].step = step]
Return(p) == at' = [at EXCEPT ![p] = Idle]

\* session_exists: there is a session.json.
Exists == path # Nothing /\ path.meta # Gone
Empty == path # Nothing /\ path.meta = Gone /\ path.rest = Gone

\* What a rename onto the slug's path succeeds over.
Free == path = Nothing \/ Empty

Whole(d) == d.meta # Gone /\ d.rest # Gone

\* session_lock: refused when there is no session.
Lock(p) == lock = Nobody /\ Exists /\ lock' = p
Unlock(p) == lock = p /\ lock' = Nobody

\* A new directory takes the name; sessions that are aside then have lost it.
Land(d) ==
    /\ Free
    /\ born < MaxBorn
    /\ born' = born + 1
    /\ path' = [d EXCEPT !.born = born + 1]

Slip == slipped' = slipped \cup {d.born : d \in aside}

Fresh(from) == [born |-> 1, sid |-> IF from = "legacy" THEN LegacyId ELSE born + 1, from |-> from,
                meta |-> 0, rest |-> 0, docs |-> "none"]

Unzipped(zip) == [born |-> 1, sid |-> zip.sid, from |-> zip.from,
                  meta |-> zip.meta, rest |-> zip.rest, docs |-> zip.docs]

----------------------------------------------------------------------------
(* create_session and delete_session                                       *)

Create(p) ==
    /\ In(p, "idle")
    /\ Land(Fresh("request"))
    /\ Slip
    /\ UNCHANGED <<aside, lock, at, archives, ended, torn, died>>

\* rmtree, under the lock: the parts go one by one, in any order.
Delete(p) ==
    /\ In(p, "idle")
    /\ Lock(p)
    /\ at' = [at EXCEPT ![p].step = "removing", ![p].seen = path.born]
    /\ ended' = ended \cup {path.born}
    /\ UNCHANGED <<path, aside, archives, born, torn, died, slipped>>

RemovePart(p) ==
    /\ In(p, "removing")
    /\ path # Nothing /\ path.born = at[p].seen
    /\ \/ path.meta # Gone /\ path' = [path EXCEPT !.meta = Gone]
       \/ path.rest # Gone /\ path' = [path EXCEPT !.rest = Gone]
    /\ UNCHANGED <<aside, lock, at, archives, born, ended, torn, died, slipped>>

\* The last rmdir fails when a creation has taken the emptied directory's name.
RemoveDir(p) ==
    /\ In(p, "removing")
    /\ \/ Empty /\ path.born = at[p].seen /\ path' = Nothing
       \/ (path = Nothing \/ path.born # at[p].seen) /\ UNCHANGED path
    /\ Unlock(p)
    /\ Return(p)
    /\ UNCHANGED <<aside, archives, born, ended, torn, died, slipped>>

----------------------------------------------------------------------------
(* save_revision, in the two writes that can disagree                      *)

\* Faulty variant: the revision is numbered after the files, not after session.json.
ApplyAfterFiles(p) ==
    /\ In(p, "idle")
    /\ Lock(p)
    /\ path.meta < MaxRev
    /\ path.rest # Gone
    /\ path' = [path EXCEPT !.rest = path.rest + 1]
    /\ Goto(p, "recording")
    /\ UNCHANGED <<aside, archives, born, ended, torn, died, slipped>>

\* An apply reads the current model first, if there has been one.
Apply(p) ==
    /\ In(p, "idle")
    /\ Lock(p)
    /\ path.meta < MaxRev
    /\ path.rest = Gone => path.meta = 0
    /\ path' = [path EXCEPT !.rest = path.meta + 1]
    /\ Goto(p, "recording")
    /\ UNCHANGED <<aside, archives, born, ended, torn, died, slipped>>

Record(p) ==
    /\ In(p, "recording")
    /\ path' = [path EXCEPT !.meta = path.rest]
    /\ Unlock(p)
    /\ Return(p)
    /\ UNCHANGED <<aside, archives, born, ended, torn, died, slipped>>

----------------------------------------------------------------------------
(* export_archive                                                          *)

\* Faulty variant: an export that takes no lock.
ExportUnlocked(p) ==
    /\ In(p, "idle")
    /\ Exists
    /\ at' = [at EXCEPT ![p].step = "exporting", ![p].rest = path.rest]
    /\ UNCHANGED <<path, aside, lock, archives, born, ended, torn, died, slipped>>

\* The files are read one after the other, session.json last.
Export(p) ==
    /\ In(p, "idle")
    /\ Lock(p)
    /\ at' = [at EXCEPT ![p].step = "exporting", ![p].rest = path.rest]
    /\ UNCHANGED <<path, aside, archives, born, ended, torn, died, slipped>>

Zip(p) ==
    /\ In(p, "exporting")
    /\ Exists
    /\ archives' = {Foreign, [of |-> path.born, sid |-> path.sid, from |-> path.from,
                              meta |-> path.meta, rest |-> at[p].rest, docs |-> path.docs]}
    /\ lock' = IF lock = p THEN Nobody ELSE lock
    /\ Return(p)
    /\ UNCHANGED <<path, aside, born, ended, torn, died, slipped>>

----------------------------------------------------------------------------
(* import_archive                                                          *)

\* Faulty variant: the archive's session is not checked.
AnyArchive(zip) == TRUE

\* _validate_extracted: what session verify would say of the unzipped directory.
Coherent(zip) == zip.meta = zip.rest

\* Whether the slug is taken is decided here, before the unzip, and so is the
\* session that --force was told to replace.
Import(p, zip, force) ==
    /\ In(p, "idle")
    /\ Exists => force = "yes"
    /\ Coherent(zip)
    /\ at' = [at EXCEPT ![p] = [step |-> IF Exists THEN "swapping" ELSE "guarding",
                                zip |-> zip, rest |-> 0,
                                seen |-> IF Exists THEN path.born ELSE 0,
                                sid |-> IF Exists THEN path.sid ELSE 0]]
    /\ UNCHANGED <<path, aside, lock, archives, born, ended, torn, died, slipped>>

\* _refuse_a_non_session_destination, on the near side of the rename.
Guard(p) ==
    /\ In(p, "guarding")
    /\ IF path # Nothing /\ ~Exists THEN Return(p) ELSE Goto(p, "claiming")
    /\ UNCHANGED <<path, aside, lock, archives, born, ended, torn, died, slipped>>

\* The slug was free at the check, so the rename is the claim.
Claim(p) ==
    /\ In(p, "claiming")
    /\ \/ Land(Unzipped(at[p].zip)) /\ Slip
       \/ ~Free /\ UNCHANGED <<path, born, slipped>>
    /\ Return(p)
    /\ UNCHANGED <<aside, lock, archives, ended, torn, died>>

----------------------------------------------------------------------------
(* _swap_in: a forced import over a session that exists                    *)

Somewhere(b) == (path # Nothing /\ path.born = b) \/ \E d \in aside : d.born = b

\* The inode that was observed is the path's again: it is the same directory, or the
\* first has gone and its inode was given to another.
SameInode(p) == path.born = at[p].seen \/ ~Somewhere(at[p].seen)

\* Faulty variant: _identity without the session_id.
IdentityByInode(p) == SameInode(p)

\* _identity: the inode and the session_id, which a migration may have stamped anew.
Identity(p) == SameInode(p) /\ path.sid = at[p].sid

\* Under the lock, the session that is there must be the one observed.  A rename
\* that fails, or a session that has gone or changed, ends the import.
StepAside(p) ==
    /\ In(p, "swapping")
    /\ \/ /\ Lock(p)
          /\ Identity(p)
          /\ aside' = aside \cup {path}
          /\ path' = Nothing
          /\ at' = [at EXCEPT ![p].step = "moving_in", ![p].seen = path.born]
       \/ /\ lock = Nobody \/ ~Exists
          /\ Return(p)
          /\ UNCHANGED <<path, aside, lock>>
    /\ UNCHANGED <<archives, born, ended, torn, died, slipped>>

\* Faulty variant: the failed rename is reported, and nothing is put back.
MoveInOrFail(p) ==
    /\ In(p, "moving_in")
    /\ \/ /\ Land(Unzipped(at[p].zip))
          /\ ended' = ended \cup {at[p].seen}
          /\ Goto(p, "clearing")
          /\ UNCHANGED lock
       \/ Unlock(p) /\ Return(p) /\ UNCHANGED <<path, born, ended>>
    /\ UNCHANGED <<aside, archives, torn, died, slipped>>

MoveIn(p) ==
    /\ In(p, "moving_in")
    /\ \/ /\ Land(Unzipped(at[p].zip))
          /\ ended' = ended \cup {at[p].seen}
          /\ at' = [at EXCEPT ![p] = [Idle EXCEPT !.step = "clearing", !.seen = at[p].seen]]
       \/ Goto(p, "rolling_back") /\ UNCHANGED <<path, born, ended>>
    /\ UNCHANGED <<aside, lock, archives, torn, died, slipped>>

\* backup.replace(target): this rename may fail as well, and then nothing else is tried.
RollBack(p) ==
    /\ In(p, "rolling_back")
    /\ \/ /\ Free
          /\ \E d \in aside : d.born = at[p].seen /\ path' = d /\ aside' = aside \ {d}
       \/ ~Free /\ UNCHANGED <<path, aside>>
    /\ Unlock(p)
    /\ Return(p)
    /\ UNCHANGED <<archives, born, ended, torn, died, slipped>>

\* Faulty variant: the backup is cleared before the new session is in place.
ClearEarly(p) ==
    /\ at[p].step \in {"moving_in", "clearing"}
    /\ aside' = {d \in aside : d.born # at[p].seen}
    /\ IF In(p, "clearing") THEN Unlock(p) /\ Return(p) ELSE UNCHANGED <<lock, at>>
    /\ UNCHANGED <<path, archives, born, ended, torn, died, slipped>>

Clear(p) ==
    /\ In(p, "clearing")
    /\ aside' = {d \in aside : d.born # at[p].seen}
    /\ Unlock(p)
    /\ Return(p)
    /\ UNCHANGED <<path, archives, born, ended, torn, died, slipped>>

----------------------------------------------------------------------------
(* migrate_legacy                                                          *)

\* Faulty variant: a session that holds the slug is taken for the migration's own.
MigrateRegardless(p) ==
    /\ In(p, "idle")
    /\ \/ /\ Land(Fresh("legacy"))
          /\ Slip
          /\ at' = [at EXCEPT ![p].step = "claimed", ![p].seen = born + 1]
       \/ /\ Exists
          /\ at' = [at EXCEPT ![p].step = "claimed", ![p].seen = path.born]
          /\ UNCHANGED <<path, born, slipped>>
    /\ UNCHANGED <<aside, lock, archives, ended, torn, died>>

\* A slug that is taken is reported, as skipped or as interrupted, and left alone.
Migrate(p) ==
    /\ In(p, "idle")
    /\ Land(Fresh("legacy"))
    /\ Slip
    /\ at' = [at EXCEPT ![p].step = "claimed", ![p].seen = born + 1]
    /\ UNCHANGED <<aside, lock, archives, ended, torn, died>>

\* The fields of the legacy session, on whatever session has the slug by now.
Stamp(p) ==
    /\ In(p, "claimed")
    /\ \/ /\ Lock(p)
          /\ path' = [path EXCEPT !.sid = LegacyId]
          /\ Goto(p, "stamped")
       \/ ~Exists /\ Return(p) /\ UNCHANGED <<path, lock>>
    /\ UNCHANGED <<aside, archives, born, ended, torn, died, slipped>>

\* save_revision with expected_revision=0.
MigrateModel(p) ==
    /\ In(p, "stamped")
    /\ \/ /\ path.meta = 0
          /\ path' = [path EXCEPT !.rest = 1]
          /\ Goto(p, "modelled")
          /\ UNCHANGED lock
       \/ path.meta # 0 /\ Unlock(p) /\ Return(p) /\ UNCHANGED path
    /\ UNCHANGED <<aside, archives, born, ended, torn, died, slipped>>

MigrateRecord(p) ==
    /\ In(p, "modelled")
    /\ path' = [path EXCEPT !.meta = path.rest]
    /\ Goto(p, "documenting")
    /\ UNCHANGED <<aside, lock, archives, born, ended, torn, died, slipped>>

MigrateDocuments(p) ==
    /\ In(p, "documenting")
    /\ path' = [path EXCEPT !.docs = "some"]
    /\ Unlock(p)
    /\ Return(p)
    /\ UNCHANGED <<aside, archives, born, ended, torn, died, slipped>>

----------------------------------------------------------------------------
\* A process dies: its lock is dropped, and another process takes its place.
Crash(p) ==
    /\ ~In(p, "idle")
    /\ Return(p)
    /\ lock' = IF lock = p THEN Nobody ELSE lock
    /\ died' = IF at[p].step \in {"removing", "moving_in", "rolling_back", "clearing"}
               THEN died \cup {at[p].seen} ELSE died
    /\ torn' = IF at[p].step \in {"recording", "modelled"} THEN torn \cup {path.born} ELSE torn
    /\ UNCHANGED <<path, aside, archives, born, ended, slipped>>

Step(p) ==
    \/ Create(p) \/ Delete(p) \/ RemovePart(p) \/ RemoveDir(p) \/ Apply(p) \/ Record(p)
    \/ Export(p) \/ Zip(p)
    \/ \E zip \in archives, force \in {"yes", "no"} : Import(p, zip, force)
    \/ Guard(p) \/ Claim(p)
    \/ StepAside(p) \/ MoveIn(p) \/ RollBack(p) \/ Clear(p)
    \/ Migrate(p) \/ Stamp(p) \/ MigrateModel(p) \/ MigrateRecord(p) \/ MigrateDocuments(p)
    \/ Crash(p)

Next == \E p \in Procs : Step(p)

Spec == Init /\ [][Next]_vars

----------------------------------------------------------------------------
(* Properties                                                              *)

\* A session ends by being deleted, or by a forced import that has put another in
\* its place.  Until then it is on disk with all its files, under its slug or under
\* the hidden name it was moved to: no refusal, failed rename or death loses it.
NoSessionLost ==
    \A b \in 1..born : b \notin ended =>
        \/ path # Nothing /\ path.born = b /\ Whole(path)
        \/ \E d \in aside : d.born = b /\ Whole(d)

\* A forced import that has ended has put back what it moved aside, or cleared it
\* away: except where it died, or a session was created in the moment the slug was
\* free, over which the rollback's rename fails as well.
PutBackOrCleared ==
    \A d \in aside :
        \/ \E p \in Procs : at[p].step \in {"moving_in", "rolling_back", "clearing"} /\ at[p].seen = d.born
        \/ d.born \in died \cup slipped

\* What is under the slug is a whole session: creation, import, swap and migration
\* are never seen half done.  Only a deletion is, which then is under way or has died.
SlugIsWhole ==
    path # Nothing /\ ~Whole(path) =>
        \/ path.born \in died
        \/ \E p \in Procs : In(p, "removing") /\ at[p].seen = path.born

\* A forced import moves aside the session it was told to replace, not one that was
\* deleted and created again while the archive was being read.
ForceReplacesWhatItSaw ==
    [][\A p \in Procs :
          In(p, "swapping") /\ at'[p].step = "moving_in" =>
              path.born = at[p].seen \/ path.sid = at[p].sid]_vars

\* An archive is one instant of its session: its files disagree only where an apply
\* or a deletion had died in it.
ExportIsOneInstant == \A zip \in archives : zip.meta # zip.rest => zip.of \in torn \cup died

\* A migration writes into the session it created, or into one that took its place
\* after that one was deleted, replaced, or moved aside by a forced import.
MigratesIntoItsClaim ==
    \A p \in Procs :
        at[p].step \in {"stamped", "modelled", "documenting"} =>
            path.from = "legacy" \/ at[p].seen \in ended \cup slipped
=============================================================================
