---------------------------- MODULE ArchiveProofs ----------------------------
(***************************************************************************)
(* What happens to the sessions of a slug, for any number of processes and *)
(* of directories that come and go under it, wherever a process dies.      *)
(*                                                                         *)
(* The properties say where a session is; what they need says in whose     *)
(* hands.  A directory changes only under the lock, except that another    *)
(* may land where there is none (Held, Handled): so whoever is between two *)
(* writes finds the directory it began with, or knows that it has lost it. *)
(* The directories aside are those of forced imports that hold the lock or *)
(* died, and the slug's path is one of them at no time (Apart).            *)
(***************************************************************************)
EXTENDS Archive, TLAPS

\* The steps an operation is at while it holds the session's lock.
Locked == {"removing", "recording", "exporting", "moving_in", "rolling_back", "clearing",
           "stamped", "modelled", "documenting"}

Held == \A p \in Procs : lock = p <=> at[p].step \in Locked

\* No two directories, under the slug or aside, have come there as the same one.
Apart ==
    /\ path # Nothing => path.born <= born /\ \A d \in aside : d.born # path.born
    /\ \A d \in aside : d.born <= born
    /\ \A d, e \in aside : d.born = e.born => d = e

\* What has landed, or is about to, is a session that verifies.
ZipsCoherent == \A p \in Procs : Coherent(at[p].zip)

\* What an operation finds of what it began with.
Handled(p) ==
    /\ In(p, "recording") => Exists /\ path.rest \in Revisions
    /\ In(p, "exporting") => Exists /\ at[p].rest = path.rest
    /\ at[p].step \in {"stamped", "documenting"} => Exists
    /\ In(p, "modelled") => Exists /\ path.rest \in Revisions
    /\ at[p].step \in {"removing", "clearing"} => at[p].seen \in ended
    /\ at[p].step \in {"moving_in", "rolling_back"} =>
          /\ \E d \in aside : d.born = at[p].seen
          /\ path = Nothing \/ at[p].seen \in slipped
          /\ \A d \in aside : d.born = at[p].seen \/ d.born \in ended \cup slipped

\* Once another directory has the name, those aside have lost it.
Displaced == path # Nothing => \A d \in aside : d.born \in ended \cup slipped

\* What is aside was whole when it was moved, but for deaths.
AsideIsWhole ==
    \A d \in aside :
        /\ Whole(d) \/ d.born \in died
        /\ d.meta = d.rest \/ d.born \in torn \cup died

\* session.json and the other files disagree in the hands of whoever makes them.
SlugIsOneInstant ==
    path # Nothing /\ path.meta # path.rest =>
        \/ path.born \in torn \cup died
        \/ \E p \in Procs : \/ at[p].step \in {"recording", "modelled"}
                            \/ In(p, "removing") /\ at[p].seen = path.born

\* What a migration claimed is there, or aside, or has ended or lost its name.
ClaimStands(p) ==
    at[p].step \in {"claimed", "stamped", "modelled", "documenting"} =>
        \/ at[p].seen \in ended \cup slipped
        \/ path # Nothing /\ path.born = at[p].seen /\ path.from = "legacy"
        \/ \E d \in aside : d.born = at[p].seen /\ d.from = "legacy"

IInv ==
    /\ TypeOK
    /\ Held
    /\ Apart
    /\ ZipsCoherent
    /\ \A p \in Procs : Handled(p)
    /\ Displaced
    /\ AsideIsWhole
    /\ SlugIsOneInstant
    /\ \A p \in Procs : ClaimStands(p)
    /\ NoSessionLost
    /\ PutBackOrCleared
    /\ SlugIsWhole
    /\ ExportIsOneInstant

----------------------------------------------------------------------------
(* The three things a step may do: leave the directories as they are, let  *)
(* one land, or write in the one that is there.                            *)

Others(p) == \A q \in Procs \ {p} : at'[q] = at[q]

LockMoves(p) ==
    \/ lock' = lock /\ (at[p].step \in Locked <=> at'[p].step \in Locked)
    \/ lock = Nobody /\ lock' = p /\ at'[p].step \in Locked
    \/ lock = p /\ lock' = Nobody /\ at'[p].step \notin Locked

\* What is still to be seen to of p's own, where it goes.
Ready(p) == Coherent(at'[p].zip) /\ Handled(p)' /\ ClaimStands(p)'

GhostsGrow == ended \subseteq ended' /\ torn \subseteq torn' /\ died \subseteq died' /\ slipped \subseteq slipped'

\* What p was in the middle of it is still, or it is known to have died there.
Accounted(p) ==
    /\ at[p].step \in {"recording", "modelled"} => path.born \in torn'
    /\ In(p, "removing") /\ path # Nothing /\ path.born = at[p].seen => at[p].seen \in died'
    /\ at[p].step \in {"moving_in", "rolling_back", "clearing"} =>
          \/ at[p].seen \in died' \cup slipped'
          \/ at'[p].step \in {"moving_in", "rolling_back", "clearing"} /\ at'[p].seen = at[p].seen

\* The parts of the invariant that speak of one process at a time.
LEMMA HeldKeeps == ASSUME IInv, NEW p \in Procs, Others(p), LockMoves(p) PROVE Held'
  BY ArchiveAssumption DEF ArchiveAssumption, IInv, Held, Others, LockMoves

\* Whoever holds the lock is alone in a step that needs it.
LEMMA OneHolder ==
  ASSUME IInv, NEW p \in Procs, NEW q \in Procs, at[p].step \in Locked, at[q].step \in Locked
  PROVE  p = q
  BY DEF IInv, Held

\* Only a deletion takes a directory apart.
LEMMA OnlyEndedArePartial ==
  ASSUME IInv
  PROVE  /\ path # Nothing /\ ~Whole(path) => path.born \in ended
         /\ \A d \in aside : Whole(d) \/ d.born \in ended
<1>1. path # Nothing => path.born \in 1..born
  BY ArchiveAssumption DEF ArchiveAssumption, IInv, TypeOK, Dirs, Births, Apart
<1>2. ASSUME NEW d \in aside PROVE d.born \in 1..born
  <2>1. d \in Dirs /\ born \in Nat /\ d.born <= born
    BY ArchiveAssumption DEF ArchiveAssumption, IInv, TypeOK, Apart
  <2> QED
    BY <2>1, ArchiveAssumption DEF ArchiveAssumption, Dirs, Births
<1> QED
  BY <1>1, <1>2 DEF IInv, NoSessionLost, Apart

\* The directories stay as they are.
LEMMA QuietKeeps ==
  ASSUME IInv, TypeOK', NEW p \in Procs, Others(p), LockMoves(p), Ready(p), GhostsGrow,
         Accounted(p), UNCHANGED <<path, aside, born, archives>>
  PROVE  IInv'
<1> USE DEF IInv, GhostsGrow, Others
<1>1. Held' /\ Apart' /\ ZipsCoherent'
  BY HeldKeeps DEF Apart, ZipsCoherent, Ready, Coherent
<1>2. \A q \in Procs : Handled(q)'
  BY DEF Handled, Ready, In, Exists
<1>3. Displaced' /\ AsideIsWhole' /\ NoSessionLost'
  BY DEF Displaced, AsideIsWhole, NoSessionLost, Whole
<1>4. SlugIsOneInstant' /\ SlugIsWhole'
  BY DEF SlugIsOneInstant, SlugIsWhole, Accounted, In, Whole
<1>5. \A q \in Procs : ClaimStands(q)'
  BY DEF ClaimStands, Ready
<1>6. PutBackOrCleared' /\ ExportIsOneInstant'
  BY DEF PutBackOrCleared, ExportIsOneInstant, Accounted
<1> QED
  BY <1>1, <1>2, <1>3, <1>4, <1>5, <1>6

\* A whole directory lands where there is none, or one emptied by its deletion.
LEMMA LandKeeps ==
  ASSUME IInv, TypeOK', NEW p \in Procs, Others(p), LockMoves(p), Ready(p), GhostsGrow,
         NEW d \in Dirs, Land(d), d.meta = d.rest, d.meta \in Revisions,
         UNCHANGED <<aside, archives>>,
         \A e \in aside : e.born \in ended' \cup slipped',
         \A q \in Procs \ {p} : at[q].step \in {"moving_in", "rolling_back"} =>
             at[q].seen \in slipped',
         at[p].step \in {"idle", "claiming", "moving_in"},
         In(p, "moving_in") => at'[p].step = "clearing" /\ at'[p].seen = at[p].seen
  PROVE  IInv'
<1> USE DEF IInv, GhostsGrow, Others
<1>1. /\ path' \in Dirs /\ path' # Nothing /\ path'.born = born + 1
      /\ path'.meta = d.meta /\ path'.rest = d.rest /\ Whole(path')
      /\ born' = born + 1 /\ born \in Nat
  BY ArchiveAssumption, NothingAssumption
     DEF ArchiveAssumption, NothingAssumption, TypeOK, Land, Dirs, Births, Revisions, Whole
<1>2. ~Exists /\ (path # Nothing => path.born \in ended)
  BY OnlyEndedArePartial DEF Land, Free, Empty, Exists, Whole
<1>3. Held' /\ ZipsCoherent'
  BY HeldKeeps DEF ZipsCoherent, Ready, Coherent
<1>4. Apart'
  BY <1>1 DEF Apart, TypeOK, Dirs, Births
<1>5. \A q \in Procs : Handled(q)'
  BY <1>1, <1>2 DEF Handled, Ready, In
<1>6. Displaced' /\ AsideIsWhole'
  BY DEF Displaced, AsideIsWhole, Whole
<1>7. SlugIsOneInstant' /\ SlugIsWhole'
  BY <1>1 DEF SlugIsOneInstant, SlugIsWhole
<1>8. \A q \in Procs : ClaimStands(q)'
  BY <1>2 DEF ClaimStands, Ready
<1>9. NoSessionLost'
  <2>1. ASSUME NEW b \in 1..born', b \notin ended', b # born'
        PROVE  \E e \in aside : e.born = b /\ Whole(e)
    BY <1>1, <1>2, <2>1 DEF NoSessionLost
  <2> QED
    BY <1>1, <2>1 DEF NoSessionLost
<1>10. PutBackOrCleared' /\ ExportIsOneInstant'
  BY DEF PutBackOrCleared, ExportIsOneInstant, In
<1> QED
  BY <1>1, <1>3, <1>4, <1>5, <1>6, <1>7, <1>8, <1>9, <1>10

\* The directory under the slug is written in place, by who holds its lock.
LEMMA WriteKeeps ==
  ASSUME IInv, TypeOK', NEW p \in Procs, Others(p), LockMoves(p), Ready(p),
         lock = p \/ lock' = p,
         at[p].step \notin {"removing", "moving_in", "rolling_back", "clearing"},
         path # Nothing, path' # Nothing, path'.born = path.born, path'.from = path.from,
         Whole(path) => Whole(path'),
         \/ path'.meta = path'.rest
         \/ at'[p].step \in {"recording", "modelled"}
         \/ /\ path'.meta = path.meta /\ path'.rest = path.rest
            /\ at[p].step \notin {"recording", "modelled"},
         UNCHANGED <<aside, archives, born, ended, torn, died, slipped>>
  PROVE  IInv'
<1> USE DEF IInv, Others
<1>1. \A q \in Procs \ {p} : at[q].step \notin Locked
  BY ArchiveAssumption DEF ArchiveAssumption, LockMoves, Held
<1>2. Held' /\ ZipsCoherent' /\ Apart'
  BY HeldKeeps DEF ZipsCoherent, Ready, Coherent, Apart
<1>3. \A q \in Procs : Handled(q)'
  BY <1>1 DEF Handled, Ready, In, Locked
<1>4. Displaced' /\ AsideIsWhole'
  BY DEF Displaced, AsideIsWhole, Whole
<1>5. SlugIsOneInstant'
  BY <1>1 DEF SlugIsOneInstant, In, Locked
<1>6. SlugIsWhole'
  BY <1>1 DEF SlugIsWhole, In, Locked
<1>7. \A q \in Procs : ClaimStands(q)'
  BY DEF ClaimStands, Ready
<1>8. NoSessionLost'
  BY DEF NoSessionLost, Whole
<1>9. PutBackOrCleared' /\ ExportIsOneInstant'
  BY <1>1 DEF PutBackOrCleared, ExportIsOneInstant, Locked
<1> QED
  BY <1>2, <1>3, <1>4, <1>5, <1>6, <1>7, <1>8, <1>9

----------------------------------------------------------------------------
(* The operations: one lemma per action.                                   *)

\* What the types say of a process and of what is on disk.
LEMMA Types ==
  ASSUME IInv, NEW p \in Procs
  PROVE  /\ at[p] \in Places /\ at[p].zip \in Zips /\ at[p].seen \in 0..MaxBorn
         /\ at[p].sid \in Ids /\ at[p].rest \in Revisions \cup {Gone}
         /\ path # Nothing => path \in Dirs
         /\ Nobody \notin Procs /\ born \in Nat /\ Coherent(at[p].zip)
  BY ArchiveAssumption DEF ArchiveAssumption, IInv, TypeOK, Places, ZipsCoherent

\* A place as an operation moves on: the step alone, or what it has seen as well.
LEMMA NextPlace ==
  ASSUME NEW place \in Places, NEW step \in Steps, NEW seen \in 0..MaxBorn
  PROVE  /\ [place EXCEPT !.step = step] \in Places
         /\ [place EXCEPT !.step = step, !.seen = seen] \in Places
         /\ [place EXCEPT !.step = step, !.seen = seen].step = step
         /\ [place EXCEPT !.step = step, !.seen = seen].seen = seen
         /\ [place EXCEPT !.step = step, !.seen = seen].zip = place.zip
  BY DEF Places

LEMMA IdlePlace ==
  Idle \in Places /\ Coherent(Idle.zip) /\ Idle.step = "idle" /\ Foreign \in Zips
  BY ArchiveAssumption DEF ArchiveAssumption, Idle, Foreign, Places, Steps, Zips, Coherent,
                           Revisions, Ids, ForeignId

\* Whatever is aside when another directory lands is known to have lost its name.
LEMMA SlipCovers ==
  ASSUME IInv, Slip
  PROVE  /\ slipped \subseteq slipped' /\ slipped' \subseteq Births
         /\ \A e \in aside : e.born \in slipped'
         /\ \A q \in Procs : at[q].step \in {"moving_in", "rolling_back"} =>
                at[q].seen \in slipped'
<1>1. slipped' = slipped \cup {d.born : d \in aside} /\ \A d \in aside : d \in Dirs
  BY DEF Slip, IInv, TypeOK
<1>2. \A e \in aside : e.born \in slipped'
  BY <1>1
<1>3. \A q \in Procs : at[q].step \in {"moving_in", "rolling_back"} =>
          \E e \in aside : e.born = at[q].seen
  BY DEF IInv, Handled
<1> QED
  BY <1>1, <1>2, <1>3 DEF Dirs, IInv, TypeOK

\* A session is created whole.
LEMMA CreateKeeps == ASSUME IInv, NEW p \in Procs, Create(p) PROVE IInv'
<1> USE DEF Create, In
<1>1. Fresh("request") \in Dirs /\ Fresh("request").meta = 0 /\ Fresh("request").rest = 0
  BY ArchiveAssumption
     DEF ArchiveAssumption, Fresh, Dirs, Births, Revisions, Ids, ForeignId, Land, IInv, TypeOK
<1>2. TypeOK'
  BY <1>1, SlipCovers, ArchiveAssumption
     DEF ArchiveAssumption, IInv, TypeOK, Land, Dirs, Births
<1>3. Others(p) /\ LockMoves(p) /\ GhostsGrow
  BY SlipCovers DEF Others, LockMoves, GhostsGrow
<1>4. Ready(p)
  BY Types DEF Ready, Handled, ClaimStands, In
<1> QED
  BY <1>1, <1>2, <1>3, <1>4, SlipCovers, ArchiveAssumption, LandKeeps DEF ArchiveAssumption, Revisions

\* A deletion is decided when it has the lock.
LEMMA DeleteKeeps == ASSUME IInv, NEW p \in Procs, Delete(p) PROVE IInv'
<1> USE DEF Delete, In, Lock
<1>1. path \in Dirs /\ path.born \in Births
  BY Types DEF Exists, Dirs
<1>2. /\ Others(p) /\ at' \in [Procs -> Places] /\ at'[p].zip = at[p].zip
      /\ at'[p].step = "removing" /\ at'[p].seen = path.born
  <2>1. [at[p] EXCEPT !.step = "removing", !.seen = path.born] \in Places
    <3>1. path.born \in 0..MaxBorn /\ at[p] \in Places
      BY <1>1, Types, ArchiveAssumption DEF ArchiveAssumption, Births
    <3> QED
      BY <3>1, NextPlace DEF Steps
  <2>2. at' = [at EXCEPT ![p] = [at[p] EXCEPT !.step = "removing", !.seen = path.born]]
    BY DEF IInv, TypeOK, Places
  <2> QED
    BY <2>1, <2>2, Types DEF Others, IInv, TypeOK, Places
<1>3. TypeOK'
  BY <1>1, <1>2 DEF IInv, TypeOK
<1>4. LockMoves(p) /\ GhostsGrow /\ Accounted(p)
  BY <1>2 DEF LockMoves, Locked, GhostsGrow, Accounted
<1>5. Ready(p)
  BY <1>2, Types DEF Ready, Handled, ClaimStands
<1> QED
  BY <1>2, <1>3, <1>4, <1>5, QuietKeeps

\* Its directory goes part by part.
LEMMA RemovePartKeeps == ASSUME IInv, NEW p \in Procs, RemovePart(p) PROVE IInv'
<1> USE DEF RemovePart, In
<1>1. /\ path' \in Dirs /\ path' # Nothing /\ path'.born = path.born /\ path'.from = path.from
      /\ path.born = at[p].seen /\ path.born \in ended
      /\ UNCHANGED <<aside, lock, at, archives, born, ended, torn, died, slipped>>
  BY NothingAssumption DEF NothingAssumption, IInv, TypeOK, Dirs, Handled
<1>2. \A q \in Procs : at[q].step \in Locked => q = p
  BY OneHolder DEF Locked
<1>3. TypeOK' /\ Held' /\ Apart' /\ ZipsCoherent'
  BY <1>1 DEF IInv, TypeOK, Held, Apart, ZipsCoherent
<1>4. \A q \in Procs : Handled(q)'
  BY <1>1, <1>2 DEF IInv, Handled, Locked
<1>5. Displaced' /\ AsideIsWhole' /\ ExportIsOneInstant' /\ PutBackOrCleared'
  BY <1>1 DEF IInv, Displaced, AsideIsWhole, Whole, ExportIsOneInstant, PutBackOrCleared
<1>6. SlugIsOneInstant' /\ SlugIsWhole'
  BY <1>1 DEF SlugIsOneInstant, SlugIsWhole
<1>7. (\A q \in Procs : ClaimStands(q)') /\ NoSessionLost'
  BY <1>1 DEF IInv, ClaimStands, NoSessionLost, Whole
<1> QED
  BY <1>3, <1>4, <1>5, <1>6, <1>7 DEF IInv

\* And last the emptied directory itself, unless its name is another's already.
LEMMA RemoveDirKeeps == ASSUME IInv, NEW p \in Procs, RemoveDir(p) PROVE IInv'
<1> USE DEF RemoveDir, In
<1>1. /\ Others(p) /\ at'[p] = Idle /\ lock = p /\ lock' = Nobody
      /\ at' \in [Procs -> Places] /\ at[p].seen \in ended
      /\ UNCHANGED <<aside, archives, born, ended, torn, died, slipped>>
  BY IdlePlace DEF Others, Return, Unlock, IInv, TypeOK, Handled
<1>2. LockMoves(p) /\ Ready(p)
  BY <1>1, IdlePlace DEF LockMoves, Locked, Ready, Handled, ClaimStands
<1>3. CASE UNCHANGED path /\ (path = Nothing \/ path.born # at[p].seen)
  <2>1. TypeOK' /\ GhostsGrow /\ Accounted(p)
    BY <1>1, <1>3 DEF IInv, TypeOK, GhostsGrow, Accounted
  <2> QED
    BY <1>1, <1>2, <1>3, <2>1, QuietKeeps
<1>4. CASE path # Nothing /\ path.born = at[p].seen /\ path' = Nothing
  <2>1. TypeOK' /\ Held' /\ Apart' /\ ZipsCoherent'
    BY <1>1, <1>2, <1>4, HeldKeeps DEF IInv, TypeOK, Apart, ZipsCoherent, Ready, Others
  <2>2. \A q \in Procs : at[q].step \in Locked => q = p
    BY OneHolder DEF Locked
  <2>3. \A q \in Procs : Handled(q)'
    BY <1>1, <1>2, <2>2 DEF IInv, Handled, Locked, Ready, Others
  <2>4. Displaced' /\ AsideIsWhole' /\ ExportIsOneInstant' /\ PutBackOrCleared'
    BY <1>1, <1>4, <2>2
       DEF IInv, Displaced, AsideIsWhole, Whole, ExportIsOneInstant, PutBackOrCleared, Locked
  <2>5. SlugIsOneInstant' /\ SlugIsWhole' /\ NoSessionLost'
    BY <1>1, <1>4 DEF SlugIsOneInstant, SlugIsWhole, IInv, NoSessionLost, Whole
  <2>6. \A q \in Procs : ClaimStands(q)'
    BY <1>1, <1>2, <1>4 DEF IInv, ClaimStands, Ready, Others
  <2> QED
    BY <2>1, <2>3, <2>4, <2>5, <2>6 DEF IInv
<1> QED
  BY <1>3, <1>4 DEF Empty

\* The first write of an apply.
LEMMA ApplyKeeps == ASSUME IInv, NEW p \in Procs, Apply(p) PROVE IInv'
<1> USE DEF Apply, In, Lock, Goto
<1>1. /\ path \in Dirs /\ path.meta \in Revisions /\ path.meta + 1 \in Revisions
      /\ lock = Nobody
  BY Types, ArchiveAssumption DEF ArchiveAssumption, Exists, Dirs, Revisions
<1>2. /\ path' \in Dirs /\ path' # Nothing /\ path'.born = path.born /\ path'.from = path.from
      /\ path'.meta = path.meta /\ path'.rest = path.meta + 1
  BY <1>1, NothingAssumption DEF NothingAssumption, Dirs
<1>3. /\ Others(p) /\ at' \in [Procs -> Places] /\ at'[p].step = "recording"
      /\ at'[p].zip = at[p].zip
  BY Types DEF Others, IInv, TypeOK, Places, Steps
<1>4. TypeOK'
  BY <1>2, <1>3 DEF IInv, TypeOK
<1>5. LockMoves(p) /\ Ready(p)
  BY <1>1, <1>2, <1>3, Types DEF LockMoves, Locked, Ready, Handled, ClaimStands, Exists
<1>6. path # Nothing /\ Whole(path')
  BY <1>1, <1>2, ArchiveAssumption DEF ArchiveAssumption, Exists, Whole, Revisions
<1> QED
  BY <1>2, <1>3, <1>4, <1>5, <1>6, WriteKeeps

\* The second, of whatever the first has written.
LEMMA RecordKeeps == ASSUME IInv, NEW p \in Procs, Record(p) PROVE IInv'
<1> USE DEF Record, In
<1>1. path \in Dirs /\ path.rest \in Revisions /\ lock = p
  BY Types DEF IInv, Handled, Exists, Held, Locked
<1>2. /\ path' \in Dirs /\ path' # Nothing /\ path'.born = path.born /\ path'.from = path.from
      /\ path'.meta = path'.rest /\ path'.rest \in Revisions
  BY <1>1, NothingAssumption DEF NothingAssumption, Dirs
<1>3. Others(p) /\ at' \in [Procs -> Places] /\ at'[p] = Idle /\ lock' = Nobody
  BY IdlePlace DEF Others, Return, Unlock, IInv, TypeOK
<1>4. TypeOK'
  BY <1>2, <1>3 DEF IInv, TypeOK
<1>5. LockMoves(p) /\ Ready(p)
  BY <1>1, <1>3, IdlePlace DEF LockMoves, Locked, Ready, Handled, ClaimStands
<1>6. path # Nothing /\ Whole(path')
  BY <1>1, <1>2, NothingAssumption, ArchiveAssumption
     DEF NothingAssumption, ArchiveAssumption, Whole, Revisions
<1> QED
  BY <1>1, <1>2, <1>3, <1>4, <1>5, <1>6, WriteKeeps

\* An export reads under the lock, and so the two parts it reads belong together.
LEMMA ExportKeeps == ASSUME IInv, NEW p \in Procs, Export(p) PROVE IInv'
<1> USE DEF Export, In, Lock
<1>1. path \in Dirs /\ path.rest \in Revisions \cup {Gone}
  BY Types DEF Exists, Dirs
<1>2. /\ Others(p) /\ at' \in [Procs -> Places] /\ at'[p].step = "exporting"
      /\ at'[p].rest = path.rest /\ at'[p].zip = at[p].zip
  <2>1. /\ [at[p] EXCEPT !.step = "exporting", !.rest = path.rest] \in Places
        /\ at' = [at EXCEPT ![p] = [at[p] EXCEPT !.step = "exporting", !.rest = path.rest]]
    <3>1. at[p] \in Places /\ "exporting" \in Steps
      BY Types DEF Steps
    <3> QED
      BY <1>1, <3>1 DEF Places, IInv, TypeOK
  <2> QED
    BY <2>1, Types DEF Others, IInv, TypeOK, Places
<1>3. TypeOK'
  BY <1>2 DEF IInv, TypeOK
<1>4. LockMoves(p) /\ GhostsGrow /\ Accounted(p) /\ Ready(p)
  BY <1>2, Types DEF LockMoves, Locked, GhostsGrow, Accounted, Ready, Handled, ClaimStands, Exists
<1> QED
  BY <1>2, <1>3, <1>4, QuietKeeps

LEMMA ZipKeeps == ASSUME IInv, NEW p \in Procs, Zip(p) PROVE IInv'
<1> USE DEF Zip, In
<1> DEFINE zip == [of |-> path.born, sid |-> path.sid, from |-> path.from,
                   meta |-> path.meta, rest |-> at[p].rest, docs |-> path.docs]
<1>1. path \in Dirs /\ path.meta \in Revisions /\ at[p].rest = path.rest /\ lock = p
  BY Types DEF Exists, Dirs, IInv, Handled, Held, Locked
<1>2. zip \in Zips /\ archives' = {Foreign, zip} /\ lock' = Nobody
  BY <1>1, ArchiveAssumption DEF ArchiveAssumption, Dirs, Zips, Births
<1>3. Others(p) /\ at' \in [Procs -> Places] /\ at'[p] = Idle
  BY IdlePlace DEF Others, Return, IInv, TypeOK
<1>4. TypeOK'
  BY <1>2, <1>3, IdlePlace DEF IInv, TypeOK
<1>5. LockMoves(p) /\ Ready(p)
  BY <1>1, <1>2, <1>3, IdlePlace DEF LockMoves, Locked, Ready, Handled, ClaimStands
<1>6. \A q \in Procs : at[q].step \in Locked => q = p
  BY OneHolder DEF Locked
<1>7. ExportIsOneInstant'
  <2>1. zip.meta # zip.rest => zip.of \in torn \cup died
    BY <1>1, <1>6, NothingAssumption DEF NothingAssumption, IInv, SlugIsOneInstant, Locked
  <2> HIDE DEF zip
  <2> QED
    BY <1>2, <2>1 DEF ExportIsOneInstant, Foreign
<1>8. Held' /\ Apart' /\ ZipsCoherent'
  BY <1>3, <1>5, HeldKeeps DEF IInv, Apart, ZipsCoherent, Ready, Others
<1>9. (\A q \in Procs : Handled(q)') /\ (\A q \in Procs : ClaimStands(q)')
  BY <1>3, <1>5 DEF IInv, Handled, ClaimStands, Ready, Others, Exists
<1>10. Displaced' /\ AsideIsWhole' /\ NoSessionLost' /\ PutBackOrCleared'
  BY <1>3 DEF IInv, Displaced, AsideIsWhole, NoSessionLost, Whole, PutBackOrCleared, Others
<1>11. SlugIsOneInstant' /\ SlugIsWhole'
  BY <1>3 DEF IInv, SlugIsOneInstant, SlugIsWhole, Whole, Others
<1> QED
  BY <1>4, <1>7, <1>8, <1>9, <1>10, <1>11 DEF IInv

\* An import that has unzipped and verified its archive.
LEMMA ImportKeeps ==
  ASSUME IInv, NEW p \in Procs, NEW zip \in archives, NEW force \in {"yes", "no"},
         Import(p, zip, force)
  PROVE  IInv'
<1> USE DEF Import, In
<1> DEFINE place == [step |-> IF Exists THEN "swapping" ELSE "guarding", zip |-> zip, rest |-> 0,
                     seen |-> IF Exists THEN path.born ELSE 0,
                     sid |-> IF Exists THEN path.sid ELSE 0]
<1>1. place \in Places
  <2>1. zip \in Zips /\ 0 \in 0..MaxBorn /\ 0 \in Ids /\ 0 \in Revisions
    BY ArchiveAssumption DEF ArchiveAssumption, IInv, TypeOK, Ids, ForeignId, Revisions
  <2>2. Exists => path.born \in 0..MaxBorn /\ path.sid \in Ids
    BY Types, ArchiveAssumption DEF ArchiveAssumption, Exists, Dirs, Births
  <2> QED
    BY <2>1, <2>2 DEF Places, Steps
<1>2. /\ Others(p) /\ at' \in [Procs -> Places] /\ at'[p] = place
      /\ at'[p].step \in {"swapping", "guarding"} /\ at'[p].zip = zip
  BY <1>1 DEF Others, IInv, TypeOK
<1> HIDE DEF place
<1>3. TypeOK'
  BY <1>2 DEF IInv, TypeOK
<1>4. LockMoves(p) /\ GhostsGrow /\ Accounted(p) /\ Ready(p)
  BY <1>2 DEF LockMoves, Locked, GhostsGrow, Accounted, Ready, Handled, ClaimStands
<1> QED
  BY <1>2, <1>3, <1>4, QuietKeeps

LEMMA GuardKeeps == ASSUME IInv, NEW p \in Procs, Guard(p) PROVE IInv'
<1> USE DEF Guard, In
<1>1. /\ Others(p) /\ at' \in [Procs -> Places]
      /\ at'[p].step \in {"idle", "claiming"} /\ Coherent(at'[p].zip)
  BY Types, IdlePlace DEF Others, Return, Goto, IInv, TypeOK, Places, Steps
<1>2. TypeOK'
  BY <1>1 DEF IInv, TypeOK
<1>3. LockMoves(p) /\ GhostsGrow /\ Accounted(p) /\ Ready(p)
  BY <1>1 DEF LockMoves, Locked, GhostsGrow, Accounted, Ready, Handled, ClaimStands
<1> QED
  BY <1>1, <1>2, <1>3, QuietKeeps

\* What an archive unpacks to is a directory as whole as the archive.
LEMMA UnzippedIsWhole ==
  ASSUME IInv, NEW p \in Procs, born < MaxBorn
  PROVE  /\ Unzipped(at[p].zip) \in Dirs
         /\ Unzipped(at[p].zip).meta = Unzipped(at[p].zip).rest
         /\ Unzipped(at[p].zip).meta \in Revisions
<1>1. 1 \in Births
  BY Types, ArchiveAssumption DEF ArchiveAssumption, Births
<1>2. at[p].zip \in Zips /\ at[p].zip.meta = at[p].zip.rest
  BY Types DEF Coherent
<1> QED
  BY <1>1, <1>2 DEF Unzipped, Dirs, Zips

\* The rename of a plain import is its claim, or is refused and nothing has happened.
LEMMA ClaimKeeps == ASSUME IInv, NEW p \in Procs, Claim(p) PROVE IInv'
<1> USE DEF Claim, In
<1>1. /\ Others(p) /\ at' \in [Procs -> Places] /\ at'[p] = Idle
      /\ UNCHANGED <<aside, lock, archives, ended, torn, died>>
  BY IdlePlace DEF Others, Return, IInv, TypeOK
<1>2. LockMoves(p) /\ Ready(p)
  BY <1>1, IdlePlace DEF LockMoves, Locked, Ready, Handled, ClaimStands
<1>3. CASE Land(Unzipped(at[p].zip)) /\ Slip
  <2>1. /\ Unzipped(at[p].zip) \in Dirs
        /\ Unzipped(at[p].zip).meta = Unzipped(at[p].zip).rest
        /\ Unzipped(at[p].zip).meta \in Revisions
    BY <1>3, UnzippedIsWhole DEF Land
  <2>2. GhostsGrow
    BY <1>1, <1>3, SlipCovers DEF GhostsGrow
  <2>3. TypeOK'
    BY <1>1, <1>3, <2>1, SlipCovers, ArchiveAssumption
       DEF ArchiveAssumption, IInv, TypeOK, Land, Dirs, Births
  <2> QED
    BY <1>1, <1>2, <1>3, <2>1, <2>2, <2>3, SlipCovers, LandKeeps
<1>4. CASE UNCHANGED <<path, born, slipped>>
  <2>1. TypeOK' /\ GhostsGrow /\ Accounted(p)
    BY <1>1, <1>4 DEF IInv, TypeOK, GhostsGrow, Accounted
  <2> QED
    BY <1>1, <1>2, <1>4, <2>1, QuietKeeps
<1> QED
  BY <1>3, <1>4

\* A forced import moves the session aside, or finds that it may not.
LEMMA StepAsideKeeps == ASSUME IInv, NEW p \in Procs, StepAside(p) PROVE IInv'
<1> USE DEF StepAside, In
<1>1. CASE /\ Lock(p) /\ aside' = aside \cup {path} /\ path' = Nothing
           /\ at' = [at EXCEPT ![p].step = "moving_in", ![p].seen = path.born]
  <2>1. /\ path \in Dirs /\ path # Nothing /\ path.born \in Births /\ path.meta # Gone
        /\ lock = Nobody /\ lock' = p
        /\ UNCHANGED <<archives, born, ended, torn, died, slipped>>
    BY <1>1, Types DEF Lock, Exists, Dirs
  <2>2. /\ Others(p) /\ at' \in [Procs -> Places] /\ at'[p].zip = at[p].zip
        /\ at'[p].step = "moving_in" /\ at'[p].seen = path.born
    <3>1. [at[p] EXCEPT !.step = "moving_in", !.seen = path.born] \in Places
      <4>1. path.born \in 0..MaxBorn /\ at[p] \in Places
        BY <2>1, Types, ArchiveAssumption DEF ArchiveAssumption, Births
      <4> QED
        BY <4>1, NextPlace DEF Steps
    <3>2. at' = [at EXCEPT ![p] = [at[p] EXCEPT !.step = "moving_in", !.seen = path.born]]
      BY <1>1 DEF IInv, TypeOK, Places
    <3> QED
      BY <3>1, <3>2, Types DEF Others, IInv, TypeOK, Places
  <2>3. \A q \in Procs : at[q].step \notin Locked
    BY <2>1, ArchiveAssumption DEF ArchiveAssumption, IInv, Held
  <2>4. TypeOK' /\ ZipsCoherent'
    BY <1>1, <2>1, <2>2, Types DEF IInv, TypeOK, ZipsCoherent, Others
  <2>5. Held'
    BY <2>1, <2>2, HeldKeeps DEF LockMoves, Locked
  <2>6. Apart'
    BY <1>1, <2>1 DEF IInv, Apart
  <2>7. /\ \A d \in aside : d.born \in ended \cup slipped
        /\ Whole(path) \/ path.born \in died
        /\ path.meta = path.rest \/ path.born \in torn \cup died
    BY <2>1, <2>3 DEF IInv, Displaced, SlugIsWhole, SlugIsOneInstant, Locked
  <2>8. \A q \in Procs : Handled(q)'
    <3>1. Handled(p)'
      BY <1>1, <2>1, <2>2, <2>7 DEF Handled
    <3>2. ASSUME NEW q \in Procs \ {p} PROVE Handled(q)'
      BY <2>2, <2>3 DEF Handled, Others, Locked
    <3> QED
      BY <3>1, <3>2
  <2>9. Displaced' /\ SlugIsOneInstant' /\ SlugIsWhole' /\ ExportIsOneInstant'
    BY <1>1, <2>1 DEF IInv, Displaced, SlugIsOneInstant, SlugIsWhole, ExportIsOneInstant
  <2>10. AsideIsWhole'
    BY <1>1, <2>1, <2>7 DEF IInv, AsideIsWhole, Whole
  <2>11. \A q \in Procs : ClaimStands(q)'
    BY <1>1, <2>1, <2>2 DEF IInv, ClaimStands, Others
  <2>12. NoSessionLost'
    BY <1>1, <2>1 DEF IInv, NoSessionLost, Whole
  <2>13. PutBackOrCleared'
    BY <1>1, <2>1, <2>2, <2>7, <2>3 DEF IInv, PutBackOrCleared, Others, Locked
  <2> QED
    BY <2>4, <2>5, <2>6, <2>8, <2>9, <2>10, <2>11, <2>12, <2>13 DEF IInv
<1>2. CASE Return(p) /\ UNCHANGED <<path, aside, lock>>
  <2>1. Others(p) /\ at' \in [Procs -> Places] /\ at'[p] = Idle
    BY <1>2, IdlePlace DEF Others, Return, IInv, TypeOK
  <2>2. LockMoves(p) /\ Ready(p)
    BY <1>2, <2>1, IdlePlace DEF LockMoves, Locked, Ready, Handled, ClaimStands
  <2>3. TypeOK' /\ GhostsGrow /\ Accounted(p)
    BY <1>2, <2>1 DEF IInv, TypeOK, GhostsGrow, Accounted
  <2> QED
    BY <1>2, <2>1, <2>2, <2>3, QuietKeeps
<1> QED
  BY <1>1, <1>2

\* The new session takes the name, or the rename has failed.
LEMMA MoveInKeeps == ASSUME IInv, NEW p \in Procs, MoveIn(p) PROVE IInv'
<1> USE DEF MoveIn, In
<1>1. /\ lock = p /\ \A q \in Procs : at[q].step \in Locked => q = p
      /\ at[p].seen \in 0..MaxBorn
      /\ \A d \in aside : d.born = at[p].seen \/ d.born \in ended \cup slipped
      /\ \E d \in aside : d.born = at[p].seen
      /\ path = Nothing \/ at[p].seen \in slipped
  BY Types, OneHolder DEF Locked, IInv, Held, Handled
<1>2. at[p].seen \in Births
  BY <1>1 DEF IInv, TypeOK, Dirs
<1>3. CASE /\ Land(Unzipped(at[p].zip)) /\ ended' = ended \cup {at[p].seen}
           /\ at' = [at EXCEPT ![p] = [Idle EXCEPT !.step = "clearing", !.seen = at[p].seen]]
  <2>1. /\ Unzipped(at[p].zip) \in Dirs
        /\ Unzipped(at[p].zip).meta = Unzipped(at[p].zip).rest
        /\ Unzipped(at[p].zip).meta \in Revisions
    BY <1>3, UnzippedIsWhole DEF Land
  <2>2. /\ Others(p) /\ at' \in [Procs -> Places]
        /\ at'[p].step = "clearing" /\ at'[p].seen = at[p].seen /\ Coherent(at'[p].zip)
    <3> DEFINE place == [Idle EXCEPT !.step = "clearing", !.seen = at[p].seen]
    <3>1. /\ place \in Places /\ place.step = "clearing" /\ place.seen = at[p].seen
          /\ Coherent(place.zip)
      BY <1>1, IdlePlace DEF Idle, Places, Steps
    <3>2. at' = [at EXCEPT ![p] = place]
      BY <1>3
    <3> HIDE DEF place
    <3> QED
      BY <3>1, <3>2 DEF Others, IInv, TypeOK
  <2>3. GhostsGrow /\ LockMoves(p) /\ Ready(p)
    BY <1>3, <2>2 DEF GhostsGrow, LockMoves, Locked, Ready, Handled, ClaimStands
  <2>4. TypeOK'
    BY <1>2, <1>3, <2>1, <2>2, ArchiveAssumption
       DEF ArchiveAssumption, IInv, TypeOK, Land, Dirs, Births
  <2> QED
    BY <1>1, <1>3, <2>1, <2>2, <2>3, <2>4, LandKeeps DEF Locked
<1>4. CASE Goto(p, "rolling_back") /\ UNCHANGED <<path, born, ended>>
  <2>1. /\ Others(p) /\ at' \in [Procs -> Places] /\ at'[p] = [at[p] EXCEPT !.step = "rolling_back"]
        /\ at'[p].step = "rolling_back" /\ at'[p].seen = at[p].seen /\ at'[p].zip = at[p].zip
    BY <1>4, Types DEF Others, Goto, IInv, TypeOK, Places, Steps
  <2>2. LockMoves(p) /\ Ready(p)
    BY <1>1, <1>4, <2>1, Types DEF LockMoves, Locked, Ready, Handled, ClaimStands
  <2>3. TypeOK' /\ GhostsGrow /\ Accounted(p)
    BY <1>4, <2>1 DEF IInv, TypeOK, GhostsGrow, Accounted
  <2> QED
    BY <1>4, <2>1, <2>2, <2>3, QuietKeeps
<1> QED
  BY <1>3, <1>4

\* What was moved aside is put back, unless another has the name by now.
LEMMA RollBackKeeps == ASSUME IInv, NEW p \in Procs, RollBack(p) PROVE IInv'
<1> USE DEF RollBack, In
<1>1. /\ Others(p) /\ at'[p] = Idle /\ lock = p /\ lock' = Nobody
      /\ at' \in [Procs -> Places]
      /\ UNCHANGED <<archives, born, ended, torn, died, slipped>>
  BY IdlePlace DEF Others, Return, Unlock, IInv, TypeOK
<1>2. /\ \A q \in Procs : at[q].step \in Locked => q = p
      /\ \A e \in aside : e.born = at[p].seen \/ e.born \in ended \cup slipped
      /\ path = Nothing \/ at[p].seen \in slipped
  BY OneHolder DEF Locked, IInv, Handled
<1>3. LockMoves(p) /\ Ready(p)
  BY <1>1, IdlePlace DEF LockMoves, Locked, Ready, Handled, ClaimStands
<1>4. CASE ~Free /\ UNCHANGED <<path, aside>>
  <2>1. at[p].seen \in slipped
    BY <1>2, <1>4 DEF Free
  <2>2. TypeOK' /\ GhostsGrow /\ Accounted(p)
    BY <1>1, <1>4, <2>1 DEF IInv, TypeOK, GhostsGrow, Accounted
  <2> QED
    BY <1>1, <1>3, <1>4, <2>2, QuietKeeps
<1>5. ASSUME NEW d \in aside, d.born = at[p].seen, path' = d, aside' = aside \ {d}, Free
      PROVE  IInv'
  <2>1. /\ d \in Dirs /\ d # Nothing /\ \A e \in aside \ {d} : e.born # d.born
        /\ d.born <= born
    BY NothingAssumption DEF NothingAssumption, IInv, TypeOK, Apart
  <2>2. TypeOK' /\ ZipsCoherent'
    BY <1>1, <1>5, <2>1, IdlePlace DEF IInv, TypeOK, ZipsCoherent, Others
  <2>3. Held'
    BY <1>1, <1>3, HeldKeeps
  <2>4. Apart'
    BY <1>5, <2>1 DEF IInv, Apart
  <2>5. ~Exists /\ (path # Nothing => path.born \in ended)
    BY <1>5, OnlyEndedArePartial DEF Free, Empty, Exists, Whole
  <2>6. \A q \in Procs : Handled(q)'
    BY <1>1, <1>2, <1>3 DEF Ready, Handled, Others, Locked
  <2>7. Displaced' /\ AsideIsWhole' /\ ExportIsOneInstant'
    BY <1>1, <1>2, <1>5, <2>1 DEF IInv, Displaced, AsideIsWhole, Whole, ExportIsOneInstant
  <2>8. SlugIsOneInstant' /\ SlugIsWhole'
    BY <1>1, <1>5 DEF IInv, AsideIsWhole, SlugIsOneInstant, SlugIsWhole, Whole
  <2>9. \A q \in Procs : ClaimStands(q)'
    <3>1. ASSUME NEW q \in Procs \ {p} PROVE ClaimStands(q)'
      BY <1>1, <1>5, <2>1, <2>5 DEF IInv, ClaimStands, Others
    <3> QED
      BY <1>3, <3>1 DEF Ready
  <2>10. NoSessionLost'
    BY <1>1, <1>5, <2>1, <2>5 DEF IInv, NoSessionLost, Whole
  <2>11. PutBackOrCleared'
    BY <1>1, <1>2, <1>5, <2>1 DEF IInv, PutBackOrCleared, Locked
  <2> QED
    BY <2>2, <2>3, <2>4, <2>6, <2>7, <2>8, <2>9, <2>10, <2>11 DEF IInv
<1> QED
  BY <1>4, <1>5

\* The session that was replaced is cleared away.
LEMMA ClearKeeps == ASSUME IInv, NEW p \in Procs, Clear(p) PROVE IInv'
<1> USE DEF Clear, In
<1>1. /\ Others(p) /\ at'[p] = Idle /\ lock = p /\ lock' = Nobody
      /\ at' \in [Procs -> Places] /\ at[p].seen \in ended
      /\ aside' = {d \in aside : d.born # at[p].seen}
      /\ UNCHANGED <<path, archives, born, ended, torn, died, slipped>>
  BY IdlePlace DEF Others, Return, Unlock, IInv, TypeOK, Handled
<1>2. \A q \in Procs : at[q].step \in Locked => q = p
  BY OneHolder DEF Locked
<1>3. LockMoves(p) /\ Ready(p)
  BY <1>1, IdlePlace DEF LockMoves, Locked, Ready, Handled, ClaimStands
<1>4. TypeOK' /\ ZipsCoherent'
  BY <1>1, IdlePlace DEF IInv, TypeOK, ZipsCoherent, Others
<1>5. Held' /\ Apart'
  BY <1>1, <1>3, HeldKeeps DEF IInv, Apart
<1>6. \A q \in Procs : Handled(q)'
  BY <1>1, <1>2, <1>3 DEF IInv, Ready, Handled, Others, Locked
<1>7. Displaced' /\ AsideIsWhole' /\ ExportIsOneInstant' /\ NoSessionLost'
  BY <1>1 DEF IInv, Displaced, AsideIsWhole, Whole, ExportIsOneInstant, NoSessionLost
<1>8. SlugIsOneInstant' /\ SlugIsWhole'
  BY <1>1 DEF IInv, SlugIsOneInstant, SlugIsWhole, Whole, Others
<1>9. \A q \in Procs : ClaimStands(q)'
  <2>1. ASSUME NEW q \in Procs \ {p} PROVE ClaimStands(q)'
    BY <1>1 DEF IInv, ClaimStands, Others
  <2> QED
    BY <1>3, <2>1 DEF Ready
<1>10. PutBackOrCleared'
  BY <1>1, <1>2 DEF IInv, PutBackOrCleared, Locked
<1> QED
  BY <1>4, <1>5, <1>6, <1>7, <1>8, <1>9, <1>10 DEF IInv

\* A migration claims the slug with a whole directory, before it writes into it.
LEMMA MigrateKeeps == ASSUME IInv, NEW p \in Procs, Migrate(p) PROVE IInv'
<1> USE DEF Migrate, In
<1>1. born + 1 \in Births /\ 1 \in Births /\ born + 1 \in 0..MaxBorn
  BY Types, ArchiveAssumption DEF ArchiveAssumption, Births, Land
<1>2. /\ Fresh("legacy") \in Dirs /\ Fresh("legacy").from = "legacy"
      /\ Fresh("legacy").meta = 0 /\ Fresh("legacy").rest = 0 /\ 0 \in Revisions
  BY <1>1, ArchiveAssumption
     DEF ArchiveAssumption, Fresh, Dirs, Revisions, Ids, ForeignId, LegacyId
<1>3. /\ Others(p) /\ at' \in [Procs -> Places] /\ at'[p].zip = at[p].zip
      /\ at'[p].step = "claimed" /\ at'[p].seen = born + 1
  <2>1. [at[p] EXCEPT !.step = "claimed", !.seen = born + 1] \in Places
    BY <1>1, Types, NextPlace DEF Steps
  <2>2. at' = [at EXCEPT ![p] = [at[p] EXCEPT !.step = "claimed", !.seen = born + 1]]
    BY DEF IInv, TypeOK, Places
  <2> QED
    BY <2>1, <2>2, Types DEF Others, IInv, TypeOK, Places
<1>4. path' \in Dirs /\ path' # Nothing /\ path'.born = born + 1 /\ path'.from = "legacy"
  BY <1>1, <1>2, NothingAssumption DEF NothingAssumption, Land, Dirs
<1>5. TypeOK'
  BY <1>1, <1>3, <1>4, SlipCovers DEF IInv, TypeOK, Land
<1>6. LockMoves(p) /\ GhostsGrow /\ Ready(p)
  BY <1>3, <1>4, Types, SlipCovers DEF LockMoves, Locked, GhostsGrow, Ready, Handled, ClaimStands
<1> QED
  BY <1>2, <1>3, <1>5, <1>6, SlipCovers, LandKeeps

\* Then it writes under the lock, into the session that has the slug.
LEMMA StampKeeps == ASSUME IInv, NEW p \in Procs, Stamp(p) PROVE IInv'
<1> USE DEF Stamp, In
<1>1. CASE Lock(p) /\ path' = [path EXCEPT !.sid = LegacyId] /\ Goto(p, "stamped")
  <2>1. path \in Dirs /\ path # Nothing /\ path.meta # Gone /\ lock = Nobody /\ lock' = p
    BY <1>1, Types DEF Lock, Exists
  <2>2. /\ path' \in Dirs /\ path' # Nothing /\ path'.born = path.born /\ path'.from = path.from
        /\ path'.meta = path.meta /\ path'.rest = path.rest
    BY <1>1, <2>1, NothingAssumption, ArchiveAssumption
       DEF NothingAssumption, ArchiveAssumption, Dirs, Ids, LegacyId, ForeignId
  <2>3. /\ Others(p) /\ at' \in [Procs -> Places] /\ at'[p].step = "stamped"
        /\ at'[p].zip = at[p].zip /\ at'[p].seen = at[p].seen
    BY <1>1, Types DEF Goto, Others, IInv, TypeOK, Places, Steps
  <2>4. TypeOK'
    BY <2>1, <2>2, <2>3 DEF IInv, TypeOK
  <2>5. LockMoves(p) /\ Handled(p)' /\ Coherent(at'[p].zip)
    BY <2>1, <2>2, <2>3, Types DEF LockMoves, Locked, Handled, Exists
  <2>6. ClaimStands(p)'
    BY <2>1, <2>2, <2>3 DEF IInv, ClaimStands
  <2> QED
    BY <2>1, <2>2, <2>3, <2>4, <2>5, <2>6, WriteKeeps DEF Ready, Whole
<1>2. CASE Return(p) /\ UNCHANGED <<path, lock>>
  <2>1. Others(p) /\ at' \in [Procs -> Places] /\ at'[p] = Idle
    BY <1>2, IdlePlace DEF Others, Return, IInv, TypeOK
  <2>2. LockMoves(p) /\ Ready(p)
    BY <1>2, <2>1, IdlePlace DEF LockMoves, Locked, Ready, Handled, ClaimStands
  <2>3. TypeOK' /\ GhostsGrow /\ Accounted(p)
    BY <1>2, <2>1 DEF IInv, TypeOK, GhostsGrow, Accounted
  <2> QED
    BY <1>2, <2>1, <2>2, <2>3, QuietKeeps
<1> QED
  BY <1>1, <1>2

LEMMA MigrateModelKeeps == ASSUME IInv, NEW p \in Procs, MigrateModel(p) PROVE IInv'
<1> USE DEF MigrateModel, In
<1>1. path \in Dirs /\ path # Nothing /\ path.meta # Gone /\ lock = p
  BY Types DEF IInv, Handled, Exists, Held, Locked
<1>2. CASE path.meta = 0 /\ path' = [path EXCEPT !.rest = 1] /\ Goto(p, "modelled") /\ UNCHANGED lock
  <2>1. /\ path' \in Dirs /\ path' # Nothing /\ path'.born = path.born /\ path'.from = path.from
        /\ path'.meta = 0 /\ path'.rest = 1 /\ 1 \in Revisions /\ 0 \in Revisions /\ 1 # Gone
    BY <1>1, <1>2, NothingAssumption, ArchiveAssumption
       DEF NothingAssumption, ArchiveAssumption, Dirs, Revisions
  <2>2. /\ Others(p) /\ at' \in [Procs -> Places] /\ at'[p].step = "modelled"
        /\ at'[p].zip = at[p].zip /\ at'[p].seen = at[p].seen
    BY <1>2, Types DEF Goto, Others, IInv, TypeOK, Places, Steps
  <2>3. TypeOK'
    BY <1>2, <2>1, <2>2 DEF IInv, TypeOK
  <2>4. LockMoves(p) /\ Handled(p)' /\ Coherent(at'[p].zip)
    BY <1>1, <1>2, <2>1, <2>2, Types DEF LockMoves, Locked, Handled, Exists
  <2>5. ClaimStands(p)'
    BY <1>1, <2>1, <2>2 DEF IInv, ClaimStands
  <2>6. Whole(path')
    BY <1>1, <1>2, <2>1 DEF Whole
  <2> QED
    BY <1>1, <2>1, <2>2, <2>3, <2>4, <2>5, <2>6, WriteKeeps DEF Ready
<1>3. CASE Unlock(p) /\ Return(p) /\ UNCHANGED path
  <2>1. Others(p) /\ at' \in [Procs -> Places] /\ at'[p] = Idle /\ lock = p /\ lock' = Nobody
    BY <1>3, IdlePlace DEF Others, Return, Unlock, IInv, TypeOK
  <2>2. LockMoves(p) /\ Ready(p)
    BY <2>1, IdlePlace DEF LockMoves, Locked, Ready, Handled, ClaimStands
  <2>3. TypeOK' /\ GhostsGrow /\ Accounted(p)
    BY <1>3, <2>1 DEF IInv, TypeOK, GhostsGrow, Accounted
  <2> QED
    BY <1>3, <2>1, <2>2, <2>3, QuietKeeps
<1> QED
  BY <1>2, <1>3

LEMMA MigrateRecordKeeps == ASSUME IInv, NEW p \in Procs, MigrateRecord(p) PROVE IInv'
<1> USE DEF MigrateRecord, In
<1>1. /\ path \in Dirs /\ path # Nothing /\ path.meta # Gone /\ path.rest \in Revisions
      /\ lock = p
  BY Types DEF IInv, Handled, Exists, Held, Locked
<1>2. /\ path' \in Dirs /\ path' # Nothing /\ path'.born = path.born /\ path'.from = path.from
      /\ path'.meta = path.rest /\ path'.rest = path.rest /\ path.rest # Gone
  BY <1>1, NothingAssumption, ArchiveAssumption
     DEF NothingAssumption, ArchiveAssumption, Dirs, Revisions
<1>3. /\ Others(p) /\ at' \in [Procs -> Places] /\ at'[p].step = "documenting"
      /\ at'[p].zip = at[p].zip /\ at'[p].seen = at[p].seen
  BY Types DEF Goto, Others, IInv, TypeOK, Places, Steps
<1>4. TypeOK'
  BY <1>2, <1>3 DEF IInv, TypeOK
<1>5. LockMoves(p) /\ Handled(p)' /\ Coherent(at'[p].zip)
  BY <1>1, <1>2, <1>3, Types DEF LockMoves, Locked, Handled, Exists
<1>6. ClaimStands(p)'
  BY <1>1, <1>2, <1>3 DEF IInv, ClaimStands
<1>7. Whole(path')
  BY <1>2 DEF Whole
<1> QED
  BY <1>1, <1>2, <1>3, <1>4, <1>5, <1>6, <1>7, WriteKeeps DEF Ready

LEMMA MigrateDocumentsKeeps == ASSUME IInv, NEW p \in Procs, MigrateDocuments(p) PROVE IInv'
<1> USE DEF MigrateDocuments, In
<1>1. path \in Dirs /\ path # Nothing /\ path.meta # Gone /\ lock = p
  BY Types DEF IInv, Handled, Exists, Held, Locked
<1>2. /\ path' \in Dirs /\ path' # Nothing /\ path'.born = path.born /\ path'.from = path.from
      /\ path'.meta = path.meta /\ path'.rest = path.rest
  BY <1>1, NothingAssumption DEF NothingAssumption, Dirs
<1>3. Others(p) /\ at' \in [Procs -> Places] /\ at'[p] = Idle /\ lock' = Nobody
  BY IdlePlace DEF Others, Return, Unlock, IInv, TypeOK
<1>4. TypeOK'
  BY <1>2, <1>3 DEF IInv, TypeOK
<1>5. LockMoves(p) /\ Ready(p)
  BY <1>1, <1>3, IdlePlace DEF LockMoves, Locked, Ready, Handled, ClaimStands
<1> QED
  BY <1>1, <1>2, <1>3, <1>4, <1>5, WriteKeeps DEF Whole

\* A death leaves everything where it is, and is remembered where it matters.
LEMMA CrashKeeps == ASSUME IInv, NEW p \in Procs, Crash(p) PROVE IInv'
<1> USE DEF Crash, In
<1>1. Others(p) /\ at' \in [Procs -> Places] /\ at'[p] = Idle
  BY IdlePlace DEF Others, Return, IInv, TypeOK
<1>2. LockMoves(p) /\ Ready(p)
  BY <1>1, IdlePlace DEF IInv, Held, LockMoves, Locked, Ready, Handled, ClaimStands
<1>3. died' \subseteq Births /\ GhostsGrow
  <2>1. at[p].step \in {"removing", "clearing", "moving_in", "rolling_back"} => at[p].seen \in Births
    BY DEF IInv, Handled, TypeOK, Dirs
  <2> QED
    BY <2>1 DEF GhostsGrow, IInv, TypeOK
<1>4. torn' \subseteq Births
  <2>1. at[p].step \in {"recording", "modelled"} => path.born \in Births
    BY Types DEF IInv, Handled, Exists, Dirs
  <2> QED
    BY <2>1 DEF IInv, TypeOK
<1>5. TypeOK'
  BY <1>1, <1>3, <1>4, ArchiveAssumption DEF IInv, TypeOK
<1>6. Accounted(p)
  BY DEF Accounted
<1> QED
  BY <1>1, <1>2, <1>3, <1>5, <1>6, QuietKeeps

----------------------------------------------------------------------------
LEMMA InitEstablishes == Init => IInv
<1> SUFFICES ASSUME Init PROVE IInv
  OBVIOUS
<1>1. TypeOK
  BY IdlePlace, ArchiveAssumption DEF ArchiveAssumption, Init, TypeOK
<1>2. \A p \in Procs : at[p] = Idle
  BY DEF Init
<1>3. Held /\ Apart /\ ZipsCoherent
  BY <1>2, IdlePlace, ArchiveAssumption
     DEF ArchiveAssumption, Init, Held, Locked, Apart, ZipsCoherent
<1>4. (\A p \in Procs : Handled(p)) /\ (\A p \in Procs : ClaimStands(p))
  BY <1>2, IdlePlace DEF Handled, ClaimStands, In
<1>5. Displaced /\ AsideIsWhole /\ SlugIsOneInstant /\ PutBackOrCleared /\ SlugIsWhole
  BY DEF Init, Displaced, AsideIsWhole, SlugIsOneInstant, PutBackOrCleared, SlugIsWhole
<1>6. NoSessionLost /\ ExportIsOneInstant
  BY DEF Init, NoSessionLost, ExportIsOneInstant, Foreign
<1> QED
  BY <1>1, <1>3, <1>4, <1>5, <1>6 DEF IInv

LEMMA NextKeeps == IInv /\ [Next]_vars => IInv'
<1> SUFFICES ASSUME IInv, [Next]_vars PROVE IInv'
  OBVIOUS
<1>1. ASSUME NEW p \in Procs, Step(p) PROVE IInv'
  BY <1>1, CreateKeeps, DeleteKeeps, RemovePartKeeps, RemoveDirKeeps, ApplyKeeps, RecordKeeps,
     ExportKeeps, ZipKeeps, ImportKeeps, GuardKeeps, ClaimKeeps, StepAsideKeeps, MoveInKeeps,
     RollBackKeeps, ClearKeeps, MigrateKeeps, StampKeeps, MigrateModelKeeps, MigrateRecordKeeps,
     MigrateDocumentsKeeps, CrashKeeps DEF Step
<1>2. CASE UNCHANGED vars
  <2>1. /\ UNCHANGED <<path, aside, lock, at, archives, born, ended, torn, died, slipped>>
    BY <1>2 DEF vars
  <2>2. TypeOK' /\ Held' /\ Apart' /\ ZipsCoherent'
    BY <2>1 DEF IInv, TypeOK, Held, Apart, ZipsCoherent
  <2>3. (\A p \in Procs : Handled(p)') /\ (\A p \in Procs : ClaimStands(p)')
    BY <2>1 DEF IInv, Handled, ClaimStands, In, Exists
  <2>4. Displaced' /\ AsideIsWhole' /\ SlugIsOneInstant' /\ ExportIsOneInstant'
    BY <2>1 DEF IInv, Displaced, AsideIsWhole, Whole, SlugIsOneInstant, In, ExportIsOneInstant
  <2>5. NoSessionLost' /\ PutBackOrCleared' /\ SlugIsWhole'
    BY <2>1 DEF IInv, NoSessionLost, Whole, PutBackOrCleared, SlugIsWhole, In
  <2> QED
    BY <2>2, <2>3, <2>4, <2>5 DEF IInv
<1> QED
  BY <1>1, <1>2 DEF Next

\* In every state: who holds the lock finds what it began with, what is under the
\* slug is a session and what is aside was one, wherever a process has died.
THEOREM ArchiveInvariant == Spec => []IInv
  BY InitEstablishes, NextKeeps, PTL DEF Spec

\* The variables have their types.
THEOREM ArchiveTypes == Spec => []TypeOK
<1>1. IInv => TypeOK
  BY DEF IInv
<1> QED
  BY <1>1, ArchiveInvariant, PTL

\* `delete_session`, `_swap_in`: a session that has not ended is on disk with all its
\* files, whatever was refused, failed or died.
THEOREM ArchiveLosesNoSession == Spec => []NoSessionLost
<1>1. IInv => NoSessionLost
  BY DEF IInv
<1> QED
  BY <1>1, ArchiveInvariant, PTL

\* `_swap_in`: what a forced import moved aside is back or cleared away when it has
\* ended, but for a death, or another session that took the name meanwhile.
THEOREM ArchivePutsBack == Spec => []PutBackOrCleared
<1>1. IInv => PutBackOrCleared
  BY DEF IInv
<1> QED
  BY <1>1, ArchiveInvariant, PTL

\* `create_session`, `import_archive`, `migrate_legacy`: the slug shows no half of a
\* session but that of a deletion.
THEOREM ArchiveSlugIsWhole == Spec => []SlugIsWhole
<1>1. IInv => SlugIsWhole
  BY DEF IInv
<1> QED
  BY <1>1, ArchiveInvariant, PTL

\* `export_archive`: an archive is one instant of its session.
THEOREM ArchiveExportsOneInstant == Spec => []ExportIsOneInstant
<1>1. IInv => ExportIsOneInstant
  BY DEF IInv
<1> QED
  BY <1>1, ArchiveInvariant, PTL

\* `migrate_legacy`: a migration writes into the session it created, or that one has
\* been deleted, replaced, or moved aside and lost its name.
THEOREM ArchiveMigratesIntoItsClaim == Spec => []MigratesIntoItsClaim
<1>1. ASSUME IInv PROVE MigratesIntoItsClaim
  <2> SUFFICES ASSUME NEW p \in Procs, at[p].step \in {"stamped", "modelled", "documenting"},
                      at[p].seen \notin ended \cup slipped
               PROVE  path.from = "legacy"
    BY DEF MigratesIntoItsClaim
  <2>1. path # Nothing
    BY <1>1 DEF IInv, Handled, In, Exists
  <2>2. ~ \E d \in aside : d.born = at[p].seen
    BY <1>1, <2>1 DEF IInv, Displaced
  <2> QED
    BY <1>1, <2>2 DEF IInv, ClaimStands
<1>2. IInv => MigratesIntoItsClaim
  BY <1>1
<1> QED
  BY <1>2, ArchiveInvariant, PTL

\* `_swap_in`, `_identity`: only StepAside takes an import into its swap, and it does so
\* with the session that was observed when the import was told to replace it.
THEOREM ArchiveForceReplacesWhatItSaw == Spec => ForceReplacesWhatItSaw
<1> DEFINE Replaces == \A p \in Procs :
                          In(p, "swapping") /\ at'[p].step = "moving_in" =>
                              path.born = at[p].seen \/ path.sid = at[p].sid
<1>1. ASSUME IInv, [Next]_vars PROVE Replaces
  <2> SUFFICES ASSUME NEW q \in Procs, at[q].step = "swapping", at'[q].step = "moving_in"
               PROVE  path.born = at[q].seen \/ path.sid = at[q].sid
    BY DEF In
  <2>1. at \in [Procs -> Places]
    BY <1>1 DEF IInv, TypeOK
  <2>2. at'[q] # at[q] /\ at'[q] # Idle
    BY DEF Idle
  <2>3. PICK p \in Procs : Step(p)
    BY <1>1, <2>2 DEF Next, vars
  <2>4. CASE StepAside(p)
    <3>1. at' = [at EXCEPT ![p].step = "moving_in", ![p].seen = path.born] \/ at' = [at EXCEPT ![p] = Idle]
      BY <2>4 DEF StepAside, Return
    <3>2. p = q
      BY <2>1, <2>2, <3>1
    <3> QED
      BY <2>1, <2>2, <2>4, <3>2 DEF StepAside, Return, Identity
  <2>5. CASE MoveIn(p) \/ RollBack(p) \/ Clear(p)
    <3>1. at[p].step # "swapping"
      BY <2>5 DEF MoveIn, RollBack, Clear, In
    <3>2. \E place : at' = [at EXCEPT ![p] = place]
      BY <2>5 DEF MoveIn, RollBack, Clear, Goto, Return
    <3> QED
      BY <2>1, <2>2, <3>1, <3>2
  <2>6. CASE Create(p) \/ Delete(p) \/ RemovePart(p) \/ RemoveDir(p) \/ Apply(p) \/ Record(p)
             \/ Export(p) \/ Zip(p) \/ Guard(p) \/ Claim(p)
             \/ (\E zip \in archives, force \in {"yes", "no"} : Import(p, zip, force))
    <3>1. at[p].step # "swapping"
      BY <2>6 DEF Create, Delete, RemovePart, RemoveDir, Apply, Record, Export, Zip, Guard,
                  Claim, Import, In
    <3>2. UNCHANGED at \/ \E place : at' = [at EXCEPT ![p] = place]
      BY <2>6 DEF Create, Delete, RemovePart, RemoveDir, Apply, Record, Export, Zip, Guard,
                  Claim, Import, Goto, Return
    <3> QED
      BY <2>1, <2>2, <3>1, <3>2
  <2>7. CASE Migrate(p) \/ Stamp(p) \/ MigrateModel(p) \/ MigrateRecord(p) \/ MigrateDocuments(p)
    <3>1. at[p].step # "swapping"
      BY <2>7 DEF Migrate, Stamp, MigrateModel, MigrateRecord, MigrateDocuments, In
    <3>2. \E place : at' = [at EXCEPT ![p] = place]
      BY <2>7 DEF Migrate, Stamp, MigrateModel, MigrateRecord, MigrateDocuments, Goto, Return
    <3> QED
      BY <2>1, <2>2, <3>1, <3>2
  <2>8. CASE Crash(p)
    BY <2>1, <2>2, <2>8 DEF Crash, Return
  <2> QED
    BY <2>3, <2>4, <2>5, <2>6, <2>7, <2>8 DEF Step
<1> QED
  BY <1>1, ArchiveInvariant, PTL DEF Spec, ForceReplacesWhatItSaw
=============================================================================
