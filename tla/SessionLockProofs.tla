------------------------- MODULE SessionLockProofs -------------------------
(***************************************************************************)
(* What the session lock promises, for any number of threads, deleters and *)
(* inodes.  MutualExclusion is not inductive and is not even invariant:    *)
(* what carries it is that, while the first session of a slug is there,    *)
(* every open lock file is the one the path names (OneFile), so whoever    *)
(* passes the second existence check holds the one flock there is.  Once   *)
(* the session is gone nobody passes that check any more.                  *)
(***************************************************************************)
EXTENDS SessionLock, TLAPS

\* Which files are open, and by whom, at each step of session_lock.
OpenFiles ==
    /\ \A p \in Procs : pc[p] \in {"idle", "opening", "late_unlink"} => fd[p] = NoFile
    /\ \A p \in Procs : pc[p] = "waiting" => fd[p] \in Inodes
    /\ \A p \in Procs : pc[p] \in Holding => fd[p] \in Inodes /\ flock[fd[p]] = p

\* Nobody enters session_lock before there has been a session.
QuietAtFirst == lives = 0 => session = "absent" /\ \A p \in Procs : pc[p] = "idle"

\* An unlink is only requested by a delete, and is spent on the way out.
Requests == \A p \in Procs : p \in requested => pc[p] \in {"deleted", "late_unlink"}

\* While the first session is there, one file is the lock and no delete is under way.
OneFile ==
    lives < 2 /\ session = "present" =>
        \A p \in Procs : /\ fd[p] \in {NoFile, link}
                         /\ pc[p] \notin {"unlinking", "deleted", "late_unlink"}

IInv ==
    /\ TypeOK
    /\ OpenFiles
    /\ NoOrphanedLock
    /\ QuietAtFirst
    /\ Requests
    /\ OneFile
    /\ ExclusiveUntilRecreated
    /\ WriterKeepsItsSession

----------------------------------------------------------------------------
(* The invariant is inductive: one lemma per group of actions.             *)

\* The initial states satisfy the invariant.
LEMMA InitEstablishes == Init => IInv
<1> SUFFICES ASSUME Init PROVE IInv
  OBVIOUS
<1> USE LockAssumption DEF LockAssumption, Init
<1>1. TypeOK
  BY DEF TypeOK, Steps
<1>2. OpenFiles /\ NoOrphanedLock
  BY DEF OpenFiles, NoOrphanedLock, Holding
<1>3. QuietAtFirst /\ Requests /\ OneFile
  BY DEF QuietAtFirst, Requests, OneFile
<1>4. ExclusiveUntilRecreated /\ WriterKeepsItsSession
  BY DEF ExclusiveUntilRecreated, MutualExclusion, Critical, WriterKeepsItsSession
<1> QED
  BY <1>1, <1>2, <1>3, <1>4 DEF IInv

\* Every way out of the lock keeps the invariant: the finally clause of session_lock.
LEMMA ReleaseKeeps ==
  ASSUME IInv, NEW p \in Procs, pc[p] \in Holding, pc[p] # "unlinking", Release(p)
  PROVE  IInv'
<1> USE LockAssumption DEF LockAssumption, IInv, TypeOK, Steps, Holding, Release, Goto
<1>1. TypeOK'
  <2>1. (IF p \in requested THEN "late_unlink" ELSE "idle") \in Steps
    BY DEF Steps
  <2>2. pc' \in [Procs -> Steps]
    BY <2>1
  <2>3. 0 \in 0..MaxDepth
    OBVIOUS
  <2>4. depth' \in [Procs -> 0..MaxDepth]
    BY <2>3
  <2> QED
    BY <2>2, <2>4
<1>2. OpenFiles' /\ NoOrphanedLock'
  BY DEF OpenFiles, NoOrphanedLock
<1>3. QuietAtFirst' /\ Requests'
  BY DEF QuietAtFirst, Requests
<1>4. OneFile'
  BY DEF OneFile, Requests
<1>5. ExclusiveUntilRecreated' /\ WriterKeepsItsSession'
  BY DEF ExclusiveUntilRecreated, MutualExclusion, Critical, WriterKeepsItsSession
<1> QED
  BY <1>1, <1>2, <1>3, <1>4, <1>5

\* Waiting for the lock and being granted or refused it.
LEMMA LockKeeps ==
  ASSUME IInv, NEW p \in Procs, Precheck(p) \/ Lock(p)
  PROVE  IInv'
<1> USE LockAssumption DEF LockAssumption, IInv, TypeOK, Steps, Holding, Goto
<1>1. CASE Precheck(p)
  BY <1>1 DEF Precheck, OpenFiles, NoOrphanedLock, QuietAtFirst, Requests, OneFile,
              ExclusiveUntilRecreated, MutualExclusion, Critical, WriterKeepsItsSession
<1>2. CASE Open(p)
  <2> USE <1>2 DEF Open, Mintable
  <2>1. TypeOK' /\ OpenFiles' /\ NoOrphanedLock'
    BY DEF OpenFiles, NoOrphanedLock
  <2>2. QuietAtFirst' /\ Requests'
    BY DEF QuietAtFirst, Requests
  <2>3. OneFile'
    BY DEF OneFile, OpenFiles
  <2>4. ExclusiveUntilRecreated' /\ WriterKeepsItsSession'
    BY DEF ExclusiveUntilRecreated, MutualExclusion, Critical, WriterKeepsItsSession
  <2> QED
    BY <2>1, <2>2, <2>3, <2>4
<1>3. CASE Acquire(p)
  <2> USE <1>3 DEF Acquire
  <2>1. TypeOK' /\ OpenFiles' /\ NoOrphanedLock'
    BY DEF OpenFiles, NoOrphanedLock
  <2>2. QuietAtFirst' /\ Requests' /\ OneFile'
    BY DEF QuietAtFirst, Requests, OneFile
  <2>3. ExclusiveUntilRecreated' /\ WriterKeepsItsSession'
    BY DEF ExclusiveUntilRecreated, MutualExclusion, Critical, WriterKeepsItsSession
  <2> QED
    BY <2>1, <2>2, <2>3
<1>4. CASE TimeOut(p)
  BY <1>4 DEF TimeOut, OpenFiles, NoOrphanedLock, QuietAtFirst, Requests, OneFile,
              ExclusiveUntilRecreated, MutualExclusion, Critical, WriterKeepsItsSession
<1>5. CASE Recheck(p)
  <2> USE <1>5 DEF Recheck
  <2>1. TypeOK' /\ OpenFiles' /\ NoOrphanedLock'
    BY DEF OpenFiles, NoOrphanedLock
  <2>2. QuietAtFirst' /\ Requests' /\ OneFile' /\ WriterKeepsItsSession'
    BY DEF QuietAtFirst, Requests, OneFile, WriterKeepsItsSession
  \* Whoever is inside holds the linked file's flock, as p does.
  <2>3. ASSUME lives < 2, NEW q \in Procs, pc[q] \in Critical
        PROVE  q = p
    BY <2>3 DEF OneFile, OpenFiles, Critical
  <2>4. ExclusiveUntilRecreated'
    BY <2>3 DEF ExclusiveUntilRecreated, MutualExclusion, Critical
  <2> QED
    BY <2>1, <2>2, <2>4
<1>6. CASE Refuse(p)
  BY <1>6, ReleaseKeeps DEF Refuse
<1> QED
  BY <1>1, <1>2, <1>3, <1>4, <1>5, <1>6 DEF Lock

\* Nesting, leaving, and the deferred unlink.
LEMMA UnlockKeeps ==
  ASSUME IInv, NEW p \in Procs, Nest(p) \/ Unlock(p)
  PROVE  IInv'
<1> USE LockAssumption DEF LockAssumption, IInv, TypeOK, Steps, Holding, Goto
<1>1. CASE Nest(p)
  BY <1>1 DEF Nest, OpenFiles, NoOrphanedLock, QuietAtFirst, Requests, OneFile,
              ExclusiveUntilRecreated, MutualExclusion, Critical, WriterKeepsItsSession
<1>2. CASE Unnest(p)
  BY <1>2 DEF Unnest, OpenFiles, NoOrphanedLock, QuietAtFirst, Requests, OneFile,
              ExclusiveUntilRecreated, MutualExclusion, Critical, WriterKeepsItsSession
<1>3. CASE Leave(p)
  BY <1>3, ReleaseKeeps DEF Leave
<1>4. CASE LateUnlink(p)
  BY <1>4 DEF LateUnlink, OpenFiles, NoOrphanedLock, QuietAtFirst, Requests, OneFile,
              ExclusiveUntilRecreated, MutualExclusion, Critical, WriterKeepsItsSession
<1> QED
  BY <1>1, <1>2, <1>3, <1>4 DEF Unlock

\* The delete: it runs alone, so no other writer is inside when the session goes.
LEMMA DeleteKeeps ==
  ASSUME IInv, NEW p \in Procs, Delete(p)
  PROVE  IInv'
<1> USE LockAssumption DEF LockAssumption, IInv, TypeOK, Steps, Holding, Goto
<1>1. CASE RemoveSession(p)
  <2> USE <1>1 DEF RemoveSession
  <2>1. TypeOK' /\ OpenFiles' /\ NoOrphanedLock'
    BY DEF OpenFiles, NoOrphanedLock
  <2>2. QuietAtFirst' /\ Requests' /\ OneFile'
    BY DEF QuietAtFirst, Requests, OneFile
  <2>3. ExclusiveUntilRecreated' /\ WriterKeepsItsSession'
    BY DEF ExclusiveUntilRecreated, MutualExclusion, Critical, WriterKeepsItsSession
  <2> QED
    BY <2>1, <2>2, <2>3
<1>2. CASE UnlinkHeld(p)
  BY <1>2 DEF UnlinkHeld, OpenFiles, NoOrphanedLock, QuietAtFirst, Requests, OneFile,
              ExclusiveUntilRecreated, MutualExclusion, Critical, WriterKeepsItsSession
<1> QED
  BY <1>1, <1>2 DEF Delete

\* A session created, and a process that dies.
LEMMA WorldKeeps ==
  ASSUME IInv, Create \/ \E p \in Procs : Crash(p)
  PROVE  IInv'
<1> USE LockAssumption DEF LockAssumption, IInv, TypeOK, Steps, Holding, Goto
<1>1. CASE Create
  BY <1>1 DEF Create, OpenFiles, NoOrphanedLock, QuietAtFirst, Requests, OneFile,
              ExclusiveUntilRecreated, MutualExclusion, Critical, WriterKeepsItsSession
<1>2. ASSUME NEW p \in Procs, Crash(p)
      PROVE  IInv'
  <2> USE <1>2 DEF Crash
  <2>1. TypeOK' /\ OpenFiles' /\ NoOrphanedLock'
    BY DEF OpenFiles, NoOrphanedLock
  <2>2. QuietAtFirst' /\ Requests' /\ OneFile'
    BY DEF QuietAtFirst, Requests, OneFile
  <2>3. ExclusiveUntilRecreated' /\ WriterKeepsItsSession'
    BY DEF ExclusiveUntilRecreated, MutualExclusion, Critical, WriterKeepsItsSession
  <2> QED
    BY <2>1, <2>2, <2>3
<1> QED
  BY <1>1, <1>2

\* Every step keeps the invariant.
LEMMA NextKeeps == IInv /\ [Next]_vars => IInv'
<1> SUFFICES ASSUME IInv, [Next]_vars PROVE IInv'
  OBVIOUS
<1>1. CASE UNCHANGED vars
  BY <1>1 DEF vars, IInv, TypeOK, OpenFiles, NoOrphanedLock, QuietAtFirst, Requests,
              OneFile, ExclusiveUntilRecreated, MutualExclusion, WriterKeepsItsSession
<1>2. CASE Next
  BY <1>2, LockKeeps, UnlockKeeps, DeleteKeeps, WorldKeeps DEF Next
<1> QED
  BY <1>1, <1>2

\* The inductive invariant holds in every reachable state of session_lock.
THEOREM LockInvariant == Spec => []IInv
  BY InitEstablishes, NextKeeps, PTL DEF Spec

\* TypeOK, for every set of threads and inodes.
THEOREM LockTypes == Spec => []TypeOK
<1>1. IInv => TypeOK
  BY DEF IInv
<1> QED
  BY <1>1, LockInvariant, PTL

\* session_lock is exclusive until the slug of a deleted session is created
\* again, however its holders, waiters and deleters interleave or crash.
THEOREM LockExclusive == Spec => []ExclusiveUntilRecreated
<1>1. IInv => ExclusiveUntilRecreated
  BY DEF IInv
<1> QED
  BY <1>1, LockInvariant, PTL

\* No delete_session takes a session away from under a writer in its block.
THEOREM LockProtectsWriters == Spec => []WriterKeepsItsSession
<1>1. IInv => WriterKeepsItsSession
  BY DEF IInv
<1> QED
  BY <1>1, LockInvariant, PTL

\* No path out of session_lock, a crash included, leaves a session locked.
THEOREM LockNeverOrphaned == Spec => []NoOrphanedLock
<1>1. IInv => NoOrphanedLock
  BY DEF IInv
<1> QED
  BY <1>1, LockInvariant, PTL
=============================================================================
