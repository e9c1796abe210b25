---------------------------- MODULE SessionLock ----------------------------
(***************************************************************************)
(* The write lock of one session: `requivo.core.persistence.lock`, with    *)
(* the two operations that decide whether there is a session to lock,      *)
(* `Store.create_session` and `Store.delete_session`.                      *)
(*                                                                         *)
(* The lock is an advisory flock on <workspace>/.requivo/locks/<slug>.lock.*)
(* A flock belongs to an open file, not to a path, so the model keeps the  *)
(* inode the path names (link), the inode each process holds open (fd) and *)
(* the holder of each inode's flock apart.  Every place where the code     *)
(* leaves a gap between two system calls is a gap between two actions.     *)
(*                                                                         *)
(* create_session takes no lock: its rename is its claim on the slug.      *)
(***************************************************************************)
EXTENDS Naturals, FiniteSets

CONSTANTS Procs,         \* threads of any process that may lock the session
          Deleters,      \* those of them that run delete_session
          Inodes,        \* lock-file inodes; a freed one may be minted again
          MaxDepth,      \* bound: frames of session_lock one thread nests
          UnlinkRefused, \* TRUE where an unlink of the open lock file may fail
          Nobody, NoFile

ASSUME LockAssumption ==
    /\ Deleters \subseteq Procs
    /\ Nobody \notin Procs
    /\ NoFile \notin Inodes
    /\ MaxDepth \in Nat \ {0}
    /\ UnlinkRefused \in BOOLEAN

VARIABLES session,   \* whether <slug>/session.json is "present" or "absent"
          lives,     \* ghost: sessions created under the slug, counted to 2
          link,      \* the inode the lock path names, or NoFile
          fd,        \* fd[p]: the inode p holds open, or NoFile
          flock,     \* flock[i]: who holds inode i's lock, or Nobody
          pc,        \* pc[p]: where p is in session_lock
          depth,     \* depth[p]: _held_locks.depths of p's thread
          requested  \* the threads with an unlink_on_release pending

vars == <<session, lives, link, fd, flock, pc, depth, requested>>

\* The steps of session_lock, and of the delete that runs inside it.
Steps == {"idle", "opening", "waiting", "checking", "inside", "unlinking",
          "deleted", "late_unlink"}

\* Where a thread holds its inode's flock, and where it runs the locked block.
Holding == {"checking", "inside", "unlinking", "deleted"}
Critical == {"inside", "unlinking", "deleted"}

TypeOK ==
    /\ session \in {"absent", "present"}
    /\ lives \in 0..2
    /\ link \in Inodes \cup {NoFile}
    /\ fd \in [Procs -> Inodes \cup {NoFile}]
    /\ flock \in [Inodes -> Procs \cup {Nobody}]
    /\ pc \in [Procs -> Steps]
    /\ depth \in [Procs -> 0..MaxDepth]
    /\ requested \subseteq Procs

\* A lock file may be left over from an earlier life of the slug (it is inert).
Init ==
    /\ session = "absent"
    /\ lives = 0
    /\ link \in Inodes \cup {NoFile}
    /\ fd = [p \in Procs |-> NoFile]
    /\ flock = [i \in Inodes |-> Nobody]
    /\ pc = [p \in Procs |-> "idle"]
    /\ depth = [p \in Procs |-> 0]
    /\ requested = {}

Goto(p, step) == pc' = [pc EXCEPT ![p] = step]

----------------------------------------------------------------------------
(* session_lock                                                            *)

\* The cheap check before the open: a missing session is refused here.
Precheck(p) ==
    /\ pc[p] = "idle"
    /\ session = "present"
    /\ Goto(p, "opening")
    /\ UNCHANGED <<session, lives, link, fd, flock, depth, requested>>

\* An inode nothing refers to, which is what O_CREAT may mint.
Mintable == {i \in Inodes : i # link /\ \A p \in Procs : fd[p] # i}

\* os.open(p, O_RDWR | O_CREAT): the linked inode, or a new one.
Open(p) ==
    /\ pc[p] = "opening"
    /\ \E i \in IF link = NoFile THEN Mintable ELSE {link} :
          /\ link' = i
          /\ fd' = [fd EXCEPT ![p] = i]
    /\ Goto(p, "waiting")
    /\ UNCHANGED <<session, lives, flock, depth, requested>>

\* One LOCK_EX | LOCK_NB poll that succeeds.
Acquire(p) ==
    /\ pc[p] = "waiting"
    /\ flock[fd[p]] = Nobody
    /\ flock' = [flock EXCEPT ![fd[p]] = p]
    /\ Goto(p, "checking")
    /\ UNCHANGED <<session, lives, link, fd, depth, requested>>

\* Faulty variant: the poll has no deadline.
NeverTimesOut(p) == FALSE /\ pc' = [pc EXCEPT ![p] = "idle"]

\* A poll that fails past the deadline: SessionLockedError, and the fd is closed.
TimeOut(p) ==
    /\ pc[p] = "waiting"
    /\ flock[fd[p]] # Nobody
    /\ fd' = [fd EXCEPT ![p] = NoFile]
    /\ Goto(p, "idle")
    /\ UNCHANGED <<session, lives, link, flock, depth, requested>>

\* Faulty variant: the check before the open is taken as authoritative.
RecheckSkipped(p) ==
    /\ pc[p] = "checking"
    /\ depth' = [depth EXCEPT ![p] = 1]
    /\ Goto(p, "inside")
    /\ UNCHANGED <<session, lives, link, fd, flock, requested>>

\* The authoritative check, made with the lock held.
Recheck(p) ==
    /\ pc[p] = "checking"
    /\ session = "present"
    /\ depth' = [depth EXCEPT ![p] = 1]
    /\ Goto(p, "inside")
    /\ UNCHANGED <<session, lives, link, fd, flock, requested>>

\* The finally clause: LOCK_UN and close, then a requested unlink is due.
Release(p) ==
    /\ flock' = [flock EXCEPT ![fd[p]] = Nobody]
    /\ fd' = [fd EXCEPT ![p] = NoFile]
    /\ depth' = [depth EXCEPT ![p] = 0]
    /\ Goto(p, IF p \in requested THEN "late_unlink" ELSE "idle")
    /\ UNCHANGED <<session, lives, link, requested>>

\* Faulty variant: the refusal leaves by a path with no finally clause.
RefuseKeepingTheLock(p) ==
    /\ pc[p] = "checking"
    /\ session = "absent"
    /\ Goto(p, "idle")
    /\ UNCHANGED <<session, lives, link, fd, flock, depth, requested>>

\* The session went away while p waited: _no_session, with the lock given back.
Refuse(p) ==
    /\ pc[p] = "checking"
    /\ session = "absent"
    /\ Release(p)

\* A nested session_lock of the same thread only counts.
Nest(p) ==
    /\ pc[p] \in {"inside", "deleted"}
    /\ depth[p] < MaxDepth
    /\ depth' = [depth EXCEPT ![p] = @ + 1]
    /\ UNCHANGED <<session, lives, link, fd, flock, pc, requested>>

\* Faulty variants: the inner frame releases, or counts down once too often.
UnnestReleasing(p) ==
    /\ pc[p] \in {"inside", "deleted"}
    /\ depth[p] > 1
    /\ depth' = [depth EXCEPT ![p] = @ - 1]
    /\ flock' = [flock EXCEPT ![fd[p]] = Nobody]
    /\ UNCHANGED <<session, lives, link, fd, pc, requested>>

UnnestUnguarded(p) ==
    /\ pc[p] \in {"inside", "deleted"}
    /\ depth' = [depth EXCEPT ![p] = @ - 1]
    /\ UNCHANGED <<session, lives, link, fd, flock, pc, requested>>

Unnest(p) ==
    /\ pc[p] \in {"inside", "deleted"}
    /\ depth[p] > 1
    /\ depth' = [depth EXCEPT ![p] = @ - 1]
    /\ UNCHANGED <<session, lives, link, fd, flock, pc, requested>>

\* The outermost frame ends.
Leave(p) ==
    /\ pc[p] \in {"inside", "deleted"}
    /\ depth[p] = 1
    /\ Release(p)

\* The deferred unlink, after the close: best effort, and never retried.
LateUnlink(p) ==
    /\ pc[p] = "late_unlink"
    /\ requested' = requested \ {p}
    /\ link' \in {NoFile, link}
    /\ Goto(p, "idle")
    /\ UNCHANGED <<session, lives, fd, flock, depth>>

----------------------------------------------------------------------------
(* delete_session, in its own frame of session_lock or a caller's          *)

\* shutil.rmtree of the session directory.
RemoveSession(p) ==
    /\ p \in Deleters
    /\ pc[p] = "inside"
    /\ session = "present"
    /\ session' = "absent"
    /\ Goto(p, "unlinking")
    /\ UNCHANGED <<lives, link, fd, flock, depth, requested>>

\* The unlink of the lock path, the lock still held.
UnlinkHeld(p) ==
    /\ pc[p] = "unlinking"
    /\ \/ /\ link' = NoFile
          /\ UNCHANGED requested
       \/ /\ UnlinkRefused
          /\ requested' = requested \cup {p}
          /\ UNCHANGED link
    /\ Goto(p, "deleted")
    /\ UNCHANGED <<session, lives, fd, flock, depth>>

----------------------------------------------------------------------------
(* The rest of the world                                                   *)

\* create_session's rename (or an import's): no lock is taken.
Create ==
    /\ session = "absent"
    /\ session' = "present"
    /\ lives' = IF lives < 2 THEN lives + 1 ELSE 2
    /\ UNCHANGED <<link, fd, flock, pc, depth, requested>>

\* The process dies: the kernel closes its files, and the flock goes with them.
Crash(p) ==
    /\ pc[p] # "idle"
    /\ flock' = [i \in Inodes |-> IF flock[i] = p THEN Nobody ELSE flock[i]]
    /\ fd' = [fd EXCEPT ![p] = NoFile]
    /\ depth' = [depth EXCEPT ![p] = 0]
    /\ requested' = requested \ {p}
    /\ Goto(p, "idle")
    /\ UNCHANGED <<session, lives, link>>

\* What a thread in session_lock does of its own accord.
Lock(p) == Open(p) \/ Acquire(p) \/ TimeOut(p) \/ Recheck(p) \/ Refuse(p)
Unlock(p) == Unnest(p) \/ Leave(p) \/ LateUnlink(p)
Delete(p) == RemoveSession(p) \/ UnlinkHeld(p)

Next ==
    \/ Create
    \/ \E p \in Procs :
          Precheck(p) \/ Lock(p) \/ Nest(p) \/ Unlock(p) \/ Delete(p) \/ Crash(p)

Spec == Init /\ [][Next]_vars

\* A thread that is polling keeps polling until the lock or its deadline comes.
FairSpec == Spec /\ \A p \in Procs : WF_vars(Lock(p))

----------------------------------------------------------------------------
(* Properties                                                              *)

\* No two threads run the locked block of one session at once: "exclusive
\* across threads and processes", as session_lock's docstring has it.
MutualExclusion ==
    \A p, q \in Procs : pc[p] \in Critical /\ pc[q] \in Critical => p = q

\* The part of it that writers depend on: no two of them are between the
\* authoritative check and the release at once.
OneWriter == \A p, q \in Procs : pc[p] = "inside" /\ pc[q] = "inside" => p = q

\* Until the slug of a deleted session is created again the lock is exclusive,
\* although delete_session unlinks the file others may be waiting on.
ExclusiveUntilRecreated == lives < 2 => MutualExclusion

\* A writer inside the block has its session for as long as it stays there: no
\* other thread's delete_session takes it away, until the slug is re-created.
WriterKeepsItsSession ==
    lives < 2 => \A p \in Procs : pc[p] = "inside" => session = "present"

\* A held flock belongs to a thread that is on its way to releasing it: no
\* refusal, deadline, nested frame or crash leaves a session locked.
NoOrphanedLock ==
    \A i \in Inodes : flock[i] # Nobody =>
        fd[flock[i]] = i /\ pc[flock[i]] \in Holding

\* A thread that waits for the lock is granted it or refused within the
\* deadline, even when the holder never leaves its block.
WaiterIsAnswered ==
    \A p \in Procs : pc[p] = "waiting" ~> pc[p] # "waiting"
=============================================================================
