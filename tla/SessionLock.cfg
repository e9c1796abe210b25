\* Three threads; two may delete; unlinking the held lock file may be refused.
SPECIFICATION FairSpec
CONSTANTS
    p1 = p1
    p2 = p2
    p3 = p3
    Procs <- MCProcs
    Deleters <- MCDeleters
    Inodes = {1, 2, 3, 4}
    MaxDepth = 2
    UnlinkRefused = TRUE
    Nobody = Nobody
    NoFile = NoFile
INVARIANTS
    TypeOK
    ExclusiveUntilRecreated
    WriterKeepsItsSession
    NoOrphanedLock
PROPERTY
    WaiterIsAnswered
