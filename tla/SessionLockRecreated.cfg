\* Where the platform lets a held lock file be unlinked, as POSIX does.
SPECIFICATION FairSpec
CONSTANTS
    p1 = p1
    p2 = p2
    p3 = p3
    Procs <- MCProcs
    Deleters <- MCDeleters
    Inodes = {1, 2, 3, 4}
    MaxDepth = 2
    UnlinkRefused = FALSE
    Nobody = Nobody
    NoFile = NoFile
INVARIANT OneWriter
