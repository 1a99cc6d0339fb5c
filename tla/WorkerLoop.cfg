\* Two tasks of any kinds in one child with a single thread, and one crash.
CONSTANTS
    Job = {j1, j2}
    Kinds <- KindChoices
    Threads = 1
    MaxCrashes = 1

SPECIFICATION FairSpec

INVARIANTS
    TypeOK
    NothingDropped
    WorkspaceReclaimed
PROPERTIES
    EndStays
    EndReported

\* The tasks end.
CHECK_DEADLOCK FALSE
