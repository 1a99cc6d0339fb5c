\* Two jobs for one video.
CONSTANTS
    Job = {j1, j2}
    RetryAttempts = 2

SPECIFICATION Spec

INVARIANTS
    KeepsItsFile

CHECK_DEADLOCK FALSE
