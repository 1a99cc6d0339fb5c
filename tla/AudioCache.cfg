\* Two jobs, each with the video id or without one, three attempts each, as in the code.
CONSTANTS
    Job = {j1, j2}
    RetryAttempts = 3

SPECIFICATION Spec
SYMMETRY Symmetry

INVARIANTS
    TypeOK
    Stragglers
    
    SoleHolderKeepsFile
PROPERTIES
    OpensWhole

\* The jobs end.
CHECK_DEADLOCK FALSE
