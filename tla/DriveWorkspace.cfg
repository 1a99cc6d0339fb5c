\* Three runs of the strategy for one file, with two attempts in each loop.
CONSTANTS
    Run = {r1, r2, r3}
    Attempts = 2

SPECIFICATION Spec
SYMMETRY Symmetry

INVARIANTS
    TypeOK
    WorkspaceOwned
    AudioAtHand

\* The runs end.
CHECK_DEADLOCK FALSE
