\* A first run and its retry.
CONSTANTS
    Run = {r1, r2}
    Attempts = 2

SPECIFICATION Spec

INVARIANTS
    ResumeSkipsAcquisition

CHECK_DEADLOCK FALSE
