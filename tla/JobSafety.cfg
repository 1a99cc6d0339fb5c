\* Two workers, one crash, a budget of two deliveries of two attempts each.
CONSTANTS
    Worker = {w1, w2}
    CloudId = {c1, c2, c3}
    NoToken = NoToken
    CloudJobAttempts = 2
    RetryAttempts = 2
    MaxCrashes = 1

SPECIFICATION Spec
SYMMETRY Symmetry

INVARIANTS
    TypeOK
    NoLostJob
    RetryBudget
    BoundedSubmissions
    JobInv
PROPERTIES
    CompletedStays
    LifecycleSpec

\* A settled job leaves nothing to do.
CHECK_DEADLOCK FALSE
