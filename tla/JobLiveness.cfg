\* The fair system on a smaller instance, without symmetry.
CONSTANTS
    Worker = {w1, w2}
    CloudId = {c1, c2}
    NoToken = NoToken
    CloudJobAttempts = 2
    RetryAttempts = 2
    MaxCrashes = 0

SPECIFICATION FairSpec

PROPERTIES
    JobSettles
    RunsEnd

\* A settled job leaves nothing to do.
CHECK_DEADLOCK FALSE
