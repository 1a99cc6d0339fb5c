\* One task of two ticks, with a request that may take as long as the grace.
CONSTANTS
    Call = {"get", "advance", "store", "complete", "fail"}
    None = "none"
    MaxRetries = 2
    Budget = 2
    Margin = 2
    Graces = {1, 4}
    Timeout = 3
    Delay = 1

SPECIFICATION ClockSpec

INVARIANTS
    ClockTypeOK
    Acknowledged
    ReportFits
PROPERTIES
    CallsSpec
    PipelineFirst

\* The task ends.
CHECK_DEADLOCK FALSE
