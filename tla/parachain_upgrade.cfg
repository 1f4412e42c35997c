SPECIFICATION FairSpec
CONSTANTS
    Request = {r1, r2, r3}
    Code = {old, new}
    Genesis = old
    None = None
    Workers = 2
    MaxPolls = 2
    Faults = TRUE
INVARIANTS
    TypeOK
    RejectedOnlyByInterference
PROPERTIES
    ImplementsPromise
    EveryRequestAnswered
CHECK_DEADLOCK FALSE
