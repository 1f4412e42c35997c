SPECIFICATION FairSpec
CONSTANTS
    t1 = t1  t2 = t2  podA = podA  podB = podB  A = A  B = B
    Task = {t1, t2}
    Pod = {podA, podB}
    Para = {A, B, Zero}
    Zero = Zero  None = None
    ParaOf <- ParaOfPods
    Labelled = {podA}
    Ops = {"onboard", "offboard", "cron"}
    Asks = {{B}, {A, B}}
    Faults = TRUE
INVARIANTS
    TypeOK
    GenesisOfItsOwnNode
PROPERTIES
    ImplementsPromise
    ImplementsFairPromise
    AskedIsOnboarded
CHECK_DEADLOCK FALSE
