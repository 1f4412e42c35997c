SPECIFICATION Spec
CONSTANTS
    t1 = t1  t2 = t2  podA = podA  podB = podB  A = A  B = B
    Task = {t1}
    Pod = {podA, podB}
    Para = {A, B, Zero}
    Zero = Zero  None = None
    ParaOf <- ParaOfPods
    Labelled = {podA}
    Ops = {"cron"}
    Asks = {{B}, {A, B}}
    Faults = FALSE
INVARIANTS
    CronOnboardsInactive
CHECK_DEADLOCK FALSE
