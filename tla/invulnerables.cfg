SPECIFICATION FairSpec
CONSTANTS
    n1 = n1  n2 = n2  c1 = c1  a1 = a1
    Task = {t1, t2}
    Node <- TwoNodes
    Account <- TwoAccounts
    CollatorAccount <- TwoCollators
    NoAccount = NoAccount
    Endpoint <- Both
    Faults = TRUE
PROPERTIES
    ImplementsPromise
    UndisturbedListIsPrecise
CHECK_DEADLOCK FALSE
