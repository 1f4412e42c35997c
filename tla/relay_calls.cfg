SPECIFICATION FairSpec
CONSTANTS
    conf = conf  move = move  nom = nom  n1 = n1
    ApiWorker = {w1}
    Scheduler = scheduler
    Request <- Requests
    Pass = pass
    Kind <- Kinds
    Signer <- Signers
    Sudo = sudo
    Nominator = {n1}
    Owner = {o1, o2}
    Proxied = {o1}
    Unwelcome <- RefusedCalls
    Batch <- NoCalls
    Raising <- SecondSet
    MayNotCompose <- Malformed
    NoJob = NoJob  NoTx = NoTx  NoOne = NoOne
    MaxRequests = 2
    MaxFaults = 1
    MaxChanges = 1
INVARIANTS
    TypeOK
    UndisturbedOkIsEffective
    StrandedOnlyIfDisturbed
PROPERTIES
    ImplementsPromise
    FailsOnlyIfDisturbed
    EveryJobEnds
    SetsAreRegistered
CHECK_DEADLOCK FALSE
