SPECIFICATION FairSpec
CONSTANTS
    p1 = p1  p2 = p2  s1 = s1  s2 = s2  x2 = x2  gAlice = gAlice
    Task = {t1, t2}
    Pod <- OnePod
    Account <- OnePodAccounts
    Stash <- OnePodStash
    Label <- OnePodLabel
    Genesis <- OneGenesis
    NoAccount = NoAccount  NoPod = NoPod  NoKeys = NoKeys  OperatorKeys = OperatorKeys  NoOp = NoOp
    Mute <- OnePod
    Faults = FALSE
PROPERTIES
    RegisteredBecomesCandidate
    ImplementsFairPromise
