SPECIFICATION FairSpec
CONSTANTS
    t1 = t1  t2 = t2
    p1 = p1  p2 = p2  alice = alice
    s1 = s1  s2 = s2  sAlice = sAlice  gAlice = gAlice
    Task <- TwoTasks
    Pod <- DerivedPods
    Account <- DerivedPodsAccounts
    Stash <- DerivedPodsStash
    Label <- DerivedPodsLabel
    Genesis <- OneGenesis
    NoAccount = NoAccount  NoPod = NoPod  NoKeys = NoKeys
    OperatorKeys = OperatorKeys  NoOp = NoOp
    Faults = FALSE
PROPERTIES
    RegisteredBecomesValidator
    ImplementsFairPromise
