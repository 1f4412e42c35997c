SPECIFICATION Spec
CONSTANTS
    t1 = t1  t2 = t2
    p1 = p1  p2 = p2  alice = alice
    s1 = s1  s2 = s2  sAlice = sAlice  gAlice = gAlice
    Task <- TwoTasks
    Pod <- ThreePods
    Account <- ThreePodsAccounts
    Stash <- ThreePodsStash
    Label <- ThreePodsLabel
    Genesis <- OneGenesis
    NoAccount = NoAccount  NoPod = NoPod  NoKeys = NoKeys
    OperatorKeys = OperatorKeys  NoOp = NoOp
    Faults = TRUE
SYMMETRY TaskSymmetry
INVARIANTS
    TypeOK
    KeyedBeforeRegistered
    NoRekeyOfSteadyValidator
PROPERTIES
    DeregistrationFindsSteady
    ImplementsPromise
