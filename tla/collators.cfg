SPECIFICATION CollatorsSpec
CONSTANTS
    Task = {t1, t2}
    Node = {n1, n2}
    Derived = Derived  NoKeys = NoKeys  NoNode = NoNode  NoOp = NoOp
    OldKey = OldKey  NoKey = NoKey
    MaxXcm = 2
    Faults = TRUE
SYMMETRY Symmetry
INVARIANTS
    TypesOK
    CandidatesHaveNodeKeys
    RegistrationAloneHasRoom
    AssociationsHeldByNode
    QuietRegistrationAdvances
    QuietAssociateOnce
CHECK_DEADLOCK FALSE
