CONSTANTS
    root = root
    kid = kid
    pay = pay
    mail = mail
    None = None
    GrantIds = {root, kid}
    ActionIds = {a1, a2}
    EffectIds = {pay, mail}
    Amounts = {0, 2}
    MaxOwners = 2
    MaxTime = 1
    MaxEvents = 4
    Offered <- MCOffered
SPECIFICATION EffectSpec
INVARIANTS
    EffectTypeOK
    OneLiveOwner
    EffectHoldsBudget
PROPERTIES
    ImplementsConsequenceOnce
    ImplementsAuthorityStore
SYMMETRY AttemptSymmetry
CHECK_DEADLOCK FALSE
