CONSTANTS
    root = root
    kid = kid
    sib = sib
    None = None
    GrantIds = {root, kid, sib}
    ActionIds = {a1, a2, a3}
    EffectIds = {}
    Amounts <- MCAmounts
    MaxOwners = 3
    MaxTime = 2
    Offered <- MCOffered
SPECIFICATION Spec
INVARIANTS
    TypeOK
    BudgetConservation
    NoOverspend
    RateCeiling
    ChargedLineageClosed
PROPERTIES
    DeadStaysDead
    SettledOnce
SYMMETRY AttemptSymmetry
CHECK_DEADLOCK FALSE
