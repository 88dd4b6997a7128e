CONSTANTS
    None = None
    GrantIds = {root}
    ActionIds = {a1, a2}
    EffectIds = {}
    IntentIds = {i1}
    HandStates = {}
    Amounts = {1}
    MaxOwners = 1
    MaxTime = 1
    CacheLife = 1
    Tokens = {root}
    Offered <- MCOffered
SPECIFICATION IntentSpec
INVARIANTS
    ExecutesAtMostOnce
SYMMETRY RunSymmetry
CHECK_DEADLOCK FALSE
