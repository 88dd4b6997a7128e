CONSTANTS
    None = None
    GrantIds = {root}
    ActionIds = {a1, a2}
    EffectIds = {}
    IntentIds = {i1}
    HandStates = {"cancelled", "expired"}
    Amounts = {1}
    MaxOwners = 1
    MaxTime = 1
    CacheLife = 1
    Tokens = {root}
    Offered <- MCOffered
SPECIFICATION IntentSpec
INVARIANTS
    IntentTypeOK
    SideEffectsFunded
    RefusedIsFree
    SecretsDestroyed
    EphemeralExecutesOnce
    RefusalIsTrue
    SuccessIsBacked
SYMMETRY RunSymmetry
CHECK_DEADLOCK FALSE
