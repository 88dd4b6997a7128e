CONSTANTS
    root = root
    kid = kid
    None = None
    GrantIds = {root, kid}
    ActionIds = {a1, a2}
    EffectIds = {}
    Amounts = {0, 2}
    MaxOwners = 2
    MaxTime = 2
    ProofTTL = 1
    Tokens = {kid}
    Revocable = {root}
    Offered <- MCOffered
    Requests <- MCRequests
    Thresholds <- MCThresholds
SPECIFICATION GatewaySpec
INVARIANTS
    GatewayTypeOK
    LandedIsPaidFor
    HumanConsent
    KillSwitch
    EdgeStopsDead
    DenialIsFree
    WaitsWithoutHold
SYMMETRY CallSymmetry
CHECK_DEADLOCK FALSE
