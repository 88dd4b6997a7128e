CONSTANTS
    root = root
    kid = kid
    None = None
    GrantIds = {root, kid}
    ActionIds = {a1}
    EffectIds = {}
    Amounts = {0, 2}
    MaxOwners = 2
    MaxTime = 2
    ProofTTL = 1
    Tokens = {root, kid}
    Revocable = {root}
    Offered <- MCOffered
    Requests <- MCRequests
    Thresholds <- MCThresholds
SPECIFICATION FairGatewaySpec
PROPERTIES
    CallsEnd
    GatewayUsesStore
CHECK_DEADLOCK FALSE
