CONSTANTS
    None = None
    Null = Null
    GrantIds = {g1, g2}
    ActionIds = {a1}
    EffectIds = {"effect", "other"}
    Offered <- MCOffered
    Amounts <- MCAmounts
    MaxOwners = 2
    MaxTime = 0
    Processes = {p1, p2}
    Policies <- MCPolicies
    Requests <- MCRequests
    MaxKeys = 1
    MaxTokens = 1
    Writers = {w1, w2}
    Bodies = {"2^53", "2^53 + 1", "text of 2^53 + 1"}
    Canonical <- MCCanonical
    Decisions <- MCDecisions
    Costs = {101, 102}
    Rounded <- MCRounded
    OldRows <- MCOldRows
    MaxRows = 3
    MaxEdits = 2
SPECIFICATION RecordsSpec
INVARIANTS
    RecordsTypeOK
    AuthorityNarrows
    VerifyTellsDamage
SYMMETRY Symmetry
CHECK_DEADLOCK FALSE
