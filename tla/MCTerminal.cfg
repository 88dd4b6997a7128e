CONSTANTS
    root = root
    kid = kid
    sib = sib
    None = None
    GrantIds = {root, kid, sib}
    ActionIds = {a1}
    EffectIds = {}
    Amounts <- MCAmounts
    MaxOwners = 3
    MaxTime = 2
    Offered <- MCOffered
SPECIFICATION Spec
PROPERTIES
    TerminalStatuses
CHECK_DEADLOCK FALSE
