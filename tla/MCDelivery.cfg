CONSTANTS
    None = None
    Calls = {c1, c2}
    Keys = {k}
    pay = pay
    alter = alter
    stray = stray
    Acts = {pay, alter, stray}
    Processes = {p1, p2}
    Adapters <- MCAdapters
    Fields <- MCFields
    Params <- MCParams
    Garbled = Garbled
    Requests = {r1, r2}
    Servers = {s1}
    ProofIds = {x1, x2}
    Routes <- MCRoutes
    Intents <- MCIntents
    TrustedKeys = {"issuer"}
    Issuers <- MCIssuers
    ProofLife = 0
    MaxTime = 1
SPECIFICATION DeliverySpec
INVARIANTS
    DeliveryTypeOK
    OneDispatchPerKey
    AnswersAreReal
    RequestsStayHome
    ProofUsedOnce
    ProofsBuyWhatTheySay
PROPERTIES
    NoBlindRepeat
    LocksAreSettled
    JournalImplementsConsequenceOnce
CHECK_DEADLOCK FALSE
