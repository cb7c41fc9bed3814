CONSTANTS
    Chats = {r1, r2}
    Decisions = {d1}
    Callers <- MCCallers
    Backends <- MCBackends
    Facts <- MCFacts
    Same <- MCSame
    Close <- MCClose
    Limit = 1
    Nothing = Nothing
    FactsPerTurn = 2
SPECIFICATION Spec
INVARIANTS
    FactsAgree
    LatestIsKnown
    PoolHasSchema
PROPERTY RequestsEnd
CHECK_DEADLOCK FALSE
