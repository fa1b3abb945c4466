SPECIFICATION Spec
CONSTANTS
    Executes = {x1}
    Decisions = {d1}
    Notifies = {n1}
    Detached = {x1, n1}
    MaxCalls = 2
    MaxUpdates = 1
    MayClose = TRUE
    WaitsForConnections = FALSE
INVARIANTS BridgeInv
PROPERTIES CancelNotAfterTheFact CloseEndsTasks CallsSettle DisconnectSeen
CHECK_DEADLOCK FALSE
