SPECIFICATION Spec
CONSTANTS
    Ops = {o1}
    Closers = {k1}
    FutureWaits = {w1}
    EventWaits = {v1}
    Hooks = {h1, h2}
    Cancellable = {h2}
INVARIANTS PumpInv NoLostWakeup
PROPERTIES ImplementsServiceSafely CallsEndAfterClose CloseRunsHooks
CHECK_DEADLOCK FALSE
