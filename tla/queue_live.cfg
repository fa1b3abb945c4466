SPECIFICATION Spec
CONSTANTS
    Callers = {c1}
    Closers = {k1, k2}
    Submitters = {c1}
    LoopCallers = {}
    Hooks = {h1}
    Cancellable = {}
    ClosingHooks = {}
INVARIANTS ClosedAfterCoreClose
PROPERTIES CloseUnblocksEveryone HooksComplete ImplementsService
CHECK_DEADLOCK FALSE
