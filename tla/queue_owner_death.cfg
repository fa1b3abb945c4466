SPECIFICATION Spec
CONSTANTS
    Callers = {c1}
    Closers = {k1}
    Submitters = {}
    LoopCallers = {}
    Hooks = {h1}
    Cancellable = {h1}
    ClosingHooks = {}
PROPERTIES CloseUnblocksEveryone
CHECK_DEADLOCK FALSE
