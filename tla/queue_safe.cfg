SPECIFICATION Spec
CONSTANTS
    Callers = {c1}
    Closers = {k1, k2}
    Submitters = {c1}
    LoopCallers = {k2}
    Hooks = {h1}
    Cancellable = {h1}
    ClosingHooks = {h1}
INVARIANTS SafetyInv NothingStranded
CHECK_DEADLOCK FALSE
