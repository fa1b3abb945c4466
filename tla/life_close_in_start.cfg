SPECIFICATION Spec
CONSTANTS
    None = None
    NoTool = NoTool
    Registrars = {}
    Twins = {}
    Starters = {a1}
    Closers = {k1}
    Readers = {}
    Serial = FALSE
    MayFail = FALSE
    CloseHangs = FALSE
INVARIANTS PiHasBridge
CHECK_DEADLOCK FALSE
