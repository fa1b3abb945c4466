SPECIFICATION Spec
CONSTANTS
    None = None
    NoTool = NoTool
    Registrars = {t1, t2}
    Twins = {t1, t2}
    Starters = {a1, a2, a3}
    Closers = {k1, k2}
    Readers = {r1}
    Serial = TRUE
    MayFail = TRUE
    CloseHangs = TRUE
INVARIANTS LifeInv NothingLeftAfterClose ManifestIsFinal
PROPERTIES NotStartedIsTrue
CHECK_DEADLOCK FALSE
