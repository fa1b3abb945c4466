SPECIFICATION Spec
CONSTANTS
    NoOne = NoOne
    Starters = {a1}
    Closers = {k1}
    Sends = {s1, s2}
    HandlerSends = {s2}
    SameId = {}
    Waiters = {}
    Events = {e1}
    MaxSpawns = 2
    StartupFails = TRUE
    PiWedges = TRUE
INVARIANTS RequestsInv
CHECK_DEADLOCK FALSE
