SPECIFICATION Spec
CONSTANTS
    NoOne = NoOne
    Starters = {a1}
    Closers = {k1}
    Sends = {s1, s2}
    HandlerSends = {s1}
    SameId = {s1, s2}
    Waiters = {w1}
    Events = {e1}
    MaxSpawns = 1
    StartupFails = FALSE
    PiWedges = FALSE
INVARIANTS NoStrayProcess NothingOutstandingAfterClose OutstandingIsRegistered
PROPERTIES CloseEndsSends
CHECK_DEADLOCK FALSE
