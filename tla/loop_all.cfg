SPECIFICATION Spec
CONSTANTS
    Users = {u1, u2}
    Stoppers = {s1, s2}
    Loops = {g1, g2, g3, g4}
    Free = Free
    None = None
INVARIANTS LoopInv
PROPERTIES NoThreadAfterStop CallsReturn SubmittedWorkFinishes StoppedLoopEnds
CHECK_DEADLOCK FALSE
