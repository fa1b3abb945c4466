SPECIFICATION Spec
CONSTANTS
    LF = LF
    CR = CR
    MaxBuffer = 8
    Prompts = {p1}
    Subscribers = {s1}
    Waiters = {w1}
    TypeWaiters = {w1}
    Chunks = {3, 8}
    MaxWrites = 2
INVARIANTS DeliveredInOrder HandlersSeeAll DialogsAnswered
PROPERTIES WaitsEnd PromptsEnd
CHECK_DEADLOCK FALSE
