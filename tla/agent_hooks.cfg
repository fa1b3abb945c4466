SPECIFICATION Spec
CONSTANTS
    Agent = Agent
    RpcEvents = {e1, e2}
    EndEvents = {e2}
    BridgeEvents = {b1}
    Prompts = {p1}
    Closers = {k1}
    Classes <- MCClasses
INVARIANTS HooksInOrder HooksBeforePromptReturns
PROPERTIES EventsEnd
CHECK_DEADLOCK FALSE
