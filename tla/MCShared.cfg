CONSTANTS
    r1 = r1
    r2 = r2
    Callers = {r1, r2}
    Pairs <- MCPairs
    Windows = {0, 1}
    MaxTime = 2
    Inbound <- MCInbound
    Cfgs <- MCCfgs
    Providers = {"a"}
    Models = {"chat", "m"}
    Keys <- MCKeys
    Direct <- NoDirect
    Replies <- MCReplies
    StreamEnds = {}
    MaxFrames = 1
    Statuses = {}
    Tries = {}
SYMMETRY Interchangeable
SPECIFICATION Spec
INVARIANTS
    BlackoutTypeOK
    UsesItsOwnGeneration
    ChatOnlyIsLearntHere
PROPERTIES
    BlackoutOnlyForKeyFaults
    ImplementsKeyHealth
