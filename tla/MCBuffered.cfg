CONSTANTS
    Callers = {r1}
    Pairs <- MCPairs
    Windows = {1}
    MaxTime = 0
    Inbound <- MCInbound
    Cfgs <- MCCfgs
    Providers = {"a", "b"}
    Models = {"chat", "other", "m", "a/m"}
    Keys <- MCKeys
    Direct <- MCDirect
    Replies <- MCReplies
    StreamEnds <- MCStreamEnds
    MaxFrames = 1
    Statuses = {}
    Tries = {}
SPECIFICATION Spec
INVARIANTS
    WalkInBounds
    GivesUpOnlyWhenExhausted
    FallbackIsLastResort
    FailureIsNot2xx
    LastRealReplyIsAnswered
PROPERTY BlackoutOnlyForKeyFaults
