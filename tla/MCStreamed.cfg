CONSTANTS
    Callers = {r1}
    Pairs <- MCPairs
    Windows = {1}
    MaxTime = 2
    Inbound <- MCInbound
    Cfgs <- MCCfgs
    Providers = {"a", "b", "x"}
    Models = {"chat", "plain", "other", "m"}
    Keys <- MCKeys
    Direct <- NoDirect
    Replies <- MCReplies
    StreamEnds <- MCStreamEnds
    MaxFrames = 2
    Statuses = {0, 200, 400, 403, 429, 499, 502, 504}
    Tries = {0, 1, 2, 3, 4, 5}
SPECIFICATION FairSpec
INVARIANTS
    TypeOK
    GivesUpOnlyWhenExhausted
    FallbackIsLastResort
    NoFallbackAfterPolicyBlock
    NothingAfterCancellation
PROPERTIES
    ImplementsRequestLife
    EveryRequestIsAnswered
