CONSTANTS
    Callers = {r1}
    Pairs <- MCPairs
    Windows = {1}
    MaxTime = 1
    Inbound <- MCUndefined
    Cfgs <- MCCfgs
    Providers = {"a", "b", "x"}
    Models = {"twice", "undefined", "m"}
    Keys <- MCKeys
    Direct <- NoDirect
    Replies <- MCReplies
    StreamEnds = {}
    MaxFrames = 1
    Statuses = {}
    Tries = {}
SPECIFICATION Spec
INVARIANT RequestFaultIsA400
