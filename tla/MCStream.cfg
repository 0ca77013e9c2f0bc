CONSTANTS
    Limit = 2
    MaxEvents = 3
    MaxUnread = 2
    MaxHolds = 1
    Calls <- MCCalls
    Vocabulary <- MCVocabulary
    Scripts <- MCScripts
    Replies <- MCReplies
    Fresh <- MCFresh
SPECIFICATION FairSpec
INVARIANTS
    StreamTypeOK
    
    
    CommitMeansOutputFollows
    NoSilentTruncation
PROPERTIES
    ImplementsResponsesEvents
    TimerKeepsItsPromise
    EveryStreamEnds
CHECK_DEADLOCK FALSE
