CONSTANTS
    Limit = 2
    MaxEvents = 3
    MaxUnread = 2
    MaxHolds = 1
    Calls <- MCCalls
    Vocabulary <- MCVocabulary
    Scripts <- MCScripts
    Replies <- MCReplies
    Fresh <- MCFresh
SPECIFICATION Spec
PROPERTY TimeoutMeansSilence
CHECK_DEADLOCK FALSE
