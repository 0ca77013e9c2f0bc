CONSTANTS
    Limit = 2
    MaxEvents = 3
    MaxUnread = 2
    MaxHolds = 1
    Calls <- MCChatCall
    Vocabulary <- MCTwoChoices
    Scripts <- MCScripts
    Replies <- MCReplies
    Fresh <- MCFresh
SPECIFICATION Spec
INVARIANT CleanEndMeansEveryChoice
CHECK_DEADLOCK FALSE
