CONSTANTS
    MaxSignatures = 2
    TTL = 1
    Scenarios <- MCScenarios
SPECIFICATION Spec
INVARIANTS
    CacheKeepsTheLatest
PROPERTIES
    SignaturesGoHome
    TranslationKeepsTheDialogue
CHECK_DEADLOCK FALSE
