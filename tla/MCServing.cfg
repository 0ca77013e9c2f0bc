CONSTANTS
    Split <- MCSplit
    Texts <- MCTexts
    Scenarios <- MCScenarios
SPECIFICATION FairSpec
INVARIANTS
    ServingTypeOK
    KeysOutliveEdits
    NeverRoutedUnderOlder
    RequestsAreAccountedFor
PROPERTIES
    ConfigIsWhatTheFileSays
    EditsAreLoaded
CHECK_DEADLOCK FALSE
