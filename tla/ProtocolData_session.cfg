SPECIFICATION Spec
CONSTANTS
    Letters <- TypedLetters
    MaxText = 5
    Keys <- CommandKeys
    Replies <- ServerReplies
    MaxReplies = 2
INVARIANTS
    WordsSplitAtSpaces
    SlotAgreesWithServer
    InStep
    ParsesWhatWasSent
    PrintsWhatItParses
PROPERTIES
    RejectsOnlyUnknown
