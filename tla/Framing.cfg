SPECIFICATION Spec
CONSTANTS
    V6A_HEADER = 1
    V7_HEADER = 2
    BITCHAT_HEADER = 1
    CHAT_HEADER = 1
    MAX_PAYLOAD = 9
    MAX_FRAGMENTS = 3
    MAX_GROUPS = 1
    HALF = 4
    Shapes <- MCShapes
    MaxMessages = 2
    MaxFaults = 1
    MaxResends = 1
INVARIANTS
    FramingTypeOK
    OnlyWhatWasWritten
    CompleteIsHeard
    CutsFit
    VerdictsAreTrue
\* The phones fall silent when every message is read or lost.
CHECK_DEADLOCK FALSE
