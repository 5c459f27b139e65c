\* One encoder that is started, fed and released while three caps are requested
\* and sessions are replaced.  The requests end and the encoder may be released.
CONSTANTS
    Encoders = {e1}
    Caps = {24, 32}
    Held = {24, 32, 40}
    InitialCap = 32
    Slots = {s1, s2}
    MaxGeneration = 3
    MaxSequence = 2
    MaxCount = 1
SPECIFICATION FairSpec
CHECK_DEADLOCK FALSE
INVARIANTS AppliedMeansSet NoFrameBeforeItsCap
PROPERTY RequestsAnswered
