\* Six inputs: up to three frames of three kinds, two configurations of five, three
\* targets with or without the congestion window's pushback, one request of a key
\* frame or of a restriction, one unusual outcome; one frame more in preparation.
CONSTANTS
    Info <- const_Info
    DefaultLimits <- const_Limit
    UntrustedDefaults <- const_Limit
    FactoryMin = 30
    FactoryMax = 2000
    kDefaultMinScreenKbps = 1200
    Alignment = 8
    Configs <- const_Configs
    Frames <- const_Frames
    Targets = {0, 600}
    Ratios = {0, 40}
    Restrictions = {100000}
    KeyLists <- const_KeyLists
    kMaxFramesInPreparation = 1
    Bound <- const_Bound
    MaxInputs = 6
SPECIFICATION Spec
INVARIANTS FramesGivenRight KeyFramesKept RatesInForce LimitsOrdered ResumeShows
CHECK_DEADLOCK FALSE
