\* Four ticks are a second.  A source of 2 or 5/2 frames per second, which adaptation
\* may restrict to 2; two frames, one change of the configuration, two other calls, and
\* calls of the encoder of up to two ticks.
CONSTANTS
    Second = 4
    MaxFps = {4, 5}
    Restricted = {4}
    MaxEncode = 2
    MaxAge = 6
    MaxFrames = 2
    MaxConfigs = 1
    MaxControls = 2
SPECIFICATION FairSpec
CHECK_DEADLOCK FALSE
INVARIANTS TasksMatchQueue NeverSilent OverloadCovered KeyFrameAnswered
PROPERTY NewestEncoded
