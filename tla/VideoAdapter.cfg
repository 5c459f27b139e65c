\* Frames of up to 36x18 pixels from a source that aligns to 2, an encoder that
\* aligns to 1 or 3, limits that ask for every depth of the scale.
CONSTANTS
    Sizes <- const_Sizes
    source_resolution_alignment_ = 2
    Aspects <- const_Aspects
    Resolutions <- const_Resolutions
    PixelLimits = {0, 40, 170}
    Rates = {30}
    Alignments = {1, 3}
    Unlimited = 1000000
    Depth = 12
SPECIFICATION Spec
INVARIANTS FormatRequestKept DeliveredFrameIsRight
