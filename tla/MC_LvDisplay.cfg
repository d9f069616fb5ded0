SPECIFICATION LvSpec
CONSTANTS
    Height = 2
    Formats <- MCFormats
    PixelOf <- MCPixelOf
    BUTT = BUTT
    NONE = NONE
    MaxAreas = 2
INVARIANTS
    HeldIsLeftAlone
    FramesAreCurrent
    RefreshFollowsLayer
PROPERTY
    RenderProceeds
CHECK_DEADLOCK FALSE
