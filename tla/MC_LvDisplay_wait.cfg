SPECIFICATION LvSpec
CONSTANTS
    Height = 2
    Formats <- MCFormats
    PixelOf <- MCPixelOf
    BUTT = BUTT
    NONE = NONE
    MaxAreas = 1
PROPERTY
    EveryRenderProceeds
CHECK_DEADLOCK FALSE
