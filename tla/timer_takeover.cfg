SPECIFICATION TimerBusSpec
CONSTANTS
    IdleBits = 3
    MaxGlitchRec = 5
    TdSlotCnt = 2
    TdModulus = 64
    TdUnknown = 40
    Timings <- MCTimings
    Delay = 1
    MaxRec = 2
    FrameGap = 20
    GlitchEdges = 2
    GlitchGap = 12
    OnDominant = TRUE
    MinGap = 2
PROPERTY SampledOnce
