SPECIFICATION Spec
CONSTANTS
    Files = {2}
    Times = {0, 1, 2, 4}
    Sizes = {1, 2}
    FrameMaxDuration = 2
    FrameMaxSize = 2
    RealTimeGrace = 1
    ReportPeriod = 0
    OutCapacity = 2
    NoTime = NoTime
    NoFrame = NoFrame
    MaxPackets = 3
    MaxNow = 1
INVARIANT FilterAssertion
