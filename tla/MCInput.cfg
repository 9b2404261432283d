SPECIFICATION Spec
CONSTANTS
    Files = {0, 2}
    Times = {0, 1, 3}
    Sizes = {1, 2}
    FrameMaxDuration = 1
    FrameMaxSize = 2
    RealTimeGrace = 0
    ReportPeriod = 0
    OutCapacity = 1
    NoTime = NoTime
    NoFrame = NoFrame
    MaxPackets = 3
    MaxNow = 2
INVARIANTS FramesTile EveryPacketFramed InFrameTime ReportsCountAll TraceReleased
