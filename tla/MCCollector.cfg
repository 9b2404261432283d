CONSTANTS
    NoTime = NoTime
    NoFrame = NoFrame
    Keys = {k}
    Qnames = {n}
    RootName = n
    MatchQname = TRUE
    Files = {0, 1}
    Times = {0, 2}
    Sizes = {1}
    FrameMaxDuration = 1
    FrameMaxSize = 1
    RealTimeGrace = 0
    ReportPeriod = 5
    QueueLength = 1
    MatchingDuration = 1
    MaxSearch = 1
    Periods = {0, 1}
    PipeCmds = {TRUE, FALSE}
    PipeCapacity = 1
    Faults = {"open"}
    Dumpers = {"on", "off"}
    MaxPackets = 2
    MaxLivePackets = 1
    LiveTimes = {0}
    MaxNow = 3
SPECIFICATION MCLiveSpec
INVARIANTS QuietAtDestroy NoPacketsNoFile
PROPERTIES ImplementsCapture StopEndsAll PacketRecorded
