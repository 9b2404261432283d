SPECIFICATION Spec
CONSTANTS
    Keys = {k1, k2}
    OtherKey = k2
    Qnames = {root, n1}
    RootName = root
    MatchingDuration = 1
    FrameMaxDuration = 2
    FrameMaxSize = 2
    MatchQname = TRUE
    MaxSearch = 0
    OutCapacity = 2
    NoTime = NoTime
    NoFrame = NoFrame
    Times = {0, 1, 3}
    MaxPackets = 3
    MaxFrames = 4
    InputFrames <- MCInputFrames
INVARIANTS TypeOK HashIsUnanswered EachPacketOnce FramesTileTime MatchesAreRight NoMissedMatch WithinWindowInOrder OutputInOrder DrainedAtEnd
