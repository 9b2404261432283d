CONSTANTS
    NoTime = NoTime
    Periods = {0, 1}
    PipeCmds = {TRUE, FALSE}
    Faults = {"open", "write"}
    PipeCapacity = 1
    Times = {0, 1, 2, 4}
    MaxFrameLen = 2
    MaxPackets = 2
    MaxFrames = 2
    InputFrames <- MCInputFrames
SPECIFICATION LiveSpec
INVARIANTS WrittenInOrder RecordsCounted FilesRotate SubprocessPerFile DamageNoticed
PROPERTIES OutputEnds
