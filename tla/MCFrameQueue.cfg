SPECIFICATION LiveSpec
CONSTANTS
    Producers = {p1}
    Consumers = {c1, c2}
    Frames = {f1, f2, f3, f4}
    BigFrame = f1
    Size <- MCSize
    Capacity = 2
    NoFrame = NoFrame
    NoThread = NoThread
INVARIANTS TypeOK Ownership TotalSizeIsSum NoMissedWakeup
PROPERTIES ImplementsFifo FramesFlow
