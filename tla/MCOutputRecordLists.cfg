SPECIFICATION MCSpec
CONSTANTS
    Byte = 32
    Confs <- MCConfs
    Packets <- MCPackets
    LineSize = 102
    BufferSize = 140
    MaxRecords = 1
    NsidLengths = {21, 22, 23, 24, 30}
    Separators = {44, 124, 9, 46, 58, 42}
    Alphabet = {0, 9, 10, 44, 49, 92, 110}
    MaxData = 3
    MaxStrsize = 8
INVARIANT ListsComplete
