CONSTANTS
    c1 = c1
    r1 = r1
    x = x
    NONE = NONE
    MAX_FILES = 2
    Paths <- MC_Paths
    ForeignPaths = {x}
    ReadOnlyPaths = {r1}
    InitLen <- MC_InitLen
    Counts <- MC_Counts
    ReadSeeks <- MC_ReadSeeks
    SeekOffsets <- MC_SeekOffsets
    Times = {0}
    MaxLen = 1
    MaxInodes = 3

SPECIFICATION Spec
INVARIANT TypeOK
INVARIANT WritableStreamsOffReadOnly
