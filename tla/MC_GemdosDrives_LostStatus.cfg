CONSTANTS
    MAX_DRIVES = 16
    Enabled = {2, 3}
    ReadOnly = {3}
    Dirs <- MC_Dirs
    ROOT = root
    root = root
    sub = sub
    bad = bad
    ForeignDirs = {bad}
    PathDrives = {2, 3}
    InitDirs <- MC_InitDirs
    SetdrvArgs = {0, 2, 5, 16}
    DriveArgs = {0, 3, 16}
    NONE = NONE
SPECIFICATION LossySpec
INVARIANT DgetpathReturnsLastDsetpath
