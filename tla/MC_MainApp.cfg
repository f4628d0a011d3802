CONSTANTS
    Procs <- MC_Procs
    p1 = p1
    p2 = p2
    mount = mount
    periodic = periodic
    CmdLines <- MC_CmdLines
    DefaultArgs <- MC_DefaultArgs
    NoFile = NoFile
    SP = " "
    ARGV_SIZE = 64
    ThreadOrder <- MC_ThreadOrder
    NoPid = NoPid
    Unreadable = Unreadable
    Lines <- MC_Lines
SPECIFICATION Spec
CHECK_DEADLOCK FALSE
INVARIANT ParseMatchesWords
PROPERTY ShutdownCompletes
