CONSTANTS
    Screens <- MC_Screens
    Keys <- MC_Keys
    KEY_F10 <- MC_KEY_F10
    INBFR_SIZE = 16
    MaxKeys = 2
    MaxReplies = 3
SPECIFICATION Spec
CHECK_DEADLOCK FALSE
INVARIANT TypeOK
 
