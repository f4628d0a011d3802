CONSTANTS
    Answers <- MC_Answers
    NTP_UNIX = 100
    LONG_BYTES = 4
    MaxFds = 4
    BootTime = BootTime
    Unset = Unset
SPECIFICATION Spec
PROPERTY RetrySucceeds
