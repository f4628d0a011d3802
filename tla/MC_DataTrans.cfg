CONSTANTS
    DataSizes <- MC_DataSizes
    RecvSizes <- MC_RecvSizes
    Statuses <- MC_Statuses
    MaxCount = 1216
    MaxAdds = 2
    NONE = NONE
SPECIFICATION Spec
INVARIANT TypeOK
INVARIANT ResponseDelivered
INVARIANT RecvDeliversExactly
PROPERTY TransferEnds
