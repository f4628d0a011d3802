CONSTANTS
    n1 = n1
    n2 = n2
    new0 = new0
    new1 = new1
    new2 = new2
    new3 = new3
    EMPTY = EMPTY
    UNSET = UNSET
    Names <- MC_Names
    NewImgNames <- MC_NewImgNames
    IndexArgs = {0, 2, 3}
    MaxStreams = 3
SYMMETRY MC_Symmetry
SPECIFICATION Spec
INVARIANT TypeOK
