CONSTANTS
    d1 = d1
    d2 = d2
    d3 = d3
    s0 = s0
    s1 = s1
    s23 = s23
    sx = sx
    NOMATCH = NOMATCH
    NONE = NONE
    MAX_FIND_STORAGES = 2
    DTAs = {d1, d2, d3}
    Searches = {s0, s1, s23}
    ForeignSearches = {sx}
    Found <- MC_Found
    MaxIndex = 0
    MaxCalls = 3

SYMMETRY Perms
SPECIFICATION Spec
INVARIANT TypeOK
INVARIANT EveryEntryOnce
INVARIANT FsnextWithinStorage
