CONSTANTS
    Items = {i1, i2}
    Values = {v1, v2}
    Absent = Absent
    Catalogs <- MCCatalogs
    Calls = {c1, c2}
    MaxEpoch = 2
    MaxRev = 2
SPECIFICATION Spec
INVARIANT VisibleIsListing
PROPERTY CursorAdvances
SYMMETRY Symmetric
CHECK_DEADLOCK FALSE
