CONSTANTS
    Process = {p1, p2}
    None = None
    Missing = Missing
    NoAnswer = NoAnswer
    NoValue = NoValue
    Key = {k1}
    Id = {i1, i2}
    Value = {v1}
    UsedCalls = {"FindRecord", "StoreRecord", "UpdateRecord", "RemoveRecord", "Remove"}
    Faults = {"crash", "time_file", "db_file", "lost_file"}
    MaxTime = 4
SPECIFICATION Spec
SYMMETRY Symmetry
INVARIANT
    CacheCoherent
