CONSTANTS
    Process = {p1, p2}
    None = None
    Missing = Missing
    NoAnswer = NoAnswer
    NoValue = NoValue
    Key = {k1}
    Id = {i1, i2}
    Value = {v1, v2}
    UsedCalls = {"FindRecord", "StoreRecord", "UpdateRecord", "RemoveRecord"}
    Faults = {"db_file"}
    MaxTime = 4
SPECIFICATION Spec
SYMMETRY Symmetry
INVARIANTS
    TypeOK
    CopiesFollow
PROPERTY
    ImplementsRecordStore
