CONSTANTS
    p1 = p1
    p2 = p2
    a1 = a1
    b1 = b1
    Process = {p1, p2}
    Thread = {a1, b1}
    home <- OneThreadEach
    None = None
    Missing = Missing
    NoCall = NoCall
    NoAnswer = NoAnswer
    NoValue = NoValue
    Key = {k1, k2}
    Id = {i1, i2}
    Value = {v1}
    UsedCalls = {"FindRecord", "StoreRecord", "UpdateRecord", "RemoveRecord", "Remove"}
    Faults = {"replace"}
    MaxLines = 2
SPECIFICATION Spec
PROPERTY
    OthersUntouched
