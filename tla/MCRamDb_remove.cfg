CONSTANTS
    Process = {p1, p2}
    None = None
    Missing = Missing
    NoAnswer = NoAnswer
    NoValue = NoValue
    Key = {k1}
    Id = {i1, i2}
    Value = {v1}
    UsedCalls = {"FindRecord", "UpdateRecord", "Remove"}
    Faults = {}
    MaxTime = 5
SPECIFICATION Spec
PROPERTY
    RemoveKeepsOtherIds
