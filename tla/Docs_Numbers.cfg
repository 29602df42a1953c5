SPECIFICATION Spec
CONSTANTS
    Caller = {c1, c2, c3}
    Formats = {plain, dated}
    Default = plain
    MaxTries = 2
    MaxCalls = 4
SYMMETRY Symmetry
INVARIANTS NumbersUnique LaterIsLarger LostOnlyToOthers Gapless
PROPERTY ImplementsRegister
CHECK_DEADLOCK FALSE
