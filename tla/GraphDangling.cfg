SPECIFICATION Spec
CONSTANTS
    a = a
    b = b
    c = c
    C1 = C1
    C2 = C2
    Names = {a, b, c}
    Types = {T}
    LabelKeys = {K}
    LabelValues = {T, b}
    Components = {C1}
    NameKey = NameKey
    TypeKey = TypeKey
    ImportName <- MCImportName
    ImportType = T
    ImportEdges <- MCImportEdges
    Optimisable = {C1}
    MaxID = 3
    MaxEvents = 2
    None = None
CHECK_DEADLOCK FALSE
INVARIANTS
    NoDanglingEdges
