SPECIFICATION Spec
CONSTANTS
    Goroutine = {g1, g2}
    Name = {"a", "b"}
    Attr <- MCAttr
    Nesting <- MCNesting
    AttrList <- MCAttrList
    Level <- MCLevel
    MinLevel = 0
    MaxHandlers = 3
    MaxLines = 2
INVARIANTS
    TypeOK
    WholeLines
    LinesFaithful
PROPERTIES
    CallsEnd
CHECK_DEADLOCK FALSE
