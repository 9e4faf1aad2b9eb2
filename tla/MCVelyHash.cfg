SPECIFICATION Spec
CONSTANTS
    Keys = {"a", "b", "c", "d"}
    Values = {1, 2}
    Code <- MCCode
    Sizes = {5, 12}
    NULL = NULL
INVARIANTS
    TableSound
PROPERTIES
    ImplementsDict
