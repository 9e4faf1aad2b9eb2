SPECIFICATION Spec
CONSTANTS
    Plain = {"a"}
    Escaped = {"e"}
    Literal = {"1"}
    MaxNested = 5
    MaxTokens = 13
    NULL = NULL
INVARIANTS
    Flattened
    ListInBounds
