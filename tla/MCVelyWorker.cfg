SPECIFICATION Spec
CONSTANT MaxNested = 2
INVARIANTS
    HandlersInOrder
    WellFormed
    HeaderEnded
    NoOpenTransaction
PROPERTIES
    ErrorSurvived
    RequestEnds
    EndsWhenTold
