SPECIFICATION MCSpec
VIEW MCView
CONSTANTS
    Keys = {1, 2, 3, 4, 5, 6, 7, 8, 9, 10, 11, 12}
    Few = {1, 2, 3, 4, 5, 6}
    Values <- MCValues
INVARIANTS
    Balanced
    ListInOrder
PROPERTIES
    ImplementsMap
