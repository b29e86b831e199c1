SPECIFICATION Spec
CONSTANTS
    square = square
    squared = squared
    text = text
    Calls = {c1, c2}
    Functions <- MCFunctions
    Actions = {"rename", "comment"}
    Values <- MCValues
    Contains <- MCContains
    Start <- MCStart
    Nil = Nil
SYMMETRY Symmetry
INVARIANTS TypeOK WriteAhead OriginalRecorded AppliedSurvives
