SPECIFICATION Spec

CONSTANTS
    x = x
    y = y
    Slugs = {x, y}
    Marks <- SomeMarks
    Found <- FirstPublic
    Batches <- AllBatches
    Invalid = Invalid
    Absent = Absent
    Nothing = Nothing
    Compilers = {c1, c2}
    MaxEdits = 1
    MaxRuns = 2

SYMMETRY Symmetry

INVARIANTS NoLeak
PROPERTIES AcceptedAsReviewed AppliedIsFinal MarkedIsComplete
