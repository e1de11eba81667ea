SPECIFICATION Spec

CONSTANTS
    x = x
    y = y
    Slugs = {x, y}
    Marks <- PublicOnly
    Found <- FirstPublic
    Batches <- RetryBatches
    Invalid = Invalid
    Absent = Absent
    Nothing = Nothing
    Compilers = {c1}
    MaxEdits = 0
    MaxRuns = 2

INVARIANT RetryAddsMissing
