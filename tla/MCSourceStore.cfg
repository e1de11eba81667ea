SPECIFICATION FairSpec
CONSTANTS
    a = a  b = b  bad = bad
    Sources = {1, 2}
    Assets = {3}
    Contents <- MCContents
    Choices <- MCChoices
    Malformed <- MCBad
    Absent = Absent
    Ids = {1, 2, 3}
    Prints = {1, 2}
    MaxIntents = 2
    MaxEdits = 1
INVARIANTS
    RevisionsAreExact IndexAgreesWithDisk
PROPERTIES
    EditKeptOutsideWindow ImplementsAcceptedFiles PendingSettles
