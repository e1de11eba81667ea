SPECIFICATION Spec
CONSTANTS
    a = a  b = b  bad = bad
    Sources = {1, 2}
    Assets = {}
    Contents <- MCContents
    Choices <- MCReadable
    Malformed <- MCBad
    Absent = Absent
    Ids = {1, 2, 3}
    Prints = {1}
    MaxIntents = 2
    MaxEdits = 0
SYMMETRY Symmetry
PROPERTIES
    RenameKeepsId
