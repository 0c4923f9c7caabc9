\* Files with both kinds of line end.
SPECIFICATION Spec
CONSTANTS
    a = a
    b = b
    x = x
    y = y
    Names = {a, b}
    Words = {x, y}
    MaxLines = 3
    MaxEdits = 1
    Files <- MCFiles
    Templates <- MCTemplates
PROPERTIES NoChurn
