\* Every short file, two names, templates that come and go, an edit of the owners.
SPECIFICATION Spec
CONSTANTS
    a = a
    b = b
    x = x
    y = y
    Names = {a, b}
    Words = {x, y}
    MaxLines = 3
    MaxEdits = 1
    Files <- MCFiles
    Templates <- MCTemplates
PROPERTIES OwnedIsKept ManagedIsCurrent NeverLockedOut SettlesAtOnce
