SPECIFICATION Spec
CONSTANTS
    a1 = a1
    a2 = a2
    a3 = a3
    Asset = {a1, a2}
    Folder = {f1}
    Request = {r1, r2}
    NoFolder = NoFolder
    Order = {"newest_first", "by_title"}
    Key <- MCKey
    MaxPosition = 2
SYMMETRY Requests
PROPERTY SortIsHonoured
