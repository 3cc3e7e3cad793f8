SPECIFICATION Spec
CONSTANTS
    a1 = a1
    a2 = a2
    a3 = a3
    Asset = {a1, a2}
    Folder = {f1, f2}
    Request = {r1, r2}
    NoFolder = NoFolder
    Order = {}
    Key <- MCKey
    MaxPosition = 3
SYMMETRY AllAlike
VIEW Unlabelled
INVARIANTS TypeOK PlacedApart
PROPERTIES PlacedOnTop ReorderIsHonoured
