SPECIFICATION Spec
CONSTANTS
    Folder = {f1, f2}
    NoFolder = NoFolder
    Query = {q}
    Blank = Blank
    Linked = {2}
    MaxFetches = 2
    MaxSorts = 1
SYMMETRY Folders
INVARIANTS TypeOK LinksFetchOneAtATime ShownIsWanted PendingIsAwaited AddressNamesFolder
