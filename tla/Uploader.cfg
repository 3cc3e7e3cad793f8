SPECIFICATION Spec
CONSTANTS
    File = {f1, f2}
    Empty = Empty
    Preset = Preset
    Ticked = Ticked
    Title = Title
    Form <- MCForm
    MaxSaves = 2
    MaxFailures = 1
SYMMETRY Files
CHECK_DEADLOCK FALSE
INVARIANTS TypeOK StoredIsPlaced 
