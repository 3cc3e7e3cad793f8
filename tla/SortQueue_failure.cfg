CONSTANTS
    MaxDrags = 2
    MaxFailures = 1
SPECIFICATION Spec
INVARIANTS
    ProgressIsTrue
CHECK_DEADLOCK FALSE
