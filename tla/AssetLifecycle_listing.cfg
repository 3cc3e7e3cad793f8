CONSTANTS
    NoAsset = NoAsset
    Asset = {a1}
    Thread = {t1}
    RetentionDays = 1
    MaxJobs = 1
    MaxFaults = 0
SPECIFICATION Spec
INVARIANTS
    VisibleOnlyAfterStore
