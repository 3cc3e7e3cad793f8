CONSTANTS
    NoAsset = NoAsset
    Asset = {a1}
    Thread = {t1, t2}
    RetentionDays = 1
    MaxJobs = 2
    MaxFaults = 1
SPECIFICATION FairSpec
INVARIANTS
    TypeOK
    ProcessedMeansRendered
    WorkConserved
PROPERTIES
    FreshAssetsSpared
    RetentionKept
    UnprocessedSettles
    TrashIsEmptied
    StoredIsProcessed
