CONSTANTS
    MaxDrags = 6
    MaxFailures = 2
SPECIFICATION FairSpec
INVARIANTS
    TypeOK
    QuietMeansSaved
    FailureIsFinal
PROPERTIES
    LatestListIsSaved
CHECK_DEADLOCK FALSE
