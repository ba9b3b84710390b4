SPECIFICATION FairSpec
CONSTANTS
    RetryLimit = 2
    MaxRecording = 4
    MaxPage = 2
    MaxGone = 1
    MaxFaults = 2
INVARIANTS
    TypeOK
    AssetHasWholeFile
PROPERTIES
    ServedIsArchived
