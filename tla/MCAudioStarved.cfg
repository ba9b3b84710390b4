SPECIFICATION FairSpec
CONSTANTS
    RetryLimit = 2
    MaxRecording = 3
    MaxPage = 2
    MaxGone = 2
    MaxFaults = 1
PROPERTIES
    ServedIsArchived
