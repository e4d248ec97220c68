SPECIFICATION FairSpec
CONSTANTS
    K = 2
    Raises = {1}
    MaxWrites = 0
    MaxDeaths = 0
PROPERTIES
    FailureIsolated
