SPECIFICATION FairSpec
CONSTANTS
    K = 2
    Raises = {}
    MaxWrites = 1
    MaxDeaths = 0
PROPERTIES
    TrustedOrReported
