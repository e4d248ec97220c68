SPECIFICATION FairSpec
CONSTANTS
    K = 2
    Raises = {}
    MaxWrites = 3
    MaxDeaths = 1
INVARIANTS
    StatusTrue
PROPERTIES
    NoticedUnlessRaced
    RetryRepairs
    ComesToRest
