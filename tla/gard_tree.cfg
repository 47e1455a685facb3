\* Two workers; two mishaps and a restart at any time.
SPECIFICATION FairSpec
CONSTANTS
    FamilySize = 2
    MaxMishaps = 2
    MaxRestarts = 1
    SlowStart = TRUE
INVARIANTS
    TypeOK
    InstancesUnique
    NoOrphans
PROPERTIES
    InstancesReturn
    CacheReturns
\* once it has exited the gardener takes no step
CHECK_DEADLOCK FALSE
