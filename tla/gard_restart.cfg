\* A restart is asked for, and nothing goes wrong by itself.
SPECIFICATION Spec
CONSTANTS
    FamilySize = 2
    MaxMishaps = 1
    MaxRestarts = 1
    SlowStart = FALSE
INVARIANT
    RestartGoesOn
\* once it has exited the gardener takes no step
CHECK_DEADLOCK FALSE
