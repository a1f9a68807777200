\* Overlapping runs that fail and die, with nothing arriving while one purges, and are
\* started again.  Every line may be rescued and purged: then the system stops.
CONSTANTS
    Runs = {r1, r2}
    Events = {e1, e2}
    MaxRollovers = 1
SPECIFICATION FairSpec
CHECK_DEADLOCK FALSE
INVARIANTS
    TypeOK
    NothingLost
    OneCopyPerIndex
PROPERTIES
    EveryLineRescued
