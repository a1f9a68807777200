\* Events still arrive while a run purges.
CONSTANTS
    Runs = {r1}
    Events = {e1, e2}
    MaxRollovers = 0
SPECIFICATION Spec
CHECK_DEADLOCK FALSE
INVARIANTS
    NothingLost
