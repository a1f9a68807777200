\* Every script, cut short and run again, over a new and an old stack.
CONSTANTS
    Services <- MCServices
    Order <- MCOrder
    MaxCAs = 2
SPECIFICATION Spec
INVARIANTS
    TypeOK
    ChainNeverDoubled
    VerifiedMeansServed
    BootedMeansTrusted
