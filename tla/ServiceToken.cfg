\* bootstrap.sh, run again after it was cut short anywhere, until it ends well.
CONSTANTS
    Runs = {r1}
    MaxTokens = 8
SPECIFICATION FairSpec
INVARIANTS
    TypeOK
    FleetTokenValid
    DoneMeansShared
PROPERTIES
    FleetServerStarts
