\* Every dashboard of every stock policy, panel by panel.
CONSTANTS
    Fleets <- MCFleets
    Bodies <- MCBodies
    Headings <- MCHeadings
SPECIFICATION Spec
INVARIANTS
    TypeOK
    ReadsWhereItLands
    MissingFitsField
    HardwareIsReported
    PanelsFollowPolicy
    EveryIntegrationShown
PROPERTIES
    LaidOutAsPage
