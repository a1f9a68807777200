\* Two runs, overlapping or not, killed and repeated, over every change of what Fleet answers.
CONSTANTS
    Runs = {r1, r2}
    Worlds <- MCWorlds
    Plans <- MCPlans
    Files <- MCFiles
    Bodies <- MCBodies
    MaxStarts = 3
    UserFiles = {"host-db-a"}
    NameOrder <- MCNameOrder
    Lower <- MCLower
    Short <- MCShort
    Slug <- MCSlug
    Tagged <- MCTagged
SPECIFICATION Spec
SYMMETRY RunSymmetry
INVARIANTS
    TypeOK
    GrafanaSeesWhole
    DoneMeansCurrent
    EveryHostShown
    QuietRerun
PROPERTIES
    KeepsHandMade
