\* Any two keys of any datasets, minted, configured and revoked in any order.
CONSTANTS
    Chars <- MCChars
    Datasets <- MCDatasets
    MaxKeys = 2
    Wanted <- MCWanted
    LowerOf <- MCLowerOf
    NameChars <- MCNameChars
    Names <- MCNames
    NameLimit = 2
SPECIFICATION Spec
INVARIANTS
    TypeOK
    WritesOnlyItsOwn
    IntakeKeptApart
PROPERTIES
    RevokesExactlyItsDataset
