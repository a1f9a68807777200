\* A replacement is issued and configured, and the old key revoked.
CONSTANTS
    Chars <- MCChars
    Datasets <- MCDatasets
    MaxKeys = 2
    Wanted <- MCWanted
    LowerOf <- MCLowerOf
    NameChars <- MCNameChars
    Names <- MCNames
    NameLimit = 2
SPECIFICATION Spec
PROPERTIES
    ReplacementSurvives
