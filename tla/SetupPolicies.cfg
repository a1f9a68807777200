\* Two runs at once, started over and over; the user edits and deletes anything.
CONSTANTS
    Runs = {r1, r2}
    Policies <- MCPolicies
    Order <- MCOrder
    Names <- MCNames
    Script <- MCScript
    PolicyOf <- MCPolicyOf
SPECIFICATION Spec
INVARIANTS
    TypeOK
    CompleteOnSuccess
    OneCreatorFills
PROPERTIES
    LeavesExistingAlone
