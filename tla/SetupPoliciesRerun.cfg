\* One operator, no user edits: a run that fails, and its re-run.
CONSTANTS
    Runs = {r1}
    Policies <- MCPolicies
    Order <- MCOrder
    Names <- MCNames
    Script <- MCScript
    PolicyOf <- MCPolicyOf
SPECIFICATION SpecNoUser
INVARIANT
    RerunCompletes
