\* One MCP bundle with every stage failing, edited and crashed around.
SPECIFICATION Spec
CONSTANTS
    Names = {mcp}
    Nil = nil
INVARIANTS
    NothingPointsToMissingBundle
    SuccessIsConfirmed
    ConfigMatchesRegistry
    StrandedNeedsFault
PROPERTIES
    StartRepairs
    ReconcileKeepsBundles
