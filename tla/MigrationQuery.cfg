SPECIFICATION Spec
INVARIANT QueryOnlyAsks
CHECK_DEADLOCK FALSE
CONSTANTS
    Names <- MCNames
    Versions <- MCVersions
    BaseNames = {"SLES", "Leap"}
    Renamed <- MCRenamed
    Systems <- MCSystems
    Tree <- MCTree
    Paths <- MCPaths
    Available <- MCAvailable
    Foreign <- MCForeign
    Plugins = {}
    UserRepos <- MCRepos
    Offers <- MCOffers
    FlagSets <- MCQueryFlagSets
    None = None
    Partial = Partial
    MaxRuns = 1
    MaxFaults = 0
    MaxPatches = 1
