SPECIFICATION FairSpec
INVARIANTS TypeOK MigrationComplete RollbackSyncs RollbackRestores InterruptStops
PROPERTIES BaseFirst OnlyObsoleteRepos Terminates UpgradePromise
CHECK_DEADLOCK FALSE
CONSTANTS
    Names <- MCNames
    Versions <- MCVersions
    BaseNames = {"SLES", "Leap"}
    Renamed <- MCRenamed
    Systems <- MCSystems
    Tree <- MCTree
    Paths <- MCPaths
    Available <- MCAvailable
    Foreign <- MCForeign
    Plugins = {}
    UserRepos <- MCRepos
    Offers <- MCOffers
    FlagSets <- MCFlagSets
    None = None
    Partial = Partial
    MaxRuns = 2
    MaxFaults = 1
    MaxPatches = 1
