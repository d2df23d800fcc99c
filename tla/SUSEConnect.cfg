SPECIFICATION Spec
INVARIANTS TypeOK ConfigMatchesServer SettingsSurvive NoRevokedLogin DockerLoginsKept TrackerSurvivesKill ListingsTrue SearchTable
PROPERTIES ReportWhole
CHECK_DEADLOCK FALSE
CONSTANTS
    HoursPerDay = 2
    KeepDays = 2
    NoLogin = NoLogin
    Manual = Manual
    Others = {"other"}
    Missing = Missing
    Broken = Broken
    Emptied = Emptied
    Products = {"base", "mod", "sdk"}
    Base = "base"
    Extensions <- MCExtensions
    Catalog <- MCCatalog
    FreeModules = {"mod"}
    Repos = {"@System", "local"}
    Index <- MCIndex
    Within <- MCWithin
    Urls = {"scc", "glue", "rmt"}
    DefaultUrl = "scc"
    SccUrls = {"scc", "glue"}
    Commands <- MCCommands
    Patterns <- MCPatterns
    Plans <- MCPlans
    None = None
    MaxLogins = 2
