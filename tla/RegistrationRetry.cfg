SPECIFICATION FairSpec
PROPERTIES RetryConverges
CONSTANTS
    Base = sles
    basesystem = basesystem
    desktop = desktop
    sap = sap
    web = web
    Products <- RetryProducts
    Extensions <- RetryExtensions
    Recommended = {basesystem, desktop}
    Available = {basesystem, desktop, sap}
    Shared = shared
    Foreign = {other}
    SendsTokens = FALSE
    MaxFaults = 1
