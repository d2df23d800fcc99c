SPECIFICATION Spec
INVARIANTS TypeOK RegisterComplete DeregisterClean CleanStop
PROPERTIES NeverOutOfOrder NoServiceLostInUse
CONSTANTS
    Base = sles
    basesystem = basesystem
    desktop = desktop
    sap = sap
    web = web
    Products <- MCProducts
    Extensions <- MCExtensions
    Recommended = {basesystem, desktop, web}
    Available = {basesystem, desktop, sap}
    Shared = shared
    Foreign = {other}
    SendsTokens = FALSE
    MaxFaults = 1
