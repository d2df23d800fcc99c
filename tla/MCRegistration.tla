--------------------------- MODULE MCRegistration ---------------------------
EXTENDS Registration
CONSTANTS basesystem, desktop, sap, web

\* SLES with Basesystem, which has the extensions SAP (not recommended) and
\* Desktop, and below Desktop Web (recommended, but not available).
MCProducts   == {Base, basesystem, desktop, sap, web}
MCExtensions ==
    [p \in MCProducts |-> CASE p = Base       -> <<basesystem>>
                            [] p = basesystem -> <<sap, desktop>>
                            [] p = desktop    -> <<web>>
                            [] OTHER          -> <<>>]

\* A smaller tree for the liveness property: SAP beside Basesystem, no Web.
RetryProducts   == {Base, basesystem, desktop, sap}
RetryExtensions ==
    [p \in RetryProducts |-> CASE p = Base       -> <<basesystem, sap>>
                               [] p = basesystem -> <<desktop>>
                               [] OTHER          -> <<>>]
===============================================================================
