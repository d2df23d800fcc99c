------------------------------ MODULE MCMigration ------------------------------
EXTENDS Migration

\* SLES with an SDK and a Hub whose version does not follow the service packs, a
\* product that ends with 15.4, and a module that begins with 15.5; or a Leap.
P(n, v)     == [name |-> n, version |-> v]
SP4         == <<15, 4>>
SP5         == <<15, 5>>
Hub         == P("hub", <<1>>)
MCNames     == {"SLES", "Leap", "sdk", "hub", "legacy", "new"}
MCVersions  == {SP4, SP5, <<1>>, <<15>>, <<15, 10>>}
SLES4       == {P("SLES", SP4), P("sdk", SP4), Hub, P("legacy", SP4)}
MCSystems   == {SLES4, {P("Leap", SP4)}}

ExtensionsAt(v) ==
    CASE v = SP4 -> <<P("sdk", SP4), P("legacy", SP4), Hub>>
      [] v = SP5 -> <<P("sdk", SP5), P("new", SP5), Hub>>
      [] OTHER   -> <<>>
MCTree ==
    [p \in {q \in [name : MCNames, version : MCVersions] : q.name \in {"SLES", "Leap"}} |->
        IF p.name = "SLES" THEN ExtensionsAt(p.version) ELSE <<>>]

\* Neither list is in the order the products have to be upgraded in.
ToSP5   == [from |-> {P("SLES", SP4), P("sdk", SP4)},
            to   |-> <<Hub, P("sdk", SP5), P("new", SP5), P("SLES", SP5)>>]
ToSP10  == [from |-> {P("SLES", SP4)}, to |-> <<P("SLES", <<15, 10>>)>>]
ToSLES  == [from |-> {P("Leap", SP4)}, to |-> <<P("SLES", SP4)>>]
MCPaths == <<ToSP10, ToSP5, ToSLES>>

MCAvailable == {P("SLES", SP4), P("SLES", SP5), P("sdk", SP5), P("new", SP5), Hub}
MCRenamed   == {<<"Leap", "SLES">>}
MCFlagSets  == {{"selfUpdate", "query"},
                {"selfUpdate", "nonInteractive", "snapshots", "strict"},
                {"snapshots"},
                {"nonInteractive", "downloadOnly"}}
MCQueryFlagSets == {{"query"}, {"query", "nonInteractive"}}
MCForeign   == {[name |-> "other", version |-> <<>>]}

\* An installation medium that is obsolete after the migration, and one that is not.
MCRepos  == {"medium", "beta"}
MCOffers == [r \in MCRepos |-> IF r = "medium" THEN {P("SLES", <<15>>)}
                               ELSE {P("SLES", <<15, 10>>)}]
===============================================================================
