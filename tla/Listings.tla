-------------------------------- MODULE Listings --------------------------------
(***************************************************************************)
(* What SUSEConnect and `zypper search-packages` print: the statuses of    *)
(* the installed products, the tree of extensions, and the table of the    *)
(* packages found on the server and in the local repositories. Operators   *)
(* only; the texts are rows.                                               *)
(***************************************************************************)
EXTENDS Naturals, Sequences, FiniteSets, SequencesExt

CONSTANTS
    Products, Base, Extensions,  \* the server's tree: product -> its extensions
    Catalog,     \* the server's packages: [name, modules], a sequence
    FreeModules, \* the modules that need no registration code
    Repos,       \* the local repositories, one of them "@System"
    Index,       \* repository -> the packages of its index, a sequence
    Within     \* <<name, pattern>>: the name has the pattern in it

ASSUME TreeAssumption ==
    Base \in Products /\ Extensions \in [Products -> Seq(Products)] /\ IsFiniteSet(Products)
\* The walk of the code ends: no product is below itself.
ASSUME NoCyclesAssumption ==
    \E depth \in [Products -> 0..Cardinality(Products)] :
        \A p \in Products : \A e \in ToSet(Extensions[p]) : depth[e] < depth[p]
\* A module and a repository have a name.
ASSUME SearchAssumption ==
    /\ IsFiniteSet(Repos) /\ "" \notin Repos /\ Index \in [Repos -> Seq(STRING)]
    /\ Catalog \in Seq([name : STRING, modules : Seq(STRING)])
    /\ \A i \in DOMAIN Catalog : "" \notin ToSet(Catalog[i].modules)

-----------------------------------------------------------------------------
\* One row per installed product, in zypper's order.
buildStatusesOfAll(installed, activations) ==                           \* mutant
    LET s == SetToSeq(installed \cup activations)
    IN  [i \in DOMAIN s |-> [product |-> s[i],
            status |-> IF s[i] \in activations THEN "Registered" ELSE "Not Registered"]]
buildStatuses(installed, activations) ==
    LET s == SetToSeq(installed)
    IN  [i \in DOMAIN s |-> [product |-> s[i],
            status |-> IF s[i] \in activations THEN "Registered" ELSE "Not Registered"]]

\* The tree below a product, parents before children, each with its indentation.
Below[p \in Products] ==
    [indent \in Nat |->
        FlattenSeq([i \in DOMAIN Extensions[p] |->
            <<[product |-> Extensions[p][i], indent |-> indent]>>
            \o Below[Extensions[p][i]][indent + 4]])]

\* The command that is shown with an extension.
CommandFor(p, activations, writable) ==
    [tool |-> IF writable THEN "suseconnect" ELSE "transactional-update register",
     does |-> IF p \in activations THEN "deactivate" ELSE "activate"]
RenderExtensionTree(activations, writable) ==
    LET b == Below[Base][4]
    IN  [i \in DOMAIN b |-> [product |-> b[i].product, indent |-> b[i].indent,
                             command |-> CommandFor(b[i].product, activations, writable)]]

-----------------------------------------------------------------------------
packageWanted(name, query, exact) == IF exact THEN name = query ELSE <<name, query>> \in Within

\* A package of a module comes with the command that activates the module.
ModuleRow(name, m) ==
    [name |-> name, place |-> m, command |-> IF m \in FreeModules THEN "free" ELSE "regcode"]
RepoRow(name, repo) ==
    [name |-> name, place |-> IF repo = "@System" THEN "Installed" ELSE repo, command |-> "none"]

\* A pattern the server could not be asked about is left out.
searchInModules(patterns, exact, unanswered) ==
    FlattenSeq([i \in DOMAIN patterns |->
        IF i \in unanswered THEN <<>>
        ELSE FlattenSeq([j \in DOMAIN Catalog |->
            IF packageWanted(Catalog[j].name, patterns[i], exact)
            THEN [k \in DOMAIN Catalog[j].modules |->
                    ModuleRow(Catalog[j].name, Catalog[j].modules[k])]
            ELSE <<>>])])

\* So is a repository whose index cannot be read.
searchInRepos(patterns, exact, unread) ==
    LET repos == SetToSeq(Repos \ unread)
        found(name) == \E i \in DOMAIN patterns : packageWanted(name, patterns[i], exact)
        of(r) == FlattenSeq([i \in DOMAIN Index[r] |->
                    IF found(Index[r][i]) THEN <<RepoRow(Index[r][i], r)>> ELSE <<>>])
    IN  FlattenSeq([i \in DOMAIN repos |-> of(repos[i])])

uniqueNeighbours(table) ==                                              \* mutant
    FoldLeft(LAMBDA t, row : IF t # <<>> /\ Last(t) = row THEN t ELSE Append(t, row), <<>>, table)
uniqueTable(table) ==
    FoldLeft(LAMBDA t, row : IF row \in ToSet(t) THEN t ELSE Append(t, row), <<>>, table)

\* --group-by-module: a place is printed in its first row only.
groupByModule(table) ==
    LET places == SetToSeq({table[i].place : i \in DOMAIN table})
        first(i) == \A j \in 1..(i - 1) : table[j].place # table[i].place
        rows(m) == FlattenSeq([i \in DOMAIN table |->
                      IF table[i].place = m
                      THEN <<[place |-> IF first(i) THEN m ELSE "", name |-> table[i].name]>>
                      ELSE <<>>])
    IN  FlattenSeq([i \in DOMAIN places |-> rows(places[i])])

-----------------------------------------------------------------------------
(* What the listings ought to show.                                         *)
ParentOf(p, q) == q \in ToSet(Extensions[p])
TreeIsTrue(rows, activations) ==
    /\ {rows[i].product : i \in DOMAIN rows} =
           UNION {ToSet(Extensions[p]) : p \in {Base} \cup {rows[i].product : i \in DOMAIN rows}}
    /\ \A i \in DOMAIN rows :
        /\ rows[i].command.does = "deactivate" <=> rows[i].product \in activations
        /\ rows[i].indent > 4 => \E j \in 1..(i - 1) :
                /\ rows[j].indent + 4 = rows[i].indent
                /\ ParentOf(rows[j].product, rows[i].product)
                /\ \A k \in (j + 1)..(i - 1) : rows[k].indent >= rows[i].indent

FoundRows(patterns, exact, unanswered, unread) ==
    LET wanted(name, asked) == \E i \in asked : packageWanted(name, patterns[i], exact)
        offered == {c \in ToSet(Catalog) : wanted(c.name, DOMAIN patterns \ unanswered)}
        local(r) == {name \in ToSet(Index[r]) : wanted(name, DOMAIN patterns)}
    IN  (UNION {{ModuleRow(c.name, m) : m \in ToSet(c.modules)} : c \in offered})
        \cup (UNION {{RepoRow(name, r) : name \in local(r)} : r \in Repos \ unread})
===============================================================================
