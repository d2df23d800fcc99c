------------------------------- MODULE Migration -------------------------------
(***************************************************************************)
(* `zypper migration` and `SUSEConnect --rollback`. The plugin updates the *)
(* update stack and restarts itself, looks up the migrations the server    *)
(* offers, moves the activations and the zypper services product by        *)
(* product, upgrades the packages, and on failure restores the files it    *)
(* backed up and rolls the activations back. A signal only sets a flag     *)
(* that is looked at in a few places; the process may die anywhere, and    *)
(* the user may boot the snapshot taken before the migration.              *)
(***************************************************************************)
EXTENDS Naturals, Sequences, FiniteSets, SequencesExt

CONSTANTS
    Names, Versions,  \* a product is a name and a version, a sequence of numbers
    BaseNames,        \* the names of base products
    Renamed,          \* <<old, new>>: the names a migration may change
    Systems,          \* the sets of products a system may have at first
    Tree,             \* base product -> the list of its extensions, flattened
    Paths,            \* the migrations: from these products, to this list
    Available,        \* the products the server mirrors
    Foreign, Plugins, \* services of others, and those a zypp plugin provides
    UserRepos, Offers,\* repositories of no service, and the products they offer
    FlagSets,         \* the combinations of options that are tried
    None, Partial,    \* no product, backup or snapshot; a damaged backup
    MaxRuns, MaxFaults, MaxPatches

Product == [name : Names, version : Versions]
Flag    == {"selfUpdate", "query", "nonInteractive", "disableRepos", "snapshots",
            "strict", "downloadOnly"}

ASSUME ProductsAssumption ==
    /\ Systems \subseteq SUBSET Product /\ Available \subseteq Product
    /\ Tree \in [{p \in Product : p.name \in BaseNames} -> Seq(Product)]
    /\ Paths \in Seq([from : SUBSET Product, to : Seq(Product)])
\* The server's lists name a product once, by its old name or by its new one, and a
\* system, like a path, has at most one base product.
Apart(S)   == \A p, q \in S : p # q => p.name # q.name /\ <<p.name, q.name>> \notin Renamed
OneBase(S) == \A p, q \in S : {p.name, q.name} \subseteq BaseNames => p = q
ASSUME ListsAssumption ==
    /\ \A S \in Systems : OneBase(S)
    /\ \A i \in DOMAIN Paths :
        LET to == ToSet(Paths[i].to) IN to # {} /\ Apart(to) /\ OneBase(to)
    /\ \A b \in DOMAIN Tree : Apart({b} \cup ToSet(Tree[b]))
ASSUME FiniteAssumption == IsFiniteSet(Names) /\ IsFiniteSet(Versions)
ASSUME ServicesAssumption ==
    Foreign \cap Product = {} /\ Plugins \subseteq Product /\ None \notin Product
FilesType == [packages : SUBSET Product, listed : SUBSET Product,
              services : SUBSET (Product \cup Foreign), repos : SUBSET UserRepos]
ASSUME BackupAssumption == {None, Partial} \cap FilesType = {}
ASSUME OptionsAssumption ==
    /\ Offers \in [UserRepos -> SUBSET Product] /\ FlagSets \subseteq SUBSET Flag
    /\ MaxRuns \in Nat /\ MaxFaults \in Nat /\ MaxPatches \in Nat

VARIABLES
    act,         \* server: the activated products
    packages,    \* the products whose release package is installed,
    broken,      \* whether a dist-upgrade stopped half way,
    listed,      \* and the products zypper lists, from products.d
    services,    \* the services zypper knows; the service of p is named p
    repos,       \* the enabled repositories of no service
    pending,     \* patches for the update stack are waiting
    backup,      \* what repos.sh would restore, Partial Partial when damaged
    snapshot,    \* the snapshot taken before the migration
    cmd, flags,  \* the last command started and its options
    environ,     \* it has its environment: a restart drops it, PATH included
    phase,       \* "check", "apply", "undo" or "last"
    todo,        \* its steps still to do
    result,      \* how it ended
    products,    \* migration: the system's products, as last listed,
    missing,     \* some of their release packages could not be installed,
    path,        \* the products of the migration that was selected, in order,
    known,       \* the services listed before the first change,
    migrated,    \* the services the server said to be replaced
    interrupted, \* the phase the first signal came in
    runs, faults, patches, \* history: bounded events so far
    start,       \* history: the files' state and the activations at the start
    backedUp,    \* history: this run's backup succeeded,
    upgraded,    \* its dist-upgrade changed the packages,
    unadded      \* and services whose return after a refresh failed unnoticed

server  == <<act>>
local   == <<packages, broken, listed, services, repos>>
saved   == <<backup, snapshot>>
command == <<cmd, flags, environ, phase, result, interrupted, runs, start>>
notes   == <<products, missing, path, known, migrated, backedUp, upgraded, unadded>>
bounds  == <<faults, patches, pending>>
vars    == <<server, local, saved, command, notes, bounds, todo>>

-----------------------------------------------------------------------------
\* An edition is compared number by number, the shorter padded with zeros.
Part(v, i) == IF i <= Len(v) THEN v[i] ELSE 0
OlderAsText(v, w) ==                                                    \* mutant
    LET text(n) == IF n < 10 THEN 10 * n ELSE n
    IN  \E i \in 1..(Len(v) + Len(w)) : text(Part(v, i)) < text(Part(w, i))
compareEditions(v, w) == \* v is older than w
    \E i \in 1..(Len(v) + Len(w)) :
        /\ Part(v, i) < Part(w, i)
        /\ \A j \in 1..(i - 1) : Part(v, j) = Part(w, j)

\* A stable sort: what is not installed first, and base products before others.
InOrder(m, before(_, _)) ==
    LET stable(f) == \A j, k \in DOMAIN m : j < k =>
            before(m[f[j]], m[f[k]]) \/ (~before(m[f[k]], m[f[j]]) /\ f[j] < f[k])
    IN  {[k \in DOMAIN m |-> m[f[k]]] : f \in {g \in Bijection(DOMAIN m, DOMAIN m) : stable(g)}}
sortInstalledFirst(m, ids) ==                                           \* mutant
    InOrder(m, LAMBDA p, q : p \in ids /\ q \notin ids)
sortMigrationProducts(m, ids) ==
    InOrder(m, LAMBDA p, q : IF (p \in ids) # (q \in ids) THEN p \notin ids
                             ELSE p.name \in BaseNames /\ q.name \notin BaseNames)

Do(op, p)    == <<[op |-> op, on |-> p]>>
Just(op)     == Do(op, None)
OfSet(op, S) == LET s == SetToSeq(S) IN [i \in DOMAIN s |-> [op |-> op, on |-> s[i]]]

Has(f)      == f \in flags
Bases(S)    == {p \in S : p.name \in BaseNames}
NamesIn(S)  == {p.name : p \in S}
Obsolete(p) == {q \in act : q # p /\ (q.name = p.name \/ <<q.name, p.name>> \in Renamed)}
SystemProducts == listed \cup act

-----------------------------------------------------------------------------
Begin(c, f) ==
    IF c = "rollback" THEN Just("base")
    ELSE (IF "selfUpdate" \in f THEN Just("patchCheck") ELSE <<>>)
         \o Just("refresh") \o Just("check") \o Just("fetch")

\* fetchAllMigrations, main: what is done once a path has been chosen.
Chosen == (IF Has("snapshots") THEN Just("preSnapshot") ELSE <<>>) \o Just("backup")

\* The body of the loop of migrateSystem.
MigrateProduct(p) ==
    Do("upgrade", p) \o Do("cleanupRepos", p) \o Do("add", p) \o Just("interruptible")

applyUpgradeFirst(m) ==                                                 \* mutant
    Just("interruptible") \o Just("listServices") \o Just("dist-upgrade")
    \o FlattenSeq([i \in DOMAIN m |-> MigrateProduct(m[i])]) \o Just("dropUnmigrated")
    \o Just("refresh") \o Just("interruptible") \o Just("dist-upgrade")

applyMigration(m) ==
    Just("interruptible")
    \o (IF "Leap" \in NamesIn(products) /\ "SLES" \in NamesIn({m[i] : i \in DOMAIN m})
        THEN Just("disableAll") ELSE <<>>)
    \o Just("listServices")
    \o FlattenSeq([i \in DOMAIN m |-> MigrateProduct(m[i])])
    \o Just("dropUnmigrated")
    \o Just("refresh") \o Just("interruptible") \o Just("dist-upgrade")

UndoServerFirst == Just("base") \o Just("restore")                      \* mutant
Undo            == Just("restore") \o Just("base")

-----------------------------------------------------------------------------
NoStart == [repos |-> {}, listed |-> {}, packages |-> {}, act |-> {}]

Init ==
    /\ \E S \in Systems :
        /\ act = S /\ packages = S /\ listed = S
        /\ services = S \cup Foreign
    /\ broken = FALSE /\ repos = UserRepos /\ pending \in {FALSE, MaxPatches > 0}
    /\ backup = None /\ snapshot = None
    /\ cmd = "rollback" /\ flags = {} /\ environ = TRUE /\ phase = "check"
    /\ todo = <<>> /\ result = "none" /\ interrupted = "no"
    /\ products = {} /\ missing = FALSE /\ path = <<>> /\ known = {} /\ migrated = {}
    /\ backedUp = FALSE /\ upgraded = FALSE /\ unadded = {}
    /\ runs = 0 /\ faults = 0 /\ patches = 0 /\ start = NoStart

\* The variables of a new process.
Fresh ==
    /\ products' = {} /\ missing' = FALSE /\ path' = <<>> /\ known' = {} /\ migrated' = {}
    /\ interrupted' = "no" /\ backedUp' = FALSE /\ upgraded' = FALSE /\ unadded' = {}

Start(c, f) ==
    /\ result # "running" /\ runs < MaxRuns
    /\ cmd' = c /\ flags' = f /\ environ' = TRUE
    /\ phase' = (IF c = "rollback" THEN "undo" ELSE "check")
    /\ todo' = Begin(c, f) /\ result' = "running" /\ runs' = runs + 1
    /\ start' = [repos |-> repos, listed |-> listed, packages |-> packages, act |-> act]
    /\ Fresh
    /\ UNCHANGED <<server, local, saved, bounds>>

At(op)      == todo # <<>> /\ Head(todo).op = op
On          == Head(todo).on
Then(steps) == todo' = steps \o Tail(todo) /\ UNCHANGED command

\* os.Exit, and the return from main.
ExitOnward(r) ==                                                        \* mutant
    /\ todo' = (IF todo = <<>> THEN <<>> ELSE Tail(todo)) /\ result' = r
    /\ UNCHANGED <<cmd, flags, environ, phase, interrupted, runs, start>>
Exit(r) ==
    /\ todo' = <<>> /\ result' = r
    /\ UNCHANGED <<cmd, flags, environ, phase, interrupted, runs, start>>

\* An error: while the migration is applied it is undone, else the command ends.
Error ==
    IF phase = "apply"
    THEN /\ phase' = "undo" /\ todo' = Undo
         /\ UNCHANGED <<cmd, flags, environ, interrupted, runs, start, result>>
    ELSE Exit("failed")
Faulty == faults < MaxFaults /\ faults' = faults + 1 /\ UNCHANGED <<patches, pending>>

-----------------------------------------------------------------------------
(* Self update, and the lookup of the migrations.                           *)
PatchCheck ==
    /\ At("patchCheck")
    /\ IF pending THEN Then(Just("patch")) ELSE Then(<<>>)
    /\ UNCHANGED <<server, local, saved, notes, bounds>>

\* The exit codes that ask for a restart count as a failure, too.
Patch ==
    /\ At("patch")
    /\ \/ Then(Just("patchRecheck")) /\ pending' \in BOOLEAN
       \/ Exit("failed") /\ pending' = FALSE
    /\ UNCHANGED <<server, local, saved, notes, faults, patches>>

RestartAnyway ==                                                        \* mutant
    /\ At("patchRecheck")
    /\ todo' = Begin(cmd, flags) /\ environ' = FALSE
    /\ UNCHANGED <<cmd, flags, phase, result, interrupted, runs, start>>
    /\ UNCHANGED <<server, local, saved, notes, bounds>>
PatchRecheck ==
    /\ At("patchRecheck")
    /\ IF pending THEN Exit("failed")
       ELSE /\ todo' = Begin(cmd, flags) /\ environ' = FALSE
            /\ UNCHANGED <<cmd, flags, phase, result, interrupted, runs, start>>
    /\ UNCHANGED <<server, local, saved, notes, bounds>>

\* New patches for the update stack are published while it is updated.
Publish ==
    /\ \E op \in {"patchCheck", "patchRecheck"} : At(op)
    /\ ~pending /\ patches < MaxPatches
    /\ pending' = TRUE /\ patches' = patches + 1
    /\ UNCHANGED <<server, local, saved, command, notes, todo, faults>>

RefreshRepos ==
    /\ At("refresh")
    /\ Then(<<>>)
    /\ UNCHANGED <<server, local, saved, notes, bounds>>

\* Products whose release package is there need nothing, if rpm can be found.
checkSystemProducts ==
    /\ At("check")
    /\ products' = SystemProducts /\ missing' = FALSE
    /\ Then(OfSet("release", {p \in products' : ~environ \/ p.name \notin NamesIn(packages)})
            \o Just("checked"))
    /\ UNCHANGED <<server, local, saved, bounds, path, known, migrated,
                   backedUp, upgraded, unadded>>

\* The release package of a base product takes the place of the other one; zypper
\* leaves a product of that name alone.
Offered(n) == {p \in (services \cap Product) \cup UNION {Offers[r] : r \in repos} : p.name = n}
With(p, S) == {p} \cup {q \in S : ~({p.name, q.name} \subseteq BaseNames)}
InstallReleasePackage ==
    /\ At("release")
    /\ \/ On.name \in NamesIn(packages) /\ UNCHANGED <<packages, listed, missing, faults>>
       \/ /\ On.name \notin NamesIn(packages)
          /\ \E p \in Offered(On.name) :
                /\ \A q \in Offered(On.name) : ~compareEditions(p.version, q.version)
                /\ packages' = With(p, packages) /\ listed' = With(p, listed)
          /\ UNCHANGED <<missing, faults>>
       \/ /\ IF On.name \notin NamesIn(packages) /\ Offered(On.name) = {} THEN UNCHANGED faults
             ELSE faults < MaxFaults /\ faults' = faults + 1
          /\ missing' = TRUE /\ UNCHANGED <<packages, listed>>
    /\ Then(<<>>)
    /\ UNCHANGED <<server, broken, services, repos, saved, products, path, known, migrated,
                   backedUp, upgraded, unadded, patches, pending>>

\* The list read again after the rollback is not the one that is used.
releasePackagesChecked ==
    /\ At("checked")
    /\ Then(IF missing /\ phase = "check" THEN Just("base") \o Just("reread") ELSE <<>>)
    /\ UNCHANGED <<server, local, saved, notes, bounds>>

rereadProducts ==
    /\ At("reread")
    /\ Then(<<>>)
    /\ UNCHANGED <<server, local, saved, notes, bounds>>

\* By their numbers.
AllOffered  == {i \in DOMAIN Paths : Paths[i].from \subseteq products}
Mirrored(m) == \A i \in DOMAIN m.to : m.to[i] \in Available
migrations  == {i \in AllOffered : Mirrored(Paths[i])}

\* With --non-interactive the first migration is taken, even for a --query.
Select(i) ==
    /\ path' \in sortMigrationProducts(Paths[i].to, products)
    /\ todo' = Chosen
    /\ phase' = "apply"
    /\ UNCHANGED <<cmd, flags, environ, result, interrupted, runs, start>>

selectMigration ==
    /\ At("fetch")
    /\ \/ /\ migrations = {} \/ products = {}
          /\ Exit(IF products = {} \/ AllOffered # {} THEN "failed" ELSE "ok")
          /\ UNCHANGED path
       \/ /\ products # {} /\ Has("nonInteractive")
          /\ \E i \in migrations : (\A j \in migrations : i <= j) /\ Select(i)
       \/ /\ products # {} /\ migrations # {} /\ ~Has("nonInteractive")
          /\ \/ ~Has("query") /\ \E i \in migrations : Select(i)
             \/ Exit("ok") /\ UNCHANGED path
             \/ ~Has("query") /\ Exit("failed") /\ UNCHANGED path
    /\ UNCHANGED <<server, local, saved, products, missing, known, migrated,
                   backedUp, upgraded, unadded, bounds>>

-----------------------------------------------------------------------------
(* The migration.                                                           *)
Files == [packages |-> packages, listed |-> listed, services |-> services, repos |-> repos]

\* An error is ignored.
CreatePreSnapshot ==
    /\ At("preSnapshot")
    /\ \/ snapshot' = Files /\ UNCHANGED bounds
       \/ Faulty /\ UNCHANGED snapshot
    /\ Then(<<>>)
    /\ UNCHANGED <<server, local, backup, notes>>

\* So is this one. It fails before tar is run, and the earlier archive stays, or tar,
\* which a restarted process does not find, leaves a part of the new one: without an
\* earlier script there is nothing to restore from.
Backup ==
    /\ At("backup")
    /\ \/ environ /\ backup' = Files /\ backedUp' = TRUE /\ UNCHANGED bounds
       \/ ~environ /\ UNCHANGED <<backup, backedUp, bounds>>
       \/ /\ environ /\ Faulty /\ UNCHANGED backedUp
          /\ backup' \in {backup, IF backup = None THEN None ELSE Partial}
    /\ Then(applyMigration(path))
    /\ UNCHANGED <<server, local, snapshot, products, missing, path, known, migrated,
                   upgraded, unadded>>

checkInterrupted ==
    /\ At("interruptible")
    /\ IF interrupted # "no" THEN Error ELSE Then(<<>>)
    /\ UNCHANGED <<server, local, saved, notes, bounds>>

disableAllRepos ==
    /\ At("disableAll")
    /\ \/ repos' = {} /\ UNCHANGED bounds
       \/ repos' \in SUBSET repos /\ Faulty
    /\ Then(<<>>)
    /\ UNCHANGED <<server, packages, broken, listed, services, saved, notes>>

\* An error counts as no service.
InstalledServices ==
    /\ At("listServices")
    /\ \/ known' = services /\ UNCHANGED bounds
       \/ known' = {} /\ Faulty
    /\ Then(<<>>)
    /\ UNCHANGED <<server, local, saved, products, missing, path, migrated,
                   backedUp, upgraded, unadded>>

\* The server moves the activation and names the service that is obsolete.
UpgradeProduct ==
    /\ At("upgrade")
    /\ act' = (act \ Obsolete(On)) \cup {On}
    /\ migrated' = migrated \cup Obsolete(On)
    /\ Then(OfSet("remove", Obsolete(On)))
    /\ UNCHANGED <<local, saved, products, missing, path, known, backedUp, upgraded, unadded,
                   bounds>>

MigrationRemoveService ==
    /\ At("remove")
    /\ services' = (IF On \in Plugins THEN services ELSE services \ {On})
    /\ Then(<<>>)
    /\ UNCHANGED <<server, packages, broken, listed, repos, saved, notes, bounds>>

ObsoleteRepos(p) ==
    {r \in repos : \E q \in Offers[r] : q.name = p.name /\ compareEditions(q.version, p.version)}

\* Each is disabled, or the user is asked; a closed standard input ends the process.
cleanupProductRepos ==
    /\ At("cleanupRepos")
    /\ LET old == ObsoleteRepos(On) IN
        \/ /\ repos' = repos \ old
           /\ Then(<<>>) /\ UNCHANGED bounds
        \/ /\ old # {} /\ (Has("nonInteractive") \/ Has("disableRepos"))
           /\ repos' \in {repos \ D : D \in SUBSET old} /\ Faulty
           /\ Then(<<>>)
        \/ /\ old # {} /\ ~Has("nonInteractive") /\ ~Has("disableRepos")
           /\ repos' \in {repos \ D : D \in SUBSET old} /\ UNCHANGED bounds
           /\ \/ interrupted = "no" /\ Then(<<>>)
              \/ interrupted # "no" /\ Error
              \/ Exit("abandoned")
    /\ UNCHANGED <<server, packages, broken, listed, services, saved, notes>>

\* The service is removed, added, given its credentials and refreshed.
MigrationAddService ==
    /\ At("add")
    /\ \/ /\ services' = services \cup {On}
          /\ Then(<<>>) /\ UNCHANGED bounds
       \/ /\ On \notin Plugins /\ Faulty
          /\ services' \in {services \ {On}, services \cup {On}}
          /\ Error
    /\ UNCHANGED <<server, packages, broken, listed, repos, saved, notes>>

UnmigratedKept == {}                                                    \* mutant
Unmigrated     == (known \cap Product) \ migrated
dropUnmigrated ==
    /\ At("dropUnmigrated")
    /\ Then(OfSet("remove", Unmigrated))
    /\ UNCHANGED <<server, local, saved, notes, bounds>>

\* What dist-upgrade installs, and what it keeps of a set of products: release packages
\* of base products take each other's place here, too.
Moved(p, S) == {q \in S : q.name = p.name \/ <<q.name, p.name>> \in Renamed} # {}
NewPackages == {path[i] : i \in {j \in DOMAIN path : Moved(path[j], packages)}} \ packages
Kept(S)     == {q \in S : \A p \in NewPackages :
                    ~Moved(p, {q}) /\ ~({p.name, q.name} \subseteq BaseNames)}

\* zypper's exit code, in classes: 8; an error before the commit; and the codes
\* from 100, which follow a complete upgrade (102, 103, 107).
Ends(code) ==
    CASE code = "ok"     -> ~Has("downloadOnly")
      [] code = "info"   -> TRUE
      [] code = "commit" -> TRUE
      [] code = "error"  -> FALSE
DistUpgrade(code) ==
    /\ IF code = "ok" THEN UNCHANGED bounds ELSE Faulty
    /\ broken' = (code = "commit" \/ (broken /\ code = "error"))
    /\ upgraded' = Ends(code)
    /\ IF Ends(code)
       THEN /\ packages' = Kept(packages) \cup NewPackages
            /\ listed' = Kept(listed) \cup NewPackages
       ELSE UNCHANGED <<packages, listed>>
isFatal(code) == code \in {"commit", "error"}
StopsUnasked(code) ==                                                   \* mutant
    code # "ok" /\ (isFatal(code) \/ ~Has("strict"))
Stops(code) == interrupted # "no" \/ (code # "ok" /\ (isFatal(code) \/ ~Has("strict")))

upgradePackages ==
    /\ At("dist-upgrade")
    /\ \E code \in {"ok", "info", "commit", "error"} :
        /\ DistUpgrade(code)
        /\ IF code = "commit" THEN Exit("inconsistent")
           ELSE IF Stops(code) THEN Error
           ELSE /\ phase' = "last" /\ todo' = Just("check")
                /\ UNCHANGED <<cmd, flags, environ, result, interrupted, runs, start>>
    /\ UNCHANGED <<server, services, repos, saved, products, missing, path, known, migrated,
                   backedUp, unadded>>

-----------------------------------------------------------------------------
(* Restore and Rollback.                                                    *)
\* repos.sh removes the directories and unpacks the archive. Errors are ignored.
Restore ==
    /\ At("restore")
    /\ \/ /\ ~environ \/ backup = None
          /\ UNCHANGED <<services, repos, listed, bounds>>
       \/ /\ environ /\ backup \notin {None, Partial} /\ UNCHANGED bounds
          /\ services' = backup.services /\ repos' = backup.repos /\ listed' = backup.listed
       \/ /\ environ /\ backup # None
          /\ IF backup = Partial THEN UNCHANGED bounds ELSE Faulty
          /\ services' = {} /\ repos' = {} /\ listed' = {}
    /\ Then(<<>>)
    /\ UNCHANGED <<server, packages, broken, saved, notes>>

\* downgradeProduct, and migrationRefreshService with the service it returns.
Downgrade(p) ==
    /\ act' = (act \ Obsolete(p)) \cup {p}
    /\ UNCHANGED <<local, saved, notes, bounds>>
Refresh(p) == Do("remove", p) \o OfSet("remove", Obsolete(p)) \o Do("readd", p)

DowngradeExtensions(b) ==
    LET t == Tree[b]
    IN  FlattenSeq([i \in DOMAIN t |->
            IF t[i].name \in NamesIn(listed) THEN Do("downgrade", t[i]) ELSE <<>>])
RollbackBase ==
    /\ At("base")
    /\ \/ \E b \in Bases(listed) :
            /\ Downgrade(b)
            /\ Then(Refresh(b) \o DowngradeExtensions(b) \o Just("sync"))
       \/ /\ Bases(listed) = {} /\ Error
          /\ UNCHANGED <<server, local, saved, notes, bounds>>

RollbackExtension ==
    /\ At("downgrade")
    /\ Downgrade(On)
    /\ Then(Refresh(On))

\* The error of MigrationAddService is dropped.
ReaddService ==
    /\ At("readd")
    /\ \/ services' = services \cup {On} /\ unadded' = unadded \ {On} /\ UNCHANGED bounds
       \/ On \notin Plugins /\ Faulty /\ unadded' = unadded \cup {On} /\ UNCHANGED services
    /\ Then(<<>>)
    /\ UNCHANGED <<server, packages, broken, listed, repos, saved, products, missing, path,
                   known, migrated, backedUp, upgraded>>

\* The server drops the activations that are not in the list it is sent.
KeepActivations == act                                                  \* mutant
Synchronized    == act \cap listed
syncProducts ==
    /\ At("sync")
    /\ act' = Synchronized
    /\ Then(Just("releasever"))
    /\ UNCHANGED <<local, saved, notes, bounds>>

SetReleaseVersion ==
    /\ At("releasever")
    /\ Then(<<>>)
    /\ UNCHANGED <<server, local, saved, notes, bounds>>

-----------------------------------------------------------------------------
\* The end of main, and of Rollback.
Finish ==
    /\ result = "running" /\ todo = <<>>
    /\ Exit(IF phase = "undo" /\ cmd = "migration" THEN "rolledBack" ELSE "ok")
    /\ UNCHANGED <<server, local, saved, notes, bounds>>

\* A call to zypper or to the server fails before it has an effect. The calls
\* whose errors are ignored have their own failures.
Ignoring == {"release", "checked", "preSnapshot", "backup", "interruptible",
             "listServices", "add", "dropUnmigrated", "dist-upgrade", "restore", "readd"}
Fail ==
    /\ todo # <<>> /\ Head(todo).op \notin Ignoring
    /\ Faulty /\ Error
    /\ UNCHANGED <<server, local, saved, notes>>

\* A signal: caught from the backup on, and only noted.
Signal ==
    /\ result = "running" /\ interrupted = "no" /\ cmd = "migration"
    /\ phase # "check" /\ ~At("preSnapshot")
    /\ interrupted' = phase
    /\ UNCHANGED <<server, local, saved, notes, bounds, todo,
                   cmd, flags, environ, phase, result, runs, start>>

\* The process dies: by a signal before that, by SIGKILL or a power cut.
Kill ==
    /\ result = "running" /\ faults < MaxFaults
    /\ faults' = faults + 1
    /\ Exit("killed")
    /\ UNCHANGED <<server, local, saved, notes, patches, pending>>

\* The user boots the snapshot that was taken before the migration.
BootSnapshot ==
    /\ result # "running" /\ snapshot # None
    /\ packages' = snapshot.packages /\ listed' = snapshot.listed
    /\ services' = snapshot.services /\ repos' = snapshot.repos /\ broken' = FALSE
    /\ snapshot' = None /\ upgraded' = FALSE /\ result' = "none"
    /\ UNCHANGED <<server, backup, bounds, todo, products, missing, path, known, migrated,
                   backedUp, unadded, cmd, flags, environ, phase, interrupted, runs, start>>

Step ==
    \/ PatchCheck \/ Patch \/ PatchRecheck \/ RefreshRepos
    \/ checkSystemProducts \/ InstallReleasePackage \/ releasePackagesChecked
    \/ rereadProducts \/ selectMigration
    \/ CreatePreSnapshot \/ Backup \/ checkInterrupted \/ disableAllRepos
    \/ InstalledServices \/ UpgradeProduct \/ MigrationRemoveService
    \/ cleanupProductRepos \/ MigrationAddService \/ dropUnmigrated \/ upgradePackages
    \/ Restore \/ RollbackBase \/ RollbackExtension \/ ReaddService
    \/ syncProducts \/ SetReleaseVersion
    \/ Finish

Next ==
    \/ Step \/ Fail \/ Kill \/ Signal \/ Publish \/ BootSnapshot
    \/ \E f \in FlagSets : Start("migration", f)
    \/ Start("rollback", {})

Spec     == Init /\ [][Next]_vars
FairSpec == Spec /\ WF_vars(Step)

-----------------------------------------------------------------------------
\* Every variable keeps its type.
TypeOK ==
    /\ act \subseteq Product /\ packages \subseteq Product /\ listed \subseteq Product
    /\ broken \in BOOLEAN /\ services \subseteq Product \cup Foreign
    /\ repos \subseteq UserRepos /\ pending \in BOOLEAN
    /\ backup \in {None, Partial} \cup FilesType /\ snapshot \in {None} \cup FilesType
    /\ cmd \in {"migration", "rollback"} /\ flags \subseteq Flag /\ environ \in BOOLEAN
    /\ phase \in {"check", "apply", "undo", "last"}
    /\ interrupted \in {"no", "apply", "undo", "last"}
    /\ result \in {"none", "running", "ok", "failed", "rolledBack", "inconsistent",
                   "abandoned", "killed"}
    /\ products \subseteq Product /\ missing \in BOOLEAN /\ path \in Seq(Product)
    /\ known \subseteq Product \cup Foreign /\ migrated \subseteq Product
    /\ backedUp \in BOOLEAN /\ upgraded \in BOOLEAN /\ unadded \subseteq Product
    /\ runs \in 0..MaxRuns /\ faults \in 0..MaxFaults /\ patches \in 0..MaxPatches
    /\ (result # "running" => todo = <<>>)

InPath == {path[i] : i \in DOMAIN path}

\* A migration that reports success has the products of its path activated and,
\* unless it was only to download them or a release package was not to be had,
\* installed (and listed, if they all were before). Each has its service, except one
\* that was listed before and that the server did not name as replaced; and no other
\* service of the server is left, if the services could be listed (migrateSystem,
\* checkSystemProducts).
MigrationComplete ==
    result = "ok" /\ path # <<>> =>
        /\ InPath \subseteq act
        /\ upgraded /\ ~missing => InPath \subseteq packages
        /\ upgraded /\ ~missing /\ start.packages = start.listed => InPath \subseteq listed
        /\ InPath \ services \subseteq known \ migrated
        /\ known # {} => services \ (Foreign \cup Plugins) \subseteq InPath

\* A rollback that reports success, after a failed migration or as a command of its
\* own on a booted snapshot, leaves the server with no activation of a product
\* zypper does not list; every listed product of the base product's tree is
\* activated and has its service, unless adding it again failed unnoticed (Rollback).
RollbackSyncs ==
    result = "rolledBack" \/ (result = "ok" /\ cmd = "rollback") =>
        /\ act \subseteq listed
        /\ \A b \in Bases(listed) :
            LET tracked == listed \cap ({b} \cup ToSet(Tree[b]))
            IN  tracked \subseteq act /\ tracked \subseteq services \cup unadded

\* A migration that failed and was rolled back gives the user's repositories, the
\* products zypper lists and the activations back as they were when it started in
\* a synchronised system, if the backup was made (Backup, Restore, Rollback).
RollbackRestores ==
    result = "rolledBack" /\ backedUp =>
        /\ repos = start.repos
        /\ start.act = start.listed => act = start.act /\ listed = start.listed

\* A signal that arrives while the migration is applied keeps it from succeeding,
\* however late (the checks of the interrupted flag).
InterruptStops == interrupted = "apply" => result # "ok" /\ phase # "last"

\* The base product is upgraded on the server before any other product that is not
\* there yet: the server never sees an extension without its base. After a rollback
\* in the same run the list of installed products is outdated and so is the order.
BaseUpgradedFirst ==
    \A p \in act' \ act :
        phase = "apply" /\ ~missing /\ p.name \notin BaseNames => Bases(InPath) \subseteq act
BaseFirst == [][BaseUpgradedFirst]_vars

\* The migration of a system that is no Leap disables a repository only if it has
\* a product of the path in a version that really is older.
Weight(v) == 100 * Part(v, 1) + Part(v, 2)
ReallyObsolete(r) ==
    \E q \in Offers[r], p \in InPath : q.name = p.name /\ Weight(q.version) < Weight(p.version)
DisablesOnlyObsolete ==
    result = "running" /\ phase = "apply" /\ "Leap" \notin NamesIn(products) =>
        \A r \in repos \ repos' : ReallyObsolete(r)
OnlyObsoleteRepos == [][DisablesOnlyObsolete]_vars

\* Every command ends: the self update does not restart for ever.
Terminates == result = "running" ~> result # "running"

\* The migration keeps the promise of Upgrade.
Abstract == INSTANCE Upgrade WITH
    target     <- path # <<>>,
    registered <- path # <<>> /\ InPath \subseteq act,
    software   <- IF ~upgraded THEN "source" ELSE IF broken THEN "broken" ELSE "target",
    outcome    <- result
UpgradePromise == Abstract!Spec

\* "--query: Query available migration options and exit" (the manual page).
QueryOnlyAsks == Has("query") /\ ~missing => act = start.act

\* The directories "are backed up and restored if a zypper-migration rollback
\* happens" (the change log).
RollbackBringsFilesBack == result = "rolledBack" => repos = start.repos
===============================================================================
