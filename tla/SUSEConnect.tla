------------------------------ MODULE SUSEConnect ------------------------------
(***************************************************************************)
(* The main program of SUSEConnect: a command loads /etc/SUSEConnect,      *)
(* merges its options, checks that they and the file system allow it, does *)
(* its requests, and, if asked to or given a new URL, saves the            *)
(* configuration at the very end. A command is a list of steps; any may    *)
(* fail, and the process may die between two. Beside it run the uptime     *)
(* tracker, and the user with docker or an editor.                         *)
(***************************************************************************)
EXTENDS UptimeLog, RegistryAuth, Listings

CONSTANTS
    Urls, DefaultUrl,  \* the servers; the default one is SCC,
    SccUrls,           \* and others may send SCC's version header, too
    Commands,          \* the commands that are tried: their options
    Patterns,          \* and the searches
    Plans,             \* what may happen: [commands, files, runs, faults, hours, user, search]
    None,              \* no file, no credentials
    MaxLogins          \* bound on the systems that are announced

Login   == [n : 1..MaxLogins, url : Urls]
File    == [url : Urls, language : {"", "de"}, agree : BOOLEAN, tracking : BOOLEAN,
            noRefresh : BOOLEAN]
NewConfig == [url |-> DefaultUrl, language |-> "", agree |-> FALSE, tracking |-> FALSE,
              noRefresh |-> FALSE]
Command == [cmd : {"register", "deregister", "cleanup", "status", "keepalive", "list"},
            url : Urls \cup {"", "bad"}, language : {"", "de"}, agree : {"unset", "yes", "no"},
            product : Products \cup {""}, token : BOOLEAN, instanceData : BOOLEAN,
            write : BOOLEAN, json : BOOLEAN, labels : BOOLEAN,
            root : BOOLEAN, fs : {"rw", "ro", "transactional"}, suma : BOOLEAN]

ASSUME ServersAssumption == SccUrls \subseteq Urls /\ DefaultUrl \in SccUrls
ASSUME CommandsAssumption ==
    Commands \subseteq Command /\ Commands # {} /\ MaxLogins \in Nat /\ Patterns \subseteq Seq(STRING)
ASSUME ValuesAssumption ==
    /\ {NoLogin, Manual, None} \cap Login = {} /\ None \notin {NoLogin, Manual} \cup File
    /\ NoLogin # Manual /\ {Missing, Broken, Emptied} \cap Logins(Login) = {}
    /\ Emptied \notin {Missing, Broken}
ASSUME PlansAssumption ==
    \A p \in Plans : /\ p.commands \subseteq Commands /\ p.files \subseteq File \cup {None}
                     /\ {p.runs, p.faults, p.hours} \subseteq Nat /\ {p.user, p.search} \subseteq BOOLEAN

VARIABLES
    plan,       \* the bounds of this behaviour
    alive,      \* the servers: the systems they know,
    act,        \* the products each has activated,
    labelled,   \* those with labels,
    issued,     \* and the number of logins handed out
    file,       \* /etc/SUSEConnect
    creds,      \* the system credentials file
    installed,  \* the installed products
    cmd, cfg,   \* the command that runs or ran last, and its configuration
    server,     \* the type of server it takes it for
    todo,       \* its steps still to do
    exit,       \* "none", "running", or how it ended
    shown,      \* what it printed
    sent,       \* the hours its keepalive reported
    runs, faults, \* history: commands and faults so far
    admin,      \* the settings the administrator has put into the file at the start,
    unsaved,    \* a command that was given a URL did not end well,
    saved,      \* a command has written the configuration,
    torn,       \* a write of it was interrupted,
    leftover    \* and a docker login may have been left behind

servers == <<alive, act, labelled, issued>>
system  == <<creds, installed>>
process == <<cmd, cfg, server, exit, runs>>
output  == <<shown, sent>>
history == <<faults, admin, unsaved, saved, torn, leftover>>
vars    == <<plan, servers, file, system, process, todo, output, history, dockerVars, uptimeVars>>

-----------------------------------------------------------------------------
Do(op, x) == <<[op |-> op, on |-> x]>>
Just(op)  == Do(op, None)
Nothing   == [kind |-> "nothing"]

\* A missing or empty file gives the defaults.
Load == IF file = None THEN NewConfig ELSE file
LoadType(c) == IF c.url = DefaultUrl THEN "scc" ELSE "unknown"

\* The options on top of the file. --url also decides the type of the server.
Merge(c) ==
    [Load EXCEPT !.url = IF c.url = "" THEN @ ELSE c.url,
                 !.language = IF c.language = "" THEN @ ELSE c.language,
                 !.agree = CASE c.agree = "yes" -> TRUE [] c.agree = "no" -> FALSE
                             [] c.agree = "unset" -> @]
TypeOf(c) ==
    IF c.url = "" THEN LoadType(Load) ELSE IF c.url = DefaultUrl THEN "scc" ELSE "rmt"
SavesOnRequest(c) == c.write                                            \* mutant
Saves(c) == c.write \/ c.url # ""

ReadOnlyFilesystem(c) == c.fs = "ro" \/ (c.fs = "transactional" /\ ~c.root)

Registered == creds # None

\* Whether main gives up before it calls anything.
Refused(c) ==
    \/ c.url = "bad"
    \/ c.cmd \in {"deregister", "cleanup"} /\ ReadOnlyFilesystem(c)
    \/ c.cmd \in {"status", "cleanup"} /\ c.json
    \/ c.cmd = "keepalive" /\ ~c.suma /\ (c.json \/ ~Registered)
    \/ c.cmd \in {"deregister", "list"} /\ ~Registered
    \/ c.cmd = "deregister" /\ c.product = Base
    \/ c.cmd = "register" /\
        \/ c.instanceData /\ TypeOf(c) = "scc"
        \/ TypeOf(c) = "scc" /\ ~c.token /\ c.product = ""
        \/ c.suma \/ ReadOnlyFilesystem(c)

\* A de-registration of the whole system, after its extensions are gone.
LeaveCleansFirst ==                                                     \* mutant
    Just("delete") \o Just("clean") \o Just("readAuth") \o Just("removeAuth")
Leave == Just("readAuth") \o Just("removeAuth") \o Just("delete") \o Just("clean")
Save(c) == IF Saves(c) THEN Just("truncate") \o Just("write") ELSE <<>>
Steps(c) ==
    CASE c.cmd = "register"   -> Just("announce") \o Just("activate")
                                 \o (IF c.labels THEN Just("labels") ELSE <<>>) \o Save(c)
      [] c.cmd = "deregister" -> (IF c.product # "" THEN Do("deactivate", {c.product})
                                  ELSE Do("deactivate", Products \ {Base}) \o Leave)
                                 \o Save(c)
      [] c.cmd = "cleanup"    -> Just("clean") \o Save(c)
      [] c.cmd = "status"     -> Just("status") \o Save(c)
      [] c.cmd = "keepalive"  -> IF c.suma THEN <<>> ELSE Just("keepalive") \o Save(c)
      [] c.cmd = "list"       -> Just("list") \* os.Exit(0): never saves

Init ==
    /\ plan \in Plans /\ file \in plan.files /\ admin = Load
    /\ alive = {} /\ act = <<>> /\ labelled = {} /\ issued = 0
    /\ creds = None /\ installed = {Base}
    /\ cmd = (CHOOSE c \in Commands : TRUE) /\ cfg = Load /\ server = "unknown"
    /\ todo = <<>> /\ exit = "none" /\ shown = Nothing /\ sent = {}
    /\ runs = 0 /\ faults = 0 /\ unsaved = FALSE /\ saved = FALSE /\ torn = FALSE
    /\ leftover = FALSE
    /\ DockerInit /\ UptimeInit

Start(c) ==
    /\ exit # "running" /\ runs < plan.runs
    /\ runs' = runs + 1 /\ cmd' = c
    /\ IF Refused(c)
       THEN exit' = "failed" /\ todo' = <<>> /\ UNCHANGED <<cfg, server>>
       ELSE exit' = "running" /\ todo' = Steps(c) /\ cfg' = Merge(c) /\ server' = TypeOf(c)
    /\ shown' = Nothing /\ sent' = {} /\ seen' = Missing
    /\ UNCHANGED <<plan, servers, file, system, history, docker, entered, spilt, uptimeVars>>

At(op)      == todo # <<>> /\ Head(todo).op = op
On          == Head(todo).on
Then(steps) == todo' = steps \o Tail(todo) /\ UNCHANGED <<cmd, cfg, exit, runs>>
Same        == UNCHANGED server
\* Any answer tells the type of a server that is not known yet.
Answered ==
    server' = IF server # "unknown" THEN server ELSE IF cfg.url \in SccUrls THEN "scc" ELSE "rmt"

\* os.Exit with an error; the rest of the steps is not done, the save included.
EndLater(how) ==                                                        \* mutant
    /\ todo' = Tail(todo) /\ exit' = how
    /\ unsaved' = (unsaved \/ cmd.url # "")
    /\ UNCHANGED <<cmd, cfg, runs>>
End(how) ==
    /\ todo' = <<>> /\ exit' = how
    /\ unsaved' = (unsaved \/ cmd.url # "")
    /\ UNCHANGED <<cmd, cfg, runs>>
Noted == UNCHANGED <<faults, admin, unsaved, saved, torn, leftover>>
Faulty == faults < plan.faults /\ faults' = faults + 1
\* The server refuses the login of another server's system, or of one that is gone.
Valid == creds \in alive /\ creds.url = cfg.url
Refuse == End("failed") /\ Answered /\ UNCHANGED <<faults, admin, saved, torn, leftover>>

-----------------------------------------------------------------------------
announceOrUpdate ==
    /\ At("announce")
    /\ \/ Registered /\ Valid /\ Then(<<>>) /\ Answered /\ Noted /\ UNCHANGED servers
       \/ Registered /\ ~Valid /\ Refuse /\ UNCHANGED servers
       \/ /\ ~Registered /\ issued < MaxLogins
          /\ LET login == [n |-> issued + 1, url |-> cfg.url] IN
                /\ issued' = issued + 1 /\ alive' = alive \cup {login}
                /\ act' = [l \in alive \cup {login} |-> IF l = login THEN {} ELSE act[l]]
                /\ Then(Do("store", login))
          /\ Answered /\ Noted /\ UNCHANGED labelled
    /\ UNCHANGED <<plan, file, system, output, dockerVars, uptimeVars>>

CreateCredentials ==
    /\ At("store")
    /\ creds' = On
    /\ Then(IF server = "scc" THEN Just("readAuth") \o Do("setAuth", On) ELSE <<>>)
    /\ Same /\ Noted
    /\ UNCHANGED <<plan, servers, file, installed, output, dockerVars, uptimeVars>>

LoadFrom ==
    /\ At("readAuth")
    /\ ReadDocker
    /\ Then(<<>>) /\ Same /\ Noted
    /\ UNCHANGED <<plan, servers, file, system, output, uptimeVars>>

\* No home directory, or a file that cannot be opened: nothing happens. What a failing
\* write leaves is an empty or a broken file. Nobody is told of either.
GoesWrong == Faulty /\ leftover' = TRUE
SetAuth ==
    /\ At("setAuth")
    /\ \/ setupRegistryAuthentication(On) /\ Then(Just("writeAuth")) /\ UNCHANGED <<faults, leftover>>
       \/ GoesWrong /\ Then(<<>>) /\ UNCHANGED dockerVars
    /\ Same
    /\ UNCHANGED <<plan, servers, file, system, output, admin, unsaved, saved, torn, uptimeVars>>

RemoveAuth ==
    /\ At("removeAuth")
    /\ \/ /\ removeRegistryAuthentication(creds)
          /\ Then(IF Removes(creds) THEN Just("writeAuth") ELSE <<>>)
          /\ UNCHANGED <<faults, leftover>>
       \/ GoesWrong /\ Then(<<>>) /\ UNCHANGED dockerVars
    /\ Same
    /\ UNCHANGED <<plan, servers, file, system, output, admin, unsaved, saved, torn, uptimeVars>>

WriteAuth ==
    /\ At("writeAuth")
    /\ \/ WriteFile /\ UNCHANGED <<faults, leftover>>
       \/ GoesWrong /\ WriteFileFails
    /\ Then(<<>>) /\ Same
    /\ UNCHANGED <<plan, servers, file, system, output, admin, unsaved, saved, torn, uptimeVars>>

\* registerProduct for the product of the option, or the base product and its tree;
\* on an error some of it may be done.
Wanted == IF cmd.product # "" THEN {cmd.product} ELSE {Base} \cup ToSet(Extensions[Base])
RegisterProducts ==
    /\ At("activate")
    /\ \/ /\ Valid
          /\ act' = [act EXCEPT ![creds] = @ \cup Wanted] /\ installed' = installed \cup Wanted
          /\ Then(<<>>) /\ Noted
       \/ /\ Valid /\ Faulty
          /\ \E p \in Wanted : act' = [act EXCEPT ![creds] = @ \cup {p}]
          /\ End("failed") /\ UNCHANGED <<installed, admin, saved, torn, leftover>>
    /\ Answered
    /\ UNCHANGED <<plan, alive, labelled, issued, file, creds, output, dockerVars, uptimeVars>>

\* An error is only printed.
AssignAndCreateLabels ==
    /\ At("labels")
    /\ \/ server = "scc" /\ Valid /\ labelled' = labelled \cup {creds} /\ UNCHANGED faults
       \/ server = "scc" /\ Faulty /\ UNCHANGED labelled
       \/ server # "scc" /\ UNCHANGED <<labelled, faults>>
    /\ Then(<<>>) /\ Same
    /\ UNCHANGED <<plan, alive, act, issued, file, system, output, admin, unsaved, saved, torn,
                   leftover, dockerVars, uptimeVars>>

Deactivate ==
    /\ At("deactivate")
    /\ \/ /\ Valid
          /\ act' = [act EXCEPT ![creds] = @ \ On] /\ installed' = installed \ On
          /\ Then(<<>>) /\ Noted
       \/ /\ Valid /\ Faulty
          /\ \E p \in On : act' = [act EXCEPT ![creds] = @ \ {p}]
          /\ End("failed") /\ UNCHANGED <<installed, admin, saved, torn, leftover>>
       \/ ~Valid /\ Refuse /\ UNCHANGED <<act, installed>>
    /\ (Valid => Answered)
    /\ UNCHANGED <<plan, alive, labelled, issued, file, creds, output, dockerVars, uptimeVars>>

DeregisterSystem ==
    /\ At("delete")
    /\ alive' = alive \ {creds} /\ act' = [l \in alive' |-> act[l]]
    /\ labelled' = labelled \ {creds}
    /\ Then(<<>>) /\ Answered /\ Noted
    /\ UNCHANGED <<plan, issued, file, system, output, dockerVars, uptimeVars>>

\* Cleanup, the command, leaves the docker login behind.
Cleanup ==
    /\ At("clean")
    /\ creds' = None
    /\ leftover' = (leftover \/ cmd.cmd = "cleanup")
    /\ Then(<<>>) /\ Same
    /\ UNCHANGED <<plan, servers, file, installed, output, faults, admin, unsaved, saved, torn,
                   dockerVars, uptimeVars>>

\* The activations are only asked for if the system is registered.
Activations == IF Registered THEN act[creds] ELSE {}
GetProductStatuses ==
    /\ At("status")
    /\ IF Registered /\ ~Valid THEN Refuse /\ UNCHANGED shown
       ELSE /\ shown' = [kind |-> "status", rows |-> buildStatuses(installed, Activations)]
            /\ Then(<<>>) /\ Noted
            /\ IF Registered THEN Answered ELSE Same
    /\ UNCHANGED <<plan, servers, file, system, sent, dockerVars, uptimeVars>>

ListExtensions ==
    /\ At("list")
    /\ IF ~Valid THEN Refuse /\ UNCHANGED shown
       ELSE /\ shown' = [kind |-> "tree",
                         rows |-> RenderExtensionTree(act[creds], cmd.fs = "rw")]
            /\ Then(<<>>) /\ Answered /\ Noted
    /\ UNCHANGED <<plan, servers, file, system, sent, dockerVars, uptimeVars>>

SendKeepAlivePing ==
    /\ At("keepalive")
    /\ IF ~Valid THEN Refuse /\ UNCHANGED sent
       ELSE /\ sent' = IF cfg.tracking THEN Hours(log) ELSE {}
            /\ Then(<<>>) /\ Answered /\ Noted
    /\ UNCHANGED <<plan, servers, file, system, shown, dockerVars, uptimeVars>>

\* Not all that is read from the file is written to it.
toYAMLWithoutTracking == [cfg EXCEPT !.tracking = FALSE, !.noRefresh = FALSE] \* mutant
toYAML == [cfg EXCEPT !.noRefresh = FALSE]
SaveTruncates ==
    /\ At("truncate")
    /\ file' = NewConfig
    /\ Then(<<>>) /\ Same /\ Noted
    /\ UNCHANGED <<plan, servers, system, output, dockerVars, uptimeVars>>
SaveWrites ==
    /\ At("write")
    /\ file' = toYAML /\ saved' = TRUE /\ unsaved' = FALSE
    /\ Then(<<>>) /\ Same
    /\ UNCHANGED <<plan, servers, system, output, faults, admin, torn, leftover, dockerVars,
                   uptimeVars>>

-----------------------------------------------------------------------------
Finish ==
    /\ exit = "running" /\ todo = <<>>
    /\ exit' = "ok"
    /\ UNCHANGED <<plan, servers, file, system, cmd, cfg, server, runs, todo, output, history,
                   dockerVars, uptimeVars>>

\* A step fails before it has an effect. A failing write leaves an empty file.
Fail ==
    /\ todo # <<>> /\ Head(todo).op \notin {"readAuth", "setAuth", "removeAuth", "writeAuth", "labels"}
    /\ Faulty /\ End("failed") /\ Same
    /\ torn' = (torn \/ At("write"))
    /\ UNCHANGED <<plan, servers, file, system, output, admin, saved, leftover, dockerVars,
                   uptimeVars>>

Kill ==
    /\ exit = "running"
    /\ Faulty /\ End("killed") /\ Same
    /\ torn' = (torn \/ At("write")) /\ spilt' = (spilt \/ At("writeAuth"))
    /\ UNCHANGED <<plan, servers, file, system, output, admin, saved, leftover, docker, seen,
                   entered, uptimeVars>>

\* The tracker's steps, and what happens to it and to the whole machine.
Beside == UNCHANGED <<plan, servers, file, system, process, todo, output, dockerVars>>
Tracker   == now < plan.hours /\ TrackerStep /\ Beside /\ UNCHANGED history
TrackerEnds == now = plan.hours /\ tracker # "idle" /\ TrackerStep /\ Beside /\ UNCHANGED history
TimePasses == now < plan.hours /\ Tick /\ Beside /\ UNCHANGED history
KilledTracker ==
    /\ Faulty /\ KillTracker /\ Beside
    /\ UNCHANGED <<admin, unsaved, saved, torn, leftover>>
TrackerFails ==
    /\ Faulty /\ (OpenFails \/ WriteFails) /\ Beside
    /\ UNCHANGED <<admin, unsaved, saved, torn, leftover>>
PowerFails ==
    /\ exit # "running" /\ Faulty /\ LosePower /\ Beside
    /\ UNCHANGED <<admin, unsaved, saved, torn, leftover>>

UserWithDocker ==
    /\ plan.user /\ (UserLogsIn \/ (exit # "running" /\ docker # Broken /\ UserBreaksFile))
    /\ UNCHANGED <<plan, servers, file, system, process, todo, output, history, uptimeVars>>

\* zypper search-packages, which changes nothing.
SearchPackages ==
    /\ plan.search /\ exit # "running"
    /\ \E p \in Patterns, exact \in BOOLEAN, grouped \in BOOLEAN :
       \E unanswered \in SUBSET DOMAIN p, unread \in SUBSET Repos :
        LET rows == uniqueTable(searchInModules(p, exact, unanswered)
                                \o searchInRepos(p, exact, unread))
        IN  /\ Cardinality(unanswered) + Cardinality(unread) <= 1
            /\ shown' = [kind |-> IF grouped THEN "groups" ELSE "packages",
                         rows |-> IF grouped THEN groupByModule(rows) ELSE rows,
                         of |-> [patterns |-> p, exact |-> exact,
                                 unanswered |-> unanswered, unread |-> unread]]
    /\ UNCHANGED <<plan, servers, file, system, process, todo, sent, history, dockerVars,
                   uptimeVars>>

Step ==
    \/ announceOrUpdate \/ CreateCredentials \/ LoadFrom \/ SetAuth \/ RemoveAuth \/ WriteAuth
    \/ RegisterProducts \/ AssignAndCreateLabels \/ Deactivate \/ DeregisterSystem \/ Cleanup
    \/ GetProductStatuses \/ ListExtensions \/ SendKeepAlivePing
    \/ SaveTruncates \/ SaveWrites \/ Finish

Next ==
    \/ \E c \in plan.commands : Start(c)
    \/ Step \/ Fail \/ Kill
    \/ Tracker \/ TrackerEnds \/ TimePasses \/ KilledTracker \/ TrackerFails \/ PowerFails
    \/ UserWithDocker \/ SearchPackages

Spec == Init /\ [][Next]_vars

-----------------------------------------------------------------------------
\* Every variable keeps its type.
TypeOK ==
    /\ plan \in Plans /\ alive \subseteq Login /\ DOMAIN act = alive
    /\ \A l \in alive : act[l] \subseteq Products
    /\ labelled \subseteq alive /\ issued \in 0..MaxLogins
    /\ file \in File \cup {None} /\ creds \in Login \cup {None} /\ installed \subseteq Products
    /\ cmd \in Commands /\ cfg \in File /\ server \in {"scc", "rmt", "unknown"}
    /\ exit \in {"none", "running", "ok", "failed", "killed"} /\ (exit # "running" => todo = <<>>)
    /\ shown.kind \in {"nothing", "status", "tree", "packages", "groups"} /\ sent \subseteq Nat
    /\ runs \in 0..plan.runs /\ faults \in 0..plan.faults /\ admin \in File
    /\ {unsaved, saved, torn, leftover} \subseteq BOOLEAN
    /\ {docker, seen} \subseteq {Missing, Broken, Emptied} \cup Logins(Login)
    /\ entered \in Logins({}) /\ spilt \in BOOLEAN
    /\ UptimeTypeOK

\* A registered system and /etc/SUSEConnect agree about the server, so that a command
\* without --url is understood there; except after a command with --url that failed or
\* died before it saved, or a write that was interrupted (main, announceOrUpdate, Save).
ConfigMatchesServer ==
    exit # "running" /\ ~unsaved /\ ~torn /\ Registered => creds.url = Load.url

\* What the administrator has set and no option can change stays in the file through
\* any number of commands: the uptime tracking for good, no_zypper_refs until a command
\* saves; only an interrupted write loses them (Load, toYAML, Save).
SettingsSurvive ==
    ~torn /\ ~At("write") =>
        /\ Load.tracking = admin.tracking
        /\ ~saved => Load.noRefresh = admin.noRefresh

\* Every login the user ever made, for another registry or by hand for SUSE's, stays in
\* docker's file through all registrations and de-registrations, and SUSEConnect leaves
\* no empty file behind; except for a write that failed or was interrupted, and for a
\* login the user made between the reading and the writing (setup- and
\* removeRegistryAuthentication, SaveTo).
DockerLoginsKept ==
    ~spilt => IF At("writeAuth") THEN docker = Emptied /\ Keeps(seen)
              ELSE docker # Emptied /\ Keeps(docker)

\* A system login that docker holds is the one of the credentials file: what a
\* de-registration revokes is gone and a new registration has taken its place, unless
\* the credentials were removed by Cleanup alone or docker's file could not be written.
NoRevokedLogin ==
    exit # "running" /\ ~leftover /\ Readable(docker) =>
        docker.suse \in {NoLogin, Manual, creds}

\* A keepalive reports exactly the hours that were recorded and survived, of the days
\* that are kept, whatever happened to the tracker before; only one that reads the log
\* while the tracker is rewriting it reports less (makeSysInfoBody, writeUptimeLogsFile).
Pings == At("keepalive") /\ exit' = "running" /\ todo' # todo
PingReports == Pings /\ cfg.tracking =>
    IF tracker # "writes" THEN sent' = ran ELSE sent' \subseteq ran \cup {stamp}
ReportWhole == [][PingReports]_vars

\* The statuses have every installed product once, registered only if the server the
\* configuration names has it activated for this system; the tree has every extension
\* below its parent, and offers to deactivate exactly the activated ones
\* (buildStatuses, extensionTree, renderTextExtension).
ListingsTrue ==
    LET rows == shown.rows IN
    /\ shown.kind = "status" =>
        /\ IsInjective([i \in DOMAIN rows |-> rows[i].product])
        /\ {rows[i].product : i \in DOMAIN rows} = installed
        /\ \A i \in DOMAIN rows : rows[i].status = "Registered" =>
            creds \in alive /\ creds.url = cfg.url /\ rows[i].product \in act[creds]
    /\ shown.kind = "tree" => TreeIsTrue(rows, act[creds])

\* The table of a package search has each package in each of its modules and
\* repositories exactly once, and nothing else, whatever part of the sources could not
\* be read; grouped, each place is printed once (searchInModules, searchInRepos, main).
SearchTable ==
    LET rows == shown.rows
        found == FoundRows(shown.of.patterns, shown.of.exact, shown.of.unanswered, shown.of.unread)
    IN  /\ shown.kind = "packages" => IsInjective(rows) /\ ToSet(rows) = found
        /\ shown.kind = "groups" =>
            /\ Len(rows) = Cardinality(found)
            /\ {rows[i].name : i \in DOMAIN rows} = {f.name : f \in found}
            /\ {rows[i].place : i \in DOMAIN rows} \ {""} = {f.place : f \in found}
            /\ \A i, j \in DOMAIN rows : rows[i].place = rows[j].place => i = j \/ rows[i].place = ""
===============================================================================
