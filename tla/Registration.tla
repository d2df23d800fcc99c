------------------------------ MODULE Registration ------------------------------
(***************************************************************************)
(* Register, Deregister and Cleanup of SUSEConnect, product by product:    *)
(* the activations the server keeps, the zypper services and their         *)
(* credentials files, and the installed products. A command is a list of   *)
(* steps still to do; each step may fail, and the process may die between  *)
(* two of them, which leaves what was done so far.                         *)
(***************************************************************************)
EXTENDS Naturals, Sequences, FiniteSets, SequencesExt

CONSTANTS
    Products,          \* the products of the server's tree
    Base,              \* the base product
    Extensions,        \* product -> the sequence of its extensions
    Recommended,       \* the extensions the server marks as recommended,
    Available,         \* and as available
    Shared,            \* SMT_DUMMY_NOREMOVE_SERVICE
    Foreign,           \* services of other servers, set up by the user
    SendsTokens,       \* whether the server hands out system tokens
    MaxFaults          \* bound on the failing steps

Own      == Products \cup {Shared}   \* services of the server, one per product
Services == Own \cup Foreign

ASSUME TreeAssumption ==
    /\ Base \in Products
    /\ Extensions \in [Products -> Seq(Products)]
    /\ Recommended \subseteq Products /\ Available \subseteq Products
ASSUME ServicesAssumption == Shared \notin Products /\ Foreign \cap Own = {}
ASSUME BoundsAssumption == SendsTokens \in BOOLEAN /\ MaxFaults \in Nat

VARIABLES
    smt,         \* server: it has one service for all products,
    sameUrl,     \* and gives its services URLs with the address the user gave,
    alive,       \* server: the system the credentials file names exists,
    act,         \* its activated products,
    token,       \* and it has been given a system token, stored in the file
    registered,  \* the system credentials file exists
    services,    \* the services zypper knows
    svcCreds,    \* service -> whose login its credentials file holds
    svcToken,    \* the services whose credentials file has a system token
    installed,   \* the installed products
    cmd, skip,   \* the last command started and its SkipServiceInstall
    todo,        \* its steps still to do
    result,      \* how it ended
    faults,      \* history: failed steps so far
    blind        \* history: this command ignored that it could not list the
                 \* installed products, or read the system credentials

setup   == <<smt, sameUrl>>
server  == <<setup, alive, act>>
local   == <<registered, token, services, svcCreds, svcToken, installed>>
command == <<cmd, skip, result, faults, blind>>
vars    == <<server, local, command, todo>>

-----------------------------------------------------------------------------
Ops == {"announce", "activate", "deactivate", "upgrade", "deleteSystem", "tree",
        "dependencies", "removeservice", "removeServiceCreds", "addservice",
        "writeServiceCreds", "install", "uninstall", "removeCreds", "removeServices"}
Do(op, x)    == <<[op |-> op, on |-> x]>>
Children(p)  == {Extensions[p][i] : i \in DOMAIN Extensions[p]}
ServiceOf(p) == IF smt THEN Shared ELSE p

RemoveServiceOnly(s) == Do("removeservice", s)                          \* mutant
RemoveService(s) == Do("removeservice", s) \o Do("removeServiceCreds", s)

AddServiceOnce(s) ==                                                    \* mutant
    IF s \in services THEN <<>> ELSE Do("addservice", s) \o Do("writeServiceCreds", s)

\* AddService first drops the service, which the user may have changed.
AddService(s) == RemoveService(s) \o Do("addservice", s) \o Do("writeServiceCreds", s)

registerProduct(p, installReleasePkg, sk) ==
    Do("activate", p)
    \o (IF sk THEN <<>> ELSE AddService(ServiceOf(p)))
    \o (IF sk \/ ~installReleasePkg THEN <<>> ELSE Do("install", p))

RemoveAnyService(s) == RemoveService(s)                                 \* mutant

\* The one service of an SMT server stays, and is refreshed.
removeOrRefreshService(s) == IF s = Shared THEN <<>> ELSE RemoveService(s)

deregisterProduct(p, sk) ==
    Do("deactivate", p)
    \o (IF sk THEN <<>> ELSE removeOrRefreshService(ServiceOf(p)) \o Do("uninstall", p))

\* What the walk over the tree does at p; "tree" is where it descends.
Wanted(p) == p \in Recommended /\ p \in Available
registerChildren(p) ==                                                  \* mutant
    LET wanted == SelectSeq(Extensions[p], Wanted)
    IN  FlattenSeq([i \in DOMAIN wanted |-> registerProduct(wanted[i], TRUE, skip)])
registerProductTree(p) ==
    LET visit(e) == registerProduct(e, TRUE, skip) \o Do("tree", e)
        below    == Extensions[p]
    IN  FlattenSeq([i \in DOMAIN below |->
            IF Wanted(below[i]) THEN visit(below[i]) ELSE <<>>])

\* All products below p, each before its own extensions; n bounds the depth.
ExtensionsLists[n \in Nat] ==
    [p \in Products |->
        IF n = 0 THEN <<>>
        ELSE FlattenSeq([i \in DOMAIN Extensions[p] |->
                 <<Extensions[p][i]>> \o ExtensionsLists[n - 1][Extensions[p][i]]])]
toExtensionsList(p) == ExtensionsLists[Cardinality(Products)][p]
ASSUME BelowBaseAssumption ==
    IsFiniteSet(Products) /\ ToSet(toExtensionsList(Base)) = Products \ {Base}
\* The walks of the code end: no product is below itself.
ASSUME NoCyclesAssumption ==
    \E depth \in [Products -> 0..Cardinality(Products)] :
        \A p \in Products : \A e \in Children(p) : depth[e] < depth[p]

deregisterParentsFirst(known) ==                                        \* mutant
    LET deps == SelectSeq(toExtensionsList(Base), LAMBDA e : e \in known)
    IN  FlattenSeq([i \in DOMAIN deps |-> deregisterProduct(deps[i], skip)])

\* Deregister takes the known ones in reverse: extensions before their parent.
deregisterDependencies(known) ==
    LET deps == Reverse(toExtensionsList(Base))
    IN  FlattenSeq([i \in DOMAIN deps |->
            IF deps[i] \in known THEN deregisterProduct(deps[i], skip) ELSE <<>>])

-----------------------------------------------------------------------------
Init ==
    /\ smt \in BOOLEAN /\ sameUrl \in BOOLEAN /\ alive = FALSE /\ act = {} /\ token = FALSE
    /\ registered = FALSE
    /\ services = Foreign /\ svcCreds = [s \in Services |-> "none"] /\ svcToken = {}
    /\ installed = {Base}
    /\ cmd = "cleanup" /\ skip = FALSE /\ todo = <<>> /\ result = "ok"
    /\ faults = 0 /\ blind = FALSE

Commands == {"register", "registerProduct", "deregister", "deregisterProduct", "cleanup"}
CleanupFileOnly == Do("removeCreds", Base)                              \* mutant
Cleanup  == Do("removeCreds", Base) \o Do("removeServices", Base)

\* The steps a command begins with.
Begin(c, p, sk) ==
    CASE c = "register"          -> Do("announce", Base) \o registerProduct(Base, FALSE, sk)
                                    \o Do("tree", Base)
      [] c = "registerProduct"   -> Do("announce", p) \o registerProduct(p, TRUE, sk)
      [] c = "deregister"        -> Do("upgrade", Base) \o Do("dependencies", Base)
                                    \o Do("deleteSystem", Base)
                                    \o (IF sk THEN <<>>
                                        ELSE removeOrRefreshService(ServiceOf(Base)))
                                    \o Cleanup
      [] c = "deregisterProduct" -> deregisterProduct(p, sk)
      [] c = "cleanup"           -> Cleanup

\* ErrSystemNotRegistered and ErrBaseProductDeactivation.
Denied(c, p) ==
    \/ c \in {"deregister", "deregisterProduct"} /\ ~registered
    \/ c = "deregisterProduct" /\ p = Base

Start(c, p, sk) ==
    /\ result # "running"
    /\ c \in {"registerProduct", "deregisterProduct"} \/ p = Base
    /\ cmd' = c /\ skip' = sk /\ blind' = FALSE
    /\ IF Denied(c, p) THEN todo' = <<>> /\ result' = "failed"
                       ELSE todo' = Begin(c, p, sk) /\ result' = "running"
    /\ UNCHANGED <<server, local, faults>>

\* A step done well, which is followed by steps; and one that ends the command.
At(op)      == todo # <<>> /\ Head(todo).op = op
On          == Head(todo).on
Then(steps) == todo' = steps \o Tail(todo) /\ UNCHANGED command
FailButGoOn == result' = "failed" /\ UNCHANGED <<cmd, skip, blind, todo>>  \* mutant
Fail        == todo' = <<>> /\ result' = "failed" /\ UNCHANGED <<cmd, skip, blind>>
Faulty      == faults < MaxFaults /\ faults' = faults + 1 /\ Fail

GoOnBlind   == /\ faults < MaxFaults /\ faults' = faults + 1 /\ blind' = TRUE
               /\ todo' = Tail(todo)
               /\ UNCHANGED <<cmd, skip, result>>

\* Any step may fail before it has an effect, and the process may die.
Abort == todo # <<>> /\ Faulty /\ UNCHANGED <<server, local>>

Finish ==
    /\ result = "running" /\ todo = <<>>
    /\ result' = "ok"
    /\ UNCHANGED <<server, local, todo, cmd, skip, faults, blind>>

-----------------------------------------------------------------------------
(* Calls to the server. It answers a call that authenticates with a system  *)
(* it knows and that keeps the activations a tree: an extension needs its   *)
(* parent, and stays while it has activated extensions of its own.          *)
HasParent(p) == p = Base \/ \E q \in act : p \in Children(q)
HasChild(p)  == Children(p) \cap act # {}

\* An answer may bring a system token; or it is lost after the server acted.
Answered ==
    \/ Then(<<>>) /\ token' \in (IF SendsTokens THEN {token, TRUE} ELSE {token})
    \/ Faulty /\ UNCHANGED token

announceOrUpdate ==
    /\ At("announce")
    /\ \/ /\ registered /\ alive
          /\ Answered
          /\ UNCHANGED <<registered, server, svcCreds>>
       \/ /\ ~registered
          /\ registered' = TRUE /\ alive' = TRUE /\ act' = {} /\ token' = FALSE
          /\ svcCreds' = [s \in Services |-> IF svcCreds[s] = "current" THEN "stale"
                                             ELSE svcCreds[s]]
          /\ Then(<<>>) /\ UNCHANGED setup
    /\ UNCHANGED <<services, svcToken, installed>>

activateProduct ==
    /\ At("activate") /\ alive /\ HasParent(On)
    /\ act' = act \cup {On}
    /\ Answered
    /\ UNCHANGED <<setup, alive, registered, services, svcCreds, svcToken, installed>>

deactivateProduct ==
    /\ At("deactivate") /\ alive /\ ~HasChild(On)
    /\ act' = act \ {On}
    /\ Answered
    /\ UNCHANGED <<setup, alive, registered, services, svcCreds, svcToken, installed>>

upgradeProduct ==
    /\ At("upgrade") /\ alive
    /\ act' = act \cup {Base}
    /\ Answered
    /\ UNCHANGED <<setup, alive, registered, services, svcCreds, svcToken, installed>>

deregisterSystem ==
    /\ At("deleteSystem") /\ alive
    /\ alive' = FALSE /\ act' = {}
    /\ Answered
    /\ UNCHANGED <<setup, registered, services, svcCreds, svcToken, installed>>

\* An error answer ends the command. What the server says to the deactivation or
\* the upgrade of a product that is not activated is its own choice.
LockedOut == registered /\ ~alive
Refused ==
    /\ \/ LockedOut /\ \E op \in {"announce", "activate", "deactivate", "upgrade",
                                   "deleteSystem"} : At(op)
       \/ At("activate") /\ ~HasParent(On)
       \/ At("deactivate") /\ (HasChild(On) \/ On \notin act)
       \/ At("upgrade") /\ Base \notin act
    /\ Fail
    /\ UNCHANGED <<server, local, faults>>

-----------------------------------------------------------------------------
showTree ==
    /\ At("tree")
    /\ Then(registerProductTree(On))
    /\ UNCHANGED <<server, local>>

\* The error of InstalledProducts is ignored, and nothing counts as installed.
listDependencies ==
    /\ At("dependencies")
    /\ \/ Then(deregisterDependencies(installed))
       \/ GoOnBlind
    /\ UNCHANGED <<server, local>>

zypperRemoveService ==
    /\ At("removeservice")
    /\ services' = services \ {On}
    /\ Then(<<>>)
    /\ UNCHANGED <<server, registered, token, svcCreds, svcToken, installed>>

removeServiceCreds ==
    /\ At("removeServiceCreds")
    /\ svcCreds' = [svcCreds EXCEPT ![On] = "none"] /\ svcToken' = svcToken \ {On}
    /\ Then(<<>>)
    /\ UNCHANGED <<server, registered, token, services, installed>>

zypperAddService ==
    /\ At("addservice")
    /\ services' = services \cup {On}
    /\ Then(<<>>)
    /\ UNCHANGED <<server, registered, token, svcCreds, svcToken, installed>>

\* A copy of the system credentials, system token included. That they cannot be read
\* is ignored: the copy is blank then, and only the refresh that follows may fail.
writeServiceCreds ==
    /\ At("writeServiceCreds")
    /\ \/ /\ svcCreds' = [svcCreds EXCEPT ![On] = "current"]
          /\ svcToken' = IF token THEN svcToken \cup {On} ELSE svcToken \ {On}
          /\ Then(<<>>)
       \/ /\ svcCreds' = [svcCreds EXCEPT ![On] = "blank"]
          /\ svcToken' = svcToken \ {On}
          /\ GoOnBlind \/ Faulty
    /\ UNCHANGED <<server, registered, token, services, installed>>

InstallReleasePackage ==
    /\ At("install")
    /\ installed' = installed \cup {On}
    /\ Then(<<>>)
    /\ UNCHANGED <<server, registered, token, services, svcCreds, svcToken>>

RemoveReleasePackage ==
    /\ At("uninstall")
    /\ installed' = installed \ {On}
    /\ Then(<<>>)
    /\ UNCHANGED <<server, registered, token, services, svcCreds, svcToken>>

removeSystemCreds ==
    /\ At("removeCreds")
    /\ registered' = FALSE /\ token' = FALSE
    /\ Then(<<>>)
    /\ UNCHANGED <<server, services, svcCreds, svcToken, installed>>

\* The loop of Cleanup over the services whose URL contains the address the user
\* gave; it passes by those of a server that names itself otherwise.
Recognised == IF sameUrl THEN services \cap Own ELSE {}
removeOwnServices ==
    /\ At("removeServices")
    /\ \/ \E s \in Recognised : todo' = RemoveService(s) \o todo
       \/ Recognised = {} /\ todo' = Tail(todo)
    /\ UNCHANGED <<server, local, command>>

-----------------------------------------------------------------------------
Step ==
    \/ announceOrUpdate \/ activateProduct \/ deactivateProduct \/ upgradeProduct
    \/ deregisterSystem \/ Refused
    \/ showTree \/ listDependencies
    \/ zypperRemoveService \/ removeServiceCreds \/ zypperAddService \/ writeServiceCreds
    \/ InstallReleasePackage \/ RemoveReleasePackage
    \/ removeSystemCreds \/ removeOwnServices
    \/ Finish

Next ==
    \/ Step \/ Abort
    \/ \E c \in Commands, p \in Products, sk \in BOOLEAN : Start(c, p, sk)

Spec == Init /\ [][Next]_vars

\* A command runs to its end; a user who retries starts register again, and
\* follows the advice of exitOnError to run --cleanup when locked out.
Register      == Start("register", Base, FALSE)
AdvisedUnlock == LockedOut /\ \E sk \in BOOLEAN : Start("cleanup", Base, sk)
FairSpec == Spec /\ WF_vars(Step) /\ SF_vars(Register) /\ SF_vars(AdvisedUnlock)

-----------------------------------------------------------------------------
\* Every variable keeps its type.
TypeOK ==
    /\ smt \in BOOLEAN /\ sameUrl \in BOOLEAN /\ alive \in BOOLEAN /\ act \subseteq Products
    /\ registered \in BOOLEAN /\ token \in BOOLEAN
    /\ services \subseteq Services /\ svcToken \subseteq Services
    /\ svcCreds \in [Services -> {"none", "current", "stale", "blank"}]
    /\ installed \subseteq Products
    /\ cmd \in Commands /\ skip \in BOOLEAN /\ result \in {"ok", "failed", "running"}
    /\ faults \in 0..MaxFaults /\ blind \in BOOLEAN
    /\ todo \in Seq([op : Ops, on : Products \cup Services])
    /\ (result # "running" => todo = <<>>)

\* The least set with the base product and the wanted extensions of its members.
WantedProducts ==
    {p \in Products : \A X \in SUBSET Products :
        Base \in X /\ (\A q \in X : \A e \in Children(q) : Wanted(e) => e \in X) => p \in X}

\* A product is ready when zypper can use its service: one of these credentials.
Ready(p, usable) ==
    /\ p \in act /\ p \in installed
    /\ ServiceOf(p) \in services /\ svcCreds[ServiceOf(p)] \in usable

RegisteredWith(usable) == registered /\ alive /\ \A p \in WantedProducts : Ready(p, usable)
FullyRegistered        == RegisteredWith({"current"})

\* A register that reports success leaves every recommended product of the tree
\* activated, installed and with a service that has the current credentials,
\* whatever earlier, failed or skipping commands left behind (Register). Blank ones
\* are only there when this command itself could not read the system credentials.
RegisterComplete ==
    result = "ok" /\ cmd = "register" /\ ~skip =>
        RegisteredWith(IF blind THEN {"current", "blank"} ELSE {"current"})

\* A deregister that reports success leaves no system and no other server's service
\* touched. The server's services are gone if their URLs have the address the user
\* gave, and so are, unless it was told to skip or could not list them, the extensions.
DeregisterClean ==
    result = "ok" /\ cmd = "deregister" =>
        /\ ~registered /\ ~alive /\ Foreign \subseteq services
        /\ sameUrl => services = Foreign
        /\ ~skip /\ ~blind => installed = {Base}

\* As long as no step failed, a command ends with credentials that name a living
\* system and with a credentials file for each service of the server and no other.
\* If Cleanup recognises the services by their URLs, then their files hold the current
\* login and no service outlives the registration (Cleanup).
CleanStop ==
    faults = 0 /\ result # "running" =>
        /\ ~LockedOut
        /\ \A s \in Own : svcCreds[s] = "none" <=> s \notin services
        /\ sameUrl => /\ \A s \in services \cap Own : svcCreds[s] = "current"
                      /\ services \subseteq Foreign \/ registered

\* Deregister deactivates extensions before their parent, and register activates
\* the parent first: the server never has to refuse one of their calls for an
\* activated and installed extension, or for a missing parent.
OutOfOrder ==
    /\ Refused /\ alive /\ cmd \in {"register", "deregister"}
    /\ \/ At("activate")
       \/ At("deactivate") /\ Children(On) \cap act \cap installed # {}
NeverOutOfOrder == [][~OutOfOrder]_vars

\* Deregistering a product, or the system, never takes away the service of a
\* product that stays activated, the service an SMT server shares included.
LosesServiceInUse ==
    /\ cmd \in {"deregister", "deregisterProduct"}
    /\ \E p \in act' : ServiceOf(p) \in services \ services'
NoServiceLostInUse == [][~LosesServiceInUse]_vars

\* A user who keeps retrying register, and cleans up when the server no longer
\* knows the system, ends up fully registered, wherever earlier attempts stopped.
Retries ==
    cmd' # cmd \/ result' = "running" =>
        \/ cmd' = "register" /\ ~skip'
        \/ cmd' = "cleanup" /\ LockedOut
RetryConverges == <>[][Retries]_vars => []<>FullyRegistered

\* "Don't write system_token to service credentials files" (the change log).
ServiceFilesHaveNoToken == svcToken = {}
===============================================================================
