# A verification of connect-ng

connect-ng registers SUSE systems with a registration server: the SUSE Customer
Center (SCC), or an RMT or SMT proxy of it. This directory holds TLA+ models of
the parts of it that change shared state in several steps, the TLC configurations
that check them on small instances, and TLAPS proofs of what matters most for every
instance. Paths below are relative to the repository; `client.go`, `connection.go`
and so on without a directory are those of `internal/connect`.

## The system

### Components

| Component | State it keeps | Operations | Where it gets hard |
|---|---|---|---|
| System credentials file (`internal/credentials`) | `/etc/zypp/credentials.d/SCCcredentials`: login, password, system token | read, create, rewrite with a new token, remove | no lock; a rewrite truncates first; two processes share it |
| HTTP connection (`connection.go`, `api.go`) | one HTTP client per process | one call: authenticate, send, store the System-Token header, look at the status | lost answers, a token that rotates, two reads of the file per call |
| Commands (`client.go`, `system.go`, `cmd/suseconnect`) | none of their own | register, deregister, cleanup, status, list-extensions, keepalive | a failure after any of a dozen side effects |
| zypper (`internal/zypper`) | services, their credentials files, installed release packages | AddService, RemoveService, install, remove, list | partial failure, ignored errors, stale copies of the credentials |
| Product tree (`product.go`, `extensions.go`) | the tree one answer brings | walks, listing | the order of activation and deactivation |
| Rollback (`migration.go`) | activations and services, as above | downgrade and synchronise product by product | failure in the middle |
| zypper migration (`cmd/zypper-migration`) | snapshots, a backup of `/etc/zypp`, services, activations | self update, select a target, migrate, restore, roll back | interrupts at any point, failing rollbacks |
| Client library (`pkg/connection`, `pkg/registration`, `pkg/labels`) | a Credentials object of the caller | Do, Register, Deregister, Status, Activate, Deactivate, queries | lost and cut answers, gateways, object and server drifting apart |
| Configuration (`config.go`) | `/etc/SUSEConnect` | load, override, merge, save | options that do not survive a round trip |
| Container registry authentication (`registry_auth.go`) | docker and podman configuration files | set, remove | files that other programs own |
| Uptime tracker (`cmd/suse-uptime-tracker`) | `/etc/zypp/suse-uptime.log` | read, purge, update, write | crash while writing, dates and hours at their limits |

The rest has no state that steps: status and extension listing, labels, the package
search plugin (all three modelled as what the commands print or call), the C and Ruby
bindings, the collectors, the EULA dialog, the certificate pool and the demonstration
programs. `PROJECT.json` lists every component with its status.

### How they interact

A command of SUSEConnect is a sequence of calls to the server, zypper runs and file
writes. Every call goes through `callHTTP`, which reads the credentials file twice
(login and password, then the token) and rewrites it when the answer names a token.
`register` announces the system when the file cannot be read, activates the base
product, adds its zypper service, and walks the tree of recommended extensions;
each AddService copies the system credentials into a file of the service.
`de-register` walks the installed extensions backwards, deletes the system on the
server and then cleans up the services and the file. A systemd timer starts
`--keepalive` once a day, beside whatever the user runs: the file is the only thing
these processes share, and nothing locks it. Rollback and the migration drive the
same server calls and the same zypper services. The main program loads
`/etc/SUSEConnect`, merges its options, and writes the file back at the very end, if at
all; in between it also edits the docker configuration of the user. The uptime tracker
is started by a timer of its own, and the keepalive sends what it finds in its log.

### What makes each component correct

- Credentials file: it names at most one system, one the server knows; the token in
  it belongs to the login beside it; a reader never loses an identity for good
  because of a writer; the server sees the token it handed out last.
- Commands and zypper: success means everything is in place (register) or everything
  is gone (deregister); a command that stops leaves a state from which a retry
  succeeds; services and their credentials files agree; extensions and parents are
  handled in an order the server accepts; a service in use is not taken away.
- Client library: the Credentials object and the server agree on the system; a login
  is forgotten only when its system is gone; Status says what is the case.
- Migration and rollback: afterwards the activations, the services and the installed
  products describe one product set, the old or the new one.
- Configuration and registry files: what the user set survives what the program writes.
- Uptime log: it has one mark per hour of the days that are kept, and survives a kill.
- Listings: a row for each thing there is, none twice, and what a row says is so.

`PROJECT.json` lists the concrete hazards, each at its line, with the properties
that cover it or a note saying why none does.

## Modules

| Module | What it is |
|---|---|
| `Enrollment` | abstract specification: what the credentials file promises |
| `SystemCredentials` | the credentials file, the calls that read and write it, several processes |
| `Registration` | register, deregister and cleanup, product by product |
| `ApiConnection` | the public client library and its Credentials object |
| `Upgrade` | abstract specification: what a migration promises |
| `Migration` | `zypper migration` and `SUSEConnect --rollback` |
| `UptimeLog` | the uptime tracker and its log |
| `RegistryAuth` | the docker configuration that register and deregister edit |
| `Listings` | what is printed: statuses, the extension tree, found packages (operators only) |
| `SUSEConnect` | the main program and its configuration file, composed with the three above |
| `MCSystemCredentials`, `MCRegistration`, `MCApiConnection`, `MCMigration`, `MCSUSEConnect` | instances for TLC |
| `SystemCredentialsProofs`, `EnrollmentProofs` | theorems about `SystemCredentials`: its types, who holds the file, whose login and token it has; one process and `Enrollment` |
| `RegistrationProofs` | theorems about `Registration` |
| `ApiConnectionProofs` | theorems about `ApiConnection` |
| `MigrationProofs` | theorems about `Migration`, the refinement of `Upgrade` included |
| `SUSEConnectProofs` | theorems about `SUSEConnect` and the modules it is composed of |
| `ListingsProofs` | theorems about what `SUSEConnect` prints and the operators of `Listings` that compute it |
| `SeqLemmas` | facts about sequences the proofs share: elements of joined and flattened sequences and how many they are, induction up to a number, functions by recursion, the order of steps in a sequence |

### SystemCredentials

`file` is the credentials file: `Missing`, `Truncated` (open with O_TRUNC, not yet
written) or a login with a token. `issued`, `live` and `rot` are the server's
systems and how often it rotated each token; a token is a login and a rotation
number. `run[p]` is the command a process executes and its place in it. `flagged`
and `past` are history variables: the server has seen an outdated token of a living
system; an answer was lost after the server acted, a process crashed, Cleanup
abandoned a living system, or an identity was taken or given up beside another
running process.

| Action | Code |
|---|---|
| `Start` | a command starts (`cmd/suseconnect/suseconnect.go` main), the timer included |
| `IsRegistered` | the read that decides between announcing, going on and giving up |
| `AddAuthHeader`, `AddHeaders` | the two reads of `callHTTP`, separate steps |
| `ServeAnnounce`, `ServeSystem`, `Refuse` | the server handles the call, with or without a new token, and answers (external) |
| `Lose` | the client timeout or a broken connection, before or after the server acted |
| `HandleSystemToken` | re-reads the file and decides whether to store the answer's token |
| `OpenTruncate`, `WriteFile` | the two halves of `os.WriteFile`; `fd` records that the opened file is still the linked one, `Overlay` what two overlapping writers leave |
| `Continue` | what follows a finished call: create the credentials, next call, clean up, end |
| `RemoveFile` | Cleanup's removal of the file |
| `Crash` | the process dies at any point |

The product calls of register and deregister are counted, not named: `Registration`
is about them.

### Registration

A command is a list of steps, `todo`; the operators `registerProduct`,
`deregisterProduct`, `registerProductTree`, `deregisterDependencies` and `Begin` give
the steps in the order the functions of those names perform them, and one action per
step performs it. `showTree` and `listDependencies` append the steps of the walks when
the walk gets there. `Abort` is any step failing before it has an effect, or the
death of the process; a call can also fail after the server acted (`Answered`), and
the server refuses calls out of order or from a system it does not know (`Refused`).
`smt`, chosen initially, is whether the server has one service for all products, and `sameUrl`
whether the URLs of its services contain the address the user gave: Cleanup recognises them
by that, and the NOTE in `system.go:26` says it may not work with SMT. Two errors are ignored as
in the code, that of listing the installed products (`client.go:210`) and that of reading
the system credentials for a service (`zypper.go:206`), whose copy is blank then (`svcCreds`);
`blind` remembers either.

### ApiConnection

`login` and `token` are the caller's Credentials object, `call` the function under
way, `verdict` what the last one returned. `Request` builds a request and reads the
object; `UpdateToken` is the rest of `Do`: the token of the answer is stored, blank or
not, before the status is looked at; `Register`, `Deregister`, `Status` and `Query` are
what the functions do after `Do`. `Query` stands for all the functions that leave the
login alone. The faults: an answer lost, or cut after its headers; an error of a gateway
whose body is not JSON, which `ErrorFromResponse` takes for no error; a Credentials
object that fails; extra data of the caller that cannot be merged into the request; a
crash. A verdict of Status is the pair it returns: "Registered" and "Unregistered" are that
status without an error, "Unknown" is that status with one, and "Registered, error" is the 0 that
unusable extra data returns, which is the value of Registered. The library has no locks and promises nothing about
concurrent use, so there is one caller.

### Migration and Upgrade

As in `Registration` a command is a list of steps, `todo`, and one action per step;
`phase` says how far it is and with it where an error leads: out of the program, or,
while the migration is applied, to `Undo` (restore, then roll back). The server's part is
`act`; the system's is what zypper lists (`listed`, from `/etc/products.d`), the installed
release packages, the services and the enabled repositories. `listed` and `packages` are
separate because Restore brings the former back and not the latter.

| Action | Code (`cmd/zypper-migration/migration.go`, unless said otherwise) |
|---|---|
| `PatchCheck`, `Patch`, `PatchRecheck` | the self update; the restart drops the environment (`environ`) |
| `checkSystemProducts`, `InstallReleasePackage`, `releasePackagesChecked`, `rereadProducts` | checkSystemProducts with its rollback |
| `selectMigration` | the offers, filtered and sorted, and the choice, by option or by the user |
| `CreatePreSnapshot`, `Backup` | `snapper.go`, `internal/zypper/backup.go`; failures are ignored, and leave the earlier archive or a part of the new one |
| `checkInterrupted`, `Signal` | the flag the signal goroutine sets, and where it is read |
| `UpgradeProduct`, `MigrationRemoveService`, `cleanupProductRepos`, `MigrationAddService`, `dropUnmigrated` | migrateSystem |
| `upgradePackages` | DistUpgrade, its exit codes, and the decision to go on, undo or give up |
| `Restore` | `internal/zypper/zypper-restore.tmpl`: remove the directories, unpack the archive |
| `RollbackBase`, `RollbackExtension`, `ReaddService`, `syncProducts`, `SetReleaseVersion` | `internal/connect/migration.go` |
| `Fail`, `Kill`, `BootSnapshot`, `Publish` | a step fails, the process dies, the user boots the snapshot, new patches appear |

`Upgrade` knows of a migration only whether a target has been chosen, whether the server
has the target registered, what state the packages are in, and how it ended. It promises that
the packages are upgraded once, on a system the server has registered for the target; that a
migration that reports success has it registered; and that nothing is touched any more, and no
rollback reported, once an upgrade stopped half way. `Migration` implements it
(`UpgradePromise`).

### SUSEConnect, UptimeLog, RegistryAuth and Listings

`SUSEConnect` is about main: which commands are refused and why (`Refused`), what the
options change (`Merge`, `TypeOf`), the steps of each command (`Steps`), and the end, where the
configuration is saved by truncating and writing it. What Registration models product by
product is one step here. `alive`, `act` and `labelled` are the servers' state, one login
belonging to one server. The type of the server is guessed: SCC for the default URL, else
unknown until an answer arrives, RMT for any other `--url`. The docker login is only written if the
type is SCC. `list-extensions`, and a keepalive on a system that SUSE Manager manages, exit before the
configuration is saved.

`RegistryAuth` keeps what one read of the docker file returned (`seen`) apart from the file,
and its write is the two halves of `os.WriteFile`, opening the file, which empties it
(`Emptied`), and writing it (the step `WriteAuth`). So `docker login` can come between any of the
three, the command can be killed there, and a failing write leaves the file empty or broken, of which nobody is
told. Docker puts a new file in the place of the old one, so that a write to the opened one is then lost. A
file that does not parse is written anew. `UptimeLog` has a run of the tracker in four kinds
of steps: compute, truncate, write a line, end. It can be killed between any two, leaving whole
lines; its open and its writes can fail, which ends the run (`OpenFails`, `WriteFails`); a power failure, or a
write that a full disk cuts short, leaves a part of a line. A line cut before its colon makes every
later run fail, one cut in its bits makes the runs of that day panic. `Listings` computes rows; the layout of a row is left out.

History variables say what an exception is about: `unsaved` (a command with `--url` did not get
to its end), `torn` (a write of the configuration was interrupted), `leftover` (a docker login
stayed behind because of `--cleanup`, or of a file that could not be read or written), `spilt` (a write of
docker's file failed, was interrupted, or missed what the user had put there since it was read),
`cut` (the write of a line of the uptime log was cut short). `entered` has the logins the
user made, which must all be in the file. The administrator's settings are those of the
initial configuration (`admin`); nobody edits the file by hand while a command runs.

## Runs

| Run | Question | Result |
|---|---|---|
| `credentials_pair` | a user's commands and the timer, every interleaving, with lost answers and crashes | holds |
| `credentials_solo` | one process: does it implement `Enrollment`, is the token never outdated, does every command end | holds |
| `credentials_race` | is a system announced once, also when two processes overlap | violated, see below |
| `registration` | success means complete, deregistration is clean, the order is right, services in use stay | holds |
| `registration_retry` | does retrying register get there, wherever it stopped | holds |
| `api_connection` | what the Credentials object keeps and what the functions report | holds |
| `api_status` | does Unregistered mean what its comment says | violated, see below |
| `service_token` | do service credentials files stay without a token | violated, see below |
| `migration` | what success, failure and rollback leave behind; does it implement `Upgrade` | holds |
| `migration_query` | does `--query` only query | violated, see below |
| `migration_restore` | does a rollback bring the backed-up files back | violated, see below |
| `suseconnect` | does the configuration fit the server, is anything of the user's lost, is what is printed and reported so | holds |

Every property that holds has a mutant of the code, listed in `PROJECT.json`, that violates it
under the same configuration.

### Bounds

- Two processes: the file is shared by pairs (a reader and a writer, two writers) and
  every property is about one file and one login. The timer process runs keepalive
  only; the user's runs all four commands.
- Two logins: enough for a second announcement and for mixing two identities. When
  they are used up an announcement is refused. `MaxRot` = 2: an outdated token, and a token
  two rotations old. `MaxCalls` bounds the product calls of one command (1 beside the
  timer, 2 alone); each call is the same steps.
- Commands are not bounded: processes restart for ever, so that sequences of any
  number of commands are covered. The two-process run counts logins up to
  symmetry; runs with a temporal property use no symmetry.
- Five products: a base, a module, two extensions of it, one recommended and one not,
  and an unavailable one below; depth 3 exercises the order of the walks. The retry run
  leaves the last one out and puts an extension that is not recommended under the base.
  One fault (`MaxFaults` = 1) for any history of commands after it; a fault after a
  recovery meets a state a first fault can meet as well.
- `ApiConnection`: two logins, two rotations, every fault any number of times.

- `Migration`: a SLES with an SDK, a product that is dropped by the target and one whose version
  is the same in both, or a Leap that becomes a SLES; three migrations, one of them with a product
  the server does not mirror, their lists not in the order the products must be upgraded in. Two runs
  (`MaxRuns`), so that the second meets whatever the first left, one failure or kill anywhere in
  them (`MaxFaults`), a signal at any step on top, and one patch published during the self
  update. Four combinations of options, with and without prompts (`--disable-repos`
  acts as `--non-interactive` does there and is left to it); `--query` with `--non-interactive` has its own run, since it is a finding.
  `migration_restore` has no failures: a signal suffices.
- `SUSEConnect`: three servers, the default one, one that calls itself SCC under another URL, and an
  RMT; two logins. The commands are grouped into five plans, each with its own bounds:
  moving between servers (three of eleven commands, one fault), commands that are refused (two of twelve),
  docker (four of three, one fault, the user logging in), the tracker and the keepalive (two
  commands, two faults, six hours) and the package search. A plan leaves out what does not touch
  the state it is about: neither the tracker nor docker depends on the options of the others. A day
  has two hours and two days are kept, so that six hours purge a day and panic on a cut one.

Deadlock checking is off in the runs of `Migration` and `SUSEConnect`, whose commands are
bounded in number: when they are used up the system stops. In the others a process that is
idle can always start a command.

### Fairness

`SystemCredentials!FairSpec` assumes that a running process takes its next step
(WF): the scheduler runs it, and a call ends because the client has a 60 s timeout
(`connection.go:124`). Nothing is assumed of starting commands, losing answers or
crashing. `Registration!FairSpec` assumes the same of the steps of a command. To say
that a user who retries succeeds it also assumes that the user does: SF on starting
register, and on `--cleanup` when the server has forgotten the system, which is what
`exitOnError` tells the user to do. `RetryConverges` only speaks of executions in which
from some point on nothing else is started, and failures are finitely many.

`Migration!FairSpec` assumes weak fairness of a command's steps taken together (`Step`): zypper
and the server answer, and the user, once asked, does. Nothing is assumed of signals, failures and
commands. `Terminates` then says that the self update does not restart the plugin for ever;
`PatchRecheck`, which gives up when patches are still pending, is what it rests on. `SUSEConnect`
states no liveness: its steps are those of a straight line, and `Terminates` of the
credentials model covers the waiting.

## Findings

- `credentials_race`: `announceOrUpdate` (`client.go:376`) takes every failure to read
  the credentials file for an unregistered system. A keepalive that stores a rotated
  token truncates the file first (`credentials.go:107`), and a register that reads it just
  then announces a second system; its credentials and those of the keepalive then
  overwrite each other. The comment at `client.go:373` says an announced system sends its
  current details instead.
- `service_token`: AddService (`zypper.go:209`) passes the system token to the service's
  credentials file; the change log (`suseconnect-ng.changes:143`) says these files do not
  get it.
- `api_status`: `Status` (`pkg/registration/status.go:53`) returns Unregistered and no error
  for every failed call, a timeout included; its enumeration reserves Unknown for
  errors. A caller that trusts it registers again and abandons a living system.

- `migration_query`: `--query` is looked at in the interactive loop only (`migration.go:275` of
  `cmd/zypper-migration`); with `--non-interactive` a migration has been selected by then (line 267) and is
  carried out. The manual page says "Query available migration options and exit".
- `migration_restore`: the restart after a self update (`migration.go:186`) passes an empty
  environment, so that neither `tar` nor `sh` is found: no backup is made, no restore is run, both
  failures are only printed, and the migration ends as rolled back without its files. The change
  log (`suseconnect-ng.changes:49`) says the directories are backed up and restored. `RollbackRestores`
  holds for the runs whose backup was made.

Other things the models show. Where a passing property leaves such a case out, or
promises less in it, its comment says so.

Register can report success with services nobody can use: AddService drops the error of
reading the system credentials (`zypper.go:206`) and writes blank ones (`RegisterComplete`
allows them to a command whose read failed). Deregister and Cleanup report success and leave the server's services behind,
with the credentials of a system that is gone, when the services' URLs do not contain the
configured address; the NOTE in `system.go:26` expects this of SMT (`DeregisterClean` and
`CleanStop` promise the services' removal for `sameUrl` only). Status returns 0, which is
Registered, beside the error of unusable extra data, where its enumeration has Unknown for
errors (`pkg/registration/status.go:16` and 36; `RegisteredIsTrue` is about a Registered without an error). A disk that
fills up in the middle of a line stops the uptime tracker for good, until someone
repairs its log (`TrackerSurvivesKill` excludes it by `cut`). A register or
de-register that is killed while it writes docker's file, or whose write fails, leaves it empty or
broken, and with it goes every login the user had (`DockerLoginsKept` excludes it by `spilt`).

The list of products that is
re-read after the rollback in checkSystemProducts is assigned to a new variable
(`migration.go:404`), so that the migration is sorted by an outdated one; `BaseFirst` excludes such
runs. A migration whose replacement service keeps the name of the old one loses it at the end
(`MigrationComplete` excludes it). `--cleanup` leaves the docker login, and the next registration keeps
it because there is one already (`NoRevokedLogin` excludes it by `leftover`). `no_zypper_refs` is
dropped from the configuration by every command that saves. A command with `--url` that fails after
its announcement leaves the credentials of one server beside the URL of another
(`ConfigMatchesServer` excludes it by `unsaved`). Deregister skips an
extension that is activated but not installed, so that the server may refuse to
deactivate its parent (`NeverOutOfOrder` excludes exactly this case). In the library,
Deregister takes a gateway's error page for a success and forgets a system that exists
(`ForgetsOnlyDeleted` excludes it). And the unconditional UpdateToken, which loses a valid token
whenever an answer names none, is also what keeps an old system's token
away from a new login: storing only non-blank tokens breaks `TokenBelongsToLogin`.

## Proofs

The theorems hold for every set of processes, logins, products, commands and options, every
bound and every choice of faults, from the named assumptions of the modules.

| Theorem | States |
|---|---|
| `SystemCredentialsProofs!TypeCorrect` | `Spec => []TypeOK` |
| `SystemCredentialsProofs!TruncationIsTransient` | `Spec => []TruncatedHasWriter` |
| `SystemCredentialsProofs!StaleOnlyDuringDeregister` | `Spec => []NoStaleCredentials` |
| `SystemCredentialsProofs!IdentitiesAreNotMixed` | `Spec => []TokenBelongsToLogin` |
| `SystemCredentialsProofs!NoSecondSystem` | `Spec => []AnnouncedOnce` |
| `EnrollmentProofs!TokensStayFresh` | `Procs = {p}` implies `Spec => []NoStaleToken` |
| `EnrollmentProofs!ImplementsEnrollment` | `Procs = {p}` implies `Spec => EnrSpec` |
| `RegistrationProofs!TypeCorrect` | `Spec => []TypeOK` |
| `RegistrationProofs!DeregisteredClean` | `Spec => []DeregisterClean` |
| `RegistrationProofs!ServicesStay` | `Spec => NoServiceLostInUse` |
| `RegistrationProofs!RegistersAll` | `Spec => []RegisterComplete` |
| `RegistrationProofs!InOrderAlways` | `Spec => NeverOutOfOrder` |
| `RegistrationProofs!StopsClean` | `Spec => []CleanStop` |
| `ApiConnectionProofs!TypeCorrect` | `Spec => []TypeOK` |
| `ApiConnectionProofs!TokensAreNotMixed` | `Spec => []TokenBelongsToLogin` |
| `ApiConnectionProofs!ObjectAndServerAgree` | `Spec => []AgreesWithServer` |
| `ApiConnectionProofs!TokensStayFresh` | `Spec => []NoStaleToken` |
| `ApiConnectionProofs!RegisteredMeansKnown` | `Spec => []RegisteredIsTrue` |
| `ApiConnectionProofs!NoSystemForgotten` | `Spec => ForgetsOnlyDeleted` |
| `MigrationProofs!TypeCorrect` | `Spec => []TypeOK` |
| `MigrationProofs!SignalStops` | `Spec => []InterruptStops` |
| `MigrationProofs!KeepsPromise` | `Spec => UpgradePromise` |
| `MigrationProofs!RollbackSynchronises` | `Spec => []RollbackSyncs` |
| `MigrationProofs!RestoresRepos` | the repositories' part of `RollbackRestores` |
| `MigrationProofs!RestoresSystem` | `Spec => [](Registered => RollbackRestores)` |
| `MigrationProofs!MigratesServices` | the activations' and the services' part of `MigrationComplete` |
| `MigrationProofs!CompletesMigration` | `Spec => [](Undisturbed => MigrationComplete)` |
| `MigrationProofs!DisablesObsolete` | `TwoParts` implies `Spec => OnlyObsoleteRepos` |
| `MigrationProofs!UpgradesBaseFirst` | `Spec => ([]Based => BaseFirst)`, and the same step by step |
| `SUSEConnectProofs!TypeCorrect` | `Spec => []TypeOK` |
| `SUSEConnectProofs!KillLeavesWholeLines` | `Spec => []TrackerSurvivesKill` |
| `SUSEConnectProofs!DockerIsShared` | `Spec => []DockerLoginsKept` |
| `SUSEConnectProofs!SettingsKept` | `Spec => []SettingsSurvive` |
| `SUSEConnectProofs!ConfigAndServerAgree` | `Spec => []ConfigMatchesServer` |
| `SUSEConnectProofs!NoLoginOutlives` | `Spec => []NoRevokedLogin` |
| `SUSEConnectProofs!ReportsTheHours` | `Spec => ReportWhole` |
| `ListingsProofs!ListingsAreTrue` | `Spec => []ListingsTrue` |
| `ListingsProofs!SearchFindsAll` | `Spec => []SearchTable` |

### Assumptions

Most of them say that bounds are numbers and that model values differ from the data. Those that
say more, and why the code justifies them:

- `Registration!BelowBaseAssumption`: there are finitely many products and all of them are below the
  base. The products are those of the tree the server sends for the base, and no other is
  ever handled.
- `Registration!NoCyclesAssumption`: no product is below itself. The walks of the code recurse
  without a check and would not end otherwise. `Listings!NoCyclesAssumption` says the same of the
  tree list-extensions shows.
- `Listings!TreeAssumption`, `SearchAssumption`: finitely many products and local repositories, and
  no place is blank: the place of a package is a module, printed with its identifier in
  parentheses (`search-packages.go:348`), or the status of a repository, which is a directory's name. The
  grouped table leaves the place of a repeated row blank, so a blank place would be lost in it.
- `SUSEConnect!CommandsAssumption`: the patterns of a search are a list of strings, the program's
  arguments.
- `Migration!ListsAssumption`: a list of the server names each product once, by its old or its new
  name, and a system or a path has at most one base product. A path is one JSON list of distinct
  products with one base; zypper lists one base product.
- `Migration!FiniteAssumption`, `BackupAssumption`: finitely many names and versions, and a backup
  is not one of the two values that stand for none and for a damaged one.

`EnrollmentProofs` is about a process alone, as `credentials_solo` is: with two, a token read
before another process rotates it is outdated when it is sent, which the code does not prevent.
`RestoresSystem` has the hypothesis `Registered`: the command started on products of one base
product's tree that have their release packages. Without it checkSystemProducts installs release
packages before the backup is made, in the version that is offered, and a rollback activates the
tree's products only; in the configuration of `migration` that version is the listed one, so
that `RollbackRestores` holds there without the hypothesis.
`CompletesMigration` has the hypothesis `Undisturbed`, about a run whose dist-upgrade changed the
packages and whose release packages could all be installed: if the release package of a product of
the path is not there, nothing is offered under its name that is not older than it, and the only
base products zypper lists are the path's. zypper installs
the newest package of the name it is given, whatever its version, and the release package of
a base product takes the place of the other one. In the runs the hypothesis
holds whenever a migration ends (checked with TLC), so it excludes nothing there.
`DisablesObsolete` assumes `TwoParts`: a version is at most two numbers below 100, as those of
SLE are (15.6). `Weight` orders such versions only; the theorem says that on them the
comparison by parts in `compareEditions` is that order.
`UpgradesBaseFirst` has the hypothesis `Based`: a base product the path leads to that was listed
when the command started was activated too. The sort puts the products that are not installed
first, and the base first among those; a base that is installed, and which the server has
forgotten, comes behind an extension that is not. In the runs no migration that is applied without
a missing release package gets there (checked with TLC).

### The credentials file

`TypeOK` of `SystemCredentials` is not inductive: that a written file has a login and
a token needs the writer's buffer to be filled (`BufferFilled`), and that an announced
login is one needs a successful call to have one (`LoginKnown`). With them it
is, and `TruncatedHasWriter` too: a step that would close the file of the only
writer either writes it or is a crash.

`TokenBelongsToLogin` needs to know what every other process is about to do. The
strengthening `IdentityInv` says that as long as no identity was taken or given up beside a
running process there is one login `l` such that the file, every buffer, every
call's login and every token under way are `l`'s, and that a process that announces is the
only one at work. Each step keeps `l`, or is taken alone and may choose another.

`AnnouncedOnce` is the same argument about existence (`AnnouncedInv`): there is at most one system,
and its login is in the file or with a process that will put it there (`Keeps`).
`NoStaleCredentials` asks who vouches for a login (`Vouching`): every login in the file, in a
buffer or in the answer to an announcement exists, or a deregister that deleted it is on its
way to remove the file.

For a process alone, `SoloInv` relates the place in a call to the file (`Course`): it announces only
without credentials, and what it writes goes back under the login it read. With it every token on
its way is the last one the server named (`TokenInv`), and each step maps to a step of
`Enrollment` or a stutter: `ServeAnnounce` to Offer, the `OpenTruncate` that creates the file to Enroll,
losing the answer or crashing while the login is only offered to Withdraw, `RemoveFile` and a
crash between the halves of a write to Forget.

### Registration

The actions fall into three kinds (`Rests`, `Stops`, `Goes`), and a going step is described by what
it calls for (`Callable`), changes on the server (`Serves`) and here (`Changes`), and what it
puts in front of the other steps (`Continues`). Each theorem then has an invariant about the
steps still to do, which `Goes` keeps. The predicates for that are those of `SeqLemmas` and of the
section before the theorems: that a step comes only behind one of some others (`Behind`), that a
removal is followed by its credentials file (`Shape` and what it is made of).

- `CleanInv`: what Deregister has not done yet is still among its steps.
- `UseInv`: the removal of a service comes behind the deactivation of every product in `act`
  that uses it, or the deletion of the system.
- `CompleteInv`: there is a set of products, the base in it, each of which is activated,
  installed and served or has that to come (`Pending`); and whose wanted extensions are
  in the set or whose walk is still to come (`Reaches`). When the steps are done the set has
  everything below the base that is wanted. An announcement makes the service credentials stale and
  forgets the activations; that is why it is first.
- `OrderInv`: an activation comes behind one of its parent's (`Ascends`), a deactivation behind
  those of its extensions (`Recedes`), which needs the list to be in the tree's order: a fact about
  `toExtensionsList`, proved by induction on the depth.
- `SoundInv`: as long as no step failed, services and their files agree except between the two halves
  of a pair, and once a system is gone no call is left. What Cleanup passes by when the URLs
  differ keeps its file, so that only the agreement remains there.

`CompleteInv` asks for service credentials that are `Usable`, blank ones included once the command
is `blind`; `CleanInv` asks for the removal of the services that Cleanup has `Recognised`.

The walks are a recursive function and a fold. A theorem about them cannot cite the library's
induction theorems, whose parameter is an operator; but a set of numbers has a least element, and
the induction they need, over the depth of a product or the length of a list, is
by contradiction from it (`LeastNat`, `UpTo`).

### The client library

In `ApiConnection` the token and the login are set by different steps, so the
invariant `TokenInv` says whose token the object holds at each of them: that of its
login, or, once Register has its answer, of the login it is about to set. It rests on the
answer naming a token of the login the call was for (`ReplyFits`) and on a call
speaking for the login that is still set when it ends (`SpeaksForLogin`).
`SystemsAgree` gives the systems the server has at every point of a call (`Expected`).
`TokensFresh` says that without a mishap the object, the request and the answer have the last
token named. `ServedInv` says what may be concluded from an answer: a call that was served was
served for the login that is set, and what it deleted is gone (`Concluded`), so that Status and
Deregister conclude right but for a gateway's answer.

### Migration

`TypeInv` says which steps each phase may have (`Allowed`); that a migration being applied ends in
its backup or its dist-upgrade, so that it cannot succeed without passing a look at the
interrupt flag (`EndsInFinal`); and what a signal may find (`SignalOK`). `UpgradePromise` needs in
addition that until the packages are upgraded each product of the path is activated or has its turn
among the steps (`PathInv`): then the dist-upgrade is taken with the path registered. `RollbackSyncs` needs
that at most one base product is listed (`BaseOK`), and that each product to be synchronised, and
each activation to go, is done or pending in the rollback's steps (`UndoOK`). `RollbackRestores`
needs the history of the files (`FilesInv`): what checkSystemProducts may have changed before the
backup is undone, or was nothing, on a system that was synchronised (`Whole`); from then on
the backup has them, and after Restore they are back. Without `Whole` the repositories are
still restored (`RestoresRepos`).

`MigrationComplete` is about the end of a run, so its invariant follows the path through the
steps. `ServicesOK`: the services are listed before the first of them changes; once
`MigrateProduct` is past a product, it has its service, or the step that adds it is still to come,
and a service that is to go is gone or has its step. `PackagesOK`: the
packages and the list of zypper change together, so they stay equal where they were; after the
dist-upgrade each product of the path is `Settled`, which is to say release
package is among the steps that checkSystemProducts left.

`OnlyObsoleteRepos` is about one step, but which step a repository may go in is a matter of
history (`ReposOK`): the steps of cleanupProductRepos are for products of the path; all
repositories are disabled for a Leap only; and the snapshot a user may boot after a killed
run has every repository that is enabled, because a backup this run did not make is
not restored. That an older edition is an older version is `OlderIsLess`.

`BaseFirst` follows the base through the run (`OrderOK`). While nothing was missing, the list of
products is that of the start, so that a base to be activated is one the sort takes to
be not installed (`SortLeads`); it is then in front of every product that is no base product, and its
upgrade in front of theirs in what the loop of migrateSystem appends (`LoopLeads`); and each step leaves
an upgrade behind the base's or has activated the base (`Behind`, of `SeqLemmas`).

### SUSEConnect

`TypeOK` of `SUSEConnect` needs `todo` to be a sequence of steps, each acting on what its kind
acts on (`TypeInv` with `StepSet`). `TrackerSurvivesKill` follows from `WholeInv`: until a line is
cut, every line of the log and every line still to be written is whole, whichever open or write fails.
`DockerIsShared` has the invariant `DockerInv`: as long as nothing was spilt, what is about to be
written while the file is empty (`At("writeAuth")`) has every login the user made, and at every other
step the file has them. That needs the opened file to be the one that was read, which is what a
login in between spoils (`spilt`), and the other steps of a command to leave the file alone (`CalmStep`).

The two theorems about the configuration share `ConfigInv`, which says what the rest of a
command's steps still promises. A truncation is directly followed by the write (`Shape`); past its
first steps a command speaks for a system its own server knows (`Accepted`), since the server
refuses any other; without `--url` the command's URL is the file's (`KeepsUrl`); with it, the
last step is the write, or the command only lists and changes nothing (`BringsUrl`); and the
settings in memory are the administrator's (`KeepsSettings`). That is why the exceptions
`unsaved` and `torn` are enough: a command that brought a new URL either reaches its last step or
sets `unsaved`. The proof groups the actions by what they do to the file, the credentials and the
steps (`Goes`, `Begins`, `Stores`, ... `Stops`), and has one lemma per group.

`NoRevokedLogin` rests on the order of Deregister's steps (`Linked`): the docker file is read
directly before it is changed, SUSE's login is removed before the system is deleted, and the system
is deleted before the credentials are removed. So the system login in docker's file, and in what is
about to be written to it, is the credentials' at every step (`LoginInv`); a failing write leaves no
login at all, and the user can enter none, because what he enters is his own.

`ReportInv` says what the hours of the log are worth: outside a rewrite they are the recorded ones;
during it those written and those still to be written are together the ones the run is
about to have recorded (`Due`). A kill or a failing write takes from `ran` what was not written, by the definition of
`ran`. It needs the arithmetic of days and hours (`DayOfHour`) and that the lines in
order are all the lines (`SortedAll`).

### What is printed

`ListingsTrue` says that a listing is true until the next command starts, not only when it is
printed. So `ListingInv` has two parts. A command that prints has, behind its printing, only saving
to do (`PrintsFirst`), and saving changes nothing a listing is about (`Subject`); a keepalive or a
register cannot come between, because a command clears what is shown (`ListingKinds`). And what is
shown is what status or list-extensions would print now, or what some search found.

The rest is about the operators of `Listings`, for every tree and catalog:

- The tree, by induction on the depth (`TreeBelow`): each row but the first level's has its parent
  before it, with only deeper rows between them (`Covered`), which putting rows in front of it
  keeps (`JoinCovered`); and the products named are all the extensions of those named (`Whole`).
- `uniqueTable` is a fold, which the library defines by CHOOSE of a recursive function. That there is
  one is proved from `Recursion` of `SeqLemmas`, along the greatest number of a set of row numbers
  (`FoldedExists`); that the result has the same rows, each once, is an induction along them.
- `groupByModule`: the groups are the sets of rows with the same place, which are disjoint and cover
  the table, so that their lengths add up to its length (`GroupsOK`, by `FlattenCount`); the
  place is written in the first row of each (`FirstExists`).

`Recursion` states of a function's step, given as a function too, that when it only looks at
lower ranks it has a fixed point. It takes the place of the library's theorem about recursive
functions, whose parameter is an operator.

### Only model-checked

- Liveness (`Terminates` of `SystemCredentials` and `Migration`, `RetryConverges`): needs ENABLED.
- `RollbackRestores` for systems that are not `Registered`, `MigrationComplete` for those that are not
  `Undisturbed`, `BaseFirst` for those that are not `Based`.
- `NoStaleToken` and `EnrSpec` of `SystemCredentials` for more than one process are not claimed at all.

## Abstractions

- Data: a password goes with its login, a token is its login and number, a product is a
  name. Contents of requests and answers, output, locale and logging are left out.
- The server is modelled as its callers rely on it: it hands out a login once,
  authenticates by login, names a new token only in an answer, keeps activations a
  tree. Whether it rotates, refuses or answers is its choice.
- A system is not deleted on the server by anyone but its own commands.
- `/etc/zypp/credentials.d/SCCcredentials` of another root (`--root`) is another file.
- After a lost or refused call the models end the command, as `exitOnError` does.
- What zypper does is modelled from how the code uses it: a release package of a base product
  replaces another one, dist-upgrade moves the products of the path and keeps the others, a service
  of a plugin cannot be removed, the exit codes from 100 follow a complete upgrade.
- The migration leaves tokens out, and the credentials inside the backup with them.
- Docker's file stands for the logins in it. Writing it keeps of an entry its `auth` and
  `identitytoken` and of the other members of the file those the structure repeats
  (`registry_auth.go:43-72`); a member that docker has added since is dropped, against the NOTE
  above the structure, which is not modelled.
- An error of the scanner that reads the uptime log (a line beyond its limit) is not checked by
  the code and not modelled: the lines are short.
- A power loss that loses data the kernel had accepted is modelled for the uptime log only, whose
  reader depends on whole lines; elsewhere a crash is the death of the process.

## Not modelled

- The C and Ruby bindings: marshalling around functions that are modelled; the configuration they
  merge from JSON and the HTTP client they keep across calls would matter to a caller that changes
  settings while it lives, and that caller (YaST) is not in the repository.
- The collectors, and the parsing of zypper's XML, of product triplets and of offline certificates:
  pure conversions of one input, better served by the unit tests they have.
- The EULA dialog: its only call is commented out (`cmd/suseconnect/suseconnect.go:279`).
- The certificate pool, proxies and TLS: configuration of the Go runtime.
- `cmd/public-api-demo`, `cmd/offline-register-api`, `cmd/validate-offline-certificate`: straight-line
  examples of the library.
- Within modelled parts: `--root` and `--product` of the migration and the options it only hands on,
  the podman file next to docker's, `insecure` and `namespace` (handled as `language` is), layouts.

## Plan

Written, in this order: `Enrollment`, `SystemCredentials`, `Registration`, `ApiConnection`, `Upgrade`,
`Migration`, `UptimeLog`, `RegistryAuth`, `Listings`, `SUSEConnect`, and their proofs. Every safety
property a passing run checks is now a theorem, three of them under the hypotheses named above; what
stays with TLC is liveness.
