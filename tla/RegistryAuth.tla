------------------------------ MODULE RegistryAuth ------------------------------
(***************************************************************************)
(* The docker configuration of the user who runs SUSEConnect: a login for  *)
(* the SUSE registry is written when the system is announced to SCC and    *)
(* removed when it is de-registered. The file belongs to docker and podman *)
(* and is read, emptied and written again without a lock; nothing that     *)
(* goes wrong here is reported.                                            *)
(***************************************************************************)
EXTENDS FiniteSets

CONSTANTS
    NoLogin, Manual,   \* no login for the SUSE registry, one the user entered
    Others,            \* the other registries the user may log in to
    Missing, Broken,   \* there is no file; a file that does not parse,
    Emptied            \* because it is empty, which docker itself accepts

VARIABLES
    docker,   \* the file: Missing, Broken, Emptied, or the logins it holds
    seen,     \* the config object of the running command: what it read, or is to write
    entered,  \* history: the logins the user made, in a file that was not broken since,
    spilt     \* and whether a write of SUSEConnect failed, was interrupted or missed a login

dockerVars == <<docker, seen, entered, spilt>>

\* A login stands for its auth and identity token, the only members of an entry that a
\* file keeps when SUSEConnect writes it.
Logins(Systems) == [suse : Systems \cup {NoLogin, Manual}, others : SUBSET Others]
Empty     == [suse |-> NoLogin, others |-> {}]
Readable(file) == file \notin {Missing, Broken, Emptied}

Content(file)  == IF Readable(file) THEN file ELSE Empty

DockerInit ==
    /\ docker \in {Missing, [Empty EXCEPT !.others = Others]} /\ seen = Missing
    /\ entered = Content(docker) /\ spilt = FALSE

\* A login that is there already is kept, whoever wrote it.
SetLogin(file, login) == IF file.suse # NoLogin THEN file ELSE [file EXCEPT !.suse = login]

\* Only the login of this system is removed.
HasLogin(file, login) == file.suse # NoLogin                            \* mutant
Ours(file, login) == file.suse = login
RemoveLogin(file)      == [file EXCEPT !.suse = NoLogin]

\* LoadFrom, in both functions.
ReadDocker == seen' = docker /\ UNCHANGED <<docker, entered, spilt>>

\* SaveTo, in both functions. It opens the file, which empties it, and then writes it;
\* a file that docker has put in the place of the opened one is left alone.
OpenForWriting ==
    /\ docker' = Emptied
    /\ spilt' = (spilt \/ docker # seen) /\ UNCHANGED entered
WriteFile ==
    /\ docker' = (IF docker = Emptied THEN seen ELSE docker)
    /\ UNCHANGED <<seen, entered, spilt>>
WriteFileFails ==
    /\ docker' \in (IF docker = Emptied THEN {Emptied, Broken} ELSE {docker})
    /\ spilt' = TRUE /\ UNCHANGED <<seen, entered>>

\* Both functions up to where SaveTo has opened the file, if they get there: a file
\* that could not be read is written anew, or has no login to remove.
setupRegistryAuthentication(login) ==
    /\ seen' = SetLogin(Content(seen), login)
    /\ OpenForWriting
Removes(login) == Readable(seen) /\ Ours(seen, login)
removeRegistryAuthentication(login) ==
    IF Removes(login) THEN seen' = RemoveLogin(seen) /\ OpenForWriting
                      ELSE UNCHANGED dockerVars

\* docker login, by the user; and an edit that leaves the file broken.
UserLogsIn ==
    /\ docker # Broken
    /\ \/ \E r \in Others : /\ docker'  = [Content(docker) EXCEPT !.others = @ \cup {r}]
                           /\ entered' = [entered EXCEPT !.others = @ \cup {r}]
       \/ /\ docker'  = [Content(docker) EXCEPT !.suse = Manual]
          /\ entered' = [entered EXCEPT !.suse = Manual]
    /\ spilt' = (spilt \/ docker = Emptied) /\ UNCHANGED seen
UserBreaksFile == docker' = Broken /\ entered' = Empty /\ UNCHANGED <<seen, spilt>>

-----------------------------------------------------------------------------
\* A file that has the user's logins.
Keeps(file) ==
    /\ entered.others \subseteq Content(file).others
    /\ entered.suse = Manual => Content(file).suse = Manual
===============================================================================
