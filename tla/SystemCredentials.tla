--------------------------- MODULE SystemCredentials ---------------------------
(***************************************************************************)
(* The system credentials file (/etc/zypp/credentials.d/SCCcredentials)    *)
(* shared, without a lock, by every SUSEConnect process of a machine: the  *)
(* daily keepalive timer and the commands a user starts.  Each HTTP call   *)
(* reads the file twice, and every answer that carries a System-Token      *)
(* header makes the process read, truncate and rewrite it.                 *)
(***************************************************************************)
EXTENDS Naturals, FiniteSets

CONSTANTS Procs,      \* processes that may run at the same time
          Allowed(_),  \* the commands each of them may start
          Logins,     \* logins the server can hand out (bounds announcements)
          MaxRot,     \* bound on the token rotations of one login
          MaxCalls,   \* bound on the product calls of one command
          Faults,     \* which of "lost" and "crash" may happen
          Missing, Truncated, NoToken, NoLogin   \* model values

Tokens   == {NoToken} \cup (Logins \X Nat)
Creds    == [login : Logins, token : Tokens]
Commands == {"register", "keepalive", "deregister", "cleanup"}

ASSUME FaultsAssumption == Faults \subseteq {"lost", "crash"}
ASSUME BoundsAssumption == MaxRot \in Nat /\ MaxCalls \in Nat
ASSUME DistinctAssumption ==
    /\ Missing # Truncated /\ {Missing, Truncated} \cap Creds = {}
    /\ NoLogin \notin Logins
    /\ NoToken \notin Logins \X Nat

VARIABLES
    file,    \* the credentials file: absent, truncated, or its content
    issued,  \* server: the logins it has handed out
    live,    \* server: the systems that exist
    rot,     \* server: how often the token of each login was rotated
    flagged, \* server: it has seen a live system send an outdated token
    run,     \* per process, the command it executes and where it stands
    past     \* history: what has happened that a guarantee may not survive:
             \* an answer "lost" after the server acted, a "crash", a live system
             \* "abandoned" by Cleanup, or an identity that was taken or given up
             \* while another process was running ("raced")

vars == <<file, issued, live, rot, flagged, run, past>>

-----------------------------------------------------------------------------
Calls  == {"announce", "create", "update", "product", "delete"}
Labels == {"idle", "check", "auth", "headers", "sent", "reply", "trunc", "write",
           "done", "unlink"}
Runs   == [at : Labels, cmd : Commands, call : Calls, who : Logins \cup {NoLogin},
           sent : Tokens, reply : Tokens, ok : BOOLEAN, buf : Creds \cup {Missing},
           fd : BOOLEAN, left : 0..MaxCalls]

\* The state of a process that runs no command.
Idle == [at |-> "idle", cmd |-> "keepalive", call |-> "update", who |-> NoLogin,
         sent |-> NoToken, reply |-> NoToken, ok |-> FALSE, buf |-> Missing,
         fd |-> FALSE, left |-> 0]

\* ReadCredentials: a missing file and one without a user name and a password
\* are errors.
ParsesOnlyWithToken(f) == f \notin {Missing, Truncated} /\ f.token # NoToken   \* mutant
Parses(f) == f \notin {Missing, Truncated}

Init ==
    /\ file = Missing
    /\ issued = {}
    /\ live = {}
    /\ rot = [l \in Logins |-> 0]
    /\ flagged = FALSE
    /\ run = [p \in Procs |-> Idle]
    /\ past = {}

Become(p, r)  == run' = [run EXCEPT ![p] = r]
Exit(p)       == Become(p, Idle)
Alone(p)      == \A q \in Procs \ {p} : run[q].at = "idle"
Remember(set) == past' = past \cup set

-----------------------------------------------------------------------------
\* A process starts a command, which will make up to MaxCalls product calls.
Start(p, c) ==
    /\ run[p].at = "idle" /\ c \in Allowed(p)
    /\ \E n \in 0..MaxCalls :
          /\ c \in {"keepalive", "cleanup"} => n = 0
          /\ Become(p, [Idle EXCEPT !.at = IF c = "cleanup" THEN "unlink" ELSE "check",
                                    !.cmd = c, !.left = n])
    /\ UNCHANGED <<file, issued, live, rot, flagged, past>>

\* The next call of a command that has product calls left, or of a deregister.
Fresh(r) == [r EXCEPT !.at = "auth", !.who = NoLogin, !.ok = FALSE]
OneCallTooMany(r) == [Fresh(r) EXCEPT !.call = "product", !.left = @ - 1]         \* mutant
CallsForever(r)   == [Fresh(r) EXCEPT !.call = "product"]                         \* mutant
NextProductCall(r) ==
    IF r.left > 0 THEN [Fresh(r) EXCEPT !.call = "product", !.left = @ - 1]
                  ELSE [Fresh(r) EXCEPT !.call = "delete"]

AnnouncesAlways(r) == r.cmd = "register"                                          \* mutant
Announces(r)       == r.cmd = "register" /\ ~Parses(file)

\* IsRegistered decides the course of every command: register announces the
\* system only when the file does not parse, the others give up then.
IsRegistered(p) ==
    LET r == run[p] IN
    /\ r.at = "check"
    /\ \/ /\ Parses(file)
          /\ Become(p, IF r.cmd = "deregister" THEN NextProductCall(r)
                       ELSE [r EXCEPT !.call = "update", !.at = "auth"])
          /\ UNCHANGED past
       \/ /\ Announces(r)
          /\ Become(p, [r EXCEPT !.call = "announce", !.at = "headers"])
          /\ Remember(IF Alone(p) THEN {} ELSE {"raced"})
       \/ /\ ~Parses(file) /\ r.cmd # "register"
          /\ Exit(p)
          /\ UNCHANGED past
    /\ UNCHANGED <<file, issued, live, rot, flagged>>

\* The first read of a call: the user name and the password it authenticates
\* with. Without them the call, and the command, fail.
AddAuthHeader(p) ==
    /\ run[p].at = "auth"
    /\ \/ /\ Parses(file)
          /\ Become(p, [run[p] EXCEPT !.who = file.login, !.at = "headers"])
       \/ /\ ~Parses(file)
          /\ Exit(p)
    /\ UNCHANGED <<file, issued, live, rot, flagged, past>>

\* The second read: the system token. A failure leaves the header blank.
AddHeaders(p) ==
    /\ run[p].at = "headers"
    /\ Become(p, [run[p] EXCEPT !.sent = IF Parses(file) THEN file.token ELSE NoToken,
                                !.at = "sent"])
    /\ UNCHANGED <<file, issued, live, rot, flagged, past>>

-----------------------------------------------------------------------------
\* The server handles the call of p. It may rotate the token of the system and
\* then, and only then, names the new one in the System-Token header, whatever
\* the status of the answer.
Answered(p, l, ok, t) ==
    Become(p, [run[p] EXCEPT !.who = l, !.ok = ok, !.reply = t, !.sent = NoToken,
                             !.at = "reply"])
Answer(p, l, ok) ==
    \/ /\ Answered(p, l, ok, NoToken)
       /\ UNCHANGED rot
    \/ /\ rot[l] < MaxRot
       /\ rot' = [rot EXCEPT ![l] = @ + 1]
       /\ Answered(p, l, ok, <<l, rot[l] + 1>>)

ServeAnnounce(p) ==
    /\ run[p].at = "sent" /\ run[p].call = "announce"
    /\ \E l \in Logins \ issued :
          /\ issued' = issued \cup {l}
          /\ live' = live \cup {l}
          /\ Answer(p, l, TRUE)
    /\ UNCHANGED <<file, flagged, past>>

ServeSystem(p) ==
    LET r == run[p] IN
    /\ r.at = "sent" /\ r.call # "announce"
    /\ r.who \in live
    /\ \E ok \in BOOLEAN :
          /\ Answer(p, r.who, ok)
          /\ live' = IF ok /\ r.call = "delete" THEN live \ {r.who} ELSE live
    /\ flagged' = (flagged \/ r.sent \notin {NoToken, <<r.who, rot[r.who]>>})
    /\ UNCHANGED <<file, issued, past>>

\* An error answer: a wrong registration code, or a system that was deleted.
Refuse(p) ==
    LET r == run[p] IN
    /\ r.at = "sent"
    /\ r.call = "announce" \/ r.who \notin live
    /\ Answered(p, r.who, FALSE, NoToken)
    /\ UNCHANGED <<file, issued, live, rot, flagged, past>>

InFlightOrWriting == {"sent", "reply", "write"}                                   \* mutant
InFlight          == {"sent", "reply"}

\* The 60 s client timeout, or a broken connection: before the server has seen
\* the call, or after it has handled it.
Lose(p) ==
    /\ "lost" \in Faults
    /\ run[p].at \in InFlight
    /\ Exit(p)
    /\ Remember(IF run[p].at = "reply" THEN {"lost"} ELSE {})
    /\ UNCHANGED <<file, issued, live, rot, flagged>>

-----------------------------------------------------------------------------
IgnoredUnlessOk(r) == ~r.ok \/ r.reply = NoToken \/ ~Parses(file)                 \* mutant
Ignored(r)         == r.reply = NoToken \/ ~Parses(file)

\* HandleSystemToken, before the status is looked at: a blank token and a file
\* that does not parse are left alone, otherwise the file is read again and
\* rewritten with the new token.
HandleSystemToken(p) ==
    LET r == run[p] IN
    /\ r.at = "reply"
    /\ IF Ignored(r)
         THEN Become(p, [r EXCEPT !.at = "done", !.reply = NoToken])
         ELSE Become(p, [r EXCEPT !.at = "trunc", !.reply = NoToken,
                                  !.buf = [file EXCEPT !.token = r.reply]])
    /\ UNCHANGED <<file, issued, live, rot, flagged, past>>

\* os.WriteFile is open(O_CREATE|O_TRUNC), then write. fd is FALSE once the
\* opened file is unlinked.
OpenTruncate(p) ==
    /\ run[p].at = "trunc"
    /\ file' = Truncated
    /\ Become(p, [run[p] EXCEPT !.fd = TRUE, !.at = "write"])
    /\ UNCHANGED <<issued, live, rot, flagged, past>>

\* Two writers that both truncated: the later one overwrites from offset 0 and
\* leaves a system_token line it does not reach.
Overlay(old, new) ==
    IF Parses(old) /\ new.token = NoToken THEN [new EXCEPT !.token = old.token] ELSE new

WriteFile(p) ==
    /\ run[p].at = "write"
    /\ file' = IF run[p].fd THEN Overlay(file, run[p].buf) ELSE file
    /\ Become(p, [run[p] EXCEPT !.fd = FALSE, !.buf = Missing, !.at = "done"])
    /\ UNCHANGED <<issued, live, rot, flagged, past>>

\* What a command does when a call of it is over.
Continue(p) ==
    LET r == run[p] IN
    /\ r.at = "done"
    /\ \/ /\ r.ok /\ r.call = "announce"       \* CreateCredentials(login, password, "")
          /\ Become(p, [r EXCEPT !.call = "create", !.at = "trunc",
                                 !.buf = [login |-> r.who, token |-> NoToken]])
       \/ /\ r.ok /\ r.call \in {"create", "update", "product"}
          /\ r.cmd = "deregister" \/ r.left > 0
          /\ Become(p, NextProductCall(r))
       \/ /\ r.ok /\ r.call = "delete"
          /\ Become(p, [r EXCEPT !.at = "unlink"])
       \/ /\ \/ ~r.ok
             \/ r.call \in {"create", "update", "product"} /\ r.cmd # "deregister" /\ r.left = 0
          /\ Exit(p)
    /\ UNCHANGED <<file, issued, live, rot, flagged, past>>

KeepFile(p) ==                                                                    \* mutant
    run[p].at = "unlink" /\ Exit(p) /\ UNCHANGED <<file, issued, live, rot, flagged, past>>

\* Cleanup removes the file, whether or not the system it names was deleted.
RemoveFile(p) ==
    /\ run[p].at = "unlink"
    /\ file' = Missing
    /\ run' = [q \in Procs |-> IF q = p THEN Idle ELSE [run[q] EXCEPT !.fd = FALSE]]
    /\ Remember((IF live = {} THEN {} ELSE {"abandoned"})
                 \cup (IF Alone(p) THEN {} ELSE {"raced"}))
    /\ UNCHANGED <<issued, live, rot, flagged>>

Crash(p) ==
    /\ "crash" \in Faults
    /\ run[p].at # "idle"
    /\ Exit(p)
    /\ Remember({"crash"})
    /\ UNCHANGED <<file, issued, live, rot, flagged>>

-----------------------------------------------------------------------------
Step(p) ==
    \/ IsRegistered(p) \/ AddAuthHeader(p) \/ AddHeaders(p)
    \/ ServeAnnounce(p) \/ ServeSystem(p) \/ Refuse(p)
    \/ HandleSystemToken(p) \/ OpenTruncate(p) \/ WriteFile(p)
    \/ Continue(p) \/ RemoveFile(p)

Next ==
    \E p \in Procs :
        \/ Step(p) \/ Lose(p) \/ Crash(p)
        \/ \E c \in Commands : Start(p, c)

Spec == Init /\ [][Next]_vars

\* A process that runs a command is scheduled, and the HTTP client ends every
\* call, by an answer or by its timeout.
FairSpec == Spec /\ \A p \in Procs : WF_vars(Step(p))

-----------------------------------------------------------------------------
\* Every variable keeps its type.
TypeOK ==
    /\ file \in Creds \cup {Missing, Truncated}
    /\ issued \subseteq Logins /\ live \subseteq issued
    /\ rot \in [Logins -> 0..MaxRot]
    /\ flagged \in BOOLEAN
    /\ past \subseteq {"raced", "lost", "crash", "abandoned"}
    /\ run \in [Procs -> Runs]

\* The token in the file was issued to the login next to it. Overlapping calls,
\* lost answers and crashes do not mix two identities up; only an identity taken
\* or given up while another process runs can (the read-modify-write of
\* HandleSystemToken).
TokenBelongsToLogin ==
    "raced" \notin past /\ Parses(file) /\ file.token # NoToken =>
        file.token[1] = file.login

\* The machine never has two systems on the server, unless an announcement was
\* lost, cut short or raced, or Cleanup abandoned a system (announceOrUpdate).
AnnouncedOnce == past = {} => Cardinality(live) <= 1

\* A truncated file is about to be completed, unless a process crashed: somebody
\* still holds it open with the content to write (os.WriteFile in write).
TruncatedHasWriter ==
    "crash" \notin past /\ file = Truncated =>
        \E p \in Procs : run[p].at = "write" /\ run[p].fd

\* The file names a system the server knows, except while the deregister that
\* deleted it cleans up (Deregister removes the file after the system).
NoStaleCredentials ==
    past \cap {"raced", "lost", "crash"} = {} /\ Parses(file) /\ file.login \notin live =>
        \E p \in Procs : run[p].cmd = "deregister" /\ run[p].call = "delete"

\* With one process, the server sees an outdated token only after an answer was
\* lost or a process crashed: every token it names is stored before the next call,
\* that of an error answer too (callHTTP).
NoStaleToken == past \cap {"lost", "crash"} = {} => ~flagged

\* Every command ends, whatever the server answers.
Terminates == \A p \in Procs : run[p].at # "idle" ~> run[p].at = "idle"

\* A single process implements Enrollment. The offer is a login answered but not
\* yet stored; a truncated file that is being rewritten still holds its login.
Offered(p) ==
    \/ run[p].call = "announce" /\ run[p].ok /\ run[p].at \in {"reply", "done"}
    \/ run[p].call = "create" /\ run[p].at = "trunc"
Writing(p) == run[p].at = "write" /\ run[p].fd
offer ==
    IF \E p \in Procs : Offered(p) THEN run[CHOOSE p \in Procs : Offered(p)].who ELSE NoLogin
enrolled ==
    IF Parses(file) THEN file.login
    ELSE IF \E p \in Procs : Writing(p)
      THEN run[CHOOSE p \in Procs : Writing(p)].buf.login ELSE NoLogin
Enr == INSTANCE Enrollment
EnrSpec == Enr!Spec

\* "IsRegistered returns true if there is a valid credentials file" and "When
\* already announced, sends the current hardware details": a machine whose system
\* exists does not announce another one, even when two processes overlap.
AnnouncedOnceDespiteOverlap ==
    past \cap {"lost", "crash", "abandoned"} = {} => Cardinality(live) <= 1
===============================================================================
