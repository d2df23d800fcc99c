------------------------------ MODULE ApiConnection ------------------------------
(***************************************************************************)
(* The public client library (pkg/connection, pkg/registration and         *)
(* pkg/labels): one caller, its Credentials object, and the server. Do     *)
(* takes the token from the object and stores the one of the answer; the   *)
(* functions around it take the login from the object and set it.          *)
(***************************************************************************)
EXTENDS Naturals, FiniteSets

CONSTANTS Logins,     \* logins the server can hand out (bounds registrations)
          MaxRot,     \* bound on the token rotations of one login
          Faults,     \* what may go wrong, a subset of Mishaps
          NoLogin, NoToken   \* model values

\* A call "lost" after the server acted; an answer "cut" after its headers; an
\* error of a "gateway", which is not JSON; a Credentials object that fails to
\* "store"; a "crash" of the caller.
Mishaps == {"lost", "cut", "gateway", "store", "crash"}
Tokens  == {NoToken} \cup (Logins \X Nat)

ASSUME FaultsAssumption == Faults \subseteq Mishaps
ASSUME BoundsAssumption == MaxRot \in Nat
ASSUME DistinctAssumption == NoLogin \notin Logins /\ NoToken \notin Logins \X Nat

VARIABLES
    login, token,   \* the Credentials object
    issued,         \* server: the logins it has handed out
    live,           \* server: the systems that exist
    rot,            \* server: how often the token of each login was rotated
    flagged,        \* server: it has seen a live system send an outdated token
    call,           \* the call under way
    verdict,        \* what the last function returned
    past            \* history: the mishaps so far, and "again" for a Register of
                    \* a system that is registered already

server == <<issued, live, rot, flagged>>
creds  == <<login, token>>
vars   == <<creds, server, call, verdict, past>>

-----------------------------------------------------------------------------
\* The functions of the library. "query" stands for Activate, Deactivate,
\* FetchProductInfo, FetchActivations and the three label functions, "regcode"
\* for the calls that authenticate with a registration code only. A verdict is what
\* the function returns: "Registered" and "Unregistered" stand for that status and no
\* error, "Unknown" for that status and an error.
Functions == {"register", "deregister", "status", "query", "regcode"}
WithLogin == {"deregister", "status", "query"}
Verdicts  == {"none", "ok", "error", "Registered", "Unregistered", "Unknown",
              "Registered, error"}
Calls     == [at : {"idle", "sent", "reply", "done"}, op : Functions,
              who : Logins \cup {NoLogin}, sent : Tokens, reply : Tokens,
              kind : {"ok", "error", "gateway"}]
NoCall    == [at |-> "idle", op |-> "query", who |-> NoLogin, sent |-> NoToken,
              reply |-> NoToken, kind |-> "ok"]

Init ==
    /\ login = NoLogin /\ token = NoToken
    /\ issued = {} /\ live = {} /\ rot = [l \in Logins |-> 0] /\ flagged = FALSE
    /\ call = NoCall /\ verdict = "none" /\ past = {}

Mishap(m) == m \in Faults /\ past' = past \cup {m}
Return(v) == call' = NoCall /\ verdict' = v

\* What a function returns when Do fails, when the login cannot be had, and when the
\* caller's extra data cannot be merged into the request: Status then returns 0,
\* which is Registered, beside the error.
DoFailed(op)     == IF op = "status" THEN "Unregistered" ELSE "error"
CredFailed(op)   == IF op = "status" THEN "Unknown" ELSE "error"
EnrichFailed(op) == IF op = "status" THEN "Registered, error" ELSE "error"

\* A function builds its request: the extra data (Register and Status), creds.Login(),
\* then Do with creds.Token().
Request(op) ==
    /\ call.at = "idle"
    /\ \/ /\ call' = [NoCall EXCEPT !.at = "sent", !.op = op, !.sent = token,
                         !.who = IF op \in WithLogin THEN login ELSE NoLogin]
          /\ verdict' = "none"
          /\ past' = past \cup (IF op = "register" /\ login # NoLogin THEN {"again"} ELSE {})
       \/ /\ op \in WithLogin
          /\ \/ login = NoLogin /\ UNCHANGED past
             \/ Mishap("store")
          /\ Return(CredFailed(op))
       \/ Mishap("store") /\ Return(DoFailed(op))
       \/ op \in {"register", "status"} /\ Return(EnrichFailed(op)) /\ UNCHANGED past
    /\ UNCHANGED <<creds, server>>

-----------------------------------------------------------------------------
Answered(who, kind, t) ==
    call' = [call EXCEPT !.at = "reply", !.who = who, !.kind = kind, !.reply = t,
                         !.sent = NoToken]

\* An answer names no token, the current one, or a new one.
Answer(l, kind) ==
    \/ \E t \in {NoToken, <<l, rot[l]>>} : Answered(l, kind, t) /\ UNCHANGED rot
    \/ /\ rot[l] < MaxRot
       /\ rot' = [rot EXCEPT ![l] = @ + 1]
       /\ Answered(l, kind, <<l, rot[l] + 1>>)

ServeRegister ==
    /\ call.at = "sent" /\ call.op = "register"
    /\ \E l \in Logins \ issued :
          /\ issued' = issued \cup {l} /\ live' = live \cup {l}
          /\ Answer(l, "ok")
    /\ UNCHANGED <<creds, flagged, verdict, past>>

ServeSystem ==
    /\ call.at = "sent" /\ call.who \in live
    /\ \E kind \in {"ok", "error"} :
          /\ Answer(call.who, kind)
          /\ live' = IF kind = "ok" /\ call.op = "deregister" THEN live \ {call.who} ELSE live
    /\ flagged' = (flagged \/ call.sent \notin {NoToken, <<call.who, rot[call.who]>>})
    /\ UNCHANGED <<creds, issued, verdict, past>>

ServeRegcode ==
    /\ call.at = "sent" /\ call.op = "regcode"
    /\ Answered(NoLogin, "ok", NoToken)
    /\ UNCHANGED <<creds, server, verdict, past>>

\* An error answer in JSON: a wrong registration code, a system that is unknown.
Refuse ==
    /\ call.at = "sent" /\ call.who \notin live
    /\ Answered(call.who, "error", NoToken)
    /\ UNCHANGED <<creds, server, verdict, past>>

\* A gateway answers in place of the server.
Gateway ==
    /\ call.at = "sent" /\ Mishap("gateway")
    /\ Answered(call.who, "gateway", NoToken)
    /\ UNCHANGED <<creds, server, verdict>>

\* The client's Do fails: the server has not seen the call, or has handled it.
Lose ==
    /\ \/ call.at = "sent" /\ "lost" \in Faults /\ UNCHANGED past
       \/ call.at = "reply" /\ Mishap("lost")
    /\ Return(DoFailed(call.op))
    /\ UNCHANGED <<creds, server>>

-----------------------------------------------------------------------------
NeverAnError(kind) == FALSE                                               \* mutant
\* ErrorFromResponse: an error whose body cannot be decoded is none.
IsApiError(kind) == kind = "error"

KeepsTokenIfBlank ==                                                      \* mutant
    /\ call.at = "reply"
    /\ IF IsApiError(call.kind) THEN Return(DoFailed(call.op))
                                ELSE call' = [call EXCEPT !.at = "done"] /\ UNCHANGED verdict
    /\ token' = IF call.reply = NoToken THEN token ELSE call.reply
    /\ UNCHANGED <<login, server, past>>

ErrorBeforeToken ==                                                       \* mutant
    /\ call.at = "reply"
    /\ IF IsApiError(call.kind) THEN Return(DoFailed(call.op)) /\ UNCHANGED token
       ELSE call' = [call EXCEPT !.at = "done"] /\ token' = call.reply /\ UNCHANGED verdict
    /\ UNCHANGED <<login, server, past>>

\* The rest of Do: the token of the answer is stored, blank or not, before the
\* status is looked at and the body is read.
UpdateToken ==
    /\ call.at = "reply"
    /\ \/ /\ token' = call.reply
          /\ \/ IsApiError(call.kind) /\ Return(DoFailed(call.op)) /\ UNCHANGED past
             \/ Mishap("cut") /\ Return(DoFailed(call.op))
             \/ /\ ~IsApiError(call.kind)
                /\ call' = [call EXCEPT !.at = "done"]
                /\ UNCHANGED <<verdict, past>>
       \/ Mishap("store") /\ Return(DoFailed(call.op)) /\ UNCHANGED token
    /\ UNCHANGED <<login, server>>

SetsToken(l) == login' = token /\ Return("ok") /\ UNCHANGED past            \* mutant
SetLogin(l) ==
    \/ login' = l /\ Return("ok") /\ UNCHANGED past
    \/ Mishap("store") /\ Return("error") /\ UNCHANGED login

KeepsOldLogin ==                                                          \* mutant
    /\ call.at = "done" /\ call.op = "register"
    /\ IF call.kind = "ok" THEN Return("ok") ELSE Return("error")
    /\ UNCHANGED <<creds, server, past>>

\* What Register and Deregister do once Do has returned no error.
Register ==
    /\ call.at = "done" /\ call.op = "register"
    /\ IF call.kind = "ok" THEN SetLogin(call.who)
                           ELSE Return("error") /\ UNCHANGED <<login, past>>
    /\ UNCHANGED <<token, server>>

Deregister ==
    /\ call.at = "done" /\ call.op = "deregister"
    /\ SetLogin(NoLogin)
    /\ UNCHANGED <<token, server>>

\* The end of Status, which does not read the body; the others fail to unmarshal that of a gateway.
Status ==
    /\ call.at = "done" /\ call.op = "status"
    /\ Return("Registered")
    /\ UNCHANGED <<creds, server, past>>

Query ==
    /\ call.at = "done" /\ call.op \in {"query", "regcode"}
    /\ Return(IF call.kind = "ok" THEN "ok" ELSE "error")
    /\ UNCHANGED <<creds, server, past>>

Crash ==
    /\ call.at # "idle" /\ Mishap("crash")
    /\ Return("none")
    /\ UNCHANGED <<creds, server>>

-----------------------------------------------------------------------------
Next ==
    \/ \E op \in Functions : Request(op)
    \/ ServeRegister \/ ServeSystem \/ ServeRegcode \/ Refuse \/ Gateway \/ Lose
    \/ UpdateToken \/ Register \/ Deregister \/ Status \/ Query
    \/ Crash

Spec == Init /\ [][Next]_vars

-----------------------------------------------------------------------------
\* Every variable keeps its type.
TypeOK ==
    /\ login \in Logins \cup {NoLogin} /\ token \in Tokens
    /\ issued \subseteq Logins /\ live \subseteq issued
    /\ rot \in [Logins -> 0..MaxRot] /\ flagged \in BOOLEAN
    /\ call \in Calls /\ verdict \in Verdicts
    /\ past \subseteq Mishaps \cup {"again"}

\* Between two calls the token in the Credentials object was issued to its login,
\* also after Register replaced a login by another one, unless that Register
\* stopped half way (Do stores the token before Register sets the login).
TokenBelongsToLogin ==
    call.at = "idle" /\ past \cap {"cut", "store", "crash"} = {}
        /\ login # NoLogin /\ token # NoToken => token[1] = login

\* The server sees an outdated token of a system only after an answer was lost or
\* not stored: the token of an error answer is stored too (Do).
NoStaleToken == past \cap {"lost", "cut", "store", "crash"} = {} => ~flagged

\* Without a mishap, and unless the caller registers twice, the Credentials object
\* names the one system the server has, whatever the server refused (Register,
\* Deregister).
AgreesWithServer == call.at = "idle" /\ past = {} => live = {login} \ {NoLogin}

\* Status reports a system as registered, and no error, only when the server has it,
\* even after lost answers and crashes; a gateway's answer is the exception. Without
\* the error the status means nothing: that of unusable extra data is Registered.
RegisteredIsTrue == verdict = "Registered" /\ "gateway" \notin past => login \in live

\* The login is forgotten only when the server has deleted its system, except
\* that Deregister takes a gateway's answer for a success.
ForgetsLiveSystem == login \in live /\ login' = NoLogin /\ "gateway" \notin past
ForgetsOnlyDeleted == [][~ForgetsLiveSystem]_vars

\* "System is not registered yet", the comment of Unregistered, while Unknown is
\* "Set when an error occurred": Status says Unregistered only of systems the
\* server does not have.
UnregisteredIsTrue == verdict = "Unregistered" => login \notin live
===============================================================================
