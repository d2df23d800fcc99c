------------------------ MODULE SystemCredentialsProofs ------------------------
(***************************************************************************)
(* What holds of the credentials file for any number of processes, logins, *)
(* token rotations and calls, with every fault: the types, that a          *)
(* truncated file always has a writer who will complete it, and, in the    *)
(* second part, whose login and token the file has and how many systems    *)
(* there are.                                                              *)
(***************************************************************************)
EXTENDS SystemCredentials, FiniteSetTheorems, TLAPS

\* The inductive strengthening of TypeOK: a process that is about to write has
\* something to write, and a call that went well has a login.
BufferFilled == \A p \in Procs : run[p].at \in {"trunc", "write"} => run[p].buf \in Creds
LoginKnown   == \A p \in Procs : run[p].ok => run[p].who \in Logins
TypeInv      == TypeOK /\ BufferFilled /\ LoginKnown

\* A record that may become the state of a process.
RunOK(r) ==
    /\ r \in Runs
    /\ r.at \in {"trunc", "write"} => r.buf \in Creds
    /\ r.ok => r.who \in Logins

-----------------------------------------------------------------------------
\* The idle record is a proper process state.
LEMMA IdleOK == RunOK(Idle)
  BY BoundsAssumption DEF RunOK, Idle, Runs, Labels, Commands, Calls, Tokens

\* A process keeps a proper record when every step leads to one.
LEMMA BecomeOK ==
  ASSUME TypeInv, NEW p \in Procs, NEW r, RunOK(r), Become(p, r)
  PROVE  run' \in [Procs -> Runs] /\ BufferFilled' /\ LoginKnown'
  BY DEF TypeInv, TypeOK, BufferFilled, LoginKnown, RunOK, Become

LEMMA RunIsOK ==
  ASSUME TypeInv, NEW p \in Procs
  PROVE  RunOK(run[p])
  BY DEF TypeInv, TypeOK, BufferFilled, LoginKnown, RunOK

\* ReadCredentials succeeds only on proper credentials.
LEMMA ParsedFile ==
  ASSUME TypeInv, Parses(file)
  PROVE  file \in Creds
  BY DEF TypeInv, TypeOK, Parses

\* What a writer leaves in the file are proper credentials, never a part of them.
LEMMA WrittenFile ==
  ASSUME TypeInv, NEW p \in Procs, run[p].at = "write"
  PROVE  Overlay(file, run[p].buf) \in Creds
  <1>1. run[p].buf \in Creds
    BY DEF TypeInv, BufferFilled
  <1> QED
    BY <1>1, ParsedFile DEF Overlay, Creds

\* Starting the next call of a command, or its deletion, keeps the record proper.
LEMMA NextCallOK ==
  ASSUME NEW r, RunOK(r)
  PROVE  RunOK(NextProductCall(r))
  <1>1. RunOK(Fresh(r))
    BY DEF RunOK, Fresh, Runs, Labels
  <1>2. CASE r.left > 0
    <2>1. Fresh(r).left = r.left /\ r.left - 1 \in 0..MaxCalls
      BY <1>2, BoundsAssumption DEF RunOK, Runs, Fresh
    <2> QED
      BY <1>1, <1>2, <2>1 DEF NextProductCall, RunOK, Runs, Fresh, Labels, Calls
  <1>3. CASE ~(r.left > 0)
    BY <1>1, <1>3 DEF NextProductCall, RunOK, Runs, Fresh, Labels, Calls
  <1> QED
    BY <1>2, <1>3

\* An answer of the server keeps the records proper, and the rotations bounded.
LEMMA AnswerOK ==
  ASSUME TypeInv, NEW p \in Procs, NEW l \in Logins, NEW ok \in BOOLEAN,
         run[p].at = "sent", Answer(p, l, ok)
  PROVE  /\ rot' \in [Logins -> 0..MaxRot]
         /\ run' \in [Procs -> Runs] /\ BufferFilled' /\ LoginKnown'
  <1>1. rot \in [Logins -> 0..MaxRot]
    BY DEF TypeInv, TypeOK
  <1>2. rot' \in [Logins -> 0..MaxRot]
    BY <1>1, BoundsAssumption DEF Answer
  <1>3. ASSUME NEW t \in Tokens
        PROVE  RunOK([run[p] EXCEPT !.who = l, !.ok = ok, !.reply = t, !.sent = NoToken,
                                    !.at = "reply"])
    BY RunIsOK DEF RunOK, Runs, Labels, Tokens
  <1>4. NoToken \in Tokens /\ <<l, rot[l] + 1>> \in Tokens
    BY <1>1, BoundsAssumption DEF Tokens
  <1>5. \E t \in Tokens : Answered(p, l, ok, t)
    BY <1>4 DEF Answer
  <1>6. run' \in [Procs -> Runs] /\ BufferFilled' /\ LoginKnown'
    BY <1>3, <1>5, BecomeOK DEF Answered
  <1> QED
    BY <1>2, <1>6

LEMMA InitTypeInv == Init => TypeInv
  <1> SUFFICES ASSUME Init PROVE TypeInv
    OBVIOUS
  <1>1. run \in [Procs -> Runs] /\ BufferFilled /\ LoginKnown
    BY IdleOK DEF Init, RunOK, BufferFilled, LoginKnown
  <1>2. rot \in [Logins -> 0..MaxRot]
    BY BoundsAssumption DEF Init
  <1> QED
    BY <1>1, <1>2 DEF Init, TypeInv, TypeOK

LEMMA NextTypeInv == TypeInv /\ [Next]_vars => TypeInv'
  <1> SUFFICES ASSUME TypeInv, [Next]_vars PROVE TypeInv'
    OBVIOUS
  <1>1. CASE UNCHANGED vars
    BY <1>1 DEF TypeInv, TypeOK, BufferFilled, LoginKnown, vars
  <1>2. ASSUME NEW p \in Procs, NEW c \in Commands, Start(p, c) PROVE TypeInv'
    <2>1. PICK n \in 0..MaxCalls :
            Become(p, [Idle EXCEPT !.at = IF c = "cleanup" THEN "unlink" ELSE "check",
                                   !.cmd = c, !.left = n])
      BY <1>2 DEF Start
    <2> DEFINE r == [Idle EXCEPT !.at = IF c = "cleanup" THEN "unlink" ELSE "check",
                                 !.cmd = c, !.left = n]
    <2>2. RunOK(r)
      BY IdleOK DEF RunOK, Idle, Runs, Labels
    <2>3. run' \in [Procs -> Runs] /\ BufferFilled' /\ LoginKnown'
      BY <2>1, <2>2, BecomeOK
    <2> QED
      BY <1>2, <2>3 DEF Start, TypeInv, TypeOK
  <1>3. ASSUME NEW p \in Procs, IsRegistered(p) PROVE TypeInv'
    <2>1. RunOK(run[p])
      BY RunIsOK
    <2>2. RunOK([run[p] EXCEPT !.call = "update", !.at = "auth"])
      BY <2>1 DEF RunOK, Runs, Labels, Calls
    <2>3. RunOK([run[p] EXCEPT !.call = "announce", !.at = "headers"])
      BY <2>1 DEF RunOK, Runs, Labels, Calls
    <2>4. RunOK(NextProductCall(run[p]))
      BY <2>1, NextCallOK
    <2>5. run' \in [Procs -> Runs] /\ BufferFilled' /\ LoginKnown'
      BY <1>3, <2>2, <2>3, <2>4, IdleOK, BecomeOK DEF IsRegistered, Exit
    <2> QED
      BY <1>3, <2>5 DEF IsRegistered, Remember, TypeInv, TypeOK
  <1>4. ASSUME NEW p \in Procs, AddAuthHeader(p) PROVE TypeInv'
    <2>1. Parses(file) => RunOK([run[p] EXCEPT !.who = file.login, !.at = "headers"])
      BY RunIsOK, ParsedFile DEF RunOK, Runs, Labels, Creds
    <2>2. run' \in [Procs -> Runs] /\ BufferFilled' /\ LoginKnown'
      BY <1>4, <2>1, IdleOK, BecomeOK DEF AddAuthHeader, Exit
    <2> QED
      BY <1>4, <2>2 DEF AddAuthHeader, TypeInv, TypeOK
  <1>5. ASSUME NEW p \in Procs, AddHeaders(p) PROVE TypeInv'
    <2> DEFINE t == IF Parses(file) THEN file.token ELSE NoToken
    <2>1. t \in Tokens
      BY ParsedFile DEF Tokens, Creds
    <2>2. RunOK([run[p] EXCEPT !.sent = t, !.at = "sent"])
      BY RunIsOK, <2>1 DEF RunOK, Runs, Labels
    <2>3. run' \in [Procs -> Runs] /\ BufferFilled' /\ LoginKnown'
      BY <1>5, <2>2, BecomeOK DEF AddHeaders
    <2> QED
      BY <1>5, <2>3 DEF AddHeaders, TypeInv, TypeOK
  <1>6. ASSUME NEW p \in Procs, ServeAnnounce(p) PROVE TypeInv'
    <2>1. PICK l \in Logins \ issued :
            issued' = issued \cup {l} /\ live' = live \cup {l} /\ Answer(p, l, TRUE)
      BY <1>6 DEF ServeAnnounce
    <2>2. /\ rot' \in [Logins -> 0..MaxRot]
          /\ run' \in [Procs -> Runs] /\ BufferFilled' /\ LoginKnown'
      BY <2>1, <1>6, AnswerOK DEF ServeAnnounce
    <2> QED
      BY <1>6, <2>1, <2>2 DEF ServeAnnounce, TypeInv, TypeOK
  <1>7. ASSUME NEW p \in Procs, ServeSystem(p) PROVE TypeInv'
    <2>1. PICK ok \in BOOLEAN :
            /\ Answer(p, run[p].who, ok)
            /\ live' = IF ok /\ run[p].call = "delete" THEN live \ {run[p].who} ELSE live
      BY <1>7 DEF ServeSystem
    <2>2. run[p].who \in Logins /\ run[p].at = "sent"
      BY <1>7 DEF ServeSystem, TypeInv, TypeOK
    <2>3. /\ rot' \in [Logins -> 0..MaxRot]
          /\ run' \in [Procs -> Runs] /\ BufferFilled' /\ LoginKnown'
      BY <2>1, <2>2, AnswerOK
    <2>4. flagged' \in BOOLEAN
      BY <1>7 DEF ServeSystem, TypeInv, TypeOK
    <2> QED
      BY <1>7, <2>1, <2>3, <2>4 DEF ServeSystem, TypeInv, TypeOK
  <1>8. ASSUME NEW p \in Procs, Refuse(p) PROVE TypeInv'
    <2>1. RunOK([run[p] EXCEPT !.who = run[p].who, !.ok = FALSE, !.reply = NoToken,
                               !.sent = NoToken, !.at = "reply"])
      BY RunIsOK DEF RunOK, Runs, Labels, Tokens
    <2>2. run' \in [Procs -> Runs] /\ BufferFilled' /\ LoginKnown'
      BY <1>8, <2>1, BecomeOK DEF Refuse, Answered
    <2> QED
      BY <1>8, <2>2 DEF Refuse, TypeInv, TypeOK
  <1>9. ASSUME NEW p \in Procs, HandleSystemToken(p) PROVE TypeInv'
    <2>1. RunOK([run[p] EXCEPT !.at = "done", !.reply = NoToken])
      BY RunIsOK DEF RunOK, Runs, Labels, Tokens
    <2> DEFINE b == [file EXCEPT !.token = run[p].reply]
    <2>2. ASSUME ~Ignored(run[p])
          PROVE  RunOK([run[p] EXCEPT !.at = "trunc", !.reply = NoToken, !.buf = b])
      <3>1. b \in Creds
        BY <2>2, ParsedFile, RunIsOK DEF Ignored, Creds, RunOK, Runs
      <3> QED
        BY <3>1, RunIsOK DEF RunOK, Runs, Labels, Tokens
    <2>3. run' \in [Procs -> Runs] /\ BufferFilled' /\ LoginKnown'
      BY <1>9, <2>1, <2>2, BecomeOK DEF HandleSystemToken
    <2> QED
      BY <1>9, <2>3 DEF HandleSystemToken, TypeInv, TypeOK
  <1>10. ASSUME NEW p \in Procs, OpenTruncate(p) PROVE TypeInv'
    <2>1. RunOK([run[p] EXCEPT !.fd = TRUE, !.at = "write"])
      BY <1>10, RunIsOK DEF OpenTruncate, RunOK, Runs, Labels
    <2>2. run' \in [Procs -> Runs] /\ BufferFilled' /\ LoginKnown'
      BY <1>10, <2>1, BecomeOK DEF OpenTruncate
    <2> QED
      BY <1>10, <2>2 DEF OpenTruncate, TypeInv, TypeOK
  <1>11. ASSUME NEW p \in Procs, WriteFile(p) PROVE TypeInv'
    <2>1. RunOK([run[p] EXCEPT !.fd = FALSE, !.buf = Missing, !.at = "done"])
      BY RunIsOK DEF RunOK, Runs, Labels
    <2>2. run' \in [Procs -> Runs] /\ BufferFilled' /\ LoginKnown'
      BY <1>11, <2>1, BecomeOK DEF WriteFile
    <2>3. file' \in Creds \cup {Missing, Truncated}
      BY <1>11, WrittenFile DEF WriteFile, TypeInv, TypeOK
    <2> QED
      BY <1>11, <2>2, <2>3 DEF WriteFile, TypeInv, TypeOK
  <1>12. ASSUME NEW p \in Procs, Continue(p) PROVE TypeInv'
    <2>1. RunOK(NextProductCall(run[p]))
      BY RunIsOK, NextCallOK
    <2> DEFINE new == [login |-> run[p].who, token |-> NoToken]
    <2>2. run[p].ok => RunOK([run[p] EXCEPT !.call = "create", !.at = "trunc", !.buf = new])
      <3>1. run[p].ok => new \in Creds
        BY RunIsOK DEF RunOK, Creds, Tokens
      <3> HIDE DEF new
      <3> QED
        BY <3>1, RunIsOK DEF RunOK, Runs, Labels, Calls
    <2>3. RunOK([run[p] EXCEPT !.at = "unlink"])
      BY RunIsOK DEF RunOK, Runs, Labels
    <2>4. run' \in [Procs -> Runs] /\ BufferFilled' /\ LoginKnown'
      BY <1>12, <2>1, <2>2, <2>3, IdleOK, BecomeOK DEF Continue, Exit
    <2> QED
      BY <1>12, <2>4 DEF Continue, TypeInv, TypeOK
  <1>13. ASSUME NEW p \in Procs, RemoveFile(p) PROVE TypeInv'
    <2>1. ASSUME NEW q \in Procs PROVE RunOK([run[q] EXCEPT !.fd = FALSE])
      BY RunIsOK DEF RunOK, Runs
    <2>2. ASSUME NEW q \in Procs PROVE RunOK(run'[q])
      BY <1>13, <2>1, IdleOK DEF RemoveFile
    <2>3. run' \in [Procs -> Runs]
      <3>1. run' = [q \in Procs |-> run'[q]]
        BY <1>13 DEF RemoveFile
      <3> QED
        BY <3>1, <2>2 DEF RunOK
    <2> QED
      BY <1>13, <2>2, <2>3 DEF RemoveFile, Remember, RunOK, TypeInv, TypeOK, BufferFilled, LoginKnown
  <1>14. ASSUME NEW p \in Procs, Lose(p) PROVE TypeInv'
    <2>1. run' \in [Procs -> Runs] /\ BufferFilled' /\ LoginKnown'
      BY <1>14, IdleOK, BecomeOK DEF Lose, Exit
    <2> QED
      BY <1>14, <2>1 DEF Lose, Remember, TypeInv, TypeOK
  <1>15. ASSUME NEW p \in Procs, Crash(p) PROVE TypeInv'
    <2>1. run' \in [Procs -> Runs] /\ BufferFilled' /\ LoginKnown'
      BY <1>15, IdleOK, BecomeOK DEF Crash, Exit
    <2> QED
      BY <1>15, <2>1 DEF Crash, Remember, TypeInv, TypeOK
  <1> QED
    BY <1>1, <1>2, <1>3, <1>4, <1>5, <1>6, <1>7, <1>8, <1>9, <1>10, <1>11, <1>12, <1>13,
       <1>14, <1>15 DEF Next, Step

\* Every variable keeps its type, whatever the number of processes.
THEOREM TypeCorrect == Spec => []TypeOK
  <1>1. Spec => []TypeInv
    BY InitTypeInv, NextTypeInv, PTL DEF Spec
  <1>2. TypeInv => TypeOK
    BY DEF TypeInv
  <1> QED
    BY <1>1, <1>2, PTL

-----------------------------------------------------------------------------
LEMMA TruncatedHasWriterStep ==
  ASSUME TypeInv, TruncatedHasWriter, [Next]_vars
  PROVE  TruncatedHasWriter'
  <1> SUFFICES ASSUME "crash" \notin past', file' = Truncated
               PROVE  \E q \in Procs : run'[q].at = "write" /\ run'[q].fd
    BY DEF TruncatedHasWriter
  <1> DEFINE Writer(q) == run[q].at = "write" /\ run[q].fd
  <1>1. ASSUME file = Truncated, "crash" \notin past
        PROVE  \E q \in Procs : Writer(q)
    BY <1>1 DEF TruncatedHasWriter
  \* A step of p that leaves the file alone and is not the end of its writing.
  <1>2. ASSUME NEW p \in Procs, ~Writer(p), file' = file, "crash" \notin past,
               \A q \in Procs \ {p} : run'[q] = run[q]
        PROVE  \E q \in Procs : run'[q].at = "write" /\ run'[q].fd
    BY <1>1, <1>2
  <1>3. \A p \in Procs : \A r : Become(p, r) => \A q \in Procs \ {p} : run'[q] = run[q]
    BY DEF Become, TypeInv, TypeOK
  <1>4. CASE UNCHANGED vars
    BY <1>1, <1>4 DEF vars
  <1>5. ASSUME NEW p \in Procs, OpenTruncate(p)
        PROVE  run'[p].at = "write" /\ run'[p].fd
    BY <1>5, RunIsOK DEF OpenTruncate, Become, RunOK, Runs, TypeInv, TypeOK
  <1>6. ASSUME NEW p \in Procs, WriteFile(p) PROVE ~Writer(p) /\ file' = file
    BY <1>6, WrittenFile, DistinctAssumption DEF WriteFile
  <1>7. ASSUME NEW p \in Procs, RemoveFile(p) PROVE FALSE
    BY <1>7, DistinctAssumption DEF RemoveFile
  <1>8. ASSUME NEW p \in Procs, Crash(p) PROVE FALSE
    BY <1>8 DEF Crash, Remember
  <1>9. ASSUME NEW p \in Procs, Lose(p) PROVE ~Writer(p) /\ file' = file
    BY <1>9 DEF Lose, InFlight
  <1>10. ASSUME NEW p \in Procs,
                \/ IsRegistered(p) \/ AddAuthHeader(p) \/ AddHeaders(p) \/ ServeAnnounce(p)
                \/ ServeSystem(p) \/ Refuse(p) \/ HandleSystemToken(p) \/ Continue(p)
                \/ \E c \in Commands : Start(p, c)
         PROVE  ~Writer(p) /\ file' = file
    BY <1>10 DEF IsRegistered, AddAuthHeader, AddHeaders, ServeAnnounce, ServeSystem, Refuse,
                 HandleSystemToken, Continue, Start
  <1>11. ASSUME NEW p \in Procs,
                WriteFile(p) \/ Lose(p) \/ IsRegistered(p) \/ AddAuthHeader(p)
                \/ AddHeaders(p) \/ ServeAnnounce(p) \/ ServeSystem(p) \/ Refuse(p)
                \/ HandleSystemToken(p) \/ Continue(p) \/ \E c \in Commands : Start(p, c)
         PROVE  "crash" \notin past /\ \A q \in Procs \ {p} : run'[q] = run[q]
    <2>1. "crash" \notin past
      BY <1>11 DEF WriteFile, Lose, IsRegistered, AddAuthHeader, AddHeaders, ServeAnnounce,
                   ServeSystem, Refuse, HandleSystemToken, Continue, Start, Remember
    <2>2. \E r : Become(p, r)
      BY <1>11 DEF WriteFile, Lose, IsRegistered, AddAuthHeader, AddHeaders, ServeAnnounce,
                   ServeSystem, Refuse, HandleSystemToken, Continue, Start, Exit, Answer, Answered
    <2> QED
      BY <2>1, <2>2, <1>3
  <1> QED
    BY <1>2, <1>4, <1>5, <1>6, <1>7, <1>8, <1>9, <1>10, <1>11 DEF Next, Step

\* In every execution without a crash, a truncated credentials file is held open by a
\* process that is about to complete it, whatever the number of processes.
THEOREM TruncationIsTransient == Spec => []TruncatedHasWriter
  <1>1. Init => TruncatedHasWriter
    BY DistinctAssumption DEF Init, TruncatedHasWriter
  <1>2. Spec => []TypeInv
    BY InitTypeInv, NextTypeInv, PTL DEF Spec
  <1> QED
    BY <1>1, <1>2, TruncatedHasWriterStep, PTL DEF Spec

-----------------------------------------------------------------------------
(***************************************************************************)
(* NoStaleCredentials. A login that the file, a buffer or an accepted      *)
(* announcement names exists on the server, until the deregister that      *)
(* deleted it has removed the file.                                        *)
(***************************************************************************)
Deleted(r)  == /\ r.cmd = "deregister" /\ r.call = "delete" /\ r.ok
               /\ r.at \in {"reply", "trunc", "write", "done", "unlink"}
Known(l)    == l \in live \/ \E p \in Procs : Deleted(run[p])
Accepted(r) == r.call = "announce" /\ r.ok /\ r.at \in {"reply", "trunc", "write", "done"}
Buffered(r) == r.at \in {"trunc", "write"}

Vouched(r) ==
    /\ Accepted(r) => Known(r.who)
    /\ Buffered(r) => Known(r.buf.login)

Vouching ==
    /\ Parses(file) => Known(file.login)
    /\ \A p \in Procs : Vouched(run[p])

\* Only a deregister deletes the system.
DeletesOnPurpose == \A p \in Procs : run[p].call = "delete" => run[p].cmd = "deregister"

Quiet    == past \cap {"raced", "lost", "crash"} = {}
StaleInv == DeletesOnPurpose /\ (Quiet => Vouching)

\* The history only grows: what has raced stays so.
LEMMA PastGrows == [Next]_vars => past \subseteq past'
  BY DEF Next, Step, vars, Start, IsRegistered, AddAuthHeader, AddHeaders, ServeAnnounce,
         ServeSystem, Refuse, HandleSystemToken, OpenTruncate, WriteFile, Continue, RemoveFile,
         Lose, Crash, Remember

LEMMA IdleNames == ~Deleted(Idle) /\ ~Accepted(Idle) /\ ~Buffered(Idle) /\ Idle.call # "delete"
  BY DEF Idle, Deleted, Accepted, Buffered

\* A step of p to the record r keeps what every login rests on.
LEMMA VouchingKept ==
  ASSUME TypeInv, Vouching, NEW p \in Procs, NEW r, Become(p, r),
         live \subseteq live' \/ Deleted(r), Deleted(run[p]) => Deleted(r),
         Parses(file') => \/ Parses(file) /\ file'.login = file.login
                          \/ Buffered(run[p]) /\ file'.login = run[p].buf.login,
         Accepted(r) => r.who \in live' \/ (Accepted(run[p]) /\ r.who = run[p].who),
         Buffered(r) => \/ Buffered(run[p]) /\ r.buf.login = run[p].buf.login
                        \/ Accepted(run[p]) /\ r.buf.login = run[p].who
                        \/ Parses(file) /\ r.buf.login = file.login
  PROVE  Vouching'
  <1>1. run'[p] = r /\ \A q \in Procs \ {p} : run'[q] = run[q]
    BY DEF Become, TypeInv, TypeOK
  <1>2. ASSUME NEW l, Known(l) PROVE Known(l)'
    <2>1. CASE l \in live
      BY <1>1, <2>1 DEF Known
    <2>2. CASE l \notin live
      <3>1. PICK q \in Procs : Deleted(run[q])
        BY <1>2, <2>2 DEF Known
      <3>2. Deleted(run'[q])
        BY <1>1, <3>1
      <3> QED
        BY <3>2 DEF Known
    <2> QED
      BY <2>1, <2>2
  <1>3. Parses(file') => Known(file.login)'
    BY <1>2 DEF Vouching, Vouched
  <1>4. ASSUME NEW l, l \in live' PROVE Known(l)'
    BY <1>4 DEF Known
  <1>5. (Accepted(r) => Known(r.who)') /\ (Buffered(r) => Known(r.buf.login)')
    BY <1>2, <1>4 DEF Vouching, Vouched
  <1>6. Vouched(run[p])'
    BY <1>1, <1>5 DEF Vouched
  <1>7. ASSUME NEW q \in Procs \ {p} PROVE Vouched(run[q])'
    <2>1. Vouched(run[q])
      BY DEF Vouching
    <2> QED
      BY <1>1, <1>2, <2>1 DEF Vouched
  <1> QED
    BY <1>3, <1>6, <1>7 DEF Vouching

\* Ending a command that is not a deregister after its deletion.
LEMMA ExitVouches ==
  ASSUME TypeInv, Vouching, NEW p \in Procs, Exit(p), ~Deleted(run[p]),
         file' = file, live' = live
  PROVE  Vouching'
  BY IdleNames, VouchingKept DEF Exit

\* The next call of a command names nobody yet.
LEMMA NextCallNames ==
  ASSUME NEW r, RunOK(r)
  PROVE  LET n == NextProductCall(r)
         IN  ~Accepted(n) /\ ~Buffered(n) /\ n.cmd = r.cmd
  <1> DEFINE n == NextProductCall(r)
  <1>1. n.at = "auth" /\ n.call \in {"product", "delete"} /\ n.cmd = r.cmd
    BY DEF NextProductCall, Fresh, RunOK, Runs
  <1> QED
    BY <1>1 DEF Accepted, Buffered

\* An answer of the server.
LEMMA AnswerIs ==
  ASSUME TypeInv, NEW p \in Procs, NEW k, NEW ok, Answer(p, k, ok)
  PROVE  \E r : /\ Become(p, r) /\ r.at = "reply" /\ r.who = k /\ r.ok = ok
                /\ r.cmd = run[p].cmd /\ r.call = run[p].call
  <1>1. PICK t : Answered(p, k, ok, t)
    BY DEF Answer
  <1> DEFINE r == [run[p] EXCEPT !.who = k, !.ok = ok, !.reply = t, !.sent = NoToken,
                                 !.at = "reply"]
  <1>2. /\ r.at = "reply" /\ r.who = k /\ r.ok = ok /\ r.cmd = run[p].cmd
        /\ r.call = run[p].call
    BY RunIsOK DEF RunOK, Runs
  <1> QED
    BY <1>1, <1>2 DEF Answered

LEMMA StepVouches ==
  ASSUME TypeInv, DeletesOnPurpose, Vouching, Quiet, Quiet', NEW p \in Procs,
         Step(p) \/ Lose(p) \/ Crash(p) \/ \E c \in Commands : Start(p, c)
  PROVE  Vouching'
  <1> DEFINE s == run[p]
  <1>a. RunOK(s)
    BY RunIsOK
  <1>1. ASSUME NEW c \in Commands, Start(p, c) PROVE Vouching'
    <2>1. PICK n \in 0..MaxCalls :
            Become(p, [Idle EXCEPT !.at = IF c = "cleanup" THEN "unlink" ELSE "check",
                                   !.cmd = c, !.left = n])
      BY <1>1 DEF Start
    <2> DEFINE r == [Idle EXCEPT !.at = IF c = "cleanup" THEN "unlink" ELSE "check",
                                 !.cmd = c, !.left = n]
    <2>2. ~Accepted(r) /\ ~Buffered(r)
      BY DEF Accepted, Buffered, Idle
    <2>3. ~Deleted(s)
      BY <1>1 DEF Start, Deleted
    <2> QED
      BY <1>1, <2>1, <2>2, <2>3, VouchingKept DEF Start
  <1>2. ASSUME IsRegistered(p) PROVE Vouching'
    <2> DEFINE u == [s EXCEPT !.call = "update", !.at = "auth"]
               a == [s EXCEPT !.call = "announce", !.at = "headers"]
    <2>1. ~Accepted(u) /\ ~Buffered(u) /\ ~Accepted(a) /\ ~Buffered(a)
      BY <1>a DEF Accepted, Buffered, RunOK, Runs
    <2>2. ~Accepted(NextProductCall(s)) /\ ~Buffered(NextProductCall(s))
      BY <1>a, NextCallNames
    <2>3. ~Deleted(s) /\ file' = file /\ live' = live
      BY <1>2 DEF IsRegistered, Deleted
    <2>4. CASE Become(p, u)
      BY <2>1, <2>3, <2>4, VouchingKept
    <2>5. CASE Become(p, a)
      BY <2>1, <2>3, <2>5, VouchingKept
    <2>6. CASE Become(p, NextProductCall(s))
      BY <2>2, <2>3, <2>6, VouchingKept
    <2>7. CASE Exit(p)
      BY <2>3, <2>7, ExitVouches
    <2> QED
      BY <1>2, <2>4, <2>5, <2>6, <2>7 DEF IsRegistered
  <1>3. ASSUME AddAuthHeader(p) PROVE Vouching'
    <2> DEFINE r == [s EXCEPT !.who = file.login, !.at = "headers"]
    <2>1. ~Accepted(r) /\ ~Buffered(r)
      BY <1>a DEF Accepted, Buffered, RunOK, Runs
    <2>2. ~Deleted(s) /\ file' = file /\ live' = live
      BY <1>3 DEF AddAuthHeader, Deleted
    <2>3. CASE Become(p, r)
      BY <2>1, <2>2, <2>3, VouchingKept
    <2> QED
      BY <1>3, <2>2, <2>3, ExitVouches DEF AddAuthHeader
  <1>4. ASSUME AddHeaders(p) PROVE Vouching'
    <2> DEFINE r == [s EXCEPT !.sent = IF Parses(file) THEN file.token ELSE NoToken,
                              !.at = "sent"]
    <2>1. ~Accepted(r) /\ ~Buffered(r)
      BY <1>a DEF Accepted, Buffered, RunOK, Runs
    <2>2. ~Deleted(s) /\ file' = file /\ live' = live /\ Become(p, r)
      BY <1>4 DEF AddHeaders, Deleted
    <2> QED
      BY <2>1, <2>2, VouchingKept
  <1>5. ASSUME ServeAnnounce(p) PROVE Vouching'
    <2>0. PICK yes \in BOOLEAN : yes = TRUE
      OBVIOUS
    <2>1. PICK k \in Logins : live' = live \cup {k} /\ Answer(p, k, yes)
      BY <1>5, <2>0 DEF ServeAnnounce
    <2>2. PICK r : Become(p, r) /\ r.at = "reply" /\ r.who = k
      BY <2>1, AnswerIs
    <2>3. ~Deleted(s) /\ file' = file
      BY <1>5 DEF ServeAnnounce, Deleted
    <2>4. ~Buffered(r) /\ r.who \in live'
      BY <2>1, <2>2 DEF Buffered
    <2> QED
      BY <2>1, <2>2, <2>3, <2>4, VouchingKept
  <1>6. ASSUME ServeSystem(p) PROVE Vouching'
    <2>1. PICK ok \in BOOLEAN :
            /\ Answer(p, s.who, ok)
            /\ live' = IF ok /\ s.call = "delete" THEN live \ {s.who} ELSE live
      BY <1>6 DEF ServeSystem
    <2>2. PICK r : /\ Become(p, r) /\ r.at = "reply" /\ r.ok = ok
                   /\ r.cmd = s.cmd /\ r.call = s.call
      BY <2>1, AnswerIs
    <2>3. ~Deleted(s) /\ file' = file /\ s.call # "announce"
      BY <1>6 DEF ServeSystem, Deleted
    <2>4. ~Buffered(r) /\ ~Accepted(r)
      BY <2>2, <2>3 DEF Buffered, Accepted
    <2>5. live \subseteq live' \/ Deleted(r)
      BY <2>1, <2>2 DEF Deleted, DeletesOnPurpose
    <2> QED
      BY <2>2, <2>3, <2>4, <2>5, VouchingKept
  <1>7. ASSUME Refuse(p) PROVE Vouching'
    <2> DEFINE r == [s EXCEPT !.who = s.who, !.ok = FALSE, !.reply = NoToken,
                              !.sent = NoToken, !.at = "reply"]
    <2>1. ~Accepted(r) /\ ~Buffered(r)
      BY <1>a DEF Accepted, Buffered, RunOK, Runs
    <2>2. ~Deleted(s) /\ file' = file /\ live' = live /\ Become(p, r)
      BY <1>7 DEF Refuse, Answered, Deleted
    <2> QED
      BY <2>1, <2>2, VouchingKept
  <1>8. ASSUME HandleSystemToken(p) PROVE Vouching'
    <2> DEFINE d == [s EXCEPT !.at = "done", !.reply = NoToken]
               b == [file EXCEPT !.token = s.reply]
               t == [s EXCEPT !.at = "trunc", !.reply = NoToken, !.buf = b]
    <2>1. file' = file /\ live' = live /\ s.at = "reply"
      BY <1>8 DEF HandleSystemToken
    <2>2. d.at = "done" /\ d.call = s.call /\ d.cmd = s.cmd /\ d.ok = s.ok /\ d.who = s.who
      BY <1>a DEF RunOK, Runs
    <2>3. CASE Become(p, d)
      <3>1. /\ ~Buffered(d) /\ (Deleted(s) => Deleted(d))
            /\ (Accepted(d) => Accepted(s) /\ d.who = s.who)
        BY <2>1, <2>2 DEF Buffered, Deleted, Accepted
      <3> QED
        BY <2>1, <2>3, <3>1, VouchingKept
    <2>4. CASE ~Ignored(s) /\ Become(p, t)
      <3>1. t.at = "trunc" /\ t.call = s.call /\ t.cmd = s.cmd /\ t.ok = s.ok /\ t.who = s.who
            /\ t.buf = b
        BY <1>a DEF RunOK, Runs
      <3>2. (Deleted(s) => Deleted(t)) /\ (Accepted(t) => Accepted(s) /\ t.who = s.who)
        BY <2>1, <3>1 DEF Deleted, Accepted
      <3>3. Parses(file) /\ t.buf.login = file.login
        BY <2>4, <3>1, ParsedFile DEF Ignored, Creds
      <3> QED
        BY <2>1, <2>4, <3>2, <3>3, VouchingKept
    <2> QED
      BY <1>8, <2>3, <2>4 DEF HandleSystemToken
  <1>9. ASSUME OpenTruncate(p) PROVE Vouching'
    <2> DEFINE r == [s EXCEPT !.fd = TRUE, !.at = "write"]
    <2>1. r.at = "write" /\ r.call = s.call /\ r.cmd = s.cmd /\ r.ok = s.ok /\ r.who = s.who
          /\ r.buf = s.buf
      BY <1>a DEF RunOK, Runs
    <2>2. s.at = "trunc" /\ ~Parses(file') /\ live' = live /\ Become(p, r)
      BY <1>9 DEF OpenTruncate, Parses
    <2>3. /\ Deleted(s) => Deleted(r)
          /\ Accepted(r) => Accepted(s) /\ r.who = s.who
          /\ Buffered(s) /\ r.buf.login = s.buf.login
      BY <2>1, <2>2 DEF Deleted, Accepted, Buffered
    <2> QED
      BY <2>2, <2>3, VouchingKept
  <1>10. ASSUME WriteFile(p) PROVE Vouching'
    <2> DEFINE r == [s EXCEPT !.fd = FALSE, !.buf = Missing, !.at = "done"]
    <2>1. r.at = "done" /\ r.call = s.call /\ r.cmd = s.cmd /\ r.ok = s.ok /\ r.who = s.who
      BY <1>a DEF RunOK, Runs
    <2>2. s.at = "write" /\ live' = live /\ Become(p, r)
      BY <1>10 DEF WriteFile
    <2>3. /\ Deleted(s) => Deleted(r)
          /\ Accepted(r) => Accepted(s) /\ r.who = s.who
          /\ Buffered(s) /\ ~Buffered(r)
      BY <2>1, <2>2 DEF Deleted, Accepted, Buffered
    <2>4. Overlay(file, s.buf).login = s.buf.login
      BY <1>a, <2>2 DEF Overlay, RunOK, Creds
    <2>5. file' = file \/ file'.login = s.buf.login
      BY <1>10, <2>4 DEF WriteFile
    <2> QED
      BY <2>2, <2>3, <2>5, VouchingKept
  <1>11. ASSUME Continue(p) PROVE Vouching'
    <2> DEFINE new == [login |-> s.who, token |-> NoToken]
               c == [s EXCEPT !.call = "create", !.at = "trunc", !.buf = new]
               u == [s EXCEPT !.at = "unlink"]
    <2>1. s.at = "done" /\ file' = file /\ live' = live
      BY <1>11 DEF Continue
    <2>2. CASE s.ok /\ s.call = "announce" /\ Become(p, c)
      <3>1. c.at = "trunc" /\ c.call = "create" /\ c.buf.login = s.who
        BY <1>a DEF RunOK, Runs
      <3>2. ~Deleted(s) /\ ~Accepted(c) /\ Accepted(s)
        BY <2>1, <2>2, <3>1 DEF Deleted, Accepted
      <3> QED
        BY <2>1, <2>2, <3>1, <3>2, VouchingKept
    <2>3. CASE s.call \in {"create", "update", "product"} /\ Become(p, NextProductCall(s))
      <3>1. ~Accepted(NextProductCall(s)) /\ ~Buffered(NextProductCall(s)) /\ ~Deleted(s)
        BY <1>a, <2>3, NextCallNames DEF Deleted
      <3> QED
        BY <2>1, <2>3, <3>1, VouchingKept
    <2>4. CASE s.call = "delete" /\ Become(p, u)
      <3>1. u.at = "unlink" /\ u.call = s.call /\ u.cmd = s.cmd /\ u.ok = s.ok
        BY <1>a DEF RunOK, Runs
      <3>2. ~Accepted(u) /\ ~Buffered(u) /\ (Deleted(s) => Deleted(u))
        BY <3>1 DEF Accepted, Buffered, Deleted
      <3> QED
        BY <2>1, <2>4, <3>2, VouchingKept
    <2>5. CASE (~s.ok \/ s.call # "delete") /\ Exit(p)
      BY <2>1, <2>5, ExitVouches DEF Deleted
    <2> QED
      BY <1>11, <2>2, <2>3, <2>4, <2>5 DEF Continue
  <1>12. ASSUME RemoveFile(p) PROVE Vouching'
    <2>1. Alone(p) /\ ~Parses(file')
      BY <1>12 DEF RemoveFile, Remember, Parses, Quiet
    <2>2. ASSUME NEW q \in Procs PROVE run'[q].at = "idle"
      <3>1. CASE q = p
        BY <1>12, <3>1 DEF RemoveFile, Idle
      <3>2. CASE q # p
        BY <1>12, <2>1, <3>2, RunIsOK DEF RemoveFile, Alone, RunOK, Runs
      <3> QED
        BY <3>1, <3>2
    <2>3. ASSUME NEW q \in Procs PROVE Vouched(run[q])'
      BY <2>2 DEF Vouched, Accepted, Buffered
    <2> QED
      BY <2>1, <2>3 DEF Vouching
  <1>13. ASSUME Lose(p) PROVE Vouching'
    <2>1. ~Deleted(s)
      BY <1>13 DEF Lose, Remember, Quiet, InFlight, Deleted
    <2> QED
      BY <1>13, <2>1, ExitVouches DEF Lose
  <1>14. ~Crash(p)
    BY DEF Crash, Remember, Quiet
  <1> QED
    BY <1>1, <1>2, <1>3, <1>4, <1>5, <1>6, <1>7, <1>8, <1>9, <1>10, <1>11, <1>12, <1>13,
       <1>14 DEF Step

-----------------------------------------------------------------------------
\* A deletion is the last call of a deregister, and of nothing else.
LEMMA DeletesOnPurposeStep ==
  ASSUME TypeInv, DeletesOnPurpose, [Next]_vars
  PROVE  DeletesOnPurpose'
  <1>1. CASE UNCHANGED vars
    BY <1>1 DEF DeletesOnPurpose, vars
  <1>2. ASSUME NEW p \in Procs, NEW r, Become(p, r), r.call = "delete" => r.cmd = "deregister"
        PROVE  DeletesOnPurpose'
    BY <1>2 DEF Become, DeletesOnPurpose, TypeInv, TypeOK
  <1>3. ASSUME NEW p \in Procs, Exit(p) PROVE DeletesOnPurpose'
    BY <1>2, <1>3, IdleNames DEF Exit
  <1>4. ASSUME NEW p \in Procs, NEW k, NEW ok, Answer(p, k, ok) PROVE DeletesOnPurpose'
    <2>1. PICK r : Become(p, r) /\ r.cmd = run[p].cmd /\ r.call = run[p].call
      BY <1>4, AnswerIs
    <2> QED
      BY <1>2, <2>1 DEF DeletesOnPurpose
  <1>5. ASSUME NEW p \in Procs, NEW r, Become(p, r), r.call = run[p].call, r.cmd = run[p].cmd
        PROVE  DeletesOnPurpose'
    BY <1>2, <1>5 DEF DeletesOnPurpose
  <1>6. ASSUME NEW p \in Procs, Become(p, NextProductCall(run[p])),
               run[p].cmd = "deregister" \/ run[p].left > 0
        PROVE  DeletesOnPurpose'
    <2> DEFINE r == NextProductCall(run[p])
    <2>1. r.call = "delete" => r.cmd = "deregister"
      BY <1>6, RunIsOK DEF NextProductCall, Fresh, RunOK, Runs
    <2> QED
      BY <1>2, <1>6, <2>1
  <1>7. ASSUME NEW p \in Procs, NEW c \in Commands, Start(p, c) PROVE DeletesOnPurpose'
    <2>1. PICK n \in 0..MaxCalls :
            Become(p, [Idle EXCEPT !.at = IF c = "cleanup" THEN "unlink" ELSE "check",
                                   !.cmd = c, !.left = n])
      BY <1>7 DEF Start
    <2> DEFINE r == [Idle EXCEPT !.at = IF c = "cleanup" THEN "unlink" ELSE "check",
                                 !.cmd = c, !.left = n]
    <2>2. r.call # "delete"
      BY DEF Idle
    <2> QED
      BY <1>2, <2>1, <2>2
  <1>8. ASSUME NEW p \in Procs, IsRegistered(p) PROVE DeletesOnPurpose'
    <2> DEFINE u == [run[p] EXCEPT !.call = "update", !.at = "auth"]
               a == [run[p] EXCEPT !.call = "announce", !.at = "headers"]
    <2>1. u.call # "delete" /\ a.call # "delete"
      BY RunIsOK DEF RunOK, Runs
    <2>2. \/ Become(p, u) \/ Become(p, a) \/ Exit(p)
          \/ run[p].cmd = "deregister" /\ Become(p, NextProductCall(run[p]))
      BY <1>8 DEF IsRegistered
    <2> QED
      BY <1>2, <1>3, <1>6, <2>1, <2>2
  <1>9. ASSUME NEW p \in Procs, Continue(p) PROVE DeletesOnPurpose'
    <2> DEFINE c == [run[p] EXCEPT !.call = "create", !.at = "trunc",
                                   !.buf = [login |-> run[p].who, token |-> NoToken]]
               u == [run[p] EXCEPT !.at = "unlink"]
    <2>1. c.call # "delete" /\ u.call = run[p].call /\ u.cmd = run[p].cmd
      BY RunIsOK DEF RunOK, Runs
    <2>2. \/ Become(p, c) \/ Become(p, u) \/ Exit(p)
          \/ /\ run[p].cmd = "deregister" \/ run[p].left > 0
             /\ Become(p, NextProductCall(run[p]))
      BY <1>9 DEF Continue
    <2> QED
      BY <1>2, <1>3, <1>5, <1>6, <2>1, <2>2
  <1>10. ASSUME NEW p \in Procs, RemoveFile(p) PROVE DeletesOnPurpose'
    <2>1. ASSUME NEW q \in Procs
          PROVE  run'[q].call = "delete" => run'[q].cmd = "deregister"
      BY <1>10, IdleNames, RunIsOK DEF RemoveFile, DeletesOnPurpose, RunOK, Runs
    <2> QED
      BY <2>1 DEF DeletesOnPurpose
  <1>11. ASSUME NEW p \in Procs,
                ServeAnnounce(p) \/ ServeSystem(p) \/ Lose(p) \/ Crash(p)
         PROVE  DeletesOnPurpose'
    BY <1>3, <1>4, <1>11 DEF ServeAnnounce, ServeSystem, Lose, Crash
  <1>12. ASSUME NEW p \in Procs,
                AddAuthHeader(p) \/ AddHeaders(p) \/ Refuse(p) \/ HandleSystemToken(p)
                \/ OpenTruncate(p) \/ WriteFile(p)
         PROVE  \/ \E r : Become(p, r) /\ r.call = run[p].call /\ r.cmd = run[p].cmd
                \/ Exit(p)
    <2> DEFINE s == run[p]
    <2>1. RunOK(s)
      BY RunIsOK
    <2>2. CASE AddAuthHeader(p)
      <3> DEFINE r == [s EXCEPT !.who = file.login, !.at = "headers"]
      <3>1. r.call = s.call /\ r.cmd = s.cmd
        BY <2>1 DEF RunOK, Runs
      <3> QED
        BY <2>2, <3>1 DEF AddAuthHeader
    <2>3. CASE AddHeaders(p)
      <3> DEFINE r == [s EXCEPT !.sent = IF Parses(file) THEN file.token ELSE NoToken,
                                !.at = "sent"]
      <3>1. r.call = s.call /\ r.cmd = s.cmd
        BY <2>1 DEF RunOK, Runs
      <3> QED
        BY <2>3, <3>1 DEF AddHeaders
    <2>4. CASE Refuse(p)
      <3> DEFINE r == [s EXCEPT !.who = s.who, !.ok = FALSE, !.reply = NoToken,
                                !.sent = NoToken, !.at = "reply"]
      <3>1. r.call = s.call /\ r.cmd = s.cmd
        BY <2>1 DEF RunOK, Runs
      <3> QED
        BY <2>4, <3>1 DEF Refuse, Answered
    <2>5. CASE HandleSystemToken(p)
      <3> DEFINE d == [s EXCEPT !.at = "done", !.reply = NoToken]
                 t == [s EXCEPT !.at = "trunc", !.reply = NoToken,
                                !.buf = [file EXCEPT !.token = s.reply]]
      <3>1. d.call = s.call /\ d.cmd = s.cmd /\ t.call = s.call /\ t.cmd = s.cmd
        BY <2>1 DEF RunOK, Runs
      <3> QED
        BY <2>5, <3>1 DEF HandleSystemToken
    <2>6. CASE OpenTruncate(p)
      <3> DEFINE r == [s EXCEPT !.fd = TRUE, !.at = "write"]
      <3>1. r.call = s.call /\ r.cmd = s.cmd
        BY <2>1 DEF RunOK, Runs
      <3> QED
        BY <2>6, <3>1 DEF OpenTruncate
    <2>7. CASE WriteFile(p)
      <3> DEFINE r == [s EXCEPT !.fd = FALSE, !.buf = Missing, !.at = "done"]
      <3>1. r.call = s.call /\ r.cmd = s.cmd
        BY <2>1 DEF RunOK, Runs
      <3> QED
        BY <2>7, <3>1 DEF WriteFile
    <2> QED
      BY <1>12, <2>2, <2>3, <2>4, <2>5, <2>6, <2>7
  <1> QED
    BY <1>1, <1>3, <1>5, <1>7, <1>8, <1>9, <1>10, <1>11, <1>12 DEF Next, Step

LEMMA InitStaleInv == Init => StaleInv
  BY IdleNames DEF Init, StaleInv, DeletesOnPurpose, Vouching, Vouched, Parses

LEMMA NextStaleInv == TypeInv /\ StaleInv /\ [Next]_vars => StaleInv'
  <1> SUFFICES ASSUME TypeInv, StaleInv, [Next]_vars PROVE StaleInv'
    OBVIOUS
  <1>1. DeletesOnPurpose'
    BY DeletesOnPurposeStep DEF StaleInv
  <1>2. ASSUME Quiet' PROVE Vouching'
    <2>1. Quiet /\ Vouching /\ DeletesOnPurpose
      BY <1>2, PastGrows DEF Quiet, StaleInv
    <2>2. CASE UNCHANGED vars
      BY <2>1, <2>2 DEF vars, Vouching, Vouched, Known
    <2> QED
      BY <1>2, <2>1, <2>2, StepVouches DEF Next
  <1> QED
    BY <1>1, <1>2 DEF StaleInv

\* Whatever the number of processes, and whatever answers the server refuses: as long
\* as no answer was lost, no process crashed and no identity changed beside another
\* process, the file never names a deleted system, except while the deregister that
\* deleted it goes on to remove the file.
THEOREM StaleOnlyDuringDeregister == Spec => []NoStaleCredentials
  <1>1. Spec => []TypeInv
    BY InitTypeInv, NextTypeInv, PTL DEF Spec
  <1>2. Spec => []StaleInv
    BY <1>1, InitStaleInv, NextStaleInv, PTL DEF Spec
  <1>3. StaleInv => NoStaleCredentials
    BY DEF StaleInv, Quiet, Vouching, Known, Deleted, NoStaleCredentials
  <1> QED
    BY <1>2, <1>3, PTL

-----------------------------------------------------------------------------
(***************************************************************************)
(* TokenBelongsToLogin for any number of processes. While no identity is   *)
(* taken or given up beside another process, there is one login l that     *)
(* every process, call, buffer and the file agree on; a process that       *)
(* announces is the only one at work, so that it may change l.             *)
(***************************************************************************)
TokenOf(l, t) == t = NoToken \/ t[1] = l
Holds(c, l)   == c.login = l /\ TokenOf(l, c.token)

\* What the process with the record r knows, it knows of l.
Agrees(r, l) ==
    /\ r.who \in {NoLogin, l} /\ TokenOf(l, r.reply)
    /\ r.at \in {"trunc", "write"} => Holds(r.buf, l) /\ r.call # "announce"
    /\ r.at \in {"auth", "headers", "sent", "reply"} => r.call # "create"
    /\ r.at = "auth" => r.call # "announce"
    /\ r.at \in {"idle", "check"} => r.who = NoLogin /\ r.reply = NoToken

\* From the decision to announce until the new credentials are in the file.
Announcing(r) ==
    \/ r.call = "announce" /\ r.at \in {"headers", "sent", "reply", "done"}
    \/ r.call = "create" /\ r.at \in {"trunc", "write"}

Waiting(r) == r.at \in {"idle", "check", "unlink"} /\ r.who = NoLogin /\ r.reply = NoToken

Identity(l) ==
    /\ Parses(file) => Holds(file, l)
    /\ \A p \in Procs : Agrees(run[p], l)
    /\ \A p \in Procs : Announcing(run[p]) =>
          ~Parses(file) /\ \A q \in Procs \ {p} : Waiting(run[q])

IdentityInv == "raced" \notin past => \E l \in Logins \cup {NoLogin} : Identity(l)

-----------------------------------------------------------------------------
LEMMA IdleAgrees == \A l : Agrees(Idle, l) /\ Waiting(Idle) /\ ~Announcing(Idle)
  BY DEF Agrees, Idle, TokenOf, Waiting, Announcing

\* A step of p to the record r keeps the identity when r agrees with it, and p
\* neither writes nor calls while another process announces.
LEMMA IdentityKept ==
  ASSUME TypeInv, NEW l, Identity(l), NEW p \in Procs, NEW r, Become(p, r), Agrees(r, l),
         Parses(file') => Holds(file', l),
         Announcing(r) => ~Parses(file') /\ (Announcing(run[p]) \/ Alone(p)),
         file' = file \/ ~Waiting(run[p]),
         Waiting(run[p]) => Waiting(r) \/ Parses(file) \/ Alone(p)
  PROVE  Identity(l)'
  <1>1. run'[p] = r /\ \A q \in Procs \ {p} : run'[q] = run[q]
    BY DEF Become, TypeInv, TypeOK
  <1>2. \A q \in Procs : Agrees(run'[q], l)
    BY <1>1 DEF Identity
  <1>3. ASSUME Announcing(r) PROVE \A q \in Procs \ {p} : Waiting(run'[q])
    <2>1. CASE Announcing(run[p])
      BY <1>1, <2>1 DEF Identity
    <2>2. CASE Alone(p)
      BY <1>1, <2>2 DEF Identity, Alone, Agrees, Waiting
    <2> QED
      BY <1>3, <2>1, <2>2
  <1>4. ASSUME NEW q \in Procs \ {p}, Announcing(run[q])
        PROVE  ~Parses(file') /\ \A o \in Procs \ {q} : Waiting(run'[o])
    <2>1. ~Parses(file) /\ \A o \in Procs \ {q} : Waiting(run[o])
      BY <1>4 DEF Identity
    <2>2. ~Alone(p)
      BY <1>4 DEF Alone, Announcing
    <2> QED
      BY <1>1, <2>1, <2>2
  <1> QED
    BY <1>1, <1>2, <1>3, <1>4 DEF Identity

\* Leaving the file alone and ending the command keeps the identity.
LEMMA ExitKeepsIdentity ==
  ASSUME TypeInv, NEW l, Identity(l), NEW p \in Procs, Exit(p), file' = file
  PROVE  Identity(l)'
  <1>1. Parses(file') => Holds(file', l)
    BY DEF Identity
  <1> QED
    BY <1>1, IdleAgrees, IdentityKept DEF Exit

\* The next call starts with nothing known but the last token.
LEMMA NextCallAgrees ==
  ASSUME NEW r, NEW l, RunOK(r), Agrees(r, l)
  PROVE  Agrees(NextProductCall(r), l) /\ ~Announcing(NextProductCall(r))
  <1> DEFINE n == NextProductCall(r)
  <1>1. n.at = "auth" /\ n.call \in {"product", "delete"} /\ n.who = NoLogin /\ n.reply = r.reply
    BY DEF NextProductCall, Fresh, RunOK, Runs
  <1> QED
    BY <1>1 DEF Agrees, Announcing

\* An answer to a call of a known system brings a token of that system only.
LEMMA AnswerAgrees ==
  ASSUME TypeInv, NEW p \in Procs, NEW k \in Logins, NEW ok \in BOOLEAN,
         run[p].call # "create", Answer(p, k, ok)
  PROVE  \E r : /\ Become(p, r) /\ Agrees(r, k) /\ ~Waiting(r)
                /\ Announcing(r) => run[p].call = "announce"
  <1>2. PICK t : Answered(p, k, ok, t) /\ TokenOf(k, t)
    BY DEF Answer, TokenOf
  <1> DEFINE r == [run[p] EXCEPT !.who = k, !.ok = ok, !.reply = t, !.sent = NoToken,
                                 !.at = "reply"]
  <1>3. r.who = k /\ r.reply = t /\ r.at = "reply" /\ r.call = run[p].call
    BY RunIsOK DEF RunOK, Runs
  <1> QED
    BY <1>2, <1>3 DEF Answered, Agrees, Announcing, Waiting

\* The new login of an announcement replaces the old one everywhere.
LEMMA AnnouncementKeepsIdentity ==
  ASSUME TypeInv, NEW l, Identity(l), NEW p \in Procs, NEW k \in Logins,
         run[p].at = "sent", run[p].call = "announce", Answer(p, k, TRUE), file' = file
  PROVE  Identity(k)'
  <1>1. PICK r : Become(p, r) /\ Agrees(r, k) /\ ~Waiting(r)
                 /\ (Announcing(r) => run[p].call = "announce")
    BY AnswerAgrees
  <1>2. run'[p] = r /\ \A q \in Procs \ {p} : run'[q] = run[q]
    BY <1>1 DEF Become, TypeInv, TypeOK
  <1>3. ~Parses(file) /\ \A q \in Procs \ {p} : Waiting(run[q])
    BY DEF Identity, Announcing
  <1>4. \A q \in Procs \ {p} : Agrees(run[q], k) /\ ~Announcing(run[q])
    BY <1>3 DEF Waiting, Agrees, Announcing, TokenOf
  <1> QED
    BY <1>1, <1>2, <1>3, <1>4 DEF Identity

-----------------------------------------------------------------------------
\* A step that raced with nothing keeps the identity, or replaces it.
LEMMA StepKeepsIdentity ==
  ASSUME TypeInv, NEW l \in Logins \cup {NoLogin}, Identity(l), NEW p \in Procs,
         Step(p) \/ Lose(p) \/ Crash(p) \/ \E c \in Commands : Start(p, c),
         "raced" \notin past'
  PROVE  \E k \in Logins \cup {NoLogin} : Identity(k)'
  <1> DEFINE s == run[p]
  <1>a. RunOK(s) /\ Agrees(s, l) /\ (Parses(file) => Holds(file, l) /\ file \in Creds)
    BY RunIsOK, ParsedFile DEF Identity
  <1>1. ASSUME NEW c \in Commands, Start(p, c) PROVE Identity(l)'
    <2>1. PICK n \in 0..MaxCalls :
            Become(p, [Idle EXCEPT !.at = IF c = "cleanup" THEN "unlink" ELSE "check",
                                   !.cmd = c, !.left = n])
      BY <1>1 DEF Start
    <2> DEFINE r == [Idle EXCEPT !.at = IF c = "cleanup" THEN "unlink" ELSE "check",
                                 !.cmd = c, !.left = n]
    <2>2. Agrees(r, l) /\ Waiting(r) /\ ~Announcing(r)
      BY DEF Agrees, Waiting, Announcing, Idle, TokenOf
    <2> QED
      BY <1>1, <1>a, <2>1, <2>2, IdentityKept DEF Start
  <1>2. ASSUME IsRegistered(p) PROVE Identity(l)'
    <2> DEFINE u == [s EXCEPT !.call = "update", !.at = "auth"]
               a == [s EXCEPT !.call = "announce", !.at = "headers"]
    <2>1. Agrees(u, l) /\ ~Announcing(u)
      BY <1>2, <1>a DEF IsRegistered, Agrees, Announcing, RunOK, Runs
    <2>2. Agrees(a, l)
      BY <1>2, <1>a DEF IsRegistered, Agrees, Announcing, RunOK, Runs
    <2>3. Agrees(NextProductCall(s), l) /\ ~Announcing(NextProductCall(s))
      BY <1>a, NextCallAgrees
    <2>4. file' = file
      BY <1>2 DEF IsRegistered
    <2>5. CASE Parses(file) /\ Become(p, IF s.cmd = "deregister" THEN NextProductCall(s) ELSE u)
      BY <1>a, <2>1, <2>3, <2>4, <2>5, IdentityKept
    <2>6. CASE Announces(s) /\ Become(p, a) /\ Alone(p)
      BY <1>a, <2>2, <2>4, <2>6, IdentityKept DEF Announces
    <2>7. CASE Exit(p)
      BY <2>4, <2>7, ExitKeepsIdentity
    <2>8. Announces(s) /\ Remember(IF Alone(p) THEN {} ELSE {"raced"}) => Alone(p)
      BY DEF Remember
    <2> QED
      BY <1>2, <2>5, <2>6, <2>7, <2>8 DEF IsRegistered
  <1>3. ASSUME AddAuthHeader(p) PROVE Identity(l)'
    <2> DEFINE r == [s EXCEPT !.who = file.login, !.at = "headers"]
    <2>1. Parses(file) => Agrees(r, l) /\ ~Announcing(r)
      BY <1>3, <1>a DEF AddAuthHeader, Agrees, Announcing, Holds, RunOK, Runs
    <2>2. Parses(file) /\ Become(p, r) => Identity(l)'
      BY <1>3, <1>a, <2>1, IdentityKept DEF AddAuthHeader
    <2> QED
      BY <1>3, <2>2, ExitKeepsIdentity DEF AddAuthHeader
  <1>4. ASSUME AddHeaders(p) PROVE Identity(l)'
    <2> DEFINE r == [s EXCEPT !.sent = IF Parses(file) THEN file.token ELSE NoToken,
                              !.at = "sent"]
    <2>1. /\ Agrees(r, l) /\ ~Waiting(s) /\ (Announcing(r) => Announcing(s))
      BY <1>4, <1>a DEF AddHeaders, Agrees, Announcing, Waiting, RunOK, Runs
    <2>2. Announcing(r) => ~Parses(file)
      BY <2>1 DEF Identity
    <2> QED
      BY <1>4, <1>a, <2>1, <2>2, IdentityKept DEF AddHeaders
  <1>5. ASSUME ServeAnnounce(p) PROVE \E k \in Logins \cup {NoLogin} : Identity(k)'
    BY <1>5, AnnouncementKeepsIdentity DEF ServeAnnounce
  <1>6. ASSUME ServeSystem(p) PROVE Identity(l)'
    <2>1. s.who \in Logins /\ s.who = l
      BY <1>6, <1>a, DistinctAssumption DEF ServeSystem, Agrees, TypeInv, TypeOK
    <2>2. PICK ok \in BOOLEAN : Answer(p, run[p].who, ok)
      BY <1>6 DEF ServeSystem
    <2>3. s.call # "create" /\ s.call # "announce"
      BY <1>6, <1>a DEF ServeSystem, Agrees
    <2>4. l \in Logins
      BY <2>1
    <2>5. PICK r : Become(p, r) /\ Agrees(r, l) /\ ~Announcing(r)
      BY <2>1, <2>2, <2>3, <2>4, AnswerAgrees
    <2> QED
      BY <1>6, <1>a, <2>5, IdentityKept DEF ServeSystem, Waiting
  <1>7. ASSUME Refuse(p) PROVE Identity(l)'
    <2> DEFINE r == [s EXCEPT !.who = s.who, !.ok = FALSE, !.reply = NoToken,
                              !.sent = NoToken, !.at = "reply"]
    <2>1. Agrees(r, l) /\ ~Waiting(s) /\ (Announcing(r) => Announcing(s))
      BY <1>7, <1>a DEF Refuse, Agrees, Announcing, Waiting, TokenOf, RunOK, Runs
    <2>2. Announcing(r) => ~Parses(file)
      BY <2>1 DEF Identity
    <2> QED
      BY <1>7, <1>a, <2>1, <2>2, IdentityKept DEF Refuse, Answered
  <1>8. ASSUME HandleSystemToken(p) PROVE Identity(l)'
    <2> DEFINE d == [s EXCEPT !.at = "done", !.reply = NoToken]
               b == [file EXCEPT !.token = s.reply]
               t == [s EXCEPT !.at = "trunc", !.reply = NoToken, !.buf = b]
    <2>1. Agrees(d, l) /\ ~Waiting(s) /\ (Announcing(d) => Announcing(s) /\ ~Parses(file))
      BY <1>8, <1>a DEF HandleSystemToken, Agrees, Announcing, Waiting, TokenOf, RunOK, Runs,
                        Identity
    <2>2. ASSUME ~Ignored(s) PROVE Agrees(t, l) /\ ~Announcing(t)
      <3>1. Holds(b, l)
        BY <1>a, <2>2 DEF Ignored, Holds, Creds, Agrees
      <3>2. s.call # "announce" /\ s.call # "create"
        BY <1>8, <1>a, <2>2 DEF Ignored, Agrees, Announcing, HandleSystemToken, Identity
      <3>3. t.who = s.who /\ t.reply = NoToken /\ t.at = "trunc" /\ t.call = s.call /\ t.buf = b
        BY <1>a DEF RunOK, Runs
      <3> QED
        BY <1>a, <3>1, <3>2, <3>3 DEF Agrees, Announcing, TokenOf
    <2>3. CASE Become(p, d)
      BY <1>8, <1>a, <2>1, <2>3, IdentityKept DEF HandleSystemToken
    <2>4. CASE ~Ignored(s) /\ Become(p, t)
      BY <1>8, <1>a, <2>1, <2>2, <2>4, IdentityKept DEF HandleSystemToken
    <2> QED
      BY <1>8, <2>3, <2>4 DEF HandleSystemToken
  <1>9. ASSUME OpenTruncate(p) PROVE Identity(l)'
    <2> DEFINE r == [s EXCEPT !.fd = TRUE, !.at = "write"]
    <2>1. Agrees(r, l) /\ ~Waiting(s) /\ (Announcing(r) => Announcing(s))
      BY <1>9, <1>a DEF OpenTruncate, Agrees, Announcing, Waiting, RunOK, Runs
    <2>2. ~Parses(file')
      BY <1>9 DEF OpenTruncate, Parses
    <2> QED
      BY <1>9, <1>a, <2>1, <2>2, IdentityKept DEF OpenTruncate
  <1>10. ASSUME WriteFile(p) PROVE Identity(l)'
    <2> DEFINE r == [s EXCEPT !.fd = FALSE, !.buf = Missing, !.at = "done"]
    <2>1. Agrees(r, l) /\ ~Waiting(s) /\ ~Announcing(r)
      BY <1>10, <1>a DEF WriteFile, Agrees, Announcing, Waiting, RunOK, Runs
    <2>2. Holds(Overlay(file, s.buf), l)
      BY <1>10, <1>a DEF WriteFile, Overlay, Agrees, Holds, TokenOf, Creds, RunOK
    <2>3. Parses(file') => Holds(file', l)
      BY <1>10, <1>a, <2>2 DEF WriteFile
    <2> QED
      BY <1>10, <1>a, <2>1, <2>3, IdentityKept DEF WriteFile
  <1>11. ASSUME Continue(p) PROVE Identity(l)'
    <2> DEFINE new == [login |-> s.who, token |-> NoToken]
               c == [s EXCEPT !.call = "create", !.at = "trunc", !.buf = new]
               u == [s EXCEPT !.at = "unlink"]
    <2>1. ~Waiting(s) /\ file' = file
      BY <1>11 DEF Continue, Waiting
    <2>2. CASE s.ok /\ s.call = "announce" /\ Become(p, c)
      <3>1. Holds(new, l)
        BY <1>a, <2>2, DistinctAssumption DEF Holds, TokenOf, Agrees, RunOK
      <3>2. c.who = s.who /\ c.reply = s.reply /\ c.at = "trunc" /\ c.call = "create"
            /\ c.buf = new
        BY <1>a DEF RunOK, Runs
      <3>3. Agrees(c, l)
        BY <1>a, <3>1, <3>2 DEF Agrees
      <3>4. Announcing(s) /\ ~Parses(file)
        BY <1>11, <2>2 DEF Continue, Announcing, Identity
      <3> QED
        BY <1>a, <2>1, <2>2, <3>3, <3>4, IdentityKept
    <2>3. CASE Become(p, NextProductCall(s))
      <3>1. Agrees(NextProductCall(s), l) /\ ~Announcing(NextProductCall(s))
        BY <1>a, NextCallAgrees
      <3> QED
        BY <1>a, <2>1, <2>3, <3>1, IdentityKept
    <2>4. CASE Become(p, u)
      <3>1. Agrees(u, l) /\ ~Announcing(u)
        BY <1>a DEF Agrees, Announcing, RunOK, Runs
      <3> QED
        BY <1>a, <2>1, <2>4, <3>1, IdentityKept
    <2>5. CASE Exit(p)
      BY <2>1, <2>5, ExitKeepsIdentity
    <2> QED
      BY <1>11, <2>2, <2>3, <2>4, <2>5 DEF Continue
  <1>12. ASSUME RemoveFile(p) PROVE Identity(l)'
    <2>1. Alone(p) /\ ~Parses(file')
      BY <1>12 DEF RemoveFile, Remember, Parses
    <2>2. ASSUME NEW q \in Procs
          PROVE  Agrees(run'[q], l) /\ ~Announcing(run'[q])
      <3>1. CASE q = p
        BY <1>12, <3>1, IdleAgrees DEF RemoveFile
      <3>2. CASE q # p
        <4>1. run[q].at = "idle" /\ run'[q] = [run[q] EXCEPT !.fd = FALSE]
          BY <1>12, <2>1, <3>2 DEF RemoveFile, Alone
        <4>2. run'[q].at = "idle" /\ run'[q].who = run[q].who /\ run'[q].reply = run[q].reply
          BY <4>1, RunIsOK DEF RunOK, Runs
        <4> QED
          BY <4>1, <4>2 DEF Identity, Agrees, Announcing
      <3> QED
        BY <3>1, <3>2
    <2> QED
      BY <2>1, <2>2 DEF Identity
  <1>13. ASSUME Lose(p) PROVE Identity(l)'
    BY <1>13, ExitKeepsIdentity DEF Lose
  <1>14. ASSUME Crash(p) PROVE Identity(l)'
    BY <1>14, ExitKeepsIdentity DEF Crash
  <1> QED
    BY <1>1, <1>2, <1>3, <1>4, <1>5, <1>6, <1>7, <1>8, <1>9, <1>10, <1>11, <1>12, <1>13,
       <1>14 DEF Step

-----------------------------------------------------------------------------
LEMMA InitIdentity == Init => IdentityInv
  <1> SUFFICES ASSUME Init PROVE Identity(NoLogin)
    BY DEF IdentityInv
  <1> QED
    BY IdleAgrees DEF Init, Identity, Parses

LEMMA NextIdentity == TypeInv /\ IdentityInv /\ [Next]_vars => IdentityInv'
  <1> SUFFICES ASSUME TypeInv, IdentityInv, [Next]_vars, "raced" \notin past'
               PROVE  \E k \in Logins \cup {NoLogin} : Identity(k)'
    BY DEF IdentityInv
  <1>1. PICK l \in Logins \cup {NoLogin} : Identity(l)
    BY PastGrows DEF IdentityInv
  <1>2. CASE UNCHANGED vars
    BY <1>1, <1>2 DEF vars, Identity
  <1> QED
    BY <1>1, <1>2, StepKeepsIdentity DEF Next

\* Whatever the number of processes, and with every fault, the token in the
\* credentials file was issued to the login next to it, as long as no identity was
\* taken or given up while another process was running.
THEOREM IdentitiesAreNotMixed == Spec => []TokenBelongsToLogin
  <1>1. Spec => []TypeInv
    BY InitTypeInv, NextTypeInv, PTL DEF Spec
  <1>2. Spec => [](TypeInv /\ IdentityInv)
    BY <1>1, InitIdentity, NextIdentity, PTL DEF Spec
  <1>3. IdentityInv => TokenBelongsToLogin
    BY DEF IdentityInv, Identity, Holds, TokenOf, TokenBelongsToLogin
  <1> QED
    BY <1>2, <1>3, PTL

-----------------------------------------------------------------------------
(***************************************************************************)
(* AnnouncedOnce. The login of a system that exists is in the file, or a   *)
(* process is about to put it there; a process that announces has seen     *)
(* neither, so that no second system is announced.                         *)
(***************************************************************************)
Keeps(r) ==
    \/ r.call = "announce" /\ r.ok /\ r.at \in {"reply", "done"}
    \/ r.call = "create" /\ r.at = "trunc"
    \/ r.at = "write" /\ r.fd

AtMostOne == \E l : live \subseteq {l}
Kept      == live # {} => Parses(file) \/ \E p \in Procs : Keeps(run[p])

AnnouncedInv == past = {} => AtMostOne /\ Kept

\* A step of p to the record r announces nobody and loses nobody.
LEMMA AnnouncedKept ==
  ASSUME TypeInv, AtMostOne, Kept, NEW p \in Procs, NEW r, Become(p, r), live' \subseteq live,
         Keeps(run[p]) => Keeps(r) \/ Parses(file'),
         Parses(file) => Keeps(r) \/ Parses(file')
  PROVE  AtMostOne' /\ Kept'
  <1>1. run'[p] = r /\ \A q \in Procs \ {p} : run'[q] = run[q]
    BY DEF Become, TypeInv, TypeOK
  <1>2. AtMostOne'
    BY DEF AtMostOne
  <1>3. ASSUME live' # {} PROVE Parses(file') \/ \E q \in Procs : Keeps(run'[q])
    <2>1. Parses(file) \/ \E q \in Procs : Keeps(run[q])
      BY <1>3 DEF Kept
    <2>2. CASE Parses(file)
      BY <1>1, <2>2
    <2>3. ASSUME NEW q \in Procs, Keeps(run[q])
          PROVE  Parses(file') \/ \E o \in Procs : Keeps(run'[o])
      <3>1. CASE q = p
        BY <1>1, <2>3, <3>1
      <3>2. CASE q # p
        <4>1. Keeps(run'[q])
          BY <1>1, <2>3, <3>2
        <4> QED
          BY <4>1
      <3> QED
        BY <3>1, <3>2
    <2> QED
      BY <2>1, <2>2, <2>3
  <1> QED
    BY <1>2, <1>3 DEF Kept

LEMMA ExitKeepsAnnounced ==
  ASSUME TypeInv, AtMostOne, Kept, NEW p \in Procs, Exit(p), ~Keeps(run[p]),
         file' = file, live' = live
  PROVE  AtMostOne' /\ Kept'
  BY AnnouncedKept DEF Exit

LEMMA StepKeepsAnnounced ==
  ASSUME TypeInv, NEW l, Identity(l), AtMostOne, Kept, past = {}, past' = {}, NEW p \in Procs,
         Step(p) \/ Lose(p) \/ Crash(p) \/ \E c \in Commands : Start(p, c)
  PROVE  AtMostOne' /\ Kept'
  <1> DEFINE s == run[p]
  <1>a. RunOK(s) /\ Agrees(s, l)
    BY RunIsOK DEF Identity
  <1>b. ASSUME s.at \in {"idle", "check", "auth", "headers", "sent"} PROVE ~Keeps(s)
    BY <1>b DEF Keeps
  <1>1. ASSUME NEW c \in Commands, Start(p, c) PROVE AtMostOne' /\ Kept'
    <2>1. PICK r : Become(p, r)
      BY <1>1 DEF Start
    <2>2. ~Keeps(s) /\ file' = file /\ live' = live
      BY <1>1, <1>b DEF Start
    <2> QED
      BY <2>1, <2>2, AnnouncedKept
  <1>2. ASSUME IsRegistered(p) \/ AddAuthHeader(p) \/ AddHeaders(p) \/ Refuse(p)
        PROVE  AtMostOne' /\ Kept'
    <2>1. ~Keeps(s) /\ file' = file /\ live' = live
      BY <1>2, <1>b DEF IsRegistered, AddAuthHeader, AddHeaders, Refuse
    <2>2. \E r : Become(p, r)
      BY <1>2 DEF IsRegistered, AddAuthHeader, AddHeaders, Refuse, Answered, Exit
    <2> QED
      BY <2>1, <2>2, AnnouncedKept
  <1>3. ASSUME ServeAnnounce(p) PROVE AtMostOne' /\ Kept'
    <2>0. PICK yes \in BOOLEAN : yes = TRUE
      OBVIOUS
    <2>1. PICK k \in Logins : live' = live \cup {k} /\ Answer(p, k, yes)
      BY <1>3, <2>0 DEF ServeAnnounce
    <2>2. Announcing(s) /\ ~Keeps(s)
      BY <1>3, <1>b DEF ServeAnnounce, Announcing
    <2>3. ~Parses(file) /\ \A q \in Procs \ {p} : Waiting(run[q])
      BY <2>2 DEF Identity
    <2>4. \A q \in Procs : ~Keeps(run[q])
      BY <2>2, <2>3 DEF Waiting, Keeps
    <2>5. live = {}
      BY <2>3, <2>4 DEF Kept
    <2>6. PICK r : Become(p, r) /\ r.at = "reply" /\ r.ok = yes /\ r.call = s.call
      BY <2>1, AnswerIs
    <2>7. Keeps(r)
      BY <1>3, <2>0, <2>6 DEF ServeAnnounce, Keeps
    <2>8. run'[p] = r
      BY <2>6 DEF Become, TypeInv, TypeOK
    <2>9. Keeps(run'[p])
      BY <2>7, <2>8
    <2> QED
      BY <2>1, <2>5, <2>9 DEF AtMostOne, Kept
  <1>4. ASSUME ServeSystem(p) PROVE AtMostOne' /\ Kept'
    <2>1. PICK ok \in BOOLEAN : Answer(p, s.who, ok)
      BY <1>4 DEF ServeSystem
    <2>2. PICK r : Become(p, r)
      BY <2>1, AnswerIs
    <2>3. ~Keeps(s) /\ file' = file /\ live' \subseteq live
      BY <1>4, <1>b DEF ServeSystem
    <2> QED
      BY <2>2, <2>3, AnnouncedKept
  <1>5. ASSUME HandleSystemToken(p) PROVE AtMostOne' /\ Kept'
    <2> DEFINE d == [s EXCEPT !.at = "done", !.reply = NoToken]
               t == [s EXCEPT !.at = "trunc", !.reply = NoToken,
                              !.buf = [file EXCEPT !.token = s.reply]]
    <2>1. s.at = "reply" /\ file' = file /\ live' = live
      BY <1>5 DEF HandleSystemToken
    <2>2. d.at = "done" /\ d.call = s.call /\ d.ok = s.ok
      BY <1>a DEF RunOK, Runs
    <2>3. CASE Become(p, d)
      <3>1. Keeps(s) => Keeps(d)
        BY <2>1, <2>2 DEF Keeps
      <3> QED
        BY <2>1, <2>3, <3>1, AnnouncedKept
    <2>4. CASE Parses(file) /\ Become(p, t)
      BY <2>1, <2>4, AnnouncedKept
    <2> QED
      BY <1>5, <2>3, <2>4 DEF HandleSystemToken, Ignored
  <1>6. ASSUME OpenTruncate(p) PROVE AtMostOne' /\ Kept'
    <2> DEFINE r == [s EXCEPT !.fd = TRUE, !.at = "write"]
    <2>1. Keeps(r)
      BY <1>a DEF RunOK, Runs, Keeps
    <2>2. Become(p, r) /\ live' = live
      BY <1>6 DEF OpenTruncate
    <2> QED
      BY <2>1, <2>2, AnnouncedKept
  <1>7. ASSUME WriteFile(p) PROVE AtMostOne' /\ Kept'
    <2>1. PICK r : Become(p, r)
      BY <1>7 DEF WriteFile
    <2>2. s.at = "write" /\ live' = live
      BY <1>7 DEF WriteFile
    <2>3. Overlay(file, s.buf) \in Creds
      BY <2>2, WrittenFile
    <2>4. s.fd => Parses(file')
      BY <1>7, <2>3, DistinctAssumption DEF WriteFile, Parses
    <2>5. Keeps(s) => Parses(file')
      BY <2>2, <2>4 DEF Keeps
    <2>6. Parses(file) => Parses(file')
      BY <1>7, <2>4 DEF WriteFile
    <2> QED
      BY <2>1, <2>2, <2>5, <2>6, AnnouncedKept
  <1>8. ASSUME Continue(p) PROVE AtMostOne' /\ Kept'
    <2> DEFINE c == [s EXCEPT !.call = "create", !.at = "trunc",
                              !.buf = [login |-> s.who, token |-> NoToken]]
    <2>1. s.at = "done" /\ file' = file /\ live' = live
      BY <1>8 DEF Continue
    <2>2. CASE Become(p, c)
      <3>1. Keeps(c)
        BY <1>a DEF RunOK, Runs, Keeps
      <3> QED
        BY <2>1, <2>2, <3>1, AnnouncedKept
    <2>3. CASE ~s.ok \/ s.call # "announce"
      <3>1. ~Keeps(s)
        BY <2>1, <2>3 DEF Keeps
      <3>2. \E r : Become(p, r)
        BY <1>8 DEF Continue, Exit
      <3> QED
        BY <2>1, <3>1, <3>2, AnnouncedKept
    <2> QED
      BY <1>8, <2>2, <2>3 DEF Continue
  <1>9. ASSUME RemoveFile(p) PROVE AtMostOne' /\ Kept'
    BY <1>9 DEF RemoveFile, Remember, AtMostOne, Kept
  <1>10. ASSUME Lose(p) PROVE AtMostOne' /\ Kept'
    <2>1. ~Keeps(s)
      BY <1>10, <1>b DEF Lose, Remember, InFlight
    <2> QED
      BY <1>10, <2>1, ExitKeepsAnnounced DEF Lose
  <1>11. ~Crash(p)
    BY DEF Crash, Remember
  <1> QED
    BY <1>1, <1>2, <1>3, <1>4, <1>5, <1>6, <1>7, <1>8, <1>9, <1>10, <1>11 DEF Step

LEMMA InitAnnounced == Init => AnnouncedInv
  BY DEF Init, AnnouncedInv, AtMostOne, Kept

LEMMA NextAnnounced == TypeInv /\ IdentityInv /\ AnnouncedInv /\ [Next]_vars => AnnouncedInv'
  <1> SUFFICES ASSUME TypeInv, IdentityInv, AnnouncedInv, [Next]_vars, past' = {}
               PROVE  AtMostOne' /\ Kept'
    BY DEF AnnouncedInv
  <1>1. past = {} /\ AtMostOne /\ Kept
    BY PastGrows DEF AnnouncedInv
  <1>2. CASE UNCHANGED vars
    BY <1>1, <1>2 DEF vars, AtMostOne, Kept
  <1>3. PICK l : Identity(l)
    BY <1>1 DEF IdentityInv
  <1> QED
    BY <1>1, <1>2, <1>3, StepKeepsAnnounced DEF Next

\* Whatever the number of processes: a machine has at most one system on the server,
\* as long as no answer was lost, no process crashed, no identity changed beside
\* another process and Cleanup abandoned no system.
THEOREM NoSecondSystem == Spec => []AnnouncedOnce
  <1>1. Spec => []TypeInv
    BY InitTypeInv, NextTypeInv, PTL DEF Spec
  <1>2. Spec => []IdentityInv
    BY <1>1, InitIdentity, NextIdentity, PTL DEF Spec
  <1>3. Spec => []AnnouncedInv
    BY <1>1, <1>2, InitAnnounced, NextAnnounced, PTL DEF Spec
  <1>4. ASSUME AtMostOne PROVE Cardinality(live) <= 1
    <2>1. PICK l : live \subseteq {l}
      BY <1>4 DEF AtMostOne
    <2>2. live = {} \/ live = {l}
      BY <2>1
    <2>3. Cardinality({}) = 0
      BY FS_EmptySet
    <2>4. Cardinality({l}) = 1
      BY FS_Singleton
    <2> QED
      BY <2>2, <2>3, <2>4
  <1>5. AnnouncedInv => AnnouncedOnce
    BY <1>4 DEF AnnouncedInv, AnnouncedOnce
  <1> QED
    BY <1>3, <1>5, PTL
===============================================================================
